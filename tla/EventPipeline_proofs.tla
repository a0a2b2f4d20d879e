------------------------ MODULE EventPipeline_proofs ------------------------
(***************************************************************************)
(* For any items, bots, workers and bounds: a generation job writes at     *)
(* most one tweet about an event, retries and dead workers included;       *)
(* duplicates are bounded by the handlers in flight; the pipeline          *)
(* implements EventLife; and a single ingestor loses no fan-out.           *)
(***************************************************************************)
EXTENDS EventPipeline, FiniteSetTheorems, TLAPS

(* A busy generator holds an active job, and no other generator holds it.  *)
HoldsJob ==
  \A g \in Generators : Busy(g) =>
    /\ job[g] \in JobId
    /\ jobState[job[g]] = "active"
    /\ \A h \in Generators : Busy(h) /\ h # g => job[h] # job[g]

(* An ingestor that compares or creates looks at an item.                  *)
ItemsHeld ==
  \A i \in Ingestors : ingestAt[i] \in {"compare", "create"} => item[i] \in Items

(* A job that can still run has an attempt left.                           *)
AttemptsLeft ==
  \A k \in JobId : jobState[k] \in {"none", "waiting", "active"} =>
                   attempts[k] < MaxAttempts

(* What a generator is about to write is new: it has loaded the event, and *)
(* while the event is there its job has no tweet about it.                 *)
WritesNew ==
  \A g \in Generators :
    /\ generateAt[g] \in {"check", "write"} =>
         \A e \in todo[g] : event[e] # "none"
    /\ generateAt[g] = "write" =>
         \A e \in todo[g] : Live(e) => tweet[job[g]][e] = "none"

(* A tweet that was made is in the table, and was made once.               *)
MadeOnce ==
  /\ JobTweetsOnce
  /\ \A k \in JobId, e \in EventId : made[k][e] > 0 => tweet[k][e] # "none"

(* Only finitely many events are stored after another one.                 *)
NewerFinite == \A e \in EventId : IsFiniteSet(newer[e])

Inv ==
  TypeOK /\ ItemsHeld /\ NewerFinite /\ HoldsJob /\ AttemptsLeft /\ WritesNew /\ MadeOnce

(* Everything is empty at first.                                           *)
LEMMA InitInv == Init => Inv
BY MaxAttemptsAssumption, MaxFaultsAssumption, FS_EmptySet
DEF Init, Inv, TypeOK, ItemsHeld, NewerFinite, HoldsJob, AttemptsLeft, WritesNew, MadeOnce,
    JobTweetsOnce, Busy

(* New jobs carry sets of events, and the queue keeps its types.           *)
LEMMA AddJobsTypes ==
  ASSUME TypeOK, NEW given \in [Bots -> SUBSET EventId], AddJobs(given)
  PROVE  /\ jobState' \in [JobId -> {"none", "waiting", "active", "completed", "failed"}]
         /\ jobEvents' \in [JobId -> SUBSET EventId]
         /\ attempts' = attempts /\ stalled' = stalled
         /\ queued' \in [Bots -> SUBSET EventId]
         /\ \A k \in JobId : jobState[k] # "none" => jobState'[k] = jobState[k]
         /\ \A k \in JobId : jobState[k] = "none" =>
              jobState'[k] \in {"none", "waiting"}
<1>1. \A k \in JobId : BotOf(k) \in Bots
  BY DEF JobId, BotOf
<1> QED
  BY <1>1 DEF AddJobs, IsNext, TypeOK

(* Every table and every handler keeps to its set of values.               *)
LEMMA TypeStep == Inv /\ [Next]_vars => TypeOK'
<1> SUFFICES ASSUME Inv, [Next]_vars PROVE TypeOK'
  OBVIOUS
<1> USE DEF Inv, TypeOK, tables, queue, ingestors, generators, deleters
<1>1. CASE UNCHANGED vars
  BY <1>1 DEF vars
<1>2. ASSUME NEW i \in Ingestors, StartIngestion(i) PROVE TypeOK'
  BY <1>2 DEF StartIngestion, Ingesting
<1>3. ASSUME NEW i \in Ingestors, LookUp(i) PROVE TypeOK'
  <2>1. /\ feed' \in [Ingestors -> SUBSET Items]
        /\ item' \in [Ingestors -> Items \cup {NoItem}]
        /\ ingestAt' \in [Ingestors -> {"idle", "lookup", "compare", "create", "fanOut"}]
    <3>1. PICK x \in feed[i] :
            \/ /\ feed' = [feed EXCEPT ![i] = @ \ {x}]
               /\ UNCHANGED <<ingestAt, item>>
            \/ /\ item' = [item EXCEPT ![i] = x]
               /\ ingestAt' = [ingestAt EXCEPT ![i] = "compare"]
               /\ UNCHANGED feed
      BY <1>3 DEF LookUp
    <3>2. x \in Items /\ feed[i] \ {x} \in SUBSET Items
      BY <3>1
    <3> QED
      BY <3>1, <3>2
  <2> QED
    BY <1>3, <2>1, SMTT(40) DEF LookUp, Ingesting
<1>4. ASSUME NEW i \in Ingestors, CompareTitles(i) PROVE TypeOK'
  <2>1. CASE IsDuplicate(item[i])
    <3>0. feed[i] \ {item[i]} \in SUBSET Items
      OBVIOUS
    <3>1. feed' \in [Ingestors -> SUBSET Items]
      BY <1>4, <2>1, <3>0 DEF CompareTitles, NextItem
    <3> QED
      BY <1>4, <2>1, <3>1 DEF CompareTitles, Ingesting, NextItem
  <2>2. CASE ~IsDuplicate(item[i])
    BY <1>4, <2>2 DEF CompareTitles, Ingesting
  <2> QED
    BY <2>1, <2>2
<1>5. ASSUME NEW i \in Ingestors, CreateEvent(i) PROVE TypeOK'
  <2>1. item[i] \in Items
    BY <1>5 DEF CreateEvent, Ingesting, ItemsHeld
  <2>2. PICK n \in 1..Copies :
          /\ event' = [event EXCEPT ![<<item[i], n>>] = "fresh"]
          /\ newEvents' = [newEvents EXCEPT ![i] = @ \cup {<<item[i], n>>}]
    BY <1>5 DEF CreateEvent
  <2>3. <<item[i], n>> \in EventId
    BY <2>1 DEF EventId
  <2>4. /\ event' \in [EventId -> {"none", "fresh", "old", "deleted"}]
        /\ newEvents' \in [Ingestors -> SUBSET EventId]
    BY <2>2, <2>3
  <2>5. newer' \in [EventId -> SUBSET EventId]
    BY <1>5, <2>1 DEF CreateEvent, EventId
  <2> QED
    BY <1>5, <2>4, <2>5 DEF CreateEvent, Ingesting, NextItem
<1>6. ASSUME NEW i \in Ingestors, CreateThrows(i) \/ IngestionFails(i)
      PROVE  TypeOK'
  <2>1. CASE CreateThrows(i)
    BY <2>1 DEF CreateThrows, Ingesting, EndIngestion
  <2>2. CASE IngestionFails(i)
    BY <2>2, MaxFaultsAssumption DEF IngestionFails, EndIngestion
  <2> QED
    BY <1>6, <2>1, <2>2
<1>7. ASSUME NEW i \in Ingestors, EndLoop(i) PROVE TypeOK'
  <2>1. CASE newEvents[i] = {}
    <3>0. {} \in SUBSET Items /\ {} \in SUBSET EventId
      OBVIOUS
    <3>1. /\ feed' = [feed EXCEPT ![i] = {}]
          /\ newEvents' = [newEvents EXCEPT ![i] = {}]
      BY <1>7, <2>1 DEF EndLoop, EndIngestion
    <3>2. /\ feed' \in [Ingestors -> SUBSET Items]
          /\ newEvents' \in [Ingestors -> SUBSET EventId]
      BY <3>0, <3>1
    <3> QED
      BY <1>7, <2>1, <3>2, ZenonT(40) DEF EndLoop, Ingesting, EndIngestion
  <2>2. CASE newEvents[i] # {}
    BY <1>7, <2>2 DEF EndLoop, Ingesting
  <2> QED
    BY <2>1, <2>2
<1>8. ASSUME NEW i \in Ingestors, FanOut(i) PROVE TypeOK'
  <2>1. [b \in Bots |-> EventsFor(b, newEvents[i])] \in [Bots -> SUBSET EventId]
    BY DEF EventsFor
  <2> QED
    BY <1>8, <2>1, AddJobsTypes DEF FanOut, Ingesting, EndIngestion
<1>9. ASSUME NEW g \in Generators, NEW k \in JobId, TakeJob(g, k)
      PROVE  TypeOK'
  BY <1>9 DEF TakeJob, Generating
<1>10. ASSUME NEW g \in Generators, LoadEvents(g) \/ CheckTweeted(g)
       PROVE  TypeOK'
  <2>1. CASE LoadEvents(g)
    <3>1. job[g] \in JobId
      BY <2>1 DEF LoadEvents, Generating, HoldsJob, Busy
    <3>2. {e \in jobEvents[job[g]] : Live(e)} \in SUBSET EventId
      BY <3>1
    <3>3. todo' \in [Generators -> SUBSET EventId]
      BY <2>1, <3>2 DEF LoadEvents
    <3> QED
      BY <2>1, <3>3, SMTT(40) DEF LoadEvents, Generating
  <2>2. CASE CheckTweeted(g)
    <3>1. CASE Eligible(g) = {}
      BY <2>2, <3>1 DEF CheckTweeted, Generating, EndJob, Release
    <3>2. CASE Eligible(g) # {}
      <4>1. Eligible(g) \in SUBSET EventId
        BY DEF Eligible
      <4>2. todo' \in [Generators -> SUBSET EventId]
        BY <2>2, <3>2, <4>1 DEF CheckTweeted
      <4> QED
        BY <2>2, <3>2, <4>2 DEF CheckTweeted, Generating
    <3> QED
      BY <3>1, <3>2
  <2> QED
    BY <1>10, <2>1, <2>2
<1>11. ASSUME NEW g \in Generators, CreateTweet(g) PROVE TypeOK'
  <2>1. PICK e \in todo[g] :
          /\ tweet' = [tweet EXCEPT ![job[g]][e] = "open"]
          /\ made' = [made EXCEPT ![job[g]][e] = IF @ < 2 THEN @ + 1 ELSE 2]
          /\ todo' = [todo EXCEPT ![g] = @ \ {e}]
    BY <1>11 DEF CreateTweet
  <2>2. job[g] \in JobId /\ e \in EventId
    BY <1>11, <2>1 DEF CreateTweet, Generating, HoldsJob, Busy
  <2>3. tweet' \in [JobId -> [EventId -> {"none", "open", "posted", "failed"}]]
    BY <2>1, <2>2
  <2>4. made' \in [JobId -> [EventId -> 0..2]]
    <3>1. made[job[g]][e] \in 0..2
      BY <2>2
    <3>2. (IF made[job[g]][e] < 2 THEN made[job[g]][e] + 1 ELSE 2) \in 0..2
      BY <3>1
    <3> QED
      BY <2>1, <2>2, <3>2
  <2>5. todo' \in [Generators -> SUBSET EventId]
    BY <2>1, <2>2
  <2> QED
    BY <1>11, <2>3, <2>4, <2>5 DEF CreateTweet, Generating
<1>12. ASSUME NEW g \in Generators, SkipEvent(g) \/ FinishJob(g)
       PROVE  TypeOK'
  <2>1. CASE SkipEvent(g)
    <3>1. todo' \in [Generators -> SUBSET EventId]
      BY <2>1 DEF SkipEvent
    <3> QED
      BY <2>1, <3>1 DEF SkipEvent, Generating
  <2>2. CASE FinishJob(g)
    BY <2>2 DEF FinishJob, Generating, EndJob, Release
  <2> QED
    BY <1>12, <2>1, <2>2
<1>13. ASSUME NEW g \in Generators, GenerationThrows(g) PROVE TypeOK'
  <2>1. job[g] \in JobId /\ attempts[job[g]] + 1 \in 0..MaxAttempts
    BY <1>13, MaxAttemptsAssumption
    DEF GenerationThrows, HoldsJob, AttemptsLeft
  <2> QED
    BY <1>13, <2>1
    DEF GenerationThrows, Generating, FailAttempt, FailedAttempt, EndJob, Release
<1>14. ASSUME NEW g \in Generators, GeneratorDies(g) PROVE TypeOK'
  BY <1>14, MaxFaultsAssumption
  DEF GeneratorDies, Generating, EndJob, Release, HoldsJob
<1>15. ASSUME NEW d \in Deleters, NEW k \in JobId, NEW e \in EventId,
              PostTweet(d, k, e)
       PROVE  TypeOK'
  <2>1. tweet' \in [JobId -> [EventId -> {"none", "open", "posted", "failed"}]]
    BY <1>15 DEF PostTweet
  <2>2. deleteAt' \in [Deleters -> {"idle", "count", "delete"}]
        /\ targets' \in [Deleters -> SUBSET EventId]
    <3>1. CASE Live(e)
      <4>1. {e} \in SUBSET EventId
        OBVIOUS
      <4> QED
        BY <1>15, <3>1, <4>1 DEF PostTweet
    <3>2. CASE ~Live(e)
      BY <1>15, <3>2 DEF PostTweet
    <3> QED
      BY <3>1, <3>2
  <2> QED
    BY <1>15, <2>1, <2>2 DEF PostTweet, Deleting
<1>16. ASSUME NEW d \in Deleters, Cleanup(d) \/ DeleterStep(d) \/ DeleterDies(d)
       PROVE  TypeOK'
  <2>1. CASE Cleanup(d)
    <3>1. targets' \in [Deleters -> SUBSET EventId]
      BY <2>1 DEF Cleanup
    <3> QED
      BY <2>1, <3>1 DEF Cleanup, Deleting
  <2>2. CASE CountOpen(d)
    <3>1. CASE \E e \in targets[d] : Open(e)
      BY <2>2, <3>1 DEF CountOpen, Deleting, EndDeletion
    <3>2. CASE ~\E e \in targets[d] : Open(e)
      BY <2>2, <3>2 DEF CountOpen, Deleting
    <3> QED
      BY <3>1, <3>2
  <2>3. CASE DeleteEvents(d)
    <3>1. /\ event' \in [EventId -> {"none", "fresh", "old", "deleted"}]
          /\ newer' \in [EventId -> SUBSET EventId]
      BY <2>3 DEF DeleteEvents
    <3> QED
      BY <2>3, <3>1 DEF DeleteEvents, Deleting, EndDeletion
  <2>4. CASE DeleterDies(d)
    BY <2>4, MaxFaultsAssumption DEF DeleterDies, Deleting, EndDeletion
  <2> QED
    BY <1>16, <2>1, <2>2, <2>3, <2>4 DEF DeleterStep
<1>17. ASSUME NEW k \in JobId, NEW e \in EventId, FailTweet(k, e)
       PROVE  TypeOK'
  BY <1>17 DEF FailTweet
<1>18. ASSUME NEW e \in EventId, NEW b \in Bots, ForwardEvent(e, b)
       PROVE  TypeOK'
  <2>1. [c \in Bots |-> IF c = b THEN {e} ELSE {}] \in [Bots -> SUBSET EventId]
    OBVIOUS
  <2> QED
    BY <1>18, <2>1, AddJobsTypes DEF ForwardEvent
<1>19. ASSUME NEW e \in EventId, Age(e) PROVE TypeOK'
  <2>1. {} \in SUBSET EventId
    OBVIOUS
  <2> QED
    BY <1>19, <2>1 DEF Age
<1> QED
  BY <1>1, <1>2, <1>3, <1>4, <1>5, <1>6, <1>7, <1>8, <1>9, <1>10, <1>11, <1>12,
     <1>13, <1>14, <1>15, <1>16, <1>17, <1>18, <1>19
  DEF Next, IngestorStep, GeneratorStep

(* An ingestor reaches compare and create only with an item of its feed.   *)
LEMMA ItemsStep == Inv /\ [Next]_vars => ItemsHeld'
<1> SUFFICES ASSUME Inv, [Next]_vars PROVE ItemsHeld'
  OBVIOUS
<1> USE DEF Inv, TypeOK, ItemsHeld
<1>1. CASE UNCHANGED ingestors
  BY <1>1 DEF ingestors
<1>2. ASSUME NEW i \in Ingestors,
             StartIngestion(i) \/ CompareTitles(i) \/ CreateEvent(i)
               \/ CreateThrows(i) \/ EndLoop(i) \/ FanOut(i) \/ IngestionFails(i)
      PROVE  ItemsHeld'
  BY <1>2 DEF StartIngestion, CompareTitles, CreateEvent, CreateThrows, EndLoop,
              FanOut, IngestionFails, Ingesting, NextItem, EndIngestion
<1>3. ASSUME NEW i \in Ingestors, LookUp(i) PROVE ItemsHeld'
  <2>1. \A x \in feed[i] : x \in Items
    BY <1>3
  <2> QED
    BY <1>3, <2>1 DEF LookUp, Ingesting
<1> QED
  BY <1>1, <1>2, <1>3
  DEF Next, vars, ingestors, IngestorStep, GeneratorStep, DeleterStep, TakeJob,
      LoadEvents, CheckTweeted, CreateTweet, SkipEvent, FinishJob,
      GenerationThrows, GeneratorDies, Generating, PostTweet, Cleanup, CountOpen,
      DeleteEvents, DeleterDies, Deleting, FailTweet, ForwardEvent, Age

(* What was stored after an event grows by one event at a time, and is     *)
(* forgotten when the event is no longer fresh.                            *)
LEMMA NewerMoves ==
  ASSUME Inv, [Next]_vars
  PROVE  \/ newer' = newer
         \/ \E i \in Ingestors : CreateEvent(i)
         \/ \A e \in EventId : newer'[e] = newer[e] \/ (newer'[e] = {} /\ event'[e] # "fresh")
<1> USE DEF Inv, TypeOK, tables
<1>1. ASSUME NEW i \in Ingestors, StartIngestion(i) \/ IngestorStep(i) \/ IngestionFails(i)
      PROVE  newer' = newer \/ CreateEvent(i)
  BY <1>1 DEF IngestorStep, StartIngestion, LookUp, CompareTitles, CreateThrows, EndLoop,
              FanOut, IngestionFails
<1>2. ASSUME NEW g \in Generators,
             GeneratorStep(g) \/ GeneratorDies(g) \/ \E k \in JobId : TakeJob(g, k)
      PROVE  newer' = newer
  BY <1>2 DEF GeneratorStep, GeneratorDies, TakeJob, LoadEvents, CheckTweeted, CreateTweet,
              SkipEvent, FinishJob, GenerationThrows
<1>3. ASSUME NEW d \in Deleters, DeleteEvents(d)
      PROVE  \A e \in EventId : newer'[e] = newer[e] \/ (newer'[e] = {} /\ event'[e] # "fresh")
  BY <1>3 DEF DeleteEvents
<1>4. ASSUME NEW d \in Deleters,
             \/ Cleanup(d) \/ CountOpen(d) \/ DeleterDies(d)
             \/ \E k \in JobId, e \in EventId : PostTweet(d, k, e)
      PROVE  newer' = newer
  BY <1>4 DEF Cleanup, CountOpen, DeleterDies, PostTweet
<1>5. ASSUME NEW e \in EventId,
             \/ \E b \in Bots : ForwardEvent(e, b)
             \/ \E k \in JobId : FailTweet(k, e)
      PROVE  newer' = newer
  BY <1>5 DEF ForwardEvent, FailTweet
<1>6. ASSUME NEW e \in EventId, Age(e)
      PROVE  \A f \in EventId : newer'[f] = newer[f] \/ (newer'[f] = {} /\ event'[f] # "fresh")
  BY <1>6 DEF Age
<1> QED
  BY <1>1, <1>2, <1>3, <1>4, <1>5, <1>6 DEF Next, DeleterStep, vars

LEMMA NewerStep == Inv /\ [Next]_vars => NewerFinite'
<1> SUFFICES ASSUME Inv, [Next]_vars PROVE NewerFinite'
  OBVIOUS
<1>1. \A e \in EventId : IsFiniteSet(newer[e])
  BY DEF Inv, NewerFinite
<1>2. ASSUME NEW i \in Ingestors, CreateEvent(i) PROVE NewerFinite'
  <2>1. \A e \in EventId : newer'[e] = {} \/ \E f : newer'[e] = newer[e] \cup {f}
    BY <1>2 DEF CreateEvent, Inv, TypeOK
  <2>2. ASSUME NEW e \in EventId PROVE IsFiniteSet(newer'[e])
    <3>1. ASSUME NEW f, newer'[e] = newer[e] \cup {f} PROVE IsFiniteSet(newer'[e])
      <4>1. IsFiniteSet(newer[e] \cup {f})
        BY <1>1, FS_AddElement
      <4> QED
        BY <3>1, <4>1
    <3> QED
      BY <2>1, <3>1, FS_EmptySet
  <2> QED
    BY <2>2 DEF NewerFinite
<1> QED
  BY <1>1, <1>2, NewerMoves, FS_EmptySet DEF NewerFinite

(* The queue hands a waiting job to one generator, adds no active job and  *)
(* takes none away; an attempt that fails is counted.                      *)
LEMMA QueueStep == Inv /\ [Next]_vars => HoldsJob' /\ AttemptsLeft'
<1> SUFFICES ASSUME Inv, [Next]_vars PROVE HoldsJob' /\ AttemptsLeft'
  OBVIOUS
<1> USE DEF Inv, TypeOK, HoldsJob, AttemptsLeft, Busy
<1>1. CASE UNCHANGED <<jobState, attempts, generateAt, job>>
  BY <1>1
<1>2. ASSUME NEW given \in [Bots -> SUBSET EventId], AddJobs(given),
             UNCHANGED generators
      PROVE  HoldsJob' /\ AttemptsLeft'
  BY <1>2, AddJobsTypes DEF generators
<1>3. ASSUME NEW i \in Ingestors, FanOut(i) PROVE HoldsJob' /\ AttemptsLeft'
  <2>1. [b \in Bots |-> EventsFor(b, newEvents[i])] \in [Bots -> SUBSET EventId]
    BY DEF EventsFor
  <2> QED
    BY <1>2, <1>3, <2>1 DEF FanOut, Ingesting
<1>4. ASSUME NEW e \in EventId, NEW b \in Bots, ForwardEvent(e, b)
      PROVE  HoldsJob' /\ AttemptsLeft'
  <2>1. [c \in Bots |-> IF c = b THEN {e} ELSE {}] \in [Bots -> SUBSET EventId]
    OBVIOUS
  <2> QED
    BY <1>2, <1>4, <2>1 DEF ForwardEvent
<1>5. ASSUME NEW g \in Generators, NEW k \in JobId, TakeJob(g, k)
      PROVE  HoldsJob' /\ AttemptsLeft'
  BY <1>5 DEF TakeJob, Generating
<1>6. ASSUME NEW g \in Generators, NEW state \in {"completed", "failed"},
             Busy(g), EndJob(g, state), UNCHANGED attempts
      PROVE  HoldsJob' /\ AttemptsLeft'
  BY <1>6 DEF EndJob, Release
<1>7. ASSUME NEW g \in Generators, LoadEvents(g) \/ CreateTweet(g) \/ SkipEvent(g)
      PROVE  HoldsJob' /\ AttemptsLeft'
  BY <1>7 DEF LoadEvents, CreateTweet, SkipEvent, Generating
<1>8. ASSUME NEW g \in Generators, CheckTweeted(g)
      PROVE  HoldsJob' /\ AttemptsLeft'
  <2>1. CASE Eligible(g) = {}
    BY <1>6, <1>8, <2>1 DEF CheckTweeted, Generating
  <2>2. CASE Eligible(g) # {}
    BY <1>8, <2>2 DEF CheckTweeted, Generating
  <2> QED
    BY <2>1, <2>2
<1>9. ASSUME NEW g \in Generators, FinishJob(g)
      PROVE  HoldsJob' /\ AttemptsLeft'
  BY <1>6, <1>9 DEF FinishJob, Generating
<1>10. ASSUME NEW g \in Generators, GenerationThrows(g)
       PROVE  HoldsJob' /\ AttemptsLeft'
  BY <1>10, MaxAttemptsAssumption
  DEF GenerationThrows, FailAttempt, FailedAttempt, EndJob, Release
<1>11. ASSUME NEW g \in Generators, GeneratorDies(g)
       PROVE  HoldsJob' /\ AttemptsLeft'
  BY <1>11 DEF GeneratorDies, EndJob, Release
<1> QED
  BY <1>1, <1>3, <1>4, <1>5, <1>7, <1>8, <1>9, <1>10, <1>11
  DEF Next, vars, queue, generators, IngestorStep, GeneratorStep, DeleterStep,
      StartIngestion, LookUp, CompareTitles, CreateEvent, CreateThrows, EndLoop,
      IngestionFails, Ingesting, PostTweet, Cleanup, CountOpen, DeleteEvents,
      DeleterDies, Deleting, FailTweet, Age

(* Events are stored once under an id, and tweets are never taken back, so *)
(* what was new when a generator checked is new when it writes: nobody     *)
(* else writes for its job.                                                *)
LEMMA WritesStep == Inv /\ [Next]_vars => WritesNew' /\ MadeOnce'
<1> SUFFICES ASSUME Inv, [Next]_vars PROVE WritesNew' /\ MadeOnce'
  OBVIOUS
<1> USE DEF Inv, TypeOK, WritesNew, MadeOnce, JobTweetsOnce
<1>1. CASE UNCHANGED <<event, tweet, made, generateAt, job, todo>>
  BY <1>1 DEF Live
<1>2. ASSUME NEW i \in Ingestors, CreateEvent(i)
      PROVE  WritesNew' /\ MadeOnce'
  <2>1. \A e \in EventId : event[e] # "none" => event'[e] = event[e]
    BY <1>2 DEF CreateEvent
  <2> QED
    BY <1>2, <2>1, SMTT(40) DEF CreateEvent, Ingesting, generators, Live
<1>3. ASSUME \A e \in EventId : event'[e] = event[e]
                                  \/ (event[e] # "none" /\ event'[e] = "deleted")
                                  \/ (event[e] = "fresh" /\ event'[e] = "old"),
             UNCHANGED <<tweet, made, generateAt, job, todo>>
      PROVE  WritesNew' /\ MadeOnce'
  <2>1. \A e \in EventId : event[e] # "none" =>
          event'[e] # "none" /\ (Live(e)' => Live(e))
    BY <1>3 DEF Live
  <2>2. \A g \in Generators : \A e \in todo[g] : e \in EventId
    OBVIOUS
  <2>3. WritesNew'
    <3> SUFFICES ASSUME NEW g \in Generators, NEW e \in todo[g],
                        generateAt[g] \in {"check", "write"}
                 PROVE  /\ event'[e] # "none"
                        /\ generateAt[g] = "write" /\ Live(e)' =>
                             tweet[job[g]][e] = "none"
      BY <1>3
    <3> QED
      BY <2>1, <2>2
  <2> QED
    BY <1>3, <2>3
<1>4. ASSUME NEW e \in EventId, Age(e) PROVE WritesNew' /\ MadeOnce'
  <2>1. \A f \in EventId : event'[f] = event[f]
                             \/ (event[f] = "fresh" /\ event'[f] = "old")
    BY <1>4 DEF Age
  <2>2. UNCHANGED <<tweet, made, generateAt, job, todo>>
    BY <1>4 DEF Age, generators
  <2> QED
    BY <1>3, <2>1, <2>2
<1>5. ASSUME NEW d \in Deleters, DeleteEvents(d)
      PROVE  WritesNew' /\ MadeOnce'
  <2>1. \A e \in EventId : event'[e] = IF e \in targets[d] /\ Live(e)
                                       THEN "deleted" ELSE event[e]
    BY <1>5 DEF DeleteEvents
  <2>2. \A e \in EventId : event'[e] = event[e]
                             \/ (event[e] # "none" /\ event'[e] = "deleted")
    BY <2>1 DEF Live
  <2>3. UNCHANGED <<tweet, made, generateAt, job, todo>>
    BY <1>5 DEF DeleteEvents, Deleting, generators
  <2> QED
    BY <1>3, <2>2, <2>3
<1>6. ASSUME NEW k \in JobId, NEW e \in EventId, NEW s,
             tweet[k][e] = "open", tweet' = [tweet EXCEPT ![k][e] = s], s # "none",
             UNCHANGED <<event, made, generateAt, job, todo>>
      PROVE  WritesNew' /\ MadeOnce'
  <2>1. \A l \in JobId, f \in EventId :
          tweet'[l][f] # tweet[l][f] => tweet[l][f] # "none" /\ tweet'[l][f] # "none"
    BY <1>6
  <2>2. \A g \in Generators : generateAt[g] = "write" => job[g] \in JobId
    BY DEF HoldsJob, Busy
  <2> QED
    BY <1>6, <2>1, <2>2 DEF Live
<1>7. ASSUME NEW d \in Deleters, NEW k \in JobId, NEW e \in EventId,
             PostTweet(d, k, e)
      PROVE  WritesNew' /\ MadeOnce'
  BY <1>6, <1>7 DEF PostTweet, Deleting, generators
<1>8. ASSUME NEW k \in JobId, NEW e \in EventId, FailTweet(k, e)
      PROVE  WritesNew' /\ MadeOnce'
  BY <1>6, <1>8 DEF FailTweet, generators
<1>9. ASSUME NEW g \in Generators, Release(g), UNCHANGED tables
      PROVE  WritesNew' /\ MadeOnce'
  BY <1>9 DEF Release, tables, Live
<1>10. ASSUME NEW g \in Generators, NEW k \in JobId, TakeJob(g, k)
       PROVE  WritesNew' /\ MadeOnce'
  BY <1>10 DEF TakeJob, tables, Live
<1>11. ASSUME NEW g \in Generators, LoadEvents(g)
       PROVE  WritesNew' /\ MadeOnce'
  BY <1>11 DEF LoadEvents, tables, Live
<1>12. ASSUME NEW g \in Generators, CheckTweeted(g)
       PROVE  WritesNew' /\ MadeOnce'
  <2>1. CASE Eligible(g) = {}
    BY <1>9, <1>12, <2>1 DEF CheckTweeted, EndJob
  <2>2. CASE Eligible(g) # {}
    <3>1. \A e \in Eligible(g) : e \in todo[g]
                                 /\ (Live(e) => tweet[job[g]][e] = "none")
      BY <1>12 DEF Eligible, Tweeted, HoldsJob, Busy, CheckTweeted, Generating
    <3>2. /\ todo' = [todo EXCEPT ![g] = Eligible(g)]
          /\ generateAt' = [generateAt EXCEPT ![g] = "write"]
          /\ UNCHANGED <<event, tweet, made, job>>
      BY <1>12, <2>2 DEF CheckTweeted, tables
    <3>3. generateAt[g] = "check"
      BY <1>12 DEF CheckTweeted, Generating
    <3> QED
      BY <3>1, <3>2, <3>3 DEF Live
  <2> QED
    BY <2>1, <2>2
<1>13. ASSUME NEW g \in Generators, CreateTweet(g)
       PROVE  WritesNew' /\ MadeOnce'
  <2>1. PICK e \in todo[g] :
          /\ Live(e)
          /\ tweet' = [tweet EXCEPT ![job[g]][e] = "open"]
          /\ made' = [made EXCEPT ![job[g]][e] = IF @ < 2 THEN @ + 1 ELSE 2]
          /\ todo' = [todo EXCEPT ![g] = @ \ {e}]
    BY <1>13 DEF CreateTweet
  <2>2. /\ job[g] \in JobId /\ e \in EventId /\ generateAt[g] = "write"
        /\ \A h \in Generators : generateAt[h] = "write" /\ h # g =>
             job[h] \in JobId /\ job[h] # job[g]
    BY <1>13, <2>1 DEF CreateTweet, Generating, HoldsJob, Busy
  <2>3. made[job[g]][e] = 0
    <3>1. tweet[job[g]][e] = "none"
      BY <2>1, <2>2
    <3>2. made[job[g]][e] \in 0..2 /\ ~(made[job[g]][e] > 0)
      BY <2>2, <3>1
    <3> QED
      BY <3>2
  <2>4. \A k \in JobId, f \in EventId : k # job[g] \/ f # e =>
          tweet'[k][f] = tweet[k][f] /\ made'[k][f] = made[k][f]
    BY <2>1, <2>2
  <2>5. tweet'[job[g]][e] = "open" /\ made'[job[g]][e] = 1
    BY <2>1, <2>2, <2>3
  <2>6. MadeOnce'
    <3> SUFFICES ASSUME NEW k \in JobId, NEW f \in EventId
                 PROVE  made'[k][f] <= 1 /\ (made'[k][f] > 0 => tweet'[k][f] # "none")
      OBVIOUS
    <3>1. CASE k = job[g] /\ f = e
      BY <2>5, <3>1
    <3>2. CASE k # job[g] \/ f # e
      BY <2>4, <3>2
    <3> QED
      BY <3>1, <3>2
  <2>7. WritesNew'
    BY <1>13, <2>1, <2>2, <2>4 DEF CreateTweet, Live
  <2> QED
    BY <2>6, <2>7
<1>14. ASSUME NEW g \in Generators, SkipEvent(g)
       PROVE  WritesNew' /\ MadeOnce'
  BY <1>14 DEF SkipEvent, Generating, tables, Live
<1>15. ASSUME NEW g \in Generators,
              FinishJob(g) \/ GenerationThrows(g) \/ GeneratorDies(g)
       PROVE  WritesNew' /\ MadeOnce'
  BY <1>9, <1>15
  DEF FinishJob, GenerationThrows, GeneratorDies, FailAttempt, EndJob
<1> QED
  BY <1>1, <1>2, <1>4, <1>5, <1>7, <1>8, <1>10, <1>11, <1>12, <1>13, <1>14, <1>15
  DEF Next, vars, tables, generators, IngestorStep, GeneratorStep, DeleterStep,
      StartIngestion, LookUp, CompareTitles, CreateThrows, EndLoop, FanOut,
      IngestionFails, Ingesting, Cleanup, CountOpen, DeleterDies, Deleting,
      ForwardEvent

(* The inductive invariant holds in every reachable state.                 *)
THEOREM Invariance == Spec => []Inv
<1>1. Inv /\ [Next]_vars => Inv'
  BY TypeStep, ItemsStep, NewerStep, QueueStep, WritesStep DEF Inv
<1> QED
  BY InitInv, <1>1, PTL DEF Spec

(* Tables, jobs and handlers keep to their sets of values.                 *)
THEOREM TypeCorrect == Spec => []TypeOK
<1>1. Inv => TypeOK
  BY DEF Inv
<1> QED
  BY Invariance, <1>1, PTL

(* A job writes at most one tweet about an event.                          *)
THEOREM TweetsOnce == Spec => []JobTweetsOnce
<1>1. Inv => JobTweetsOnce
  BY DEF Inv, MadeOnce
<1> QED
  BY Invariance, <1>1, PTL

-----------------------------------------------------------------------------
(* Fresh events of one story and category that the look-up reaches, and    *)
(* the ingestors that are about to store another one: they have all        *)
(* compared before any of these was stored.                                *)
Told(S) ==
  \A e, f \in S : /\ Category[ItemOf(e)] = Category[ItemOf(f)]
                  /\ e # f => SimilarEvents(e, f)

FreshCliques ==
  {S \in SUBSET {e \in EventId : event[e] = "fresh" /\ InReach(e)} : Told(S)}

Joining(S) ==
  {i \in Ingestors : /\ ingestAt[i] = "create"
                     /\ \A e \in S : /\ <<item[i], ItemOf(e)>> \in Similar
                                    /\ Category[ItemOf(e)] = Category[item[i]]}

SimilarCounted ==
  \A S \in FreshCliques :
    /\ IsFiniteSet(S)
    /\ Cardinality(S) + Cardinality(Joining(S)) <= Cardinality(Ingestors)

(* The jobs of a bot that have tweeted about an event, and the generators  *)
(* that are about to.                                                      *)
Tweeters(b, e) == {k \in JobId : BotOf(k) = b /\ tweet[k][e] # "none"}

Writers(b, e) ==
  {g \in Generators : /\ generateAt[g] = "write" /\ BotOf(job[g]) = b
                      /\ e \in todo[g] /\ Live(e)}

DuplicatesCounted ==
  \A b \in Bots, e \in EventId :
    /\ IsFiniteSet(Tweeters(b, e))
    /\ Cardinality(Tweeters(b, e)) + Cardinality(Writers(b, e)) <= Cardinality(Generators)

(* A set that counts together with a set of slots: it keeps its bound when *)
(* neither grows, and when a slot makes room for a new element.            *)
LEMMA CountShrinks ==
  ASSUME NEW S, NEW J, NEW N \in Nat, NEW T, NEW K, IsFiniteSet(S), IsFiniteSet(J),
         Cardinality(S) + Cardinality(J) <= N, T \subseteq S, K \subseteq J
  PROVE  IsFiniteSet(T) /\ Cardinality(T) + Cardinality(K) <= N
<1>1. /\ IsFiniteSet(T) /\ Cardinality(T) <= Cardinality(S)
      /\ IsFiniteSet(K) /\ Cardinality(K) <= Cardinality(J)
  BY FS_Subset
<1>2. /\ Cardinality(S) \in Nat /\ Cardinality(J) \in Nat
      /\ Cardinality(T) \in Nat /\ Cardinality(K) \in Nat
  BY <1>1, FS_CardinalityType
<1> QED
  BY <1>1, <1>2

LEMMA CountMoves ==
  ASSUME NEW S, NEW J, NEW N \in Nat, NEW T, NEW K, NEW x, NEW i, IsFiniteSet(S), IsFiniteSet(J),
         Cardinality(S) + Cardinality(J) <= N,
         T \subseteq S \cup {x}, i \in J, K \subseteq J \ {i}
  PROVE  IsFiniteSet(T) /\ Cardinality(T) + Cardinality(K) <= N
<1>1. /\ IsFiniteSet(S \cup {x}) /\ Cardinality(S \cup {x}) <= Cardinality(S) + 1
  <2>1. Cardinality(S) \in Nat
    BY FS_CardinalityType
  <2>2. /\ IsFiniteSet(S \cup {x})
        /\ Cardinality(S \cup {x}) = IF x \in S THEN Cardinality(S) ELSE Cardinality(S) + 1
    BY FS_AddElement
  <2> QED
    BY <2>1, <2>2
<1>2. IsFiniteSet(J \ {i}) /\ Cardinality(J \ {i}) = Cardinality(J) - 1
  BY FS_RemoveElement
<1>3. /\ IsFiniteSet(T) /\ Cardinality(T) <= Cardinality(S \cup {x})
      /\ IsFiniteSet(K) /\ Cardinality(K) <= Cardinality(J \ {i})
  BY <1>1, <1>2, FS_Subset
<1>4. /\ Cardinality(S) \in Nat /\ Cardinality(J) \in Nat /\ Cardinality(S \cup {x}) \in Nat
      /\ Cardinality(T) \in Nat /\ Cardinality(K) \in Nat /\ Cardinality(J \ {i}) \in Nat
  BY <1>1, <1>2, <1>3, FS_CardinalityType
<1> QED
  BY <1>1, <1>2, <1>3, <1>4

LEMMA NothingCounted ==
  ASSUME NEW J, NEW I, IsFiniteSet(I), J \subseteq I
  PROVE  /\ IsFiniteSet({}) /\ IsFiniteSet(J)
         /\ Cardinality({}) + Cardinality(J) <= Cardinality(I)
<1>1. IsFiniteSet(J) /\ Cardinality(J) <= Cardinality(I)
  BY FS_Subset
<1>2. Cardinality(J) \in Nat /\ Cardinality(I) \in Nat /\ Cardinality({}) = 0 /\ IsFiniteSet({})
  BY <1>1, FS_EmptySet, FS_CardinalityType
<1> QED
  BY <1>1, <1>2

(* An event that is in reach was in reach before, and the look-up found it.*)
LEMMA ReachShrinks ==
  ASSUME Inv, [Next]_vars, NEW e \in EventId, event[e] = "fresh", event'[e] = "fresh",
         InReach(e)'
  PROVE  InReach(e)
<1> DEFINE C == SameCategory(ItemOf(e))
<1>1. newer[e] \subseteq newer'[e]
  <2>1. ASSUME NEW i \in Ingestors, CreateEvent(i) PROVE newer[e] \subseteq newer'[e]
    BY <2>1 DEF CreateEvent
  <2> QED
    BY <2>1, NewerMoves
<1>2. IsFiniteSet(newer'[e] \cap C)
  BY NewerStep, FS_Intersection DEF NewerFinite
<1>3. /\ newer[e] \cap C \subseteq newer'[e] \cap C
      /\ Cardinality(newer'[e] \cap C) < Recent
  BY <1>1 DEF InReach, SameCategory
<1> HIDE DEF C
<1>4. /\ IsFiniteSet(newer[e] \cap C)
      /\ Cardinality(newer[e] \cap C) <= Cardinality(newer'[e] \cap C)
  BY <1>2, <1>3, FS_Subset
<1>5. Cardinality(newer[e] \cap C) < Recent
  BY <1>2, <1>3, <1>4, FS_CardinalityType, RecentAssumption
<1> QED
  BY <1>5 DEF C, InReach

LEMMA ReachFound ==
  ASSUME Inv, NEW e \in EventId, event[e] = "fresh", InReach(e), NEW x,
         Category[ItemOf(e)] = Category[x]
  PROVE  e \in RecentEvents(x)
<1> DEFINE C == SameCategory(x)
           F == {f \in newer[e] \cap C : event[f] = "fresh"}
<1>1. /\ e \in C
      /\ Cardinality(newer[e] \cap C) < Recent
  BY DEF InReach, SameCategory
<1>2. IsFiniteSet(newer[e] \cap C)
  BY FS_Intersection DEF Inv, NewerFinite
<1>3. F \subseteq newer[e] \cap C
  OBVIOUS
<1> HIDE DEF C, F
<1>4. IsFiniteSet(F) /\ Cardinality(F) <= Cardinality(newer[e] \cap C)
  BY <1>2, <1>3, FS_Subset
<1>5. Cardinality(F) < Recent
  BY <1>1, <1>2, <1>4, FS_CardinalityType, RecentAssumption
<1> QED
  BY <1>1, <1>5 DEF C, F, RecentEvents

(* While an ingestor is about to store an item, no event in reach was      *)
(* similar when it compared: each event of the story that is stored since  *)
(* then took the place of an ingestor that was about to store it.          *)
LEMMA SimilarStep == Inv /\ SimilarCounted /\ [Next]_vars => SimilarCounted'
<1> DEFINE Fits(S) == /\ IsFiniteSet(S)
                      /\ Cardinality(S) + Cardinality(Joining(S)') <= Cardinality(Ingestors)
<1> SUFFICES ASSUME Inv, SimilarCounted, [Next]_vars, NEW S \in FreshCliques'
             PROVE  Fits(S)
  BY DEF SimilarCounted
<1>0. /\ Cardinality(Ingestors) \in Nat
      /\ \A T : IsFiniteSet(Joining(T)) /\ Joining(T) \subseteq Ingestors
                /\ Joining(T)' \subseteq Ingestors
  BY SlotsAssumption, FS_Subset, FS_CardinalityType DEF Joining
<1>1. ASSUME S \in FreshCliques, Joining(S)' \subseteq Joining(S) PROVE Fits(S)
  BY <1>0, <1>1, CountShrinks DEF SimilarCounted
<1>a. ASSUME NEW e \in S, event[e] = "fresh" PROVE e \in EventId /\ InReach(e)
  BY <1>a, ReachShrinks DEF FreshCliques
<1>b. /\ S \subseteq EventId /\ Told(S)
      /\ \A e \in S : event'[e] = "fresh"
  BY DEF FreshCliques, Told, SimilarEvents
<1>2. ASSUME \A e \in EventId : event'[e] = "fresh" => event[e] = "fresh"
      PROVE  S \in FreshCliques
  BY <1>2, <1>a, <1>b DEF FreshCliques
<1>3. ASSUME \A e \in EventId : event'[e] = "fresh" => event[e] = "fresh",
             \A i \in Ingestors : ingestAt'[i] = "create" =>
               ingestAt[i] = "create" /\ item'[i] = item[i]
      PROVE  Fits(S)
  <2>1. Joining(S)' \subseteq Joining(S)
    BY <1>3 DEF Joining
  <2> QED
    BY <1>1, <1>2, <1>3, <2>1
<1>4. CASE UNCHANGED <<event, ingestAt, item>>
  BY <1>3, <1>4
<1>5. ASSUME NEW e \in EventId, Age(e) PROVE Fits(S)
  BY <1>3, <1>5 DEF Age, ingestors, Inv, TypeOK
<1>6. ASSUME NEW d \in Deleters, DeleteEvents(d) PROVE Fits(S)
  BY <1>3, <1>6 DEF DeleteEvents, Deleting, ingestors
<1>7. ASSUME NEW i \in Ingestors,
             StartIngestion(i) \/ LookUp(i) \/ CreateThrows(i) \/ EndLoop(i) \/ FanOut(i)
               \/ IngestionFails(i)
      PROVE  Fits(S)
  <2>1. event' = event
    BY <1>7 DEF StartIngestion, LookUp, CreateThrows, EndLoop, FanOut, IngestionFails, tables
  <2>2. \A j \in Ingestors : ingestAt'[j] = "create" =>
          ingestAt[j] = "create" /\ item'[j] = item[j]
    <3>1. CASE StartIngestion(i) \/ EndLoop(i) \/ FanOut(i) \/ CreateThrows(i)
      BY <3>1 DEF StartIngestion, EndLoop, FanOut, CreateThrows, EndIngestion, Inv, TypeOK
    <3>2. CASE LookUp(i)
      BY <3>2 DEF LookUp, Ingesting, Inv, TypeOK
    <3>3. CASE IngestionFails(i)
      BY <3>3 DEF IngestionFails, EndIngestion, Inv, TypeOK
    <3> QED
      BY <1>7, <3>1, <3>2, <3>3
  <2> QED
    BY <1>3, <2>1, <2>2
<1>8. ASSUME NEW i \in Ingestors, CompareTitles(i) PROVE Fits(S)
  <2>1. event' = event /\ S \in FreshCliques
    BY <1>2, <1>8 DEF CompareTitles
  <2>2. CASE S = {}
    BY <1>0, <2>2, NothingCounted, SlotsAssumption
  <2>3. CASE S # {}
    <3>1. PICK e \in S : e \in EventId /\ event[e] = "fresh" /\ InReach(e)
      BY <2>1, <2>3 DEF FreshCliques
    <3>2. /\ \A j \in Ingestors \ {i} : ingestAt'[j] = ingestAt[j] /\ item'[j] = item[j]
          /\ ingestAt'[i] = "create" => item'[i] = item[i] /\ ~IsDuplicate(item[i])
      BY <1>8 DEF CompareTitles, NextItem, Inv, TypeOK
    <3>3. i \notin Joining(S)'
      BY <3>1, <3>2, ReachFound DEF Joining, IsDuplicate
    <3>4. Joining(S)' \subseteq Joining(S)
      BY <3>2, <3>3 DEF Joining
    <3> QED
      BY <1>1, <2>1, <3>4
  <2> QED
    BY <2>2, <2>3
<1>9. ASSUME NEW i \in Ingestors, CreateEvent(i) PROVE Fits(S)
  <2>1. PICK n \in 1..Copies : event' = [event EXCEPT ![<<item[i], n>>] = "fresh"]
    BY <1>9 DEF CreateEvent
  <2> DEFINE new == <<item[i], n>>
             T == S \ {new}
  <2>2. /\ \A f \in EventId : f # new => event'[f] = event[f]
        /\ ItemOf(new) = item[i]
    BY <2>1 DEF ItemOf, Inv, TypeOK
  <2>3. /\ ingestAt[i] = "create" /\ ingestAt'[i] # "create"
        /\ \A j \in Ingestors \ {i} : ingestAt'[j] = ingestAt[j] /\ item'[j] = item[j]
    BY <1>9 DEF CreateEvent, Ingesting, NextItem, Inv, TypeOK
  <2> HIDE DEF new
  <2>4. T \in FreshCliques
    BY <2>2, <1>a, <1>b DEF FreshCliques, Told
  <2>5. Joining(S)' \subseteq Joining(T) \ {i}
    BY <2>3 DEF Joining
  <2>6. CASE new \notin S
    <3>1. T = S
      BY <2>6
    <3> QED
      BY <1>1, <2>4, <2>5, <3>1
  <2>7. CASE new \in S
    <3>1. i \in Joining(T)
      BY <2>2, <2>3, <2>7, <1>b DEF Told, SimilarEvents, Joining
    <3>2. S \subseteq T \cup {new}
      OBVIOUS
    <3>3. IsFiniteSet(T) /\ Cardinality(T) + Cardinality(Joining(T)) <= Cardinality(Ingestors)
      BY <2>4 DEF SimilarCounted
    <3> HIDE DEF T
    <3> QED
      BY <1>0, <2>5, <3>1, <3>2, <3>3, CountMoves
  <2> QED
    BY <2>6, <2>7
<1> HIDE DEF Fits
<1> QED
  BY <1>4, <1>5, <1>6, <1>7, <1>8, <1>9
  DEF Next, vars, ingestors, IngestorStep, GeneratorStep, DeleterStep, TakeJob,
      LoadEvents, CheckTweeted, CreateTweet, SkipEvent, FinishJob,
      GenerationThrows, GeneratorDies, Generating, PostTweet, Cleanup, CountOpen,
      DeleterDies, Deleting, FailTweet, ForwardEvent, tables

(* A generator writes for an event only if its bot had no tweet about it   *)
(* when it checked: each tweet since then took the place of a generator    *)
(* that was about to write one.                                            *)
LEMMA DuplicatesStep == Inv /\ DuplicatesCounted /\ [Next]_vars => DuplicatesCounted'
<1> SUFFICES ASSUME Inv, DuplicatesCounted, [Next]_vars, NEW b \in Bots, NEW e \in EventId
             PROVE  /\ IsFiniteSet(Tweeters(b, e)')
                    /\ Cardinality(Tweeters(b, e)') + Cardinality(Writers(b, e)')
                         <= Cardinality(Generators)
  BY DEF DuplicatesCounted
<1> DEFINE Fits == /\ IsFiniteSet(Tweeters(b, e)')
                   /\ Cardinality(Tweeters(b, e)') + Cardinality(Writers(b, e)')
                        <= Cardinality(Generators)
<1>0. /\ Cardinality(Generators) \in Nat
      /\ IsFiniteSet(Writers(b, e)) /\ Writers(b, e)' \subseteq Generators
      /\ IsFiniteSet(Tweeters(b, e))
      /\ Cardinality(Tweeters(b, e)) + Cardinality(Writers(b, e)) <= Cardinality(Generators)
  BY SlotsAssumption, FS_Subset, FS_CardinalityType DEF Writers, DuplicatesCounted
<1>1. ASSUME Tweeters(b, e)' \subseteq Tweeters(b, e), Writers(b, e)' \subseteq Writers(b, e)
      PROVE  Fits
  BY <1>0, <1>1, CountShrinks
<1>2. ASSUME tweet' = tweet, Live(e)' => Live(e),
             \A g \in Generators : generateAt'[g] = "write" =>
               generateAt[g] = "write" /\ job'[g] = job[g] /\ todo'[g] \subseteq todo[g]
      PROVE  Fits
  <2>1. Writers(b, e)' \subseteq Writers(b, e)
    BY <1>2 DEF Writers
  <2>2. Tweeters(b, e)' \subseteq Tweeters(b, e)
    BY <1>2 DEF Tweeters
  <2> QED
    BY <1>1, <2>1, <2>2
<1>3. ASSUME UNCHANGED <<event, tweet, generateAt, job, todo>> PROVE Fits
  BY <1>2, <1>3 DEF Live
<1>4. ASSUME NEW i \in Ingestors, CreateEvent(i) PROVE Fits
  <2>1. /\ UNCHANGED <<tweet, generateAt, job, todo>>
        /\ event[e] # "none" => event'[e] = event[e]
    BY <1>4 DEF CreateEvent, Ingesting, generators, Inv, TypeOK
  <2>2. CASE event[e] = "none"
    <3>1. Writers(b, e)' = {}
      BY <2>1, <2>2 DEF Writers, Inv, WritesNew
    <3>2. Tweeters(b, e)' \subseteq Tweeters(b, e)
      BY <2>1 DEF Tweeters
    <3> QED
      BY <1>1, <3>1, <3>2
  <2>3. CASE event[e] # "none"
    BY <1>2, <2>1, <2>3 DEF Live
  <2> QED
    BY <2>2, <2>3
<1>5. ASSUME NEW f \in EventId, Age(f) PROVE Fits
  <2>1. Live(e)' => Live(e)
    BY <1>5 DEF Age, Live, Inv, TypeOK
  <2> QED
    BY <1>2, <1>5, <2>1 DEF Age, generators
<1>6. ASSUME NEW d \in Deleters, DeleteEvents(d) PROVE Fits
  <2>1. Live(e)' => Live(e)
    BY <1>6 DEF DeleteEvents, Live
  <2> QED
    BY <1>2, <1>6, <2>1 DEF DeleteEvents, Deleting, generators
<1>7. ASSUME NEW k \in JobId, NEW f \in EventId, NEW s,
             tweet[k][f] = "open", tweet' = [tweet EXCEPT ![k][f] = s],
             UNCHANGED <<event, generateAt, job, todo>>
      PROVE  Fits
  <2>1. Tweeters(b, e)' \subseteq Tweeters(b, e)
    BY <1>7 DEF Tweeters, Inv, TypeOK
  <2>2. Writers(b, e)' \subseteq Writers(b, e)
    BY <1>7 DEF Writers, Live
  <2> QED
    BY <1>1, <2>1, <2>2
<1>8. ASSUME NEW k \in JobId, NEW f \in EventId,
             FailTweet(k, f) \/ \E d \in Deleters : PostTweet(d, k, f)
      PROVE  Fits
  BY <1>7, <1>8 DEF PostTweet, FailTweet, Deleting, generators
<1>9. ASSUME NEW g \in Generators, Release(g), UNCHANGED tables PROVE Fits
  <2>1. \A h \in Generators : generateAt'[h] = "write" =>
          generateAt[h] = "write" /\ job'[h] = job[h] /\ todo'[h] \subseteq todo[h]
    BY <1>9 DEF Release, Inv, TypeOK
  <2> QED
    BY <1>2, <1>9, <2>1 DEF tables, Live
<1>10. ASSUME NEW g \in Generators,
              LoadEvents(g) \/ SkipEvent(g) \/ \E k \in JobId : TakeJob(g, k)
       PROVE  Fits
  <2>1. \A h \in Generators : generateAt'[h] = "write" =>
          generateAt[h] = "write" /\ job'[h] = job[h] /\ todo'[h] \subseteq todo[h]
    <3>1. CASE LoadEvents(g)
      BY <3>1 DEF LoadEvents, Generating, Inv, TypeOK
    <3>2. CASE SkipEvent(g)
      <4>1. UNCHANGED <<generateAt, job>> /\ \E f \in todo[g] : todo' = [todo EXCEPT ![g] = @ \ {f}]
        BY <3>2 DEF SkipEvent
      <4> QED
        BY <4>1 DEF Inv, TypeOK
    <3>3. CASE \E k \in JobId : TakeJob(g, k)
      BY <3>3 DEF TakeJob, Generating, Inv, TypeOK
    <3> QED
      BY <1>10, <3>1, <3>2, <3>3
  <2>2. UNCHANGED tables
    BY <1>10 DEF LoadEvents, SkipEvent, TakeJob
  <2> QED
    BY <1>2, <2>1, <2>2 DEF tables, Live
<1>11. ASSUME NEW g \in Generators, CheckTweeted(g) PROVE Fits
  <2>1. CASE Eligible(g) = {}
    BY <1>9, <1>11, <2>1 DEF CheckTweeted, EndJob
  <2>2. CASE Eligible(g) # {}
    <3>1. /\ UNCHANGED <<event, tweet>> /\ job' = job /\ generateAt'[g] = "write"
          /\ \A h \in Generators \ {g} : generateAt'[h] = generateAt[h] /\ todo'[h] = todo[h]
          /\ todo'[g] = Eligible(g)
      BY <1>11, <2>2 DEF CheckTweeted, Generating, tables, Inv, TypeOK
    <3>2. CASE g \in Writers(b, e)'
      <4>1. Live(e) /\ e \in Eligible(g) /\ BotOf(job[g]) = b
        BY <3>1, <3>2 DEF Writers, Live
      <4>2. Tweeters(b, e)' = {}
        BY <3>1, <4>1 DEF Eligible, Tweeted, Tweeters
      <4> QED
        BY <1>0, <4>2, NothingCounted, SlotsAssumption
    <3>3. CASE g \notin Writers(b, e)'
      <4>1. Writers(b, e)' \subseteq Writers(b, e)
        BY <3>1, <3>3 DEF Writers, Live
      <4>2. Tweeters(b, e)' \subseteq Tweeters(b, e)
        BY <3>1 DEF Tweeters
      <4> QED
        BY <1>1, <4>1, <4>2
    <3> QED
      BY <3>2, <3>3
  <2> QED
    BY <2>1, <2>2
<1>12. ASSUME NEW g \in Generators, CreateTweet(g) PROVE Fits
  <2>1. PICK f \in todo[g] :
          /\ Live(f)
          /\ tweet' = [tweet EXCEPT ![job[g]][f] = "open"]
          /\ todo' = [todo EXCEPT ![g] = @ \ {f}]
    BY <1>12 DEF CreateTweet
  <2>2. /\ job[g] \in JobId /\ f \in EventId /\ generateAt[g] = "write"
        /\ UNCHANGED <<event, generateAt, job>>
    BY <1>12, <2>1 DEF CreateTweet, Generating, Busy, Inv, HoldsJob, TypeOK
  <2>3. /\ \A k \in JobId : k # job[g] => tweet'[k][e] = tweet[k][e]
        /\ f # e => tweet'[job[g]][e] = tweet[job[g]][e]
        /\ \A h \in Generators : todo'[h] \subseteq todo[h]
        /\ f \notin todo'[g]
    BY <2>1, <2>2 DEF Inv, TypeOK
  <2>4. Writers(b, e)' \subseteq Writers(b, e)
    BY <2>2, <2>3 DEF Writers, Live
  <2>5. CASE f = e /\ BotOf(job[g]) = b
    <3>1. g \in Writers(b, e) /\ g \notin Writers(b, e)'
      BY <2>1, <2>2, <2>3, <2>5 DEF Writers
    <3>2. Tweeters(b, e)' \subseteq Tweeters(b, e) \cup {job[g]}
      BY <2>3 DEF Tweeters
    <3>3. Writers(b, e)' \subseteq Writers(b, e) \ {g}
      BY <2>4, <3>1
    <3> QED
      BY <1>0, <3>1, <3>2, <3>3, CountMoves
  <2>6. CASE ~(f = e /\ BotOf(job[g]) = b)
    <3>1. Tweeters(b, e)' \subseteq Tweeters(b, e)
      BY <2>2, <2>3, <2>6 DEF Tweeters
    <3> QED
      BY <1>1, <2>4, <3>1
  <2> QED
    BY <2>5, <2>6
<1>13. ASSUME NEW g \in Generators,
              FinishJob(g) \/ GenerationThrows(g) \/ GeneratorDies(g)
       PROVE  Fits
  BY <1>9, <1>13
  DEF FinishJob, GenerationThrows, GeneratorDies, FailAttempt, EndJob
<1> HIDE DEF Fits
<1>14. ASSUME NEW i \in Ingestors, StartIngestion(i) \/ IngestorStep(i) \/ IngestionFails(i)
       PROVE  Fits
  <2>1. CreateEvent(i) \/ UNCHANGED <<event, tweet, generateAt, job, todo>>
    BY <1>14 DEF IngestorStep, StartIngestion, LookUp, CompareTitles, CreateThrows, EndLoop,
                 FanOut, IngestionFails, Ingesting, tables, generators
  <2> QED
    BY <1>3, <1>4, <2>1
<1>15. ASSUME NEW d \in Deleters, Cleanup(d) \/ DeleterStep(d) \/ DeleterDies(d)
       PROVE  Fits
  <2>1. DeleteEvents(d) \/ UNCHANGED <<event, tweet, generateAt, job, todo>>
    BY <1>15 DEF DeleterStep, Cleanup, CountOpen, DeleterDies, Deleting, generators
  <2> QED
    BY <1>3, <1>6, <2>1
<1>16. ASSUME NEW f \in EventId, NEW c \in Bots, ForwardEvent(f, c) PROVE Fits
  BY <1>3, <1>16 DEF ForwardEvent, tables, generators
<1>17. Fits
  BY <1>3, <1>5, <1>8, <1>10, <1>11, <1>12, <1>13, <1>14, <1>15, <1>16
  DEF Next, GeneratorStep, vars
<1> QED
  BY <1>17 DEF Fits

(* Nothing is stored, and nobody writes, at first.                         *)
LEMMA CountsInit == Init => SimilarCounted /\ DuplicatesCounted
<1> SUFFICES ASSUME Init PROVE SimilarCounted /\ DuplicatesCounted
  OBVIOUS
<1>1. \A S \in FreshCliques : S = {} /\ Joining(S) \subseteq Ingestors
  BY DEF Init, FreshCliques, Joining
<1>2. \A b \in Bots, e \in EventId :
        Tweeters(b, e) = {} /\ Writers(b, e) \subseteq Generators
  BY DEF Init, Tweeters, Writers
<1> QED
  BY <1>1, <1>2, NothingCounted, SlotsAssumption DEF SimilarCounted, DuplicatesCounted

(* Of one story, as many events are fresh together as there are ingestion  *)
(* workers, and never more: EventsService.createMany compares and creates  *)
(* in two statements.                                                      *)
THEOREM StoriesBounded == Spec => []SimilarBounded
<1>1. SimilarCounted => SimilarBounded
  <2> SUFFICES ASSUME SimilarCounted, NEW S \in FreshCliques
               PROVE  Cardinality(S) <= Cardinality(Ingestors)
    BY DEF SimilarBounded, FreshCliques, Told
  <2>1. IsFiniteSet(S) /\ IsFiniteSet(Joining(S))
    BY SlotsAssumption, FS_Subset DEF SimilarCounted, Joining
  <2>2. /\ Cardinality(S) \in Nat /\ Cardinality(Joining(S)) \in Nat
        /\ Cardinality(Ingestors) \in Nat
    BY <2>1, SlotsAssumption, FS_CardinalityType
  <2>3. Cardinality(S) + Cardinality(Joining(S)) <= Cardinality(Ingestors)
    BY DEF SimilarCounted
  <2> QED
    BY <2>2, <2>3
<1> QED
  BY <1>1, CountsInit, SimilarStep, Invariance, PTL DEF Spec

(* A bot tweets about an event at most as often as there are generation    *)
(* workers: AiGenerationService checks and writes in two statements.       *)
THEOREM TweetsBounded == Spec => []DuplicatesBounded
<1>1. DuplicatesCounted => DuplicatesBounded
  <2> SUFFICES ASSUME DuplicatesCounted, NEW b \in Bots, NEW e \in EventId
               PROVE  Cardinality(Tweeters(b, e)) <= Cardinality(Generators)
    BY DEF DuplicatesBounded, Tweeters
  <2>1. IsFiniteSet(Tweeters(b, e)) /\ IsFiniteSet(Writers(b, e))
    BY SlotsAssumption, FS_Subset DEF DuplicatesCounted, Writers
  <2>2. /\ Cardinality(Tweeters(b, e)) \in Nat /\ Cardinality(Writers(b, e)) \in Nat
        /\ Cardinality(Generators) \in Nat
    BY <2>1, SlotsAssumption, FS_CardinalityType
  <2>3. Cardinality(Tweeters(b, e)) + Cardinality(Writers(b, e)) <= Cardinality(Generators)
    BY DEF DuplicatesCounted
  <2> QED
    BY <2>2, <2>3
<1> QED
  BY <1>1, CountsInit, DuplicatesStep, Invariance, PTL DEF Spec

-----------------------------------------------------------------------------
(* The refinement.  What a job works on was queued for its bot.            *)
JobsGiven ==
  /\ \A k \in JobId : jobEvents[k] \subseteq queued[BotOf(k)]
  /\ \A g \in Generators : generateAt[g] \in {"check", "write"} =>
                             todo[g] \subseteq queued[BotOf(job[g])]

(* What a deleter is going to delete is old, or posted, and stays so until *)
(* it is deleted.                                                          *)
TargetsDue ==
  \A d \in Deleters : \A e \in targets[d] :
    event[e] \in {"old", "deleted"} \/ e \in PostedEvents

LifeStep == [Life!LifeNext]_(Life!lifeVars)

(* What EventLife sees of the tweets: nothing when none is written, a new  *)
(* one of a job that had none, and the end of an open one.                 *)
LEMMA SameTweets == tweet' = tweet => UNCHANGED <<TweetedEvents, PostedEvents>>
BY DEF TweetedEvents, PostedEvents

LEMMA TweetTables ==
  ASSUME Inv
  PROVE  /\ tweet \in [JobId -> [EventId -> {"none", "open", "posted", "failed"}]]
         /\ \A k \in JobId : BotOf(k) \in Bots
BY DEF Inv, TypeOK, JobId, BotOf

LEMMA TweetCreated ==
  ASSUME Inv, NEW k \in JobId, NEW e \in EventId, tweet[k][e] = "none",
         tweet' = [tweet EXCEPT ![k][e] = "open"]
  PROVE  /\ TweetedEvents' = [TweetedEvents EXCEPT ![BotOf(k)] = @ \cup {e}]
         /\ PostedEvents' = PostedEvents
<1>1. /\ tweet'[k][e] = "open"
      /\ \A l \in JobId, f \in EventId : l # k \/ f # e => tweet'[l][f] = tweet[l][f]
  BY TweetTables
<1>2. \A l \in JobId, f \in EventId : tweet'[l][f] = "posted" <=> tweet[l][f] = "posted"
  BY <1>1
<1>3. PostedEvents' = PostedEvents
  BY <1>2 DEF PostedEvents
<1>4. \A l \in JobId, f \in EventId :
        tweet'[l][f] # "none" <=> tweet[l][f] # "none" \/ (l = k /\ f = e)
  BY <1>1
<1>5. ASSUME NEW b \in Bots
      PROVE  TweetedEvents'[b] = TweetedEvents[b] \cup (IF b = BotOf(k) THEN {e} ELSE {})
  BY <1>4 DEF TweetedEvents
<1> QED
  BY <1>3, <1>5 DEF TweetedEvents

LEMMA TweetEnds ==
  ASSUME Inv, NEW k \in JobId, NEW e \in EventId, tweet[k][e] = "open",
         NEW s \in {"posted", "failed"}, tweet' = [tweet EXCEPT ![k][e] = s]
  PROVE  /\ TweetedEvents' = TweetedEvents
         /\ \E b \in Bots : e \in TweetedEvents[b]
         /\ PostedEvents' = PostedEvents \cup (IF s = "posted" THEN {e} ELSE {})
<1>1. /\ tweet'[k][e] = s
      /\ \A l \in JobId, f \in EventId : l # k \/ f # e => tweet'[l][f] = tweet[l][f]
  BY TweetTables
<1>2. \A l \in JobId, f \in EventId : tweet'[l][f] # "none" <=> tweet[l][f] # "none"
  BY <1>1
<1>3. TweetedEvents' = TweetedEvents
  BY <1>2 DEF TweetedEvents
<1>4. BotOf(k) \in Bots /\ e \in TweetedEvents[BotOf(k)]
  BY TweetTables DEF TweetedEvents
<1>5. \A l \in JobId, f \in EventId :
        tweet'[l][f] = "posted" <=> tweet[l][f] = "posted" \/ (s = "posted" /\ l = k /\ f = e)
  BY <1>1
<1>6. PostedEvents' = PostedEvents \cup (IF s = "posted" THEN {e} ELSE {})
  BY <1>5 DEF PostedEvents
<1> QED
  BY <1>3, <1>4, <1>6

(* New jobs carry what is queued for their bot.                            *)
LEMMA AddJobsGives ==
  ASSUME Inv, JobsGiven, NEW given \in [Bots -> SUBSET EventId], AddJobs(given),
         UNCHANGED generators
  PROVE  JobsGiven' /\ queued' = [b \in Bots |-> queued[b] \cup given[b]]
<1>1. queued' = [b \in Bots |-> queued[b] \cup given[b]]
  BY DEF AddJobs
<1>2. \A k \in JobId : BotOf(k) \in Bots
  BY DEF JobId, BotOf
<1>3. \A k \in JobId : jobEvents'[k] = jobEvents[k] \/ jobEvents'[k] = given[BotOf(k)]
  BY DEF AddJobs
<1>4. \A k \in JobId : jobEvents'[k] \subseteq queued'[BotOf(k)]
  BY <1>1, <1>2, <1>3 DEF JobsGiven
<1>5. \A g \in Generators : generateAt[g] \in {"check", "write"} => BotOf(job[g]) \in Bots
  BY <1>2 DEF Inv, HoldsJob, Busy
<1>6. \A g \in Generators : generateAt'[g] \in {"check", "write"} =>
                              todo'[g] \subseteq queued'[BotOf(job'[g])]
  BY <1>1, <1>5 DEF generators, JobsGiven
<1> QED
  BY <1>1, <1>4, <1>6 DEF JobsGiven

(* A generator takes its events from the data of its job.                  *)
LEMMA GivenStep == Inv /\ JobsGiven /\ [Next]_vars => JobsGiven'
<1> SUFFICES ASSUME Inv, JobsGiven, [Next]_vars PROVE JobsGiven'
  OBVIOUS
<1>1. ASSUME UNCHANGED <<jobEvents, queued, generateAt, job, todo>> PROVE JobsGiven'
  BY <1>1 DEF JobsGiven
<1>2. ASSUME NEW i \in Ingestors, FanOut(i) PROVE JobsGiven'
  <2>1. [b \in Bots |-> EventsFor(b, newEvents[i])] \in [Bots -> SUBSET EventId]
    BY DEF EventsFor, Inv, TypeOK
  <2> QED
    BY <1>2, <2>1, AddJobsGives DEF FanOut, Ingesting
<1>3. ASSUME NEW e \in EventId, NEW b \in Bots, ForwardEvent(e, b) PROVE JobsGiven'
  <2>1. [c \in Bots |-> IF c = b THEN {e} ELSE {}] \in [Bots -> SUBSET EventId]
    OBVIOUS
  <2> QED
    BY <1>3, <2>1, AddJobsGives DEF ForwardEvent
<1>4. ASSUME NEW g \in Generators, UNCHANGED <<jobEvents, queued>>,
             \A h \in Generators : generateAt'[h] \in {"check", "write"} =>
               generateAt[h] \in {"check", "write"} /\ job'[h] = job[h] /\ todo'[h] \subseteq todo[h]
      PROVE  JobsGiven'
  BY <1>4 DEF JobsGiven
<1>5. ASSUME NEW g \in Generators, Release(g), UNCHANGED <<jobEvents, queued>> PROVE JobsGiven'
  BY <1>4, <1>5 DEF Release, Inv, TypeOK
<1>6. ASSUME NEW g \in Generators, LoadEvents(g) PROVE JobsGiven'
  <2>1. /\ UNCHANGED <<jobEvents, queued, job>> /\ job[g] \in JobId
        /\ \A h \in Generators \ {g} : generateAt'[h] = generateAt[h] /\ todo'[h] = todo[h]
        /\ todo'[g] \subseteq jobEvents[job[g]]
    BY <1>6 DEF LoadEvents, Generating, HoldsJob, Busy, Inv, TypeOK
  <2> QED
    BY <2>1 DEF JobsGiven
<1>7. ASSUME NEW g \in Generators, CheckTweeted(g) PROVE JobsGiven'
  <2>1. CASE Eligible(g) = {}
    BY <1>5, <1>7, <2>1 DEF CheckTweeted, Generating, EndJob
  <2>2. CASE Eligible(g) # {}
    <3>1. /\ UNCHANGED <<jobEvents, queued, job>> /\ generateAt[g] = "check"
          /\ generateAt' = [generateAt EXCEPT ![g] = "write"]
          /\ todo' = [todo EXCEPT ![g] = Eligible(g)]
      BY <1>7, <2>2 DEF CheckTweeted, Generating
    <3>2. Eligible(g) \subseteq todo[g]
      BY DEF Eligible
    <3> QED
      BY <1>4, <3>1, <3>2 DEF Inv, TypeOK
  <2> QED
    BY <2>1, <2>2
<1>8. ASSUME NEW g \in Generators, CreateTweet(g) \/ SkipEvent(g) PROVE JobsGiven'
  <2>1. /\ UNCHANGED <<jobEvents, queued, generateAt, job>>
        /\ \E e \in todo[g] : todo' = [todo EXCEPT ![g] = @ \ {e}]
    BY <1>8 DEF CreateTweet, SkipEvent, Generating
  <2>2. \A h \in Generators : todo'[h] \subseteq todo[h]
    BY <2>1 DEF Inv, TypeOK
  <2> QED
    BY <1>4, <2>1, <2>2
<1>9. ASSUME NEW g \in Generators, NEW k \in JobId, TakeJob(g, k) PROVE JobsGiven'
  BY <1>4, <1>9 DEF TakeJob, Generating, Inv, TypeOK
<1>10. ASSUME NEW g \in Generators,
              FinishJob(g) \/ GenerationThrows(g) \/ GeneratorDies(g)
       PROVE  JobsGiven'
  BY <1>5, <1>10
  DEF FinishJob, GenerationThrows, GeneratorDies, Generating, FailAttempt, EndJob
<1>11. ASSUME NEW i \in Ingestors, StartIngestion(i) \/ IngestorStep(i) \/ IngestionFails(i)
       PROVE  JobsGiven'
  <2>1. FanOut(i) \/ UNCHANGED <<jobEvents, queued, generateAt, job, todo>>
    BY <1>11 DEF IngestorStep, StartIngestion, LookUp, CompareTitles, CreateEvent, CreateThrows,
                 EndLoop, IngestionFails, Ingesting, queue, generators
  <2> QED
    BY <1>1, <1>2, <2>1
<1>12. ASSUME NEW d \in Deleters,
              \/ Cleanup(d) \/ DeleterStep(d) \/ DeleterDies(d)
              \/ \E k \in JobId, e \in EventId : PostTweet(d, k, e)
       PROVE  JobsGiven'
  <2>1. UNCHANGED <<queue, generators>>
    BY <1>12 DEF DeleterStep, Cleanup, CountOpen, DeleteEvents, DeleterDies, PostTweet, Deleting
  <2> QED
    BY <1>1, <2>1 DEF queue, generators
<1>13. ASSUME NEW k \in JobId, NEW e \in EventId, FailTweet(k, e) PROVE JobsGiven'
  BY <1>1, <1>13 DEF FailTweet, queue, generators
<1>14. ASSUME NEW e \in EventId, Age(e) PROVE JobsGiven'
  BY <1>1, <1>14 DEF Age, queue, generators
<1> QED
  BY <1>1, <1>3, <1>6, <1>7, <1>8, <1>9, <1>10, <1>11, <1>12, <1>13, <1>14
  DEF Next, GeneratorStep, vars

(* An old event does not become fresh again, and a posted tweet is not     *)
(* written again, so what a deleter has read may still be deleted later.   *)
LEMMA TargetsStep == Inv /\ TargetsDue /\ [Next]_vars => TargetsDue'
<1> SUFFICES ASSUME Inv, TargetsDue, [Next]_vars PROVE TargetsDue'
  OBVIOUS
<1>0. /\ event \in [EventId -> {"none", "fresh", "old", "deleted"}]
      /\ targets \in [Deleters -> SUBSET EventId]
  BY DEF Inv, TypeOK
<1>1. ASSUME \A e \in EventId : event[e] \in {"old", "deleted"} => event'[e] \in {"old", "deleted"},
             PostedEvents \subseteq PostedEvents',
             \A d \in Deleters : targets'[d] \subseteq targets[d]
      PROVE  TargetsDue'
  BY <1>0, <1>1 DEF TargetsDue
<1>2. ASSUME UNCHANGED <<event, tweet, targets>> PROVE TargetsDue'
  BY <1>1, <1>2, SameTweets
<1>3. ASSUME NEW i \in Ingestors, CreateEvent(i) PROVE TargetsDue'
  <2>1. \A e \in EventId : event[e] # "none" => event'[e] = event[e]
    BY <1>0, <1>3 DEF CreateEvent
  <2>2. UNCHANGED <<tweet, targets>>
    BY <1>3 DEF CreateEvent, Ingesting, deleters
  <2> QED
    BY <1>1, <2>1, <2>2, SameTweets
<1>4. ASSUME NEW e \in EventId, Age(e) PROVE TargetsDue'
  <2>1. \A f \in EventId : event[f] # "fresh" => event'[f] = event[f]
    BY <1>0, <1>4 DEF Age
  <2>2. UNCHANGED <<tweet, targets>>
    BY <1>4 DEF Age, deleters
  <2> QED
    BY <1>1, <2>1, <2>2, SameTweets
<1>5. ASSUME NEW g \in Generators, CreateTweet(g) PROVE TargetsDue'
  <2>1. PICK e \in todo[g] : Live(e) /\ tweet' = [tweet EXCEPT ![job[g]][e] = "open"]
    BY <1>5 DEF CreateTweet
  <2>2. /\ job[g] \in JobId /\ e \in EventId /\ tweet[job[g]][e] = "none"
    BY <1>5, <2>1 DEF CreateTweet, Generating, Inv, HoldsJob, Busy, WritesNew, TypeOK
  <2>3. PostedEvents' = PostedEvents
    BY <2>1, <2>2, TweetCreated
  <2> QED
    BY <1>1, <1>5, <2>3 DEF CreateTweet, Generating, deleters
<1>6. ASSUME NEW k \in JobId, NEW e \in EventId, FailTweet(k, e) PROVE TargetsDue'
  <2>1. PostedEvents' = PostedEvents
    BY <1>6, TweetEnds DEF FailTweet
  <2> QED
    BY <1>1, <1>6, <2>1 DEF FailTweet, deleters
<1>7. ASSUME NEW d \in Deleters, NEW k \in JobId, NEW e \in EventId, PostTweet(d, k, e)
      PROVE  TargetsDue'
  <2>1. PostedEvents' = PostedEvents \cup {e}
    BY <1>7, TweetEnds DEF PostTweet
  <2>2. /\ event' = event
        /\ \A c \in Deleters : targets'[c] \subseteq targets[c] \cup {e}
    BY <1>0, <1>7 DEF PostTweet, deleters
  <2> QED
    BY <1>0, <2>1, <2>2 DEF TargetsDue
<1>8. ASSUME NEW d \in Deleters, Cleanup(d) PROVE TargetsDue'
  <2>1. UNCHANGED <<event, tweet>>
    BY <1>8 DEF Cleanup
  <2>2. /\ \A c \in Deleters \ {d} : targets'[c] = targets[c]
        /\ \A e \in targets'[d] : event[e] = "old"
    BY <1>0, <1>8 DEF Cleanup, Removable
  <2>3. PostedEvents' = PostedEvents
    BY <2>1, SameTweets
  <2> QED
    BY <2>1, <2>2, <2>3 DEF TargetsDue
<1>9. ASSUME NEW d \in Deleters, CountOpen(d) \/ DeleterDies(d) PROVE TargetsDue'
  <2>1. UNCHANGED <<event, tweet>> /\ \A c \in Deleters : targets'[c] \subseteq targets[c]
    BY <1>0, <1>9 DEF CountOpen, DeleterDies, EndDeletion
  <2> QED
    BY <1>1, <2>1, SameTweets
<1>10. ASSUME NEW d \in Deleters, DeleteEvents(d) PROVE TargetsDue'
  <2>1. tweet' = tweet /\ \A c \in Deleters : targets'[c] \subseteq targets[c]
    BY <1>0, <1>10 DEF DeleteEvents, EndDeletion
  <2>2. \A e \in EventId : event[e] \in {"old", "deleted"} => event'[e] \in {"old", "deleted"}
    BY <1>10 DEF DeleteEvents
  <2> QED
    BY <1>1, <2>1, <2>2, SameTweets
<1>11. ASSUME NEW i \in Ingestors, StartIngestion(i) \/ IngestorStep(i) \/ IngestionFails(i)
       PROVE  TargetsDue'
  <2>1. CreateEvent(i) \/ UNCHANGED <<event, tweet, targets>>
    BY <1>11 DEF IngestorStep, StartIngestion, LookUp, CompareTitles, CreateThrows,
                 EndLoop, FanOut, IngestionFails, Ingesting, tables, deleters
  <2> QED
    BY <1>2, <1>3, <2>1
<1>12. ASSUME NEW g \in Generators,
              GeneratorStep(g) \/ GeneratorDies(g) \/ \E k \in JobId : TakeJob(g, k)
       PROVE  TargetsDue'
  <2>1. CreateTweet(g) \/ UNCHANGED <<event, tweet, targets>>
    BY <1>12 DEF GeneratorStep, GeneratorDies, TakeJob, LoadEvents, CheckTweeted, SkipEvent,
                 FinishJob, GenerationThrows, Generating, tables, deleters
  <2> QED
    BY <1>2, <1>5, <2>1
<1>13. ASSUME NEW e \in EventId, NEW b \in Bots, ForwardEvent(e, b) PROVE TargetsDue'
  BY <1>2, <1>13 DEF ForwardEvent, tables, deleters
<1> QED
  BY <1>2, <1>4, <1>6, <1>7, <1>8, <1>9, <1>10, <1>11, <1>12, <1>13
  DEF Next, DeleterStep, vars

(* Storing takes the first free key of an item that is not stored.         *)
LEMMA StoreSeen ==
  ASSUME Inv, NEW i \in Ingestors, CreateEvent(i)
  PROVE  LifeStep
<1>1. /\ item[i] \in Items /\ ~Stored(item[i])
      /\ event \in [EventId -> {"none", "fresh", "old", "deleted"}]
  BY DEF CreateEvent, Ingesting, Inv, ItemsHeld, TypeOK
<1>2. PICK n \in 1..Copies : /\ event[<<item[i], n>>] = "none"
                             /\ event' = [event EXCEPT ![<<item[i], n>>] = "fresh"]
  BY DEF CreateEvent
<1>3. <<item[i], n>> \in EventId
  BY <1>1 DEF EventId
<1>4. \A f \in EventId : ItemOf(f) = item[i] => ~Live(f)
  BY <1>1 DEF Stored, EventId, ItemOf
<1>5. UNCHANGED <<queued, tweet>>
  BY DEF CreateEvent, Ingesting, queue
<1>6. ItemOf(<<item[i], n>>) = item[i]
  BY DEF ItemOf
<1>7. Life!Store(<<item[i], n>>)
  BY <1>2, <1>3, <1>4, <1>5, <1>6, SameTweets DEF Life!Store, Life!Present, Live
<1> QED
  BY <1>3, <1>7 DEF LifeStep, Life!LifeNext

(* Only events that are there are given to a bot.                          *)
LEMMA GiveSeen ==
  ASSUME Inv, NEW given \in [Bots -> SUBSET EventId], AddJobs(given),
         \A b \in Bots : \A e \in given[b] : Live(e), UNCHANGED <<event, tweet>>
  PROVE  LifeStep
<1>1. queued' = [b \in Bots |-> queued[b] \cup given[b]]
  BY DEF AddJobs
<1>2. queued \in [Bots -> SUBSET EventId]
  BY DEF Inv, TypeOK
<1>3. Life!Give
  BY <1>1, <1>2, SameTweets DEF Life!Give, Life!Present, Live
<1> QED
  BY <1>3 DEF LifeStep, Life!LifeNext

(* A tweet is about an event that is there and was given to the bot.       *)
LEMMA DraftSeen ==
  ASSUME Inv, JobsGiven, NEW g \in Generators, CreateTweet(g)
  PROVE  LifeStep
<1>1. PICK e \in todo[g] : Live(e) /\ tweet' = [tweet EXCEPT ![job[g]][e] = "open"]
  BY DEF CreateTweet
<1>2. /\ job[g] \in JobId /\ e \in EventId /\ tweet[job[g]][e] = "none"
      /\ e \in queued[BotOf(job[g])] /\ BotOf(job[g]) \in Bots
  BY <1>1, TweetTables
  DEF CreateTweet, Generating, Inv, HoldsJob, Busy, WritesNew, TypeOK, JobsGiven
<1>3. /\ TweetedEvents' = [TweetedEvents EXCEPT ![BotOf(job[g])] = @ \cup {e}]
      /\ PostedEvents' = PostedEvents
  BY <1>1, <1>2, TweetCreated
<1>4. UNCHANGED <<event, queued>>
  BY DEF CreateTweet, Generating
<1>5. Life!Draft(BotOf(job[g]), e)
  BY <1>1, <1>2, <1>3, <1>4 DEF Life!Draft, Life!Present, Live
<1> QED
  BY <1>2, <1>5 DEF LifeStep, Life!LifeNext

(* A post shares the event of an open tweet, and a failure shares nothing. *)
LEMMA PostSeen ==
  ASSUME Inv, NEW k \in JobId, NEW e \in EventId,
         FailTweet(k, e) \/ \E d \in Deleters : PostTweet(d, k, e)
  PROVE  LifeStep
<1>1. UNCHANGED <<event, queued>>
  BY DEF FailTweet, PostTweet, Deleting, queue
<1>2. CASE FailTweet(k, e)
  <2>1. UNCHANGED <<TweetedEvents, PostedEvents>>
    BY <1>2, TweetEnds DEF FailTweet
  <2> QED
    BY <1>1, <2>1 DEF LifeStep, Life!lifeVars
<1>3. CASE \E d \in Deleters : PostTweet(d, k, e)
  <2>1. tweet[k][e] = "open" /\ tweet' = [tweet EXCEPT ![k][e] = "posted"]
    BY <1>3 DEF PostTweet
  <2>2. /\ TweetedEvents' = TweetedEvents /\ PostedEvents' = PostedEvents \cup {e}
        /\ \E b \in Bots : e \in TweetedEvents[b]
    BY <2>1, TweetEnds
  <2>3. Life!Share(e)
    BY <1>1, <2>2 DEF Life!Share
  <2> QED
    BY <2>3 DEF LifeStep, Life!LifeNext
<1> QED
  BY <1>2, <1>3

(* What is deleted is old, or posted.                                      *)
LEMMA RemoveSeen ==
  ASSUME Inv, TargetsDue, NEW d \in Deleters, DeleteEvents(d)
  PROVE  LifeStep
<1>1. /\ event' = [e \in EventId |-> IF e \in targets[d] /\ Live(e) THEN "deleted" ELSE event[e]]
      /\ UNCHANGED <<queued, tweet>>
      /\ event \in [EventId -> {"none", "fresh", "old", "deleted"}]
  BY DEF DeleteEvents, Deleting, queue, Inv, TypeOK
<1>2. \A e \in targets[d] : Live(e) =>
        event[e] = "old" \/ (event[e] \in {"fresh", "old"} /\ e \in PostedEvents)
  BY DEF TargetsDue, Live
<1>3. Life!Remove
  BY <1>1, <1>2, SameTweets DEF Life!Remove, Life!Removable, Life!Present
<1> QED
  BY <1>3 DEF LifeStep, Life!LifeNext

(* Every step of the pipeline is a step of EventLife, or none.             *)
LEMMA NextLives == Inv /\ JobsGiven /\ TargetsDue /\ [Next]_vars => LifeStep
<1> SUFFICES ASSUME Inv, JobsGiven, TargetsDue, [Next]_vars PROVE LifeStep
  OBVIOUS
<1>1. ASSUME UNCHANGED <<event, queued, tweet>> PROVE LifeStep
  BY <1>1, SameTweets DEF LifeStep, Life!lifeVars
<1>2. ASSUME NEW e \in EventId, Age(e) PROVE LifeStep
  <2>1. Life!GrowOld(e)
    BY <1>2, SameTweets DEF Age, Life!GrowOld, queue
  <2> QED
    BY <2>1 DEF LifeStep, Life!LifeNext
<1>3. ASSUME NEW i \in Ingestors, FanOut(i) PROVE LifeStep
  <2>1. [b \in Bots |-> EventsFor(b, newEvents[i])] \in [Bots -> SUBSET EventId]
    BY DEF EventsFor, Inv, TypeOK
  <2>2. \A b \in Bots : \A e \in EventsFor(b, newEvents[i]) : Live(e)
    BY DEF EventsFor
  <2> QED
    BY <1>3, <2>1, <2>2, GiveSeen DEF FanOut, Ingesting
<1>4. ASSUME NEW e \in EventId, NEW b \in Bots, ForwardEvent(e, b) PROVE LifeStep
  <2>1. [c \in Bots |-> IF c = b THEN {e} ELSE {}] \in [Bots -> SUBSET EventId]
    OBVIOUS
  <2> QED
    BY <1>4, <2>1, GiveSeen DEF ForwardEvent, tables
<1>5. ASSUME NEW i \in Ingestors, StartIngestion(i) \/ IngestorStep(i) \/ IngestionFails(i)
      PROVE  LifeStep
  <2>1. CreateEvent(i) \/ FanOut(i) \/ UNCHANGED <<event, queued, tweet>>
    BY <1>5 DEF IngestorStep, StartIngestion, LookUp, CompareTitles, CreateThrows,
                EndLoop, IngestionFails, Ingesting, tables, queue
  <2> QED
    BY <1>1, <1>3, <2>1, StoreSeen
<1>6. ASSUME NEW g \in Generators,
             GeneratorStep(g) \/ GeneratorDies(g) \/ \E k \in JobId : TakeJob(g, k)
      PROVE  LifeStep
  <2>1. CreateTweet(g) \/ UNCHANGED <<event, queued, tweet>>
    BY <1>6 DEF GeneratorStep, GeneratorDies, TakeJob, LoadEvents, CheckTweeted, SkipEvent,
                FinishJob, GenerationThrows, Generating, tables
  <2> QED
    BY <1>1, <2>1, DraftSeen
<1>7. ASSUME NEW d \in Deleters, Cleanup(d) \/ DeleterStep(d) \/ DeleterDies(d) PROVE LifeStep
  <2>1. DeleteEvents(d) \/ UNCHANGED <<event, queued, tweet>>
    BY <1>7 DEF DeleterStep, Cleanup, CountOpen, DeleterDies, Deleting, queue
  <2> QED
    BY <1>1, <2>1, RemoveSeen
<1> QED
  BY <1>1, <1>2, <1>4, <1>5, <1>6, <1>7, PostSeen DEF Next, vars

(* The pipeline implements EventLife, for any feeds, bots and workers.     *)
THEOREM EventLifeImplemented == Spec => EventLifeRefined
<1>1. Init => Life!LifeInit /\ JobsGiven /\ TargetsDue
  BY DEF Init, Life!LifeInit, JobsGiven, TargetsDue, TweetedEvents, PostedEvents
<1>2. Inv /\ JobsGiven /\ TargetsDue /\ [Next]_vars => JobsGiven' /\ TargetsDue'
  BY GivenStep, TargetsStep
<1>3. Inv /\ JobsGiven /\ TargetsDue /\ [Next]_vars => [Life!LifeNext]_(Life!lifeVars)
  BY NextLives DEF LifeStep
<1> QED
  BY <1>1, <1>2, <1>3, Invariance, PTL DEF Spec, EventLifeRefined, Life!LifeSpec

-----------------------------------------------------------------------------
(* What the lost fan-out needs.  The run EventFanOutLost shows two         *)
(* ingestors losing one; a fault loses one as well.  A single ingestor     *)
(* creates only what its look-up did not find.                             *)
CreatesUnstored ==
  \A i \in Ingestors : ingestAt[i] \in {"compare", "create"} => ~Stored(item[i])

(* One slot of the ingestion worker in all replicas, no item whose date    *)
(* makes its create throw, and nothing else that fails.                    *)
Alone == (\A i, j \in Ingestors : i = j) /\ Undated = {} /\ MaxFaults = 0

(* An event does not come back: only its creation makes it live.           *)
LEMMA LiveOnlyShrinks ==
  ASSUME Inv, [Next]_vars, \A i \in Ingestors : ~CreateEvent(i)
  PROVE  \A e \in EventId : Live(e)' => Live(e)
<1>1. ASSUME NEW e \in EventId, Age(e) PROVE \A f \in EventId : Live(f)' => Live(f)
  BY <1>1 DEF Age, Live, Inv, TypeOK
<1>2. ASSUME NEW d \in Deleters, DeleteEvents(d) PROVE \A f \in EventId : Live(f)' => Live(f)
  BY <1>2 DEF DeleteEvents, Live, Inv, TypeOK
<1>3. ASSUME event' = event PROVE \A f \in EventId : Live(f)' => Live(f)
  BY <1>3 DEF Live
<1>4. ASSUME NEW i \in Ingestors, StartIngestion(i) \/ IngestorStep(i) \/ IngestionFails(i)
      PROVE  event' = event
  BY <1>4 DEF IngestorStep, StartIngestion, LookUp, CompareTitles, CreateThrows, EndLoop,
              FanOut, IngestionFails, tables
<1>5. ASSUME NEW g \in Generators,
             GeneratorStep(g) \/ GeneratorDies(g) \/ \E k \in JobId : TakeJob(g, k)
      PROVE  event' = event
  BY <1>5 DEF GeneratorStep, GeneratorDies, TakeJob, LoadEvents, CheckTweeted, CreateTweet,
              SkipEvent, FinishJob, GenerationThrows, tables
<1>6. ASSUME NEW d \in Deleters,
             \/ Cleanup(d) \/ CountOpen(d) \/ DeleterDies(d)
             \/ \E k \in JobId, e \in EventId : PostTweet(d, k, e)
      PROVE  event' = event
  BY <1>6 DEF Cleanup, CountOpen, DeleterDies, PostTweet
<1>7. ASSUME NEW k \in JobId, NEW e \in EventId, FailTweet(k, e) PROVE event' = event
  BY <1>7 DEF FailTweet
<1>8. ASSUME NEW e \in EventId, NEW b \in Bots, ForwardEvent(e, b) PROVE event' = event
  BY <1>8 DEF ForwardEvent, tables
<1> QED
  BY <1>1, <1>2, <1>3, <1>4, <1>5, <1>6, <1>7, <1>8 DEF Next, DeleterStep, vars

(* The queue forgets nothing it was given.                                 *)
LEMMA QueueKeeps ==
  ASSUME Inv, [Next]_vars
  PROVE  \A b \in Bots : queued[b] \subseteq queued'[b]
<1>1. ASSUME NEW given, AddJobs(given) PROVE \A b \in Bots : queued[b] \subseteq queued'[b]
  BY <1>1 DEF AddJobs
<1>2. ASSUME queued' = queued PROVE \A b \in Bots : queued[b] \subseteq queued'[b]
  BY <1>2
<1>3. ASSUME NEW i \in Ingestors, StartIngestion(i) \/ IngestorStep(i) \/ IngestionFails(i)
      PROVE  queued' = queued \/ \E given : AddJobs(given)
  BY <1>3 DEF IngestorStep, StartIngestion, LookUp, CompareTitles, CreateEvent, CreateThrows,
              EndLoop, FanOut, IngestionFails, queue
<1>4. ASSUME NEW g \in Generators,
             GeneratorStep(g) \/ GeneratorDies(g) \/ \E k \in JobId : TakeJob(g, k)
      PROVE  queued' = queued
  BY <1>4 DEF GeneratorStep, GeneratorDies, TakeJob, LoadEvents, CheckTweeted, CreateTweet,
              SkipEvent, FinishJob, GenerationThrows, Generating
<1>5. ASSUME NEW d \in Deleters,
             \/ Cleanup(d) \/ DeleterStep(d) \/ DeleterDies(d)
             \/ \E k \in JobId, e \in EventId : PostTweet(d, k, e)
      PROVE  queued' = queued
  BY <1>5 DEF Cleanup, DeleterStep, CountOpen, DeleteEvents, DeleterDies, PostTweet, Deleting, queue
<1>6. ASSUME NEW e \in EventId, NEW b \in Bots, ForwardEvent(e, b)
      PROVE  \E given : AddJobs(given)
  BY <1>6 DEF ForwardEvent
<1>7. ASSUME NEW k \in JobId, NEW e \in EventId, FailTweet(k, e) PROVE queued' = queued
  BY <1>7 DEF FailTweet, queue
<1>8. ASSUME NEW e \in EventId, Age(e) PROVE queued' = queued
  BY <1>8 DEF Age, queue
<1> QED
  BY <1>1, <1>2, <1>3, <1>4, <1>5, <1>6, <1>7, <1>8 DEF Next, vars, queue

(* Its look-up stays true until it creates: nobody else creates.           *)
LEMMA UnstoredStep ==
  ASSUME Alone, Inv, CreatesUnstored, [Next]_vars
  PROVE  CreatesUnstored'
<1>1. ASSUME NEW i \in Ingestors, CreateEvent(i) PROVE CreatesUnstored'
  <2>1. ingestAt'[i] = "lookup"
    BY <1>1 DEF CreateEvent, NextItem, Inv, TypeOK
  <2> QED
    BY <2>1 DEF Alone, CreatesUnstored
<1>2. ASSUME \A i \in Ingestors : ~CreateEvent(i),
             \A i \in Ingestors : ingestAt'[i] \in {"compare", "create"} =>
               ~Stored(item'[i])
      PROVE  CreatesUnstored'
  <2>1. \A e \in EventId : Live(e)' => Live(e)
    BY <1>2, LiveOnlyShrinks
  <2>2. ASSUME NEW x \in Items, Stored(x)' PROVE Stored(x)
    BY <2>1, <2>2 DEF Stored, EventId
  <2>3. ASSUME NEW i \in Ingestors, ingestAt'[i] \in {"compare", "create"}, Stored(item[i])'
        PROVE  FALSE
    <3>1. item'[i] \in Items
      BY <2>3, ItemsStep DEF ItemsHeld
    <3>2. PICK n \in 1..Copies : event'[<<item'[i], n>>] \in {"fresh", "old"}
      BY <2>3 DEF Stored, Live
    <3>3. <<item'[i], n>> \in EventId
      BY <3>1 DEF EventId
    <3>4. Live(<<item'[i], n>>)
      BY <2>1, <3>2, <3>3 DEF Live
    <3> QED
      BY <1>2, <2>3, <3>4 DEF Stored
  <2> QED
    BY <2>3 DEF CreatesUnstored
<1>3. ASSUME NEW i \in Ingestors,
             StartIngestion(i) \/ LookUp(i) \/ CompareTitles(i) \/ CreateThrows(i)
               \/ EndLoop(i) \/ FanOut(i) \/ IngestionFails(i)
      PROVE  \A j \in Ingestors : ingestAt'[j] \in {"compare", "create"} => ~Stored(item'[j])
  <2>1. CASE StartIngestion(i) \/ CreateThrows(i) \/ EndLoop(i) \/ FanOut(i) \/ IngestionFails(i)
    <3>1. ingestAt'[i] \notin {"compare", "create"}
      BY <2>1 DEF StartIngestion, CreateThrows, EndLoop, FanOut, IngestionFails, EndIngestion,
                  Inv, TypeOK
    <3> QED
      BY <3>1 DEF Alone
  <2>2. CASE LookUp(i)
    <3>1. PICK x \in feed[i] :
            \/ UNCHANGED <<ingestAt, item>>
            \/ /\ ~Stored(x)
               /\ item' = [item EXCEPT ![i] = x]
      BY <2>2 DEF LookUp
    <3> QED
      BY <2>2, <3>1 DEF Alone, CreatesUnstored, Inv, TypeOK
  <2>3. CASE CompareTitles(i)
    <3>1. ingestAt[i] = "compare" /\ (ingestAt'[i] = "lookup" \/ item' = item)
      BY <2>3 DEF CompareTitles, Ingesting, NextItem, Inv, TypeOK
    <3> QED
      BY <3>1 DEF Alone, CreatesUnstored
  <2> QED
    BY <1>3, <2>1, <2>2, <2>3
<1>4. ASSUME UNCHANGED <<ingestAt, item>>
      PROVE  \A j \in Ingestors : ingestAt'[j] \in {"compare", "create"} => ~Stored(item'[j])
  BY <1>4 DEF CreatesUnstored
<1>5. ASSUME NEW g \in Generators,
             GeneratorStep(g) \/ GeneratorDies(g) \/ \E k \in JobId : TakeJob(g, k)
      PROVE  UNCHANGED <<ingestAt, item>>
  BY <1>5 DEF GeneratorStep, GeneratorDies, TakeJob, LoadEvents, CheckTweeted, CreateTweet,
              SkipEvent, FinishJob, GenerationThrows, Generating, ingestors
<1>6. ASSUME NEW d \in Deleters,
             \/ Cleanup(d) \/ DeleterStep(d) \/ DeleterDies(d)
             \/ \E k \in JobId, e \in EventId : PostTweet(d, k, e)
      PROVE  UNCHANGED <<ingestAt, item>>
  BY <1>6 DEF Cleanup, DeleterStep, CountOpen, DeleteEvents, DeleterDies, PostTweet, Deleting,
              ingestors
<1>7. ASSUME NEW e \in EventId,
             \/ Age(e)
             \/ \E b \in Bots : ForwardEvent(e, b)
             \/ \E k \in JobId : FailTweet(k, e)
      PROVE  UNCHANGED <<ingestAt, item>>
  BY <1>7 DEF Age, ForwardEvent, FailTweet, ingestors
<1> QED
  BY <1>1, <1>2, <1>3, <1>4, <1>5, <1>6, <1>7 DEF Next, IngestorStep, vars

(* So no create throws, and what is new leaves newEvents by a fan-out.     *)
LEMMA FannedStep ==
  ASSUME Alone, Inv, CreatesUnstored, FannedOut, [Next]_vars
  PROVE  FannedOut'
<1>1. \A b \in Bots : queued[b] \subseteq queued'[b]
  BY QueueKeeps
<1>2. ASSUME NEW i \in Ingestors, CreateEvent(i) PROVE FannedOut'
  <2>1. PICK n \in 1..Copies :
          /\ event' = [event EXCEPT ![<<item[i], n>>] = "fresh"]
          /\ newEvents' = [newEvents EXCEPT ![i] = @ \cup {<<item[i], n>>}]
    BY <1>2 DEF CreateEvent
  <2>2. <<item[i], n>> \in newEvents'[i] /\ \A j \in Ingestors : newEvents[j] \subseteq newEvents'[j]
    BY <2>1 DEF Inv, TypeOK
  <2>3. \A e \in EventId : Live(e)' => Live(e) \/ e = <<item[i], n>>
    BY <2>1 DEF Live, Inv, TypeOK
  <2> QED
    BY <1>1, <2>2, <2>3 DEF FannedOut
<1>3. ASSUME NEW i \in Ingestors, FanOut(i) PROVE FannedOut'
  <2>1. \A b \in Bots : queued'[b] = queued[b] \cup EventsFor(b, newEvents[i])
    BY <1>3 DEF FanOut, AddJobs
  <2>2. event' = event
    BY <1>3 DEF FanOut
  <2>3. \A e \in EventId, b \in Bots :
          Live(e) /\ e \in newEvents[i] /\ <<b, Source[ItemOf(e)]>> \in Subscribed => e \in queued'[b]
    BY <2>1 DEF EventsFor
  <2>4. \A e \in EventId : Live(e) =>
          \A b \in Bots : <<b, Source[ItemOf(e)]>> \in Subscribed => e \in queued'[b]
    BY <1>1, <2>3 DEF FannedOut, Alone
  <2> QED
    BY <2>2, <2>4 DEF FannedOut, Live
<1>4. ASSUME \A i \in Ingestors : ~CreateEvent(i),
             \A i \in Ingestors : newEvents[i] \subseteq newEvents'[i]
      PROVE  FannedOut'
  BY <1>1, <1>4, LiveOnlyShrinks DEF FannedOut
<1>5. ASSUME NEW i \in Ingestors, CreateThrows(i) PROVE FALSE
  BY <1>5 DEF CreateThrows, Ingesting, CreatesUnstored, Alone
<1>6. ASSUME NEW i \in Ingestors, IngestionFails(i) PROVE FALSE
  BY <1>6 DEF IngestionFails, Alone, Inv, TypeOK
<1>7. ASSUME NEW i \in Ingestors,
             StartIngestion(i) \/ LookUp(i) \/ CompareTitles(i) \/ EndLoop(i)
      PROVE  \A j \in Ingestors : newEvents[j] \subseteq newEvents'[j]
  BY <1>7 DEF StartIngestion, LookUp, CompareTitles, EndLoop, EndIngestion, Inv, TypeOK
<1>8. ASSUME NEW g \in Generators,
             GeneratorStep(g) \/ GeneratorDies(g) \/ \E k \in JobId : TakeJob(g, k)
      PROVE  newEvents' = newEvents
  BY <1>8 DEF GeneratorStep, GeneratorDies, TakeJob, LoadEvents, CheckTweeted, CreateTweet,
              SkipEvent, FinishJob, GenerationThrows, Generating, ingestors
<1>9. ASSUME NEW d \in Deleters,
             \/ Cleanup(d) \/ DeleterStep(d) \/ DeleterDies(d)
             \/ \E k \in JobId, e \in EventId : PostTweet(d, k, e)
      PROVE  newEvents' = newEvents
  BY <1>9 DEF Cleanup, DeleterStep, CountOpen, DeleteEvents, DeleterDies, PostTweet, Deleting,
              ingestors
<1>10. ASSUME NEW e \in EventId,
              \/ Age(e)
              \/ \E b \in Bots : ForwardEvent(e, b)
              \/ \E k \in JobId : FailTweet(k, e)
       PROVE  newEvents' = newEvents
  BY <1>10 DEF Age, ForwardEvent, FailTweet, ingestors
<1> QED
  BY <1>2, <1>3, <1>4, <1>5, <1>6, <1>7, <1>8, <1>9, <1>10 DEF Next, IngestorStep, vars

(* With a single ingestor and no fault, every new event reaches every bot  *)
(* that subscribes to its source, whatever is aged, forwarded, tweeted,    *)
(* posted and deleted meanwhile.                                           *)
THEOREM OneIngestorFansOut ==
  ASSUME Alone
  PROVE  Spec => []FannedOut
<1>1. Init => CreatesUnstored /\ FannedOut
  BY DEF Init, CreatesUnstored, FannedOut, Live
<1>2. Inv /\ CreatesUnstored /\ FannedOut /\ [Next]_vars => CreatesUnstored' /\ FannedOut'
  BY Alone, UnstoredStep, FannedStep
<1> QED
  BY <1>1, <1>2, Invariance, PTL DEF Spec
=============================================================================
