--------------------------- MODULE EventPipeline ---------------------------
(***************************************************************************)
(* From a feed to a tweet: the ingestion workers (IngestionProcessor,      *)
(* EventsService), the queue "event-processing" they fan out to, the       *)
(* generation workers (AiGenerationService), and the two ways in which an  *)
(* event is deleted: the daily cleanup and the last post of its tweets.    *)
(*                                                                         *)
(* A handler in flight is an ingestor, a generator or a deleter; each of   *)
(* its actions is one read or write of a table or a queue.  What Claude    *)
(* answers and what the content filter says is a choice: a tweet or none.  *)
(* The clock is abstracted: an event is fresh for 24 hours, then old.      *)
(* Posting is seen from here only as an open tweet that is posted or fails.*)
(***************************************************************************)
EXTENDS Naturals, FiniteSets

CONSTANTS
  Items,       \* entries of the external feeds, named by source + externalId
  Sources,     \* adapters
  Source,      \* the adapter that serves an item
  Categories,  \* of the entries of the feeds
  Category,    \* the category an item comes with
  Similar,     \* pairs of items whose titles pass the similarity threshold
  Recent,      \* the look-up of similar titles reads so many events (100)
  Undated,     \* items whose date cannot be parsed: their create throws
  Copies,      \* bound: an item is stored as an event this often
  Bots,        \* active bots
  Subscribed,  \* pairs of a bot and a source it subscribes to
  Ingestors,   \* slots of the ingestion worker in all replicas
  Generators,  \* slots of the generation worker in all replicas
  Deleters,    \* cleanups and post-processings that can be in flight
  MaxJobs,     \* bound: generation jobs of one bot
  MaxAttempts, \* attempts of a generation job (3 in queue.constants.ts)
  MaxFaults,   \* bound: crashes and failed statements
  NoItem,      \* "this ingestor looks at no item"
  NoJob        \* "this generator has no job"

(* Every time an item is stored it gets a new primary key.                 *)
EventId == Items \X (1..Copies)
ItemOf(e) == e[1]

(* The jobs of a bot, in the order in which they were added.               *)
JobId == Bots \X (1..MaxJobs)
BotOf(k) == k[1]

ASSUME SourceAssumption == Source \in [Items -> Sources]
ASSUME CategoryAssumption == Category \in [Items -> Categories]
ASSUME RecentAssumption == Recent \in Nat \ {0}
ASSUME SimilarAssumption ==
  /\ Similar \subseteq Items \X Items
  /\ \A x, y \in Items : <<x, y>> \in Similar => <<y, x>> \in Similar
ASSUME UndatedAssumption == Undated \subseteq Items
ASSUME SubscribedAssumption == Subscribed \subseteq Bots \X Sources
ASSUME CopiesAssumption == Copies \in Nat \ {0}
ASSUME MaxJobsAssumption == MaxJobs \in Nat \ {0}
ASSUME MaxAttemptsAssumption == MaxAttempts \in Nat \ {0}
ASSUME MaxFaultsAssumption == MaxFaults \in Nat
ASSUME SlotsAssumption == IsFiniteSet(Ingestors) /\ IsFiniteSet(Generators)
ASSUME NoItemAssumption == NoItem \notin Items
ASSUME NoJobAssumption == NoJob \notin JobId

VARIABLES
  event,       \* the events table: is the event there, and how old is it?
  newer,       \* the events stored after each one that is fresh (ingestedAt)
  tweet,       \* tweets.status of the tweet a job created for an event
  made,        \* observer: how many tweets a job has created for an event
  jobState,    \* state of each generation job
  jobEvents,   \* the events in its data
  attempts,    \* attemptsMade
  stalled,     \* jobs that have been taken back from a dead worker once
  queued,      \* observer: the events that were queued for each bot
  ingestAt,    \* the statement each ingestor executes next
  feed,        \* the items it has fetched and not yet looked at
  item,        \* the item it looks at
  newEvents,   \* newEventIds
  generateAt,  \* the statement each generator executes next
  job,         \* its job
  todo,        \* the events it still writes a tweet for
  deleteAt,    \* the statement each deleter executes next
  targets,     \* the events it is going to delete
  faults       \* faults so far

tables == <<event, newer, tweet, made>>
queue == <<jobState, jobEvents, attempts, stalled, queued>>
ingestors == <<ingestAt, feed, item, newEvents>>
generators == <<generateAt, job, todo>>
deleters == <<deleteAt, targets>>
vars == <<event, newer, tweet, made, jobState, jobEvents, attempts, stalled, queued,
          ingestAt, feed, item, newEvents, generateAt, job, todo, deleteAt,
          targets, faults>>

TypeOK ==
  /\ event \in [EventId -> {"none", "fresh", "old", "deleted"}]
  /\ newer \in [EventId -> SUBSET EventId]
  /\ tweet \in [JobId -> [EventId -> {"none", "open", "posted", "failed"}]]
  /\ made \in [JobId -> [EventId -> 0..2]]
  /\ jobState \in [JobId -> {"none", "waiting", "active", "completed", "failed"}]
  /\ jobEvents \in [JobId -> SUBSET EventId]
  /\ attempts \in [JobId -> 0..MaxAttempts]
  /\ stalled \subseteq JobId
  /\ queued \in [Bots -> SUBSET EventId]
  /\ ingestAt \in [Ingestors -> {"idle", "lookup", "compare", "create", "fanOut"}]
  /\ feed \in [Ingestors -> SUBSET Items]
  /\ item \in [Ingestors -> Items \cup {NoItem}]
  /\ newEvents \in [Ingestors -> SUBSET EventId]
  /\ generateAt \in [Generators -> {"idle", "load", "check", "write"}]
  /\ job \in [Generators -> JobId \cup {NoJob}]
  /\ todo \in [Generators -> SUBSET EventId]
  /\ deleteAt \in [Deleters -> {"idle", "count", "delete"}]
  /\ targets \in [Deleters -> SUBSET EventId]
  /\ faults \in 0..MaxFaults

Init ==
  /\ event = [e \in EventId |-> "none"]
  /\ newer = [e \in EventId |-> {}]
  /\ tweet = [k \in JobId |-> [e \in EventId |-> "none"]]
  /\ made = [k \in JobId |-> [e \in EventId |-> 0]]
  /\ jobState = [k \in JobId |-> "none"]
  /\ jobEvents = [k \in JobId |-> {}]
  /\ attempts = [k \in JobId |-> 0]
  /\ stalled = {}
  /\ queued = [b \in Bots |-> {}]
  /\ ingestAt = [i \in Ingestors |-> "idle"]
  /\ feed = [i \in Ingestors |-> {}]
  /\ item = [i \in Ingestors |-> NoItem]
  /\ newEvents = [i \in Ingestors |-> {}]
  /\ generateAt = [g \in Generators |-> "idle"]
  /\ job = [g \in Generators |-> NoJob]
  /\ todo = [g \in Generators |-> {}]
  /\ deleteAt = [d \in Deleters |-> "idle"]
  /\ targets = [d \in Deleters |-> {}]
  /\ faults = 0

Live(e) == event[e] \in {"fresh", "old"}
Stored(x) == \E n \in 1..Copies : Live(<<x, n>>)
SimilarEvents(e, f) == <<ItemOf(e), ItemOf(f)>> \in Similar

(* Tweets of an event: deleting the event sets tweets.event_id to null.    *)
Tweeted(b, e) == Live(e) /\ \E k \in JobId : BotOf(k) = b /\ tweet[k][e] # "none"
Open(e) == \E k \in JobId : tweet[k][e] = "open"

(* 24 hours pass after the event was ingested: the oldest goes first.      *)
Age(e) ==
  /\ event[e] = "fresh"
  /\ ~\E f \in EventId : event[f] = "fresh" /\ e \in newer[f]
  /\ event' = [event EXCEPT ![e] = "old"]
  /\ newer' = [newer EXCEPT ![e] = {}]
  /\ UNCHANGED <<tweet, made, queue, ingestors, generators, deleters, faults>>

-----------------------------------------------------------------------------
(* The generation queue.                                                   *)

HasRoom(b) == jobState[<<b, MaxJobs>>] = "none"
IsNext(k) == /\ jobState[k] = "none"
             /\ \A n \in 1..(k[2] - 1) : jobState[<<BotOf(k), n>>] # "none"

(* One job for every bot that is given events; the data may name several.  *)
AddJobs(given) ==
  LET receivers == {b \in Bots : given[b] # {}}
      added == {k \in JobId : BotOf(k) \in receivers /\ IsNext(k)}
  IN
  /\ \A b \in receivers : HasRoom(b)
  /\ jobState' = [k \in JobId |-> IF k \in added THEN "waiting" ELSE jobState[k]]
  /\ jobEvents' = [k \in JobId |-> IF k \in added THEN given[BotOf(k)]
                                                  ELSE jobEvents[k]]
  /\ queued' = [b \in Bots |-> queued[b] \cup given[b]]
  /\ UNCHANGED <<attempts, stalled>>

(* The API's forwardEvent: one event, for one bot, whoever subscribes.     *)
ForwardEvent(e, b) ==
  /\ Live(e)
  /\ AddJobs([c \in Bots |-> IF c = b THEN {e} ELSE {}])
  /\ UNCHANGED <<tables, ingestors, generators, deleters, faults>>

-----------------------------------------------------------------------------
(* Ingestion.  The cron adds a job per adapter every five minutes, and a   *)
(* job that fails is retried from the start, so an idle worker may begin   *)
(* to ingest any source at any time.                                       *)

Ingesting(i, point) ==
  /\ ingestAt[i] = point
  /\ UNCHANGED <<tweet, made, generators, deleters>>

(* The ingestor is done with its item: the next one, or out of the loop.   *)
NextItem(i) ==
  /\ feed' = [feed EXCEPT ![i] = @ \ {item[i]}]
  /\ item' = [item EXCEPT ![i] = NoItem]
  /\ ingestAt' = [ingestAt EXCEPT ![i] = "lookup"]

EndIngestion(i) ==
  /\ ingestAt' = [ingestAt EXCEPT ![i] = "idle"]
  /\ feed' = [feed EXCEPT ![i] = {}]
  /\ item' = [item EXCEPT ![i] = NoItem]
  /\ newEvents' = [newEvents EXCEPT ![i] = {}]

StartIngestion(i) ==
  /\ Ingesting(i, "idle")
  /\ \E s \in Sources : \E fetched \in SUBSET {x \in Items : Source[x] = s} :
       feed' = [feed EXCEPT ![i] = fetched]
  /\ ingestAt' = [ingestAt EXCEPT ![i] = "lookup"]
  /\ UNCHANGED <<event, newer, queue, item, newEvents, faults>>

(* Exact match: source and externalId are stored already.                  *)
LookUp(i) ==
  /\ Ingesting(i, "lookup")
  /\ \E x \in feed[i] :
       IF Stored(x)
       THEN /\ feed' = [feed EXCEPT ![i] = @ \ {x}]
            /\ UNCHANGED <<ingestAt, item>>
       ELSE /\ item' = [item EXCEPT ![i] = x]
            /\ ingestAt' = [ingestAt EXCEPT ![i] = "compare"]
            /\ UNCHANGED feed
  /\ UNCHANGED <<event, newer, queue, newEvents, faults>>

(* The events the look-up finds for an item: of its category and the last  *)
(* 24 hours, from any source, and not more than the newest ones.           *)
SameCategory(x) == {e \in EventId : Category[ItemOf(e)] = Category[x]}
RecentEvents(x) ==
  {e \in SameCategory(x) :
     /\ event[e] = "fresh"
     /\ Cardinality({f \in newer[e] \cap SameCategory(x) : event[f] = "fresh"}) < Recent}

(* Mutant of IsDuplicate: only the item's own source is searched.          *)
IsDuplicateInSource(x) ==
  \E e \in RecentEvents(x) : /\ Source[ItemOf(e)] = Source[x]
                            /\ <<x, ItemOf(e)>> \in Similar

IsDuplicate(x) == \E e \in RecentEvents(x) : <<x, ItemOf(e)>> \in Similar

CompareTitles(i) ==
  /\ Ingesting(i, "compare")
  /\ IF IsDuplicate(item[i])
     THEN NextItem(i)
     ELSE ingestAt' = [ingestAt EXCEPT ![i] = "create"] /\ UNCHANGED <<feed, item>>
  /\ UNCHANGED <<event, newer, queue, newEvents, faults>>

CreateEvent(i) ==
  LET x == item[i] IN
  /\ Ingesting(i, "create")
  /\ ~Stored(x) /\ x \notin Undated
  /\ \E n \in 1..Copies :
       /\ event[<<x, n>>] = "none"
       /\ \A m \in 1..(n - 1) : event[<<x, m>>] # "none"
       /\ event' = [event EXCEPT ![<<x, n>>] = "fresh"]
       /\ newer' = [e \in EventId |-> IF event[e] = "fresh" THEN newer[e] \cup {<<x, n>>}
                                                          ELSE {}]
       /\ newEvents' = [newEvents EXCEPT ![i] = @ \cup {<<x, n>>}]
  /\ NextItem(i)
  /\ UNCHANGED <<queue, faults>>

(* (source, externalId) is unique: the create of a stored item throws, as  *)
(* that of an invalid date does, and the job ends before its fan-out.      *)
CreateThrows(i) ==
  /\ Ingesting(i, "create")
  /\ Stored(item[i]) \/ item[i] \in Undated
  /\ EndIngestion(i)
  /\ UNCHANGED <<event, newer, queue, faults>>

EndLoop(i) ==
  /\ Ingesting(i, "lookup")
  /\ feed[i] = {}
  /\ IF newEvents[i] = {}
     THEN EndIngestion(i)
     ELSE /\ ingestAt' = [ingestAt EXCEPT ![i] = "fanOut"]
          /\ UNCHANGED <<feed, item, newEvents>>
  /\ UNCHANGED <<event, newer, queue, faults>>

EventsFor(b, new) ==
  {e \in new : Live(e) /\ <<b, Source[ItemOf(e)]>> \in Subscribed}

(* fanOutBatchJobs: one job per bot, with all new events it subscribes to. *)
FanOut(i) ==
  /\ Ingesting(i, "fanOut")
  /\ AddJobs([b \in Bots |-> EventsFor(b, newEvents[i])])
  /\ EndIngestion(i)
  /\ UNCHANGED <<event, newer, faults>>

(* The process dies or a statement throws.  The retry starts from nothing: *)
(* what was new to this attempt is not new to the next one.                *)
IngestionFails(i) ==
  /\ ingestAt[i] # "idle"
  /\ faults < MaxFaults
  /\ faults' = faults + 1
  /\ EndIngestion(i)
  /\ UNCHANGED <<tables, queue, generators, deleters>>

-----------------------------------------------------------------------------
(* Generation.  A job of one event and a batch job differ in what happens  *)
(* when an event is gone or gets no acceptable text.                       *)

Generating(g, point) ==
  /\ generateAt[g] = point
  /\ UNCHANGED <<jobEvents, queued, ingestors, deleters>>

Busy(g) == generateAt[g] # "idle"

Release(g) ==
  /\ generateAt' = [generateAt EXCEPT ![g] = "idle"]
  /\ job' = [job EXCEPT ![g] = NoJob]
  /\ todo' = [todo EXCEPT ![g] = {}]

EndJob(g, state) ==
  /\ jobState' = [jobState EXCEPT ![job[g]] = state]
  /\ Release(g)

(* Mutant of FailedAttempt: an attempt that fails is not counted.          *)
FailedAttemptUncounted(k) == attempts[k]

FailedAttempt(k) == attempts[k] + 1

(* Mutant of FailAttempt: one attempt too many.                            *)
FailAttemptLate(g) ==
  LET n == FailedAttempt(job[g]) IN
  /\ attempts' = [attempts EXCEPT ![job[g]] = n]
  /\ EndJob(g, IF n <= MaxAttempts THEN "waiting" ELSE "failed")

(* The handler throws: the queue retries the job while attempts are left.  *)
FailAttempt(g) ==
  LET n == FailedAttempt(job[g]) IN
  /\ attempts' = [attempts EXCEPT ![job[g]] = n]
  /\ EndJob(g, IF n < MaxAttempts THEN "waiting" ELSE "failed")

TakeJob(g, k) ==
  /\ Generating(g, "idle")
  /\ jobState[k] = "waiting"
  /\ jobState' = [jobState EXCEPT ![k] = "active"]
  /\ generateAt' = [generateAt EXCEPT ![g] = "load"]
  /\ job' = [job EXCEPT ![g] = k]
  /\ UNCHANGED <<tables, attempts, stalled, todo, faults>>

Single(g) == Cardinality(jobEvents[job[g]]) = 1

(* The events are loaded: a batch goes on with those that still exist.     *)
LoadEvents(g) ==
  LET found == {e \in jobEvents[job[g]] : Live(e)} IN
  /\ Generating(g, "load")
  /\ Single(g) => found # {}
  /\ todo' = [todo EXCEPT ![g] = found]
  /\ generateAt' = [generateAt EXCEPT ![g] = "check"]
  /\ UNCHANGED <<tables, jobState, attempts, stalled, job, faults>>

(* Mutant of Eligible: only similar events are looked for.                 *)
EligibleAgain(g) ==
  {e \in todo[g] : ~\E f \in EventId : /\ f # e
                                       /\ Tweeted(BotOf(job[g]), f)
                                       /\ SimilarEvents(e, f)}

(* Events this bot has no tweet for, and none for a similar event.         *)
Eligible(g) ==
  {e \in todo[g] : ~\E f \in EventId : /\ Tweeted(BotOf(job[g]), f)
                                       /\ f = e \/ SimilarEvents(e, f)}

CheckTweeted(g) ==
  /\ Generating(g, "check")
  /\ IF Eligible(g) = {}
     THEN EndJob(g, "completed")
     ELSE /\ todo' = [todo EXCEPT ![g] = Eligible(g)]
          /\ generateAt' = [generateAt EXCEPT ![g] = "write"]
          /\ UNCHANGED <<jobState, job>>
  /\ UNCHANGED <<tables, attempts, stalled, faults>>

(* An acceptable text becomes a tweet.                                     *)
CreateTweet(g) ==
  /\ Generating(g, "write")
  /\ \E e \in todo[g] :
       /\ Live(e)
       /\ tweet' = [tweet EXCEPT ![job[g]][e] = "open"]
       /\ made' = [made EXCEPT ![job[g]][e] = IF @ < 2 THEN @ + 1 ELSE 2]
       /\ todo' = [todo EXCEPT ![g] = @ \ {e}]
  /\ UNCHANGED <<event, newer, jobState, attempts, stalled, generateAt, job, faults>>

(* No text, filtered, or too similar to a recent tweet: a batch goes on.   *)
SkipEvent(g) ==
  /\ Generating(g, "write")
  /\ ~Single(g)
  /\ \E e \in todo[g] : todo' = [todo EXCEPT ![g] = @ \ {e}]
  /\ UNCHANGED <<tables, jobState, attempts, stalled, generateAt, job, faults>>

FinishJob(g) ==
  /\ Generating(g, "write")
  /\ todo[g] = {}
  /\ EndJob(g, "completed")
  /\ UNCHANGED <<tables, attempts, stalled, faults>>

(* The event of a single job is gone, a tweet refers to a deleted event,   *)
(* Claude or a statement fails, no acceptable text in three tries.         *)
GenerationThrows(g) ==
  /\ Busy(g) /\ Generating(g, generateAt[g])
  /\ FailAttempt(g)
  /\ UNCHANGED <<tables, stalled, faults>>

(* The process dies: its job is taken back once, and fails the second time.*)
GeneratorDies(g) ==
  /\ Busy(g) /\ Generating(g, generateAt[g])
  /\ faults < MaxFaults
  /\ faults' = faults + 1
  /\ stalled' = stalled \cup {job[g]}
  /\ EndJob(g, IF job[g] \in stalled THEN "failed" ELSE "waiting")
  /\ UNCHANGED <<tables, attempts>>

-----------------------------------------------------------------------------
(* Deletion.                                                               *)

Deleting(d, point) ==
  /\ deleteAt[d] = point
  /\ UNCHANGED <<made, queue, ingestors, generators>>

EndDeletion(d) ==
  /\ deleteAt' = [deleteAt EXCEPT ![d] = "idle"]
  /\ targets' = [targets EXCEPT ![d] = {}]

(* A tweet is posted; then deleteEventIfFullyProcessed is called for the   *)
(* event it was made for.                                                  *)
PostTweet(d, k, e) ==
  /\ Deleting(d, "idle")
  /\ tweet[k][e] = "open"
  /\ tweet' = [tweet EXCEPT ![k][e] = "posted"]
  /\ IF Live(e)
     THEN /\ deleteAt' = [deleteAt EXCEPT ![d] = "count"]
          /\ targets' = [targets EXCEPT ![d] = {e}]
     ELSE UNCHANGED deleters
  /\ UNCHANGED <<event, newer, faults>>

FailTweet(k, e) ==
  /\ tweet[k][e] = "open"
  /\ tweet' = [tweet EXCEPT ![k][e] = "failed"]
  /\ UNCHANGED <<event, newer, made, queue, ingestors, generators, deleters, faults>>

(* An event with open tweets is kept.                                      *)
CountOpen(d) ==
  /\ Deleting(d, "count")
  /\ IF \E e \in targets[d] : Open(e)
     THEN EndDeletion(d)
     ELSE /\ deleteAt' = [deleteAt EXCEPT ![d] = "delete"]
          /\ UNCHANGED targets
  /\ UNCHANGED <<event, newer, tweet, faults>>

(* Mutant of Removable: an event that nobody tweeted about stays.          *)
RemovableTweeted(e) ==
  event[e] = "old" /\ ~Open(e) /\ \E k \in JobId : tweet[k][e] # "none"

(* Mutant of Removable: the age of an event is not looked at.              *)
RemovableFresh(e) == Live(e) /\ ~Open(e)

Removable(e) == event[e] = "old" /\ ~Open(e)

(* The daily cleanup reads which old events have open tweets.              *)
Cleanup(d) ==
  /\ Deleting(d, "idle")
  /\ \E e \in EventId : Removable(e)
  /\ targets' = [targets EXCEPT ![d] = {e \in EventId : Removable(e)}]
  /\ deleteAt' = [deleteAt EXCEPT ![d] = "delete"]
  /\ UNCHANGED <<event, newer, tweet, faults>>

(* Deleting what is deleted already does nothing.                          *)
DeleteEvents(d) ==
  /\ Deleting(d, "delete")
  /\ event' = [e \in EventId |-> IF e \in targets[d] /\ Live(e) THEN "deleted"
                                                               ELSE event[e]]
  /\ newer' = [e \in EventId |-> IF event'[e] = "fresh" THEN newer[e] ELSE {}]
  /\ EndDeletion(d)
  /\ UNCHANGED <<tweet, faults>>

DeleterDies(d) ==
  /\ deleteAt[d] # "idle"
  /\ Deleting(d, deleteAt[d])
  /\ faults < MaxFaults
  /\ faults' = faults + 1
  /\ EndDeletion(d)
  /\ UNCHANGED <<event, newer, tweet>>

-----------------------------------------------------------------------------
IngestorStep(i) ==
  \/ LookUp(i)
  \/ CompareTitles(i)
  \/ CreateEvent(i)
  \/ CreateThrows(i)
  \/ EndLoop(i)
  \/ FanOut(i)

GeneratorStep(g) ==
  \/ LoadEvents(g)
  \/ CheckTweeted(g)
  \/ CreateTweet(g)
  \/ SkipEvent(g)
  \/ FinishJob(g)
  \/ GenerationThrows(g)

DeleterStep(d) == CountOpen(d) \/ DeleteEvents(d)

Next ==
  \/ \E i \in Ingestors : StartIngestion(i) \/ IngestorStep(i) \/ IngestionFails(i)
  \/ \E g \in Generators :
       \/ \E k \in JobId : TakeJob(g, k)
       \/ GeneratorStep(g)
       \/ GeneratorDies(g)
  \/ \E d \in Deleters :
       \/ \E k \in JobId, e \in EventId : PostTweet(d, k, e)
       \/ Cleanup(d)
       \/ DeleterStep(d)
       \/ DeleterDies(d)
  \/ \E k \in JobId, e \in EventId : FailTweet(k, e)
  \/ \E e \in EventId, b \in Bots : ForwardEvent(e, b)
  \/ \E e \in EventId : Age(e)

Spec == Init /\ [][Next]_vars

(* Node runs every handler on, the queue serves every job, and the cleanup *)
(* runs every day.  Nothing is assumed of users, feeds and faults.         *)
Fairness ==
  /\ \A g \in Generators : WF_vars(GeneratorStep(g))
  /\ \A k \in JobId : SF_vars(\E g \in Generators : TakeJob(g, k))
  /\ \A d \in Deleters : WF_vars(DeleterStep(d))
  /\ SF_vars(\E d \in Deleters : Cleanup(d))

FairSpec == Spec /\ Fairness

-----------------------------------------------------------------------------
(* Look-up and create are two statements, and the look-up sees a category  *)
(* and its newest events only: of one story, as many events of a category  *)
(* can be fresh together and within the reach of the look-up as there are  *)
(* ingestors, and never more.                                              *)
InReach(e) == Cardinality(newer[e] \cap SameCategory(ItemOf(e))) < Recent
SimilarBounded ==
  \A S \in SUBSET {e \in EventId : event[e] = "fresh" /\ InReach(e)} :
    (\A e, f \in S : /\ Category[ItemOf(e)] = Category[ItemOf(f)]
                     /\ e # f => SimilarEvents(e, f))
      => Cardinality(S) <= Cardinality(Ingestors)

(* The same of a bot's tweets about one event: duplicates come only from   *)
(* generators that checked before one of them had written.                 *)
DuplicatesBounded ==
  \A b \in Bots, e \in EventId :
    Cardinality({k \in JobId : BotOf(k) = b /\ tweet[k][e] # "none"})
      <= Cardinality(Generators)

(* A job that is retried, or taken back from a dead worker, never writes a *)
(* second tweet about an event.                                            *)
JobTweetsOnce ==
  \A k \in JobId, e \in EventId : made[k][e] <= 1

(* The events a bot has tweets about, and those with a tweet on X.         *)
TweetedEvents ==
  [b \in Bots |-> {e \in EventId : \E k \in JobId : BotOf(k) = b /\ tweet[k][e] # "none"}]
PostedEvents == {e \in EventId : \E k \in JobId : tweet[k][e] = "posted"}

(* The pipeline keeps the promises of EventLife: no entry of a feed is     *)
(* stored twice at a time, a tweet is about an event that is there and was *)
(* queued for its bot, a posted tweet is not overwritten, and neither the  *)
(* cleanup nor the last post of an event removes one that is fresh and was *)
(* never posted.                                                           *)
Life == INSTANCE EventLife WITH
  Events <- EventId, Entry <- [e \in EventId |-> ItemOf(e)],
  stage <- event, given <- queued, drafted <- TweetedEvents, shared <- PostedEvents
EventLifeRefined == Life!LifeSpec

(* events.service.ts:145: a new event is fanned out "for every subscribed  *)
(* active bot".                                                            *)
FannedOut ==
  \A e \in EventId : Live(e) =>
    \/ \E i \in Ingestors : e \in newEvents[i]
    \/ \A b \in Bots : <<b, Source[ItemOf(e)]>> \in Subscribed => e \in queued[b]

(* Every generation job ends, whatever Claude, the feeds and the users do. *)
GenerationEnds ==
  \A k \in JobId : jobState[k] \in {"waiting", "active"} ~>
                   jobState[k] \in {"completed", "failed"}

(* An event of yesterday goes, unless one of its tweets is open again.     *)
OldEventsGo ==
  \A e \in EventId : event[e] = "old" ~> event[e] = "deleted" \/ Open(e)
=============================================================================
