--------------------------- MODULE Dashboard_proofs ---------------------------
(***************************************************************************)
(* For any pages, requests, texts and bounds.  The tweets page: the text   *)
(* on X is the stored one unless the worker was overtaken, and a page at   *)
(* rest shows its own writes.  The bot pages: the last save is kept, the   *)
(* topics that overlapping saves leave are bounded by their number, and a  *)
(* bot whose creation was answered has a source.                           *)
(***************************************************************************)
EXTENDS BotAdmin, TweetBoard, FiniteSetTheorems, TLAPS

(* A request that rests has nobody waiting for it; an edit has a text.     *)
RestingCalls ==
  \A c \in Calls : /\ callAt[c] = "idle" => callOwner[c] = NoBoard
                   /\ callKind[c] = "edit" => callText[c] \in Texts

(* No edit can follow: the tweet is past its review, and no request has    *)
(* passed a check that would bring it back.                                *)
Sealed ==
  /\ status \in {"scheduled", "failed", "posted"}
  /\ \A c \in Calls : callAt[c] \notin {"write", "preapprove"}

(* Once a worker that was not overtaken has the text, it is the stored one *)
(* and stays so.                                                           *)
ReadTextSettled ==
  ~overtaken /\ (carried # NoText \/ onX # {}) =>
    Sealed /\ carried \in {content, NoText} /\ onX \subseteq {content}

(* A page that does not show a write of its own, and was not left blind,   *)
(* waits for an answer or for a list that was or will be read after it.    *)
WritesAwaited ==
  \A b \in unseen \ blind :
    \/ \E c \in Calls : callOwner[c] = b
    \/ fetch[b] = Asked
    \/ fetch[b] \in Statuses /\ b \notin early

BoardInv == BoardTypeOK /\ RestingCalls /\ ReadTextSettled /\ WritesAwaited

LEMMA BoardInitInv == BoardInit => BoardInv
<1> SUFFICES ASSUME BoardInit PROVE BoardInv
  OBVIOUS
<1>1. BoardTypeOK
  <2>1. list \in [Boards -> Statuses] /\ snapshot \in [Boards -> Statuses]
    BY DEF BoardInit, Statuses
  <2>2. fetch \in [Boards -> Statuses \cup {Resting, Asked}]
    BY DEF BoardInit
  <2>3. 0 \in 0..MaxEdits /\ 0 \in 0..MaxBoardFaults
    BY BoardAssumption
  <2> QED
    BY <2>1, <2>2, <2>3 DEF BoardInit, BoardTypeOK, Statuses
<1>2. RestingCalls /\ ReadTextSettled /\ WritesAwaited
  BY DEF BoardInit, RestingCalls, ReadTextSettled, WritesAwaited
<1> QED
  BY <1>1, <1>2 DEF BoardInv

(* What the answer to a request changes, whoever waits for it.             *)
LEMMA ReplyChanges ==
  ASSUME BoardTypeOK, NEW c \in Calls, NEW ok \in BOOLEAN, Reply(c, ok)
  PROVE  /\ callAt' = [callAt EXCEPT ![c] = "idle"]
         /\ callOwner' = [callOwner EXCEPT ![c] = NoBoard]
         /\ callKind' = [callKind EXCEPT ![c] = "none"]
         /\ callText' = [callText EXCEPT ![c] = NoText]
         /\ list' = list
         /\ dialog' \in [Boards -> {"none", "details", "edit", "schedule"}]
         /\ snapshot' \in [Boards -> Statuses]
         /\ fetch' \in [Boards -> Statuses \cup {Resting, Asked}]
         /\ blind' \subseteq Boards
         /\ \A b \in Boards : b # callOwner[c] =>
              fetch'[b] = fetch[b] /\ (b \in blind' <=> b \in blind)
         /\ callOwner[c] \in Boards =>
              fetch'[callOwner[c]] = Asked \/ callOwner[c] \in blind'
<1> USE BoardAssumption DEF BoardTypeOK
<1>1. CASE callOwner[c] = NoBoard
  BY <1>1 DEF Reply, boards
<1>2. CASE callOwner[c] # NoBoard /\ ok
  <2>1. UNCHANGED <<list, blind>> /\ fetch' = [fetch EXCEPT ![callOwner[c]] = Asked]
    BY <1>2 DEF Reply, Invalidate
  <2>2. /\ dialog' \in [Boards -> {"none", "details", "edit", "schedule"}]
        /\ snapshot' \in [Boards -> Statuses]
    BY <1>2 DEF Reply, CloseAfter, Show, Statuses
  <2> QED
    BY <1>2, <2>1, <2>2 DEF Reply
<1>3. CASE callOwner[c] # NoBoard /\ ~ok
  BY <1>3 DEF Reply, boards
<1> QED
  BY <1>1, <1>2, <1>3

(* The part of a request that goes on.                                     *)
LEMMA GoOnChanges ==
  ASSUME NEW c \in Calls, NEW point, GoOn(c, point)
  PROVE  /\ callAt' = [callAt EXCEPT ![c] = point]
         /\ UNCHANGED <<callKind, callText, callOwner, list, dialog, snapshot, fetch, blind>>
BY DEF GoOn, boards

(* Tables, pages and requests keep their types, and a request that ends    *)
(* has nobody waiting for it.                                              *)
LEMMA BoardTypeStep ==
  BoardInv /\ [BoardNext]_boardVars => BoardTypeOK' /\ RestingCalls'
<1> SUFFICES ASSUME BoardInv, [BoardNext]_boardVars
             PROVE  BoardTypeOK' /\ RestingCalls'
  OBVIOUS
<1> USE BoardAssumption DEF BoardInv, BoardTypeOK, RestingCalls, tweet, worker, boards,
                            requests, views
<1>1. CASE UNCHANGED boardVars
  BY <1>1 DEF boardVars
<1>2. ASSUME NEW b \in Boards,
             SelectTweet(b) \/ OpenEditDialog(b) \/ OpenScheduleDialog(b) \/ CloseDialog(b)
      PROVE  BoardTypeOK' /\ RestingCalls'
  <2>1. dialog' \in [Boards -> {"none", "details", "edit", "schedule"}]
    BY <1>2 DEF SelectTweet, OpenEditDialog, OpenScheduleDialog, OpenDialog, CloseDialog, Show
  <2>2. snapshot' \in [Boards -> Statuses]
    BY <1>2 DEF SelectTweet, OpenEditDialog, OpenScheduleDialog, OpenDialog, CloseDialog, Show,
                Statuses
  <2> QED
    BY <1>2, <2>1, <2>2
    DEF SelectTweet, OpenEditDialog, OpenScheduleDialog, OpenDialog, CloseDialog
<1>3. ASSUME NEW b \in Boards, Refresh(b) \/ ServerReads(b) \/ ListArrives(b) \/ ListFails(b)
      PROVE  BoardTypeOK' /\ RestingCalls'
  <2>1. /\ fetch' \in [Boards -> Statuses \cup {Resting, Asked}]
        /\ list' \in [Boards -> Statuses]
    BY <1>3 DEF Refresh, ServerReads, ListArrives, ListFails
  <2>2. /\ unseen' \subseteq Boards /\ early' \subseteq Boards /\ blind' \subseteq Boards
        /\ boardFaults' \in 0..MaxBoardFaults
    BY <1>3 DEF Refresh, ServerReads, ListArrives, ListFails
  <2> QED
    BY <1>3, <2>1, <2>2 DEF Refresh, ServerReads, ListArrives, ListFails
<1>4. ASSUME NEW c \in Calls, NEW b \in Boards, NEW k \in {"edit", "approve", "schedule", "post"},
             NEW x \in Texts \cup {NoText}, k = "edit" => x \in Texts,
             Mutate(c, b, k, x), edits' \in 0..MaxEdits
      PROVE  BoardTypeOK' /\ RestingCalls'
  BY <1>4 DEF Mutate
<1>5. ASSUME NEW c \in Calls, NEW b \in Boards,
             SaveEdit(c, b) \/ ApproveTweet(c, b) \/ PostNow(c, b) \/ ScheduleTweet(c, b)
      PROVE  BoardTypeOK' /\ RestingCalls'
  <2>1. CASE SaveEdit(c, b)
    <3>1. edits' \in 0..MaxEdits
      BY <2>1 DEF SaveEdit
    <3> QED
      BY <1>4, <2>1, <3>1 DEF SaveEdit
  <2> QED
    BY <1>4, <1>5, <2>1 DEF ApproveTweet, PostNow, ScheduleTweet
<1>6. ASSUME NEW c \in Calls, NEW ok \in BOOLEAN, Reply(c, ok),
             status' \in Statuses, content' \in Texts, scheduledRow' \in BOOLEAN,
             queued' \in BOOLEAN, unseen' \subseteq Boards, early' \subseteq Boards,
             boardFaults' \in 0..MaxBoardFaults, UNCHANGED <<worker, edits>>
      PROVE  BoardTypeOK' /\ RestingCalls'
  <2>1. callAt' \in [Calls -> {"idle", "find", "write", "preapprove", "add", "set", "requeue"}]
        /\ callOwner' \in [Calls -> Boards \cup {NoBoard}]
        /\ callKind' \in [Calls -> {"none", "edit", "approve", "schedule", "post", "cron"}]
        /\ callText' \in [Calls -> Texts \cup {NoText}]
    BY <1>6, ReplyChanges
  <2>2. RestingCalls'
    BY <1>6, ReplyChanges
  <2> QED
    BY <1>6, <2>1, <2>2, ReplyChanges
<1>7. ASSUME NEW c \in Calls, NEW point \in {"write", "preapprove", "add", "set", "requeue"},
             GoOn(c, point),
             status' \in Statuses, content' \in Texts, scheduledRow' \in BOOLEAN,
             queued' \in BOOLEAN, unseen' \subseteq Boards, early' \subseteq Boards,
             UNCHANGED <<worker, edits, boardFaults>>
      PROVE  BoardTypeOK' /\ RestingCalls'
  BY <1>7, GoOnChanges
<1>8. ASSUME NEW c \in Calls, Written(c)
      PROVE  unseen' \subseteq Boards /\ early' \subseteq Boards
  BY <1>8 DEF Written
<1>9. ASSUME NEW c \in Calls,
             FindForEdit(c) \/ FindForApprove(c) \/ FindForSchedule(c) \/ CallDies(c)
               \/ AddJob(c)
      PROVE  BoardTypeOK' /\ RestingCalls'
  <2>1. CASE FindForEdit(c) \/ FindForApprove(c)
    BY <1>6, <1>7, <2>1 DEF FindForEdit, FindForApprove
  <2>2. CASE FindForSchedule(c)
    BY <1>6, <1>7, <2>2 DEF FindForSchedule
  <2>3. CASE CallDies(c)
    <3>1. boardFaults' \in 0..MaxBoardFaults
      BY <2>3 DEF CallDies
    <3> QED
      BY <1>6, <2>3, <3>1 DEF CallDies
  <2>4. CASE AddJob(c)
    BY <1>6, <1>7, <2>4 DEF AddJob
  <2> QED
    BY <1>9, <2>1, <2>2, <2>3, <2>4
<1>10. ASSUME NEW c \in Calls, CronFinds(c) PROVE BoardTypeOK' /\ RestingCalls'
  BY <1>10 DEF CronFinds
<1>11. ASSUME NEW c \in Calls, WriteText(c) PROVE BoardTypeOK' /\ RestingCalls'
  BY <1>6, <1>8, <1>11 DEF WriteText
<1>12. ASSUME NEW c \in Calls, WriteStatus(c) PROVE BoardTypeOK' /\ RestingCalls'
  BY <1>6, <1>7, <1>8, <1>12 DEF WriteStatus, Statuses
<1>13. ASSUME NEW c \in Calls, SetScheduled(c) PROVE BoardTypeOK' /\ RestingCalls'
  BY <1>6, <1>8, <1>13 DEF SetScheduled, Statuses
<1>14. CASE WorkerReads
  BY <1>14 DEF WorkerReads
<1>15. CASE WorkerPosts \/ WorkerFails
  <2>1. onX' \subseteq Texts
    BY <1>15 DEF WorkerPosts, WorkerFails, Sent
  <2>2. boardFaults' \in 0..MaxBoardFaults
    BY <1>15 DEF WorkerPosts, WorkerFails
  <2>3. status' \in Statuses
    BY <1>15 DEF WorkerPosts, WorkerFails, Statuses
  <2> QED
    BY <1>15, <2>1, <2>2, <2>3 DEF WorkerPosts, WorkerFails
<1> QED
  BY <1>1, <1>2, <1>3, <1>5, <1>9, <1>10, <1>11, <1>12, <1>13, <1>14, <1>15
  DEF BoardNext, BoardStep, BoardCallStep

(* Whoever could change the text has passed its check before the worker    *)
(* read, and then the worker counts as overtaken.                          *)
LEMMA TextStep == BoardInv /\ [BoardNext]_boardVars => ReadTextSettled'
<1> SUFFICES ASSUME BoardInv, [BoardNext]_boardVars PROVE ReadTextSettled'
  OBVIOUS
<1> USE BoardAssumption DEF BoardInv, BoardTypeOK, ReadTextSettled, Sealed
<1>1. CASE UNCHANGED <<status, content, callAt, carried, onX, overtaken>>
  BY <1>1
<1>2. ASSUME NEW c \in Calls, NEW point \in {"idle", "find", "add", "set", "requeue"},
             callAt' = [callAt EXCEPT ![c] = point],
             UNCHANGED <<content, carried, onX, overtaken>>,
             status' = status \/ status' = "scheduled"
      PROVE  ReadTextSettled'
  BY <1>2
<1>3. ASSUME NEW c \in Calls, NEW ok \in BOOLEAN, Reply(c, ok),
             UNCHANGED <<content, worker>>, status' = status \/ status' = "scheduled"
      PROVE  ReadTextSettled'
  BY <1>2, <1>3, ReplyChanges DEF worker
<1>4. ASSUME NEW c \in Calls, NEW b \in Boards,
             SaveEdit(c, b) \/ ApproveTweet(c, b) \/ PostNow(c, b) \/ ScheduleTweet(c, b)
      PROVE  ReadTextSettled'
  BY <1>2, <1>4 DEF SaveEdit, ApproveTweet, PostNow, ScheduleTweet, Mutate, tweet, worker
<1>5. ASSUME NEW c \in Calls, FindForEdit(c) \/ FindForApprove(c) PROVE ReadTextSettled'
  <2>1. CASE status \in {"draft", "approved"}
    BY <1>5, <2>1 DEF FindForEdit, FindForApprove, tweet, worker
  <2>2. CASE status \notin {"draft", "approved"}
    BY <1>3, <1>5, <2>2 DEF FindForEdit, FindForApprove, MayEdit, tweet
  <2> QED
    BY <2>1, <2>2
<1>6. ASSUME NEW c \in Calls, FindForSchedule(c) PROVE ReadTextSettled'
  <2>1. CASE GoOn(c, "preapprove") /\ status = "draft"
    BY <1>6, <2>1 DEF FindForSchedule, tweet, worker
  <2>2. CASE GoOn(c, "add") \/ GoOn(c, "requeue")
    BY <1>2, <1>6, <2>2, GoOnChanges DEF FindForSchedule, tweet, worker
  <2>3. CASE Reply(c, FALSE)
    BY <1>3, <1>6, <2>3 DEF FindForSchedule, tweet
  <2> QED
    BY <1>6, <2>1, <2>2, <2>3 DEF FindForSchedule
<1>7. ASSUME NEW c \in Calls, CronFinds(c) PROVE ReadTextSettled'
  BY <1>2, <1>7 DEF CronFinds, tweet, worker
<1>8. ASSUME NEW c \in Calls, WriteText(c) \/ WriteStatus(c) PROVE ReadTextSettled'
  <2>1. ~Sealed /\ UNCHANGED <<carried, onX, overtaken>>
    BY <1>8 DEF WriteText, WriteStatus, worker
  <2> QED
    BY <2>1
<1>9. ASSUME NEW c \in Calls, AddJob(c) PROVE ReadTextSettled'
  <2>1. CASE callAt[c] = "add"
    BY <1>2, <1>9, <2>1, GoOnChanges DEF AddJob, worker
  <2>2. CASE callAt[c] # "add"
    BY <1>3, <1>9, <2>2 DEF AddJob
  <2> QED
    BY <2>1, <2>2
<1>10. ASSUME NEW c \in Calls, SetScheduled(c) \/ CallDies(c) PROVE ReadTextSettled'
  BY <1>3, <1>10 DEF SetScheduled, CallDies, tweet
<1>11. CASE WorkerReads
  BY <1>11 DEF WorkerReads, requests, Statuses
<1>12. CASE WorkerPosts \/ WorkerFails
  BY <1>12 DEF WorkerPosts, WorkerFails, Sent, requests
<1> QED
  BY <1>1, <1>4, <1>5, <1>6, <1>7, <1>8, <1>9, <1>10, <1>11, <1>12
  DEF BoardNext, BoardStep, BoardCallStep, boardVars, tweet, worker, requests,
      SelectTweet, OpenEditDialog, OpenScheduleDialog, OpenDialog, CloseDialog,
      Refresh, ServerReads, ListArrives, ListFails

(* A write makes its page wait: for the answer to the request, and then    *)
(* for the list that the answer makes it fetch again.                      *)
LEMMA AwaitedStep == BoardInv /\ [BoardNext]_boardVars => WritesAwaited'
<1> SUFFICES ASSUME BoardInv, [BoardNext]_boardVars PROVE WritesAwaited'
  OBVIOUS
<1> USE BoardAssumption DEF BoardInv, BoardTypeOK, WritesAwaited, RestingCalls
<1>1. CASE UNCHANGED <<unseen, blind, early, fetch, callOwner>>
  BY <1>1
<1>2. ASSUME NEW b \in Boards, Refresh(b) \/ ServerReads(b) \/ ListFails(b)
      PROVE  WritesAwaited'
  BY <1>2 DEF Refresh, ServerReads, ListFails, requests, Resting, Statuses
<1>3. ASSUME NEW b \in Boards, ListArrives(b) PROVE WritesAwaited'
  BY <1>3 DEF ListArrives, requests, Asked, Statuses
<1>4. ASSUME NEW c \in Calls, NEW b \in Boards,
             SaveEdit(c, b) \/ ApproveTweet(c, b) \/ PostNow(c, b) \/ ScheduleTweet(c, b)
      PROVE  WritesAwaited'
  BY <1>4 DEF SaveEdit, ApproveTweet, PostNow, ScheduleTweet, Mutate, views
<1>5. ASSUME NEW c \in Calls, NEW ok \in BOOLEAN, Reply(c, ok),
             UNCHANGED <<unseen, early>> \/ Written(c)
      PROVE  WritesAwaited'
  <2> SUFFICES ASSUME NEW b \in unseen' \ blind'
               PROVE  \/ \E d \in Calls : callOwner'[d] = b
                      \/ fetch'[b] = Asked
                      \/ fetch'[b] \in Statuses /\ b \notin early'
    OBVIOUS
  <2>1. b \in Boards
    BY <1>5 DEF Written
  <2>2. CASE b = callOwner[c]
    BY <1>5, <2>1, <2>2, ReplyChanges
  <2>3. CASE b # callOwner[c]
    <3>1. b \in unseen \ blind /\ (b \in early' => b \in early)
      BY <1>5, <2>1, <2>3, ReplyChanges DEF Written
    <3> QED
      BY <1>5, <2>1, <2>3, <3>1, ReplyChanges
  <2> QED
    BY <2>2, <2>3
<1>6. ASSUME NEW c \in Calls, NEW point, GoOn(c, point),
             UNCHANGED <<unseen, early>> \/ Written(c)
      PROVE  WritesAwaited'
  BY <1>6, GoOnChanges DEF Written
<1>7. ASSUME NEW c \in Calls,
             FindForEdit(c) \/ FindForApprove(c) \/ FindForSchedule(c) \/ AddJob(c)
               \/ CallDies(c)
      PROVE  WritesAwaited'
  BY <1>5, <1>6, <1>7 DEF FindForEdit, FindForApprove, FindForSchedule, AddJob, CallDies
<1>8. ASSUME NEW c \in Calls, WriteText(c) \/ WriteStatus(c) \/ SetScheduled(c)
      PROVE  WritesAwaited'
  BY <1>5, <1>6, <1>8 DEF WriteText, WriteStatus, SetScheduled
<1> QED
  BY <1>1, <1>2, <1>3, <1>4, <1>7, <1>8
  DEF BoardNext, BoardStep, BoardCallStep, boardVars, requests, views,
      SelectTweet, OpenEditDialog, OpenScheduleDialog, OpenDialog, CloseDialog,
      CronFinds, WorkerReads, WorkerPosts, WorkerFails

(* The inductive invariant holds in every reachable state.                 *)
THEOREM BoardInvariance == BoardSpec => []BoardInv
<1>1. BoardInv /\ [BoardNext]_boardVars => BoardInv'
  BY BoardTypeStep, TextStep, AwaitedStep DEF BoardInv
<1> QED
  BY BoardInitInv, <1>1, PTL DEF BoardSpec

(* Pages, requests and the worker keep to their sets of values.            *)
THEOREM BoardTypes == BoardSpec => []BoardTypeOK
<1>1. BoardInv => BoardTypeOK
  BY DEF BoardInv
<1> QED
  BY BoardInvariance, <1>1, PTL

(* The text on X is the stored one, unless an edit overtook the worker.    *)
THEOREM TextOnXSettled == BoardSpec => []TextSettled
<1>1. BoardInv => TextSettled
  BY DEF BoardInv, ReadTextSettled, TextSettled
<1> QED
  BY BoardInvariance, <1>1, PTL

(* A page at rest that was told of its writes shows them.                  *)
THEOREM OwnWritesShown == BoardSpec => []ShowsOwnWrites
<1>1. BoardInv => ShowsOwnWrites
  BY DEF BoardInv, BoardTypeOK, WritesAwaited, ShowsOwnWrites, Resting, Asked, Statuses
<1> QED
  BY BoardInvariance, <1>1, PTL

-----------------------------------------------------------------------------
(* A transaction that deletes rows has seen them, and nobody else deletes  *)
(* them; it inserts what its form has, and holds the bot when it commits.  *)
RowsOfTransactions ==
  /\ \A r \in Requests :
       /\ statement[r] \in {"insert", "update", "commit"} => gone[r] = seenRows[r]
       /\ statement[r] \notin {"insert", "update", "commit"} => gone[r] = {}
       /\ statement[r] \in {"update", "commit"} => added[r] = sent[r].topics
       /\ statement[r] \notin {"update", "commit"} => added[r] = {}
       /\ \A q \in Requests \ {r} : gone[q] \cap gone[r] = {}
  /\ holder = {r \in Requests : statement[r] = "commit"}
  /\ \A q, r \in Requests : statement[q] = "commit" /\ statement[r] = "commit" => q = r

(* Only a bot that is there has topics, or a save that commits; before it  *)
(* is there, nothing was found.                                            *)
LifeCycle ==
  /\ life # "live" => topics = {}
  /\ \A r \in Requests : statement[r] = "commit" => life = "live"
  /\ life = "none" => \A r \in Requests : statement[r] \in {"idle", "insert bot", "find"}

(* A creation under way has stored the sources of its form, and goes on to *)
(* subscribe to all of them when there are none.                           *)
Creations ==
  /\ \A r \in Requests : operation[r] = "create" =>
       /\ statement[r] \in {"insert bot", "log created", "subscribe"}
       /\ statement[r] = "subscribe" => sent[r].sources = {}
       /\ statement[r] # "insert bot" /\ life = "live" =>
            saved.sources = sent[r].sources /\ sent[r].sources \subseteq subs
  /\ promised => life # "none"

(* The two facts that CreatedIsSubscribed follows from.                    *)
HasAsked ==
  promised /\ life = "live" =>
    saved.sources \subseteq subs /\ (saved.sources = {} => Sources \subseteq subs)

LEMMA AskedHears == HasAsked <=> CreatedIsSubscribed
BY BotAssumption DEF HasAsked, CreatedIsSubscribed

InTransaction(r) == statement[r] \in {"deleting", "insert", "update", "commit"}

(* Topics that none of these requests has seen when its DELETE began.      *)
Hidden(R) == {x \in topics : \A r \in R : x \notin seenRows[r]}

(* What several open transactions all miss was saved by others, while they *)
(* were open: there are fewer savers left, the more transactions miss it.  *)
TopicsCounted ==
  \A R \in SUBSET {r \in Requests : InTransaction(r)} :
    Cardinality(Hidden(R)) <= MaxTopics * (Cardinality(Requests) - Cardinality(R))

BotInv ==
  /\ BotTypeOK /\ RowsOfTransactions /\ LifeCycle /\ Creations
  /\ LastSaveKept /\ CreatedIsSubscribed /\ TopicsCounted

(* The answer to a request: a creation is only promised when it succeeded. *)
LEMMA AnswerChanges ==
  ASSUME BotTypeOK, NEW r \in Requests, NEW ok \in BOOLEAN, Answer(r, ok)
  PROVE  /\ statement' = [statement EXCEPT ![r] = "idle"]
         /\ operation' = [operation EXCEPT ![r] = "update"]
         /\ sent' = [sent EXCEPT ![r] = Blank]
         /\ owner' = [owner EXCEPT ![r] = NoTab]
         /\ page' \in [Tabs -> {"away", "list", "new", "edit"}]
         /\ shown' = shown
         /\ promised' \in BOOLEAN
         /\ promised' => promised \/ (ok /\ operation[r] = "create")
BY DEF BotTypeOK, Answer

LEMMA GotoChanges ==
  ASSUME NEW r, NEW s, Goto(r, s), Stay
  PROVE  /\ statement' = [statement EXCEPT ![r] = s]
         /\ UNCHANGED <<operation, owner, sent, page, shown, promised>>
BY DEF Goto, Stay, tabs

(* Forms have at most MaxTopics topics, and a blank one has none.          *)
LEMMA FormTypes ==
  ASSUME NEW f \in Forms \cup {Blank}
  PROVE  /\ f.name \in Names \cup {NoName}
         /\ f.persona \in Personas \cup {NoPersona}
         /\ f.topics \subseteq Topics /\ f.sources \subseteq Pairs
         /\ IsFiniteSet(f.topics) /\ Cardinality(f.topics) \in Nat
         /\ Cardinality(f.topics) <= MaxTopics
<1>1. CASE f \in Forms
  BY <1>1, BotAssumption, FS_Subset, FS_CardinalityType DEF Forms, TopicLists
<1>2. CASE f = Blank
  BY <1>2, BotAssumption, FS_EmptySet DEF Blank
<1> QED
  BY <1>1, <1>2

(* What the pages of a tab do, by what they change.                        *)
LEMMA TabChanges ==
  ASSUME BotTypeOK, NEW t \in Tabs, TabStep(t)
  PROVE  /\ page' \in [Tabs -> {"away", "list", "new", "edit"}]
         /\ shown' \in [Tabs -> BOOLEAN]
         /\ owner' \in [Requests -> Tabs \cup {NoTab}]
         /\ UNCHANGED <<row, operation, sent, statement, transaction, saved, promised, bounds>>
<1> USE DEF BotTypeOK, calls
<1>1. CASE OpenNew(t) \/ OpenList(t) \/ OpenEdit(t)
  BY <1>1 DEF OpenNew, OpenList, OpenEdit, Open
<1>2. CASE Leave(t)
  BY <1>2 DEF Leave
<1>3. CASE Refetch(t)
  BY <1>3 DEF Refetch
<1> QED
  BY <1>1, <1>2, <1>3 DEF TabStep

(* A counter below its bound can be counted up.                            *)
LEMMA CountUp ==
  ASSUME NEW m \in Nat, NEW n \in 0..m, n < m
  PROVE  n + 1 \in 0..m
OBVIOUS

(* A request that is sent: an idle slot becomes a request with a form.     *)
Sends(r, t, k, f, s) ==
  /\ k = "create" => s = "insert bot"
  /\ statement[r] = "idle"
  /\ submits' \in 0..MaxSubmits
  /\ operation' = [operation EXCEPT ![r] = k]
  /\ owner' = [owner EXCEPT ![r] = t]
  /\ sent' = [sent EXCEPT ![r] = f]
  /\ statement' = [statement EXCEPT ![r] = s]
  /\ UNCHANGED <<row, tabs, transaction, saved, promised, botFaults>>

LEMMA SendChanges ==
  ASSUME BotTypeOK, NEW t \in Tabs, NEW r \in Requests, CallStep(r, t)
  PROVE  \E k \in Kinds, f \in Forms \cup {Blank}, s \in {"insert bot", "find"} :
           Sends(r, t, k, f, s)
<1>1. ASSUME NEW k \in Kinds, NEW f \in Forms \cup {Blank}, NEW s \in {"insert bot", "find"},
             k = "create" => s = "insert bot", Send(r, t, k, f, s)
      PROVE  Sends(r, t, k, f, s)
  <2>1. submits' \in 0..MaxSubmits
    <3>1. submits \in 0..MaxSubmits /\ submits < MaxSubmits /\ submits' = submits + 1
      BY <1>1 DEF Send, BotTypeOK
    <3>2. submits + 1 \in 0..MaxSubmits
      BY <3>1, CountUp, BotAssumption
    <3> QED
      BY <3>1, <3>2
  <2> QED
    BY <1>1, <2>1 DEF Send, Sends
<1>2. CASE Create(r, t)
  <2>1. PICK f \in Forms : Send(r, t, "create", f, "insert bot")
    BY <1>2 DEF Create
  <2> QED
    BY <1>1, <2>1 DEF Kinds
<1>3. CASE SaveForm(r, t)
  <2>1. PICK f \in {g \in Forms : g.sources = {}} : Send(r, t, "update", f, "find")
    BY <1>3 DEF SaveForm
  <2> QED
    BY <1>1, <2>1 DEF Kinds
<1>4. CASE HandleDelete(r, t) \/ Toggle(r, t) \/ SubscribeAll(r, t)
  <2>1. PICK k \in {"remove", "start", "stop", "subscribe"} : Send(r, t, k, Blank, "find")
    <3>1. CASE HandleDelete(r, t)
      BY <3>1 DEF HandleDelete
    <3>2. CASE Toggle(r, t)
      BY <3>2 DEF Toggle
    <3>3. CASE SubscribeAll(r, t)
      BY <3>3 DEF SubscribeAll
    <3> QED
      BY <1>4, <3>1, <3>2, <3>3
  <2>2. k \in Kinds /\ k # "create" /\ Blank \in Forms \cup {Blank}
    BY DEF Kinds
  <2> QED
    BY <1>1, <2>1, <2>2
<1> QED
  BY <1>2, <1>3, <1>4 DEF CallStep

(* A transaction that ends without a commit leaves no rows behind.         *)
LEMMA RollbackChanges ==
  ASSUME BotTypeOK, NEW r \in Requests, Rollback(r)
  PROVE  /\ statement' = [statement EXCEPT ![r] = "idle"]
         /\ operation' = [operation EXCEPT ![r] = "update"]
         /\ sent' = [sent EXCEPT ![r] = Blank]
         /\ owner' = [owner EXCEPT ![r] = NoTab]
         /\ page' \in [Tabs -> {"away", "list", "new", "edit"}]
         /\ shown' = shown
         /\ promised' = promised
         /\ seenRows' = [seenRows EXCEPT ![r] = {}]
         /\ gone' = [gone EXCEPT ![r] = {}]
         /\ added' = [added EXCEPT ![r] = {}]
         /\ holder' = holder \ {r}
         /\ UNCHANGED <<row, saved>>
<1>1. Answer(r, FALSE) /\ Released(r) /\ UNCHANGED <<row, saved>>
  BY DEF Rollback
<1>2. promised' = promised
  BY <1>1 DEF Answer, BotTypeOK
<1> QED
  BY <1>1, <1>2, AnswerChanges DEF Released

(* Nothing has been sent or created yet.                                   *)
LEMMA BotInitInv == BotInit => BotInv
<1> SUFFICES ASSUME BotInit PROVE BotInv
  OBVIOUS
<1> USE DEF BotInit
<1>1. BotTypeOK
  <2>1. 0 \in 0..MaxSubmits /\ 0 \in 0..MaxBotFaults
    BY BotAssumption
  <2>2. topics = {} /\ subs = {} /\ saved = Blank /\ name = NoName
        /\ persona = NoPersona
    BY DEF Blank
  <2>3. saved \in Columns
    BY DEF Columns, Blank
  <2> QED
    BY <2>1, <2>2, <2>3 DEF BotTypeOK, Kinds, Statements
<1>2. RowsOfTransactions /\ LifeCycle /\ Creations
  BY DEF RowsOfTransactions, LifeCycle, Creations
<1>3. LastSaveKept /\ CreatedIsSubscribed
  BY DEF LastSaveKept, CreatedIsSubscribed
<1>4. TopicsCounted
  <2>1. {r \in Requests : InTransaction(r)} = {}
    BY DEF InTransaction
  <2>2. ASSUME NEW R \in SUBSET {r \in Requests : InTransaction(r)}
        PROVE  Cardinality(Hidden(R)) <= MaxTopics * (Cardinality(Requests) - Cardinality(R))
    <3>1. R = {} /\ Hidden(R) = {}
      BY <2>1, <2>2 DEF Hidden
    <3>2. Cardinality(R) = 0 /\ Cardinality(Hidden(R)) = 0
      BY <3>1, FS_EmptySet
    <3>3. Cardinality(Requests) \in Nat /\ MaxTopics \in Nat
      BY BotAssumption, FS_CardinalityType
    <3>4. 0 <= MaxTopics * (Cardinality(Requests) - 0)
      BY <3>3
    <3> QED
      BY <3>2, <3>4
  <2> QED
    BY <2>2 DEF TopicsCounted
<1> QED
  BY <1>1, <1>2, <1>3, <1>4 DEF BotInv

(* A statement of a request is followed by another one or by its answer.   *)
LEMMA AnswerOrGoto ==
  ASSUME NEW r \in Requests, BotRequestStep(r)
  PROVE  \/ \E ok \in BOOLEAN : Answer(r, ok)
         \/ \E s \in Statements : Goto(r, s) /\ Stay
<1>1. CASE CreateInsert(r)
  BY <1>1 DEF CreateInsert, Statements
<1>2. CASE CreateLog(r)
  BY <1>2 DEF CreateLog, Statements
<1>3. CASE SubscribeToAllSources(r) \/ SwitchLog(r) \/ Remove(r) \/ Commit(r)
  BY <1>3 DEF SubscribeToAllSources, SwitchLog, Remove, Commit
<1>4. CASE FindOne(r)
  BY <1>4 DEF FindOne, AfterFind, Statements
<1>5. CASE Switch(r)
  BY <1>5 DEF Switch, Statements
<1>6. CASE DeleteBegins(r) \/ DeleteTopics(r)
  BY <1>6 DEF DeleteBegins, DeleteTopics, Statements
<1>7. CASE InsertTopics(r)
  BY <1>7 DEF InsertTopics, Rollback, Statements
<1>8. CASE UpdateBot(r)
  BY <1>8 DEF UpdateBot, Rollback, Statements
<1>9. CASE RequestDies(r)
  BY <1>9 DEF RequestDies, Rollback
<1> QED
  BY <1>1, <1>2, <1>3, <1>4, <1>5, <1>6, <1>7, <1>8, <1>9 DEF BotRequestStep

(* What a statement writes to the tables, by type.                         *)
LEMMA TableTypes ==
  ASSUME BotTypeOK, NEW r \in Requests, BotRequestStep(r)
  PROVE  /\ life' \in {"none", "live", "deleted"} /\ active' \in BOOLEAN
         /\ name' \in Names \cup {NoName} /\ persona' \in Personas \cup {NoPersona}
         /\ saved' \in Columns /\ topics' \subseteq Topics /\ subs' \subseteq Pairs
         /\ submits' \in 0..MaxSubmits /\ botFaults' \in 0..MaxBotFaults
<1> USE DEF BotTypeOK, row, bounds
<1>1. sent[r] \in Forms \cup {Blank}
  OBVIOUS
<1>2. /\ sent[r].name \in Names \cup {NoName} /\ sent[r].topics \subseteq Topics
      /\ sent[r].persona \in Personas \cup {NoPersona} /\ sent[r].sources \subseteq Pairs
      /\ sent[r] \in Columns
  BY <1>1, FormTypes DEF Columns, Forms, Blank, TopicLists
<1>3. CASE CreateInsert(r)
  BY <1>1, <1>2, <1>3 DEF CreateInsert
<1>4. CASE CreateLog(r) \/ SubscribeToAllSources(r) \/ FindOne(r)
  BY <1>4, BotAssumption DEF CreateLog, SubscribeToAllSources, FindOne
<1>5. CASE Switch(r) \/ SwitchLog(r) \/ Remove(r)
  BY <1>5 DEF Switch, SwitchLog, Remove
<1>6. CASE DeleteBegins(r) \/ DeleteTopics(r) \/ InsertTopics(r) \/ UpdateBot(r)
  BY <1>6 DEF DeleteBegins, DeleteTopics, InsertTopics, UpdateBot, Rollback
<1>7. CASE Commit(r)
  <2>1. saved' \in Columns
    BY <1>2, <1>7 DEF Commit, Columns
  <2>2. persona' \in Personas \cup {NoPersona}
    BY <1>2, <1>7 DEF Commit, PersonaKept
  <2>3. topics' \subseteq Topics
    BY <1>7 DEF Commit, Kept
  <2>4. name' = sent[r].name /\ UNCHANGED <<life, active, subs, bounds>>
    BY <1>7 DEF Commit
  <2> QED
    BY <1>2, <2>1, <2>2, <2>3, <2>4
<1>8. CASE RequestDies(r)
  <2>1. botFaults' \in 0..MaxBotFaults
    <3>1. botFaults \in 0..MaxBotFaults /\ botFaults < MaxBotFaults /\ botFaults' = botFaults + 1
      BY <1>8 DEF RequestDies
    <3>2. botFaults + 1 \in 0..MaxBotFaults
      BY <3>1, CountUp, BotAssumption
    <3> QED
      BY <3>1, <3>2
  <2> QED
    BY <1>8, <2>1 DEF RequestDies, Rollback
<1> QED
  BY <1>3, <1>4, <1>5, <1>6, <1>7, <1>8 DEF BotRequestStep

(* What a statement locks, finds, deletes and inserts, by type.            *)
LEMMA TransactionTypes ==
  ASSUME BotTypeOK, NEW r \in Requests, BotRequestStep(r)
  PROVE  /\ seenRows' \in [Requests -> SUBSET Topics]
         /\ gone' \in [Requests -> SUBSET Topics] /\ added' \in [Requests -> SUBSET Topics]
         /\ holder' \subseteq Requests
<1> USE DEF transaction
<1>1. /\ seenRows \in [Requests -> SUBSET Topics] /\ topics \subseteq Topics
      /\ gone \in [Requests -> SUBSET Topics] /\ added \in [Requests -> SUBSET Topics]
      /\ holder \subseteq Requests
  BY DEF BotTypeOK
<1>2. sent[r].topics \subseteq Topics
  BY FormTypes DEF BotTypeOK
<1>3. CASE CreateInsert(r) \/ CreateLog(r) \/ SubscribeToAllSources(r) \/ FindOne(r)
             \/ Switch(r) \/ SwitchLog(r)
  BY <1>1, <1>3 DEF CreateInsert, CreateLog, SubscribeToAllSources, FindOne, Switch, SwitchLog
<1>4. CASE Remove(r)
  BY <1>1, <1>4 DEF Remove
<1>5. CASE DeleteBegins(r) \/ DeleteTopics(r)
  BY <1>1, <1>5 DEF DeleteBegins, DeleteTopics
<1>6. CASE Rollback(r)
  BY <1>1, <1>6 DEF Rollback, Released
<1>7. CASE InsertTopics(r) /\ ~Rollback(r)
  BY <1>1, <1>2, <1>7 DEF InsertTopics
<1>8. CASE UpdateBot(r) /\ ~Rollback(r)
  BY <1>1, <1>8 DEF UpdateBot
<1>9. CASE Commit(r)
  BY <1>1, <1>9 DEF Commit
<1> QED
  BY <1>3, <1>4, <1>5, <1>6, <1>7, <1>8, <1>9 DEF BotRequestStep, RequestDies

(* Every variable keeps to its type.                                       *)
LEMMA BotTypeStep == BotInv /\ [BotNext]_botVars => BotTypeOK'
<1> SUFFICES ASSUME BotTypeOK, [BotNext]_botVars PROVE BotTypeOK'
  BY DEF BotInv
<1>1. CASE UNCHANGED botVars
  BY <1>1 DEF botVars, BotTypeOK
<1>2. ASSUME NEW t \in Tabs, TabStep(t) PROVE BotTypeOK'
  BY <1>2, TabChanges DEF BotTypeOK, row, transaction, bounds
<1>3. ASSUME NEW t \in Tabs, NEW r \in Requests, CallStep(r, t) PROVE BotTypeOK'
  <2>1. PICK k \in Kinds, f \in Forms \cup {Blank}, s \in {"insert bot", "find"} :
          Sends(r, t, k, f, s)
    BY <1>3, SendChanges
  <2>2. s \in Statements
    BY DEF Statements
  <2> QED
    BY <2>1, <2>2 DEF BotTypeOK, Sends, row, tabs, transaction
<1>4. ASSUME NEW r \in Requests, BotRequestStep(r) PROVE BotTypeOK'
  <2>1. /\ operation' \in [Requests -> Kinds] /\ owner' \in [Requests -> Tabs \cup {NoTab}]
        /\ sent' \in [Requests -> Forms \cup {Blank}] /\ statement' \in [Requests -> Statements]
        /\ page' \in [Tabs -> {"away", "list", "new", "edit"}]
        /\ shown' \in [Tabs -> BOOLEAN] /\ promised' \in BOOLEAN
    <3>1. CASE \E ok \in BOOLEAN : Answer(r, ok)
      <4>1. "idle" \in Statements /\ "update" \in Kinds
        BY DEF Statements, Kinds
      <4> QED
        BY <3>1, <4>1, AnswerChanges DEF BotTypeOK
    <3>2. CASE \E s \in Statements : Goto(r, s) /\ Stay
      BY <3>2 DEF BotTypeOK, Goto, Stay, tabs
    <3> QED
      BY <1>4, <3>1, <3>2, AnswerOrGoto
  <2> QED
    BY <1>4, <2>1, TableTypes, TransactionTypes DEF BotTypeOK
<1> QED
  BY <1>1, <1>2, <1>3, <1>4 DEF BotNext

(* Steps outside of the statements that hold rows, by what they keep.      *)
HoldsNothing(r) ==
  /\ statement[r] \notin {"insert", "update", "commit"}
  /\ \E s \in Statements \ {"insert", "update", "commit"} :
       statement' = [statement EXCEPT ![r] = s]
  /\ UNCHANGED <<gone, added, holder>>
  /\ \A q \in Requests \ {r} :
       /\ sent'[q] = sent[q]
       /\ statement[q] \in {"insert", "update", "commit"} => seenRows'[q] = seenRows[q]

LEMMA OutsideTransactions ==
  ASSUME BotTypeOK, RowsOfTransactions, NEW r \in Requests,
         \/ CreateInsert(r) \/ CreateLog(r) \/ SubscribeToAllSources(r) \/ FindOne(r)
         \/ Switch(r) \/ SwitchLog(r) \/ Remove(r) \/ DeleteBegins(r)
  PROVE  HoldsNothing(r)
<1>1. /\ sent \in [Requests -> Forms \cup {Blank}]
      /\ seenRows \in [Requests -> SUBSET Topics] /\ gone \in [Requests -> SUBSET Topics]
  BY DEF BotTypeOK
<1>2. \A ok \in BOOLEAN : Answer(r, ok) =>
        /\ \A q \in Requests \ {r} : sent'[q] = sent[q]
        /\ \E s \in Statements \ {"insert", "update", "commit"} :
             statement' = [statement EXCEPT ![r] = s]
  BY <1>1 DEF Answer, Statements
<1>3. \A s \in Statements \ {"insert", "update", "commit"} : Goto(r, s) =>
        /\ \A q \in Requests \ {r} : sent'[q] = sent[q]
        /\ \E u \in Statements \ {"insert", "update", "commit"} :
             statement' = [statement EXCEPT ![r] = u]
  BY DEF Goto
<1>4. CASE CreateInsert(r)
  BY <1>2, <1>3, <1>4 DEF CreateInsert, HoldsNothing, transaction, Statements
<1>5. CASE CreateLog(r)
  BY <1>2, <1>3, <1>5 DEF CreateLog, HoldsNothing, transaction, Statements
<1>6. CASE SubscribeToAllSources(r) \/ SwitchLog(r)
  BY <1>2, <1>6 DEF SubscribeToAllSources, SwitchLog, HoldsNothing, transaction
<1>7. CASE FindOne(r)
  BY <1>2, <1>3, <1>7 DEF FindOne, AfterFind, HoldsNothing, transaction, Statements
<1>8. CASE Switch(r)
  BY <1>2, <1>3, <1>8 DEF Switch, HoldsNothing, transaction, Statements
<1>9. CASE Remove(r)
  <2>1. \A q \in Requests \ {r} :
          statement[q] \in {"insert", "update", "commit"} => seenRows'[q] = seenRows[q]
    BY <1>1, <1>9 DEF Remove, Others, RowsOfTransactions
  <2> QED
    BY <1>2, <1>9, <2>1 DEF Remove, HoldsNothing
<1>10. CASE DeleteBegins(r)
  BY <1>1, <1>3, <1>10 DEF DeleteBegins, HoldsNothing, Statements
<1> QED
  BY <1>4, <1>5, <1>6, <1>7, <1>8, <1>9, <1>10

(* A transaction holds exactly what its statements have deleted and        *)
(* inserted, and what two transactions have deleted is disjoint.           *)
LEMMA TransactionStep == BotInv /\ [BotNext]_botVars => RowsOfTransactions'
<1> SUFFICES ASSUME BotTypeOK, RowsOfTransactions, [BotNext]_botVars
             PROVE  RowsOfTransactions'
  BY DEF BotInv
<1>0. /\ statement \in [Requests -> Statements] /\ sent \in [Requests -> Forms \cup {Blank}]
      /\ seenRows \in [Requests -> SUBSET Topics]
      /\ gone \in [Requests -> SUBSET Topics] /\ added \in [Requests -> SUBSET Topics]
      /\ holder \subseteq Requests
  BY DEF BotTypeOK
<1>1. CASE UNCHANGED botVars
  BY <1>1 DEF botVars, RowsOfTransactions
<1>2. ASSUME NEW t \in Tabs, TabStep(t) PROVE RowsOfTransactions'
  BY <1>2, TabChanges DEF RowsOfTransactions, transaction
<1>3. ASSUME NEW t \in Tabs, NEW r \in Requests, CallStep(r, t) PROVE RowsOfTransactions'
  <2>1. PICK k \in Kinds, f \in Forms \cup {Blank}, s \in {"insert bot", "find"} :
          Sends(r, t, k, f, s)
    BY <1>3, SendChanges
  <2> QED
    BY <1>0, <2>1 DEF RowsOfTransactions, Sends, transaction
<1>4. ASSUME NEW r \in Requests, HoldsNothing(r) PROVE RowsOfTransactions'
  BY <1>0, <1>4 DEF HoldsNothing, RowsOfTransactions
<1>5. ASSUME NEW r \in Requests, DeleteTopics(r) PROVE RowsOfTransactions'
  BY <1>0, <1>5 DEF DeleteTopics, Goto, Others, RowsOfTransactions
<1>6. ASSUME NEW r \in Requests, Rollback(r) PROVE RowsOfTransactions'
  BY <1>0, <1>6 DEF Rollback, Answer, Released, RowsOfTransactions
<1>7. ASSUME NEW r \in Requests, InsertTopics(r), ~Rollback(r) PROVE RowsOfTransactions'
  BY <1>0, <1>7 DEF InsertTopics, Goto, RowsOfTransactions
<1>8. ASSUME NEW r \in Requests, UpdateBot(r), ~Rollback(r) PROVE RowsOfTransactions'
  BY <1>0, <1>8 DEF UpdateBot, Goto, RowFree, RowsOfTransactions
<1>9. ASSUME NEW r \in Requests, Commit(r) PROVE RowsOfTransactions'
  BY <1>0, <1>9 DEF Commit, Answer, RowsOfTransactions
<1> QED
  BY <1>1, <1>2, <1>3, <1>4, <1>5, <1>6, <1>7, <1>8, <1>9, OutsideTransactions
     DEF BotNext, BotRequestStep, RequestDies

(* A bot is created once and deleted once, and a save commits before it is *)
(* deleted.                                                                *)
LEMMA LifeStep == BotInv /\ [BotNext]_botVars => LifeCycle'
<1> SUFFICES ASSUME BotTypeOK, RowsOfTransactions, LifeCycle, [BotNext]_botVars
             PROVE  LifeCycle'
  BY DEF BotInv
<1>0. statement \in [Requests -> Statements]
  BY DEF BotTypeOK
<1>1. CASE UNCHANGED botVars
  BY <1>1 DEF botVars, LifeCycle
<1>2. ASSUME NEW t \in Tabs, TabStep(t) PROVE LifeCycle'
  BY <1>2, TabChanges DEF LifeCycle, row
<1>3. ASSUME NEW t \in Tabs, NEW r \in Requests, CallStep(r, t) PROVE LifeCycle'
  <2>1. PICK k \in Kinds, f \in Forms \cup {Blank}, s \in {"insert bot", "find"} :
          Sends(r, t, k, f, s)
    BY <1>3, SendChanges
  <2> QED
    BY <1>0, <2>1 DEF LifeCycle, Sends, row
<1>4. ASSUME NEW r \in Requests, BotRequestStep(r) PROVE LifeCycle'
  <2> USE <1>0 DEF LifeCycle, Answer, Goto, row
  <2>1. CASE CreateInsert(r)
    BY <2>1 DEF CreateInsert
  <2>2. CASE CreateLog(r)
    BY <2>2 DEF CreateLog
  <2>3. CASE SubscribeToAllSources(r) \/ SwitchLog(r)
    BY <2>3 DEF SubscribeToAllSources, SwitchLog
  <2>4. CASE FindOne(r)
    BY <2>4 DEF FindOne, AfterFind
  <2>5. CASE Switch(r)
    BY <2>5 DEF Switch
  <2>6. CASE Remove(r)
    <3>1. \A q \in Requests : statement'[q] # "commit"
      BY <2>6 DEF Remove, RowFree, RowsOfTransactions
    <3> QED
      BY <2>6, <3>1 DEF Remove
  <2>7. CASE DeleteBegins(r) \/ DeleteTopics(r)
    BY <2>7 DEF DeleteBegins, DeleteTopics
  <2>8. CASE InsertTopics(r)
    BY <2>8 DEF InsertTopics, Rollback
  <2>9. CASE UpdateBot(r)
    BY <2>9 DEF UpdateBot, Rollback
  <2>10. CASE Commit(r)
    BY <2>10 DEF Commit
  <2>11. CASE RequestDies(r)
    BY <2>11 DEF RequestDies, Rollback
  <2> QED
    BY <1>4, <2>1, <2>2, <2>3, <2>4, <2>5, <2>6, <2>7, <2>8, <2>9, <2>10, <2>11
       DEF BotRequestStep
<1> QED
  BY <1>1, <1>2, <1>3, <1>4 DEF BotNext

(* A creation is answered when its bot has its subscriptions: those of the *)
(* form, or all of them.                                                   *)
LEMMA CreationStep ==
  BotInv /\ [BotNext]_botVars => Creations' /\ CreatedIsSubscribed'
<1> DEFINE Goal == Creations' /\ HasAsked'
<1> SUFFICES ASSUME BotTypeOK, LifeCycle, Creations, HasAsked, [BotNext]_botVars
             PROVE  Goal
  <2>1. HasAsked' => CreatedIsSubscribed'
    BY BotAssumption DEF HasAsked, CreatedIsSubscribed
  <2> QED
    BY <2>1, AskedHears DEF BotInv
<1>0. /\ statement \in [Requests -> Statements] /\ operation \in [Requests -> Kinds]
      /\ sent \in [Requests -> Forms \cup {Blank}]
  BY DEF BotTypeOK
<1>1. ASSUME promised' = promised, life' = life, subs' = subs, saved'.sources = saved.sources,
             \A q \in Requests : operation'[q] = "create" =>
               \/ statement'[q] = "insert bot"
               \/ /\ operation[q] = "create" /\ statement'[q] = statement[q]
                  /\ sent'[q] = sent[q]
      PROVE  Goal
  BY <1>1 DEF Creations, HasAsked
<1>2. ASSUME NEW r \in Requests, NEW ok \in BOOLEAN, Answer(r, ok),
             operation[r] # "create" \/ ~ok,
             life' = life, subs' = subs, saved'.sources = saved.sources
      PROVE  Goal
  <2>1. /\ statement' = [statement EXCEPT ![r] = "idle"]
        /\ operation' = [operation EXCEPT ![r] = "update"]
        /\ sent' = [sent EXCEPT ![r] = Blank]
    BY <1>2, AnswerChanges
  <2>2. promised' = promised
    BY <1>2 DEF Answer, BotTypeOK
  <2> QED
    BY <1>0, <1>1, <1>2, <2>1, <2>2
<1>3. ASSUME NEW r \in Requests, NEW s, Goto(r, s), Stay, operation[r] # "create",
             life' = life, subs' = subs, saved'.sources = saved.sources
      PROVE  Goal
  BY <1>0, <1>1, <1>3 DEF Goto, Stay
<1>4. CASE UNCHANGED botVars
  BY <1>1, <1>4 DEF botVars
<1>5. ASSUME NEW t \in Tabs, TabStep(t) PROVE Goal
  BY <1>1, <1>5, TabChanges DEF row
<1>6. ASSUME NEW t \in Tabs, NEW r \in Requests, CallStep(r, t) PROVE Goal
  <2>1. PICK k \in Kinds, f \in Forms \cup {Blank}, s \in {"insert bot", "find"} :
          Sends(r, t, k, f, s)
    BY <1>6, SendChanges
  <2> QED
    BY <1>0, <1>1, <2>1 DEF Sends, row
<1>7. ASSUME NEW r \in Requests, CreateInsert(r) PROVE Goal
  <2>1. CASE life # "none"
    BY <1>2, <1>7, <2>1 DEF CreateInsert, row
  <2>2. CASE life = "none"
    <3>1. /\ life' = "live" /\ subs' = sent[r].sources /\ saved' = sent[r]
          /\ statement' = [statement EXCEPT ![r] = "log created"]
          /\ UNCHANGED <<operation, sent, promised>>
      BY <1>7, <2>2 DEF CreateInsert, Goto, Stay
    <3>2. /\ ~promised
          /\ \A q \in Requests : statement[q] \in {"idle", "insert bot", "find"}
      BY <2>2 DEF Creations, LifeCycle
    <3> QED
      BY <1>0, <3>1, <3>2 DEF Creations, HasAsked
  <2> QED
    BY <2>1, <2>2
<1>8. ASSUME NEW r \in Requests, CreateLog(r) PROVE Goal
  <2>1. statement[r] = "log created" /\ UNCHANGED <<life, subs, saved>>
    BY <1>8 DEF CreateLog, row
  <2>2. CASE life = "live" /\ sent[r].sources = {}
    <3>1. /\ statement' = [statement EXCEPT ![r] = "subscribe"]
          /\ UNCHANGED <<operation, sent, promised>>
      BY <1>8, <2>2 DEF CreateLog, Goto, Stay
    <3> QED
      BY <1>0, <2>1, <2>2, <3>1 DEF Creations, HasAsked
  <2>3. CASE ~(life = "live" /\ sent[r].sources = {})
    <3>1. /\ statement' = [statement EXCEPT ![r] = "idle"]
          /\ operation' = [operation EXCEPT ![r] = "update"]
          /\ sent' = [sent EXCEPT ![r] = Blank]
          /\ promised' => promised \/ (life = "live" /\ operation[r] = "create")
      BY <1>8, <2>3, AnswerChanges DEF CreateLog
    <3> QED
      BY <1>0, <2>1, <2>3, <3>1 DEF Creations, HasAsked
  <2> QED
    BY <2>2, <2>3
<1>9. ASSUME NEW r \in Requests, SubscribeToAllSources(r) PROVE Goal
  <2>1. /\ statement[r] = "subscribe" /\ UNCHANGED <<life, saved>>
        /\ subs \subseteq subs' /\ (life = "live" => Sources \subseteq subs')
    BY <1>9 DEF SubscribeToAllSources
  <2>2. /\ statement' = [statement EXCEPT ![r] = "idle"]
        /\ operation' = [operation EXCEPT ![r] = "update"]
        /\ sent' = [sent EXCEPT ![r] = Blank]
        /\ promised' => promised \/ (life = "live" /\ operation[r] = "create")
    BY <1>9, AnswerChanges DEF SubscribeToAllSources
  <2>3. Creations'
    BY <1>0, <2>1, <2>2 DEF Creations
  <2>4. HasAsked'
    BY <2>1, <2>2 DEF Creations, HasAsked
  <2> QED
    BY <2>3, <2>4
<1>10. ASSUME NEW r \in Requests, Remove(r) PROVE Goal
  <2>1. /\ statement[r] = "remove" /\ Answer(r, life = "live") /\ saved' = saved
        /\ \/ life = "live" /\ life' = "deleted"
           \/ life # "live" /\ UNCHANGED <<life, subs>>
    BY <1>10 DEF Remove
  <2>2. operation[r] # "create"
    BY <2>1 DEF Creations
  <2>3. CASE life # "live"
    BY <1>2, <2>1, <2>2, <2>3
  <2>4. CASE life = "live"
    <3>1. life' = "deleted" /\ operation' = [operation EXCEPT ![r] = "update"]
          /\ statement' = [statement EXCEPT ![r] = "idle"]
          /\ sent' = [sent EXCEPT ![r] = Blank]
      BY <2>1, <2>4, AnswerChanges
    <3> QED
      BY <1>0, <3>1 DEF Creations, HasAsked
  <2> QED
    BY <2>3, <2>4
<1>11. ASSUME NEW r \in Requests,
              \/ FindOne(r) \/ Switch(r) \/ SwitchLog(r) \/ DeleteBegins(r) \/ DeleteTopics(r)
              \/ InsertTopics(r) \/ UpdateBot(r) \/ Commit(r)
       PROVE  Goal
  <2>1. operation[r] # "create"
    BY <1>11 DEF Creations, FindOne, Switch, SwitchLog, DeleteBegins, DeleteTopics,
                 InsertTopics, UpdateBot, Commit
  <2>2. /\ UNCHANGED <<life, subs>>
        /\ saved' = saved \/ saved' = [sent[r] EXCEPT !.sources = saved.sources]
    BY <1>11 DEF row, FindOne, Switch, SwitchLog, DeleteBegins, DeleteTopics, InsertTopics,
                 UpdateBot, Commit, Rollback
  <2>3. saved'.sources = saved.sources
    BY <1>0, <2>2 DEF Forms, Blank
  <2> QED
    BY <1>2, <1>3, <1>11, <2>1, <2>2, <2>3, AnswerOrGoto DEF BotRequestStep
<1>12. ASSUME NEW r \in Requests, RequestDies(r) PROVE Goal
  <2>1. Answer(r, FALSE) /\ UNCHANGED <<life, subs, saved>>
    BY <1>12 DEF RequestDies, Rollback, row
  <2> QED
    BY <1>2, <2>1
<1> HIDE DEF Goal
<1> QED
  BY <1>4, <1>5, <1>6, <1>7, <1>8, <1>9, <1>10, <1>11, <1>12 DEF BotNext, BotRequestStep

(* Only a creation and a commit write a form, and a commit has inserted    *)
(* the topics of its own.                                                  *)
LEMMA SavedStep == BotInv /\ [BotNext]_botVars => LastSaveKept'
<1> SUFFICES ASSUME BotTypeOK, RowsOfTransactions, LastSaveKept, [BotNext]_botVars
             PROVE  LastSaveKept'
  BY DEF BotInv
<1>1. CASE UNCHANGED <<row, saved>>
  BY <1>1 DEF row, LastSaveKept
<1>2. ASSUME NEW r \in Requests, CreateInsert(r), life = "none" PROVE LastSaveKept'
  BY <1>2 DEF CreateInsert, LastSaveKept
<1>3. ASSUME NEW r \in Requests, SubscribeToAllSources(r) \/ Switch(r) \/ Remove(r)
      PROVE  LastSaveKept'
  BY <1>3 DEF SubscribeToAllSources, Switch, Remove, LastSaveKept
<1>4. ASSUME NEW r \in Requests, Commit(r) PROVE LastSaveKept'
  <2>a. name' = sent[r].name /\ persona' = PersonaKept(r) /\ topics' = Kept(r)
    BY <1>4, Zenon DEF Commit
  <2>b. saved' = [sent[r] EXCEPT !.sources = saved.sources]
    BY <1>4, Zenon DEF Commit
  <2>1. sent[r] \in Forms \cup {Blank}
    BY DEF BotTypeOK
  <2>2. /\ saved'.name = sent[r].name /\ saved'.persona = sent[r].persona
        /\ saved'.topics = sent[r].topics
    BY <2>b, <2>1 DEF Forms, Blank
  <2>3. sent[r].topics \subseteq Kept(r)
    BY <1>4 DEF Commit, Kept, RowsOfTransactions
  <2> QED
    BY <2>a, <2>2, <2>3 DEF PersonaKept, LastSaveKept
<1>5. ASSUME NEW t \in Tabs, TabStep(t) PROVE UNCHANGED <<row, saved>>
  BY <1>5, TabChanges
<1>6. ASSUME NEW t \in Tabs, NEW r \in Requests, CallStep(r, t) PROVE UNCHANGED <<row, saved>>
  BY <1>6, SendChanges DEF Sends
<1>7. ASSUME NEW r \in Requests, BotRequestStep(r)
      PROVE  \/ UNCHANGED <<row, saved>>
             \/ (CreateInsert(r) /\ life = "none") \/ SubscribeToAllSources(r) \/ Switch(r)
             \/ Remove(r) \/ Commit(r)
  BY <1>7 DEF BotRequestStep, CreateInsert, CreateLog, FindOne, SwitchLog,
              DeleteBegins, DeleteTopics, InsertTopics, UpdateBot, RequestDies, Rollback
<1> QED
  BY <1>1, <1>2, <1>3, <1>4, <1>5, <1>6, <1>7 DEF BotNext, botVars, row

(* Products of a limit and a number of requests.                           *)
LEMMA NoneFits ==
  ASSUME NEW m \in Nat, NEW n \in Nat, NEW k \in Nat, k <= n
  PROVE  0 <= m * (n - k)
<1>1. n - k \in Nat
  OBVIOUS
<1> QED
  BY <1>1

LEMMA OneMoreFits ==
  ASSUME NEW m \in Nat, NEW n \in Nat, NEW k \in Nat
  PROVE  m * (n - (k + 1)) + m = m * (n - k)
OBVIOUS

LEMMA UnionBound ==
  ASSUME NEW S, NEW T, IsFiniteSet(S), IsFiniteSet(T)
  PROVE  Cardinality(S \cup T) <= Cardinality(S) + Cardinality(T)
<1>1. Cardinality(S \cup T) = Cardinality(S) + Cardinality(T) - Cardinality(S \cap T)
  BY FS_Union
<1>2. Cardinality(S \cap T) \in Nat
  BY FS_Intersection, FS_CardinalityType
<1> QED
  BY <1>1, <1>2, FS_CardinalityType

(* The sets of the count are finite.                                       *)
LEMMA CountedSets ==
  ASSUME BotTypeOK, NEW R \in SUBSET Requests
  PROVE  /\ IsFiniteSet(R) /\ Cardinality(R) \in Nat
         /\ Cardinality(Requests) \in Nat /\ Cardinality(R) <= Cardinality(Requests)
         /\ IsFiniteSet(topics)
         /\ IsFiniteSet(Hidden(R)) /\ Cardinality(Hidden(R)) \in Nat
         /\ MaxTopics \in Nat
<1>1. IsFiniteSet(Requests) /\ IsFiniteSet(Topics) /\ MaxTopics \in Nat
  BY BotAssumption
<1>2. topics \subseteq Topics /\ Hidden(R) \subseteq Topics
  BY DEF BotTypeOK, Hidden
<1> QED
  BY <1>1, <1>2, FS_Subset, FS_CardinalityType

Transactions == {r \in Requests : InTransaction(r)}

(* A step that hides nothing from transactions that were open before.      *)
LEMMA HidesNothing ==
  ASSUME BotTypeOK, TopicsCounted, NEW R \in SUBSET Transactions,
         Hidden(R)' \subseteq Hidden(R)
  PROVE  Cardinality(Hidden(R)') <= MaxTopics * (Cardinality(Requests) - Cardinality(R))
<1>1. R \in SUBSET Requests
  BY DEF Transactions
<1>2. Cardinality(Hidden(R)) <= MaxTopics * (Cardinality(Requests) - Cardinality(R))
  BY DEF TopicsCounted, Transactions
<1>3. Cardinality(Hidden(R)') <= Cardinality(Hidden(R)) /\ Cardinality(Hidden(R)') \in Nat
  BY <1>1, CountedSets, FS_Subset, FS_CardinalityType
<1>4. MaxTopics * (Cardinality(Requests) - Cardinality(R)) \in Int
  BY <1>1, CountedSets
<1> QED
  BY <1>1, <1>2, <1>3, <1>4, CountedSets

(* A step after which these transactions miss no topic at all.             *)
LEMMA HidesAll ==
  ASSUME BotTypeOK, NEW R \in SUBSET Requests, Hidden(R)' = {}
  PROVE  Cardinality(Hidden(R)') <= MaxTopics * (Cardinality(Requests) - Cardinality(R))
<1>1. Cardinality(Hidden(R)') = 0
  BY FS_EmptySet
<1>2. 0 <= MaxTopics * (Cardinality(Requests) - Cardinality(R))
  BY CountedSets, NoneFits
<1> QED
  BY <1>1, <1>2

(* A commit adds its topics to what the others miss, and is one saver less.*)
LEMMA CommitCounted ==
  ASSUME BotInv, NEW r \in Requests, Commit(r), NEW R \in SUBSET (Transactions \ {r})
  PROVE  Cardinality(Hidden(R)') <= MaxTopics * (Cardinality(Requests) - Cardinality(R))
<1> DEFINE Q == R \cup {r}
<1>0. /\ BotTypeOK /\ RowsOfTransactions /\ TopicsCounted
      /\ seenRows \in [Requests -> SUBSET Topics]
  BY DEF BotInv, BotTypeOK
<1>1. statement[r] = "commit" /\ r \in Transactions /\ R \subseteq Requests
  BY DEF Commit, Transactions, InTransaction
<1>2. Hidden(R)' \subseteq Hidden(Q) \cup added[r]
  <2>1. /\ topics' = (topics \ gone[r]) \cup added[r]
        /\ \A q \in R : seenRows'[q] = seenRows[q] \ gone[r]
    BY <1>1 DEF Commit, Kept
  <2>2. gone[r] = seenRows[r]
    BY <1>0, <1>1 DEF RowsOfTransactions
  <2> QED
    BY <2>1, <2>2 DEF Hidden
<1>3. Q \in SUBSET Transactions /\ Q \in SUBSET Requests
  BY <1>1 DEF Transactions
<1>4. /\ Cardinality(Hidden(Q)) <= MaxTopics * (Cardinality(Requests) - Cardinality(Q))
      /\ IsFiniteSet(Hidden(Q)) /\ Cardinality(Hidden(Q)) \in Nat
  BY <1>0, <1>3, CountedSets DEF TopicsCounted, Transactions
<1>5. Cardinality(Q) = Cardinality(R) + 1
  BY <1>0, <1>1, CountedSets, FS_AddElement
<1>6. IsFiniteSet(added[r]) /\ Cardinality(added[r]) <= MaxTopics /\ Cardinality(added[r]) \in Nat
  <2>1. added[r] = sent[r].topics
    BY <1>0, <1>1 DEF RowsOfTransactions
  <2>2. sent[r] \in Forms \cup {Blank}
    BY <1>0 DEF BotTypeOK
  <2> QED
    BY <2>1, <2>2, FormTypes
<1>7. Cardinality(Hidden(R)') <= Cardinality(Hidden(Q)) + Cardinality(added[r])
  <2>1. Cardinality(Hidden(Q) \cup added[r]) <= Cardinality(Hidden(Q)) + Cardinality(added[r])
    BY <1>4, <1>6, UnionBound
  <2>2. IsFiniteSet(Hidden(Q) \cup added[r])
    BY <1>4, <1>6, FS_Union
  <2>3. /\ Cardinality(Hidden(R)') <= Cardinality(Hidden(Q) \cup added[r])
        /\ Cardinality(Hidden(R)') \in Nat
        /\ Cardinality(Hidden(Q) \cup added[r]) \in Nat
    BY <1>2, <2>2, FS_Subset, FS_CardinalityType
  <2> QED
    BY <1>4, <1>6, <2>1, <2>3
<1>8. /\ Cardinality(Requests) \in Nat /\ Cardinality(R) \in Nat /\ MaxTopics \in Nat
  BY <1>0, <1>1, CountedSets
<1>9. /\ MaxTopics * (Cardinality(Requests) - Cardinality(Q)) + MaxTopics
           = MaxTopics * (Cardinality(Requests) - Cardinality(R))
      /\ MaxTopics * (Cardinality(Requests) - Cardinality(Q)) \in Int
  BY <1>5, <1>8, OneMoreFits
<1>10. Cardinality(Hidden(R)') \in Nat
  <2>1. IsFiniteSet(Hidden(R)')
    BY <1>2, <1>4, <1>6, FS_Union, FS_Subset
  <2> QED
    BY <2>1, FS_CardinalityType
<1> HIDE DEF Q
<1> QED
  BY <1>4, <1>6, <1>7, <1>8, <1>9, <1>10

(* A creation brings at most the topics of one form.                       *)
LEMMA CreateCounted ==
  ASSUME BotInv, NEW r \in Requests, CreateInsert(r), life = "none",
         NEW R \in SUBSET Transactions'
  PROVE  Cardinality(Hidden(R)') <= MaxTopics * (Cardinality(Requests) - Cardinality(R))
<1>0. BotTypeOK /\ statement \in [Requests -> Statements] /\ sent[r] \in Forms \cup {Blank}
  BY DEF BotInv, BotTypeOK
<1>1. R = {}
  BY <1>0 DEF BotInv, LifeCycle, CreateInsert, Goto, Transactions, InTransaction
<1>2. Hidden(R)' = sent[r].topics
  BY <1>1 DEF CreateInsert, Hidden
<1>3. Cardinality(Hidden(R)') <= MaxTopics /\ Cardinality(Hidden(R)') \in Nat
  BY <1>0, <1>2, FormTypes
<1>4. Cardinality(Requests) \in Nat /\ Cardinality(Requests) # 0 /\ MaxTopics \in Nat
  BY <1>0, CountedSets, FS_EmptySet, BotAssumption
<1>5. Cardinality(R) = 0
  BY <1>1, FS_EmptySet
<1>6. MaxTopics <= MaxTopics * (Cardinality(Requests) - 0)
  <2>1. PICK k \in Nat : Cardinality(Requests) = k + 1
    <3>1. Cardinality(Requests) - 1 \in Nat
      BY <1>4
    <3> QED
      BY <1>4, <3>1
  <2>2. MaxTopics * (k + 1) = MaxTopics * k + MaxTopics /\ MaxTopics * k \in Nat
    BY <1>4
  <2> QED
    BY <1>4, <2>1, <2>2
<1> QED
  BY <1>3, <1>4, <1>5, <1>6

(* Whoever misses topics has begun before they were committed, so that     *)
(* those who saved them cannot save again before it ends.                  *)
LEMMA CountStep == BotInv /\ [BotNext]_botVars => TopicsCounted'
<1> SUFFICES ASSUME BotInv, [BotNext]_botVars, NEW R \in SUBSET Transactions'
             PROVE  Cardinality(Hidden(R)')
                      <= MaxTopics * (Cardinality(Requests) - Cardinality(R))
  BY DEF TopicsCounted, Transactions
<1>0. /\ BotTypeOK /\ RowsOfTransactions /\ LifeCycle /\ TopicsCounted
      /\ statement \in [Requests -> Statements]
      /\ seenRows \in [Requests -> SUBSET Topics]
      /\ R \in SUBSET Requests
  BY DEF BotInv, BotTypeOK, Transactions
<1> DEFINE Keeps == /\ R \subseteq Transactions /\ topics' = topics
                    /\ \A q \in R : seenRows'[q] = seenRows[q]
<1>1. CASE Keeps
  BY <1>0, <1>1, HidesNothing DEF Hidden
<1>2. CASE UNCHANGED botVars
  <2>1. Keeps
    BY <1>2 DEF botVars, Transactions, InTransaction
  <2> QED
    BY <1>1, <2>1
<1>3. ASSUME NEW t \in Tabs, TabStep(t) PROVE Keeps
  BY <1>0, <1>3, TabChanges DEF row, transaction, Transactions, InTransaction
<1>4. ASSUME NEW t \in Tabs, NEW r \in Requests, CallStep(r, t) PROVE Keeps
  <2>1. PICK k \in Kinds, f \in Forms \cup {Blank}, s \in {"insert bot", "find"} :
          Sends(r, t, k, f, s)
    BY <1>0, <1>4, SendChanges
  <2> QED
    BY <1>0, <2>1 DEF Sends, row, transaction, Transactions, InTransaction
<1>5. ASSUME NEW r \in Requests, CreateInsert(r)
      PROVE  Keeps \/ life = "none"
  BY <1>0, <1>5 DEF CreateInsert, Answer, row, transaction, Transactions, InTransaction
<1>6. ASSUME NEW r \in Requests,
             CreateLog(r) \/ SubscribeToAllSources(r) \/ FindOne(r) \/ Switch(r) \/ SwitchLog(r)
      PROVE  Keeps
  <2>1. /\ topics' = topics /\ seenRows' = seenRows
        /\ \E s \in Statements \ {"deleting", "insert", "update", "commit"} :
             statement' = [statement EXCEPT ![r] = s]
    BY <1>6 DEF CreateLog, SubscribeToAllSources, FindOne, AfterFind, Switch, SwitchLog,
                Answer, Goto, row, transaction, Statements
  <2> QED
    BY <1>0, <2>1 DEF Transactions, InTransaction
<1>7. ASSUME NEW r \in Requests, Remove(r) PROVE Hidden(R)' = {}
  BY <1>0, <1>7 DEF Remove, LifeCycle, Hidden
<1>8. ASSUME NEW r \in Requests, DeleteBegins(r)
      PROVE  Keeps \/ Hidden(R)' = {}
  <2>1. CASE r \in R
    BY <1>0, <1>8, <2>1 DEF DeleteBegins, row, Hidden
  <2>2. CASE r \notin R
    BY <1>0, <1>8, <2>2 DEF DeleteBegins, Goto, row, Transactions, InTransaction
  <2> QED
    BY <2>1, <2>2
<1>9. ASSUME NEW r \in Requests, DeleteTopics(r) PROVE Keeps
  BY <1>0, <1>9 DEF DeleteTopics, Goto, row, Transactions, InTransaction
<1>10. ASSUME NEW r \in Requests, Rollback(r) PROVE Keeps
  BY <1>0, <1>10 DEF Rollback, Answer, Released, row, Transactions, InTransaction
<1>11. ASSUME NEW r \in Requests, InsertTopics(r) \/ UpdateBot(r), ~Rollback(r) PROVE Keeps
  BY <1>0, <1>11 DEF InsertTopics, UpdateBot, Goto, row, Transactions, InTransaction
<1>12. ASSUME NEW r \in Requests, Commit(r) PROVE R \in SUBSET (Transactions \ {r})
  BY <1>0, <1>12 DEF Commit, Answer, Transactions, InTransaction
<1> HIDE DEF Keeps
<1>13. ASSUME NEW r \in Requests, BotRequestStep(r)
       PROVE  \/ Keeps \/ Hidden(R)' = {}
              \/ CreateInsert(r) /\ life = "none"
              \/ Commit(r) /\ R \in SUBSET (Transactions \ {r})
  BY <1>5, <1>6, <1>7, <1>8, <1>9, <1>10, <1>11, <1>12, <1>13 DEF BotRequestStep, RequestDies
<1>14. ASSUME NEW r \in Requests, BotRequestStep(r)
       PROVE  Cardinality(Hidden(R)')
                <= MaxTopics * (Cardinality(Requests) - Cardinality(R))
  BY <1>0, <1>1, <1>13, <1>14, HidesAll, CreateCounted, CommitCounted
<1> QED
  BY <1>1, <1>2, <1>3, <1>4, <1>14 DEF BotNext

(* The invariant holds in every reachable state, however many tabs and     *)
(* requests there are.                                                     *)
THEOREM BotInvariance == BotSpec => []BotInv
<1>1. BotInit => BotInv
  BY BotInitInv
<1>2. BotInv /\ [BotNext]_botVars => BotInv'
  BY BotTypeStep, TransactionStep, LifeStep, CreationStep, SavedStep, CountStep DEF BotInv
<1> QED
  BY <1>1, <1>2, PTL DEF BotSpec

(* The rows of a bot, its pages and the requests of BotsService keep to    *)
(* their types.                                                            *)
THEOREM BotTypes == BotSpec => []BotTypeOK
<1>1. BotInv => BotTypeOK
  BY DEF BotInv
<1> QED
  BY <1>1, BotInvariance, PTL

(* However saves overlap, a bot has what the last committed save has sent: *)
(* its columns, its persona unless that was left empty, and at least its   *)
(* topics (BotsService.update).                                            *)
THEOREM LastSaveStays == BotSpec => []LastSaveKept
<1>1. BotInv => LastSaveKept
  BY DEF BotInv
<1> QED
  BY <1>1, BotInvariance, PTL

(* A bot whose creation was answered is subscribed to what its form asked  *)
(* for, and to all listed sources when it asked for none; only a form that *)
(* names nothing but pairs no adapter delivers leaves it without a source  *)
(* to hear from (BotsService.create).                                      *)
THEOREM NewBotHears == BotSpec => []CreatedIsSubscribed
<1>1. BotInv => CreatedIsSubscribed
  BY DEF BotInv
<1> QED
  BY <1>1, BotInvariance, PTL

(* Overlapping saves add up their topics, but never to more than the limit *)
(* of one form for every request that runs.                                *)
THEOREM OverlapBounded == BotSpec => []TopicsBounded
<1>1. BotInv => TopicsBounded
  <2> SUFFICES ASSUME BotTypeOK, TopicsCounted PROVE TopicsBounded
    BY DEF BotInv
  <2>1. Cardinality(Hidden({})) <= MaxTopics * (Cardinality(Requests) - Cardinality({}))
    BY DEF TopicsCounted
  <2>2. Hidden({}) = topics /\ Cardinality({}) = 0
    BY FS_EmptySet DEF Hidden
  <2>3. Cardinality(Requests) - 0 = Cardinality(Requests)
    BY CountedSets
  <2> QED
    BY <2>1, <2>2, <2>3 DEF TopicsBounded
<1> QED
  BY <1>1, BotInvariance, PTL
=============================================================================
