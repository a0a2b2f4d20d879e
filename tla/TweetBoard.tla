----------------------------- MODULE TweetBoard -----------------------------
(***************************************************************************)
(* The text of one tweet: the page that lists tweets and edits, approves   *)
(* and schedules them from what it has cached, the requests it sends       *)
(* (TweetsService) and the worker that sends the text to X.  Jobs, rows    *)
(* and retries are the subject of TweetPosting; of them this module keeps  *)
(* what decides which text is sent.                                        *)
(*                                                                         *)
(* The cache is that of React Query: a successful mutation invalidates the *)
(* lists, which drops the answer of a fetch that is under way and fetches  *)
(* again.                                                                  *)
(***************************************************************************)
EXTENDS Naturals

CONSTANTS
  Boards,         \* pages that list the tweet
  NoBoard,        \* a call of the scheduler, or nobody waits for the answer
  Calls,          \* requests that are handled at the same time
  Texts,
  NoText,
  MaxEdits,       \* bound: edits that are sent
  MaxBoardFaults  \* bound: requests that die, fetches and attempts that fail

ASSUME BoardAssumption ==
  /\ NoBoard \notin Boards /\ NoText \notin Texts
  /\ MaxEdits \in Nat /\ MaxBoardFaults \in Nat

VARIABLES
  status, content,  \* of the tweet
  scheduledRow,     \* there is a row in scheduled_tweets
  queued,           \* there is a posting job that has not ended
  carried,          \* the text the worker has read, or NoText
  list,             \* the status of the tweet as a page shows it
  dialog,           \* what a page has open
  snapshot,         \* the status in the dialog with the details
  fetch,            \* the query of a page: at rest, sent, or the status it has read
  callKind, callText, callAt, callOwner,
  onX,              \* observer: texts X has accepted, until a worker is overtaken
  overtaken,        \* observer: the worker has read while an edit could follow
  unseen,           \* observer: pages whose own write they do not yet show
  early,            \* observer: pages whose answer was read before a write of theirs
  blind,            \* observer: pages that were not told of a write of theirs
  edits, boardFaults

tweet == <<status, content, scheduledRow, queued>>
worker == <<carried, onX, overtaken>>
boards == <<list, dialog, snapshot>>
requests == <<callKind, callText, callAt, callOwner>>
views == <<fetch, unseen, early, blind>>
boardVars == <<status, content, scheduledRow, queued, carried, list, dialog, snapshot,
               fetch, callKind, callText, callAt, callOwner, onX, overtaken, unseen,
               early, blind, edits, boardFaults>>

Statuses == {"draft", "approved", "scheduled", "posted", "failed"}
Resting == "rest"
Asked == "asked"

BoardTypeOK ==
  /\ status \in Statuses /\ content \in Texts
  /\ scheduledRow \in BOOLEAN /\ queued \in BOOLEAN
  /\ carried \in Texts \cup {NoText}
  /\ list \in [Boards -> Statuses]
  /\ dialog \in [Boards -> {"none", "details", "edit", "schedule"}]
  /\ snapshot \in [Boards -> Statuses]
  /\ fetch \in [Boards -> Statuses \cup {Resting, Asked}]
  /\ callKind \in [Calls -> {"none", "edit", "approve", "schedule", "post", "cron"}]
  /\ callText \in [Calls -> Texts \cup {NoText}]
  /\ callAt \in [Calls -> {"idle", "find", "write", "preapprove", "add", "set",
                           "requeue"}]
  /\ callOwner \in [Calls -> Boards \cup {NoBoard}]
  /\ onX \subseteq Texts /\ overtaken \in BOOLEAN
  /\ unseen \subseteq Boards /\ early \subseteq Boards /\ blind \subseteq Boards
  /\ edits \in 0..MaxEdits /\ boardFaults \in 0..MaxBoardFaults

BoardInit ==
  /\ status \in {"draft", "approved"} /\ content \in Texts
  /\ scheduledRow = FALSE /\ queued = FALSE
  /\ carried = NoText
  /\ list = [b \in Boards |-> status]
  /\ dialog = [b \in Boards |-> "none"]
  /\ snapshot = [b \in Boards |-> "draft"]
  /\ fetch = [b \in Boards |-> Resting]
  /\ callKind = [c \in Calls |-> "none"] /\ callText = [c \in Calls |-> NoText]
  /\ callAt = [c \in Calls |-> "idle"] /\ callOwner = [c \in Calls |-> NoBoard]
  /\ onX = {} /\ overtaken = FALSE
  /\ unseen = {} /\ early = {} /\ blind = {}
  /\ edits = 0 /\ boardFaults = 0

-----------------------------------------------------------------------------
(* The page.                                                               *)

CanEdit(s) == s \in {"draft", "approved"}

(* The status a button looks at: the list, or the details that are open.   *)
StatusAt(b) == IF dialog[b] = "details" THEN snapshot[b] ELSE list[b]

Show(b, d, s) ==
  /\ dialog' = [dialog EXCEPT ![b] = d]
  /\ snapshot' = [snapshot EXCEPT ![b] = s]

(* Of a tweet in another status the details only show more.                *)
SelectTweet(b) ==
  /\ dialog[b] = "none" /\ list[b] \in {"draft", "approved"}
  /\ Show(b, "details", list[b])
  /\ UNCHANGED <<tweet, worker, list, requests, views, edits, boardFaults>>

OpenDialog(b, d) ==
  /\ dialog[b] \in {"none", "details"}
  /\ CanEdit(StatusAt(b))
  /\ Show(b, d, "draft")
  /\ UNCHANGED <<tweet, worker, list, requests, views, edits, boardFaults>>

OpenEditDialog(b) == OpenDialog(b, "edit")
OpenScheduleDialog(b) == OpenDialog(b, "schedule")

CloseDialog(b) ==
  /\ dialog[b] # "none"
  /\ Show(b, "none", "draft")
  /\ UNCHANGED <<tweet, worker, list, requests, views, edits, boardFaults>>

(* A button is disabled while its mutation is pending.                     *)
Mutate(c, b, k, x) ==
  /\ callAt[c] = "idle"
  /\ \A d \in Calls : ~(callOwner[d] = b /\ callKind[d] = k)
  /\ callKind' = [callKind EXCEPT ![c] = k]
  /\ callText' = [callText EXCEPT ![c] = x]
  /\ callOwner' = [callOwner EXCEPT ![c] = b]
  /\ callAt' = [callAt EXCEPT ![c] = "find"]
  /\ UNCHANGED <<tweet, worker, boards, views, boardFaults>>

SaveEdit(c, b) ==
  /\ dialog[b] = "edit" /\ edits < MaxEdits
  /\ edits' = edits + 1
  /\ \E x \in Texts : Mutate(c, b, "edit", x)

ApproveTweet(c, b) ==
  /\ dialog[b] \in {"none", "details"} /\ StatusAt(b) = "draft"
  /\ Mutate(c, b, "approve", NoText) /\ UNCHANGED edits

PostNow(c, b) ==
  /\ dialog[b] \in {"none", "details"} /\ CanEdit(StatusAt(b))
  /\ Mutate(c, b, "post", NoText) /\ UNCHANGED edits

ScheduleTweet(c, b) ==
  /\ dialog[b] = "schedule"
  /\ Mutate(c, b, "schedule", NoText) /\ UNCHANGED edits

-----------------------------------------------------------------------------
(* Queries.                                                                *)

(* Mounted, focused or invalid: the list is fetched.                       *)
Refresh(b) ==
  /\ fetch[b] = Resting
  /\ fetch' = [fetch EXCEPT ![b] = Asked]
  /\ UNCHANGED <<tweet, worker, boards, requests, unseen, early, blind, edits, boardFaults>>

ServerReads(b) ==
  /\ fetch[b] = Asked
  /\ fetch' = [fetch EXCEPT ![b] = status]
  /\ early' = early \ {b}
  /\ UNCHANGED <<tweet, worker, boards, requests, unseen, blind, edits, boardFaults>>

ListArrives(b) ==
  /\ fetch[b] \in Statuses
  /\ list' = [list EXCEPT ![b] = fetch[b]]
  /\ unseen' = unseen \ ({b} \ early)
  /\ blind' = blind \ ({b} \ early)
  /\ fetch' = [fetch EXCEPT ![b] = Resting]
  /\ UNCHANGED <<tweet, worker, dialog, snapshot, requests, early, edits, boardFaults>>

(* After its retry: the page keeps the list it has.                        *)
ListFails(b) ==
  /\ fetch[b] # Resting /\ boardFaults < MaxBoardFaults
  /\ boardFaults' = boardFaults + 1
  /\ fetch' = [fetch EXCEPT ![b] = Resting]
  /\ blind' = blind \cup {b}
  /\ UNCHANGED <<tweet, worker, boards, requests, unseen, early, edits>>

(* Mutant of Invalidate: a fetch that is under way is left alone.          *)
InvalidateIdle(b) ==
  fetch' = IF fetch[b] = Resting THEN [fetch EXCEPT ![b] = Asked] ELSE fetch

(* invalidateQueries(["tweets"]), whatever filters the list has.           *)
Invalidate(b) == fetch' = [fetch EXCEPT ![b] = Asked]

-----------------------------------------------------------------------------
(* Requests.                                                               *)

GoOn(c, point) ==
  /\ callAt' = [callAt EXCEPT ![c] = point]
  /\ UNCHANGED <<callKind, callText, callOwner, boards, fetch, blind>>

(* The dialog that the success of a mutation closes: its own, or, for the  *)
(* buttons of the details, the details; those of the list close nothing.   *)
CloseAfter(b, k) ==
  \/ dialog[b] = k /\ Show(b, "none", "draft")
  \/ dialog[b] = "details" /\ k \in {"approve", "post"} /\ Show(b, "none", "draft")
  \/ dialog[b] # k /\ UNCHANGED <<dialog, snapshot>>

(* The answer: a success also invalidates the lists.                       *)
Reply(c, ok) ==
  LET b == callOwner[c] IN
  /\ callAt' = [callAt EXCEPT ![c] = "idle"]
  /\ callKind' = [callKind EXCEPT ![c] = "none"]
  /\ callText' = [callText EXCEPT ![c] = NoText]
  /\ callOwner' = [callOwner EXCEPT ![c] = NoBoard]
  /\ IF b = NoBoard THEN UNCHANGED <<boards, fetch, blind>>
     ELSE IF ok THEN /\ Invalidate(b)
                     /\ CloseAfter(b, callKind[c])
                     /\ UNCHANGED <<list, blind>>
     ELSE /\ blind' = blind \cup {b}
          /\ UNCHANGED <<boards, fetch>>

(* A write is not shown until a fetch that has read it arrives; a fetch    *)
(* that has read the row before is too early.                              *)
Written(c) ==
  LET mine == {callOwner[c]} \ {NoBoard} IN
  /\ unseen' = unseen \cup mine
  /\ early' = early \cup {b \in mine : fetch[b] \in Statuses}

(* Mutant of MayEdit: the same statuses as for posting.                    *)
MayEditScheduled == status \in {"draft", "approved", "scheduled"}

MayEdit == status \in {"draft", "approved"}

FindForEdit(c) ==
  /\ callAt[c] = "find" /\ callKind[c] = "edit"
  /\ IF MayEdit THEN GoOn(c, "write") ELSE Reply(c, FALSE)
  /\ UNCHANGED <<tweet, worker, unseen, early, edits, boardFaults>>

FindForApprove(c) ==
  /\ callAt[c] = "find" /\ callKind[c] = "approve"
  /\ IF status = "draft" THEN GoOn(c, "write") ELSE Reply(c, FALSE)
  /\ UNCHANGED <<tweet, worker, unseen, early, edits, boardFaults>>

(* A time that is not in the future is refused.                            *)
FindForSchedule(c) ==
  /\ callAt[c] = "find" /\ callKind[c] \in {"schedule", "post"}
  /\ \/ /\ status = "draft" /\ GoOn(c, "preapprove")
     \/ /\ status = "approved" /\ GoOn(c, "add")
     \/ /\ status = "scheduled" /\ callKind[c] = "post" /\ GoOn(c, "requeue")
     \/ /\ status \notin {"draft", "approved"}
        /\ ~(status = "scheduled" /\ callKind[c] = "post")
        /\ Reply(c, FALSE)
     \/ callKind[c] = "schedule" /\ Reply(c, FALSE)
  /\ UNCHANGED <<tweet, worker, unseen, early, edits, boardFaults>>

(* The scheduler takes an approved tweet without a row.                    *)
CronFinds(c) ==
  /\ callAt[c] = "idle"
  /\ status = "approved" /\ ~scheduledRow
  /\ callKind' = [callKind EXCEPT ![c] = "cron"]
  /\ callAt' = [callAt EXCEPT ![c] = "add"]
  /\ UNCHANGED <<tweet, worker, boards, views, callText, callOwner, edits, boardFaults>>

WriteText(c) ==
  /\ callAt[c] = "write" /\ callKind[c] = "edit"
  /\ content' = callText[c]
  /\ Written(c) /\ Reply(c, TRUE)
  /\ UNCHANGED <<status, scheduledRow, queued, worker, edits, boardFaults>>

WriteStatus(c) ==
  /\ \/ callAt[c] = "write" /\ callKind[c] = "approve" /\ Reply(c, TRUE)
     \/ callAt[c] = "preapprove" /\ GoOn(c, "add")
  /\ status' = "approved"
  /\ Written(c)
  /\ UNCHANGED <<content, scheduledRow, queued, worker, edits, boardFaults>>

AddJob(c) ==
  /\ callAt[c] \in {"add", "requeue"}
  /\ queued' = TRUE
  /\ IF callAt[c] = "add" THEN GoOn(c, "set") ELSE Reply(c, TRUE)
  /\ UNCHANGED <<status, content, scheduledRow, worker, unseen, early, edits, boardFaults>>

(* The row and the status: two statements, kept apart in TweetPosting.  A  *)
(* second row throws.                                                      *)
SetScheduled(c) ==
  /\ callAt[c] = "set"
  /\ IF scheduledRow
     THEN Reply(c, FALSE) /\ UNCHANGED <<status, unseen, early>>
     ELSE status' = "scheduled" /\ Written(c) /\ Reply(c, TRUE)
  /\ scheduledRow' = TRUE
  /\ UNCHANGED <<content, queued, worker, edits, boardFaults>>

CallDies(c) ==
  /\ callAt[c] # "idle" /\ boardFaults < MaxBoardFaults
  /\ boardFaults' = boardFaults + 1
  /\ Reply(c, FALSE)
  /\ UNCHANGED <<tweet, worker, unseen, early, edits>>

-----------------------------------------------------------------------------
(* The worker reads tweet and text at the start of an attempt, checks the  *)
(* limits, and sends the text it has read.                                 *)

WorkerReads ==
  /\ queued /\ carried = NoText
  /\ IF status = "posted"
     THEN queued' = FALSE /\ UNCHANGED <<carried, overtaken>>
     ELSE /\ carried' = content
          /\ overtaken' = \/ overtaken
                          \/ status # "scheduled" /\ status # "failed"
                          \/ \E c \in Calls : callAt[c] \in {"write", "preapprove"}
          /\ UNCHANGED queued
  /\ UNCHANGED <<status, content, scheduledRow, onX, boards, requests, views, edits,
                 boardFaults>>

Sent == IF overtaken THEN onX ELSE onX \cup {carried}

WorkerPosts ==
  /\ carried # NoText
  /\ onX' = Sent
  /\ status' = "posted" /\ queued' = FALSE
  /\ carried' = NoText
  /\ UNCHANGED <<content, scheduledRow, overtaken, boards, requests, views, edits,
                 boardFaults>>

(* X or a statement fails, or the answer of X is lost: the tweet failed    *)
(* and the job is tried again, or the limit has put it off.                *)
WorkerFails ==
  /\ carried # NoText /\ boardFaults < MaxBoardFaults
  /\ boardFaults' = boardFaults + 1
  /\ onX' \in {onX, Sent}
  /\ status' \in {status, "failed"}
  /\ carried' = NoText
  /\ UNCHANGED <<content, scheduledRow, queued, overtaken, boards, requests, views,
                 edits>>

-----------------------------------------------------------------------------
BoardStep(b) ==
  \/ SelectTweet(b) \/ OpenEditDialog(b) \/ OpenScheduleDialog(b) \/ CloseDialog(b)
  \/ Refresh(b) \/ ServerReads(b) \/ ListArrives(b) \/ ListFails(b)
  \/ \E c \in Calls : \/ SaveEdit(c, b) \/ ApproveTweet(c, b)
                      \/ PostNow(c, b) \/ ScheduleTweet(c, b)

BoardCallStep(c) ==
  \/ FindForEdit(c) \/ FindForApprove(c) \/ FindForSchedule(c) \/ CronFinds(c)
  \/ WriteText(c) \/ WriteStatus(c) \/ AddJob(c) \/ SetScheduled(c)
  \/ CallDies(c)

BoardNext ==
  \/ \E b \in Boards : BoardStep(b)
  \/ \E c \in Calls : BoardCallStep(c)
  \/ WorkerReads \/ WorkerPosts \/ WorkerFails

BoardSpec == BoardInit /\ [][BoardNext]_boardVars

-----------------------------------------------------------------------------
(* The text on X is the stored one, whatever was edited when, unless the   *)
(* worker has read while an edit had passed its check, or before the tweet *)
(* was marked scheduled.                                                   *)
TextSettled ==
  onX \subseteq {content} \/ overtaken

(* A page at rest that was told of its writes and whose lists arrived      *)
(* shows them: what it edits or approves next starts from its own changes. *)
ShowsOwnWrites ==
  \A b \in Boards :
    /\ fetch[b] = Resting
    /\ \A c \in Calls : callOwner[c] # b
    /\ b \notin blind
    => b \notin unseen
=============================================================================
