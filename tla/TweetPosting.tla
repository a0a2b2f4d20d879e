---------------------------- MODULE TweetPosting ----------------------------
(***************************************************************************)
(* The posting pipeline of SmartX: the tweets and scheduled_tweets tables, *)
(* the BullMQ queue "tweet-posting", the API calls and cron jobs that fill *)
(* it (TweetsService, SchedulerService) and the workers that empty it      *)
(* (PostingProcessor, PostingService).                                     *)
(*                                                                         *)
(* Every await in the code is a point where other handlers run, in this    *)
(* process or in another replica, so a handler is one action per statement *)
(* that touches shared state.  A handler in flight is a caller (an API     *)
(* call or a cron tick) or a worker; "at" says which statement is next.    *)
(*                                                                         *)
(* The clock is abstracted.  A job that is waiting, delayed or paused is   *)
(* "waiting": it is fetched at some later time.  "overdue" holds the       *)
(* tweets whose scheduledFor lies more than five minutes in the past.      *)
(***************************************************************************)
EXTENDS Naturals

CONSTANTS
  Tweets,       \* rows of the tweets table
  Workers,      \* worker slots of all replicas (concurrency 3 in each)
  Callers,      \* API calls and cron ticks that can be in flight together
  RecoverIds,   \* timestamps that name the jobs of the recovery cron
  NoJob,        \* "this worker has no job"
  NoTweet,      \* "this caller has no tweet"
  Operations,   \* the operations that callers and the operator start
  MaxAttempts,  \* attempts of a posting job (5 in queue.constants.ts)
  MaxFaults     \* bound: crashes, lost answers and failed statements

OperationNames == {"approve", "scheduleAt", "postNow", "autoSchedule",
                   "recover", "retryFailed", "discard"}

(* A posting job is named post-<tweet> or recover-<tweet>-<timestamp>.     *)
JobId == Tweets \X ({"post"} \cup RecoverIds)

ASSUME NoJobAssumption == NoJob \notin JobId
ASSUME NoTweetAssumption == NoTweet \notin Tweets
ASSUME OperationsAssumption == Operations \subseteq OperationNames
ASSUME MaxAttemptsAssumption == MaxAttempts \in Nat \ {0}
ASSUME MaxFaultsAssumption == MaxFaults \in Nat

PostJob(t) == <<t, "post">>
RecoverJob(t, r) == <<t, r>>
TweetOf(j) == j[1]

VARIABLES
  status,     \* tweets.status
  row,        \* scheduled_tweets.status of the tweet, "none": no row
  overdue,    \* tweets whose scheduledFor is older than five minutes
  jobState,   \* state of each posting job, "none": the queue has no such job
  attempts,   \* attemptsMade of each job
  stalled,    \* jobs that have been recovered from a dead worker once
  workerAt,   \* the statement each worker executes next
  workerJob,  \* the job it holds
  workerRow,  \* tweet.scheduledTweet as the worker read it: was there a row?
  callerAt,   \* the statement each caller executes next
  callerTweet,\* the tweet it works on
  faults,     \* faults so far
  published,  \* observer: how often X has accepted the tweet (0, 1, 2 or more)
  sent,       \* observer: how often X has accepted it from jobs of this name
  lost,       \* observer: accepted posts whose attempt did not end well
  forgotten   \* observer: accepted posts whose job the queue has forgotten

tables == <<status, row, overdue>>
queue == <<jobState, attempts, stalled, sent, lost, forgotten>>
workers == <<workerAt, workerJob, workerRow>>
callers == <<callerAt, callerTweet>>
vars == <<status, row, overdue, jobState, attempts, stalled, workerAt,
          workerJob, workerRow, callerAt, callerTweet, faults, published,
          sent, lost, forgotten>>

TweetStatus == {"draft", "approved", "scheduled", "posted", "failed"}
RowStatus == {"none", "pending", "processing", "completed", "failed"}
JobStates == {"none", "waiting", "active", "completed", "failed"}
WorkerPoints == {"idle", "read", "check", "send", "record", "commit", "row",
                 "log", "failTweet", "failRow", "retry"}
CallerPoints == {"idle", "approve", "preapprove", "add", "addInvalid",
                 "noSlot", "create", "setScheduled", "remove", "readd",
                 "touch", "complete", "recover", "setProcessing"}

(* Points of a worker that has X's acceptance and has not finished.        *)
Accepted == {"record", "commit", "row", "log"}

TypeOK ==
  /\ status \in [Tweets -> TweetStatus]
  /\ row \in [Tweets -> RowStatus]
  /\ overdue \subseteq Tweets
  /\ jobState \in [JobId -> JobStates]
  /\ attempts \in [JobId -> 0..MaxAttempts]
  /\ stalled \subseteq JobId
  /\ workerAt \in [Workers -> WorkerPoints]
  /\ workerJob \in [Workers -> JobId \cup {NoJob}]
  /\ workerRow \in [Workers -> BOOLEAN]
  /\ callerAt \in [Callers -> CallerPoints]
  /\ callerTweet \in [Callers -> Tweets \cup {NoTweet}]
  /\ faults \in 0..MaxFaults
  /\ published \in [Tweets -> 0..2]
  /\ sent \in [JobId -> Nat]
  /\ lost \in [JobId -> Nat]
  /\ forgotten \in [JobId -> Nat]

(* Generated tweets are drafts, or approved when the bot auto-approves.    *)
Init ==
  /\ status \in [Tweets -> {"draft", "approved"}]
  /\ row = [t \in Tweets |-> "none"]
  /\ overdue = {}
  /\ jobState = [j \in JobId |-> "none"]
  /\ attempts = [j \in JobId |-> 0]
  /\ stalled = {}
  /\ workerAt = [w \in Workers |-> "idle"]
  /\ workerJob = [w \in Workers |-> NoJob]
  /\ workerRow = [w \in Workers |-> FALSE]
  /\ callerAt = [c \in Callers |-> "idle"]
  /\ callerTweet = [c \in Callers |-> NoTweet]
  /\ faults = 0
  /\ published = [t \in Tweets |-> 0]
  /\ sent = [j \in JobId |-> 0]
  /\ lost = [j \in JobId |-> 0]
  /\ forgotten = [j \in JobId |-> 0]

-----------------------------------------------------------------------------
(* The queue (BullMQ).                                                     *)

(* queue.add with a jobId: a job of that id in any state makes it a no-op. *)
Add(j) ==
  /\ jobState' = IF jobState[j] = "none"
                 THEN [jobState EXCEPT ![j] = "waiting"] ELSE jobState
  /\ UNCHANGED <<attempts, stalled, sent, lost, forgotten>>

(* The queue forgets a job and everything it counted for it.  X does not   *)
(* forget the post of a job that has completed: a job of that name that is *)
(* added again posts again.                                                *)
Forget(j) ==
  /\ jobState' = [jobState EXCEPT ![j] = "none"]
  /\ attempts' = [attempts EXCEPT ![j] = 0]
  /\ stalled' = stalled \ {j}
  /\ forgotten' = [forgotten EXCEPT ![j] =
                     IF jobState[j] = "completed" /\ sent[j] > lost[j] + @
                     THEN @ + 1 ELSE @]
  /\ UNCHANGED <<sent, lost>>

(* removeOnComplete and removeOnFail keep the last jobs only, and the      *)
(* operator's clean-failed removes failed ones.                            *)
Discard(j) ==
  /\ "discard" \in Operations
  /\ jobState[j] \in {"completed", "failed"}
  /\ Forget(j)
  /\ UNCHANGED <<tables, workers, callers, faults, published>>

(* The operator's retry-failed puts a failed job back; attemptsMade stays. *)
RetryFailed(j) ==
  /\ "retryFailed" \in Operations
  /\ jobState[j] = "failed"
  /\ jobState' = [jobState EXCEPT ![j] = "waiting"]
  /\ UNCHANGED <<tables, attempts, stalled, sent, lost, forgotten, workers,
                 callers, faults, published>>

(* Five minutes pass after scheduledFor.                                   *)
BecomeOverdue(t) ==
  /\ row[t] = "pending"
  /\ t \notin overdue
  /\ overdue' = overdue \cup {t}
  /\ UNCHANGED <<status, row, queue, workers, callers, faults, published>>

-----------------------------------------------------------------------------
(* API calls and cron ticks: a call starts with the read its guard is      *)
(* about, and goes on with what it read.                                   *)

Start(c, t, point) ==
  /\ callerAt[c] = "idle"
  /\ callerAt' = [callerAt EXCEPT ![c] = point]
  /\ callerTweet' = [callerTweet EXCEPT ![c] = t]
  /\ UNCHANGED <<tables, queue, workers, faults, published>>

Goto(c, point) ==
  /\ callerAt' = [callerAt EXCEPT ![c] = point]
  /\ UNCHANGED callerTweet

End(c) ==
  /\ callerAt' = [callerAt EXCEPT ![c] = "idle"]
  /\ callerTweet' = [callerTweet EXCEPT ![c] = NoTweet]

Approve(c, t) ==
  /\ "approve" \in Operations
  /\ status[t] = "draft"
  /\ Start(c, t, "approve")

(* Mutant of Submit: a draft is scheduled without being approved.          *)
SubmitUnreviewed(c, t) ==
  status[t] \in {"draft", "approved"} /\ Start(c, t, "add")

(* scheduleAt and postNow approve a draft before they schedule it.         *)
Submit(c, t) ==
  \/ status[t] = "draft" /\ Start(c, t, "preapprove")
  \/ status[t] = "approved" /\ Start(c, t, "add")

ScheduleAt(c, t) ==
  /\ "scheduleAt" \in Operations
  /\ Submit(c, t)

PostNow(c, t) ==
  /\ "postNow" \in Operations
  /\ \/ Submit(c, t)
     \/ status[t] = "scheduled" /\ Start(c, t, "remove")

(* One tweet of autoScheduleForBot: the tweets of a batch are read         *)
(* together and scheduled one after the other, as callers with one each.   *)
(* The window and the frequency of the bot decide whether there is a time  *)
(* for the tweet, an invalid date, or no slot at all (see TimeSlots).      *)
AutoSchedule(c, t) ==
  /\ "autoSchedule" \in Operations
  /\ status[t] = "approved"
  /\ row[t] = "none"
  /\ \E point \in {"add", "addInvalid", "noSlot"} : Start(c, t, point)

(* Mutant of Recover: every row whose tweet is not scheduled is completed. *)
RecoverUnposted(c, t) ==
  /\ "recover" \in Operations
  /\ row[t] = "pending"
  /\ t \in overdue
  /\ Start(c, t, IF status[t] # "scheduled" THEN "complete" ELSE "recover")

(* One row of recoverStaleScheduledTweets, with the status it read.        *)
Recover(c, t) ==
  /\ "recover" \in Operations
  /\ row[t] = "pending"
  /\ t \in overdue
  /\ Start(c, t, IF status[t] = "posted" THEN "complete" ELSE "recover")

WriteApproved(c) ==
  LET t == callerTweet[c] IN
  /\ callerAt[c] \in {"approve", "preapprove"}
  /\ status' = [status EXCEPT ![t] = "approved"]
  /\ IF callerAt[c] = "approve" THEN End(c) ELSE Goto(c, "add")
  /\ UNCHANGED <<row, overdue, queue, workers, faults, published>>

(* Mutant of ScheduleAdd: a job that is there already ends the call.       *)
ScheduleAddOnce(c) ==
  LET j == PostJob(callerTweet[c]) IN
  /\ callerAt[c] = "add"
  /\ Add(j)
  /\ IF jobState[j] = "none" THEN Goto(c, "create") ELSE End(c)
  /\ UNCHANGED <<tables, workers, faults, published>>

(* scheduleTweet: the job is in the queue before the row is in the table.  *)
ScheduleAdd(c) ==
  /\ callerAt[c] = "add"
  /\ Add(PostJob(callerTweet[c]))
  /\ Goto(c, "create")
  /\ UNCHANGED <<tables, workers, faults, published>>

(* An invalid date: the job is added with a delay that is not a number,    *)
(* which is none or an error to the queue, and the create of the row       *)
(* throws.                                                                 *)
ScheduleInvalid(c) ==
  /\ callerAt[c] = "addInvalid"
  /\ Add(PostJob(callerTweet[c])) \/ UNCHANGED queue
  /\ End(c)
  /\ UNCHANGED <<tables, workers, faults, published>>

(* No slot: scheduleTweet throws before it writes anything.                *)
ScheduleThrows(c) ==
  /\ callerAt[c] = "noSlot"
  /\ End(c)
  /\ UNCHANGED <<tables, queue, workers, faults, published>>

(* Mutant of ScheduleCreate: an upsert instead of a create.                *)
ScheduleUpsert(c) ==
  /\ callerAt[c] = "create"
  /\ row' = [row EXCEPT ![callerTweet[c]] = "pending"]
  /\ Goto(c, "setScheduled")
  /\ UNCHANGED <<status, overdue, queue, workers, faults, published>>

(* scheduled_tweets.tweet_id is unique: a second create throws.            *)
ScheduleCreate(c) ==
  LET t == callerTweet[c] IN
  /\ callerAt[c] = "create"
  /\ \/ /\ row[t] = "none"
        /\ row' = [row EXCEPT ![t] = "pending"]
        /\ Goto(c, "setScheduled")
     \/ /\ row[t] # "none"
        /\ UNCHANGED row
        /\ End(c)
  /\ UNCHANGED <<status, overdue, queue, workers, faults, published>>

ScheduleSetStatus(c) ==
  /\ callerAt[c] = "setScheduled"
  /\ status' = [status EXCEPT ![callerTweet[c]] = "scheduled"]
  /\ End(c)
  /\ UNCHANGED <<row, overdue, queue, workers, faults, published>>

(* postImmediately: removing a job that a worker holds throws.             *)
ImmediateRemove(c) ==
  LET j == PostJob(callerTweet[c]) IN
  /\ callerAt[c] = "remove"
  /\ \/ jobState[j] = "active" /\ End(c) /\ UNCHANGED queue
     \/ jobState[j] # "active" /\ Forget(j) /\ Goto(c, "readd")
  /\ UNCHANGED <<tables, workers, faults, published>>

ImmediateAdd(c) ==
  /\ callerAt[c] = "readd"
  /\ Add(PostJob(callerTweet[c]))
  /\ Goto(c, "touch")
  /\ UNCHANGED <<tables, workers, faults, published>>

(* A row that is still pending gets scheduledFor = now.                    *)
ImmediateTouch(c) ==
  LET t == callerTweet[c] IN
  /\ callerAt[c] = "touch"
  /\ overdue' = IF row[t] = "pending" THEN overdue \ {t} ELSE overdue
  /\ End(c)
  /\ UNCHANGED <<status, row, queue, workers, faults, published>>

RecoverComplete(c) ==
  /\ callerAt[c] = "complete"
  /\ row' = [row EXCEPT ![callerTweet[c]] = "completed"]
  /\ End(c)
  /\ UNCHANGED <<status, overdue, queue, workers, faults, published>>

(* The recovery job has a new name: the queue cannot recognise a double.   *)
(* Bound: a job beyond RecoverIds is one that no worker ever takes.        *)
RecoverAdd(c) ==
  LET unused == {r \in RecoverIds : jobState[RecoverJob(callerTweet[c], r)] = "none"}
  IN
  /\ callerAt[c] = "recover"
  /\ IF unused = {}
     THEN UNCHANGED queue
     ELSE \E r \in unused : Add(RecoverJob(callerTweet[c], r))
  /\ Goto(c, "setProcessing")
  /\ UNCHANGED <<tables, workers, faults, published>>

(* Mutant of RecoverSetProcessing: the row stays as it is.                 *)
RecoverLeavesRow(c) ==
  /\ callerAt[c] = "setProcessing"
  /\ End(c)
  /\ UNCHANGED <<tables, queue, workers, faults, published>>

RecoverSetProcessing(c) ==
  /\ callerAt[c] = "setProcessing"
  /\ row' = [row EXCEPT ![callerTweet[c]] = "processing"]
  /\ End(c)
  /\ UNCHANGED <<status, overdue, queue, workers, faults, published>>

(* A call dies with its process, or one of its statements throws.          *)
CallerDies(c) ==
  /\ callerAt[c] # "idle"
  /\ faults < MaxFaults
  /\ faults' = faults + 1
  /\ End(c)
  /\ UNCHANGED <<tables, queue, workers, published>>

CallerStart(c) ==
  \E t \in Tweets :
    \/ Approve(c, t)
    \/ ScheduleAt(c, t)
    \/ PostNow(c, t)
    \/ AutoSchedule(c, t)
    \/ Recover(c, t)

CallerStep(c) ==
  \/ WriteApproved(c)
  \/ ScheduleAdd(c)
  \/ ScheduleInvalid(c)
  \/ ScheduleThrows(c)
  \/ ScheduleCreate(c)
  \/ ScheduleSetStatus(c)
  \/ ImmediateRemove(c)
  \/ ImmediateAdd(c)
  \/ ImmediateTouch(c)
  \/ RecoverComplete(c)
  \/ RecoverAdd(c)
  \/ RecoverSetProcessing(c)

-----------------------------------------------------------------------------
(* Workers: PostingService.postTweet inside PostingProcessor.process.      *)

At(w, point) ==
  /\ workerAt[w] = point
  /\ UNCHANGED <<overdue, stalled, callers, forgotten>>

Continue(w, point) ==
  /\ workerAt' = [workerAt EXCEPT ![w] = point]
  /\ UNCHANGED <<workerJob, workerRow>>

Release(w) ==
  /\ workerAt' = [workerAt EXCEPT ![w] = "idle"]
  /\ workerJob' = [workerJob EXCEPT ![w] = NoJob]
  /\ workerRow' = [workerRow EXCEPT ![w] = FALSE]

(* The job of w leaves the worker for the given state of the queue.        *)
MoveJob(w, state) ==
  /\ jobState' = [jobState EXCEPT ![workerJob[w]] = state]
  /\ Release(w)

(* Mutants of FailedAttempt: attempts are not capped, or not counted.      *)
FailedAttemptUncapped(j) == attempts[j] + 1
FailedAttemptUncounted(j) == attempts[j]

(* A failed attempt ends in a delayed retry while attempts are left.       *)
FailedAttempt(j) == IF attempts[j] < MaxAttempts THEN attempts[j] + 1
                                                 ELSE MaxAttempts

Fetch(w, j) ==
  /\ At(w, "idle")
  /\ jobState[j] = "waiting"
  /\ jobState' = [jobState EXCEPT ![j] = "active"]
  /\ workerAt' = [workerAt EXCEPT ![w] = "read"]
  /\ workerJob' = [workerJob EXCEPT ![w] = j]
  /\ UNCHANGED <<status, row, attempts, workerRow, faults, published, sent,
                 lost>>

(* The tweet, its X account and its row are read once, at the start.       *)
ReadTweet(w) ==
  LET t == TweetOf(workerJob[w]) IN
  /\ At(w, "read")
  /\ status[t] # "posted"
  /\ \E point \in {"check", "failTweet"} :
       workerAt' = [workerAt EXCEPT ![w] = point]
  /\ workerRow' = [workerRow EXCEPT ![w] = (row[t] # "none")]
  /\ UNCHANGED <<status, row, jobState, attempts, workerJob, faults,
                 published, sent, lost>>

SkipPosted(w) ==
  /\ At(w, "read")
  /\ status[TweetOf(workerJob[w])] = "posted"
  /\ MoveJob(w, "completed")
  /\ UNCHANGED <<status, row, attempts, faults, published, sent, lost>>

(* Mutant of RateLimited: the limit is read once X has accepted the tweet. *)
RateLimitedLate(w) ==
  /\ At(w, "record") \/ At(w, "send")
  /\ MoveJob(w, "waiting")
  /\ UNCHANGED <<status, row, attempts, faults, published, sent, lost>>

(* canPost is false, or X answers 429: the job is delayed, not failed.     *)
RateLimited(w) ==
  /\ At(w, "check") \/ At(w, "send")
  /\ MoveJob(w, "waiting")
  /\ UNCHANGED <<status, row, attempts, faults, published, sent, lost>>

MarkProcessing(w) ==
  LET t == TweetOf(workerJob[w]) IN
  /\ At(w, "check")
  /\ row' = IF workerRow[w] THEN [row EXCEPT ![t] = "processing"] ELSE row
  /\ Continue(w, "send")
  /\ UNCHANGED <<status, jobState, attempts, faults, published, sent, lost>>

Publish(w) ==
  LET j == workerJob[w]
      t == TweetOf(j)
  IN
  /\ published' = [published EXCEPT ![t] = IF @ < 2 THEN @ + 1 ELSE 2]
  /\ sent' = [sent EXCEPT ![j] = @ + 1]

SendAccepted(w) ==
  /\ At(w, "send")
  /\ Publish(w)
  /\ Continue(w, "record")
  /\ UNCHANGED <<status, row, jobState, attempts, faults, lost>>

(* X accepts the tweet and the answer is lost: a network error to the code.*)
SendLost(w) ==
  /\ At(w, "send")
  /\ faults < MaxFaults
  /\ faults' = faults + 1
  /\ Publish(w)
  /\ lost' = [lost EXCEPT ![workerJob[w]] = @ + 1]
  /\ Continue(w, "retry")
  /\ UNCHANGED <<status, row, jobState, attempts>>

(* classifyTwitterError: retryable (5xx, 401, network, unknown) or not.    *)
SendRejected(w) ==
  /\ At(w, "send")
  /\ \E point \in {"retry", "failTweet"} : Continue(w, point)
  /\ UNCHANGED <<status, row, jobState, attempts, faults, published, sent,
                 lost>>

RecordPost(w) ==
  /\ At(w, "record")
  /\ Continue(w, "commit")
  /\ UNCHANGED <<status, row, jobState, attempts, faults, published, sent,
                 lost>>

CommitPosted(w) ==
  /\ At(w, "commit")
  /\ status' = [status EXCEPT ![TweetOf(workerJob[w])] = "posted"]
  /\ Continue(w, IF workerRow[w] THEN "row" ELSE "log")
  /\ UNCHANGED <<row, jobState, attempts, faults, published, sent, lost>>

CompleteRow(w) ==
  /\ At(w, "row")
  /\ row' = [row EXCEPT ![TweetOf(workerJob[w])] = "completed"]
  /\ Continue(w, "log")
  /\ UNCHANGED <<status, jobState, attempts, faults, published, sent, lost>>

(* The activity log and the event are written; the job is done.            *)
Finish(w) ==
  /\ At(w, "log")
  /\ MoveJob(w, "completed")
  /\ UNCHANGED <<status, row, attempts, faults, published, sent, lost>>

(* Mutant of MarkTweetFailed: a failed tweet becomes a draft again.        *)
MarkTweetDraft(w) ==
  /\ At(w, "failTweet")
  /\ status' = [status EXCEPT ![TweetOf(workerJob[w])] = "draft"]
  /\ Continue(w, "failRow")
  /\ UNCHANGED <<row, jobState, attempts, faults, published, sent, lost>>

MarkTweetFailed(w) ==
  /\ At(w, "failTweet")
  /\ status' = [status EXCEPT ![TweetOf(workerJob[w])] = "failed"]
  /\ Continue(w, "failRow")
  /\ UNCHANGED <<row, jobState, attempts, faults, published, sent, lost>>

(* markFailed reads the row again; UnrecoverableError ends the job.        *)
MarkRowFailed(w) ==
  LET j == workerJob[w]
      t == TweetOf(j)
  IN
  /\ At(w, "failRow")
  /\ row' = IF row[t] # "none" THEN [row EXCEPT ![t] = "failed"] ELSE row
  /\ attempts' = [attempts EXCEPT ![j] = FailedAttempt(j)]
  /\ MoveJob(w, "failed")
  /\ UNCHANGED <<status, faults, published, sent, lost>>

(* The error reaches BullMQ: a delayed retry, or the failed set.           *)
Retry(w) ==
  LET j == workerJob[w] IN
  /\ At(w, "retry")
  /\ attempts' = [attempts EXCEPT ![j] = FailedAttempt(j)]
  /\ MoveJob(w, IF FailedAttempt(j) < MaxAttempts THEN "waiting" ELSE "failed")
  /\ UNCHANGED <<status, row, faults, published, sent, lost>>

(* A post that X has accepted is lost to an attempt that does not end well.*)
LosePost(w) ==
  lost' = IF workerAt[w] \in Accepted
          THEN [lost EXCEPT ![workerJob[w]] = @ + 1] ELSE lost

(* A statement of the handler throws: every error that does not come from  *)
(* X is retryable, inside the try block and outside it.                    *)
StatementThrows(w) ==
  /\ workerAt[w] \in {"read", "check", "failTweet", "failRow"} \cup Accepted
  /\ faults < MaxFaults
  /\ faults' = faults + 1
  /\ LosePost(w)
  /\ Continue(w, "retry")
  /\ UNCHANGED <<tables, jobState, attempts, stalled, callers, published,
                 sent, forgotten>>

(* The process dies.  Its jobs stall; BullMQ puts a job back the first     *)
(* time and fails it the second (maxStalledCount 1).                       *)
WorkerDies(w) ==
  LET j == workerJob[w] IN
  /\ workerAt[w] # "idle"
  /\ faults < MaxFaults
  /\ faults' = faults + 1
  /\ LosePost(w)
  /\ stalled' = stalled \cup {j}
  /\ MoveJob(w, IF j \in stalled THEN "failed" ELSE "waiting")
  /\ UNCHANGED <<tables, attempts, callers, published, sent, forgotten>>

WorkerStep(w) ==
  \/ ReadTweet(w)
  \/ SkipPosted(w)
  \/ RateLimited(w)
  \/ MarkProcessing(w)
  \/ SendAccepted(w)
  \/ SendRejected(w)
  \/ RecordPost(w)
  \/ CommitPosted(w)
  \/ CompleteRow(w)
  \/ Finish(w)
  \/ MarkTweetFailed(w)
  \/ MarkRowFailed(w)
  \/ Retry(w)

-----------------------------------------------------------------------------
Next ==
  \/ \E c \in Callers : CallerStart(c) \/ CallerStep(c) \/ CallerDies(c)
  \/ \E w \in Workers :
       \/ \E j \in JobId : Fetch(w, j)
       \/ WorkerStep(w)
       \/ SendLost(w)
       \/ StatementThrows(w)
       \/ WorkerDies(w)
  \/ \E j \in JobId : Discard(j) \/ RetryFailed(j)
  \/ \E t \in Tweets : BecomeOverdue(t)

Spec == Init /\ [][Next]_vars

(***************************************************************************)
(* Fairness.  Node runs every handler on.  The queue is first in, first    *)
(* out: it serves every waiting job (delays and the limiter are finite,    *)
(* the operator does not leave it paused).  Rate-limit windows open again, *)
(* so a job that asks for ever is allowed, and answered, some time.  The   *)
(* cron jobs run every ten minutes and the clock goes on.  Nothing is      *)
(* assumed of users, of the operator and of faults.                        *)
(***************************************************************************)
QueueFairness ==
  /\ \A w \in Workers : WF_vars(WorkerStep(w))
  /\ \A j \in JobId :
       /\ SF_vars(\E w \in Workers : Fetch(w, j))
       /\ SF_vars(\E w \in Workers : workerJob[w] = j /\ MarkProcessing(w))
       /\ SF_vars(\E w \in Workers :
                    workerJob[w] = j /\ (SendAccepted(w) \/ SendRejected(w)))

CronFairness ==
  /\ \A c \in Callers : WF_vars(CallerStep(c))
  /\ \A t \in Tweets :
       /\ WF_vars(BecomeOverdue(t))
       /\ SF_vars(\E c \in Callers : AutoSchedule(c, t))
       /\ SF_vars(\E c \in Callers : Recover(c, t))

FairSpec == Spec /\ QueueFairness /\ CronFairness

-----------------------------------------------------------------------------
(* Safety.                                                                 *)

(* X never gets a tweet that nobody approved: whatever path the tweet took *)
(* into the queue, "approved" was written before.                          *)
NoUnreviewedPost ==
  \A t \in Tweets : published[t] > 0 => status[t] # "draft"

(* A tweet that the database calls posted, and a row that it calls         *)
(* completed, is on X, even when the write comes from the recovery cron.   *)
NoFalseSuccess ==
  \A t \in Tweets :
    status[t] = "posted" \/ row[t] = "completed" => published[t] > 0

(* The jobs of one name publish their tweet once, plus once for each       *)
(* attempt that broke off after X had accepted, plus once for each         *)
(* completed job whose post the queue has forgotten.  Retries, stalls,     *)
(* delays, the operator's retry-failed, and the removal of a job that has  *)
(* not completed (postImmediately, clean-failed) never add a post.         *)
JobPublishesOnce ==
  \A j \in JobId : sent[j] <= 1 + lost[j] + forgotten[j]

(* A row is created pending once: when the recovery cron or a worker has   *)
(* taken it out of pending, no call puts it back, and so a row is recovered*)
(* again only by callers that had read it before.                          *)
RowKept ==
  \A t \in Tweets : row[t] \notin {"none", "pending"} =>
                      row'[t] \notin {"none", "pending"}

PendingOnlyOnce == [][RowKept]_vars

(* The inductive strengthening of the three invariants above.              *)
Busy(w) == workerAt[w] # "idle"

(* A busy worker holds an active job, and no other worker holds it.        *)
WorkersHoldJobs ==
  \A w \in Workers : Busy(w) =>
    /\ workerJob[w] \in JobId
    /\ jobState[workerJob[w]] = "active"
    /\ \A v \in Workers : Busy(v) /\ v # w => workerJob[v] # workerJob[w]

(* Nothing that could lead to a post has been started for a draft.         *)
DraftsUntouched ==
  /\ \A t \in Tweets : status[t] = "draft" => published[t] = 0 /\ row[t] = "none"
  /\ \A j \in JobId : jobState[j] # "none" => status[TweetOf(j)] # "draft"
  /\ \A c \in Callers : callerAt[c] # "idle" =>
       /\ callerTweet[c] \in Tweets
       /\ callerAt[c] \notin {"approve", "preapprove"} =>
            status[callerTweet[c]] # "draft"

(* Whoever is about to write success knows that X has accepted.            *)
SuccessKnown ==
  /\ NoFalseSuccess
  /\ \A w \in Workers : workerAt[w] \in Accepted =>
       published[TweetOf(workerJob[w])] > 0
  /\ \A c \in Callers : callerAt[c] = "complete" =>
       published[callerTweet[c]] > 0

(* A job that can still post has no post that is not accounted for.        *)
PostsAccounted ==
  /\ JobPublishesOnce
  /\ \A j \in JobId : jobState[j] \in {"none", "waiting", "failed"} =>
       sent[j] <= lost[j] + forgotten[j]
  /\ \A w \in Workers : Busy(w) /\ workerAt[w] \notin Accepted =>
       sent[workerJob[w]] <= lost[workerJob[w]] + forgotten[workerJob[w]]

Inv == TypeOK /\ WorkersHoldJobs /\ DraftsUntouched /\ SuccessKnown
         /\ PostsAccounted

(* The pipeline keeps the promises of TweetDelivery: a tweet that is no    *)
(* draft has been reviewed, and the tweet or its row may claim success.    *)
Reviewed == [t \in Tweets |-> status[t] # "draft"]
Claimed == [t \in Tweets |-> status[t] = "posted" \/ row[t] = "completed"]

Delivery == INSTANCE TweetDelivery WITH
  reviewed <- Reviewed, claimed <- Claimed

DeliveryRefined == Delivery!DeliverySpec

(* scheduler.service.ts:56 and posting.service.ts:42: the job id and the   *)
(* guard on "posted" are there so that a tweet is published once.          *)
PublishedAtMostOnce ==
  \A t \in Tweets : published[t] <= 1

-----------------------------------------------------------------------------
(* Liveness: what the queue alone guarantees, what the cron jobs alone     *)
(* guarantee, and what both should (FairSpec).                             *)

(* A queue that serves its jobs ends every job, whatever the callers and   *)
(* the cron jobs do, a crash and a lost answer included.                   *)
JobsEnd ==
  QueueFairness =>
    \A j \in JobId : jobState[j] \in {"waiting", "active"} ~>
                     jobState[j] \notin {"waiting", "active"}

(* Whoever presses "post now" again and again puts the row off each time.  *)
NotPutOff == <>[][\A c \in Callers : ~ImmediateTouch(c)]_vars

(* No row stays pending, even when the workers stand still: the recovery   *)
(* cron takes it on, unless it is put off for ever.                        *)
PendingRowsHandled ==
  CronFairness /\ NotPutOff =>
    \A t \in Tweets : row[t] = "pending" ~> row[t] # "pending"

(* The window of the bot gives its tweets times, from some moment on.      *)
(* Nothing checks that when the bot is saved: a window that does not end   *)
(* after it starts throws on every tick.                                   *)
SlotsUsable == <>[](\A c \in Callers : callerAt[c] \notin {"addInvalid", "noSlot"})

(* The cron of an active bot whose window is usable schedules every        *)
(* approved tweet, even when the workers stand still: a crash between the  *)
(* job and its row, or ticks that failed before, do not leave it behind.   *)
ApprovedGetsScheduled ==
  CronFairness /\ SlotsUsable =>
    \A t \in Tweets : status[t] = "approved" /\ row[t] = "none" ~>
                      row[t] # "none" \/ status[t] # "approved"

(* scheduler.service.ts:195: the cron is there for "stale scheduled tweets *)
(* that should have been posted": a scheduled tweet is posted or fails.    *)
ScheduledResolves ==
  \A t \in Tweets : status[t] = "scheduled" ~>
                    status[t] \in {"posted", "failed"}
=============================================================================
