------------------------ MODULE TweetPosting_proofs ------------------------
(***************************************************************************)
(* For any number of tweets, workers, calls, attempts and faults: X gets   *)
(* no unreviewed tweet, the tables claim no success that X did not give, a *)
(* job publishes no more often than its broken attempts and the removals   *)
(* after its end explain, no row is reopened, and the pipeline implements  *)
(* TweetDelivery.                                                          *)
(***************************************************************************)
EXTENDS TweetPosting, TLAPS

(* Job names: what they are made of.                                       *)
LEMMA JobNames ==
  /\ \A j \in JobId : TweetOf(j) \in Tweets
  /\ \A t \in Tweets : PostJob(t) \in JobId /\ TweetOf(PostJob(t)) = t
  /\ \A t \in Tweets, r \in RecoverIds :
       RecoverJob(t, r) \in JobId /\ TweetOf(RecoverJob(t, r)) = t
BY DEF JobId, TweetOf, PostJob, RecoverJob

(* In the beginning nothing is queued and nobody works.                    *)
LEMMA InitInv == Init => Inv
<1> SUFFICES ASSUME Init PROVE Inv
  OBVIOUS
<1> USE DEF Init
<1>1. TypeOK
  BY MaxAttemptsAssumption, MaxFaultsAssumption
  DEF TypeOK, TweetStatus, RowStatus, JobStates, WorkerPoints, CallerPoints
<1>2. WorkersHoldJobs
  BY DEF WorkersHoldJobs, Busy
<1>3. DraftsUntouched
  BY DEF DraftsUntouched
<1>4. SuccessKnown
  BY DEF SuccessKnown, NoFalseSuccess, Accepted
<1>5. PostsAccounted
  BY DEF PostsAccounted, JobPublishesOnce, Busy
<1> QED
  BY <1>1, <1>2, <1>3, <1>4, <1>5 DEF Inv

(* Type correctness is preserved: every write goes to a tweet or job that  *)
(* exists, which WorkersHoldJobs and DraftsUntouched say.                  *)
LEMMA TypeStep == Inv /\ [Next]_vars => TypeOK'
<1> SUFFICES ASSUME Inv, [Next]_vars PROVE TypeOK'
  OBVIOUS
<1> USE JobNames, MaxAttemptsAssumption, MaxFaultsAssumption
    DEF Inv, TypeOK, WorkersHoldJobs, DraftsUntouched, Busy, Accepted,
        TweetStatus, RowStatus, JobStates, WorkerPoints, CallerPoints,
        tables, queue, workers, callers
<1>1. ASSUME NEW c \in Callers, CallerStart(c) PROVE TypeOK'
  BY <1>1 DEF CallerStart, Approve, ScheduleAt, PostNow, AutoSchedule,
      Recover, Submit, Start
<1>2. ASSUME NEW c \in Callers, CallerStep(c) PROVE TypeOK'
  <2>1. CASE WriteApproved(c) \/ ScheduleCreate(c)
    BY <2>1 DEF WriteApproved, End, Goto, ScheduleCreate
  <2>2. CASE ScheduleAdd(c) \/ ImmediateAdd(c) \/ RecoverAdd(c)
    BY <2>2 DEF ScheduleAdd, Add, Goto, ImmediateAdd, RecoverAdd
  <2>3. CASE
           ScheduleSetStatus(c) \/ ImmediateTouch(c) \/ RecoverComplete(c)
        \/ RecoverSetProcessing(c)
    BY <2>3 DEF ScheduleSetStatus, End, ImmediateTouch, RecoverComplete,
        RecoverSetProcessing
  <2>4. CASE ImmediateRemove(c)
    BY <2>4 DEF ImmediateRemove, Forget, End, Goto
  <2>5. CASE ScheduleInvalid(c) \/ ScheduleThrows(c)
    BY <2>5 DEF ScheduleInvalid, ScheduleThrows, Add, End
  <2> QED BY <1>2, <2>1, <2>2, <2>3, <2>4, <2>5 DEF CallerStep
<1>3. ASSUME NEW c \in Callers, CallerDies(c) PROVE TypeOK'
  BY <1>3 DEF CallerDies, End
<1>4. ASSUME NEW w \in Workers, NEW j \in JobId, Fetch(w, j)
      PROVE  TypeOK'
  BY <1>4 DEF Fetch, At
<1>5. ASSUME NEW w \in Workers, WorkerStep(w) PROVE TypeOK'
  <2>1. CASE ReadTweet(w)
    BY <2>1 DEF ReadTweet, At
  <2>2. CASE SkipPosted(w)
    BY <2>2 DEF SkipPosted, At, MoveJob, Release
  <2>3. CASE RateLimited(w)
    BY <2>3 DEF RateLimited, At, MoveJob, Release
  <2>4. CASE
           MarkProcessing(w) \/ SendRejected(w) \/ RecordPost(w)
        \/ CommitPosted(w) \/ CompleteRow(w) \/ MarkTweetFailed(w)
    BY <2>4 DEF MarkProcessing, At, Continue, SendRejected, RecordPost,
        CommitPosted, CompleteRow, MarkTweetFailed
  <2>5. CASE SendAccepted(w)
    BY <2>5 DEF SendAccepted, At, Publish, Continue
  <2>6. CASE Finish(w)
    BY <2>6 DEF Finish, At, MoveJob, Release
  <2>7. CASE MarkRowFailed(w)
    BY <2>7 DEF MarkRowFailed, At, FailedAttempt, MoveJob, Release
  <2>8. CASE Retry(w)
    BY <2>8 DEF Retry, At, FailedAttempt, MoveJob, Release
  <2> QED BY <1>5, <2>1, <2>2, <2>3, <2>4, <2>5, <2>6, <2>7, <2>8 DEF WorkerStep
<1>6. ASSUME NEW w \in Workers, SendLost(w) PROVE TypeOK'
  BY <1>6 DEF SendLost, At, Publish, Continue
<1>7. ASSUME NEW w \in Workers, StatementThrows(w) PROVE TypeOK'
  BY <1>7 DEF StatementThrows, LosePost, Continue
<1>8. ASSUME NEW w \in Workers, WorkerDies(w) PROVE TypeOK'
  BY <1>8 DEF WorkerDies, LosePost, MoveJob, Release
<1>9. ASSUME NEW j \in JobId, Discard(j) PROVE TypeOK'
  BY <1>9 DEF Discard, Forget
<1>10. ASSUME NEW j \in JobId, RetryFailed(j) PROVE TypeOK'
  BY <1>10 DEF RetryFailed
<1>11. ASSUME NEW t \in Tweets, BecomeOverdue(t) PROVE TypeOK'
  BY <1>11 DEF BecomeOverdue
<1>12. CASE UNCHANGED vars
  BY <1>12 DEF vars
<1> QED
  BY <1>1, <1>2, <1>3, <1>4, <1>5, <1>6, <1>7, <1>8, <1>9, <1>10, <1>11, <1>12
  DEF Next

(* A job enters a worker from waiting and leaves it when the worker lets go;*)
(* no call takes an active job away.                                       *)
LEMMA WorkersStep == Inv /\ [Next]_vars => WorkersHoldJobs'
<1> SUFFICES ASSUME Inv, [Next]_vars PROVE WorkersHoldJobs'
  OBVIOUS
<1> USE JobNames
    DEF Inv, TypeOK, WorkersHoldJobs, DraftsUntouched, Busy, Accepted,
        tables, queue, workers, callers
<1>1. ASSUME NEW c \in Callers, CallerStart(c) PROVE WorkersHoldJobs'
  BY <1>1 DEF CallerStart, Approve, ScheduleAt, PostNow, AutoSchedule,
      Recover, Submit, Start
<1>2. ASSUME NEW c \in Callers, CallerStep(c) PROVE WorkersHoldJobs'
  <2>1. CASE WriteApproved(c) \/ ScheduleCreate(c)
    BY <2>1 DEF WriteApproved, End, Goto, ScheduleCreate
  <2>2. CASE ScheduleAdd(c) \/ ImmediateAdd(c) \/ RecoverAdd(c)
    BY <2>2 DEF ScheduleAdd, Add, Goto, ImmediateAdd, RecoverAdd
  <2>3. CASE
           ScheduleSetStatus(c) \/ ImmediateTouch(c) \/ RecoverComplete(c)
        \/ RecoverSetProcessing(c)
    BY <2>3 DEF ScheduleSetStatus, End, ImmediateTouch, RecoverComplete,
        RecoverSetProcessing
  <2>4. CASE ImmediateRemove(c)
    BY <2>4 DEF ImmediateRemove, Forget, End, Goto
  <2>5. CASE ScheduleInvalid(c) \/ ScheduleThrows(c)
    BY <2>5 DEF ScheduleInvalid, ScheduleThrows, Add, End
  <2> QED BY <1>2, <2>1, <2>2, <2>3, <2>4, <2>5 DEF CallerStep
<1>3. ASSUME NEW c \in Callers, CallerDies(c) PROVE WorkersHoldJobs'
  BY <1>3 DEF CallerDies, End
<1>4. ASSUME NEW w \in Workers, NEW j \in JobId, Fetch(w, j)
      PROVE  WorkersHoldJobs'
  BY <1>4 DEF Fetch, At
<1>5. ASSUME NEW w \in Workers, WorkerStep(w) PROVE WorkersHoldJobs'
  <2>1. CASE ReadTweet(w)
    BY <2>1 DEF ReadTweet, At
  <2>2. CASE SkipPosted(w) \/ RateLimited(w) \/ Finish(w)
    BY <2>2 DEF SkipPosted, At, MoveJob, Release, RateLimited, Finish
  <2>3. CASE
           MarkProcessing(w) \/ SendRejected(w) \/ RecordPost(w)
        \/ CommitPosted(w) \/ CompleteRow(w) \/ MarkTweetFailed(w)
    BY <2>3 DEF MarkProcessing, At, Continue, SendRejected, RecordPost,
        CommitPosted, CompleteRow, MarkTweetFailed
  <2>4. CASE SendAccepted(w)
    BY <2>4 DEF SendAccepted, At, Publish, Continue
  <2>5. CASE MarkRowFailed(w) \/ Retry(w)
    BY <2>5 DEF MarkRowFailed, At, FailedAttempt, MoveJob, Release, Retry
  <2> QED BY <1>5, <2>1, <2>2, <2>3, <2>4, <2>5 DEF WorkerStep
<1>6. ASSUME NEW w \in Workers, SendLost(w) PROVE WorkersHoldJobs'
  BY <1>6 DEF SendLost, At, Publish, Continue
<1>7. ASSUME NEW w \in Workers, StatementThrows(w) PROVE WorkersHoldJobs'
  BY <1>7 DEF StatementThrows, LosePost, Continue
<1>8. ASSUME NEW w \in Workers, WorkerDies(w) PROVE WorkersHoldJobs'
  BY <1>8 DEF WorkerDies, LosePost, MoveJob, Release
<1>9. ASSUME NEW j \in JobId, Discard(j) PROVE WorkersHoldJobs'
  BY <1>9 DEF Discard, Forget
<1>10. ASSUME NEW j \in JobId, RetryFailed(j) PROVE WorkersHoldJobs'
  BY <1>10 DEF RetryFailed
<1>11. ASSUME NEW t \in Tweets, BecomeOverdue(t) PROVE WorkersHoldJobs'
  BY <1>11 DEF BecomeOverdue
<1>12. CASE UNCHANGED vars
  BY <1>12 DEF vars
<1> QED
  BY <1>1, <1>2, <1>3, <1>4, <1>5, <1>6, <1>7, <1>8, <1>9, <1>10, <1>11, <1>12
  DEF Next

(* Nobody writes draft, and every way into the queue writes approved first.*)
LEMMA DraftsStep == Inv /\ [Next]_vars => DraftsUntouched'
<1> SUFFICES ASSUME Inv, [Next]_vars PROVE DraftsUntouched'
  OBVIOUS
<1> USE JobNames
    DEF Inv, TypeOK, WorkersHoldJobs, DraftsUntouched, Busy, Accepted,
        tables, queue, workers, callers
<1>1. ASSUME NEW c \in Callers, CallerStart(c) PROVE DraftsUntouched'
  BY <1>1 DEF CallerStart, Approve, ScheduleAt, PostNow, AutoSchedule,
      Recover, Submit, Start
<1>2. ASSUME NEW c \in Callers, CallerStep(c) PROVE DraftsUntouched'
  <2>1. CASE WriteApproved(c) \/ ScheduleCreate(c)
    BY <2>1 DEF WriteApproved, End, Goto, ScheduleCreate
  <2>2. CASE ScheduleAdd(c) \/ ImmediateAdd(c) \/ RecoverAdd(c)
    BY <2>2 DEF ScheduleAdd, Add, Goto, ImmediateAdd, RecoverAdd
  <2>3. CASE
           ScheduleSetStatus(c) \/ ImmediateTouch(c) \/ RecoverComplete(c)
        \/ RecoverSetProcessing(c)
    BY <2>3 DEF ScheduleSetStatus, End, ImmediateTouch, RecoverComplete,
        RecoverSetProcessing
  <2>4. CASE ImmediateRemove(c)
    BY <2>4 DEF ImmediateRemove, Forget, End, Goto
  <2>5. CASE ScheduleInvalid(c) \/ ScheduleThrows(c)
    BY <2>5 DEF ScheduleInvalid, ScheduleThrows, Add, End
  <2> QED BY <1>2, <2>1, <2>2, <2>3, <2>4, <2>5 DEF CallerStep
<1>3. ASSUME NEW c \in Callers, CallerDies(c) PROVE DraftsUntouched'
  BY <1>3 DEF CallerDies, End
<1>4. ASSUME NEW w \in Workers, NEW j \in JobId, Fetch(w, j)
      PROVE  DraftsUntouched'
  BY <1>4 DEF Fetch, At
<1>5. ASSUME NEW w \in Workers, WorkerStep(w) PROVE DraftsUntouched'
  <2>1. CASE ReadTweet(w)
    BY <2>1 DEF ReadTweet, At
  <2>2. CASE SkipPosted(w) \/ RateLimited(w) \/ Finish(w)
    BY <2>2 DEF SkipPosted, At, MoveJob, Release, RateLimited, Finish
  <2>3. CASE
           MarkProcessing(w) \/ SendRejected(w) \/ RecordPost(w)
        \/ CommitPosted(w) \/ CompleteRow(w) \/ MarkTweetFailed(w)
    BY <2>3 DEF MarkProcessing, At, Continue, SendRejected, RecordPost,
        CommitPosted, CompleteRow, MarkTweetFailed
  <2>4. CASE SendAccepted(w)
    BY <2>4 DEF SendAccepted, At, Publish, Continue
  <2>5. CASE MarkRowFailed(w) \/ Retry(w)
    BY <2>5 DEF MarkRowFailed, At, FailedAttempt, MoveJob, Release, Retry
  <2> QED BY <1>5, <2>1, <2>2, <2>3, <2>4, <2>5 DEF WorkerStep
<1>6. ASSUME NEW w \in Workers, SendLost(w) PROVE DraftsUntouched'
  BY <1>6 DEF SendLost, At, Publish, Continue
<1>7. ASSUME NEW w \in Workers, StatementThrows(w) PROVE DraftsUntouched'
  BY <1>7 DEF StatementThrows, LosePost, Continue
<1>8. ASSUME NEW w \in Workers, WorkerDies(w) PROVE DraftsUntouched'
  BY <1>8 DEF WorkerDies, LosePost, MoveJob, Release
<1>9. ASSUME NEW j \in JobId, Discard(j) PROVE DraftsUntouched'
  BY <1>9 DEF Discard, Forget
<1>10. ASSUME NEW j \in JobId, RetryFailed(j) PROVE DraftsUntouched'
  BY <1>10 DEF RetryFailed
<1>11. ASSUME NEW t \in Tweets, BecomeOverdue(t) PROVE DraftsUntouched'
  BY <1>11 DEF BecomeOverdue
<1>12. CASE UNCHANGED vars
  BY <1>12 DEF vars
<1> QED
  BY <1>1, <1>2, <1>3, <1>4, <1>5, <1>6, <1>7, <1>8, <1>9, <1>10, <1>11, <1>12
  DEF Next

(* Success is written after X has accepted, and published never decreases. *)
LEMMA SuccessStep == Inv /\ [Next]_vars => SuccessKnown'
<1> SUFFICES ASSUME Inv, [Next]_vars PROVE SuccessKnown'
  OBVIOUS
<1> USE JobNames
    DEF Inv, TypeOK, WorkersHoldJobs, DraftsUntouched, SuccessKnown,
        NoFalseSuccess, Busy, Accepted, tables, queue, workers, callers
<1>1. ASSUME NEW c \in Callers, CallerStart(c) PROVE SuccessKnown'
  BY <1>1 DEF CallerStart, Approve, ScheduleAt, PostNow, AutoSchedule,
      Recover, Submit, Start
<1>2. ASSUME NEW c \in Callers, CallerStep(c) PROVE SuccessKnown'
  <2>1. CASE WriteApproved(c) \/ ScheduleCreate(c)
    BY <2>1 DEF WriteApproved, End, Goto, ScheduleCreate
  <2>2. CASE ScheduleAdd(c) \/ ImmediateAdd(c) \/ RecoverAdd(c)
    BY <2>2 DEF ScheduleAdd, Add, Goto, ImmediateAdd, RecoverAdd
  <2>3. CASE
           ScheduleSetStatus(c) \/ ImmediateTouch(c) \/ RecoverComplete(c)
        \/ RecoverSetProcessing(c)
    BY <2>3 DEF ScheduleSetStatus, End, ImmediateTouch, RecoverComplete,
        RecoverSetProcessing
  <2>4. CASE ImmediateRemove(c)
    BY <2>4 DEF ImmediateRemove, Forget, End, Goto
  <2>5. CASE ScheduleInvalid(c) \/ ScheduleThrows(c)
    BY <2>5 DEF ScheduleInvalid, ScheduleThrows, Add, End
  <2> QED BY <1>2, <2>1, <2>2, <2>3, <2>4, <2>5 DEF CallerStep
<1>3. ASSUME NEW c \in Callers, CallerDies(c) PROVE SuccessKnown'
  BY <1>3 DEF CallerDies, End
<1>4. ASSUME NEW w \in Workers, NEW j \in JobId, Fetch(w, j)
      PROVE  SuccessKnown'
  BY <1>4 DEF Fetch, At
<1>5. ASSUME NEW w \in Workers, WorkerStep(w) PROVE SuccessKnown'
  <2>1. CASE ReadTweet(w)
    BY <2>1 DEF ReadTweet, At
  <2>2. CASE SkipPosted(w) \/ RateLimited(w) \/ Finish(w)
    BY <2>2 DEF SkipPosted, At, MoveJob, Release, RateLimited, Finish
  <2>3. CASE
           MarkProcessing(w) \/ SendRejected(w) \/ RecordPost(w)
        \/ CommitPosted(w) \/ CompleteRow(w) \/ MarkTweetFailed(w)
    BY <2>3 DEF MarkProcessing, At, Continue, SendRejected, RecordPost,
        CommitPosted, CompleteRow, MarkTweetFailed
  <2>4. CASE SendAccepted(w)
    BY <2>4 DEF SendAccepted, At, Publish, Continue
  <2>5. CASE MarkRowFailed(w) \/ Retry(w)
    BY <2>5 DEF MarkRowFailed, At, FailedAttempt, MoveJob, Release, Retry
  <2> QED BY <1>5, <2>1, <2>2, <2>3, <2>4, <2>5 DEF WorkerStep
<1>6. ASSUME NEW w \in Workers, SendLost(w) PROVE SuccessKnown'
  BY <1>6 DEF SendLost, At, Publish, Continue
<1>7. ASSUME NEW w \in Workers, StatementThrows(w) PROVE SuccessKnown'
  BY <1>7 DEF StatementThrows, LosePost, Continue
<1>8. ASSUME NEW w \in Workers, WorkerDies(w) PROVE SuccessKnown'
  BY <1>8 DEF WorkerDies, LosePost, MoveJob, Release
<1>9. ASSUME NEW j \in JobId, Discard(j) PROVE SuccessKnown'
  BY <1>9 DEF Discard, Forget
<1>10. ASSUME NEW j \in JobId, RetryFailed(j) PROVE SuccessKnown'
  BY <1>10 DEF RetryFailed
<1>11. ASSUME NEW t \in Tweets, BecomeOverdue(t) PROVE SuccessKnown'
  BY <1>11 DEF BecomeOverdue
<1>12. CASE UNCHANGED vars
  BY <1>12 DEF vars
<1> QED
  BY <1>1, <1>2, <1>3, <1>4, <1>5, <1>6, <1>7, <1>8, <1>9, <1>10, <1>11, <1>12
  DEF Next

(* A job leaves a worker that holds X's acceptance as completed, or the    *)
(* post is counted as lost; and a completed job runs again only after it   *)
(* was forgotten, which is counted too.                                    *)
LEMMA AccountStep == Inv /\ [Next]_vars => PostsAccounted'
<1> SUFFICES ASSUME Inv, [Next]_vars PROVE PostsAccounted'
  OBVIOUS
<1> USE JobNames
    DEF Inv, TypeOK, WorkersHoldJobs, DraftsUntouched, PostsAccounted,
        JobPublishesOnce, Busy, Accepted, tables, queue, workers, callers
<1>1. ASSUME NEW c \in Callers, CallerStart(c) PROVE PostsAccounted'
  BY <1>1 DEF CallerStart, Approve, ScheduleAt, PostNow, AutoSchedule,
      Recover, Submit, Start
<1>2. ASSUME NEW c \in Callers, CallerStep(c) PROVE PostsAccounted'
  <2>1. CASE WriteApproved(c) \/ ScheduleCreate(c)
    BY <2>1 DEF WriteApproved, End, Goto, ScheduleCreate
  <2>2. CASE ScheduleAdd(c) \/ ImmediateAdd(c) \/ RecoverAdd(c)
    BY <2>2 DEF ScheduleAdd, Add, Goto, ImmediateAdd, RecoverAdd
  <2>3. CASE
           ScheduleSetStatus(c) \/ ImmediateTouch(c) \/ RecoverComplete(c)
        \/ RecoverSetProcessing(c)
    BY <2>3 DEF ScheduleSetStatus, End, ImmediateTouch, RecoverComplete,
        RecoverSetProcessing
  <2>4. CASE ImmediateRemove(c)
    <3> DEFINE i == PostJob(callerTweet[c])
    <3>1. CASE jobState[i] = "active"
      BY <2>4, <3>1 DEF ImmediateRemove, End
    <3>2. CASE jobState[i] # "active"
      <4>1. i \in JobId /\ Forget(i) /\ UNCHANGED workers
        BY <2>4, <3>2 DEF ImmediateRemove
      <4>2. sent[i] <= lost[i] + forgotten'[i]
        BY <4>1, <3>2 DEF Forget, JobStates
      <4>3. \A w \in Workers : Busy(w) => workerJob[w] # i
        BY <3>2
      <4> QED
        BY <4>1, <4>2, <4>3 DEF Forget
    <3> QED
      BY <3>1, <3>2
  <2>5. CASE ScheduleInvalid(c) \/ ScheduleThrows(c)
    BY <2>5 DEF ScheduleInvalid, ScheduleThrows, Add, End
  <2> QED BY <1>2, <2>1, <2>2, <2>3, <2>4, <2>5 DEF CallerStep
<1>3. ASSUME NEW c \in Callers, CallerDies(c) PROVE PostsAccounted'
  BY <1>3 DEF CallerDies, End
<1>4. ASSUME NEW w \in Workers, NEW j \in JobId, Fetch(w, j)
      PROVE  PostsAccounted'
  BY <1>4 DEF Fetch, At
<1>5. ASSUME NEW w \in Workers, WorkerStep(w) PROVE PostsAccounted'
  <2>1. CASE ReadTweet(w)
    BY <2>1 DEF ReadTweet, At
  <2>2. CASE SkipPosted(w) \/ RateLimited(w) \/ Finish(w)
    BY <2>2 DEF SkipPosted, At, MoveJob, Release, RateLimited, Finish
  <2>3. CASE
           MarkProcessing(w) \/ SendRejected(w) \/ RecordPost(w)
        \/ CommitPosted(w) \/ CompleteRow(w) \/ MarkTweetFailed(w)
    BY <2>3 DEF MarkProcessing, At, Continue, SendRejected, RecordPost,
        CommitPosted, CompleteRow, MarkTweetFailed
  <2>4. CASE SendAccepted(w)
    BY <2>4 DEF SendAccepted, At, Publish, Continue
  <2>5. CASE MarkRowFailed(w) \/ Retry(w)
    BY <2>5 DEF MarkRowFailed, At, FailedAttempt, MoveJob, Release, Retry
  <2> QED BY <1>5, <2>1, <2>2, <2>3, <2>4, <2>5 DEF WorkerStep
<1>6. ASSUME NEW w \in Workers, SendLost(w) PROVE PostsAccounted'
  BY <1>6 DEF SendLost, At, Publish, Continue
<1>7. ASSUME NEW w \in Workers, StatementThrows(w) PROVE PostsAccounted'
  BY <1>7 DEF StatementThrows, LosePost, Continue
<1>8. ASSUME NEW w \in Workers, WorkerDies(w) PROVE PostsAccounted'
  BY <1>8 DEF WorkerDies, LosePost, MoveJob, Release
<1>9. ASSUME NEW j \in JobId, Discard(j) PROVE PostsAccounted'
  BY <1>9 DEF Discard, Forget
<1>10. ASSUME NEW j \in JobId, RetryFailed(j) PROVE PostsAccounted'
  BY <1>10 DEF RetryFailed
<1>11. ASSUME NEW t \in Tweets, BecomeOverdue(t) PROVE PostsAccounted'
  BY <1>11 DEF BecomeOverdue
<1>12. CASE UNCHANGED vars
  BY <1>12 DEF vars
<1> QED
  BY <1>1, <1>2, <1>3, <1>4, <1>5, <1>6, <1>7, <1>8, <1>9, <1>10, <1>11, <1>12
  DEF Next

(* The inductive invariant holds in every reachable state.                 *)
THEOREM Invariance == Spec => []Inv
<1>1. Inv /\ [Next]_vars => Inv'
  BY TypeStep, WorkersStep, DraftsStep, SuccessStep, AccountStep DEF Inv
<1> QED
  BY InitInv, <1>1, PTL DEF Spec

(* Every table, job, worker and call keeps to its set of values.           *)
THEOREM TypeCorrect == Spec => []TypeOK
<1>1. Inv => TypeOK
  BY DEF Inv
<1> QED
  BY Invariance, <1>1, PTL

(* X never gets a tweet that nobody approved.                              *)
THEOREM OnlyReviewedPosts == Spec => []NoUnreviewedPost
<1>1. Inv => NoUnreviewedPost
  BY DEF Inv, TypeOK, DraftsUntouched, NoUnreviewedPost
<1> QED
  BY Invariance, <1>1, PTL

(* What the database calls posted or completed is on X.                    *)
THEOREM SuccessIsTrue == Spec => []NoFalseSuccess
<1>1. Inv => NoFalseSuccess
  BY DEF Inv, SuccessKnown
<1> QED
  BY Invariance, <1>1, PTL

(* The jobs of a name publish once, plus once for every post lost after    *)
(* acceptance and every completed job whose post was forgotten.            *)
THEOREM OncePerJob == Spec => []JobPublishesOnce
<1>1. Inv => JobPublishesOnce
  BY DEF Inv, PostsAccounted
<1> QED
  BY Invariance, <1>1, PTL

(* Only ScheduleCreate writes pending, and only where there was no row.    *)
LEMMA RowStep == Inv /\ [Next]_vars => RowKept
<1> SUFFICES ASSUME Inv, [Next]_vars PROVE RowKept
  OBVIOUS
<1> USE JobNames
    DEF Inv, TypeOK, WorkersHoldJobs, DraftsUntouched, Busy, Accepted, RowKept,
        tables, queue, workers, callers
<1>1. ASSUME NEW c \in Callers, CallerStart(c) PROVE RowKept
  BY <1>1 DEF CallerStart, Approve, ScheduleAt, PostNow, AutoSchedule,
      Recover, Submit, Start
<1>2. ASSUME NEW c \in Callers, CallerStep(c) PROVE RowKept
  <2>1. CASE WriteApproved(c) \/ ScheduleCreate(c)
    BY <2>1 DEF WriteApproved, End, Goto, ScheduleCreate
  <2>2. CASE ScheduleAdd(c) \/ ImmediateAdd(c) \/ RecoverAdd(c)
    BY <2>2 DEF ScheduleAdd, Add, Goto, ImmediateAdd, RecoverAdd
  <2>3. CASE
           ScheduleSetStatus(c) \/ ImmediateTouch(c) \/ RecoverComplete(c)
        \/ RecoverSetProcessing(c)
    BY <2>3 DEF ScheduleSetStatus, End, ImmediateTouch, RecoverComplete,
        RecoverSetProcessing
  <2>4. CASE ImmediateRemove(c)
    BY <2>4 DEF ImmediateRemove, Forget, End, Goto
  <2>5. CASE ScheduleInvalid(c) \/ ScheduleThrows(c)
    BY <2>5 DEF ScheduleInvalid, ScheduleThrows, Add, End
  <2> QED BY <1>2, <2>1, <2>2, <2>3, <2>4, <2>5 DEF CallerStep
<1>3. ASSUME NEW c \in Callers, CallerDies(c) PROVE RowKept
  BY <1>3 DEF CallerDies, End
<1>4. ASSUME NEW w \in Workers, NEW j \in JobId, Fetch(w, j)
      PROVE  RowKept
  BY <1>4 DEF Fetch, At
<1>5. ASSUME NEW w \in Workers, WorkerStep(w) PROVE RowKept
  <2>1. CASE ReadTweet(w)
    BY <2>1 DEF ReadTweet, At
  <2>2. CASE SkipPosted(w) \/ RateLimited(w) \/ Finish(w)
    BY <2>2 DEF SkipPosted, At, MoveJob, Release, RateLimited, Finish
  <2>3. CASE
           MarkProcessing(w) \/ SendRejected(w) \/ RecordPost(w)
        \/ CommitPosted(w) \/ CompleteRow(w) \/ MarkTweetFailed(w)
    BY <2>3 DEF MarkProcessing, At, Continue, SendRejected, RecordPost,
        CommitPosted, CompleteRow, MarkTweetFailed
  <2>4. CASE SendAccepted(w)
    BY <2>4 DEF SendAccepted, At, Publish, Continue
  <2>5. CASE MarkRowFailed(w) \/ Retry(w)
    BY <2>5 DEF MarkRowFailed, At, FailedAttempt, MoveJob, Release, Retry
  <2> QED BY <1>5, <2>1, <2>2, <2>3, <2>4, <2>5 DEF WorkerStep
<1>6. ASSUME NEW w \in Workers, SendLost(w) PROVE RowKept
  BY <1>6 DEF SendLost, At, Publish, Continue
<1>7. ASSUME NEW w \in Workers, StatementThrows(w) PROVE RowKept
  BY <1>7 DEF StatementThrows, LosePost, Continue
<1>8. ASSUME NEW w \in Workers, WorkerDies(w) PROVE RowKept
  BY <1>8 DEF WorkerDies, LosePost, MoveJob, Release
<1>9. ASSUME NEW j \in JobId, Discard(j) PROVE RowKept
  BY <1>9 DEF Discard, Forget
<1>10. ASSUME NEW j \in JobId, RetryFailed(j) PROVE RowKept
  BY <1>10 DEF RetryFailed
<1>11. ASSUME NEW t \in Tweets, BecomeOverdue(t) PROVE RowKept
  BY <1>11 DEF BecomeOverdue
<1>12. CASE UNCHANGED vars
  BY <1>12 DEF vars
<1> QED
  BY <1>1, <1>2, <1>3, <1>4, <1>5, <1>6, <1>7, <1>8, <1>9, <1>10, <1>11, <1>12
  DEF Next

(* A row that has left pending is never pending again.                     *)
THEOREM RowsNeverReopened == Spec => PendingOnlyOnce
<1> QED
  BY Invariance, RowStep, PTL DEF Spec, PendingOnlyOnce
-----------------------------------------------------------------------------
(* The refinement.  Three lemmas say what TweetDelivery sees of a write to *)
(* a tweet, to a row, and of a post; every action is one of them or none.  *)

DeliveryStep == [Delivery!DeliveryNext]_(Delivery!deliveryVars)

(* An action of TweetDelivery on any tweet is a step of it.                *)
LEMMA DeliveryActions ==
  ASSUME NEW t \in Tweets
  PROVE  /\ Delivery!Review(t) => DeliveryStep
         /\ Delivery!Deliver(t) => DeliveryStep
         /\ Delivery!Claim(t) => DeliveryStep
         /\ Delivery!Retract(t) => DeliveryStep
         /\ UNCHANGED <<status, row, published>> => DeliveryStep
BY DEF DeliveryStep, Delivery!DeliveryNext, Delivery!deliveryVars,
       Reviewed, Claimed

(* Writing a status reviews the tweet, or claims or retracts success.      *)
LEMMA StatusWrite ==
  ASSUME Inv, NEW t \in Tweets, NEW s \in TweetStatus \ {"draft"},
         status' = [status EXCEPT ![t] = s], UNCHANGED <<row, published>>,
         s = "posted" => published[t] > 0
  PROVE  DeliveryStep
<1> DEFINE claim == s = "posted" \/ row[t] = "completed"
<1> USE DEF Inv, TypeOK
<1>1. Reviewed' = [Reviewed EXCEPT ![t] = TRUE]
  BY DEF Reviewed
<1>2. Claimed' = [Claimed EXCEPT ![t] = claim]
  BY DEF Claimed
<1>3. CASE status[t] = "draft"
  <2>1. Claimed' = Claimed
    BY <1>3 DEF Claimed, DraftsUntouched
  <2>2. Delivery!Review(t)
    BY <1>1, <1>3, <2>1 DEF Delivery!Review, Reviewed
  <2> QED
    BY <2>2, DeliveryActions
<1>4. CASE status[t] # "draft"
  <2>1. Reviewed' = Reviewed
    BY <1>4 DEF Reviewed
  <2>2. CASE claim
    <3>1. published[t] > 0
      BY <2>2 DEF SuccessKnown, NoFalseSuccess
    <3>2. Delivery!Claim(t)
      BY <1>2, <2>1, <2>2, <3>1 DEF Delivery!Claim
    <3> QED
      BY <3>2, DeliveryActions
  <2>3. CASE ~claim /\ Claimed[t]
    <3>1. Delivery!Retract(t)
      BY <1>2, <2>1, <2>3 DEF Delivery!Retract
    <3> QED
      BY <3>1, DeliveryActions
  <2>4. CASE ~claim /\ ~Claimed[t]
    <3>1. Claimed' = Claimed
      BY <2>4 DEF Claimed
    <3> QED
      BY <2>1, <3>1 DEF DeliveryStep, Delivery!deliveryVars
  <2> QED
    BY <2>2, <2>3, <2>4
<1> QED
  BY <1>3, <1>4

(* Writing a row claims or retracts success.                               *)
LEMMA RowWrite ==
  ASSUME Inv, NEW t \in Tweets, NEW s \in RowStatus,
         row' = [row EXCEPT ![t] = s], UNCHANGED <<status, published>>,
         s = "completed" => published[t] > 0
  PROVE  DeliveryStep
<1> DEFINE claim == status[t] = "posted" \/ s = "completed"
<1> USE DEF Inv, TypeOK
<1>1. Reviewed' = Reviewed
  BY DEF Reviewed
<1>2. Claimed' = [Claimed EXCEPT ![t] = claim]
  BY DEF Claimed
<1>3. CASE claim
  <2>1. published[t] > 0
    BY <1>3 DEF SuccessKnown, NoFalseSuccess
  <2>2. Delivery!Claim(t)
    BY <1>1, <1>2, <1>3, <2>1 DEF Delivery!Claim
  <2> QED
    BY <2>2, DeliveryActions
<1>4. CASE ~claim /\ Claimed[t]
  <2>1. Delivery!Retract(t)
    BY <1>1, <1>2, <1>4 DEF Delivery!Retract
  <2> QED
    BY <2>1, DeliveryActions
<1>5. CASE ~claim /\ ~Claimed[t]
  <2>1. Claimed' = Claimed
    BY <1>5 DEF Claimed
  <2> QED
    BY <1>1, <2>1 DEF DeliveryStep, Delivery!deliveryVars
<1> QED
  BY <1>3, <1>4, <1>5

(* A post that X accepts is delivered, for it was reviewed.                *)
LEMMA PostDelivers ==
  ASSUME Inv, NEW w \in Workers, Busy(w), Publish(w), UNCHANGED <<status, row>>
  PROVE  DeliveryStep
<1> DEFINE t == TweetOf(workerJob[w])
<1>1. t \in Tweets /\ status[t] # "draft"
  BY JobNames DEF Inv, WorkersHoldJobs, DraftsUntouched
<1>2. Reviewed[t] /\ Reviewed' = Reviewed /\ Claimed' = Claimed
  BY <1>1 DEF Reviewed, Claimed
<1>3. Delivery!Deliver(t)
  BY <1>1, <1>2 DEF Delivery!Deliver, Publish
<1> QED
  BY <1>1, <1>3, DeliveryActions

(* What the invariant says of a busy worker and of a call in flight.       *)
LEMMA WorkerTweet ==
  ASSUME Inv, NEW w \in Workers, Busy(w)
  PROVE  /\ TweetOf(workerJob[w]) \in Tweets
         /\ workerAt[w] \in Accepted => published[TweetOf(workerJob[w])] > 0
BY JobNames DEF Inv, WorkersHoldJobs, SuccessKnown

(* The same of a call.                                                     *)
LEMMA CallerTweet ==
  ASSUME Inv, NEW c \in Callers, callerAt[c] # "idle"
  PROVE  /\ callerTweet[c] \in Tweets
         /\ callerAt[c] = "complete" => published[callerTweet[c]] > 0
BY DEF Inv, DraftsUntouched, SuccessKnown

(* Every step of the pipeline is a step of TweetDelivery, or none.         *)
LEMMA NextDelivers == Inv /\ [Next]_vars => DeliveryStep
<1> SUFFICES ASSUME Inv, [Next]_vars PROVE DeliveryStep
  OBVIOUS
<1> USE DEF tables, queue, workers, callers, Busy
<1>1. CASE UNCHANGED <<status, row, published>>
  BY <1>1 DEF DeliveryStep, Delivery!deliveryVars, Reviewed, Claimed
<1>2. ASSUME NEW c \in Callers,
             WriteApproved(c) \/ ScheduleSetStatus(c)
      PROVE  DeliveryStep
  BY <1>2, CallerTweet, StatusWrite
  DEF WriteApproved, ScheduleSetStatus, TweetStatus
<1>3. ASSUME NEW c \in Callers,
             ScheduleCreate(c) \/ RecoverComplete(c) \/ RecoverSetProcessing(c)
      PROVE  DeliveryStep
  BY <1>1, <1>3, CallerTweet, RowWrite
  DEF ScheduleCreate, RecoverComplete, RecoverSetProcessing, RowStatus
<1>4. ASSUME NEW c \in Callers, CallerStart(c) \/ CallerDies(c)
      PROVE  DeliveryStep
  BY <1>1, <1>4 DEF CallerStart, Approve, ScheduleAt, PostNow, AutoSchedule,
     Recover, Submit, Start, CallerDies
<1>5. ASSUME NEW c \in Callers, CallerStep(c) PROVE DeliveryStep
  BY <1>1, <1>2, <1>3, <1>5 DEF CallerStep, ScheduleAdd, ScheduleInvalid,
     ScheduleThrows, ImmediateRemove, ImmediateAdd, ImmediateTouch, RecoverAdd
<1>6. ASSUME NEW w \in Workers, SendAccepted(w) \/ SendLost(w)
      PROVE  DeliveryStep
  BY <1>6, PostDelivers DEF SendAccepted, SendLost, At
<1>7. ASSUME NEW w \in Workers, CommitPosted(w) \/ MarkTweetFailed(w)
      PROVE  DeliveryStep
  BY <1>7, WorkerTweet, StatusWrite
  DEF CommitPosted, MarkTweetFailed, At, Accepted, TweetStatus
<1>8. ASSUME NEW w \in Workers,
             MarkProcessing(w) \/ CompleteRow(w) \/ MarkRowFailed(w)
      PROVE  DeliveryStep
  BY <1>1, <1>8, WorkerTweet, RowWrite
  DEF MarkProcessing, CompleteRow, MarkRowFailed, At, Accepted, RowStatus
<1>9. ASSUME NEW w \in Workers, WorkerStep(w) PROVE DeliveryStep
  BY <1>1, <1>6, <1>7, <1>8, <1>9 DEF WorkerStep, ReadTweet, SkipPosted,
     RateLimited, SendRejected, RecordPost, Finish, Retry
<1>10. ASSUME NEW w \in Workers,
              StatementThrows(w) \/ WorkerDies(w) \/ \E j \in JobId : Fetch(w, j)
       PROVE  DeliveryStep
  BY <1>1, <1>10 DEF StatementThrows, WorkerDies, Fetch
<1>11. ASSUME NEW j \in JobId, Discard(j) \/ RetryFailed(j)
       PROVE  DeliveryStep
  BY <1>1, <1>11 DEF Discard, RetryFailed
<1>12. ASSUME NEW t \in Tweets, BecomeOverdue(t) PROVE DeliveryStep
  BY <1>1, <1>12 DEF BecomeOverdue
<1>13. CASE UNCHANGED vars
  BY <1>1, <1>13 DEF vars
<1> QED
  BY <1>4, <1>5, <1>6, <1>9, <1>10, <1>11, <1>12, <1>13 DEF Next

(* The posting pipeline implements TweetDelivery.                          *)
THEOREM DeliveryImplemented == Spec => DeliveryRefined
<1>1. Init => Delivery!DeliveryInit
  BY DEF Init, Delivery!DeliveryInit, Reviewed, Claimed
<1> QED
  BY Invariance, NextDelivers, <1>1, PTL
  DEF Spec, DeliveryRefined, Delivery!DeliverySpec, DeliveryStep


-----------------------------------------------------------------------------
(* What a second post needs.  Without the recovery cron, "post now" and    *)
(* the removal of ended jobs, the queue knows a tweet by one name only.    *)
Overrides == {"recover", "postNow", "discard"}

OneName ==
  /\ \A j \in JobId : j # PostJob(TweetOf(j)) => jobState[j] = "none"
  /\ \A c \in Callers : callerAt[c] \notin {"remove", "readd", "touch", "complete",
                                            "recover", "setProcessing"}
  /\ \A t \in Tweets : published[t] <= sent[PostJob(t)]
  /\ \A j \in JobId : lost[j] <= faults /\ forgotten[j] = 0

(* Each tweet is published once, and once more at most for each fault that *)
(* broke an attempt off after X had accepted.                              *)
PublishedPerFault ==
  \A t \in Tweets : published[t] <= 1 + lost[PostJob(t)] /\ lost[PostJob(t)] <= faults

LEMMA OneNameStep ==
  ASSUME Operations \cap Overrides = {}, Inv, OneName, [Next]_vars
  PROVE  OneName'
<1> USE JobNames, MaxFaultsAssumption
    DEF Inv, TypeOK, WorkersHoldJobs, DraftsUntouched, Busy, OneName, Overrides,
        tables, queue, workers, callers
<1>1. ASSUME NEW c \in Callers, CallerStart(c) \/ CallerDies(c) PROVE OneName'
  BY <1>1 DEF CallerStart, Approve, ScheduleAt, PostNow, AutoSchedule, Recover, Submit,
              Start, CallerDies, End
<1>2. ASSUME NEW c \in Callers, CallerStep(c) PROVE OneName'
  <2>1. CASE WriteApproved(c) \/ ScheduleCreate(c) \/ ScheduleSetStatus(c)
    BY <2>1 DEF WriteApproved, ScheduleCreate, ScheduleSetStatus, End, Goto
  <2>2. CASE ScheduleAdd(c) \/ ScheduleInvalid(c) \/ ScheduleThrows(c)
    BY <2>2 DEF ScheduleAdd, ScheduleInvalid, ScheduleThrows, Add, Goto, End
  <2> QED
    BY <1>2, <2>1, <2>2 DEF CallerStep, ImmediateRemove, ImmediateAdd, ImmediateTouch,
       RecoverComplete, RecoverAdd, RecoverSetProcessing
<1>3. ASSUME NEW w \in Workers, Busy(w)
      PROVE  /\ workerJob[w] \in JobId
             /\ workerJob[w] = PostJob(TweetOf(workerJob[w]))
  BY <1>3
<1>4. ASSUME NEW w \in Workers, NEW j \in JobId, Fetch(w, j) PROVE OneName'
  BY <1>4 DEF Fetch, At
<1>5. ASSUME NEW w \in Workers, WorkerStep(w) PROVE OneName'
  <2>1. CASE SendAccepted(w)
    BY <1>3, <2>1 DEF SendAccepted, At, Publish
  <2>2. CASE ReadTweet(w) \/ MarkProcessing(w) \/ SendRejected(w) \/ RecordPost(w)
             \/ CommitPosted(w) \/ CompleteRow(w) \/ MarkTweetFailed(w)
    BY <2>2 DEF ReadTweet, MarkProcessing, SendRejected, RecordPost, CommitPosted,
        CompleteRow, MarkTweetFailed, At
  <2>3. CASE SkipPosted(w) \/ RateLimited(w) \/ Finish(w) \/ MarkRowFailed(w) \/ Retry(w)
    <3>1. PICK state \in JobStates : MoveJob(w, state)
      BY <2>3 DEF SkipPosted, RateLimited, Finish, MarkRowFailed, Retry, JobStates
    <3>2. Busy(w) /\ UNCHANGED <<faults, published, sent, lost, forgotten, callerAt>>
      BY <2>3 DEF SkipPosted, RateLimited, Finish, MarkRowFailed, Retry, At
    <3> QED
      BY <1>3, <3>1, <3>2 DEF MoveJob
  <2> QED
    BY <1>5, <2>1, <2>2, <2>3 DEF WorkerStep
<1>6. ASSUME NEW w \in Workers, SendLost(w) PROVE OneName'
  BY <1>3, <1>6 DEF SendLost, At, Publish
<1>7. ASSUME NEW w \in Workers, StatementThrows(w) PROVE OneName'
  BY <1>3, <1>7 DEF StatementThrows, LosePost, Accepted
<1>8. ASSUME NEW w \in Workers, WorkerDies(w) PROVE OneName'
  BY <1>3, <1>8 DEF WorkerDies, LosePost, MoveJob
<1>9. ASSUME NEW j \in JobId, Discard(j) \/ RetryFailed(j) PROVE OneName'
  BY <1>9 DEF Discard, RetryFailed
<1>10. ASSUME NEW t \in Tweets, BecomeOverdue(t) PROVE OneName'
  BY <1>10 DEF BecomeOverdue
<1>11. CASE UNCHANGED vars
  BY <1>11 DEF vars
<1> QED
  BY <1>1, <1>2, <1>4, <1>5, <1>6, <1>7, <1>8, <1>9, <1>10, <1>11 DEF Next

(* A tweet is published twice only through the recovery cron, "post now",  *)
(* a job that the queue has forgotten, or an attempt that broke off: the   *)
(* name of the job alone stops every other double, whatever calls, ticks   *)
(* and workers run together.                                               *)
THEOREM JobNameStopsDoubles ==
  ASSUME Operations \cap Overrides = {}
  PROVE  Spec => []PublishedPerFault
<1>1. Init => OneName
  BY JobNames, MaxFaultsAssumption DEF Init, OneName
<1>2. Inv /\ OneName /\ [Next]_vars => OneName'
  BY OneNameStep
<1>3. Inv /\ OneName => PublishedPerFault
  <2> SUFFICES ASSUME Inv, OneName, NEW t \in Tweets
               PROVE  published[t] <= 1 + lost[PostJob(t)] /\ lost[PostJob(t)] <= faults
    BY DEF PublishedPerFault
  <2>1. PostJob(t) \in JobId
    BY JobNames
  <2>2. published[t] \in Nat /\ sent[PostJob(t)] \in Nat /\ lost[PostJob(t)] \in Nat
    BY <2>1 DEF Inv, TypeOK
  <2>3. published[t] <= sent[PostJob(t)] /\ sent[PostJob(t)] <= 1 + lost[PostJob(t)]
    BY <2>1, <2>2 DEF Inv, PostsAccounted, JobPublishesOnce, OneName
  <2> QED
    BY <2>1, <2>2, <2>3 DEF OneName
<1> QED
  BY <1>1, <1>2, <1>3, Invariance, PTL DEF Spec
=============================================================================
