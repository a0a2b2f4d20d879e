\* What the queue and the cron jobs guarantee, each on its own fairness: one
\* worker, one caller, one fault.
SPECIFICATION Spec
CONSTANTS
  Tweets = {t1}
  Workers = {w1}
  Callers = {c1}
  RecoverIds = {r1}
  NoJob = NoJob
  NoTweet = NoTweet
  Operations = {"approve", "scheduleAt", "postNow", "autoSchedule", "recover", "retryFailed",
                "discard"}
  MaxAttempts = 2
  MaxFaults = 1

\* The system stops when every tweet is posted and no call comes.
CHECK_DEADLOCK FALSE
PROPERTIES JobsEnd PendingRowsHandled ApprovedGetsScheduled
