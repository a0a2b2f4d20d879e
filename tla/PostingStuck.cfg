\* Does a scheduled tweet get posted or fail?  One worker, one caller, no fault.
SPECIFICATION FairSpec
CONSTANTS
  Tweets = {t1}
  Workers = {w1}
  Callers = {c1}
  RecoverIds = {r1, r2}
  NoJob = NoJob
  NoTweet = NoTweet
  Operations = {"approve", "scheduleAt", "autoSchedule", "recover"}
  MaxAttempts = 2
  MaxFaults = 0

\* The system stops when every tweet is posted and no call comes.
CHECK_DEADLOCK FALSE
PROPERTY ScheduledResolves
