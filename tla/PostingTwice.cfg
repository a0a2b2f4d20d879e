\* Two replicas: two workers, two cron ticks, no fault.
SPECIFICATION Spec
CONSTANTS
  Tweets = {t1}
  Workers = {w1, w2}
  Callers = {c1, c2}
  RecoverIds = {r1, r2}
  NoJob = NoJob
  NoTweet = NoTweet
  Operations = {"scheduleAt", "recover"}
  MaxAttempts = 2
  MaxFaults = 0

\* The system stops when every tweet is posted and no call comes.
CHECK_DEADLOCK FALSE
INVARIANT PublishedAtMostOnce
