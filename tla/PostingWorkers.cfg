\* A tweet: two workers against one caller, every operation, one fault.  The
\* limiter: two worker slots, one post per window of two ticks, four attempts.
\* Texts: answers of three lines.  Slots: windows and moments of a day.
SPECIFICATION MCSpec
CONSTANTS
  Tweets = {t1}
  Workers = {w1, w2}
  Callers = {c1}
  RecoverIds = {r1}
  NoJob = NoJob
  NoTweet = NoTweet
  Operations = {"approve", "scheduleAt", "postNow", "autoSchedule", "recover",
                "retryFailed", "discard"}
  MaxAttempts = 2
  MaxFaults = 1
  a1 = a1
  a2 = a2
  p1 = p1
  p2 = p2
  p3 = p3
  p4 = p4
  Accounts = {a1, a2}
  Attempts = {p1, p2, p3, p4}
  Account <- MCAccount
  Slots = 2
  MaxPerDay = 1
  Window = 2
  MaxTime = 4
  Minutes = {0, 479, 480, 481, 700, 1379, 1380, 1439}
  Hours = {0, 8, 11, 12, 23, 24}
  Frequencies = {1, 5, 7, 60, 100}
  Approved = {0, 1, 3}
  Quotas = {0, 2, 4}
  Jitters = {0, 4}
  Samples <- MCSamples
  NoText = NoText
  TextOf <- MCTextOf
  WithNumber <- MCWithNumber
  Alike <- MCAlike
  BatchSize = 2
  MaxLines = 3
  MaxRetries = 3
SYMMETRY MCSymmetry
\* The system stops when every tweet is posted and no call comes, and at
\* the bounds of the other components.
CHECK_DEADLOCK FALSE
INVARIANTS TypeOK NoUnreviewedPost NoFalseSuccess JobPublishesOnce
  XOvershootBounded
  SlotsAhead ClosedWindowFits EveryTweetTimed
  GeneratedFits NumbersMatch NoTwins
PROPERTIES PendingOnlyOnce DeliveryRefined
