\* Unrelated events, a batch or a single job, two attempts, one fault, and a
\* second ingestion that overtakes the create of the last item.
SPECIFICATION MCFairSpec
CONSTANTS
  x1 = x1
  x2 = x2
  x3 = x3
  y1 = y1
  y2 = y2
  y3 = y3
  z = z
  w = w
  s1 = s1
  s2 = s2
  s3 = s3
  Items = {x1, x2}
  Sources = {s1}
  Source <- MCSource
  Categories = {"c", "d"}
  Category <- MCCategory
  Recent = 3
  Undated = {}
  Similar <- Unrelated
  Copies = 1
  Bots = {b1}
  Subscribed <- MCSubscribed
  Ingestors = {i1, i2}
  Generators = {g1}
  Deleters = {d1}
  MaxJobs = 1
  MaxAttempts = 2
  MaxFaults = 1
  NoItem = NoItem
  NoJob = NoJob

\* The system stops when no copy of an item and no job is left to make.
CHECK_DEADLOCK FALSE
INVARIANT JobTweetsOnce
PROPERTIES GenerationEnds OldEventsGo
