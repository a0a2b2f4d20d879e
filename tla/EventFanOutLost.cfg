\* Two ingestors of one source, no fault: is every event fanned out?
SPECIFICATION Spec
CONSTANTS
  x1 = x1
  x2 = x2
  x3 = x3
  y1 = y1
  y2 = y2
  y3 = y3
  z = z
  w = w
  s1 = s1
  s2 = s2
  s3 = s3
  Items = {x1, x2}
  Sources = {s1}
  Source <- MCSource
  Categories = {"c", "d"}
  Category <- MCCategory
  Recent = 3
  Undated = {}
  Similar <- Unrelated
  Copies = 1
  Bots = {b1}
  Subscribed <- MCSubscribed
  Ingestors = {i1, i2}
  Generators = {}
  Deleters = {}
  MaxJobs = 1
  MaxAttempts = 1
  MaxFaults = 0
  NoItem = NoItem
  NoJob = NoJob

\* The system stops when no copy of an item and no job is left to make.
CHECK_DEADLOCK FALSE
INVARIANT FannedOut
