\* Ingestion: three feed items of one story, two ingestors, one cleanup.
\* Reach: a look-up of three events no longer finds the story.
\* Generation: one event, three jobs of one bot with two attempts, two
\* generators.
SPECIFICATION MCSpec
CONSTANTS
  x1 = x1
  x2 = x2
  x3 = x3
  y1 = y1
  y2 = y2
  y3 = y3
  z = z
  w = w
  s1 = s1
  s2 = s2
  s3 = s3
  Items = {x1, x2, x3, y1, y2, y3, z, w}
  Sources = {s1, s2, s3}
  Source <- MCSource
  Categories = {"c", "d"}
  Category <- MCCategory
  Recent = 3
  Undated = {w}
  Similar <- MCSimilar
  Copies = 2
  Bots = {b1}
  Subscribed <- NoSubscription
  Ingestors = {i1, i2}
  Generators = {g1, g2}
  Deleters = {d1}
  MaxJobs = 3
  MaxAttempts = 2
  MaxFaults = 0
  NoItem = NoItem
  NoJob = NoJob
SYMMETRY MCSymmetry
\* The system stops when no copy of an item and no job is left to make.
CHECK_DEADLOCK FALSE
INVARIANTS TypeOK SimilarBounded DuplicatesBounded
PROPERTY EventLifeRefined
