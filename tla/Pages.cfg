\* Two pages with two links and two passwords; a list of tweets with two calls
\* and one edit; pages of two of three stories of which one is taken, on two days.
SPECIFICATION MCSpec
CONSTANTS
  Pages = {c1, c2}
  Links = {x1, x2}
  Passwords = {w1, w2}
  NoPassword = NoPassword
  NoLink = NoLink
  MaxLinkFaults = 1
  Boards = {b1}
  NoBoard = NoBoard
  Calls = {c1, c2}
  Texts = {x1, x2}
  NoText = NoText
  MaxEdits = 1
  MaxBoardFaults = 1
  s1 = s1
  s2 = s2
  s3 = s3
  Stories = {s1, s2, s3}
  Slug <- MCSlug
  Hash <- MCHash
  Undated = {s3}
  ItemLimit = 1
  PageLength = 2
  MaxPeriod = 1
SYMMETRY Symmetry
\* Every component stops at its bounds.
CHECK_DEADLOCK FALSE
INVARIANTS
  UsesBounded VerifiedByLink
  TextSettled ShowsOwnWrites
  AnsweredIsStored StoredOnce
