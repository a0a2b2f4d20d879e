\* Two workers and one API call: is a tweet given up only with its account?
SPECIFICATION Spec
CONSTANTS
  Workers = {w1, w2}
  Callers = {c1}
  Tokens = {n1, n2, n3}
  RowIds = {r1}
  NoToken = NoToken
  NoRow = NoRow
SYMMETRY Symmetry
\* The system stops when no token or row is left to be given out.
CHECK_DEADLOCK FALSE
INVARIANT GivenUpForGood
