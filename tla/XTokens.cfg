\* Two workers and one API call, four answers of X, two rows.  A tab of the
\* dashboard, two requests at a time, three forms that are sent, four topics;
\* the adapters deliver one of the two pairs a form may name.
SPECIFICATION MCSpec
CONSTANTS
  Workers = {w1, w2}
  Callers = {c1}
  Tokens = {n1, n2, n3, n4}
  RowIds = {r1, r2}
  NoToken = NoToken
  NoRow = NoRow
  Tabs = {t1}
  NoTab = NoTab
  Requests = {w1, w2}
  Names = {r1, r2}
  NoName = NoName
  Personas = {p1}
  NoPersona = NoPersona
  Topics = {n1, n2, n3, n4}
  MaxTopics = 1
  s1 = s1
  s2 = s2
  Pairs = {s1, s2}
  Delivered = {s1}
  Sources = {s1}
  MaxSubmits = 3
  MaxBotFaults = 1
SYMMETRY Symmetry
\* The system stops when no token or row is left to be given out,
\* and when all requests are sent.
CHECK_DEADLOCK FALSE
INVARIANTS StoredTokenAccounted
  LastSaveKept TopicsBounded CreatedIsSubscribed
PROPERTIES NeverRollsBack CustodyRefined
