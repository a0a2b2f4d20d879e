\* Two tabs, two calls under way, one lost call.
SPECIFICATION FairSpec
CONSTANTS
  t1 = t1
  t2 = t2
  Tabs <- MCTabs
  MaxSessionFaults = 1
  MaxCalls = 2

INVARIANTS SessionTypeOK LogoutFinal
PROPERTIES SignedInStays FormEnds SpinnerEnds
