\* Three windows: are all slots of a batch within the active hours?
SPECIFICATION SlotsSpec
CONSTANTS
  Minutes = {480, 700, 1379}
  Hours = {8, 11, 23}
  Frequencies = {1, 5}
  Approved = {3}
  Quotas = {4}
  Jitters = {0}
CHECK_DEADLOCK FALSE
INVARIANT SlotsInWindow
