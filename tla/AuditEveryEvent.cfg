\* One loop, one receiver, and two events that are committed in either order.
SPECIFICATION FairSpec
CONSTANTS
  Events = {1, 2}
  Dests = {siem}
  Procs = {p1}
  Batch = 2
  Limit = 2
  MaxCrashes = 0
  MaxPatches = 0
  NoDest = NoDest
PROPERTIES
  EveryEventIsPushed
CHECK_DEADLOCK FALSE
