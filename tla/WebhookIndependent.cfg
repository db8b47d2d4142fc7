\* SQLite: a receiver that was paused, and the other receivers of the tenant.
SPECIFICATION Spec
CONSTANTS
  Subs = {s1, s2}
  Events = {e1, e2}
  Threads = {t1, t2}
  MaxAttempts = 2
  HardLimit = 2
  MaxRetries = 2
  MaxPatches = 0
  NoSub = NoSub
  NoEvent = NoEvent
SYMMETRY Symm
INVARIANTS
  Independent
CHECK_DEADLOCK FALSE
