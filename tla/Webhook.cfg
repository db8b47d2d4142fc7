\* Two dispatching threads, two subscriptions, a retry and a patch.
SPECIFICATION Spec
CONSTANTS
  Subs = {s1, s2}
  Events = {e1, e2}
  Threads = {t1, t2}
  MaxAttempts = 2
  HardLimit = 2
  MaxRetries = 1
  MaxPatches = 1
  NoSub = NoSub
  NoEvent = NoEvent
SYMMETRY Symm
INVARIANTS
  TypeOK
  FailuresAreReal
  PausedWithCause
  AttemptChain
  NoSilentLoss
PROPERTIES
  DeactivatedWithCause
CHECK_DEADLOCK FALSE
