\* Two events of any kind over two processes, one of which may die.
SPECIFICATION Spec
CONSTANTS
  Processes = {p1, p2}
  Paid = {core, edu}
  Core = core
  NoPlan = NoPlan
  Statuses = {"trialing", "active", "past_due", "canceled", "incomplete"}
  Mixed = {"active"}
  MaxEvents = 2
  MaxCrashes = 1
SYMMETRY Symm
CONSTRAINT Narrow
INVARIANTS
  StartedOnce
  PaidWithCause
  MirrorsInOrder
