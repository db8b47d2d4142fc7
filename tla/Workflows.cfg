\* Two publishers, two workflows that may trigger each other or themselves.
SPECIFICATION Spec
CONSTANTS
  Flows = {1, 2}
  Threads = {t1, t2}
  Triggers <- MCTriggers
  Scripts <- MCScripts
  Pool = 2
  Depth = 2
  Cap = 2
  MaxEvents = 2
  MaxEdits = 1
  None = None
INVARIANTS
  CountsAreReal
  PassedOverWithCause
CHECK_DEADLOCK FALSE
