\* Four components under fairness, one of which moves.
SPECIFICATION FairSpec
CONSTANTS
  Jobs = {j1}
  Clients = {c1, c2}
  Workers = {w1, w2}
  Modes = {"redis", "sync"}
  NoJob = NoJob
  Processes = {p1, p2}
  Paid = {core}
  Core = core
  NoPlan = NoPlan
  Statuses = {"active"}
  MaxEvents = 1
  AuditIds = {1, 2}
  Dests = {d1}
  Procs = {q1}
  Batch = 2
  Limit = 2
  MaxPatches = 1
  NoDest = NoDest
  Flows = {1, 2}
  Publishers = {t1}
  Triggers <- MCTriggers
  Scripts <- MCScripts
  Pool = 2
  Depth = 3
  Cap = 2
  MaxPublished = 1
  MaxEdits = 0
  None = None
  MaxCrashes = 1
PROPERTIES
  EveryJobSettles
  EveryEventIsAcked
  TrialExpires
  EveryEventIsStreamed
  EveryPublishReturns
CHECK_DEADLOCK FALSE
