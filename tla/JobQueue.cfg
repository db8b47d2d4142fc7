\* Two request threads and two workers over two jobs, Redis reachable or not.
SPECIFICATION Spec
CONSTANTS
  Jobs = {j1, j2}
  Clients = {c1, c2}
  Workers = {w1, w2}
  Modes = {"redis", "sync"}
  NoJob = NoJob
SYMMETRY Symm
INVARIANTS
  TypeOK
  AtMostOneCall
  OutcomeTruthful
  AttemptTrail
  NoOrphan
  RemovedNeverRuns
PROPERTIES
  SettledIsFinal
  ImplementsContract
