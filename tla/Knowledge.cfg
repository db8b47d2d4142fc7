\* Two replicas ingest two documents beside a request that reindexes.
SPECIFICATION Spec
CONSTANTS
  Docs = {d1, d2}
  Replicas = {r1, r2}
  Clients = {c1}
  Chunks = {n1, n2}
  MaxFaults = 1
  None = None
SYMMETRY Symm
INVARIANTS
  StatusTruthful
CHECK_DEADLOCK FALSE
