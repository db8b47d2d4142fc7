\* Six components, one of which moves.
SPECIFICATION Spec
CONSTANTS
  Procs = {p1, p2}
  Clients = {c1, c2}
  Updates = {u1, u2}
  Nowhere = Nowhere
  Rows = {k1}
  MaxRuns = 2
  PoLines = {l1}
  Stocked = {l1}
  Gains = {1}
  Losses = {2}
  Fewer = {2}
  Given = {0, 1}
  Threshold = 1
  MaxMoves = 2
  MaxUnusual = 1
  Deals = {d1}
  Amounts = {1, 2}
  Named = {1}
  MaxInvoices = 2
  MaxEdits = 2
  NoDeal = NoDeal
  AuditIds = {1, 2, 3}
  Dests = {siem}
  Batch = 2
  Limit = 2
  MaxCrashes = 1
  MaxPatches = 0
  NoDest = NoDest
  Tenants = {acme}
  Plans = {core}
  Evaluation = Evaluation
  Shared = Shared
  MaxChanges = 2
SYMMETRY Symm
INVARIANTS
  Complete
  RowsOnce
  LowIsAlerted
  StockMatchesReceipts
  InvoicedOnce
  TotalsMatch
  NothingSkipped
  CacheIsCurrent
PROPERTIES
  OnlyStrangersLose
  ImplementsLog
CHECK_DEADLOCK FALSE
