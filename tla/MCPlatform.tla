----------------------------- MODULE MCPlatform -----------------------------
(***************************************************************************)
(* Six components that share nothing but the database server, checked in   *)
(* one run: a collaborative document, an import job, the stock of a        *)
(* product, the invoices of a tenant, an audit stream and the cache of     *)
(* the features.  In a behaviour one of them moves and the others stay     *)
(* where they start, so that their state spaces add up.                    *)
(***************************************************************************)
EXTENDS Integers, Sequences, FiniteSets, TLC

CONSTANTS Procs, Clients, Updates, Nowhere,
          Rows, MaxRuns,
          PoLines, Stocked, Gains, Losses, Fewer, Given, Threshold, MaxMoves, MaxUnusual,
          Deals, Amounts, Named, MaxInvoices, MaxEdits, NoDeal,
          AuditIds, Dests, Batch, Limit, MaxCrashes, MaxPatches, NoDest,
          Tenants, Plans, Evaluation, Shared, MaxChanges

VARIABLES
  log, room, snap, count, pc, blob, found, final, socket, accepted, shared, faulty,
  status, ids, live, own, policy, async, queue, runs, ses, raced, again, broke,
  onhand, alerts, po, quantity, received, ret, req, moves, due, given, into, odd,
  made, invoices, number, mark, lines, total, editor, edits, origin, twice, overlapped,
  order, seen, dest, fails, cursor, pass, pushed, behind, losses,
  plan, key, backend, entry, request, old, changes,
  mover  \* the component that moves

rvars == <<log, room, snap, count, pc, blob, found, final, socket, accepted, shared, faulty>>
ivars == <<status, ids, live, own, policy, async, queue, runs, ses, raced, again, broke>>
vvars == <<onhand, alerts, po, quantity, received, ret, req, moves, due, given, into, odd>>
nvars == <<made, invoices, number, mark, lines, total, editor, edits, origin, twice, overlapped>>
svars == <<order, seen, dest, fails, cursor, pass, pushed, behind, losses>>
cvars == <<plan, key, backend, entry, request, old, changes>>
vars  == <<rvars, ivars, vvars, nvars, svars, cvars, mover>>

R == INSTANCE YjsRooms
I == INSTANCE ImportJobs WITH Sessions <- Clients
V == INSTANCE Inventory WITH Lines <- PoLines, Amounts <- Gains \cup {-n : n \in Losses},
                             Quantities <- Gains \cup {-n : n \in Fewer}
N == INSTANCE Invoices WITH live <- invoices, req <- editor, odd <- overlapped
S == INSTANCE AuditStream WITH Events <- AuditIds, faults <- losses
C == INSTANCE FeatureCache WITH Requests <- Clients, Nothing <- Nowhere, req <- request

ASSUME PlatformAssumption ==
  /\ R!RoomsAssumption /\ I!ImportAssumption /\ V!InventoryAssumption
  /\ N!InvoicesAssumption /\ S!StreamAssumption /\ C!CacheAssumption

(* What is unusual in new documents of the inventory; a behaviour starts    *)
(* with MaxUnusual such things at most, of the four there are.              *)
Unusual ==
  {i \in 1..4 : << po = "received", ret = "received",
                  \E l \in PoLines : received[l] # 0, \E l \in PoLines : quantity[l] < 0 >>[i]}

Init ==
  /\ R!Init /\ I!Init /\ V!Init /\ N!Init /\ S!Init /\ C!Init
  /\ mover \in {"rooms", "imports", "inventory", "invoices", "stream", "cache"}
  /\ Cardinality(Unusual) <= IF mover = "inventory" THEN MaxUnusual ELSE 0
  /\ mover # "imports" => own = {} /\ policy = "skip" /\ async
  /\ mover # "cache" => /\ backend = [p \in Procs |-> "memory"] /\ key = [p \in Procs |-> Evaluation]
                        /\ plan = [t \in Tenants |-> Evaluation]

Next ==
  \/ mover = "rooms" /\ R!Next /\ UNCHANGED <<ivars, vvars, nvars, svars, cvars, mover>>
  \/ mover = "imports" /\ I!Next /\ UNCHANGED <<rvars, vvars, nvars, svars, cvars, mover>>
  \/ mover = "inventory" /\ V!Next /\ UNCHANGED <<rvars, ivars, nvars, svars, cvars, mover>>
  \/ mover = "invoices" /\ N!Next /\ UNCHANGED <<rvars, ivars, vvars, svars, cvars, mover>>
  \/ mover = "stream" /\ S!Next /\ UNCHANGED <<rvars, ivars, vvars, nvars, cvars, mover>>
  \/ mover = "cache" /\ C!Next /\ UNCHANGED <<rvars, ivars, vvars, nvars, svars, mover>>

Spec == Init /\ [][Next]_vars

Complete == R!Complete
OnlyStrangersLose == R!OnlyStrangersLose
ImplementsLog == R!ImplementsLog
RowsOnce == I!RowsOnce
LowIsAlerted == V!LowIsAlerted
StockMatchesReceipts == V!StockMatchesReceipts
InvoicedOnce == N!InvoicedOnce
TotalsMatch == N!TotalsMatch
NothingSkipped == S!NothingSkipped
CacheIsCurrent == C!CacheIsCurrent

Symm == Permutations(Clients) \cup Permutations(Procs)
=============================================================================
