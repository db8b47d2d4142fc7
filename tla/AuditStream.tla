----------------------------- MODULE AuditStream -----------------------------
(***************************************************************************)
(* The audit events of one tenant and the receivers they are streamed to:  *)
(* services/audit_streamer.py, one loop in every server process, with the  *)
(* endpoints of api/v1/endpoints/security_policies.py.                     *)
(*                                                                         *)
(* An event gets its id and its time when its row is flushed and is seen   *)
(* when its transaction commits.  Ids sort by time, but not within one     *)
(* millisecond.  The position in the stream is an id in the memory of the  *)
(* process.  Left out: formats, credentials, the canary of the test        *)
(* endpoint, and the three attempts of one batch.                          *)
(***************************************************************************)
EXTENDS Integers, Sequences, FiniteSetsExt

CONSTANTS
  Events,      \* audit events by their ids, a set of positive numbers
  Dests,       \* audit_stream_destinations
  Procs,       \* server processes
  Batch,       \* BATCH_SIZE
  Limit,       \* DISABLE_AFTER_CONSECUTIVE_FAILURES
  MaxCrashes,  \* bound: crashes of a process
  MaxPatches,  \* bound: changes of is_active and deletions
  NoDest

StreamAssumption ==
  /\ Events \subseteq Nat \ {0} /\ Batch \in Nat \ {0} /\ Limit \in Nat \ {0}
  /\ MaxCrashes \in Nat /\ MaxPatches \in Nat /\ NoDest \notin Dests

VARIABLES
  order,    \* the audit_logs rows by created_at
  seen,     \* those that are committed
  dest,     \* is_active of a destination, and whether there is a row
  fails,    \* its consecutive_failures
  cursor,   \* _cursors of a process, 0 for none
  pass,     \* flush_all of a process
  pushed,   \* auxiliary: the events a destination has received
  behind,   \* auxiliary: events that a larger id has preceded
  faults    \* auxiliary: crashes and patches so far

rows == <<order, seen, dest, fails>>
vars == <<rows, cursor, pass, pushed, behind, faults>>

Rest == [at |-> "rest", todo |-> {}, copy |-> [d \in Dests |-> 0], cur |-> NoDest, batch |-> {}]

Init ==
  /\ order = <<>> /\ seen = {}
  /\ dest = [d \in Dests |-> "on"] /\ fails = [d \in Dests |-> 0]
  /\ cursor = [p \in Procs |-> [d \in Dests |-> 0]]
  /\ pass = [p \in Procs |-> Rest]
  /\ pushed = [d \in Dests |-> {}]
  /\ behind = {} /\ faults = [crashes |-> 0, patches |-> 0]

Elements(s) == {s[i] : i \in DOMAIN s}

-----------------------------------------------------------------------------
(* record_audit in a transaction, and its commit                           *)

Record(e) ==
  /\ e \in Events \ Elements(order)
  /\ order' = Append(order, e)
  /\ behind' = behind \cup {x \in {e} : \E f \in Elements(order) : f > e}
  /\ UNCHANGED <<seen, dest, fails, cursor, pass, pushed, faults>>

Commit(e) ==
  /\ e \in Elements(order) \ seen
  /\ seen' = seen \cup {e}
  /\ behind' = behind \cup {x \in {e} : \E f \in seen : f > e}
  /\ UNCHANGED <<order, dest, fails, cursor, pass, pushed, faults>>

-----------------------------------------------------------------------------
(* flush_all, flush_destination                                            *)

Begin(p) ==
  /\ pass[p].at = "rest"
  /\ LET S == {d \in Dests : dest[d] = "on"}
     IN /\ S # {}
        /\ pass' = [pass EXCEPT ![p] = [Rest EXCEPT !.at = "next", !.todo = S,
                      !.copy = [d \in Dests |-> IF d \in S THEN fails[d] ELSE 0]]]
  /\ UNCHANGED <<rows, cursor, pushed, behind, faults>>

(* The positions in order of the events with an id after n.                 *)
After(n) == {i \in DOMAIN order : order[i] \in seen /\ order[i] > n}

Oldest(S) == {i \in S : Cardinality({j \in S : j < i}) < Batch}

(* Mutant: the first event after the cursor is passed over. *)
PendingFrom(p, d) == Oldest(After(cursor[p][d] + 1))

(* _pending_events_for_tenant: the oldest with an id after the cursor.      *)
Pending(p, d) == Oldest(After(cursor[p][d]))

(* On to the next destination. *)
Leave(p, todo) ==
  pass' = [pass EXCEPT ![p] = IF todo = {} THEN Rest
                              ELSE [@ EXCEPT !.at = "next", !.todo = todo,
                                             !.cur = NoDest, !.batch = {}]]

Select(p, d) ==
  /\ pass[p].at = "next" /\ d \in pass[p].todo
  /\ IF Pending(p, d) = {} THEN Leave(p, pass[p].todo \ {d})
     ELSE pass' = [pass EXCEPT ![p].at = "sending", ![p].cur = d, ![p].todo = @ \ {d},
                               ![p].batch = Pending(p, d)]
  /\ UNCHANGED <<rows, cursor, pushed, behind, faults>>

Receive(p) == [pushed EXCEPT ![pass[p].cur] = @ \cup {order[i] : i \in pass[p].batch}]

(* The receiver answers 2xx, or something else.  It may have taken the      *)
(* batch all the same.                                                      *)
Accept(p) ==
  /\ pass[p].at = "sending"
  /\ pushed' = Receive(p)
  /\ pass' = [pass EXCEPT ![p].at = "accepted"]
  /\ UNCHANGED <<rows, cursor, behind, faults>>

Reject(p) ==
  /\ pass[p].at = "sending"
  /\ pushed' \in {pushed, Receive(p)}
  /\ pass' = [pass EXCEPT ![p].at = "rejected"]
  /\ UNCHANGED <<rows, cursor, behind, faults>>

(* It cannot be reached, or times out: requests.post raises, which ends the *)
(* attempts and is not counted.                                             *)
Unreachable(p) ==
  /\ pass[p].at = "sending"
  /\ pushed' \in {pushed, Receive(p)}
  /\ Leave(p, pass[p].todo)
  /\ UNCHANGED <<rows, cursor, behind, faults>>

(* Mutant: the cursor goes to the newest event. *)
NewestEvent(p) == CHOOSE e \in seen : \A f \in seen : f <= e

LastSent(p) == order[Max(pass[p].batch)]

(* The commit of a row that is gone raises, and the session refuses the     *)
(* rest of the pass.                                                        *)
Write(p, d, n, state) ==
  /\ IF dest[d] = "gone"
     THEN /\ pass' = [pass EXCEPT ![p] = Rest]
          /\ UNCHANGED <<dest, fails>>
     ELSE /\ fails' = [fails EXCEPT ![d] = n]
          /\ dest' = [dest EXCEPT ![d] = state]
          /\ Leave(p, pass[p].todo)
  /\ UNCHANGED <<order, seen, pushed, behind, faults>>

(* A reset of a count that was loaded as 0 is not written. *)
Succeed(p) ==
  /\ pass[p].at = "accepted"
  /\ LET d == pass[p].cur
     IN /\ cursor' = [cursor EXCEPT ![p][d] = LastSent(p)]
        /\ Write(p, d, IF pass[p].copy[d] = 0 THEN fails[d] ELSE 0, dest[d])

Fail(p) ==
  /\ pass[p].at = "rejected"
  /\ LET d == pass[p].cur
         n == pass[p].copy[d] + 1
     IN Write(p, d, n, IF n >= Limit THEN "off" ELSE dest[d])
  /\ UNCHANGED cursor

(* The process dies, and with it the cursors. *)
Crash(p) ==
  /\ faults.crashes < MaxCrashes
  /\ faults' = [faults EXCEPT !.crashes = @ + 1]
  /\ pass' = [pass EXCEPT ![p] = Rest]
  /\ cursor' = [cursor EXCEPT ![p] = [d \in Dests |-> 0]]
  /\ UNCHANGED <<rows, pushed, behind>>

-----------------------------------------------------------------------------
(* update_destination, delete_destination                                  *)

Patch(d, state) ==
  /\ dest[d] # "gone" /\ dest[d] # state /\ faults.patches < MaxPatches
  /\ dest' = [dest EXCEPT ![d] = state]
  /\ faults' = [faults EXCEPT !.patches = @ + 1]
  /\ UNCHANGED <<order, seen, fails, cursor, pass, pushed, behind>>

Flush(p) == Begin(p) \/ (\E d \in Dests : Select(p, d)) \/ Succeed(p) \/ Fail(p)

Next ==
  \/ \E e \in Events : Record(e) \/ Commit(e)
  \/ \E p \in Procs : Flush(p) \/ Accept(p) \/ Reject(p) \/ Unreachable(p) \/ Crash(p)
  \/ \E d \in Dests, state \in {"on", "off", "gone"} : Patch(d, state)

Spec == Init /\ [][Next]_vars

(* A loop wakes up for ever and a request for the receiver comes back; a    *)
(* receiver that is asked again and again answers once.                     *)
Fairness ==
  \A p \in Procs : /\ WF_vars(Flush(p))
                   /\ \A d \in Dests : SF_vars(Accept(p) /\ pass[p].cur = d)
                   /\ \A d \in Dests : SF_vars(Select(p, d))
                   /\ WF_vars(Accept(p) \/ Reject(p) \/ Unreachable(p))

FairSpec == Spec /\ Fairness

-----------------------------------------------------------------------------
(* Every row and every pass has its type. *)
TypeOK ==
  /\ order \in Seq(Events) /\ seen \subseteq Elements(order) /\ behind \subseteq Events
  /\ dest \in [Dests -> {"on", "off", "gone"}] /\ fails \in [Dests -> Nat]
  /\ cursor \in [Procs -> [Dests -> Events \cup {0}]]
  /\ pass \in [Procs -> [at : {"rest", "next", "sending", "accepted", "rejected"},
                         todo : SUBSET Dests, copy : [Dests -> Nat],
                         cur : Dests \cup {NoDest}, batch : SUBSET (DOMAIN order)]]
  /\ pushed \in [Dests -> SUBSET Events]
  /\ faults \in [crashes : 0..MaxCrashes, patches : 0..MaxPatches]

(* What the cursor of a process has passed was received, whatever failed,   *)
(* crashed or was sent by another process; unless it was committed or       *)
(* created after an event with a larger id.                                 *)
NothingSkipped ==
  \A p \in Procs, d \in Dests, e \in seen \ behind :
    e <= cursor[p][d] => e \in pushed[d]

(* Such an event is pushed, as long as the receiver is active and answers   *)
(* now and then and a process lives.                                        *)
EveryEventIsStreamed ==
  \A d \in Dests, e \in Events :
    e \in seen \ behind ~> e \in pushed[d] \/ dest[d] # "on"

(* docs/SOC2_CONTROLS.md:58: "Audit stream destinations push every event to *)
(* the customer's SIEM in real time".                                       *)
EveryEventIsPushed ==
  \A d \in Dests, e \in Events : e \in seen ~> e \in pushed[d] \/ dest[d] # "on"
=============================================================================
