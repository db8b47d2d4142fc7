---------------------------- MODULE WebhookDelivery ----------------------------
(***************************************************************************)
(* Outbound webhooks, backend/app/services/webhook_dispatcher.py, with the *)
(* subscription endpoints of api/v1/endpoints/webhooks.py.                 *)
(*                                                                         *)
(* Every publisher dispatches its event on its own thread.  It loads the   *)
(* subscriptions once, then POSTs to them one after the other, and commits *)
(* after each: what a commit writes is computed from the copy loaded at    *)
(* the start, and SQLAlchemy writes only the columns that differ from that *)
(* copy.  The inserted delivery row refers to its subscription, so from    *)
(* the flush to the commit the database refuses to delete that             *)
(* subscription.  The event type filter is left out: a subscription that   *)
(* does not match an event is not touched by it.                           *)
(***************************************************************************)
EXTENDS Integers, FiniteSets

CONSTANTS
  Subs,         \* webhook_subscriptions rows
  Events,       \* events, each published once
  Threads,      \* request and background threads of the API
  MaxAttempts,  \* _MAX_ATTEMPTS, 7 in the code
  HardLimit,    \* consecutive failures that deactivate, 24 in the code
  MaxRetries,   \* bound: how often a delivery is retried by hand
  MaxPatches,   \* bound: how often a subscription is patched or deleted
  NoSub, NoEvent

ASSUME ConstantsAssumption ==
  /\ MaxAttempts \in Nat \ {0} /\ HardLimit \in Nat \ {0}
  /\ MaxRetries \in Nat /\ MaxPatches \in Nat
  /\ NoSub \notin Subs /\ NoEvent \notin Events

VARIABLES
  state,     \* whether the row of a subscription exists
  row,       \* its columns is_active, consecutive_failures, disabled_until
  log,       \* its webhook_deliveries rows
  at,        \* where a thread stands
  ev, num,   \* event and attempt_number of the delivery a thread makes
  todo,      \* the loaded subscriptions a thread has not come to yet
  cur,       \* the subscription of the delivery in flight
  copy,      \* the columns as the thread loaded them
  failed,    \* auxiliary: how many failed deliveries were committed
  published, \* events that were published
  selected,  \* auxiliary: the subscriptions an event should reach
  crashed,   \* auxiliary: events whose thread died
  retries, patches,  \* auxiliary: counters of the bounds
  naive      \* the database returns timestamps without a zone (SQLite), constant

tables == <<state, row, log>>
local  == <<at, ev, num, todo, cur, copy>>
aux    == <<failed, published, selected, crashed, retries, patches, naive>>
vars   == <<tables, local, aux>>

Until    == {"none", "future", "past"}     \* disabled_until against the clock
Columns  == [active : BOOLEAN, failures : Nat, until : Until]
Result   == {"ok", "failed", "unsigned"}
Delivery == [event : Events, n : Nat \ {0}, result : Result]
InFlight == {"sending", "accepted", "rejected"}
Patching == {"enabling", "disabling"}

Fresh == [active |-> TRUE, failures |-> 0, until |-> "none"]

Init ==
  /\ state = [s \in Subs |-> "absent"]
  /\ row = [s \in Subs |-> Fresh]
  /\ log = [s \in Subs |-> {}]
  /\ at = [t \in Threads |-> "idle"]
  /\ ev = [t \in Threads |-> NoEvent]
  /\ num = [t \in Threads |-> 1]
  /\ todo = [t \in Threads |-> {}]
  /\ cur = [t \in Threads |-> NoSub]
  /\ copy = [t \in Threads |-> [s \in Subs |-> Fresh]]
  /\ failed = [s \in Subs |-> 0]
  /\ published = {}
  /\ selected = [e \in Events |-> {}]
  /\ crashed = {} /\ retries = 0 /\ patches = 0 /\ naive \in BOOLEAN

Live(s)   == state[s] = "live"
Locked(s) == \E t \in Threads : at[t] \in InFlight /\ cur[t] = s

Place(t, l, e, n, ss, s) ==
  /\ at' = [at EXCEPT ![t] = l]
  /\ ev' = [ev EXCEPT ![t] = e]
  /\ num' = [num EXCEPT ![t] = n]
  /\ todo' = [todo EXCEPT ![t] = ss]
  /\ cur' = [cur EXCEPT ![t] = s]

Load(t) == copy' = [copy EXCEPT ![t] = row]

Release(t) ==
  /\ Place(t, "idle", NoEvent, 1, {}, NoSub)
  /\ copy' = [copy EXCEPT ![t] = [s \in Subs |-> Fresh]]

(* On to the next loaded subscription, or out of the loop. *)
Advance(t, s) ==
  IF todo[t] = {s} THEN Release(t)
  ELSE /\ Place(t, "loop", ev[t], num[t], todo[t] \ {s}, NoSub)
       /\ UNCHANGED copy

-----------------------------------------------------------------------------
(* publish -> dispatch_for_event, and the loop over the subscriptions      *)

(* The active subscriptions are selected and loaded. *)
Dispatch(t, e) ==
  LET subs == {s \in Subs : Live(s) /\ row[s].active}
  IN /\ at[t] = "idle"
     /\ e \notin published
     /\ published' = published \cup {e}
     /\ selected' = [selected EXCEPT ![e] =
                       {s \in subs : row[s].until # "future"}]
     /\ IF subs = {} THEN UNCHANGED local
        ELSE Place(t, "loop", e, 1, subs, NoSub) /\ Load(t)
     /\ UNCHANGED <<tables, failed, crashed, retries, patches, naive>>

(* if sub.disabled_until and sub.disabled_until > now: continue *)
Skip(t, s) ==
  /\ at[t] = "loop" /\ s \in todo[t] /\ num[t] = 1
  /\ ~naive /\ copy[t][s].until = "future"
  /\ Advance(t, s)
  /\ UNCHANGED <<tables, aux>>

(* The same comparison raises TypeError when the loaded timestamp has no    *)
(* zone: nothing in the loop catches it.                                    *)
SkipRaises(t, s) ==
  /\ at[t] = "loop" /\ s \in todo[t] /\ num[t] = 1
  /\ naive /\ copy[t][s].until # "none"
  /\ Release(t)
  /\ UNCHANGED <<tables, aux>>

(* deliver() is reached: by the loop, or by a retry, which does not look at *)
(* disabled_until.                                                          *)
Reaches(t, s) ==
  /\ at[t] = "loop" /\ s \in todo[t]
  /\ num[t] = 1 => IF naive THEN copy[t][s].until = "none"
                   ELSE copy[t][s].until # "future"

(* The subscription is gone: the flush fails on the foreign key, and the    *)
(* session refuses every later statement, so the rest of the loop is lost.  *)
InsertFails(t, s) ==
  /\ Reaches(t, s) /\ ~Live(s)
  /\ Release(t)
  /\ UNCHANGED <<tables, aux>>

Entry(t, result) == [event |-> ev[t], n |-> num[t], result |-> result]

(* Mutant: a secret that cannot be decrypted ends the loop. *)
UnsignedEnds(t, s) ==
  /\ Reaches(t, s) /\ Live(s)
  /\ Release(t)
  /\ UNCHANGED <<tables, aux>>

(* The secret cannot be decrypted: the row is written without a POST. *)
Unsigned(t, s) ==
  /\ Reaches(t, s) /\ Live(s)
  /\ log' = [log EXCEPT ![s] = @ \cup {Entry(t, "unsigned")}]
  /\ Advance(t, s)
  /\ UNCHANGED <<state, row, aux>>

(* db.add(delivery); db.flush() *)
Flush(t, s) ==
  /\ Reaches(t, s) /\ Live(s)
  /\ Place(t, "sending", ev[t], num[t], todo[t], s)
  /\ UNCHANGED <<tables, copy, aux>>

(* client.post: a 2xx, or anything else and every transport error. *)
Post(t) ==
  /\ at[t] = "sending"
  /\ \E l \in {"accepted", "rejected"} :
       Place(t, l, ev[t], num[t], todo[t], cur[t])
  /\ UNCHANGED <<tables, copy, aux>>

(* Mutant: the last attempt counted one too early. *)
OutOfBudgetEarly(n) == n >= MaxAttempts - 1

(* attempt_number < _MAX_ATTEMPTS schedules a retry, otherwise a pause. *)
OutOfBudget(n) == n >= MaxAttempts

(* Mutant: the limit compared one too early. *)
TooManyEarly(f) == f >= HardLimit - 1

(* consecutive_failures >= 24 *)
TooMany(f) == f >= HardLimit

(* Mutant: the counter decays on a success instead of being reset. *)
SuccessDecays(c) == [c EXCEPT !.failures = @ - 1, !.until = "none"]

(* Mutant: every outcome counts as a failure. *)
SuccessCounts(c) == [c EXCEPT !.failures = @ + 1, !.until = "none"]

(* What the loaded object holds after a 2xx was noted on it ... *)
Success(c) == [c EXCEPT !.failures = 0, !.until = "none"]

(* ... and after any other outcome of attempt n. *)
Failure(c, n) == [active |-> c.active /\ ~TooMany(c.failures + 1),
                  failures |-> c.failures + 1,
                  until |-> IF OutOfBudget(n) THEN "future" ELSE c.until]

(* db.commit(): of the row only the columns that were changed on the loaded *)
(* object are written; a pause is a new timestamp, so it always is.         *)
Changed(loaded, noted) == {k \in DOMAIN noted : noted[k] # loaded[k]}

Merge(r, noted, ks) ==
  LET new(k) == IF k \in ks THEN noted[k] ELSE r[k]
  IN [active |-> new("active"), failures |-> new("failures"), until |-> new("until")]

Write(s, noted, ks) == row' = [row EXCEPT ![s] = Merge(@, noted, ks)]

Paused(t, ok) == IF ~ok /\ OutOfBudget(num[t]) THEN {"until"} ELSE {}

Commit(t) ==
  LET s == cur[t]
      ok == at[t] = "accepted"
      noted == IF ok THEN Success(copy[t][s]) ELSE Failure(copy[t][s], num[t])
  IN /\ at[t] \in {"accepted", "rejected"}
     /\ Write(s, noted, Changed(copy[t][s], noted) \cup Paused(t, ok))
     /\ log' = [log EXCEPT ![s] = @ \cup {Entry(t, IF ok THEN "ok" ELSE "failed")}]
     /\ failed' = [failed EXCEPT ![s] = IF ok THEN @ ELSE @ + 1]
     /\ Advance(t, s)
     /\ UNCHANGED <<state, published, selected, crashed, retries, patches, naive>>

(* Mutant: the attempts are numbered by the failures of the subscription. *)
RetryByFailures(t, s) ==
  /\ at[t] = "idle" /\ retries < MaxRetries
  /\ Live(s) /\ row[s].active
  /\ \E d \in log[s] : Place(t, "loop", d.event, row[s].failures + 2, {s}, NoSub)
  /\ Load(t)
  /\ retries' = retries + 1
  /\ UNCHANGED <<tables, failed, published, selected, crashed, patches, naive>>

(* POST /webhooks/deliveries/{id}/retry -> retry_delivery: any recorded     *)
(* delivery of an active subscription, whatever became of it.               *)
Retry(t, s) ==
  /\ at[t] = "idle" /\ retries < MaxRetries
  /\ Live(s) /\ row[s].active
  /\ \E d \in log[s] : Place(t, "loop", d.event, d.n + 1, {s}, NoSub)
  /\ Load(t)
  /\ retries' = retries + 1
  /\ UNCHANGED <<tables, failed, published, selected, crashed, patches, naive>>

-----------------------------------------------------------------------------
(* The subscription endpoints, the clock and the process                   *)

Create(s) ==
  /\ state[s] = "absent"
  /\ state' = [state EXCEPT ![s] = "live"]
  /\ \E a \in BOOLEAN : row' = [row EXCEPT ![s].active = a]
  /\ UNCHANGED <<log, local, aux>>

(* PATCH {"is_active": ...}: db.get, then the commit of what it changed. *)
PatchLoad(t, s) ==
  /\ at[t] = "idle" /\ Live(s) /\ patches < MaxPatches
  /\ \E l \in Patching : Place(t, l, NoEvent, 1, {}, s)
  /\ Load(t)
  /\ patches' = patches + 1
  /\ UNCHANGED <<tables, failed, published, selected, crashed, retries, naive>>

(* The update of a row that is gone raises. *)
PatchCommit(t) ==
  LET s == cur[t]
      noted == IF at[t] = "enabling" THEN Fresh
               ELSE [copy[t][s] EXCEPT !.active = FALSE]
  IN /\ at[t] \in Patching
     /\ IF Live(s) THEN Write(s, noted, Changed(copy[t][s], noted))
                   ELSE UNCHANGED row
     /\ Release(t)
     /\ UNCHANGED <<state, log, aux>>

(* DELETE: the deliveries go with their subscription. *)
Delete(s) ==
  /\ Live(s) /\ ~Locked(s) /\ patches < MaxPatches
  /\ state' = [state EXCEPT ![s] = "deleted"]
  /\ row' = [row EXCEPT ![s] = Fresh]
  /\ log' = [log EXCEPT ![s] = {}]
  /\ patches' = patches + 1
  /\ UNCHANGED <<local, failed, published, selected, crashed, retries, naive>>

(* The 24 hours of a pause pass. *)
PauseExpires(s) ==
  /\ row[s].until = "future"
  /\ row' = [row EXCEPT ![s].until = "past"]
  /\ UNCHANGED <<state, log, local, aux>>

(* The process dies, or a database call of the thread raises. *)
Crash(t) ==
  /\ at[t] # "idle"
  /\ crashed' = IF num[t] = 1 THEN crashed \cup ({ev[t]} \ {NoEvent}) ELSE crashed
  /\ Release(t)
  /\ UNCHANGED <<tables, failed, published, selected, retries, patches, naive>>

Loop(t, s) == \/ Skip(t, s) \/ SkipRaises(t, s) \/ InsertFails(t, s)
              \/ Unsigned(t, s) \/ Flush(t, s)

ThreadStep(t) == (\E s \in Subs : Loop(t, s)) \/ Post(t) \/ Commit(t) \/ PatchCommit(t)

Next ==
  \/ \E t \in Threads : ThreadStep(t) \/ Crash(t)
  \/ \E t \in Threads, e \in Events : Dispatch(t, e)
  \/ \E t \in Threads, s \in Subs : Retry(t, s) \/ PatchLoad(t, s)
  \/ \E s \in Subs : Create(s) \/ Delete(s) \/ PauseExpires(s)

Spec == Init /\ [][Next]_vars

-----------------------------------------------------------------------------
(* Type invariant. *)
TypeOK ==
  /\ state \in [Subs -> {"absent", "live", "deleted"}]
  /\ row \in [Subs -> Columns]
  /\ log \in [Subs -> SUBSET Delivery]
  /\ at \in [Threads -> {"idle", "loop"} \cup InFlight \cup Patching]
  /\ ev \in [Threads -> Events \cup {NoEvent}]
  /\ num \in [Threads -> Nat \ {0}]
  /\ todo \in [Threads -> SUBSET Subs]
  /\ cur \in [Threads -> Subs \cup {NoSub}]
  /\ copy \in [Threads -> [Subs -> Columns]]
  /\ failed \in [Subs -> Nat]
  /\ selected \in [Events -> SUBSET Subs]
  /\ published \subseteq Events /\ crashed \subseteq Events
  /\ retries \in 0 .. MaxRetries /\ patches \in 0 .. MaxPatches /\ naive \in BOOLEAN

(* However stale the copies are, the counter never exceeds the number of    *)
(* failed deliveries that were really committed: increments may be lost,    *)
(* none is invented.                                                        *)
FailuresAreReal ==
  \A s \in Subs : /\ row[s].failures <= failed[s]
                  /\ \A t \in Threads : copy[t][s].failures <= failed[s]

(* A subscription stops being active only when an administrator says so, or *)
(* after at least HardLimit failed deliveries, although the counter that    *)
(* decides it is a stale copy plus one.                                     *)
DeactivatedWithCause ==
  [][\A s \in Subs : Live(s) /\ state'[s] = "live" /\ row[s].active /\ ~row'[s].active =>
       \/ failed'[s] >= HardLimit
       \/ \E t \in Threads : at[t] = "disabling" /\ cur[t] = s]_vars

(* A subscription is paused only while the failed delivery that used up the *)
(* retry budget is on record.                                               *)
UsedUp(s) == \E d \in log[s] : d.n >= MaxAttempts /\ d.result = "failed"

PausedWithCause == \A s \in Subs : row[s].until # "none" => UsedUp(s)

(* A retry continues a recorded delivery: the attempts of an event at a     *)
(* subscription are numbered without a gap, in the rows and in flight.      *)
Recorded(s, e, n) == \E d \in log[s] : d.event = e /\ d.n = n

AttemptChain ==
  /\ \A s \in Subs : \A d \in log[s] : d.n > 1 => Recorded(s, d.event, d.n - 1)
  /\ \A t \in Threads : at[t] \in InFlight /\ num[t] > 1 =>
       Recorded(cur[t], ev[t], num[t] - 1)

(* An event whose dispatch is over was tried on every subscription that was *)
(* active and not paused when it was published, unless the dispatching      *)
(* thread died, one of those subscriptions was deleted meanwhile or, where  *)
(* timestamps have no zone, some subscription had used up its budget.       *)
Dispatched(e) == e \in published /\ ~\E t \in Threads : ev[t] = e /\ num[t] = 1

NoSilentLoss ==
  \A e \in Events : Dispatched(e) /\ e \notin crashed =>
    \/ \A s \in selected[e] : Recorded(s, e, 1)
    \/ \E s \in selected[e] : state[s] = "deleted"
    \/ naive /\ \E s \in Subs : UsedUp(s) \/ state[s] = "deleted"

(* What the thread of a handler works on: an event, and a subscription that *)
(* the foreign key of the inserted row keeps from being deleted.            *)
HandlerSub ==
  \A t \in Threads :
    /\ at[t] \in {"loop"} \cup InFlight => ev[t] \in Events
    /\ at[t] \in InFlight \cup Patching => cur[t] \in Subs
    /\ at[t] \in InFlight => Live(cur[t])
    /\ \A s \in todo[t] : state[s] # "absent"

(* AttemptChain, and for a thread that retries: it has one subscription,    *)
(* and before its flush the delivery it continues is there unless it went   *)
(* with that subscription.                                                  *)
Retries(t) == at[t] \in {"loop"} \cup InFlight /\ num[t] > 1

ChainInv ==
  /\ AttemptChain
  /\ \A t \in Threads : Retries(t) =>
       \E s \in Subs :
         /\ todo[t] = {s}
         /\ at[t] \in InFlight => cur[t] = s
         /\ at[t] = "loop" /\ Live(s) => Recorded(s, ev[t], num[t] - 1)

(* The inductive invariant behind FailuresAreReal, PausedWithCause,         *)
(* AttemptChain and DeactivatedWithCause.                                   *)
DeliveryInv ==
  TypeOK /\ HandlerSub /\ FailuresAreReal /\ PausedWithCause /\ ChainInv

-----------------------------------------------------------------------------
(* What the repository says of the dispatcher and the code does not do.    *)

(* docs/WEBHOOKS.md: several receivers are independent, one failing does    *)
(* not affect the others.  So one that never failed is tried with every     *)
(* event whose dispatch ended.                                              *)
Independent ==
  \A e \in Events : Dispatched(e) /\ e \notin crashed =>
    \A s \in selected[e] : Live(s) /\ failed[s] = 0 => Recorded(s, e, 1)
=============================================================================
