----------------------------- MODULE StripeBilling -----------------------------
(***************************************************************************)
(* The Stripe mirror of one tenant: the webhook of                         *)
(* backend/app/api/v1/endpoints/stripe_webhook.py, the synchronisation in  *)
(* services/stripe_service.py and the trial expiry of                      *)
(* services/housekeeping.py.                                               *)
(*                                                                         *)
(* The webhook is one coroutine without an await after the body was read,  *)
(* so it is interleaved with nothing in its own process; the processes     *)
(* (workers and replicas) are interleaved at every query and commit.  A    *)
(* session keeps the tenant as it was loaded, and a commit writes only the *)
(* columns that differ from the loaded values.  Stripe, which is outside,  *)
(* delivers an event again until it is acknowledged, sometimes once more,  *)
(* and in any order.  All events belong to one Stripe customer.            *)
(***************************************************************************)
EXTENDS Integers, Sequences

CONSTANTS
  Processes,   \* event loops and schedulers of the server processes
  Paid,        \* the plans of PRICING
  Core,        \* the plan assumed when an event names none
  NoPlan,      \* the event carries no plan of PRICING
  Statuses,    \* what Stripe may say of a subscription
  MaxEvents,   \* bound: events Stripe sends
  MaxCrashes   \* bound: processes that die

AllStatuses == {"trialing", "active", "past_due", "canceled", "incomplete"}

ASSUME ConstantsAssumption ==
  /\ Core \in Paid /\ NoPlan \notin Paid /\ "evaluation" \notin Paid
  /\ Statuses \subseteq AllStatuses
  /\ MaxEvents \in Nat /\ MaxCrashes \in Nat

VARIABLES
  tenant,   \* Tenant.plan and Tenant.status
  rows,     \* the tenant_subscriptions rows of the tenant, oldest first
  logged,   \* the billing_events rows that carry a Stripe event
  trial,    \* Tenant.trial_ends_at: NULL, still ahead or past
  sent,     \* Stripe: the events, in the order they happened
  acked,    \* Stripe: the events that were answered with 200
  at, ev,   \* where a process stands, and the event it handles
  loaded,   \* the tenant as the session of the process holds it
  rid, row, \* the row its query returned, 0 for none, and its columns
  done,     \* auxiliary: the events whose handler did all it had to do
  starts,   \* auxiliary: how often the handler of an event was started
  orderly,  \* auxiliary: so far nothing overlapped or came out of order
  crashes   \* auxiliary: counter of the bound

tables == <<tenant, rows, logged>>
stripe == <<sent, acked>>
local  == <<at, ev, loaded, rid, row>>
aux    == <<done, starts, orderly, crashes>>
vars   == <<tables, trial, stripe, local, aux>>

TenantStatus == {"trial", "active", "past_due", "cancelled", "trial_expired"}
Tenants      == [plan : Paid \cup {"evaluation"}, status : TenantStatus]
Rows         == [plan : Paid, status : AllStatuses]
Sync         == {"change", "deleted"}     \* the events that carry a subscription
Invoice      == {"failed", "paid"}
Content      == [type : Sync, plan : Paid \cup {NoPlan}, status : Statuses]
                  \cup [type : Invoice, plan : {NoPlan}, status : {"incomplete"}]
Events       == 1 .. MaxEvents

Handling == {"logged", "queried", "downgrading"}
Location == {"idle", "resolved", "answering", "expiring"} \cup Handling

NewTenant == [plan |-> "evaluation", status |-> "active"]
NewRow == [plan |-> Core, status |-> "incomplete"]

Init ==
  /\ tenant = NewTenant /\ rows = <<>> /\ logged = {} /\ trial = "null"
  /\ sent = <<>> /\ acked = {}
  /\ at = [p \in Processes |-> "idle"]
  /\ ev = [p \in Processes |-> 0]
  /\ loaded = [p \in Processes |-> NewTenant]
  /\ rid = [p \in Processes |-> 0]
  /\ row = [p \in Processes |-> NewRow]
  /\ done = {} /\ starts = [e \in Events |-> 0]
  /\ orderly = TRUE /\ crashes = 0

Goto(p, l) == at' = [at EXCEPT ![p] = l]

Release(p) ==
  /\ Goto(p, "idle")
  /\ ev' = [ev EXCEPT ![p] = 0]
  /\ loaded' = [loaded EXCEPT ![p] = NewTenant]
  /\ rid' = [rid EXCEPT ![p] = 0]
  /\ row' = [row EXCEPT ![p] = NewRow]

Alone(p) == \A q \in Processes \ {p} : at[q] = "idle"

-----------------------------------------------------------------------------
(* Stripe and the clock                                                    *)

Emit ==
  /\ Len(sent) < MaxEvents
  /\ \E c \in Content : sent' = Append(sent, c)
  /\ UNCHANGED <<tables, trial, acked, local, aux>>

(* Nothing in the code writes trial_ends_at: who wants a trial to end sets  *)
(* it in the database.                                                      *)
SetTrialEnd ==
  /\ trial = "null"
  /\ trial' = "ahead"
  /\ UNCHANGED <<tables, stripe, local, aux>>

(* The clock passes it. *)
Lapse ==
  /\ trial = "ahead"
  /\ trial' = "past"
  /\ UNCHANGED <<tables, stripe, local, aux>>

-----------------------------------------------------------------------------
(* stripe_webhook                                                          *)

(* A subscription names its tenant in its metadata; an invoice is traced    *)
(* through the customer of a subscription row.                              *)
Attributed(e) == sent[e].type \in Sync \/ rows # <<>>

(* A process serves one delivery at a time. *)
Receive(p, e) == at[p] = "idle" /\ e \in 1 .. Len(sent)

(* _already_processed *)
Duplicate(p, e) ==
  /\ Receive(p, e) /\ e \in logged
  /\ acked' = acked \cup {e}
  /\ UNCHANGED <<tables, trial, sent, local, aux>>

(* No tenant: acknowledged and forgotten. *)
Unattributed(p, e) ==
  /\ Receive(p, e) /\ e \notin logged /\ ~Attributed(e)
  /\ acked' = acked \cup {e}
  /\ UNCHANGED <<tables, trial, sent, local, aux>>

(* _resolve_tenant loads the tenant. *)
Resolve(p, e) ==
  /\ Receive(p, e) /\ e \notin logged /\ Attributed(e)
  /\ Goto(p, "resolved")
  /\ ev' = [ev EXCEPT ![p] = e]
  /\ loaded' = [loaded EXCEPT ![p] = tenant]
  /\ orderly' = (orderly /\ Alone(p) /\ 1 .. e - 1 \subseteq logged)
  /\ UNCHANGED <<tables, trial, stripe, rid, row, done, starts, crashes>>

(* log_billing_event commits before the handler is started. *)
Log_NotUnique(p) ==
  /\ at[p] = "resolved"
  /\ logged' = logged \cup {ev[p]}
  /\ Goto(p, "logged")
  /\ starts' = [starts EXCEPT ![ev[p]] = @ + 1]
  /\ UNCHANGED <<tenant, rows, trial, stripe, ev, loaded, rid, row, done, orderly, crashes>>

Log(p) ==
  /\ at[p] = "resolved" /\ ev[p] \notin logged
  /\ logged' = logged \cup {ev[p]}
  /\ Goto(p, "logged")
  /\ starts' = [starts EXCEPT ![ev[p]] = @ + 1]
  /\ UNCHANGED <<tenant, rows, trial, stripe, ev, loaded, rid, row, done, orderly, crashes>>

(* The UNIQUE constraint of stripe_event_id refuses the row ... *)
LogRefused(p) ==
  /\ at[p] = "resolved" /\ ev[p] \in logged
  /\ Goto(p, "answering")
  /\ UNCHANGED <<tables, trial, stripe, ev, loaded, rid, row, aux>>

(* ... and every other error of log_billing_event is taken for the same,    *)
(* one that follows the commit (the refresh) included.                      *)
LogRaises_NoAnswer(p) ==
  /\ at[p] = "resolved" /\ ev[p] \notin logged
  /\ logged' \in {logged, logged \cup {ev[p]}}
  /\ Release(p)
  /\ UNCHANGED <<tenant, rows, trial, stripe, aux>>

LogRaises(p) ==
  /\ at[p] = "resolved" /\ ev[p] \notin logged
  /\ logged' \in {logged, logged \cup {ev[p]}}
  /\ Goto(p, "answering")
  /\ UNCHANGED <<tenant, rows, trial, stripe, ev, loaded, rid, row, aux>>

(* The queries of the subscription row, one of them when there are several. *)
Query(p) ==
  /\ at[p] = "logged" /\ sent[ev[p]].type # "paid"
  /\ IF rows = <<>> THEN UNCHANGED <<rid, row>>
     ELSE \E r \in 1 .. Len(rows) : /\ rid' = [rid EXCEPT ![p] = r]
                                   /\ row' = [row EXCEPT ![p] = rows[r]]
  /\ Goto(p, "queried")
  /\ UNCHANGED <<tables, trial, stripe, ev, loaded, aux>>

(* _handle_invoice_paid, and the event types without a handler *)
Ignore(p) ==
  /\ at[p] = "logged" /\ sent[ev[p]].type = "paid"
  /\ Goto(p, "answering")
  /\ done' = done \cup {ev[p]}
  /\ UNCHANGED <<tables, trial, stripe, ev, loaded, rid, row, starts, orderly, crashes>>

(* The columns of r with those written that differ from the loaded ones. *)
Merge(r, old, new) ==
  [plan |-> IF new.plan # old.plan THEN new.plan ELSE r.plan,
   status |-> IF new.status # old.status THEN new.status ELSE r.status]

(* plan_name: from the event, else the tenant's, else core *)
PlanName_IgnoresEvent(c, t) == IF t.plan \in Paid THEN t.plan ELSE Core

PlanName(c, t) ==
  IF c.plan \in Paid THEN c.plan ELSE IF t.plan \in Paid THEN t.plan ELSE Core

(* The plan and status that a subscription status gives the tenant         *)
(* ("canceled" stands also for incomplete_expired and unpaid).             *)
Mirror_KeepsPlan(t, plan, status) ==
  CASE status = "active" -> [plan |-> plan, status |-> "active"]
    [] status = "trialing" -> [plan |-> plan, status |-> "trial"]
    [] status = "past_due" -> [t EXCEPT !.status = "past_due"]
    [] status = "canceled" -> [t EXCEPT !.status = "cancelled"]
    [] OTHER -> t

Mirror(t, plan, status) ==
  CASE status = "active" -> [plan |-> plan, status |-> "active"]
    [] status = "trialing" -> [plan |-> plan, status |-> "trial"]
    [] status = "past_due" -> [t EXCEPT !.status = "past_due"]
    [] status = "canceled" -> [plan |-> "evaluation", status |-> "cancelled"]
    [] OTHER -> t

WriteTenant(p, new) ==
  /\ tenant' = Merge(tenant, loaded[p], new)
  /\ loaded' = [loaded EXCEPT ![p] = new]

WriteRow(p, new) ==
  rows' = [rows EXCEPT ![rid[p]] = Merge(@, row[p], new)]

(* sync_subscription_from_stripe: the row and the tenant in one commit.     *)
SyncRow(p) ==
  LET c == sent[ev[p]]
      plan == PlanName(c, loaded[p])
      new == [plan |-> plan, status |-> c.status]
  IN /\ at[p] = "queried" /\ c.type \in Sync
     /\ IF rid[p] = 0 THEN rows' = Append(rows, new) ELSE WriteRow(p, new)
     /\ WriteTenant(p, Mirror(loaded[p], plan, c.status))
     /\ IF c.type = "deleted"
          THEN Goto(p, "downgrading") /\ UNCHANGED done
          ELSE Goto(p, "answering") /\ done' = done \cup {ev[p]}
     /\ UNCHANGED <<logged, trial, stripe, ev, rid, row, starts, orderly, crashes>>

(* _handle_subscription_deleted: the explicit downgrade, a second commit.   *)
Downgrade(p) ==
  /\ at[p] = "downgrading"
  /\ WriteTenant(p, [plan |-> "evaluation", status |-> "cancelled"])
  /\ Goto(p, "answering")
  /\ done' = done \cup {ev[p]}
  /\ UNCHANGED <<rows, logged, trial, stripe, ev, rid, row, starts, orderly, crashes>>

(* _handle_invoice_payment_failed *)
PaymentFailed(p) ==
  /\ at[p] = "queried" /\ sent[ev[p]].type = "failed"
  /\ IF rid[p] = 0 THEN UNCHANGED rows
     ELSE WriteRow(p, [row[p] EXCEPT !.status = "past_due"])
  /\ WriteTenant(p, [loaded[p] EXCEPT !.status = "past_due"])
  /\ Goto(p, "answering")
  /\ done' = done \cup {ev[p]}
  /\ UNCHANGED <<logged, trial, stripe, ev, rid, row, starts, orderly, crashes>>

(* The handler raises: logged, and acknowledged all the same. *)
HandlerRaises(p) ==
  /\ at[p] \in Handling /\ sent[ev[p]].type # "paid"
  /\ Goto(p, "answering")
  /\ UNCHANGED <<tables, trial, stripe, ev, loaded, rid, row, aux>>

Answer(p) ==
  /\ at[p] = "answering"
  /\ acked' = acked \cup {ev[p]}
  /\ Release(p)
  /\ UNCHANGED <<tables, trial, sent, aux>>

-----------------------------------------------------------------------------
(* expire_trials: the query, then a commit for each tenant it returned.     *)
ExpireRead_TrialOnly(p) ==
  /\ at[p] = "idle"
  /\ trial = "past" /\ tenant.plan = "evaluation" /\ tenant.status = "trial"
  /\ Goto(p, "expiring")
  /\ loaded' = [loaded EXCEPT ![p] = tenant]
  /\ orderly' = (orderly /\ Alone(p))
  /\ UNCHANGED <<tables, trial, stripe, ev, rid, row, done, starts, crashes>>

ExpireRead(p) ==
  /\ at[p] = "idle"
  /\ trial = "past" /\ tenant.plan = "evaluation" /\ tenant.status \in {"trial", "active"}
  /\ Goto(p, "expiring")
  /\ loaded' = [loaded EXCEPT ![p] = tenant]
  /\ orderly' = (orderly /\ Alone(p))
  /\ UNCHANGED <<tables, trial, stripe, ev, rid, row, done, starts, crashes>>

ExpireWrite(p) ==
  /\ at[p] = "expiring"
  /\ tenant' = Merge(tenant, loaded[p], [loaded[p] EXCEPT !.status = "trial_expired"])
  /\ Release(p)
  /\ UNCHANGED <<rows, logged, trial, stripe, aux>>

(* The process dies. *)
Crash(p) ==
  /\ at[p] # "idle" /\ crashes < MaxCrashes
  /\ crashes' = crashes + 1
  /\ Release(p)
  /\ UNCHANGED <<tables, trial, stripe, done, starts, orderly>>

Deliver(p, e) == Duplicate(p, e) \/ Unattributed(p, e) \/ Resolve(p, e)

Step(p) == \/ Log(p) \/ LogRefused(p) \/ LogRaises(p) \/ Query(p) \/ Ignore(p)
           \/ SyncRow(p) \/ Downgrade(p) \/ PaymentFailed(p) \/ HandlerRaises(p)
           \/ Answer(p) \/ ExpireWrite(p)

Next ==
  \/ Emit \/ SetTrialEnd \/ Lapse
  \/ \E p \in Processes, e \in Events : Deliver(p, e)
  \/ \E p \in Processes : Step(p) \/ ExpireRead(p) \/ Crash(p)

Spec == Init /\ [][Next]_vars

(* A process that handles an event goes on, Stripe repeats an event until   *)
(* some process that is free has acknowledged it, the clock goes on and the *)
(* scheduler starts the expiry again and again.                             *)
Fairness ==
  /\ \A p \in Processes : WF_vars(Step(p))
  /\ \A e \in Events : SF_vars(\E p \in Processes : Deliver(p, e) /\ e \notin acked)
  /\ WF_vars(Lapse) /\ SF_vars(\E p \in Processes : ExpireRead(p))

FairSpec == Spec /\ Fairness

-----------------------------------------------------------------------------
(* Type invariant. *)
TypeOK ==
  /\ tenant \in Tenants /\ rows \in Seq(Rows) /\ trial \in {"null", "ahead", "past"}
  /\ sent \in Seq(Content) /\ Len(sent) <= MaxEvents
  /\ logged \subseteq Events /\ acked \subseteq Events
  /\ at \in [Processes -> Location]
  /\ ev \in [Processes -> Events \cup {0}]
  /\ loaded \in [Processes -> Tenants]
  /\ rid \in [Processes -> 0 .. Len(rows)]
  /\ row \in [Processes -> Rows]
  /\ done \subseteq Events
  /\ starts \in [Events -> Nat]
  /\ orderly \in BOOLEAN /\ crashes \in 0 .. MaxCrashes

(* The handler of an event is started at most once, in whatever processes   *)
(* its deliveries meet: the row that marks it is committed first and is     *)
(* unique.                                                                  *)
StartedOnce ==
  \A e \in Events : starts[e] <= 1 /\ (starts[e] = 1 => e \in logged)

(* A tenant is on a paid plan only if Stripe said so in an event that was   *)
(* logged: a subscription that runs, with this plan or with none named.     *)
Grants(c, plan) == /\ c.type \in Sync /\ c.status \in {"active", "trialing"}
                   /\ c.plan \in {plan, NoPlan}

PaidWithCause ==
  tenant.plan \in Paid => \E e \in logged : Grants(sent[e], tenant.plan)

(* As long as the events came one by one and in order, the tenant has what  *)
(* the last event says whose handler ended, and one row tells the same:     *)
(* what a crash, a refused commit or an exception cut short has left no     *)
(* trace, unless it was a deletion, which has two commits.                  *)
Says(c) ==
  /\ Len(rows) = 1
  /\ c.type \in Sync => rows[1].status = c.status
  /\ c.type = "deleted" \/ (c.type \in Sync /\ c.status = "canceled") =>
       tenant = [plan |-> "evaluation", status |-> "cancelled"]
  /\ c.type = "change" /\ c.status \in {"active", "trialing"} =>
       /\ tenant.plan = rows[1].plan
       /\ c.plan # NoPlan => tenant.plan = c.plan
       /\ tenant.status = IF c.status = "active" THEN "active" ELSE "trial"
  /\ c.type = "failed" \/ (c.type = "change" /\ c.status = "past_due") =>
       tenant.status = "past_due" /\ rows[1].status = "past_due"

(* A later event only reports a payment, or was lost as a whole. *)
Latest(e) ==
  \A f \in logged :
    f > e => sent[f].type = "paid" \/ (sent[f].type # "deleted" /\ f \notin done)

MirrorsInOrder == orderly => \A e \in done : Latest(e) => Says(sent[e])

(* Every event is acknowledged in the end. *)
EveryEventIsAcked ==
  \A e \in Events : e <= Len(sent) ~> e \in acked

(* A trial whose end was set expires when the end has passed, unless an     *)
(* event moves the tenant.                                                  *)
TrialExpires ==
  trial = "ahead" ~> ~(tenant.plan = "evaluation" /\ tenant.status \in {"trial", "active"})

(* What docs/BILLING.md promises: sign-up gives a trial 14 days, so a new   *)
(* tenant does not stay on the evaluation plan for ever.                    *)
TrialEnds == <>(tenant # NewTenant)
=============================================================================
