------------------------- MODULE StripeBillingProofs -------------------------
(***************************************************************************)
(* What the Stripe mirror guarantees for any number of processes, events,  *)
(* plans and crashes, although every commit is computed from columns that  *)
(* may be stale.                                                           *)
(***************************************************************************)
EXTENDS StripeBilling, SequenceTheorems, TLAPS

(* What a subscription status gives the tenant is a value of the table, and *)
(* a paid plan is the one offered or the one the tenant had.                *)
LEMMA MirrorTenants ==
  ASSUME NEW t \in Tenants, NEW plan \in Paid, NEW status \in AllStatuses
  PROVE  /\ Mirror(t, plan, status) \in Tenants
         /\ Mirror(t, plan, status).plan \in Paid =>
              \/ Mirror(t, plan, status).plan = t.plan
              \/ status \in {"active", "trialing"} /\ Mirror(t, plan, status).plan = plan
<1>1. CASE status = "active"
  BY <1>1 DEF Mirror, Tenants, TenantStatus
<1>2. CASE status = "trialing"
  BY <1>2 DEF Mirror, Tenants, TenantStatus
<1>3. CASE status = "past_due"
  BY <1>3 DEF Mirror, Tenants, TenantStatus
<1>4. CASE status = "canceled"
  BY <1>4, ConstantsAssumption DEF Mirror, Tenants, TenantStatus
<1>5. CASE status = "incomplete"
  BY <1>5 DEF Mirror, Tenants, TenantStatus
<1> QED
  BY <1>1, <1>2, <1>3, <1>4, <1>5 DEF AllStatuses

(* The plan of an event is one of PRICING, and if the event named one it is *)
(* that one.                                                                *)
LEMMA PlanNamePaid ==
  ASSUME NEW c, NEW t
  PROVE  /\ PlanName(c, t) \in Paid
         /\ c.plan \in Paid => PlanName(c, t) = c.plan
  BY ConstantsAssumption DEF PlanName

(* A commit takes each column from the old row or from the session.         *)
LEMMA MergeTenants ==
  ASSUME NEW r \in Tenants, NEW old \in Tenants, NEW new \in Tenants
  PROVE  /\ Merge(r, old, new) \in Tenants
         /\ Merge(r, old, new).plan \in {r.plan, new.plan}
  BY DEF Merge, Tenants

LEMMA MergeRows ==
  ASSUME NEW r \in Rows, NEW old \in Rows, NEW new \in Rows
  PROVE  Merge(r, old, new) \in Rows
  BY DEF Merge, Rows

(* A commit from a copy that is up to date writes what was noted on it.     *)
LEMMA MergeFresh ==
  /\ \A r, new \in Tenants : Merge(r, r, new) = new
  /\ \A r, new \in Rows : Merge(r, r, new) = new
<1>1. ASSUME NEW r \in Tenants, NEW new \in Tenants PROVE Merge(r, r, new) = new
  BY DEF Merge, Tenants
<1>2. ASSUME NEW r \in Rows, NEW new \in Rows PROVE Merge(r, r, new) = new
  BY DEF Merge, Rows
<1> QED BY <1>1, <1>2

(* A row that is replaced or added leaves a table of rows. *)
LEMMA ReplaceRow ==
  ASSUME NEW s \in Seq(Rows), NEW i \in 1 .. Len(s), NEW r \in Rows
  PROVE  [s EXCEPT ![i] = r] \in Seq(Rows) /\ Len([s EXCEPT ![i] = r]) = Len(s)
  BY ExceptSeq

LEMMA AddRow ==
  ASSUME NEW s \in Seq(Rows), NEW r \in Rows
  PROVE  Append(s, r) \in Seq(Rows) /\ Len(Append(s, r)) = Len(s) + 1
  BY AppendProperties

(* What an event may carry. *)
LEMMA ContentFields ==
  ASSUME NEW c \in Content
  PROVE  /\ c.type \in Sync \cup Invoice
         /\ c.plan \in Paid \cup {NoPlan}
         /\ c.status \in AllStatuses
  BY ConstantsAssumption DEF Content, Sync, Invoice, AllStatuses

-----------------------------------------------------------------------------
(* A process that has taken up an event works on one that was sent.         *)
Busy == \A p \in Processes :
          at[p] \notin {"idle", "expiring"} => ev[p] \in 1 .. Len(sent)

TypeInv == TypeOK /\ Busy

LEMMA BusyEvent ==
  ASSUME TypeInv, NEW p \in Processes, at[p] \notin {"idle", "expiring"}
  PROVE  /\ ev[p] \in 1 .. Len(sent) /\ ev[p] \in Events
         /\ sent[ev[p]] \in Content /\ logged \cup {ev[p]} \subseteq Events
         /\ done \cup {ev[p]} \subseteq Events
<1>1. ev[p] \in 1 .. Len(sent) /\ sent \in Seq(Content) /\ Len(sent) <= MaxEvents
  BY DEF TypeInv, TypeOK, Busy
<1>2. ev[p] \in Events
  BY <1>1, LenProperties, ConstantsAssumption DEF Events
<1>3. sent[ev[p]] \in Content
  BY <1>1, ElementOfSeq
<1> QED
  BY <1>1, <1>2, <1>3 DEF TypeInv, TypeOK

(* A process that goes on with its event stays at a place of the program.   *)
LEMMA GotoTypes ==
  ASSUME TypeInv, NEW p \in Processes, NEW l \in Location, Goto(p, l)
  PROVE  /\ at' \in [Processes -> Location]
         /\ at'[p] = l /\ \A q \in Processes \ {p} : at'[q] = at[q]
  BY DEF TypeInv, TypeOK, Goto

LEMMA ReleaseTypes ==
  ASSUME TypeInv, NEW p \in Processes, Release(p)
  PROVE  /\ at' \in [Processes -> Location] /\ ev' \in [Processes -> Events \cup {0}]
         /\ loaded' \in [Processes -> Tenants]
         /\ rid' \in [Processes -> 0 .. Len(rows)] /\ row' \in [Processes -> Rows]
         /\ sent' = sent => Busy'
<1>1. NewTenant \in Tenants /\ NewRow \in Rows
  BY ConstantsAssumption DEF NewTenant, NewRow, Tenants, TenantStatus, Rows, AllStatuses
<1>2. Len(rows) \in Nat
  BY DEF TypeInv, TypeOK
<1> QED
  BY <1>1, <1>2 DEF TypeInv, TypeOK, Busy, Release, Goto, Location

LEMMA InitTypes == Init => TypeInv
<1> SUFFICES ASSUME Init PROVE TypeInv
  OBVIOUS
<1>1. NewTenant \in Tenants /\ NewRow \in Rows
  BY ConstantsAssumption DEF NewTenant, NewRow, Tenants, TenantStatus, Rows, AllStatuses
<1>2. rows = <<>> /\ rows \in Seq(Rows) /\ Len(rows) = 0
  BY DEF Init
<1>3. sent = <<>> /\ sent \in Seq(Content) /\ Len(sent) = 0
  BY DEF Init
<1>4. /\ at \in [Processes -> Location] /\ ev \in [Processes -> Events \cup {0}]
      /\ rid \in [Processes -> 0 .. Len(rows)]
      /\ starts \in [Events -> Nat] /\ Busy
  BY <1>2 DEF Init, Location, Busy
<1>5. /\ loaded \in [Processes -> Tenants] /\ row \in [Processes -> Rows]
      /\ tenant \in Tenants
  BY <1>1 DEF Init
<1>6. crashes \in 0 .. MaxCrashes /\ Len(sent) <= MaxEvents
  BY <1>3, ConstantsAssumption DEF Init
<1> QED
  BY <1>2, <1>3, <1>4, <1>5, <1>6 DEF Init, TypeInv, TypeOK

(* The steps of a handler that commit a tenant and a subscription row.      *)
LEMMA SyncRowTypes ==
  ASSUME TypeInv, NEW p \in Processes, SyncRow(p)
  PROVE  TypeInv'
<1> DEFINE c == sent[ev[p]]
           plan == PlanName(c, loaded[p])
           new == [plan |-> plan, status |-> c.status]
           mirror == Mirror(loaded[p], plan, c.status)
<1>1. /\ ev[p] \in 1 .. Len(sent) /\ c \in Content
      /\ loaded[p] \in Tenants /\ tenant \in Tenants /\ row[p] \in Rows
      /\ rid[p] \in 0 .. Len(rows) /\ Len(rows) \in Nat
  <2>1. ev[p] \in 1 .. Len(sent) /\ sent \in Seq(Content)
    BY DEF TypeInv, TypeOK, Busy, SyncRow
  <2>2. c \in Content
    BY <2>1, ElementOfSeq
  <2> QED
    BY <2>1, <2>2 DEF TypeInv, TypeOK
<1>2. plan \in Paid /\ c.status \in AllStatuses
  BY <1>1, PlanNamePaid, ContentFields
<1>3. new \in Rows
  BY <1>2 DEF Rows
<1>4. mirror \in Tenants
  BY <1>1, <1>2, MirrorTenants
<1>5. /\ tenant' = Merge(tenant, loaded[p], mirror)
      /\ loaded' = [loaded EXCEPT ![p] = mirror]
  BY DEF SyncRow, WriteTenant
<1>6. IF rid[p] = 0 THEN rows' = Append(rows, new)
      ELSE rows' = [rows EXCEPT ![rid[p]] = Merge(rows[rid[p]], row[p], new)]
  BY DEF SyncRow, WriteRow
<1> HIDE DEF new, mirror
<1>7. tenant' \in Tenants /\ loaded' \in [Processes -> Tenants]
  BY <1>1, <1>4, <1>5, MergeTenants DEF TypeInv, TypeOK
<1>8. rows' \in Seq(Rows) /\ Len(rows') >= Len(rows)
  <2>1. CASE rid[p] = 0
    <3>1. rows \in Seq(Rows) /\ rows' = Append(rows, new)
      BY <2>1, <1>6 DEF TypeInv, TypeOK
    <3>2. rows' \in Seq(Rows) /\ Len(rows') = Len(rows) + 1
      BY <3>1, <1>3, AddRow
    <3> QED
      BY <3>2, <1>1
  <2>2. CASE rid[p] # 0
    <3>1. rid[p] \in 1 .. Len(rows) /\ rows[rid[p]] \in Rows
      BY <2>2, <1>1 DEF TypeInv, TypeOK
    <3>2. Merge(rows[rid[p]], row[p], new) \in Rows
      BY <3>1, <1>1, <1>3, MergeRows
    <3> QED
      <4>1. /\ rows \in Seq(Rows)
            /\ rows' = [rows EXCEPT ![rid[p]] = Merge(rows[rid[p]], row[p], new)]
        BY <2>2, <1>6 DEF TypeInv, TypeOK
      <4>2. rows' \in Seq(Rows) /\ Len(rows') = Len(rows)
        BY <4>1, <3>1, <3>2, ReplaceRow
      <4> QED
        BY <4>2, <1>1
  <2> QED
    BY <2>1, <2>2
<1>9. /\ at' \in [Processes -> Location] /\ done' \subseteq Events
      /\ at'[p] \in {"answering", "downgrading"}
      /\ \A q \in Processes \ {p} : at'[q] = at[q]
  <2>1. at[p] = "queried" /\ (done' = done \/ done' = done \cup {ev[p]})
    BY DEF SyncRow
  <2>2. Goto(p, "downgrading") \/ Goto(p, "answering")
    BY DEF SyncRow
  <2>3. done' \subseteq Events
    BY <2>1, BusyEvent DEF TypeInv, TypeOK
  <2> QED
    BY <2>2, <2>3, GotoTypes DEF Location, Handling
<1>10. rid' \in [Processes -> 0 .. Len(rows')]
  BY <1>1, <1>8 DEF SyncRow, TypeInv, TypeOK
<1>11. UNCHANGED <<logged, trial, sent, acked, ev, row, starts, orderly, crashes>>
  BY DEF SyncRow, stripe
<1>12. Busy'
  BY <1>1, <1>9, <1>11 DEF TypeInv, Busy
<1> QED
  BY <1>7, <1>8, <1>9, <1>10, <1>11, <1>12 DEF TypeInv, TypeOK

LEMMA PaymentFailedTypes ==
  ASSUME TypeInv, NEW p \in Processes, PaymentFailed(p)
  PROVE  TypeInv'
<1> DEFINE newrow == [row[p] EXCEPT !.status = "past_due"]
           new == [loaded[p] EXCEPT !.status = "past_due"]
<1>0. Len(rows) \in Nat
  BY LenProperties DEF TypeInv, TypeOK
<1>1. /\ ev[p] \in 1 .. Len(sent)
      /\ loaded[p] \in Tenants /\ tenant \in Tenants /\ row[p] \in Rows
      /\ rid[p] \in 0 .. Len(rows) /\ Len(rows) \in Nat
  BY <1>0 DEF TypeInv, TypeOK, Busy, PaymentFailed
<1>2. newrow \in Rows /\ new \in Tenants
  BY <1>1 DEF Rows, AllStatuses, Tenants, TenantStatus
<1>3. /\ tenant' = Merge(tenant, loaded[p], new)
      /\ loaded' = [loaded EXCEPT ![p] = new]
      /\ IF rid[p] = 0 THEN UNCHANGED rows
         ELSE rows' = [rows EXCEPT ![rid[p]] = Merge(rows[rid[p]], row[p], newrow)]
  BY DEF PaymentFailed, WriteTenant, WriteRow
<1> HIDE DEF newrow, new
<1>4. tenant' \in Tenants /\ loaded' \in [Processes -> Tenants]
  BY <1>1, <1>2, <1>3, MergeTenants DEF TypeInv, TypeOK
<1>5. rows' \in Seq(Rows) /\ Len(rows') = Len(rows)
  <2>1. CASE rid[p] = 0
    BY <2>1, <1>3 DEF TypeInv, TypeOK
  <2>2. CASE rid[p] # 0
    <3>1. rid[p] \in 1 .. Len(rows) /\ rows[rid[p]] \in Rows
      BY <2>2, <1>1 DEF TypeInv, TypeOK
    <3>2. Merge(rows[rid[p]], row[p], newrow) \in Rows
      BY <3>1, <1>1, <1>2, MergeRows
    <3> QED
      <4>1. /\ rows \in Seq(Rows)
            /\ rows' = [rows EXCEPT ![rid[p]] = Merge(rows[rid[p]], row[p], newrow)]
        BY <2>2, <1>3 DEF TypeInv, TypeOK
      <4> QED
        BY <4>1, <3>1, <3>2, ReplaceRow
  <2> QED
    BY <2>1, <2>2
<1>6. /\ at' \in [Processes -> Location] /\ done' \subseteq Events
      /\ at'[p] = "answering" /\ \A q \in Processes \ {p} : at'[q] = at[q]
  BY BusyEvent, GotoTypes DEF PaymentFailed, Location, Handling
<1>7. UNCHANGED <<logged, trial, sent, acked, ev, rid, row, starts, orderly, crashes>>
  BY DEF PaymentFailed, stripe
<1>8. Busy'
  BY <1>1, <1>6, <1>7 DEF TypeInv, Busy
<1> QED
  BY <1>4, <1>5, <1>6, <1>7, <1>8 DEF TypeInv, TypeOK

LEMMA DowngradeTypes ==
  ASSUME TypeInv, NEW p \in Processes, Downgrade(p)
  PROVE  TypeInv'
<1> DEFINE new == [plan |-> "evaluation", status |-> "cancelled"]
<1>1. ev[p] \in 1 .. Len(sent) /\ loaded[p] \in Tenants /\ tenant \in Tenants
  BY DEF TypeInv, TypeOK, Busy, Downgrade
<1>2. new \in Tenants
  BY DEF Tenants, TenantStatus
<1>3. /\ tenant' = Merge(tenant, loaded[p], new)
      /\ loaded' = [loaded EXCEPT ![p] = new]
  BY DEF Downgrade, WriteTenant
<1> HIDE DEF new
<1>4. tenant' \in Tenants /\ loaded' \in [Processes -> Tenants]
  BY <1>1, <1>2, <1>3, MergeTenants DEF TypeInv, TypeOK
<1>5. /\ at' \in [Processes -> Location] /\ done' \subseteq Events
      /\ at'[p] = "answering" /\ \A q \in Processes \ {p} : at'[q] = at[q]
  BY BusyEvent, GotoTypes DEF Downgrade, Location, Handling
<1>6. UNCHANGED <<rows, logged, trial, sent, acked, ev, rid, row, starts, orderly, crashes>>
  BY DEF Downgrade, stripe
<1>7. Busy'
  BY <1>1, <1>5, <1>6 DEF TypeInv, Busy
<1> QED
  BY <1>4, <1>5, <1>6, <1>7 DEF TypeInv, TypeOK

LEMMA TypeStep == TypeInv /\ [Next]_vars => TypeInv'
<1> SUFFICES ASSUME TypeInv, [Next]_vars PROVE TypeInv'
  OBVIOUS
<1> USE DEF tables, stripe, aux
<1>1. CASE Emit
  <2>1. PICK c \in Content : sent' = Append(sent, c)
    BY <1>1 DEF Emit
  <2>2. sent \in Seq(Content) /\ Len(sent) \in Nat
    BY LenProperties DEF TypeInv, TypeOK
  <2>3. sent' \in Seq(Content) /\ Len(sent') = Len(sent) + 1
    BY <2>1, <2>2, AppendProperties
  <2>4. Len(sent') <= MaxEvents
    BY <1>1, <2>2, <2>3, ConstantsAssumption DEF Emit
  <2>5. Busy'
    BY <1>1, <2>2, <2>3 DEF Emit, local, TypeInv, Busy
  <2> QED
    BY <1>1, <2>3, <2>4, <2>5 DEF Emit, local, TypeInv, TypeOK
<1>2. CASE SetTrialEnd \/ Lapse
  BY <1>2 DEF SetTrialEnd, Lapse, local, TypeInv, TypeOK, Busy
<1>3. ASSUME NEW p \in Processes, NEW e \in Events, Duplicate(p, e) PROVE TypeInv'
  BY <1>3 DEF Duplicate, local, TypeInv, TypeOK, Busy
<1>4. ASSUME NEW p \in Processes, NEW e \in Events, Unattributed(p, e) PROVE TypeInv'
  BY <1>4 DEF Unattributed, local, TypeInv, TypeOK, Busy
<1>5. ASSUME NEW p \in Processes, NEW e \in Events, Resolve(p, e) PROVE TypeInv'
  <2>1. /\ at' \in [Processes -> Location]
        /\ at'[p] = "resolved" /\ \A q \in Processes \ {p} : at'[q] = at[q]
    BY <1>5, GotoTypes DEF Resolve, Location
  <2>2. /\ ev' \in [Processes -> Events \cup {0}] /\ ev'[p] = e
        /\ e \in 1 .. Len(sent) /\ \A q \in Processes \ {p} : ev'[q] = ev[q]
    BY <1>5 DEF Resolve, Receive, TypeInv, TypeOK
  <2>3. Busy'
    BY <1>5, <2>1, <2>2 DEF Resolve, TypeInv, Busy
  <2>4. loaded' \in [Processes -> Tenants] /\ orderly' \in BOOLEAN
    BY <1>5 DEF Resolve, TypeInv, TypeOK
  <2> QED
    BY <1>5, <2>1, <2>2, <2>3, <2>4 DEF Resolve, TypeInv, TypeOK
<1>6. ASSUME NEW p \in Processes, Log(p) PROVE TypeInv'
  <2>1. /\ at' \in [Processes -> Location] /\ logged' \subseteq Events
        /\ at'[p] = "logged" /\ \A q \in Processes \ {p} : at'[q] = at[q]
    BY <1>6, BusyEvent, GotoTypes DEF Log, Location, Handling
  <2>2. starts' \in [Events -> Nat]
    <3>1. ev[p] \in Events /\ starts \in [Events -> Nat]
      BY <1>6, BusyEvent DEF Log, TypeInv, TypeOK
    <3>2. starts[ev[p]] + 1 \in Nat
      BY <3>1
    <3>3. starts' = [starts EXCEPT ![ev[p]] = starts[ev[p]] + 1]
      BY <1>6 DEF Log
    <3> QED
      BY <3>1, <3>2, <3>3
  <2>3. Busy'
    BY <1>6, <2>1 DEF Log, TypeInv, Busy
  <2> QED
    BY <1>6, <2>1, <2>2, <2>3 DEF Log, TypeInv, TypeOK
<1>7. ASSUME NEW p \in Processes, LogRefused(p) PROVE TypeInv'
  <2>1. /\ at' \in [Processes -> Location]
        /\ at'[p] = "answering" /\ \A q \in Processes \ {p} : at'[q] = at[q]
    BY <1>7, GotoTypes DEF LogRefused, Location
  <2>2. Busy'
    BY <1>7, <2>1 DEF LogRefused, TypeInv, Busy
  <2> QED
    BY <1>7, <2>1, <2>2 DEF LogRefused, TypeInv, TypeOK
<1>8. ASSUME NEW p \in Processes, LogRaises(p) PROVE TypeInv'
  <2>1. /\ at' \in [Processes -> Location] /\ logged' \subseteq Events
        /\ at'[p] = "answering" /\ \A q \in Processes \ {p} : at'[q] = at[q]
    BY <1>8, BusyEvent, GotoTypes DEF LogRaises, Location
  <2>2. Busy'
    BY <1>8, <2>1 DEF LogRaises, TypeInv, Busy
  <2> QED
    BY <1>8, <2>1, <2>2 DEF LogRaises, TypeInv, TypeOK
<1>9. ASSUME NEW p \in Processes, Query(p) PROVE TypeInv'
  <2>1. /\ at' \in [Processes -> Location]
        /\ at'[p] = "queried" /\ \A q \in Processes \ {p} : at'[q] = at[q]
    BY <1>9, GotoTypes DEF Query, Location, Handling
  <2>2. rid' \in [Processes -> 0 .. Len(rows)] /\ row' \in [Processes -> Rows]
    <3>1. CASE rows = <<>>
      BY <1>9, <3>1 DEF Query, TypeInv, TypeOK
    <3>2. CASE rows # <<>>
      <4>1. PICK r \in 1 .. Len(rows) : /\ rid' = [rid EXCEPT ![p] = r]
                                        /\ row' = [row EXCEPT ![p] = rows[r]]
        BY <1>9, <3>2 DEF Query
      <4>2. rows[r] \in Rows /\ r \in 0 .. Len(rows)
        BY <4>1, ElementOfSeq, LenProperties DEF TypeInv, TypeOK
      <4> QED
        BY <4>1, <4>2 DEF TypeInv, TypeOK
    <3> QED
      BY <3>1, <3>2
  <2>3. Busy'
    BY <1>9, <2>1 DEF Query, TypeInv, Busy
  <2> QED
    BY <1>9, <2>1, <2>2, <2>3 DEF Query, TypeInv, TypeOK
<1>10. ASSUME NEW p \in Processes, Ignore(p) PROVE TypeInv'
  <2>1. /\ at' \in [Processes -> Location] /\ done' \subseteq Events
        /\ at'[p] = "answering" /\ \A q \in Processes \ {p} : at'[q] = at[q]
    BY <1>10, BusyEvent, GotoTypes DEF Ignore, Location
  <2>2. Busy'
    BY <1>10, <2>1 DEF Ignore, TypeInv, Busy
  <2> QED
    BY <1>10, <2>1, <2>2 DEF Ignore, TypeInv, TypeOK
<1>11. ASSUME NEW p \in Processes, HandlerRaises(p) PROVE TypeInv'
  <2>1. /\ at' \in [Processes -> Location]
        /\ at'[p] = "answering" /\ \A q \in Processes \ {p} : at'[q] = at[q]
    BY <1>11, GotoTypes DEF HandlerRaises, Location, Handling
  <2>2. Busy'
    BY <1>11, <2>1 DEF HandlerRaises, TypeInv, Busy, Handling
  <2> QED
    BY <1>11, <2>1, <2>2 DEF HandlerRaises, TypeInv, TypeOK
<1>12. ASSUME NEW p \in Processes, Answer(p) PROVE TypeInv'
  <2>1. acked' \subseteq Events
    BY <1>12, BusyEvent DEF Answer, TypeInv, TypeOK
  <2> QED
    BY <1>12, <2>1, ReleaseTypes DEF Answer, TypeInv, TypeOK
<1>13. ASSUME NEW p \in Processes, ExpireRead(p) PROVE TypeInv'
  <2>1. /\ at' \in [Processes -> Location]
        /\ at'[p] = "expiring" /\ \A q \in Processes \ {p} : at'[q] = at[q]
    BY <1>13, GotoTypes DEF ExpireRead, Location
  <2>2. loaded' \in [Processes -> Tenants] /\ orderly' \in BOOLEAN
    BY <1>13 DEF ExpireRead, TypeInv, TypeOK
  <2>3. Busy'
    BY <1>13, <2>1 DEF ExpireRead, TypeInv, Busy
  <2> QED
    BY <1>13, <2>1, <2>2, <2>3 DEF ExpireRead, TypeInv, TypeOK
<1>14. ASSUME NEW p \in Processes, ExpireWrite(p) PROVE TypeInv'
  <2>1. loaded[p] \in Tenants /\ [loaded[p] EXCEPT !.status = "trial_expired"] \in Tenants
    BY DEF TypeInv, TypeOK, Tenants, TenantStatus
  <2>2. tenant' \in Tenants
    BY <1>14, <2>1, MergeTenants DEF ExpireWrite, TypeInv, TypeOK
  <2> QED
    BY <1>14, <2>2, ReleaseTypes DEF ExpireWrite, TypeInv, TypeOK
<1>15. ASSUME NEW p \in Processes, Crash(p) PROVE TypeInv'
  <2>1. crashes' \in 0 .. MaxCrashes
    BY <1>15, ConstantsAssumption DEF Crash, TypeInv, TypeOK
  <2> QED
    BY <1>15, <2>1, ReleaseTypes DEF Crash, TypeInv, TypeOK
<1>16. CASE UNCHANGED vars
  BY <1>16 DEF vars, local, TypeInv, TypeOK, Busy
<1> QED
  BY <1>1, <1>2, <1>3, <1>4, <1>5, <1>6, <1>7, <1>8, <1>9, <1>10, <1>11, <1>12, <1>13, <1>14,
     <1>15, <1>16, SyncRowTypes, PaymentFailedTypes, DowngradeTypes
  DEF Next, Step, Deliver

(* The mirror keeps its types. *)
THEOREM TypeCorrect == Spec => []TypeOK
<1>1. TypeInv => TypeOK
  BY DEF TypeInv
<1> QED
  BY <1>1, InitTypes, TypeStep, PTL DEF Spec

-----------------------------------------------------------------------------
(* The inductive invariant.  An event in the hands of a handler, or done,   *)
(* is marked; and not only the tenant but every copy of it in a session has *)
(* its plan for a cause, for such a copy may be written back at any later   *)
(* time.                                                                    *)
Caused(plan) == plan \in Paid => \E e \in logged : Grants(sent[e], plan)

LoggedWereSent == logged \subseteq 1 .. Len(sent)

MarkedFirst ==
  /\ \A p \in Processes : at[p] \in Handling => ev[p] \in logged
  /\ done \subseteq logged

CopiesCaused == Caused(tenant.plan) /\ \A p \in Processes : Caused(loaded[p].plan)

MirrorInv ==
  /\ TypeInv /\ LoggedWereSent /\ StartedOnce /\ MarkedFirst /\ CopiesCaused

LEMMA InitMirror == Init => MirrorInv
<1> SUFFICES ASSUME Init PROVE MirrorInv
  OBVIOUS
<1>1. TypeInv
  BY InitTypes
<1>2. LoggedWereSent /\ StartedOnce
  BY DEF Init, LoggedWereSent, StartedOnce
<1>3. MarkedFirst
  BY DEF Init, MarkedFirst, Handling
<1>4. CopiesCaused
  BY ConstantsAssumption DEF Init, CopiesCaused, Caused, NewTenant
<1> QED
  BY <1>1, <1>2, <1>3, <1>4 DEF MirrorInv

(* The events that are logged were sent, and what was sent stays.           *)
LEMMA SentStep ==
  ASSUME MirrorInv, [Next]_vars
  PROVE  /\ LoggedWereSent'
         /\ logged \subseteq logged'
         /\ \A e \in logged : sent'[e] = sent[e]
<1> USE DEF tables, stripe, aux
<1>1. CASE Emit
  <2>1. PICK c \in Content : sent' = Append(sent, c)
    BY <1>1 DEF Emit
  <2>2. sent \in Seq(Content) /\ Len(sent) \in Nat /\ logged \subseteq 1 .. Len(sent)
    BY LenProperties DEF MirrorInv, LoggedWereSent, TypeInv, TypeOK
  <2>3. /\ Len(sent') = Len(sent) + 1
        /\ \A i \in 1 .. Len(sent) : sent'[i] = sent[i]
    BY <2>1, <2>2, AppendProperties
  <2> QED
    <3>1. logged' = logged
      BY <1>1 DEF Emit
    <3>2. \A e \in logged : e \in 1 .. Len(sent) /\ e \in 1 .. (Len(sent) + 1)
      BY <2>2
    <3> QED
      BY <2>3, <3>1, <3>2 DEF LoggedWereSent
<1>2. ASSUME NEW p \in Processes, Log(p) \/ LogRaises(p)
      PROVE  /\ sent' = sent /\ logged \subseteq logged'
             /\ LoggedWereSent'
  <2>1. ev[p] \in 1 .. Len(sent)
    BY <1>2, BusyEvent DEF Log, LogRaises, MirrorInv
  <2> QED
    BY <1>2, <2>1 DEF Log, LogRaises, MirrorInv, LoggedWereSent
<1>3. ASSUME NEW p \in Processes, NEW e \in Events, Deliver(p, e)
      PROVE  sent' = sent /\ logged' = logged
  BY <1>3 DEF Deliver, Duplicate, Unattributed, Resolve
<1>4. ASSUME NEW p \in Processes,
             LogRefused(p) \/ Query(p) \/ Ignore(p) \/ SyncRow(p) \/ Downgrade(p)
      PROVE  sent' = sent /\ logged' = logged
  BY <1>4 DEF LogRefused, Query, Ignore, SyncRow, Downgrade
<1>5. ASSUME NEW p \in Processes,
             PaymentFailed(p) \/ HandlerRaises(p) \/ Answer(p) \/ ExpireWrite(p)
               \/ ExpireRead(p) \/ Crash(p)
      PROVE  sent' = sent /\ logged' = logged
  BY <1>5 DEF PaymentFailed, HandlerRaises, Answer, ExpireWrite, ExpireRead, Crash
<1>6. CASE SetTrialEnd \/ Lapse \/ UNCHANGED vars
  BY <1>6 DEF SetTrialEnd, Lapse, vars, MirrorInv, LoggedWereSent
<1> QED
  BY <1>1, <1>2, <1>3, <1>4, <1>5, <1>6 DEF Next, Step, MirrorInv, LoggedWereSent

LEMMA StartedStep == MirrorInv /\ [Next]_vars => StartedOnce'
<1> SUFFICES ASSUME MirrorInv, [Next]_vars PROVE StartedOnce'
  OBVIOUS
<1> USE DEF tables, stripe, aux
<1>1. ASSUME NEW p \in Processes, Log(p) PROVE StartedOnce'
  <2>1. starts[ev[p]] = 0 /\ ev[p] \in Events /\ starts \in [Events -> Nat]
    <3>1. ev[p] \in Events /\ ev[p] \notin logged
      BY <1>1, BusyEvent DEF Log, MirrorInv
    <3>2. starts \in [Events -> Nat] /\ starts[ev[p]] <= 1 /\ starts[ev[p]] # 1
      BY <3>1 DEF MirrorInv, StartedOnce, TypeInv, TypeOK
    <3>3. starts[ev[p]] \in Nat
      BY <3>1, <3>2
    <3> QED
      BY <3>1, <3>2, <3>3
  <2>2. starts' = [starts EXCEPT ![ev[p]] = 1] /\ logged' = logged \cup {ev[p]}
    BY <1>1, <2>1 DEF Log
  <2> QED
    BY <2>1, <2>2 DEF MirrorInv, StartedOnce
<1>2. CASE UNCHANGED starts
  BY <1>2, SentStep DEF MirrorInv, StartedOnce
<1>3. ASSUME NEW p \in Processes, NEW e \in Events, Deliver(p, e) PROVE UNCHANGED starts
  BY <1>3 DEF Deliver, Duplicate, Unattributed, Resolve
<1>4. ASSUME NEW p \in Processes,
             LogRefused(p) \/ LogRaises(p) \/ Query(p) \/ Ignore(p) \/ SyncRow(p) \/ Downgrade(p)
      PROVE  UNCHANGED starts
  BY <1>4 DEF LogRefused, LogRaises, Query, Ignore, SyncRow, Downgrade
<1>5. ASSUME NEW p \in Processes,
             PaymentFailed(p) \/ HandlerRaises(p) \/ Answer(p) \/ ExpireWrite(p)
               \/ ExpireRead(p) \/ Crash(p)
      PROVE  UNCHANGED starts
  BY <1>5 DEF PaymentFailed, HandlerRaises, Answer, ExpireWrite, ExpireRead, Crash
<1>6. CASE Emit \/ SetTrialEnd \/ Lapse \/ UNCHANGED vars
  BY <1>2, <1>6 DEF Emit, SetTrialEnd, Lapse, vars
<1> QED
  BY <1>1, <1>2, <1>3, <1>4, <1>5, <1>6 DEF Next, Step

(* A step of a process leaves the others where they are, and marks the      *)
(* event it works on before it has done it.                                 *)
HandsOn(p) ==
  /\ \A q \in Processes \ {p} : at'[q] = at[q] /\ ev'[q] = ev[q]
  /\ at'[p] \in Handling => ev'[p] \in logged'
  /\ done' \subseteq done \cup logged

LEMMA ProcessStep ==
  ASSUME MirrorInv, NEW p \in Processes,
         \/ \E e \in Events : Deliver(p, e)
         \/ Step(p) \/ ExpireRead(p) \/ Crash(p)
  PROVE  HandsOn(p)
<1> USE DEF tables, stripe, aux, local
<1>0. /\ at \in [Processes -> Location] /\ ev \in [Processes -> Events \cup {0}]
      /\ at[p] \in Handling => ev[p] \in logged
  BY DEF MirrorInv, TypeInv, TypeOK, MarkedFirst
<1>1. ASSUME NEW e \in Events, Duplicate(p, e) \/ Unattributed(p, e) PROVE HandsOn(p)
  BY <1>0, <1>1 DEF Duplicate, Unattributed, Receive, HandsOn, Handling
<1>2. ASSUME NEW e \in Events, Resolve(p, e) PROVE HandsOn(p)
  BY <1>0, <1>2 DEF Resolve, Receive, Goto, HandsOn, Handling
<1>3. CASE Log(p)
  BY <1>0, <1>3 DEF Log, Goto, HandsOn, Handling
<1>4. CASE LogRefused(p)
  BY <1>0, <1>4 DEF LogRefused, Goto, HandsOn, Handling
<1>5. CASE LogRaises(p)
  BY <1>0, <1>5 DEF LogRaises, Goto, HandsOn, Handling
<1>6. CASE Query(p)
  BY <1>0, <1>6 DEF Query, Goto, HandsOn, Handling
<1>7. CASE Ignore(p)
  BY <1>0, <1>7 DEF Ignore, Goto, HandsOn, Handling
<1>8. CASE SyncRow(p)
  <2>1. at[p] = "queried" /\ ev' = ev /\ logged' = logged
    BY <1>8 DEF SyncRow
  <2>2. \/ Goto(p, "downgrading") /\ done' = done
        \/ Goto(p, "answering") /\ done' = done \cup {ev[p]}
    BY <1>8 DEF SyncRow
  <2> QED
    BY <1>0, <2>1, <2>2 DEF Goto, HandsOn, Handling
<1>9. CASE Downgrade(p)
  BY <1>0, <1>9 DEF Downgrade, Goto, HandsOn, Handling
<1>10. CASE PaymentFailed(p)
  BY <1>0, <1>10 DEF PaymentFailed, Goto, HandsOn, Handling
<1>11. CASE HandlerRaises(p)
  BY <1>0, <1>11 DEF HandlerRaises, Goto, HandsOn, Handling
<1>12. CASE Answer(p)
  BY <1>0, <1>12 DEF Answer, Release, Goto, HandsOn, Handling
<1>13. CASE ExpireWrite(p)
  BY <1>0, <1>13 DEF ExpireWrite, Release, Goto, HandsOn, Handling
<1>14. CASE ExpireRead(p)
  BY <1>0, <1>14 DEF ExpireRead, Goto, HandsOn, Handling
<1>15. CASE Crash(p)
  BY <1>0, <1>15 DEF Crash, Release, Goto, HandsOn, Handling
<1> QED
  BY <1>1, <1>2, <1>3, <1>4, <1>5, <1>6, <1>7, <1>8, <1>9, <1>10, <1>11, <1>12, <1>13,
     <1>14, <1>15 DEF Deliver, Step

LEMMA MarkedStep == MirrorInv /\ [Next]_vars => MarkedFirst'
<1> SUFFICES ASSUME MirrorInv, [Next]_vars PROVE MarkedFirst'
  OBVIOUS
<1>1. logged \subseteq logged'
  BY SentStep
<1>2. ASSUME NEW p \in Processes, HandsOn(p) PROVE MarkedFirst'
  BY <1>1, <1>2 DEF HandsOn, MirrorInv, MarkedFirst
<1>3. CASE Emit \/ SetTrialEnd \/ Lapse \/ UNCHANGED vars
  BY <1>3 DEF Emit, SetTrialEnd, Lapse, vars, tables, stripe, local, aux, MirrorInv, MarkedFirst
<1> QED
  BY <1>2, <1>3, ProcessStep DEF Next

(* A plan that a commit writes into the tenant was there before, was in the *)
(* session, or is the one that the subscription event grants.               *)
LEMMA CausedStep == MirrorInv /\ [Next]_vars => CopiesCaused'
<1> SUFFICES ASSUME MirrorInv, [Next]_vars PROVE CopiesCaused'
  OBVIOUS
<1> USE DEF tables, stripe, aux, local
<1>1. /\ Caused(tenant.plan) /\ \A q \in Processes : Caused(loaded[q].plan)
      /\ tenant \in Tenants /\ loaded \in [Processes -> Tenants]
  BY DEF MirrorInv, CopiesCaused, TypeInv, TypeOK
<1> DEFINE Known(plan) == plan \in Paid => \E e \in logged' : Grants(sent'[e], plan)
<1>2. /\ \A plan : Caused(plan) => Known(plan)
      /\ CopiesCaused' <=> Known(tenant'.plan) /\ \A q \in Processes : Known(loaded'[q].plan)
  <2>1. \A plan : Caused(plan) => Known(plan)
    BY SentStep DEF Caused, Grants
  <2>2. CopiesCaused' <=> Known(tenant'.plan) /\ \A q \in Processes : Known(loaded'[q].plan)
    BY DEF CopiesCaused, Caused, Grants
  <2> QED
    BY <2>1, <2>2
<1>3. NewTenant \in Tenants /\ Known("evaluation") /\ Known(NewTenant.plan)
  BY ConstantsAssumption DEF NewTenant, Tenants, TenantStatus
<1> HIDE DEF Known
<1>4. ASSUME tenant' = tenant, NEW p \in Processes, NEW t \in Tenants, Known(t.plan),
             loaded' = [loaded EXCEPT ![p] = t]
      PROVE  CopiesCaused'
  BY <1>1, <1>2, <1>4
<1>5. ASSUME tenant' = tenant, loaded' = loaded PROVE CopiesCaused'
  BY <1>1, <1>2, <1>5
<1>6. ASSUME NEW p \in Processes, NEW new \in Tenants, Known(new.plan), WriteTenant(p, new)
      PROVE  CopiesCaused'
  <2>1. tenant'.plan \in {tenant.plan, new.plan}
    BY <1>1, <1>6, MergeTenants DEF WriteTenant
  <2>2. loaded' = [loaded EXCEPT ![p] = new]
    BY <1>6 DEF WriteTenant
  <2> QED
    BY <1>1, <1>2, <1>6, <2>1, <2>2
<1>7. ASSUME NEW p \in Processes, NEW e \in Events, Resolve(p, e) PROVE CopiesCaused'
  BY <1>1, <1>2, <1>4, <1>7 DEF Resolve
<1>8. ASSUME NEW p \in Processes, ExpireRead(p) PROVE CopiesCaused'
  BY <1>1, <1>2, <1>4, <1>8 DEF ExpireRead
<1>9. ASSUME NEW p \in Processes, Answer(p) \/ Crash(p) PROVE CopiesCaused'
  BY <1>3, <1>4, <1>9 DEF Answer, Crash, Release
<1>10. ASSUME NEW p \in Processes, ExpireWrite(p) PROVE CopiesCaused'
  <2> DEFINE new == [loaded[p] EXCEPT !.status = "trial_expired"]
  <2>1. new \in Tenants /\ new.plan = loaded[p].plan
    BY <1>1 DEF Tenants, TenantStatus
  <2>2. tenant' = Merge(tenant, loaded[p], new)
    BY <1>10 DEF ExpireWrite
  <2> HIDE DEF new
  <2>3. tenant'.plan \in {tenant.plan, loaded[p].plan}
    BY <1>1, <2>1, <2>2, MergeTenants
  <2>4. loaded' = [loaded EXCEPT ![p] = NewTenant]
    BY <1>10 DEF ExpireWrite, Release
  <2> QED
    BY <1>1, <1>2, <1>3, <2>3, <2>4
<1>11. ASSUME NEW p \in Processes, SyncRow(p) PROVE CopiesCaused'
  <2> DEFINE c == sent[ev[p]]
             plan == PlanName(c, loaded[p])
             mirror == Mirror(loaded[p], plan, c.status)
  <2>1. /\ ev[p] \in logged /\ c \in Content /\ c.type \in Sync
        /\ logged' = logged /\ sent' = sent /\ loaded[p] \in Tenants
    BY <1>1, <1>11, BusyEvent DEF SyncRow, MirrorInv, MarkedFirst, Handling
  <2>2. /\ plan \in Paid /\ c.status \in AllStatuses /\ c.plan \in {plan, NoPlan}
    BY <2>1, PlanNamePaid, ContentFields
  <2>3. mirror \in Tenants
    BY <2>1, <2>2, MirrorTenants
  <2>4. Known(mirror.plan)
    <3>1. CASE mirror.plan \notin Paid
      BY <3>1 DEF Known
    <3>2. CASE mirror.plan = loaded[p].plan
      BY <3>2, <1>1, <1>2
    <3>3. CASE c.status \in {"active", "trialing"} /\ mirror.plan = plan
      <4>1. Grants(c, plan)
        BY <2>1, <2>2, <3>3 DEF Grants
      <4>2. Known(plan)
        BY <4>1, <2>1 DEF Known
      <4> QED
        BY <3>3, <4>2
    <3> QED
      BY <2>1, <2>2, <3>1, <3>2, <3>3, MirrorTenants
  <2>5. WriteTenant(p, mirror)
    BY <1>11 DEF SyncRow
  <2> QED
    BY <1>6, <2>3, <2>4, <2>5
<1>12. ASSUME NEW p \in Processes, Downgrade(p) PROVE CopiesCaused'
  <2> DEFINE new == [plan |-> "evaluation", status |-> "cancelled"]
  <2>1. new \in Tenants /\ Known(new.plan)
    BY <1>3 DEF Tenants, TenantStatus
  <2>2. WriteTenant(p, new)
    BY <1>12 DEF Downgrade
  <2> QED
    BY <1>6, <2>1, <2>2
<1>13. ASSUME NEW p \in Processes, PaymentFailed(p) PROVE CopiesCaused'
  <2> DEFINE new == [loaded[p] EXCEPT !.status = "past_due"]
  <2>1. new \in Tenants /\ new.plan = loaded[p].plan
    BY <1>1 DEF Tenants, TenantStatus
  <2>2. Known(new.plan)
    BY <1>1, <1>2, <2>1
  <2>3. WriteTenant(p, new)
    BY <1>13 DEF PaymentFailed
  <2> QED
    BY <1>6, <2>1, <2>2, <2>3
<1>14. ASSUME NEW p \in Processes,
              \/ Log(p) \/ LogRefused(p) \/ LogRaises(p) \/ Query(p)
              \/ Ignore(p) \/ HandlerRaises(p)
       PROVE  CopiesCaused'
  BY <1>5, <1>14 DEF Log, LogRefused, LogRaises, Query, Ignore, HandlerRaises
<1>15. ASSUME NEW p \in Processes, NEW e \in Events, Duplicate(p, e) \/ Unattributed(p, e)
       PROVE  CopiesCaused'
  BY <1>5, <1>15 DEF Duplicate, Unattributed
<1>16. CASE Emit \/ SetTrialEnd \/ Lapse \/ UNCHANGED vars
  BY <1>5, <1>16 DEF Emit, SetTrialEnd, Lapse, vars
<1> QED
  BY <1>7, <1>8, <1>9, <1>10, <1>11, <1>12, <1>13, <1>14, <1>15, <1>16
  DEF Next, Step, Deliver

THEOREM Invariant == Spec => []MirrorInv
<1>1. MirrorInv /\ [Next]_vars => MirrorInv'
  BY TypeStep, SentStep, StartedStep, MarkedStep, CausedStep DEF MirrorInv
<1> QED
  BY <1>1, InitMirror, PTL DEF Spec

(* The handler of an event is started at most once, in whatever processes   *)
(* its deliveries meet.                                                     *)
THEOREM HandlerStartsOnce == Spec => []StartedOnce
<1>1. MirrorInv => StartedOnce
  BY DEF MirrorInv
<1> QED
  BY <1>1, Invariant, PTL

(* No interleaving of stale sessions puts a tenant on a paid plan that no   *)
(* logged event grants.                                                     *)
THEOREM PaidIsGranted == Spec => []PaidWithCause
<1>1. MirrorInv => PaidWithCause
  BY DEF MirrorInv, CopiesCaused, Caused, PaidWithCause
<1> QED
  BY <1>1, Invariant, PTL
-----------------------------------------------------------------------------
(* The mirror is right as long as nothing overlaps or comes out of order.   *)
(* Then one process at most is not idle, and the copies it has of   *)
(* the tenant and of the one row are the tables themselves.                 *)
Single == \A p, q \in Processes : at[p] # "idle" /\ at[q] # "idle" => p = q

CopiesFresh(p) ==
  /\ at[p] # "idle" => loaded[p] = tenant
  /\ at[p] \in {"idle", "resolved", "logged"} => rid[p] = 0
  /\ at[p] = "queried" => /\ rid[p] = Len(rows)
                          /\ rows # <<>> => row[p] = rows[1]

(* Its event is the next one, and has a row to write to or to begin with.   *)
InTurn(p) ==
  /\ at[p] = "resolved" => 1 .. ev[p] - 1 \subseteq logged
  /\ at[p] \in Handling => ev[p] \in logged \ done /\ \A e \in logged : e <= ev[p]
  /\ at[p] \in {"resolved"} \cup Handling => Attributed(ev[p])

(* Between its two commits the handler of a deletion has the row done.      *)
HalfWay(p) ==
  /\ at[p] = "queried" => sent[ev[p]].type # "paid"
  /\ at[p] = "downgrading" => /\ sent[ev[p]].type = "deleted"
                              /\ Len(rows) = 1
                              /\ rows[1].status = sent[ev[p]].status
  /\ at[p] = "expiring" => tenant.plan = "evaluation" /\ tenant.status \in {"trial", "active"}

OnCourse(p) == CopiesFresh(p) /\ InTurn(p) /\ HalfWay(p)

Serial == Len(rows) <= 1 /\ \A e \in logged : 1 .. e - 1 \subseteq logged

Mirrored == \A e \in done : Latest(e) => Says(sent[e])

Ordered ==
  /\ Single /\ Serial
  /\ \A p \in Processes : OnCourse(p)
  /\ Mirrored

OrderInv == orderly => Ordered

LEMMA InitOrder == Init => OrderInv
<1> SUFFICES ASSUME Init PROVE Ordered
  BY DEF OrderInv
<1>1. Len(rows) = 0 /\ logged = {} /\ done = {}
  BY DEF Init
<1> QED BY <1>1 DEF Init, Ordered, Single, Serial, OnCourse, CopiesFresh, InTurn, HalfWay, Mirrored, Handling

(* Disorder is not forgotten. *)
LEMMA OrderlySoFar ==
  ASSUME MirrorInv, [Next]_vars, orderly'
  PROVE  orderly
<1> USE DEF tables, stripe, aux, local
<1>1. ASSUME NEW p \in Processes, NEW e \in Events, Deliver(p, e) PROVE orderly
  BY <1>1 DEF Deliver, Duplicate, Unattributed, Resolve
<1>2. ASSUME NEW p \in Processes, Step(p) PROVE orderly
  BY <1>2 DEF Step, Log, LogRefused, LogRaises, Query, Ignore, SyncRow, Downgrade, PaymentFailed,
              HandlerRaises, Answer, ExpireWrite
<1>3. ASSUME NEW p \in Processes, ExpireRead(p) \/ Crash(p) PROVE orderly
  BY <1>3 DEF ExpireRead, Crash
<1>4. CASE Emit \/ SetTrialEnd \/ Lapse \/ UNCHANGED vars
  BY <1>4 DEF Emit, SetTrialEnd, Lapse, vars
<1> QED BY <1>1, <1>2, <1>3, <1>4 DEF Next

(* A step of the one process that works keeps the order if that process     *)
(* stays on course: the others are idle before and after it.                *)
Moves(p) == \A q \in Processes \ {p} : at'[q] = at[q] /\ rid'[q] = rid[q]

LEMMA AloneStep ==
  ASSUME Ordered, NEW p \in Processes, Alone(p), Moves(p), OnCourse(p)', Serial', Mirrored'
  PROVE  Ordered'
<1>1. \A q \in Processes \ {p} : at'[q] = "idle" /\ rid'[q] = 0
  BY DEF Alone, Moves, Ordered, OnCourse, CopiesFresh
<1>2. \A q \in Processes \ {p} : OnCourse(q)'
  BY <1>1 DEF OnCourse, CopiesFresh, InTurn, HalfWay, Handling
<1>3. Single'
  BY <1>1 DEF Single
<1> QED BY <1>2, <1>3 DEF Ordered

LEMMA BusyIsAlone ==
  ASSUME Ordered, NEW p \in Processes, at[p] # "idle"
  PROVE  Alone(p)
  BY DEF Ordered, Single, Alone

(* What leaves the tables alone, and marks an event or not, tells the same. *)
LEMMA MirroredAfter ==
  ASSUME MirrorInv, [Next]_vars, Mirrored, UNCHANGED <<tenant, rows, done>>
  PROVE  Mirrored'
<1>1. logged \subseteq logged' /\ \A e \in logged : sent'[e] = sent[e]
  BY SentStep
<1>2. done \subseteq logged
  BY DEF MirrorInv, MarkedFirst
<1>3. \A e \in done : Latest(e)' => Latest(e)
  BY <1>1 DEF Latest
<1> QED BY <1>1, <1>2, <1>3 DEF Mirrored, Says

(* After a commit that is up to date the newest event alone is to be told:  *)
(* itself if it is done, nothing if it is a deletion half done.             *)
LEMMA NewestSays ==
  ASSUME UNCHANGED <<logged, sent>>, logged \subseteq Events, done \subseteq logged,
         NEW e \in logged, \A f \in logged : f <= e,
         \/ done' = done \cup {e} /\ sent[e].type # "paid" /\ Says(sent[e])'
         \/ done' = done /\ e \notin done /\ sent[e].type = "deleted"
  PROVE  Mirrored'
<1>1. ASSUME NEW f \in done, f # e PROVE ~Latest(f)'
  <2>1. e > f
    BY <1>1, ConstantsAssumption DEF Events
  <2> QED BY <2>1 DEF Latest
<1> QED BY <1>1 DEF Mirrored
(* Each step of the process that works, in an orderly run. *)
LEMMA OrderStep == MirrorInv /\ OrderInv /\ [Next]_vars => OrderInv'
<1> SUFFICES ASSUME MirrorInv, Ordered, [Next]_vars, orderly' PROVE Ordered'
  BY OrderlySoFar DEF OrderInv
<1> USE DEF tables, stripe, aux, local
<1>0. /\ at \in [Processes -> Location] /\ ev \in [Processes -> Events \cup {0}] /\ rid \in [Processes -> 0 .. Len(rows)]
      /\ loaded \in [Processes -> Tenants] /\ row \in [Processes -> Rows] /\ logged \subseteq Events
      /\ rows \in Seq(Rows) /\ Len(rows) \in {0, 1} /\ tenant \in Tenants /\ done \subseteq logged
  <2>1. rows \in Seq(Rows) /\ Len(rows) <= 1
    BY DEF MirrorInv, TypeInv, TypeOK, Ordered, Serial
  <2>2. Len(rows) \in Nat
    BY <2>1, LenProperties
  <2>3. Len(rows) \in {0, 1}
    <3> DEFINE n == Len(rows)
    <3> HIDE DEF n
    <3>1. n \in Nat /\ n <= 1
      BY <2>1, <2>2 DEF n
    <3>2. n \in {0, 1}
      BY <3>1
    <3> QED BY <3>2 DEF n
  <2> QED BY <2>1, <2>3 DEF MirrorInv, TypeInv, TypeOK, MarkedFirst
<1>1. /\ \A p \in Processes : OnCourse(p)
      /\ Serial /\ Mirrored /\ \A e \in logged : sent'[e] = sent[e]
  BY SentStep DEF Ordered
<1>2. rows # <<>> <=> Len(rows) = 1
  <2>1. (rows = <<>>) <=> (Len(rows) = 0)
    BY <1>0, EmptySeq
  <2> DEFINE n == Len(rows)
             empty == rows = <<>>
  <2>2. n \in {0, 1} /\ (empty <=> n = 0)
    BY <1>0, <2>1
  <2> HIDE DEF n, empty
  <2>3. ~empty <=> n = 1
    BY <2>2
  <2> QED BY <2>3 DEF n, empty
<1>3. CASE Emit
  <2>1. PICK c \in Content : sent' = Append(sent, c)
    BY <1>3 DEF Emit
  <2>2. \A i \in 1 .. Len(sent) : sent'[i] = sent[i]
    BY <2>1, AppendProperties DEF MirrorInv, TypeInv, TypeOK
  <2>3. \A p \in Processes : at[p] \notin {"idle", "expiring"} => sent'[ev[p]] = sent[ev[p]]
    BY <2>2 DEF MirrorInv, TypeInv, Busy
  <2>4. ASSUME NEW p \in Processes PROVE OnCourse(p)'
    BY <1>1, <1>3, <2>3 DEF Emit, OnCourse, CopiesFresh, InTurn, HalfWay, Attributed, Handling
  <2>5. Single' /\ Serial'
    BY <1>3 DEF Emit, Ordered, Single, Serial
  <2>6. Mirrored'
    BY <1>1, <1>3, MirroredAfter DEF Emit
  <2> QED BY <2>4, <2>5, <2>6 DEF Ordered
<1>4. ASSUME UNCHANGED <<tenant, rows, logged, sent, at, ev, loaded, rid, row, done>> PROVE Ordered'
  BY <1>4 DEF Ordered, Single, Serial, OnCourse, CopiesFresh, InTurn, HalfWay, Attributed, Mirrored, Latest, Says
<1>5. CASE SetTrialEnd \/ Lapse \/ UNCHANGED vars
  BY <1>4, <1>5 DEF SetTrialEnd, Lapse, vars
<1>6. ASSUME NEW p \in Processes, NEW e \in Events, Deliver(p, e) PROVE Ordered'
  <2>1. CASE Duplicate(p, e) \/ Unattributed(p, e)
    BY <1>4, <2>1 DEF Duplicate, Unattributed
  <2>2. CASE Resolve(p, e)
    <3>1. /\ Alone(p) /\ at[p] = "idle" /\ 1 .. e - 1 \subseteq logged /\ Attributed(e)
          /\ at' = [at EXCEPT ![p] = "resolved"] /\ ev' = [ev EXCEPT ![p] = e]
          /\ loaded' = [loaded EXCEPT ![p] = tenant]
          /\ UNCHANGED <<tenant, rows, logged, sent, rid, row, done>>
      BY <2>2 DEF Resolve, Receive, Goto
    <3>2. Moves(p) /\ OnCourse(p)' /\ Serial'
      BY <1>0, <1>1, <3>1 DEF Moves, OnCourse, CopiesFresh, InTurn, HalfWay, Serial, Attributed, Handling
    <3>3. Mirrored'
      BY <1>1, <3>1, MirroredAfter
    <3> QED BY <3>1, <3>2, <3>3, AloneStep
  <2> QED BY <1>6, <2>1, <2>2 DEF Deliver
<1>7. ASSUME NEW p \in Processes, Log(p) \/ LogRaises(p) PROVE Ordered'
  <2>1. /\ at[p] = "resolved" /\ ev[p] \notin logged
        /\ \/ logged' = logged \cup {ev[p]} /\ at' = [at EXCEPT ![p] = "logged"]
           \/ logged' \in {logged, logged \cup {ev[p]}} /\ at' = [at EXCEPT ![p] = "answering"]
        /\ UNCHANGED <<tenant, rows, sent, ev, loaded, rid, row, done>>
    BY <1>7 DEF Log, LogRaises, Goto
  <2>2. ev[p] \in Events /\ 1 .. ev[p] - 1 \subseteq logged /\ Attributed(ev[p])
    BY <1>1, <2>1, BusyEvent DEF OnCourse, InTurn, MirrorInv
  <2>3. \A e \in logged \cup {ev[p]} : e <= ev[p]
    <3> SUFFICES ASSUME NEW e \in logged PROVE e <= ev[p]
      BY <2>2 DEF Events
    <3>1. 1 .. e - 1 \subseteq logged /\ e \in Events
      BY <1>0, <1>1 DEF Serial
    <3> QED BY <2>1, <2>2, <3>1, ConstantsAssumption DEF Events
  <2>4. Alone(p) /\ Serial'
    BY <1>1, <2>1, <2>2, BusyIsAlone DEF Serial
  <2>7. Moves(p)
    BY <1>0, <2>1 DEF Moves
  <2>5. OnCourse(p)'
    BY <1>0, <1>1, <2>1, <2>2, <2>3 DEF OnCourse, CopiesFresh, InTurn, HalfWay, Attributed, Handling
  <2>6. Mirrored'
    BY <1>1, <2>1, MirroredAfter
  <2> QED BY <2>4, <2>5, <2>6, <2>7, AloneStep
<1>8. ASSUME NEW p \in Processes, LogRefused(p) \/ HandlerRaises(p) PROVE Ordered'
  <2>1. /\ at[p] # "idle" /\ at' = [at EXCEPT ![p] = "answering"]
        /\ UNCHANGED <<tenant, rows, logged, sent, ev, loaded, rid, row, done>>
    BY <1>8 DEF LogRefused, HandlerRaises, Goto, Handling
  <2>2. Alone(p) /\ Moves(p) /\ OnCourse(p)' /\ Serial'
    BY <1>0, <1>1, <2>1, BusyIsAlone DEF Moves, OnCourse, CopiesFresh, InTurn, HalfWay, Serial, Handling
  <2>3. Mirrored'
    BY <1>1, <2>1, MirroredAfter
  <2> QED BY <2>2, <2>3, AloneStep
<1>16. ASSUME NEW p \in Processes, Ignore(p) PROVE Ordered'
  <2>1. /\ at[p] = "logged" /\ sent[ev[p]].type = "paid" /\ at' = [at EXCEPT ![p] = "answering"]
        /\ done' = done \cup {ev[p]} /\ UNCHANGED <<tenant, rows, logged, sent, ev, loaded, rid, row>>
    BY <1>16 DEF Ignore, Goto
  <2>2. Alone(p) /\ Moves(p) /\ OnCourse(p)' /\ Serial' /\ Attributed(ev[p])
    BY <1>0, <1>1, <2>1, BusyIsAlone DEF Moves, OnCourse, CopiesFresh, InTurn, HalfWay, Serial, Handling
  <2>3. Says(sent[ev[p]])
    BY <1>2, <2>1, <2>2 DEF Says, Attributed, Sync
  <2>4. \A e \in done : Latest(e)' => Latest(e)
    BY <2>1 DEF Latest
  <2>5. Mirrored'
    BY <1>1, <2>1, <2>3, <2>4 DEF Mirrored, Says
  <2> QED BY <2>2, <2>5, AloneStep
<1>9. ASSUME NEW p \in Processes, Query(p) PROVE Ordered'
  <2>1. /\ at[p] = "logged" /\ sent[ev[p]].type # "paid" /\ at' = [at EXCEPT ![p] = "queried"]
        /\ UNCHANGED <<tenant, rows, logged, sent, ev, loaded, done>>
    BY <1>9 DEF Query, Goto
  <2>2. rid'[p] = Len(rows) /\ (rows # <<>> => row'[p] = rows[1])
    <3>1. CASE rows = <<>>
      BY <1>1, <1>2, <1>0, <1>9, <2>1, <3>1 DEF Query, OnCourse, CopiesFresh
    <3>2. CASE rows # <<>>
      <4>1. PICK r \in 1 .. Len(rows) : rid' = [rid EXCEPT ![p] = r] /\ row' = [row EXCEPT ![p] = rows[r]]
        BY <1>9, <3>2 DEF Query
      <4>2. r = 1 /\ Len(rows) = 1
        BY <1>0, <4>1
      <4> QED BY <1>0, <4>1, <4>2
    <3> QED BY <3>1, <3>2
  <2>3. Alone(p) /\ Serial' /\ Mirrored'
    BY <1>0, <1>1, <2>1, BusyIsAlone, MirroredAfter DEF Serial
  <2>4. Moves(p)
    BY <1>0, <1>9, <2>1 DEF Query, Moves
  <2>5. OnCourse(p)'
    BY <1>0, <1>1, <2>1, <2>2 DEF OnCourse, CopiesFresh, InTurn, HalfWay, Attributed, Handling
  <2> QED BY <2>3, <2>4, <2>5, AloneStep
<1>10. ASSUME NEW p \in Processes, Answer(p) \/ Crash(p) PROVE Ordered'
  <2>1. /\ at[p] # "idle" /\ Release(p) /\ UNCHANGED <<tenant, rows, logged, sent, done>>
    BY <1>10 DEF Answer, Crash
  <2>2. Alone(p) /\ Moves(p) /\ OnCourse(p)' /\ Serial'
    BY <1>0, <1>1, <2>1, BusyIsAlone
    DEF Release, Goto, Moves, OnCourse, CopiesFresh, InTurn, HalfWay, Serial, Handling
  <2>3. Mirrored'
    BY <1>1, <2>1, MirroredAfter
  <2> QED BY <2>2, <2>3, AloneStep
<1>11. ASSUME NEW p \in Processes, ExpireRead(p) PROVE Ordered'
  <2>1. /\ Alone(p) /\ at[p] = "idle" /\ at' = [at EXCEPT ![p] = "expiring"]
        /\ loaded' = [loaded EXCEPT ![p] = tenant]
        /\ tenant.plan = "evaluation" /\ tenant.status \in {"trial", "active"}
        /\ UNCHANGED <<tenant, rows, logged, sent, ev, rid, row, done>>
    BY <1>11 DEF ExpireRead, Goto
  <2>2. Moves(p) /\ OnCourse(p)' /\ Serial'
    BY <1>0, <1>1, <2>1 DEF Moves, OnCourse, CopiesFresh, InTurn, HalfWay, Serial, Handling
  <2>3. Mirrored'
    BY <1>1, <2>1, MirroredAfter
  <2> QED BY <2>1, <2>2, <2>3, AloneStep
<1>12. ASSUME NEW p \in Processes, ExpireWrite(p) PROVE Ordered'
  <2> DEFINE new == [tenant EXCEPT !.status = "trial_expired"]
  <2>1. /\ at[p] = "expiring" /\ loaded[p] = tenant /\ Alone(p)
        /\ tenant.plan = "evaluation" /\ tenant.status \in {"trial", "active"}
    BY <1>1, <1>12, BusyIsAlone DEF ExpireWrite, OnCourse, CopiesFresh, HalfWay
  <2>2. new \in Tenants /\ new.plan = "evaluation"
    BY <1>0, <2>1 DEF Tenants, TenantStatus
  <2>3. tenant' = new /\ Release(p) /\ UNCHANGED <<rows, logged, sent, done>>
    BY <1>0, <1>12, <2>1, <2>2, MergeFresh DEF ExpireWrite
  <2>4. Moves(p) /\ OnCourse(p)' /\ Serial'
    BY <1>0, <1>1, <2>3 DEF Release, Goto, Moves, OnCourse, CopiesFresh, InTurn, HalfWay, Serial, Handling
  <2>5. ASSUME NEW e \in done, Latest(e) PROVE Says(sent[e])'
    <3>1. Says(sent[e])
      BY <1>1, <2>5 DEF Mirrored
    <3>2. Len(rows) = 1 /\ rows[1].plan # "evaluation"
      <4>1. Len(rows) = 1
        BY <3>1 DEF Says
      <4>2. 1 \in 1 .. Len(rows) /\ rows \in Seq(Rows)
        BY <1>0, <4>1
      <4>3. rows[1] \in Rows
        BY <4>2, ElementOfSeq
      <4> QED BY <4>1, <4>3, ConstantsAssumption DEF Rows
    <3>3. sent[e] = sent'[e]
      BY <2>3
    <3> QED BY <2>1, <2>3, <3>1, <3>2, <3>3 DEF Says
  <2>6. Mirrored'
    BY <2>3, <2>5 DEF Mirrored, Latest
  <2> QED BY <2>1, <2>4, <2>6, AloneStep
<1>13. ASSUME NEW p \in Processes, SyncRow(p) PROVE Ordered'
  <2> DEFINE c == sent[ev[p]]
             plan == PlanName(c, tenant)
             new == [plan |-> plan, status |-> c.status]
             mirror == Mirror(tenant, plan, c.status)
  <2>1. /\ at[p] = "queried" /\ c.type \in Sync /\ loaded[p] = tenant /\ Alone(p)
        /\ rid[p] = Len(rows) /\ (rows # <<>> => row[p] = rows[1])
        /\ ev[p] \in logged \ done /\ \A e \in logged : e <= ev[p]
    BY <1>1, <1>13, BusyIsAlone DEF SyncRow, OnCourse, CopiesFresh, InTurn, HalfWay, Handling
  <2>2. c \in Content /\ c.type # "paid"
    BY <2>1, BusyEvent DEF MirrorInv, Sync
  <2>3. plan \in Paid /\ c.status \in AllStatuses /\ (c.plan # NoPlan => plan = c.plan)
    BY <2>2, PlanNamePaid, ContentFields
  <2>4. mirror \in Tenants
    BY <1>0, <2>3, MirrorTenants
  <2>5. new \in Rows
    BY <2>3 DEF Rows
  <2>6. /\ tenant' = mirror /\ loaded' = [loaded EXCEPT ![p] = mirror]
        /\ UNCHANGED <<logged, sent, ev, rid, row>>
    BY <1>0, <1>13, <2>1, <2>4, MergeFresh DEF SyncRow, WriteTenant
  <2>7. Len(rows') = 1 /\ rows'[1] = new
    <3>1. CASE rid[p] = 0
      <4>1. rows' = Append(rows, new) /\ Len(rows) = 0
        BY <1>13, <2>1, <3>1 DEF SyncRow
      <4> QED BY <1>0, <2>5, <4>1, AppendProperties
    <3>2. CASE rid[p] # 0
      <4>1. rid[p] = 1 /\ Len(rows) = 1 /\ row[p] = rows[1]
        BY <1>0, <1>2, <2>1, <3>2
      <4>2. rows[1] \in Rows
        BY <1>0, <4>1, ElementOfSeq
      <4>3. rows' = [rows EXCEPT ![1] = Merge(rows[1], rows[1], new)]
        BY <1>13, <2>1, <3>2, <4>1 DEF SyncRow, WriteRow
      <4>4. rows' = [rows EXCEPT ![1] = new]
        BY <2>5, <4>2, <4>3, MergeFresh
      <4> QED BY <1>0, <2>5, <4>1, <4>4, ExceptSeq
    <3> QED BY <3>1, <3>2
  <2> HIDE DEF c, plan, new, mirror
  <2>8. Moves(p) /\ Serial' /\ loaded'[p] = tenant'
    BY <1>0, <1>1, <1>13, <2>6, <2>7 DEF SyncRow, Goto, Moves, Serial
  <2>9. CASE c.type = "deleted"
    <3>1. at' = [at EXCEPT ![p] = "downgrading"] /\ done' = done
      BY <1>13, <2>9 DEF SyncRow, Goto, c
    <3>2. OnCourse(p)'
      <4>1. rows'[1].status = c.status
        BY <2>7 DEF new
      <4> QED BY <1>0, <2>1, <2>6, <2>7, <2>8, <2>9, <3>1, <4>1
              DEF OnCourse, CopiesFresh, InTurn, HalfWay, Attributed, Handling, Sync, c
    <3>3. Mirrored'
      BY <1>0, <2>1, <2>6, <2>9, <3>1, NewestSays DEF c
    <3> QED BY <2>1, <2>8, <3>2, <3>3, AloneStep
  <2>10. CASE c.type = "change"
    <3>1. at' = [at EXCEPT ![p] = "answering"] /\ done' = done \cup {ev[p]}
      BY <1>13, <2>10 DEF SyncRow, Goto, c
    <3>2. OnCourse(p)'
      BY <1>0, <2>8, <3>1 DEF OnCourse, CopiesFresh, InTurn, HalfWay, Handling
    <3>3. rows'[1].plan = plan /\ rows'[1].status = c.status
      BY <2>7 DEF new
    <3>4. /\ c.status = "active" => tenant' = [plan |-> plan, status |-> "active"]
          /\ c.status = "trialing" => tenant' = [plan |-> plan, status |-> "trial"]
          /\ c.status = "past_due" => tenant'.status = "past_due"
          /\ c.status = "canceled" => tenant' = [plan |-> "evaluation", status |-> "cancelled"]
      BY <1>0, <2>6 DEF Mirror, mirror, Tenants
    <3>5. Says(c)'
      BY <2>3, <2>6, <2>7, <2>10, <3>3, <3>4 DEF Says, c, Sync
    <3>6. Mirrored'
      BY <1>0, <2>1, <2>2, <2>6, <3>1, <3>5, NewestSays DEF c
    <3> QED BY <2>1, <2>8, <3>2, <3>6, AloneStep
  <2> QED BY <2>1, <2>9, <2>10 DEF Sync, c
<1>14. ASSUME NEW p \in Processes, Downgrade(p) PROVE Ordered'
  <2> DEFINE new == [plan |-> "evaluation", status |-> "cancelled"]
  <2>1. /\ at[p] = "downgrading" /\ loaded[p] = tenant /\ Alone(p)
        /\ sent[ev[p]].type = "deleted" /\ Len(rows) = 1 /\ rows[1].status = sent[ev[p]].status
        /\ ev[p] \in logged \ done /\ \A e \in logged : e <= ev[p]
    BY <1>1, <1>14, BusyIsAlone DEF Downgrade, OnCourse, CopiesFresh, InTurn, HalfWay, Handling
  <2>2. new \in Tenants
    BY DEF Tenants, TenantStatus
  <2>3. /\ tenant' = new /\ loaded' = [loaded EXCEPT ![p] = new]
        /\ at' = [at EXCEPT ![p] = "answering"] /\ done' = done \cup {ev[p]}
        /\ UNCHANGED <<rows, logged, sent, ev, rid, row>>
    BY <1>0, <1>14, <2>1, <2>2, MergeFresh DEF Downgrade, WriteTenant, Goto
  <2>4. Moves(p) /\ OnCourse(p)' /\ Serial'
    BY <1>0, <1>1, <2>3 DEF Moves, OnCourse, CopiesFresh, InTurn, HalfWay, Serial, Handling
  <2>5. Says(sent[ev[p]])'
    BY <2>1, <2>3 DEF Says
  <2>6. Mirrored'
    BY <1>0, <2>1, <2>3, <2>5, NewestSays
  <2> QED BY <2>1, <2>4, <2>6, AloneStep
<1>15. ASSUME NEW p \in Processes, PaymentFailed(p) PROVE Ordered'
  <2> DEFINE new == [tenant EXCEPT !.status = "past_due"]
             newrow == [rows[1] EXCEPT !.status = "past_due"]
  <2>1. /\ at[p] = "queried" /\ sent[ev[p]].type = "failed" /\ loaded[p] = tenant /\ Alone(p)
        /\ rid[p] = Len(rows) /\ (rows # <<>> => row[p] = rows[1])
        /\ ev[p] \in logged \ done /\ (\A e \in logged : e <= ev[p]) /\ Attributed(ev[p])
    BY <1>1, <1>15, BusyIsAlone DEF PaymentFailed, OnCourse, CopiesFresh, InTurn, HalfWay, Handling
  <2>2. rid[p] = 1 /\ Len(rows) = 1 /\ row[p] = rows[1]
    BY <1>0, <1>2, <2>1 DEF Attributed, Sync
  <2>3. rows[1] \in Rows
    BY <1>0, <2>2, ElementOfSeq
  <2>4. new \in Tenants /\ newrow \in Rows /\ new.status = "past_due" /\ newrow.status = "past_due"
    BY <1>0, <2>3 DEF Tenants, TenantStatus, Rows, AllStatuses
  <2>5. /\ tenant' = new /\ loaded' = [loaded EXCEPT ![p] = new]
        /\ at' = [at EXCEPT ![p] = "answering"] /\ done' = done \cup {ev[p]}
        /\ UNCHANGED <<logged, sent, ev, rid, row>>
    BY <1>0, <1>15, <2>1, <2>4, MergeFresh DEF PaymentFailed, WriteTenant, Goto
  <2>6. rows' = [rows EXCEPT ![1] = newrow]
    <3>1. rows' = [rows EXCEPT ![1] = Merge(rows[1], rows[1], newrow)]
      BY <1>15, <2>2 DEF PaymentFailed, WriteRow
    <3> QED BY <2>3, <2>4, <3>1, MergeFresh
  <2> HIDE DEF new, newrow
  <2>7. Len(rows') = 1 /\ rows'[1] = newrow
    BY <1>0, <2>2, <2>4, <2>6, ExceptSeq
  <2>8. Moves(p) /\ OnCourse(p)' /\ Serial'
    BY <1>0, <1>1, <2>5, <2>7 DEF Moves, OnCourse, CopiesFresh, InTurn, HalfWay, Serial, Handling
  <2>9. Says(sent[ev[p]])'
    BY <2>1, <2>4, <2>5, <2>7 DEF Says, Sync
  <2>10. Mirrored'
    BY <1>0, <2>1, <2>5, <2>9, NewestSays
  <2> QED BY <2>1, <2>8, <2>10, AloneStep
<1> QED
  BY <1>3, <1>5, <1>6, <1>7, <1>8, <1>9, <1>10, <1>11, <1>12, <1>13, <1>14, <1>15, <1>16 DEF Next, Step

LEMMA OrderInvariant == Spec => []OrderInv
  BY InitOrder, OrderStep, Invariant, PTL DEF Spec

(* As long as the events came one by one and in order, the tenant has what  *)
(* the last event says whose handler ended, and one row tells the same, for *)
(* any number of processes and events, crashes and refused commits.         *)
THEOREM OrderIsMirrored == Spec => []MirrorsInOrder
<1>1. OrderInv => MirrorsInOrder
  BY DEF OrderInv, Ordered, Mirrored, MirrorsInOrder
<1> QED BY <1>1, OrderInvariant, PTL
=============================================================================
