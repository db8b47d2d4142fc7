------------------------ MODULE WebhookDeliveryProofs ------------------------
(***************************************************************************)
(* What the webhook dispatcher guarantees for any number of subscriptions, *)
(* events and threads and for any values of its limits, however stale the  *)
(* copies are that its commits are computed from.                          *)
(***************************************************************************)
EXTENDS WebhookDelivery, TLAPS

(* The object a 2xx was noted on is one the table can hold. *)
LEMMA SuccessColumns ==
  ASSUME NEW c \in Columns
  PROVE  /\ Success(c) \in Columns
         /\ Success(c).active = c.active
         /\ Success(c).failures = 0
         /\ Success(c).until = "none"
  BY DEF Success, Columns, Until

(* So is the object a failure was noted on: one more failure, and a pause   *)
(* only if the attempt was the last.                                        *)
LEMMA FailureColumns ==
  ASSUME NEW c \in Columns, NEW n \in Nat
  PROVE  /\ Failure(c, n) \in Columns
         /\ Failure(c, n).failures = c.failures + 1
         /\ ~OutOfBudget(n) => Failure(c, n).until = c.until
         /\ OutOfBudget(n) => Failure(c, n).until = "future"
         /\ Failure(c, n).active =
              (c.active /\ ~TooMany(c.failures + 1))
  <1> DEFINE a == c.active /\ ~TooMany(c.failures + 1)
             u == IF OutOfBudget(n) THEN "future" ELSE c.until
  <1>1. a \in BOOLEAN
    OBVIOUS
  <1>2. c.failures + 1 \in Nat /\ u \in Until
    BY DEF Columns, Until
  <1>3. Failure(c, n) = [active |-> a, failures |-> c.failures + 1, until |-> u]
    BY DEF Failure
  <1> HIDE DEF a, u
  <1>4. /\ Failure(c, n) \in Columns
        /\ Failure(c, n).active = a
        /\ Failure(c, n).failures = c.failures + 1
        /\ Failure(c, n).until = u
    BY <1>1, <1>2, <1>3 DEF Columns
  <1> QED
    BY <1>4 DEF a, u

(* A commit leaves a row the table can hold, with each column taken from    *)
(* the object or left alone.                                                *)
LEMMA MergeColumns ==
  ASSUME NEW r \in Columns, NEW noted \in Columns, NEW ks
  PROVE  /\ Merge(r, noted, ks) \in Columns
         /\ Merge(r, noted, ks).active = IF "active" \in ks THEN noted.active ELSE r.active
         /\ Merge(r, noted, ks).failures = IF "failures" \in ks THEN noted.failures ELSE r.failures
         /\ Merge(r, noted, ks).until = IF "until" \in ks THEN noted.until ELSE r.until
  BY DEF Merge, Columns

(* A column is written only if the object differs from what was loaded. *)
LEMMA ChangedColumns ==
  ASSUME NEW c \in Columns, NEW noted \in Columns
  PROVE  /\ "active" \in Changed(c, noted) => noted.active # c.active
         /\ "failures" \in Changed(c, noted) => noted.failures # c.failures
         /\ "until" \in Changed(c, noted) => noted.until # c.until
  BY DEF Changed, Columns

(* What Commit does to the row of its subscription. *)
LEMMA CommitRow ==
  ASSUME TypeOK, HandlerSub, NEW t \in Threads, Commit(t)
  PROVE  LET s == cur[t]  c == copy[t][s]  r == row[s]
         IN /\ s \in Subs /\ ev[t] \in Events
            /\ row' \in [Subs -> Columns]
            /\ \A x \in Subs \ {s} : row'[x] = row[x]
            /\ row'[s].failures \in {r.failures, c.failures + 1, 0}
            /\ at[t] = "accepted" => row'[s].failures \in {r.failures, 0}
            /\ row'[s].until # "none" =>
                 \/ r.until # "none"
                 \/ at[t] = "rejected" /\ OutOfBudget(num[t])
            /\ r.active /\ ~row'[s].active =>
                 at[t] = "rejected" /\ TooMany(c.failures + 1)
<1> DEFINE s == cur[t]
           c == copy[t][s]
           r == row[s]
           ok == at[t] = "accepted"
           noted == IF ok THEN Success(c) ELSE Failure(c, num[t])
           ks == Changed(c, noted) \cup Paused(t, ok)
<1>1. s \in Subs /\ ev[t] \in Events /\ at[t] \in {"accepted", "rejected"}
  BY DEF HandlerSub, Commit, InFlight
<1>2. c \in Columns /\ r \in Columns /\ num[t] \in Nat
  BY <1>1 DEF TypeOK
<1>3. row' = [row EXCEPT ![s] = Merge(r, noted, ks)]
  BY DEF Commit, Write
<1> HIDE DEF s, c, r
<1>4. noted \in Columns
  BY <1>2, SuccessColumns, FailureColumns
<1>5. "active" \in ks => noted.active # c.active
  BY <1>2, <1>4, ChangedColumns DEF Paused
<1>6. "until" \in ks => noted.until # c.until \/ (~ok /\ OutOfBudget(num[t]))
  BY <1>2, <1>4, ChangedColumns DEF Paused
<1>7. /\ noted.active # c.active => ~ok /\ TooMany(c.failures + 1)
      /\ noted.failures = IF ok THEN 0 ELSE c.failures + 1
      /\ noted.until # c.until /\ noted.until # "none" => ~ok /\ OutOfBudget(num[t])
  <2>1. CASE ok
    BY <2>1, <1>2, SuccessColumns
  <2>2. CASE ~ok
    <3>1. noted = Failure(c, num[t]) /\ c.active \in BOOLEAN
      BY <2>2, <1>2 DEF Columns
    <3>2. /\ noted.active = (c.active /\ ~TooMany(c.failures + 1))
          /\ noted.failures = c.failures + 1
          /\ ~OutOfBudget(num[t]) => noted.until = c.until
      <4>1. /\ Failure(c, num[t]).active = (c.active /\ ~TooMany(c.failures + 1))
            /\ Failure(c, num[t]).failures = c.failures + 1
            /\ ~OutOfBudget(num[t]) => Failure(c, num[t]).until = c.until
        BY <1>2, FailureColumns
      <4> HIDE DEF noted
      <4> QED
        BY <4>1, <3>1
    <3> QED
      BY <2>2, <3>1, <3>2
  <2> QED
    BY <2>1, <2>2
<1> DEFINE m == Merge(r, noted, ks)
<1>8. /\ m \in Columns
      /\ m.active = IF "active" \in ks THEN noted.active ELSE r.active
      /\ m.failures = IF "failures" \in ks THEN noted.failures ELSE r.failures
      /\ m.until = IF "until" \in ks THEN noted.until ELSE r.until
  BY <1>2, <1>4, MergeColumns
<1> HIDE DEF m, ks, noted
<1>9. /\ row' \in [Subs -> Columns] /\ row'[s] = m
      /\ \A x \in Subs \ {s} : row'[x] = row[x]
  BY <1>1, <1>3, <1>8 DEF TypeOK, s, m
<1>10. m.failures \in {r.failures, c.failures + 1, 0} /\ (ok => m.failures \in {r.failures, 0})
  BY <1>7, <1>8
<1>11. m.until # "none" => r.until # "none" \/ (~ok /\ OutOfBudget(num[t]))
  BY <1>6, <1>7, <1>8
<1>12. r.active /\ ~m.active => ~ok /\ TooMany(c.failures + 1)
  BY <1>5, <1>7, <1>8
<1> QED
  BY <1>1, <1>9, <1>10, <1>11, <1>12 DEF s, c, r

(* The part of TypeOK that is about the threads. *)
LocalOK ==
  /\ at \in [Threads -> {"idle", "loop"} \cup InFlight \cup Patching]
  /\ ev \in [Threads -> Events \cup {NoEvent}]
  /\ num \in [Threads -> Nat \ {0}]
  /\ todo \in [Threads -> SUBSET Subs]
  /\ cur \in [Threads -> Subs \cup {NoSub}]
  /\ copy \in [Threads -> [Subs -> Columns]]

(* The columns of a row that was just inserted. *)
LEMMA FreshColumns == Fresh \in Columns
  BY DEF Fresh, Columns, Until

(* A thread that is placed, and keeps or loads its copy, stays typed. *)
LEMMA PlaceType ==
  ASSUME LocalOK, row \in [Subs -> Columns], NEW t \in Threads,
         NEW l \in {"idle", "loop"} \cup InFlight \cup Patching,
         NEW e \in Events \cup {NoEvent}, NEW n \in Nat \ {0},
         NEW ss \in SUBSET Subs, NEW s \in Subs \cup {NoSub},
         Place(t, l, e, n, ss, s),
         UNCHANGED copy \/ Load(t) \/ copy' = [copy EXCEPT ![t] = [x \in Subs |-> Fresh]]
  PROVE  LocalOK'
  <1>1. [x \in Subs |-> Fresh] \in [Subs -> Columns]
    BY FreshColumns
  <1> QED
    BY <1>1 DEF LocalOK, Place, Load

(* So does a thread that leaves its handler, ... *)
LEMMA ReleaseType ==
  ASSUME LocalOK, row \in [Subs -> Columns], NEW t \in Threads, Release(t)
  PROVE  LocalOK'
<1>1. /\ Place(t, "idle", NoEvent, 1, {}, NoSub)
      /\ copy' = [copy EXCEPT ![t] = [x \in Subs |-> Fresh]]
  BY DEF Release
<1>2. /\ "idle" \in {"idle", "loop"} \cup InFlight \cup Patching
      /\ NoEvent \in Events \cup {NoEvent} /\ 1 \in Nat \ {0}
      /\ {} \in SUBSET Subs /\ NoSub \in Subs \cup {NoSub}
  OBVIOUS
<1> QED
  BY <1>1, <1>2, PlaceType

(* ... and one that goes on in its loop. *)
LEMMA AdvanceType ==
  ASSUME LocalOK, row \in [Subs -> Columns], NEW t \in Threads, NEW s, Advance(t, s)
  PROVE  LocalOK'
<1>1. CASE todo[t] = {s}
  BY <1>1, ReleaseType DEF Advance
<1>2. CASE todo[t] # {s}
  <2>1. /\ Place(t, "loop", ev[t], num[t], todo[t] \ {s}, NoSub)
        /\ UNCHANGED copy
    BY <1>2 DEF Advance
  <2>2. /\ ev[t] \in Events \cup {NoEvent} /\ num[t] \in Nat \ {0}
        /\ todo[t] \ {s} \in SUBSET Subs
    BY DEF LocalOK
  <2> QED
    BY <2>1, <2>2, PlaceType
<1> QED
  BY <1>1, <1>2

(* Every step keeps the threads typed. *)
LEMMA LocalStep == TypeOK /\ HandlerSub /\ [Next]_vars => LocalOK'
<1> SUFFICES ASSUME TypeOK, HandlerSub, [Next]_vars PROVE LocalOK'
  OBVIOUS
<1>a. LocalOK /\ row \in [Subs -> Columns]
  BY DEF TypeOK, LocalOK
<1>b. ASSUME UNCHANGED local PROVE LocalOK'
  BY <1>a, <1>b DEF LocalOK, local
<1>1. ASSUME NEW t \in Threads, NEW e \in Events, Dispatch(t, e) PROVE LocalOK'
  <2> DEFINE subs == {s \in Subs : Live(s) /\ row[s].active}
  <2>1. CASE subs = {}
    BY <1>1, <2>1, <1>b DEF Dispatch
  <2>2. CASE subs # {}
    <3>1. Place(t, "loop", e, 1, subs, NoSub) /\ Load(t)
      BY <1>1, <2>2 DEF Dispatch
    <3>2. subs \in SUBSET Subs
      OBVIOUS
    <3> HIDE DEF subs
    <3> QED
      BY <1>a, <3>1, <3>2, PlaceType
  <2> QED
    BY <2>1, <2>2
<1>2. ASSUME NEW t \in Threads, NEW s \in Subs, Skip(t, s) PROVE LocalOK'
  BY <1>2, <1>a, AdvanceType DEF Skip
<1>3. ASSUME NEW t \in Threads, NEW s \in Subs, SkipRaises(t, s) PROVE LocalOK'
  BY <1>3, <1>a, ReleaseType DEF SkipRaises
<1>4. ASSUME NEW t \in Threads, NEW s \in Subs, InsertFails(t, s) PROVE LocalOK'
  BY <1>4, <1>a, ReleaseType DEF InsertFails
<1>5. ASSUME NEW t \in Threads, NEW s \in Subs, Unsigned(t, s) PROVE LocalOK'
  BY <1>5, <1>a, AdvanceType DEF Unsigned
<1>6. ASSUME NEW t \in Threads, NEW s \in Subs, Flush(t, s) PROVE LocalOK'
  <2>1. Place(t, "sending", ev[t], num[t], todo[t], s) /\ UNCHANGED copy
    BY <1>6 DEF Flush
  <2>2. /\ ev[t] \in Events \cup {NoEvent} /\ num[t] \in Nat \ {0}
        /\ todo[t] \in SUBSET Subs /\ "sending" \in InFlight
    BY DEF TypeOK, InFlight
  <2> QED
    BY <1>a, <2>1, <2>2, PlaceType
<1>7. ASSUME NEW t \in Threads, Post(t) PROVE LocalOK'
  <2>1. PICK l \in {"accepted", "rejected"} :
          Place(t, l, ev[t], num[t], todo[t], cur[t])
    BY <1>7 DEF Post
  <2>2. /\ ev[t] \in Events \cup {NoEvent} /\ num[t] \in Nat \ {0}
        /\ todo[t] \in SUBSET Subs /\ cur[t] \in Subs \cup {NoSub}
        /\ l \in {"idle", "loop"} \cup InFlight \cup Patching
    BY DEF TypeOK, InFlight
  <2>3. UNCHANGED copy
    BY <1>7 DEF Post
  <2> QED
    BY <1>a, <2>1, <2>2, <2>3, PlaceType
<1>8. ASSUME NEW t \in Threads, Commit(t) PROVE LocalOK'
  BY <1>8, <1>a, AdvanceType DEF Commit
<1>9. ASSUME NEW t \in Threads, PatchCommit(t) PROVE LocalOK'
  BY <1>9, <1>a, ReleaseType DEF PatchCommit
<1>10. ASSUME NEW t \in Threads, Crash(t) PROVE LocalOK'
  BY <1>10, <1>a, ReleaseType DEF Crash
<1>11. ASSUME NEW t \in Threads, NEW s \in Subs, Retry(t, s) PROVE LocalOK'
  <2>1. PICK d \in log[s] : Place(t, "loop", d.event, d.n + 1, {s}, NoSub)
    BY <1>11 DEF Retry
  <2>2. d \in Delivery
    BY DEF TypeOK
  <2>3. d.event \in Events /\ d.n + 1 \in Nat \ {0} /\ {s} \in SUBSET Subs
    BY <2>2 DEF Delivery
  <2>4. Load(t)
    BY <1>11 DEF Retry
  <2> QED
    BY <1>a, <2>1, <2>3, <2>4, PlaceType
<1>12. ASSUME NEW t \in Threads, NEW s \in Subs, PatchLoad(t, s) PROVE LocalOK'
  <2>1. PICK l \in Patching : Place(t, l, NoEvent, 1, {}, s)
    BY <1>12 DEF PatchLoad
  <2>2. Load(t)
    BY <1>12 DEF PatchLoad
  <2>3. l \in {"idle", "loop"} \cup InFlight \cup Patching
    OBVIOUS
  <2>4. /\ NoEvent \in Events \cup {NoEvent} /\ 1 \in Nat \ {0}
        /\ {} \in SUBSET Subs /\ s \in Subs \cup {NoSub}
    OBVIOUS
  <2> QED
    BY <1>a, <2>1, <2>2, <2>3, <2>4, PlaceType
<1>13. ASSUME NEW s \in Subs, Create(s) PROVE LocalOK'
  BY <1>13, <1>b DEF Create, tables, aux
<1>14. ASSUME NEW s \in Subs, Delete(s) PROVE LocalOK'
  BY <1>14, <1>b DEF Delete, tables, aux
<1>15. ASSUME NEW s \in Subs, PauseExpires(s) PROVE LocalOK'
  BY <1>15, <1>b DEF PauseExpires, tables, aux
<1>16. CASE UNCHANGED vars
  BY <1>16, <1>b DEF vars
<1> QED
  BY <1>1, <1>2, <1>3, <1>4, <1>5, <1>6, <1>7, <1>8, <1>9, <1>10, <1>11, <1>12, <1>13, <1>14, <1>15, <1>16
  DEF Next, ThreadStep, Loop

(* The columns of every row stay typed. *)
LEMMA RowStep == TypeOK /\ HandlerSub /\ [Next]_vars => row' \in [Subs -> Columns]
<1> SUFFICES ASSUME TypeOK, HandlerSub, [Next]_vars
             PROVE  row' \in [Subs -> Columns]
  OBVIOUS
<1>1. ASSUME NEW t \in Threads, NEW e \in Events, Dispatch(t, e) PROVE row' \in [Subs -> Columns]
  BY <1>1 DEF Dispatch, tables, TypeOK
<1>2. ASSUME NEW t \in Threads, NEW s \in Subs, Skip(t, s) PROVE row' \in [Subs -> Columns]
  BY <1>2 DEF Skip, tables, TypeOK
<1>3. ASSUME NEW t \in Threads, NEW s \in Subs, SkipRaises(t, s) PROVE row' \in [Subs -> Columns]
  BY <1>3 DEF SkipRaises, tables, TypeOK
<1>4. ASSUME NEW t \in Threads, NEW s \in Subs, InsertFails(t, s) PROVE row' \in [Subs -> Columns]
  BY <1>4 DEF InsertFails, tables, TypeOK
<1>5. ASSUME NEW t \in Threads, NEW s \in Subs, Unsigned(t, s) PROVE row' \in [Subs -> Columns]
  BY <1>5 DEF Unsigned, tables, TypeOK
<1>6. ASSUME NEW t \in Threads, NEW s \in Subs, Flush(t, s) PROVE row' \in [Subs -> Columns]
  BY <1>6 DEF Flush, tables, TypeOK
<1>7. ASSUME NEW t \in Threads, Post(t) PROVE row' \in [Subs -> Columns]
  BY <1>7 DEF Post, tables, TypeOK
<1>8. ASSUME NEW t \in Threads, Commit(t) PROVE row' \in [Subs -> Columns]
  BY <1>8, CommitRow
<1>9. ASSUME NEW t \in Threads, PatchCommit(t) PROVE row' \in [Subs -> Columns]
  <2> DEFINE s == cur[t]
             c == copy[t][s]
             noted == IF at[t] = "enabling" THEN Fresh ELSE [c EXCEPT !.active = FALSE]
  <2>1. CASE Live(s)
    <3>1. row' = [row EXCEPT ![s] = Merge(row[s], noted, Changed(c, noted))]
      BY <1>9, <2>1 DEF PatchCommit, Write
    <3>2. s \in Subs
      BY <1>9 DEF PatchCommit, HandlerSub
    <3>3. c \in Columns /\ row[s] \in Columns
      BY <3>2 DEF TypeOK
    <3>4. noted \in Columns
      BY <3>3, FreshColumns DEF Columns
    <3> HIDE DEF s, c, noted
    <3>5. Merge(row[s], noted, Changed(c, noted)) \in Columns
      BY <3>3, <3>4, MergeColumns
    <3> QED
      BY <3>1, <3>2, <3>5 DEF TypeOK
  <2>2. CASE ~Live(s)
    BY <1>9, <2>2 DEF PatchCommit, TypeOK
  <2> QED
    BY <2>1, <2>2
<1>10. ASSUME NEW t \in Threads, Crash(t) PROVE row' \in [Subs -> Columns]
  BY <1>10 DEF Crash, tables, TypeOK
<1>11. ASSUME NEW t \in Threads, NEW s \in Subs, Retry(t, s) PROVE row' \in [Subs -> Columns]
  BY <1>11 DEF Retry, tables, TypeOK
<1>12. ASSUME NEW t \in Threads, NEW s \in Subs, PatchLoad(t, s) PROVE row' \in [Subs -> Columns]
  BY <1>12 DEF PatchLoad, tables, TypeOK
<1>13. ASSUME NEW s \in Subs, Create(s) PROVE row' \in [Subs -> Columns]
  <2>1. PICK a \in BOOLEAN : row' = [row EXCEPT ![s].active = a]
    BY <1>13 DEF Create
  <2>2. row[s] \in Columns
    BY DEF TypeOK
  <2>3. [row[s] EXCEPT !.active = a] \in Columns
    BY <2>2 DEF Columns
  <2> QED
    BY <2>1, <2>3 DEF TypeOK
<1>14. ASSUME NEW s \in Subs, Delete(s) PROVE row' \in [Subs -> Columns]
  BY <1>14, FreshColumns DEF Delete, TypeOK
<1>15. ASSUME NEW s \in Subs, PauseExpires(s) PROVE row' \in [Subs -> Columns]
  <2>0. row[s] \in Columns
    BY DEF TypeOK
  <2>1. [row[s] EXCEPT !.until = "past"] \in Columns
    BY <2>0 DEF Columns, Until
  <2> QED
    BY <1>15, <2>1 DEF PauseExpires, TypeOK
<1>16. CASE UNCHANGED vars
  BY <1>16 DEF vars, tables, TypeOK
<1> QED
  BY <1>1, <1>2, <1>3, <1>4, <1>5, <1>6, <1>7, <1>8, <1>9, <1>10, <1>11, <1>12, <1>13, <1>14, <1>15, <1>16
  DEF Next, ThreadStep, Loop


(* The rest of TypeOK. *)
Rest ==
  /\ state \in [Subs -> {"absent", "live", "deleted"}]
  /\ log \in [Subs -> SUBSET Delivery]
  /\ failed \in [Subs -> Nat]
  /\ selected \in [Events -> SUBSET Subs]
  /\ published \subseteq Events /\ crashed \subseteq Events
  /\ retries \in 0 .. MaxRetries /\ patches \in 0 .. MaxPatches /\ naive \in BOOLEAN

(* Every step keeps the deliveries, the events and the counters typed. *)
LEMMA RestStep == TypeOK /\ HandlerSub /\ [Next]_vars => Rest'
<1> SUFFICES ASSUME TypeOK, HandlerSub, [Next]_vars PROVE Rest'
  OBVIOUS
<1>c. MaxRetries \in Nat /\ MaxPatches \in Nat
  BY ConstantsAssumption
<1>1. ASSUME NEW t \in Threads, NEW e \in Events, Dispatch(t, e) PROVE Rest'
  <2> DEFINE subs == {s \in Subs : Live(s) /\ row[s].active}
  <2>1. selected' = [selected EXCEPT ![e] = {s \in subs : row[s].until # "future"}]
    BY <1>1 DEF Dispatch
  <2>2. published' = published \cup {e}
    BY <1>1 DEF Dispatch
  <2>3. UNCHANGED <<tables, failed, crashed, retries, patches, naive>>
    BY <1>1 DEF Dispatch
  <2> QED
    BY <2>1, <2>2, <2>3 DEF Rest, TypeOK, tables
<1>2. ASSUME NEW t \in Threads, NEW s \in Subs, Skip(t, s) PROVE Rest'
  BY <1>2, <1>c DEF Skip, tables, aux, Rest, TypeOK
<1>3. ASSUME NEW t \in Threads, NEW s \in Subs, SkipRaises(t, s) PROVE Rest'
  BY <1>3, <1>c DEF SkipRaises, tables, aux, Rest, TypeOK
<1>4. ASSUME NEW t \in Threads, NEW s \in Subs, InsertFails(t, s) PROVE Rest'
  BY <1>4, <1>c DEF InsertFails, tables, aux, Rest, TypeOK
<1>5. ASSUME NEW t \in Threads, NEW s \in Subs, Unsigned(t, s) PROVE Rest'
  <2>1. Entry(t, "unsigned") \in Delivery
    BY <1>5 DEF Entry, Delivery, Result, TypeOK, HandlerSub, Unsigned, Reaches, InFlight
  <2> QED
    BY <1>5, <1>c, <2>1 DEF Unsigned, Rest, TypeOK, aux
<1>6. ASSUME NEW t \in Threads, NEW s \in Subs, Flush(t, s) PROVE Rest'
  BY <1>6, <1>c DEF Flush, tables, aux, Rest, TypeOK
<1>7. ASSUME NEW t \in Threads, Post(t) PROVE Rest'
  BY <1>7, <1>c DEF Post, tables, aux, Rest, TypeOK
<1>8. ASSUME NEW t \in Threads, Commit(t) PROVE Rest'
  <2> DEFINE res == IF at[t] = "accepted" THEN "ok" ELSE "failed"
  <2>1. Entry(t, res) \in Delivery
    BY <1>8, CommitRow DEF Entry, Delivery, Result, TypeOK
  <2>2. log' = [log EXCEPT ![cur[t]] = @ \cup {Entry(t, res)}]
    BY <1>8 DEF Commit
  <2>3. failed' = [failed EXCEPT ![cur[t]] = IF at[t] = "accepted" THEN @ ELSE @ + 1]
    BY <1>8 DEF Commit
  <2>4. UNCHANGED <<state, published, selected, crashed, retries, patches, naive>>
    BY <1>8 DEF Commit
  <2>5. cur[t] \in Subs
    BY <1>8, CommitRow
  <2> HIDE DEF res
  <2> QED
    BY <2>1, <2>2, <2>3, <2>4, <2>5 DEF Rest, TypeOK
<1>9. ASSUME NEW t \in Threads, PatchCommit(t) PROVE Rest'
  BY <1>9, <1>c DEF PatchCommit, tables, aux, Rest, TypeOK
<1>10. ASSUME NEW t \in Threads, Crash(t) PROVE Rest'
  BY <1>10, <1>c DEF Crash, tables, aux, Rest, TypeOK
<1>11. ASSUME NEW t \in Threads, NEW s \in Subs, Retry(t, s) PROVE Rest'
  BY <1>11, <1>c DEF Retry, tables, aux, Rest, TypeOK
<1>12. ASSUME NEW t \in Threads, NEW s \in Subs, PatchLoad(t, s) PROVE Rest'
  BY <1>12, <1>c DEF PatchLoad, tables, aux, Rest, TypeOK
<1>13. ASSUME NEW s \in Subs, Create(s) PROVE Rest'
  BY <1>13, <1>c DEF Create, tables, aux, Rest, TypeOK
<1>14. ASSUME NEW s \in Subs, Delete(s) PROVE Rest'
  BY <1>14, <1>c DEF Delete, tables, aux, Rest, TypeOK
<1>15. ASSUME NEW s \in Subs, PauseExpires(s) PROVE Rest'
  BY <1>15, <1>c DEF PauseExpires, tables, aux, Rest, TypeOK
<1>16. CASE UNCHANGED vars
  BY <1>16 DEF vars, tables, aux, Rest, TypeOK
<1> QED
  BY <1>1, <1>2, <1>3, <1>4, <1>5, <1>6, <1>7, <1>8, <1>9, <1>10, <1>11, <1>12, <1>13, <1>14, <1>15, <1>16
  DEF Next, ThreadStep, Loop


(* Every step keeps the tables and the threads typed. *)
LEMMA TypeStep == TypeOK /\ HandlerSub /\ [Next]_vars => TypeOK'
  BY LocalStep, RowStep, RestStep DEF TypeOK, LocalOK, Rest

(* No step takes the event or the subscription from a handler that works    *)
(* on it: in flight, the subscription cannot be deleted.                    *)
LEMMA HandlerStep == TypeOK /\ HandlerSub /\ [Next]_vars => HandlerSub'
<1> SUFFICES ASSUME TypeOK, HandlerSub, [Next]_vars PROVE HandlerSub'
  OBVIOUS
<1> USE ConstantsAssumption DEF TypeOK, HandlerSub, InFlight, Patching, Live
<1> USE DEF tables, local, aux, Place, Release, Load, Reaches
<1>v. ASSUME NEW t \in Threads, NEW s, at[t] \in {"loop"} \cup InFlight, Advance(t, s),
             UNCHANGED state
      PROVE  HandlerSub'
  <2>1. CASE todo[t] = {s}
    <3>1. Place(t, "idle", NoEvent, 1, {}, NoSub)
      BY <1>v, <2>1 DEF Advance
    <3> HIDE DEF Release
    <3> QED
      BY <1>v, <3>1
  <2>2. CASE todo[t] # {s}
    BY <1>v, <2>2 DEF Advance
  <2> QED
    BY <2>1, <2>2
<1>1. ASSUME NEW t \in Threads, NEW e \in Events, Dispatch(t, e) PROVE HandlerSub'
  BY <1>1 DEF Dispatch
<1>2. ASSUME NEW t \in Threads, NEW s \in Subs, Skip(t, s) PROVE HandlerSub'
  BY <1>2, <1>v DEF Skip
<1>3. ASSUME NEW t \in Threads, NEW s \in Subs, SkipRaises(t, s) PROVE HandlerSub'
  BY <1>3 DEF SkipRaises
<1>4. ASSUME NEW t \in Threads, NEW s \in Subs, InsertFails(t, s) PROVE HandlerSub'
  BY <1>4 DEF InsertFails
<1>5. ASSUME NEW t \in Threads, NEW s \in Subs, Unsigned(t, s) PROVE HandlerSub'
  BY <1>5, <1>v DEF Unsigned
<1>6. ASSUME NEW t \in Threads, NEW s \in Subs, Flush(t, s) PROVE HandlerSub'
  BY <1>6 DEF Flush
<1>7. ASSUME NEW t \in Threads, Post(t) PROVE HandlerSub'
  BY <1>7 DEF Post
<1>8. ASSUME NEW t \in Threads, Commit(t) PROVE HandlerSub'
  BY <1>8, <1>v DEF Commit
<1>9. ASSUME NEW t \in Threads, PatchCommit(t) PROVE HandlerSub'
  BY <1>9 DEF PatchCommit
<1>10. ASSUME NEW t \in Threads, Crash(t) PROVE HandlerSub'
  BY <1>10 DEF Crash
<1>11. ASSUME NEW t \in Threads, NEW s \in Subs, Retry(t, s) PROVE HandlerSub'
  <2>1. PICK d \in log[s] : Place(t, "loop", d.event, d.n + 1, {s}, NoSub)
    BY <1>11 DEF Retry
  <2>2. d.event \in Events
    BY DEF Delivery
  <2> QED
    BY <1>11, <2>1, <2>2 DEF Retry
<1>12. ASSUME NEW t \in Threads, NEW s \in Subs, PatchLoad(t, s) PROVE HandlerSub'
  BY <1>12 DEF PatchLoad
<1>13. ASSUME NEW s \in Subs, Create(s) PROVE HandlerSub'
  BY <1>13 DEF Create
<1>14. ASSUME NEW s \in Subs, Delete(s) PROVE HandlerSub'
  BY <1>14 DEF Delete, Locked
<1>15. ASSUME NEW s \in Subs, PauseExpires(s) PROVE HandlerSub'
  BY <1>15 DEF PauseExpires
<1>16. CASE UNCHANGED vars
  BY <1>16 DEF vars
<1> QED
  BY <1>1, <1>2, <1>3, <1>4, <1>5, <1>6, <1>7, <1>8, <1>9, <1>10, <1>11, <1>12, <1>13, <1>14, <1>15, <1>16
  DEF Next, ThreadStep, Loop


(* No step invents a failure: a commit raises the counter by one at most,   *)
(* from a copy that was not above the number of failures either.            *)
LEMMA RealStep ==
  TypeOK /\ HandlerSub /\ FailuresAreReal /\ [Next]_vars => FailuresAreReal'
<1> SUFFICES ASSUME TypeOK, HandlerSub, FailuresAreReal, [Next]_vars
             PROVE  FailuresAreReal'
  OBVIOUS
<1>f. Fresh.failures = 0 /\ [s \in Subs |-> Fresh] \in [Subs -> Columns]
  BY FreshColumns DEF Fresh
<1>n. /\ \A x \in Subs : row[x].failures \in Nat /\ row[x].failures <= failed[x]
      /\ \A u \in Threads, x \in Subs :
           copy[u][x].failures \in Nat /\ copy[u][x].failures <= failed[x]
      /\ \A x \in Subs : failed[x] \in Nat
  BY DEF FailuresAreReal, TypeOK, Columns
<1>u. ASSUME UNCHANGED <<row, failed>>,
             NEW t \in Threads,
             \/ UNCHANGED copy \/ Load(t)
             \/ copy' = [copy EXCEPT ![t] = [x \in Subs |-> Fresh]]
      PROVE  FailuresAreReal'
  <2>1. /\ row \in [Subs -> Columns]
        /\ copy \in [Threads -> [Subs -> Columns]]
    BY DEF TypeOK
  <2>2. \A v \in Threads, x \in Subs :
          copy'[v][x].failures \in {copy[v][x].failures, row[x].failures, 0}
    BY <2>1, <1>f, <1>u DEF Load
  <2>3. \A v \in Threads, x \in Subs : copy'[v][x].failures <= failed[x]
    BY <2>2, <1>n
  <2> QED
    BY <2>3, <1>u, <1>n DEF FailuresAreReal
<1>v. ASSUME NEW t \in Threads, NEW s, Advance(t, s)
      PROVE  UNCHANGED copy \/ copy' = [copy EXCEPT ![t] = [x \in Subs |-> Fresh]]
  BY <1>v DEF Advance, Release
<1>w. ASSUME \A s \in Subs : row'[s].failures = row[s].failures \/ row'[s].failures = 0,
             UNCHANGED <<failed, copy>>
      PROVE  FailuresAreReal'
  BY <1>n, <1>w DEF FailuresAreReal
<1>1. ASSUME NEW t \in Threads, NEW e \in Events, Dispatch(t, e) PROVE FailuresAreReal'
  <2>1. UNCHANGED <<row, failed>> /\ (UNCHANGED copy \/ Load(t))
    BY <1>1 DEF Dispatch, tables, local
  <2> QED
    BY <2>1, <1>u
<1>2. ASSUME NEW t \in Threads, NEW s \in Subs, Skip(t, s) PROVE FailuresAreReal'
  BY <1>2, <1>u, <1>v DEF Skip, tables, aux
<1>3. ASSUME NEW t \in Threads, NEW s \in Subs, SkipRaises(t, s) PROVE FailuresAreReal'
  BY <1>3, <1>u DEF SkipRaises, tables, aux, Release
<1>4. ASSUME NEW t \in Threads, NEW s \in Subs, InsertFails(t, s) PROVE FailuresAreReal'
  BY <1>4, <1>u DEF InsertFails, tables, aux, Release
<1>5. ASSUME NEW t \in Threads, NEW s \in Subs, Unsigned(t, s) PROVE FailuresAreReal'
  BY <1>5, <1>u, <1>v DEF Unsigned, tables, aux
<1>6. ASSUME NEW t \in Threads, NEW s \in Subs, Flush(t, s) PROVE FailuresAreReal'
  BY <1>6, <1>u DEF Flush, tables, aux
<1>7. ASSUME NEW t \in Threads, Post(t) PROVE FailuresAreReal'
  BY <1>7, <1>u DEF Post, tables, aux
<1>8. ASSUME NEW t \in Threads, Commit(t) PROVE FailuresAreReal'
  <2> DEFINE s == cur[t]
  <2>1. /\ s \in Subs /\ row' \in [Subs -> Columns]
        /\ \A x \in Subs \ {s} : row'[x] = row[x]
        /\ row'[s].failures \in {row[s].failures, copy[t][s].failures + 1, 0}
        /\ at[t] = "accepted" => row'[s].failures \in {row[s].failures, 0}
    BY <1>8, CommitRow
  <2>2. failed' = [failed EXCEPT ![s] = IF at[t] = "accepted" THEN @ ELSE @ + 1]
    BY <1>8 DEF Commit
  <2>3. /\ \A x \in Subs : failed[x] <= failed'[x] /\ failed'[x] \in Nat
        /\ at[t] # "accepted" => failed'[s] = failed[s] + 1
    BY <2>1, <2>2 DEF TypeOK
  <2>5. \A x \in Subs : row'[x].failures <= failed'[x]
    <3>1. row'[s].failures <= failed'[s]
      BY <2>1, <2>3, <1>n
    <3> QED
      BY <2>1, <2>3, <1>n, <3>1
  <2>6. \A u \in Threads, x \in Subs : copy'[u][x].failures <= failed'[x]
    <3>1. UNCHANGED copy \/ copy' = [copy EXCEPT ![t] = [x \in Subs |-> Fresh]]
      BY <1>8, <1>v DEF Commit
    <3> QED
      <4>1. copy \in [Threads -> [Subs -> Columns]]
        BY DEF TypeOK
      <4>2. \A u \in Threads, x \in Subs :
              copy'[u][x].failures \in {copy[u][x].failures, 0}
        BY <4>1, <3>1, <1>f
      <4>3. \A x \in Subs : failed'[x] >= failed[x]
        BY <2>3, <1>n
      <4> QED
        BY <4>2, <4>3, <2>3, <1>n
  <2> QED
    BY <2>5, <2>6 DEF FailuresAreReal
<1>9. ASSUME NEW t \in Threads, PatchCommit(t) PROVE FailuresAreReal'
  <2> DEFINE s == cur[t]
             c == copy[t][s]
             noted == IF at[t] = "enabling" THEN Fresh ELSE [c EXCEPT !.active = FALSE]
  <2>0. s \in Subs /\ c \in Columns /\ row[s] \in Columns
    BY <1>9 DEF PatchCommit, HandlerSub, TypeOK
  <2>1. /\ noted \in Columns
        /\ noted.failures = 0 \/ noted.failures = c.failures
    BY <2>0, FreshColumns, <1>f DEF Columns
  <2>2. CASE Live(s)
    <3>1. row' = [row EXCEPT ![s] = Merge(row[s], noted, Changed(c, noted))]
      BY <1>9, <2>2 DEF PatchCommit, Write
    <3> HIDE DEF s, c, noted
    <3>2. Merge(row[s], noted, Changed(c, noted)).failures \in {0, row[s].failures}
      BY <2>0, <2>1, MergeColumns, ChangedColumns
    <3>3. \A x \in Subs : row'[x].failures \in {row[x].failures, 0}
      BY <2>0, <3>1, <3>2 DEF TypeOK
    <3>4. UNCHANGED failed
      BY <1>9 DEF PatchCommit, aux
    <3>5. copy' = [copy EXCEPT ![t] = [x \in Subs |-> Fresh]]
      BY <1>9 DEF PatchCommit, Release
    <3> QED
      <4>1. \A x \in Subs : row'[x].failures <= failed'[x]
        BY <1>n, <3>3, <3>4
      <4>2. \A u \in Threads, x \in Subs : copy'[u][x].failures <= failed'[x]
        BY <1>n, <1>f, <3>4, <3>5 DEF TypeOK
      <4> QED
        BY <4>1, <4>2 DEF FailuresAreReal
  <2>3. CASE ~Live(s)
    BY <1>9, <1>u, <2>3 DEF PatchCommit, Release, aux
  <2> QED
    BY <2>2, <2>3
<1>10. ASSUME NEW t \in Threads, Crash(t) PROVE FailuresAreReal'
  BY <1>10, <1>u DEF Crash, tables, aux, Release
<1>11. ASSUME NEW t \in Threads, NEW s \in Subs, Retry(t, s) PROVE FailuresAreReal'
  BY <1>11, <1>u DEF Retry, tables, aux
<1>12. ASSUME NEW t \in Threads, NEW s \in Subs, PatchLoad(t, s) PROVE FailuresAreReal'
  BY <1>12, <1>u DEF PatchLoad, tables, aux
<1>13. ASSUME NEW s \in Subs, Create(s) PROVE FailuresAreReal'
  <2>1. PICK a \in BOOLEAN : row' = [row EXCEPT ![s].active = a]
    BY <1>13 DEF Create
  <2>2. \A x \in Subs : row'[x].failures = row[x].failures
    BY <2>1 DEF TypeOK, Columns
  <2> QED
    BY <1>13, <1>w, <2>2 DEF Create, local, aux
<1>14. ASSUME NEW s \in Subs, Delete(s) PROVE FailuresAreReal'
  <2>1. \A x \in Subs : row'[x].failures \in {row[x].failures, 0}
    BY <1>14, <1>f DEF Delete, TypeOK, Columns
  <2> QED
    BY <1>14, <1>w, <2>1 DEF Delete, local
<1>15. ASSUME NEW s \in Subs, PauseExpires(s) PROVE FailuresAreReal'
  <2>1. \A x \in Subs : row'[x].failures = row[x].failures
    BY <1>15 DEF PauseExpires, TypeOK, Columns
  <2> QED
    BY <1>15, <1>w, <2>1 DEF PauseExpires, local, aux
<1>16. CASE UNCHANGED vars
  BY <1>16 DEF vars, tables, local, aux, FailuresAreReal
<1> QED
  BY <1>1, <1>2, <1>3, <1>4, <1>5, <1>6, <1>7, <1>8, <1>9, <1>10, <1>11, <1>12, <1>13, <1>14, <1>15, <1>16
  DEF Next, ThreadStep, Loop

(* No step pauses a subscription without leaving the failed delivery that   *)
(* used up the budget, and none removes that delivery from a paused one.    *)
LEMMA PausedStep ==
  TypeOK /\ HandlerSub /\ PausedWithCause /\ [Next]_vars => PausedWithCause'
<1> SUFFICES ASSUME TypeOK, HandlerSub, PausedWithCause, [Next]_vars
             PROVE  PausedWithCause'
  OBVIOUS
<1>w. ASSUME \A s \in Subs : row'[s].until # "none" => row[s].until # "none",
             \A s \in Subs : log[s] \subseteq log'[s]
      PROVE  PausedWithCause'
  BY <1>w DEF PausedWithCause, UsedUp
<1>f. Fresh.until = "none"
  BY DEF Fresh
<1>1. ASSUME NEW t \in Threads, NEW e \in Events, Dispatch(t, e) PROVE PausedWithCause'
  BY <1>1, <1>w DEF Dispatch, tables
<1>2. ASSUME NEW t \in Threads, NEW s \in Subs, Skip(t, s) PROVE PausedWithCause'
  BY <1>2, <1>w DEF Skip, tables
<1>3. ASSUME NEW t \in Threads, NEW s \in Subs, SkipRaises(t, s) PROVE PausedWithCause'
  BY <1>3, <1>w DEF SkipRaises, tables
<1>4. ASSUME NEW t \in Threads, NEW s \in Subs, InsertFails(t, s) PROVE PausedWithCause'
  BY <1>4, <1>w DEF InsertFails, tables
<1>5. ASSUME NEW t \in Threads, NEW s \in Subs, Unsigned(t, s) PROVE PausedWithCause'
  <2>1. \A x \in Subs : log[x] \subseteq log'[x]
    BY <1>5 DEF Unsigned, TypeOK
  <2> QED
    BY <1>5, <1>w, <2>1 DEF Unsigned
<1>6. ASSUME NEW t \in Threads, NEW s \in Subs, Flush(t, s) PROVE PausedWithCause'
  BY <1>6, <1>w DEF Flush, tables
<1>7. ASSUME NEW t \in Threads, Post(t) PROVE PausedWithCause'
  BY <1>7, <1>w DEF Post, tables
<1>8. ASSUME NEW t \in Threads, Commit(t) PROVE PausedWithCause'
  <2> DEFINE s == cur[t]
             d == Entry(t, IF at[t] = "accepted" THEN "ok" ELSE "failed")
  <2>1. /\ s \in Subs
        /\ \A x \in Subs \ {s} : row'[x] = row[x]
        /\ row'[s].until # "none" =>
             row[s].until # "none" \/ (at[t] = "rejected" /\ OutOfBudget(num[t]))
    BY <1>8, CommitRow
  <2>2. log' = [log EXCEPT ![s] = @ \cup {d}]
    BY <1>8 DEF Commit
  <2>3. \A x \in Subs : log[x] \subseteq log'[x]
    BY <2>1, <2>2 DEF TypeOK
  <2>4. at[t] = "rejected" /\ OutOfBudget(num[t]) =>
          d \in log'[s] /\ d.n >= MaxAttempts /\ d.result = "failed"
    BY <2>1, <2>2 DEF TypeOK, Entry, OutOfBudget
  <2>5. ASSUME NEW x \in Subs, row'[x].until # "none"
        PROVE  \E y \in log'[x] : y.n >= MaxAttempts /\ y.result = "failed"
    <3>1. CASE x = s /\ row[s].until = "none"
      BY <2>1, <2>4, <2>5, <3>1
    <3>2. CASE x # s \/ row[s].until # "none"
      <4>1. row[x].until # "none"
        BY <2>1, <2>5, <3>2
      <4> QED
        BY <4>1, <2>3 DEF PausedWithCause, UsedUp
    <3> QED
      BY <3>1, <3>2
  <2> QED
    BY <2>5 DEF PausedWithCause, UsedUp
<1>9. ASSUME NEW t \in Threads, PatchCommit(t) PROVE PausedWithCause'
  <2> DEFINE s == cur[t]
             c == copy[t][s]
             noted == IF at[t] = "enabling" THEN Fresh ELSE [c EXCEPT !.active = FALSE]
  <2>0. s \in Subs /\ c \in Columns /\ row[s] \in Columns
    BY <1>9 DEF PatchCommit, HandlerSub, TypeOK
  <2>1. /\ noted \in Columns
        /\ noted.until = "none" \/ noted.until = c.until
    BY <2>0, FreshColumns, <1>f DEF Columns
  <2>2. CASE Live(s)
    <3>1. row' = [row EXCEPT ![s] = Merge(row[s], noted, Changed(c, noted))]
      BY <1>9, <2>2 DEF PatchCommit, Write
    <3> HIDE DEF s, c, noted
    <3>2. Merge(row[s], noted, Changed(c, noted)).until \in {"none", row[s].until}
      BY <2>0, <2>1, MergeColumns, ChangedColumns
    <3>3. \A x \in Subs : row'[x].until \in {row[x].until, "none"}
      BY <2>0, <3>1, <3>2 DEF TypeOK
    <3> QED
      BY <1>9, <1>w, <3>3 DEF PatchCommit
  <2>3. CASE ~Live(s)
    BY <1>9, <1>w, <2>3 DEF PatchCommit
  <2> QED
    BY <2>2, <2>3
<1>10. ASSUME NEW t \in Threads, Crash(t) PROVE PausedWithCause'
  BY <1>10, <1>w DEF Crash, tables
<1>11. ASSUME NEW t \in Threads, NEW s \in Subs, Retry(t, s) PROVE PausedWithCause'
  BY <1>11, <1>w DEF Retry, tables
<1>12. ASSUME NEW t \in Threads, NEW s \in Subs, PatchLoad(t, s) PROVE PausedWithCause'
  BY <1>12, <1>w DEF PatchLoad, tables
<1>13. ASSUME NEW s \in Subs, Create(s) PROVE PausedWithCause'
  <2>1. PICK a \in BOOLEAN : row' = [row EXCEPT ![s].active = a]
    BY <1>13 DEF Create
  <2>2. \A x \in Subs : row'[x].until = row[x].until
    BY <2>1 DEF TypeOK, Columns
  <2> QED
    BY <1>13, <1>w, <2>2 DEF Create
<1>14. ASSUME NEW s \in Subs, Delete(s) PROVE PausedWithCause'
  <2>1. row'[s].until = "none"
    BY <1>14, <1>f DEF Delete, TypeOK
  <2>2. \A x \in Subs \ {s} : row'[x] = row[x] /\ log'[x] = log[x]
    BY <1>14 DEF Delete, TypeOK
  <2> QED
    BY <2>1, <2>2 DEF PausedWithCause, UsedUp
<1>15. ASSUME NEW s \in Subs, PauseExpires(s) PROVE PausedWithCause'
  <2>1. \A x \in Subs : row'[x].until # "none" => row[x].until # "none"
    BY <1>15 DEF PauseExpires, TypeOK
  <2> QED
    BY <1>15, <1>w, <2>1 DEF PauseExpires
<1>16. CASE UNCHANGED vars
  BY <1>16, <1>w DEF vars, tables
<1> QED
  BY <1>1, <1>2, <1>3, <1>4, <1>5, <1>6, <1>7, <1>8, <1>9, <1>10, <1>11, <1>12, <1>13, <1>14, <1>15, <1>16
  DEF Next, ThreadStep, Loop

(* No step breaks the numbering of the attempts: what a retry continues can *)
(* only disappear together with its subscription, which never comes back.   *)
LEMMA ChainStep ==
  TypeOK /\ HandlerSub /\ ChainInv /\ [Next]_vars => ChainInv'
<1> SUFFICES ASSUME TypeOK, HandlerSub, ChainInv, [Next]_vars
             PROVE  ChainInv'
  OBVIOUS
<1> DEFINE Same(u) == /\ at'[u] = at[u] /\ ev'[u] = ev[u] /\ num'[u] = num[u]
                      /\ todo'[u] = todo[u] /\ cur'[u] = cur[u]
           Grows == /\ UNCHANGED state
                    /\ \A s \in Subs : log[s] \subseteq log'[s]
                    /\ \A s \in Subs : \A d \in log'[s] \ log[s] :
                         d.n > 1 => Recorded(s, d.event, d.n - 1)
           Own(t) ==
             \/ at'[t] \notin {"loop"} \cup InFlight
             \/ num'[t] = 1
             \/ \E s \in Subs :
                  /\ todo'[t] = {s}
                  /\ at'[t] \in InFlight =>
                       cur'[t] = s /\ Recorded(s, ev'[t], num'[t] - 1)
                  /\ at'[t] = "loop" /\ Live(s) => Recorded(s, ev'[t], num'[t] - 1)
<1>i. /\ \A s \in Subs : \A d \in log[s] : d.n > 1 => Recorded(s, d.event, d.n - 1)
      /\ \A t \in Threads : at[t] \in InFlight /\ num[t] > 1 =>
           Recorded(cur[t], ev[t], num[t] - 1)
      /\ \A t \in Threads : Retries(t) =>
           \E s \in Subs :
             /\ todo[t] = {s}
             /\ at[t] \in InFlight => cur[t] = s
             /\ at[t] = "loop" /\ Live(s) => Recorded(s, ev[t], num[t] - 1)
  BY DEF ChainInv, AttemptChain
<1>k. /\ "loop" \notin InFlight
      /\ \A t \in Threads : num[t] # 1 => num[t] > 1
      /\ \A t \in Threads : num[t] \in Nat /\ todo[t] \subseteq Subs
      /\ \A t \in Threads : at[t] \in InFlight => cur[t] \in Subs
  <2>1. \A n \in Nat \ {0} : n # 1 => n > 1
    OBVIOUS
  <2>2. \A t \in Threads : num[t] \in Nat \ {0} /\ todo[t] \subseteq Subs
    BY DEF TypeOK
  <2> QED
    BY <2>1, <2>2 DEF InFlight, HandlerSub
(* Rows were only added, each continuing another, and one thread moved.     *)
<1>w. ASSUME Grows, NEW t \in Threads, Own(t), \A u \in Threads \ {t} : Same(u)
      PROVE  ChainInv'
  <2>1. ASSUME NEW s \in Subs, NEW e, NEW n, Recorded(s, e, n)
        PROVE  \E d \in log'[s] : d.event = e /\ d.n = n
    BY <1>w, <2>1 DEF Recorded
  <2>2. ASSUME NEW s \in Subs, NEW d \in log'[s], d.n > 1
        PROVE  \E x \in log'[s] : x.event = d.event /\ x.n = d.n - 1
    <3>1. Recorded(s, d.event, d.n - 1)
      BY <1>w, <1>i, <2>2
    <3> QED
      BY <3>1, <2>1
  <2>3. ASSUME NEW u \in Threads, at'[u] \in InFlight, num'[u] > 1
        PROVE  \E x \in log'[cur'[u]] : x.event = ev'[u] /\ x.n = num'[u] - 1
    <3>1. cur'[u] \in Subs /\ Recorded(cur'[u], ev'[u], num'[u] - 1)
      BY <1>w, <1>i, <1>k, <2>3
    <3> QED
      BY <3>1, <2>1
  <2>4. ASSUME NEW u \in Threads, at'[u] \in {"loop"} \cup InFlight, num'[u] > 1
        PROVE  \E s \in Subs :
                 /\ todo'[u] = {s}
                 /\ at'[u] \in InFlight => cur'[u] = s
                 /\ at'[u] = "loop" /\ Live(s)' =>
                      \E x \in log'[s] : x.event = ev'[u] /\ x.n = num'[u] - 1
    <3>1. \E s \in Subs :
            /\ todo'[u] = {s}
            /\ at'[u] \in InFlight => cur'[u] = s
            /\ at'[u] = "loop" /\ Live(s) => Recorded(s, ev'[u], num'[u] - 1)
      BY <1>w, <1>i, <2>4 DEF Retries
    <3> QED
      BY <3>1, <2>1, <1>w DEF Live
  <2> QED
    BY <2>2, <2>3, <2>4 DEF ChainInv, AttemptChain, Recorded, Retries
(* Nothing but a thread moved.                                              *)
<1>g. ASSUME UNCHANGED <<state, log>> PROVE Grows
  BY <1>g
<1>same. ASSUME UNCHANGED <<state, log, local>> PROVE ChainInv'
  BY <1>same DEF ChainInv, AttemptChain, Recorded, Retries, Live, local
<1>p. ASSUME NEW t \in Threads, NEW l, NEW e, NEW n, NEW ss, NEW s, Place(t, l, e, n, ss, s)
      PROVE  /\ at'[t] = l /\ ev'[t] = e /\ num'[t] = n /\ todo'[t] = ss /\ cur'[t] = s
             /\ \A u \in Threads \ {t} : Same(u)
  BY <1>p DEF Place, TypeOK
<1>r. ASSUME NEW t \in Threads, Release(t)
      PROVE  Own(t) /\ \A u \in Threads \ {t} : Same(u)
  BY <1>r, <1>p DEF Release, InFlight
<1>a. ASSUME NEW t \in Threads, NEW s, Advance(t, s), num[t] = 1 \/ todo[t] = {s}
      PROVE  Own(t) /\ \A u \in Threads \ {t} : Same(u)
  <2>1. CASE todo[t] = {s}
    BY <1>a, <1>r, <2>1 DEF Advance
  <2>2. CASE todo[t] # {s}
    BY <1>a, <1>p, <2>2 DEF Advance
  <2> QED
    BY <2>1, <2>2
<1> HIDE DEF Grows, Own, Same
<1>1. ASSUME NEW t \in Threads, NEW e \in Events, Dispatch(t, e) PROVE ChainInv'
  <2> DEFINE subs == {s \in Subs : Live(s) /\ row[s].active}
  <2>1. Grows
    BY <1>1, <1>g DEF Dispatch, tables
  <2>2. CASE subs = {}
    <3>1. UNCHANGED local /\ UNCHANGED tables
      BY <1>1, <2>2 DEF Dispatch
    <3> QED
      BY <3>1, <1>same DEF tables
  <2>3. CASE subs # {}
    <3>1. Place(t, "loop", e, 1, subs, NoSub)
      BY <1>1, <2>3 DEF Dispatch
    <3>2. Own(t) /\ \A u \in Threads \ {t} : Same(u)
      BY <3>1, <1>p DEF Own
    <3> QED
      BY <2>1, <3>2, <1>w
  <2> QED
    BY <2>2, <2>3
<1>2. ASSUME NEW t \in Threads, NEW s \in Subs, Skip(t, s) PROVE ChainInv'
  <2>1. num[t] = 1 /\ Advance(t, s)
    BY <1>2 DEF Skip
  <2> QED
    BY <1>2, <2>1, <1>a, <1>g, <1>w DEF Skip, tables
<1>3. ASSUME NEW t \in Threads, NEW s \in Subs, SkipRaises(t, s) PROVE ChainInv'
  BY <1>3, <1>r, <1>g, <1>w DEF SkipRaises, tables
<1>4. ASSUME NEW t \in Threads, NEW s \in Subs, InsertFails(t, s) PROVE ChainInv'
  BY <1>4, <1>r, <1>g, <1>w DEF InsertFails, tables
<1>5. ASSUME NEW t \in Threads, NEW s \in Subs, Unsigned(t, s) PROVE ChainInv'
  <2>1. at[t] = "loop" /\ s \in todo[t] /\ Live(s) /\ Advance(t, s)
    BY <1>5 DEF Unsigned, Reaches
  <2>2. num[t] # 1 => todo[t] = {s} /\ Recorded(s, ev[t], num[t] - 1)
    BY <1>i, <1>k, <2>1 DEF Retries
  <2>3. Grows
    BY <1>5, <2>2 DEF Unsigned, Entry, TypeOK, Grows
  <2> QED
    BY <2>1, <2>2, <2>3, <1>a, <1>w
<1>6. ASSUME NEW t \in Threads, NEW s \in Subs, Flush(t, s) PROVE ChainInv'
  <2>1. /\ at[t] = "loop" /\ s \in todo[t] /\ Live(s)
        /\ Place(t, "sending", ev[t], num[t], todo[t], s)
    BY <1>6 DEF Flush, Reaches
  <2>2. num[t] # 1 => todo[t] = {s} /\ Recorded(s, ev[t], num[t] - 1)
    BY <1>i, <1>k, <2>1 DEF Retries
  <2>3. Own(t) /\ \A u \in Threads \ {t} : Same(u)
    BY <2>1, <2>2, <1>p DEF Own
  <2> QED
    BY <1>6, <2>3, <1>g, <1>w DEF Flush, tables
<1>7. ASSUME NEW t \in Threads, Post(t) PROVE ChainInv'
  <2>1. PICK l \in {"accepted", "rejected"} :
          Place(t, l, ev[t], num[t], todo[t], cur[t])
    BY <1>7 DEF Post
  <2>2. at[t] \in InFlight
    BY <1>7 DEF Post, InFlight
  <2>3. num[t] # 1 => /\ \E s \in Subs : todo[t] = {s} /\ cur[t] = s
                      /\ Recorded(cur[t], ev[t], num[t] - 1)
    BY <1>i, <1>k, <2>2 DEF Retries
  <2>4. /\ at'[t] = l /\ ev'[t] = ev[t] /\ num'[t] = num[t]
        /\ todo'[t] = todo[t] /\ cur'[t] = cur[t]
        /\ \A u \in Threads \ {t} : Same(u)
    BY <2>1, <1>p
  <2>5. Own(t)
    BY <2>3, <2>4 DEF Own
  <2> QED
    BY <1>7, <2>4, <2>5, <1>g, <1>w DEF Post, tables
<1>8. ASSUME NEW t \in Threads, Commit(t) PROVE ChainInv'
  <2> DEFINE d == Entry(t, IF at[t] = "accepted" THEN "ok" ELSE "failed")
  <2>1. at[t] \in InFlight /\ cur[t] \in Subs /\ Advance(t, cur[t])
    BY <1>8, <1>k DEF Commit, InFlight
  <2>2. num[t] # 1 => todo[t] = {cur[t]} /\ Recorded(cur[t], ev[t], num[t] - 1)
    BY <1>i, <1>k, <2>1 DEF Retries
  <2>3. log' = [log EXCEPT ![cur[t]] = @ \cup {d}] /\ UNCHANGED state
    BY <1>8 DEF Commit
  <2>4. d.event = ev[t] /\ d.n = num[t]
    BY DEF Entry
  <2> HIDE DEF d
  <2>5. Grows
    BY <2>1, <2>2, <2>3, <2>4 DEF TypeOK, Grows
  <2> QED
    BY <2>1, <2>2, <2>5, <1>a, <1>w
<1>9. ASSUME NEW t \in Threads, PatchCommit(t) PROVE ChainInv'
  BY <1>9, <1>r, <1>g, <1>w DEF PatchCommit
<1>10. ASSUME NEW t \in Threads, Crash(t) PROVE ChainInv'
  BY <1>10, <1>r, <1>g, <1>w DEF Crash, tables
<1>11. ASSUME NEW t \in Threads, NEW s \in Subs, Retry(t, s) PROVE ChainInv'
  <2>1. PICK d \in log[s] : Place(t, "loop", d.event, d.n + 1, {s}, NoSub)
    BY <1>11 DEF Retry
  <2>2. d.n \in Nat
    BY DEF TypeOK, Delivery
  <2>3. Recorded(s, d.event, (d.n + 1) - 1)
    BY <2>2 DEF Recorded
  <2>4. Own(t) /\ \A u \in Threads \ {t} : Same(u)
    BY <2>1, <2>3, <1>p, <1>k DEF Own
  <2> QED
    BY <1>11, <2>4, <1>g, <1>w DEF Retry, tables
<1>12. ASSUME NEW t \in Threads, NEW s \in Subs, PatchLoad(t, s) PROVE ChainInv'
  <2>1. PICK l \in Patching : Place(t, l, NoEvent, 1, {}, s)
    BY <1>12 DEF PatchLoad
  <2>2. Own(t) /\ \A u \in Threads \ {t} : Same(u)
    BY <2>1, <1>p DEF Own
  <2> QED
    BY <1>12, <2>2, <1>g, <1>w DEF PatchLoad, tables
<1>13. ASSUME NEW s \in Subs, Create(s) PROVE ChainInv'
  <2>1. /\ state[s] = "absent" /\ state' = [state EXCEPT ![s] = "live"]
        /\ UNCHANGED <<log, at, ev, num, todo, cur>>
    BY <1>13 DEF Create, local
  <2>2. \A t \in Threads : s \notin todo[t]
    BY <2>1 DEF HandlerSub
  <2>3. \A x \in Subs \ {s} : Live(x)' <=> Live(x)
    BY <2>1 DEF Live, TypeOK
  <2>4. AttemptChain'
    BY <2>1, <1>i DEF AttemptChain, Recorded
  <2>5. ASSUME NEW u \in Threads, Retries(u)'
        PROVE  \E x \in Subs :
                 /\ todo'[u] = {x}
                 /\ at'[u] \in InFlight => cur'[u] = x
                 /\ at'[u] = "loop" /\ Live(x)' => Recorded(x, ev[u], num[u] - 1)
    BY <1>i, <2>1, <2>2, <2>3, <2>5 DEF Retries
  <2> QED
    BY <2>1, <2>4, <2>5 DEF ChainInv, Recorded
<1>14. ASSUME NEW s \in Subs, Delete(s) PROVE ChainInv'
  <2>1. /\ log' = [log EXCEPT ![s] = {}] /\ state' = [state EXCEPT ![s] = "deleted"]
        /\ UNCHANGED <<at, ev, num, todo, cur>>
        /\ \A t \in Threads : at[t] \in InFlight => cur[t] # s
    BY <1>14 DEF Delete, local, Locked
  <2>2. /\ \A x \in Subs \ {s} : log'[x] = log[x] /\ (Live(x)' <=> Live(x))
        /\ log'[s] = {} /\ ~Live(s)'
    BY <2>1 DEF Live, TypeOK
  <2>3. ASSUME NEW x \in Subs, NEW d \in log'[x], d.n > 1
        PROVE  \E y \in log'[x] : y.event = d.event /\ y.n = d.n - 1
    BY <1>i, <2>2, <2>3 DEF Recorded
  <2>4. ASSUME NEW u \in Threads, at[u] \in InFlight, num[u] > 1
        PROVE  \E y \in log'[cur[u]] : y.event = ev[u] /\ y.n = num[u] - 1
    BY <1>i, <1>k, <2>1, <2>2, <2>4 DEF Recorded
  <2>5. ASSUME NEW u \in Threads, Retries(u)
        PROVE  \E x \in Subs :
                 /\ todo[u] = {x}
                 /\ at[u] \in InFlight => cur[u] = x
                 /\ at[u] = "loop" /\ Live(x)' =>
                      \E y \in log'[x] : y.event = ev[u] /\ y.n = num[u] - 1
    BY <1>i, <2>2, <2>5 DEF Recorded
  <2> QED
    BY <2>1, <2>3, <2>4, <2>5 DEF ChainInv, AttemptChain, Recorded, Retries
<1>15. ASSUME NEW s \in Subs, PauseExpires(s) PROVE ChainInv'
  BY <1>15, <1>same DEF PauseExpires
<1>16. CASE UNCHANGED vars
  BY <1>16, <1>same DEF vars, tables
<1> QED
  BY <1>1, <1>2, <1>3, <1>4, <1>5, <1>6, <1>7, <1>8, <1>9, <1>10, <1>11, <1>12, <1>13, <1>14, <1>15, <1>16
  DEF Next, ThreadStep, Loop

(* The invariant holds before the first subscription is created. *)
LEMMA InitInv == Init => DeliveryInv
<1> SUFFICES ASSUME Init PROVE DeliveryInv
  OBVIOUS
<1> USE ConstantsAssumption DEF Init
<1>1. TypeOK
  BY FreshColumns DEF TypeOK
<1>2. HandlerSub /\ ChainInv
  BY DEF HandlerSub, ChainInv, AttemptChain, Retries, InFlight, Patching
<1>3. FailuresAreReal /\ PausedWithCause
  BY DEF FailuresAreReal, PausedWithCause, Fresh
<1> QED
  BY <1>1, <1>2, <1>3 DEF DeliveryInv

(* The whole invariant is kept by every handler, whatever copies the others *)
(* work from, and by every crash.                                           *)
THEOREM Invariant == Spec => []DeliveryInv
<1>1. Init => DeliveryInv
  BY InitInv
<1>2. DeliveryInv /\ [Next]_vars => DeliveryInv'
  BY TypeStep, HandlerStep, RealStep, PausedStep, ChainStep DEF DeliveryInv
<1> QED
  BY <1>1, <1>2, PTL DEF Spec

(* Rows, copies and threads stay typed: in particular the failure counter   *)
(* is a natural number although it is written from stale copies.            *)
THEOREM TypeCorrect == Spec => []TypeOK
<1>1. DeliveryInv => TypeOK
  BY DEF DeliveryInv
<1> QED
  BY <1>1, Invariant, PTL

(* However many publishers deliver to a subscription at once, its           *)
(* consecutive_failures never exceeds the number of failed deliveries.      *)
THEOREM NoInventedFailure == Spec => []FailuresAreReal
<1>1. DeliveryInv => FailuresAreReal
  BY DEF DeliveryInv
<1> QED
  BY <1>1, Invariant, PTL

(* A subscription with disabled_until set has a failed delivery on record   *)
(* that used up its retry budget.                                           *)
THEOREM PauseIsEarned == Spec => []PausedWithCause
<1>1. DeliveryInv => PausedWithCause
  BY DEF DeliveryInv
<1> QED
  BY <1>1, Invariant, PTL

(* The attempts of an event at a subscription are numbered without a gap.   *)
THEOREM AttemptsAreChained == Spec => []AttemptChain
<1>1. DeliveryInv => AttemptChain
  BY DEF DeliveryInv, ChainInv
<1> QED
  BY <1>1, Invariant, PTL

(* The automatic deactivation never strikes early: only the administrator's *)
(* PATCH, or a commit with at least HardLimit failed deliveries behind it,  *)
(* takes is_active away.                                                    *)
LEMMA DeactivationStep ==
  ASSUME DeliveryInv, [Next]_vars, NEW x \in Subs,
         Live(x), state'[x] = "live", row[x].active, ~row'[x].active
  PROVE  \/ failed'[x] >= HardLimit
         \/ \E t \in Threads : at[t] = "disabling" /\ cur[t] = x
<1> USE DEF DeliveryInv
<1> DEFINE Goal == \/ failed'[x] >= HardLimit
                   \/ \E t \in Threads : at[t] = "disabling" /\ cur[t] = x
<1>0. row' # row
  OBVIOUS
<1>1. ASSUME NEW t \in Threads, NEW e \in Events, Dispatch(t, e) PROVE Goal
  BY <1>1, <1>0 DEF Dispatch, tables
<1>2. ASSUME NEW t \in Threads, NEW s \in Subs, Skip(t, s) PROVE Goal
  BY <1>2, <1>0 DEF Skip, tables
<1>3. ASSUME NEW t \in Threads, NEW s \in Subs, SkipRaises(t, s) PROVE Goal
  BY <1>3, <1>0 DEF SkipRaises, tables
<1>4. ASSUME NEW t \in Threads, NEW s \in Subs, InsertFails(t, s) PROVE Goal
  BY <1>4, <1>0 DEF InsertFails, tables
<1>5. ASSUME NEW t \in Threads, NEW s \in Subs, Unsigned(t, s) PROVE Goal
  BY <1>5, <1>0 DEF Unsigned, tables
<1>6. ASSUME NEW t \in Threads, NEW s \in Subs, Flush(t, s) PROVE Goal
  BY <1>6, <1>0 DEF Flush, tables
<1>7. ASSUME NEW t \in Threads, Post(t) PROVE Goal
  BY <1>7, <1>0 DEF Post, tables
<1>8. ASSUME NEW t \in Threads, Commit(t) PROVE Goal
  <2> DEFINE s == cur[t]
  <2>1. /\ s \in Subs /\ \A y \in Subs \ {s} : row'[y] = row[y]
        /\ row[s].active /\ ~row'[s].active =>
             at[t] = "rejected" /\ TooMany(copy[t][s].failures + 1)
    BY <1>8, CommitRow
  <2>2. x = s
    BY <2>1
  <2>3. at[t] = "rejected" /\ copy[t][s].failures + 1 >= HardLimit
    BY <2>1, <2>2 DEF TooMany
  <2>4. failed'[s] = failed[s] + 1
    BY <1>8, <2>1, <2>3 DEF Commit, TypeOK
  <2>5. /\ copy[t][s].failures <= failed[s] /\ copy[t][s].failures \in Nat
        /\ failed[s] \in Nat /\ HardLimit \in Nat
    BY <2>1, ConstantsAssumption DEF FailuresAreReal, TypeOK, Columns
  <2> QED
    BY <2>2, <2>3, <2>4, <2>5
<1>9. ASSUME NEW t \in Threads, PatchCommit(t) PROVE Goal
  <2> DEFINE s == cur[t]
             c == copy[t][s]
             noted == IF at[t] = "enabling" THEN Fresh ELSE [c EXCEPT !.active = FALSE]
  <2>0. s \in Subs /\ c \in Columns /\ row[s] \in Columns
    BY <1>9 DEF PatchCommit, HandlerSub, TypeOK
  <2>1. CASE at[t] = "enabling" /\ Live(s)
    <3>1. row' = [row EXCEPT ![s] = Merge(row[s], noted, Changed(c, noted))]
      BY <1>9, <2>1 DEF PatchCommit, Write
    <3>2. noted \in Columns /\ noted.active = TRUE
      BY <2>1, FreshColumns DEF Fresh
    <3> HIDE DEF s, c, noted
    <3>3. Merge(row[s], noted, Changed(c, noted)).active =
            IF "active" \in Changed(c, noted) THEN noted.active ELSE row[s].active
      BY <2>0, <3>2, MergeColumns
    <3>4. row[x].active => row'[x].active
      BY <2>0, <3>1, <3>2, <3>3 DEF TypeOK
    <3> QED
      BY <3>4
  <2>2. CASE at[t] = "disabling" /\ Live(s)
    <3>1. \A y \in Subs \ {s} : row'[y] = row[y]
      BY <1>9, <2>2 DEF PatchCommit, Write, TypeOK
    <3> QED
      BY <2>2, <3>1
  <2>3. CASE ~Live(s)
    BY <1>9, <1>0, <2>3 DEF PatchCommit
  <2> QED
    BY <1>9, <2>1, <2>2, <2>3 DEF PatchCommit, Patching
<1>10. ASSUME NEW t \in Threads, Crash(t) PROVE Goal
  BY <1>10, <1>0 DEF Crash, tables
<1>11. ASSUME NEW t \in Threads, NEW s \in Subs, Retry(t, s) PROVE Goal
  BY <1>11, <1>0 DEF Retry, tables
<1>12. ASSUME NEW t \in Threads, NEW s \in Subs, PatchLoad(t, s) PROVE Goal
  BY <1>12, <1>0 DEF PatchLoad, tables
<1>13. ASSUME NEW s \in Subs, Create(s) PROVE Goal
  <2>1. s # x
    BY <1>13 DEF Create, Live
  <2> QED
    BY <1>13, <2>1 DEF Create, TypeOK
<1>14. ASSUME NEW s \in Subs, Delete(s) PROVE Goal
  <2>1. s # x
    BY <1>14 DEF Delete, TypeOK
  <2> QED
    BY <1>14, <2>1 DEF Delete, TypeOK
<1>15. ASSUME NEW s \in Subs, PauseExpires(s) PROVE Goal
  BY <1>15 DEF PauseExpires, TypeOK, Columns
<1>16. CASE UNCHANGED vars
  BY <1>16, <1>0 DEF vars, tables, tables
<1> QED
  BY <1>1, <1>2, <1>3, <1>4, <1>5, <1>6, <1>7, <1>8, <1>9, <1>10, <1>11, <1>12, <1>13, <1>14, <1>15, <1>16
  DEF Next, ThreadStep, Loop


(* So is_active is lost for a cause in every behaviour. *)
THEOREM DeactivationIsEarned == Spec => DeactivatedWithCause
<1>1. DeliveryInv /\ [Next]_vars =>
        [\A s \in Subs : Live(s) /\ state'[s] = "live" /\ row[s].active /\ ~row'[s].active =>
           \/ failed'[s] >= HardLimit
           \/ \E t \in Threads : at[t] = "disabling" /\ cur[t] = s]_vars
  BY DeactivationStep
<1> QED
  BY <1>1, Invariant, PTL DEF Spec, DeactivatedWithCause

-----------------------------------------------------------------------------
(* Why no receiver is passed over.  A thread that is dispatching an event   *)
(* has before it exactly the selected subscriptions it has not tried, and   *)
(* beside them only those whose copy is paused.                             *)
Dispatching(t, e) == at[t] \in {"loop"} \cup InFlight /\ ev[t] = e /\ num[t] = 1

Lost(s) == UsedUp(s) \/ state[s] = "deleted"

(* A copy says "paused" only for the cause the row had. *)
CopiesPaused ==
  \A t \in Threads : \A s \in Subs : copy[t][s].until # "none" => Lost(s)

SelectedAhead ==
  \A t \in Threads, e \in Events : Dispatching(t, e) =>
    /\ e \in published
    /\ \A s \in todo[t] : s \in selected[e] <=> copy[t][s].until # "future"

Excused(e) == (\E s \in selected[e] : state[s] = "deleted") \/ (naive /\ \E s \in Subs : Lost(s))

Ahead(e, s) == \E t \in Threads : Dispatching(t, e) /\ s \in todo[t]

Covered ==
  \A e \in published \ crashed :
    Excused(e) \/ \A s \in selected[e] : Recorded(s, e, 1) \/ Ahead(e, s)

DispatchInv == CopiesPaused /\ SelectedAhead /\ Covered

(* A recorded attempt, a deleted subscription and the outcome of an earlier *)
(* selection stay what they are, unless a deletion takes the rows along.    *)
LEMMA Persistence ==
  ASSUME TypeOK, HandlerSub, [Next]_vars
  PROVE  /\ \A s \in Subs : /\ state[s] = "deleted" => state'[s] = "deleted"
                            /\ log[s] \subseteq log'[s] \/ state'[s] = "deleted"
         /\ \A e \in published : e \in published' /\ selected'[e] = selected[e]
         /\ crashed \subseteq crashed' /\ naive' = naive
<1> DEFINE G == /\ \A s \in Subs : /\ state[s] = "deleted" => state'[s] = "deleted"
                                   /\ log[s] \subseteq log'[s] \/ state'[s] = "deleted"
                /\ \A e \in published : e \in published' /\ selected'[e] = selected[e]
                /\ crashed \subseteq crashed' /\ naive' = naive
<1>0. ASSUME UNCHANGED tables, UNCHANGED <<published, selected, naive>>, crashed \subseteq crashed'
      PROVE  G
  BY <1>0 DEF tables
<1>1. ASSUME NEW t \in Threads, NEW e \in Events, Dispatch(t, e) PROVE G
  <2>1. selected \in [Events -> SUBSET Subs] /\ published \subseteq Events
    BY DEF TypeOK
  <2> QED BY <1>1, <2>1 DEF Dispatch, tables
<1>2. ASSUME NEW t \in Threads, NEW s \in Subs, Skip(t, s) \/ SkipRaises(t, s) \/ InsertFails(t, s) \/ Flush(t, s)
      PROVE  G
  BY <1>2, <1>0 DEF Skip, SkipRaises, InsertFails, Flush, tables, aux
<1>3. ASSUME NEW t \in Threads, NEW s \in Subs, Unsigned(t, s) PROVE G
  BY <1>3 DEF Unsigned, aux, TypeOK
<1>4. ASSUME NEW t \in Threads, Post(t) PROVE G
  BY <1>4, <1>0 DEF Post, tables, aux
<1>5. ASSUME NEW t \in Threads, Commit(t) PROVE G
  BY <1>5 DEF Commit, TypeOK
<1>6. ASSUME NEW t \in Threads, PatchCommit(t) PROVE G
  BY <1>6 DEF PatchCommit, aux
<1>7. ASSUME NEW t \in Threads, Crash(t) PROVE G
  BY <1>7, <1>0 DEF Crash, tables
<1>8. ASSUME NEW t \in Threads, NEW s \in Subs, Retry(t, s) \/ PatchLoad(t, s) PROVE G
  BY <1>8, <1>0 DEF Retry, PatchLoad, tables
<1>9. ASSUME NEW s \in Subs, Create(s) PROVE G
  BY <1>9 DEF Create, aux, TypeOK
<1>10. ASSUME NEW s \in Subs, Delete(s) PROVE G
  BY <1>10 DEF Delete, TypeOK
<1>11. ASSUME NEW s \in Subs, PauseExpires(s) PROVE G
  BY <1>11 DEF PauseExpires, aux
<1>12. CASE UNCHANGED vars
  BY <1>12, <1>0 DEF vars, aux
<1> QED
  BY <1>1, <1>2, <1>3, <1>4, <1>5, <1>6, <1>7, <1>8, <1>9, <1>10, <1>11, <1>12
  DEF Next, ThreadStep, Loop

(* So what excuses a loss, and what has been tried, is not taken back. *)
LEMMA ExcusesPersist ==
  ASSUME TypeOK, HandlerSub, [Next]_vars
  PROVE  /\ \A s \in Subs : Lost(s) => Lost(s)'
         /\ \A e \in published : Excused(e) => Excused(e)'
         /\ \A e \in Events, s \in Subs : Recorded(s, e, 1) => Recorded(s, e, 1)' \/ state'[s] = "deleted"
<1>1. \A s \in Subs : Lost(s) => Lost(s)'
  BY Persistence DEF Lost, UsedUp
<1>2. \A e \in Events, s \in Subs : Recorded(s, e, 1) => Recorded(s, e, 1)' \/ state'[s] = "deleted"
  BY Persistence DEF Recorded
<1>3. \A e \in published : selected[e] \subseteq Subs
  BY DEF TypeOK
<1> QED BY <1>1, <1>2, <1>3, Persistence DEF Excused

(* A copy is taken from the rows, at once, and is released with the thread. *)
LEMMA CopiesStep ==
  TypeOK /\ HandlerSub /\ PausedWithCause /\ CopiesPaused /\ [Next]_vars => CopiesPaused'
<1> SUFFICES ASSUME TypeOK, HandlerSub, PausedWithCause, CopiesPaused, [Next]_vars
             PROVE  CopiesPaused'
  OBVIOUS
<1>0. \A s \in Subs : Lost(s) => Lost(s)'
  BY ExcusesPersist
<1>1. /\ copy \in [Threads -> [Subs -> Columns]] /\ row \in [Subs -> Columns]
      /\ \A s \in Subs : row[s].until # "none" => Lost(s)
  BY DEF TypeOK, PausedWithCause, Lost
<1>a. ASSUME UNCHANGED copy PROVE CopiesPaused'
  BY <1>0, <1>a DEF CopiesPaused
<1>b. ASSUME NEW t \in Threads, Load(t) PROVE CopiesPaused'
  BY <1>0, <1>1, <1>b DEF CopiesPaused, Load
<1>c. ASSUME NEW t \in Threads, Release(t) PROVE CopiesPaused'
  BY <1>0, <1>1, <1>c DEF CopiesPaused, Release, Fresh
<1>d. ASSUME NEW t \in Threads, NEW s, Advance(t, s) PROVE CopiesPaused'
  BY <1>a, <1>c, <1>d DEF Advance
<1>2. ASSUME NEW t \in Threads, NEW e \in Events, Dispatch(t, e) PROVE CopiesPaused'
  BY <1>2, <1>a, <1>b DEF Dispatch, local
<1>3. ASSUME NEW t \in Threads, NEW s \in Subs, Loop(t, s) PROVE CopiesPaused'
  BY <1>3, <1>a, <1>c, <1>d DEF Loop, Skip, SkipRaises, InsertFails, Unsigned, Flush
<1>4. ASSUME NEW t \in Threads, Post(t) PROVE CopiesPaused'
  BY <1>4, <1>a DEF Post
<1>5. ASSUME NEW t \in Threads, Commit(t) \/ PatchCommit(t) \/ Crash(t) PROVE CopiesPaused'
  BY <1>5, <1>c, <1>d DEF Commit, PatchCommit, Crash
<1>6. ASSUME NEW t \in Threads, NEW s \in Subs, Retry(t, s) \/ PatchLoad(t, s) PROVE CopiesPaused'
  BY <1>6, <1>b DEF Retry, PatchLoad
<1>7. ASSUME NEW s \in Subs, Create(s) \/ Delete(s) \/ PauseExpires(s) PROVE CopiesPaused'
  BY <1>7, <1>a DEF Create, Delete, PauseExpires, local
<1>8. CASE UNCHANGED vars
  BY <1>8, <1>a DEF vars, local
<1> QED
  BY <1>2, <1>3, <1>4, <1>5, <1>6, <1>7, <1>8 DEF Next, ThreadStep
(* A thread that dispatches after a step was dispatching before it, with    *)
(* the same copy and no more ahead of it, or has just selected its          *)
(* subscriptions.                                                           *)
LEMMA DispatchingStep ==
  ASSUME TypeOK, HandlerSub, [Next]_vars, NEW t \in Threads, NEW e \in Events, Dispatching(t, e)'
  PROVE  \/ Dispatching(t, e) /\ todo'[t] \subseteq todo[t] /\ copy'[t] = copy[t]
         \/ e \in published' /\ \A s \in todo'[t] : s \in selected'[e] <=> copy'[t][s].until # "future"
<1> DEFINE Goes == Dispatching(t, e) /\ todo'[t] \subseteq todo[t] /\ copy'[t] = copy[t]
           Starts == e \in published' /\ \A s \in todo'[t] : s \in selected'[e] <=> copy'[t][s].until # "future"
<1> SUFFICES Goes \/ Starts
  OBVIOUS
<1> USE DEF Dispatching, InFlight
<1>0. /\ at \in [Threads -> {"idle", "loop"} \cup InFlight \cup Patching] /\ todo \in [Threads -> SUBSET Subs]
      /\ ev \in [Threads -> Events \cup {NoEvent}] /\ num \in [Threads -> Nat \ {0}]
      /\ copy \in [Threads -> [Subs -> Columns]]
  BY DEF TypeOK
<1>a. ASSUME UNCHANGED local PROVE Goes
  BY <1>a DEF local
<1>b. ASSUME NEW v \in Threads, Release(v) PROVE Goes
  BY <1>0, <1>b DEF Release, Place
<1>c. ASSUME NEW v \in Threads, NEW s \in Subs, Advance(v, s), at[v] \in {"loop"} \cup InFlight PROVE Goes
  BY <1>0, <1>b, <1>c DEF Advance, Place
<1>d. ASSUME NEW v \in Threads, NEW l, NEW x, at[v] \in {"loop"} \cup InFlight, UNCHANGED copy,
             Place(v, l, ev[v], num[v], todo[v], x)
      PROVE  Goes
  BY <1>0, <1>d DEF Place
<1>1. ASSUME NEW v \in Threads, NEW f \in Events, Dispatch(v, f) PROVE Goes \/ Starts
  <2> DEFINE subs == {s \in Subs : Live(s) /\ row[s].active}
  <2>1. CASE UNCHANGED local
    BY <1>a, <2>1
  <2>2. CASE Place(v, "loop", f, 1, subs, NoSub) /\ Load(v)
    <3>1. published' = published \cup {f} /\ selected' = [selected EXCEPT ![f] = {s \in subs : row[s].until # "future"}]
      BY <1>1 DEF Dispatch
    <3> HIDE DEF subs
    <3>2. CASE t = v
      <4>1. e = f /\ todo'[t] = subs /\ copy'[t] = row
        BY <1>0, <2>2, <3>2 DEF Place, Load
      <4>2. selected'[e] = {s \in subs : row[s].until # "future"}
        BY <3>1, <4>1 DEF TypeOK
      <4> QED BY <3>1, <4>1, <4>2
    <3>3. CASE t # v
      BY <1>0, <2>2, <3>3 DEF Place, Load
    <3> QED BY <3>2, <3>3
  <2> QED BY <1>1, <2>1, <2>2 DEF Dispatch
<1>2. ASSUME NEW v \in Threads, NEW s \in Subs, Loop(v, s) PROVE Goes
  <2>1. CASE Flush(v, s)
    BY <1>d, <2>1 DEF Flush, Reaches
  <2>2. CASE Skip(v, s) \/ Unsigned(v, s)
    BY <1>c, <2>2 DEF Skip, Unsigned, Reaches
  <2>3. CASE SkipRaises(v, s) \/ InsertFails(v, s)
    BY <1>b, <2>3 DEF SkipRaises, InsertFails
  <2> QED BY <1>2, <2>1, <2>2, <2>3 DEF Loop
<1>3. ASSUME NEW v \in Threads, Post(v) PROVE Goes
  BY <1>3, <1>d DEF Post
<1>4. ASSUME NEW v \in Threads, Commit(v) PROVE Goes
  <2>1. cur[v] \in Subs /\ at[v] \in InFlight
    BY <1>4 DEF Commit, HandlerSub
  <2> QED BY <1>4, <2>1, <1>c DEF Commit
<1>5. ASSUME NEW v \in Threads, PatchCommit(v) \/ Crash(v) PROVE Goes
  BY <1>5, <1>b DEF PatchCommit, Crash
<1>6. ASSUME NEW v \in Threads, NEW s \in Subs, Retry(v, s) PROVE Goes
  <2>1. PICK d \in log[s] : Place(v, "loop", d.event, d.n + 1, {s}, NoSub)
    BY <1>6 DEF Retry
  <2>2. d.n \in Nat \ {0}
    BY DEF TypeOK, Delivery
  <2>3. num'[v] = d.n + 1
    BY <1>0, <2>1 DEF Place
  <2>4. t # v
    BY <2>2, <2>3
  <2> QED BY <1>0, <1>6, <2>1, <2>4 DEF Retry, Place, Load
<1>7. ASSUME NEW v \in Threads, NEW s \in Subs, PatchLoad(v, s) PROVE Goes
  BY <1>0, <1>7 DEF PatchLoad, Place, Patching, Load
<1>8. ASSUME NEW s \in Subs, Create(s) \/ Delete(s) \/ PauseExpires(s) PROVE Goes
  BY <1>8, <1>a DEF Create, Delete, PauseExpires
<1>9. CASE UNCHANGED vars
  BY <1>9, <1>a DEF vars
<1> QED
  BY <1>1, <1>2, <1>3, <1>4, <1>5, <1>6, <1>7, <1>8, <1>9 DEF Next, ThreadStep

LEMMA AheadStep == TypeOK /\ HandlerSub /\ SelectedAhead /\ [Next]_vars => SelectedAhead'
<1> SUFFICES ASSUME TypeOK, HandlerSub, SelectedAhead, [Next]_vars,
                    NEW t \in Threads, NEW e \in Events, Dispatching(t, e)'
             PROVE  e \in published' /\ \A s \in todo'[t] : s \in selected'[e] <=> copy'[t][s].until # "future"
  BY DEF SelectedAhead
<1>1. CASE Dispatching(t, e) /\ todo'[t] \subseteq todo[t] /\ copy'[t] = copy[t]
  BY <1>1, Persistence DEF SelectedAhead
<1> QED BY <1>1, DispatchingStep
(* While its thread runs, each receiver is tried, or stays ahead, or one of *)
(* the three excuses holds: the cases are the ways a thread leaves its loop.*)
LEMMA CoveredStep == TypeOK /\ HandlerSub /\ DispatchInv /\ [Next]_vars => Covered'
<1> SUFFICES ASSUME TypeOK, HandlerSub, CopiesPaused, SelectedAhead, Covered, [Next]_vars,
                    NEW e \in published' \ crashed', ~Excused(e)', NEW s \in selected'[e]
             PROVE  Recorded(s, e, 1)' \/ Ahead(e, s)'
  BY DEF DispatchInv, Covered
<1> DEFINE Kept == Recorded(s, e, 1)' \/ Ahead(e, s)'
<1> USE DEF InFlight
<1>0. /\ at \in [Threads -> {"idle", "loop"} \cup InFlight \cup Patching] /\ todo \in [Threads -> SUBSET Subs]
      /\ ev \in [Threads -> Events \cup {NoEvent}] /\ num \in [Threads -> Nat \ {0}]
      /\ log \in [Subs -> SUBSET Delivery]
  BY DEF TypeOK
<1>1. CASE e \notin published
  <2>1. PICK t \in Threads : e \in Events /\ Dispatch(t, e)
    BY <1>1 DEF Next, ThreadStep, Loop, Dispatch, Skip, SkipRaises, InsertFails, Unsigned, Flush, Post,
                Commit, PatchCommit, Crash, Retry, PatchLoad, Create, Delete, PauseExpires, vars, aux
  <2> DEFINE subs == {x \in Subs : Live(x) /\ row[x].active}
  <2>2. e \in Events
    BY <2>1
  <2>3. selected'[e] = {x \in subs : row[x].until # "future"}
    BY <2>1, <2>2 DEF Dispatch, TypeOK
  <2>4. s \in subs
    BY <2>3
  <2>5. Place(t, "loop", e, 1, subs, NoSub)
    BY <2>1, <2>4 DEF Dispatch
  <2> HIDE DEF subs
  <2> QED BY <1>0, <2>4, <2>5 DEF Place, Ahead, Dispatching
<1>2. CASE e \in published
  <2>1. /\ e \in Events /\ s \in Subs /\ s \in selected[e] /\ selected[e] \subseteq Subs
        /\ ~Excused(e)
        /\ Recorded(s, e, 1) \/ Ahead(e, s)
    BY <1>2, Persistence, ExcusesPersist DEF Covered, TypeOK
  <2>2. CASE Recorded(s, e, 1)
    <3>1. state'[s] # "deleted"
      BY DEF Excused
    <3> QED BY <2>1, <2>2, <3>1, ExcusesPersist
  <2>3. CASE Ahead(e, s)
    <3>1. PICK u \in Threads : Dispatching(u, e) /\ s \in todo[u]
      BY <2>3 DEF Ahead
    <3>2. at[u] \in {"loop"} \cup InFlight /\ ev[u] = e /\ num[u] = 1
      BY <3>1 DEF Dispatching
    <3>a. ASSUME UNCHANGED local PROVE Kept
      BY <3>1, <3>a DEF local, Ahead, Dispatching
    <3>b. ASSUME NEW v \in Threads, v # u, NEW l, NEW f, NEW n, NEW ss, NEW x, Place(v, l, f, n, ss, x)
          PROVE  Kept
      BY <1>0, <3>1, <3>b DEF Place, Ahead, Dispatching
    <3>c. ASSUME NEW v \in Threads, v # u, Release(v) PROVE Kept
      BY <3>b, <3>c DEF Release
    <3>d. ASSUME NEW v \in Threads, NEW x \in Subs, Advance(v, x), v # u \/ x # s PROVE Kept
      <4>1. CASE v # u
        BY <3>b, <3>c, <3>d, <4>1 DEF Advance
      <4>2. CASE v = u
        BY <1>0, <3>1, <3>2, <3>d, <4>2 DEF Advance, Place, Ahead, Dispatching
      <4> QED BY <4>1, <4>2
    <3>e. ASSUME NEW l \in {"loop"} \cup InFlight, NEW x, Place(u, l, ev[u], num[u], todo[u], x) PROVE Kept
      BY <1>0, <3>1, <3>2, <3>e DEF Place, Ahead, Dispatching
    <3>f. Recorded(s, e, 1)' <=> \E d \in log'[s] : d.event = e /\ d.n = 1
      BY DEF Recorded
    <3>3. ASSUME NEW t \in Threads, NEW f \in Events, Dispatch(t, f) PROVE Kept
      <4>1. t # u
        BY <3>2, <3>3 DEF Dispatch
      <4> QED BY <3>3, <3>a, <3>b, <4>1 DEF Dispatch
    <3>4. ASSUME NEW t \in Threads, NEW x \in Subs, Skip(t, x) PROVE Kept
      <4>1. t # u \/ x # s
        BY <2>1, <3>1, <3>4 DEF Skip, SelectedAhead
      <4> QED BY <3>4, <3>d, <4>1 DEF Skip
    <3>5. ASSUME NEW t \in Threads, NEW x \in Subs, SkipRaises(t, x) PROVE Kept
      <4>1. Lost(x) /\ naive
        BY <3>5 DEF SkipRaises, CopiesPaused
      <4>2. Excused(e)
        BY <4>1 DEF Excused
      <4> QED BY <2>1, <4>2
    <3>6. ASSUME NEW t \in Threads, NEW x \in Subs, InsertFails(t, x) PROVE Kept
      <4>1. CASE t # u
        BY <3>6, <3>c, <4>1 DEF InsertFails
      <4>2. CASE t = u
        <5>1. x \in todo[u] /\ state[x] = "deleted"
          BY <3>6, <4>2 DEF InsertFails, Reaches, HandlerSub, Live, TypeOK
        <5>2. naive \/ x \in selected[e]
          BY <2>1, <3>1, <3>2, <3>6, <4>2, <5>1 DEF InsertFails, Reaches, SelectedAhead
        <5>3. Excused(e)
          BY <5>1, <5>2 DEF Excused, Lost
        <5> QED BY <2>1, <5>3
      <4> QED BY <4>1, <4>2
    <3>7. ASSUME NEW t \in Threads, NEW x \in Subs, Unsigned(t, x) PROVE Kept
      <4>1. CASE t = u /\ x = s
        <5>1. Entry(u, "unsigned") \in log'[s]
          BY <1>0, <3>7, <4>1 DEF Unsigned
        <5>2. Entry(u, "unsigned").event = e /\ Entry(u, "unsigned").n = 1
          BY <3>2 DEF Entry
        <5> QED BY <3>f, <5>1, <5>2
      <4> QED BY <3>7, <3>d, <4>1 DEF Unsigned
    <3>8. ASSUME NEW t \in Threads, NEW x \in Subs, Flush(t, x) PROVE Kept
      BY <3>8, <3>b, <3>e DEF Flush
    <3>9. ASSUME NEW t \in Threads, Post(t) PROVE Kept
      BY <3>9, <3>b, <3>e DEF Post
    <3>10. ASSUME NEW t \in Threads, Commit(t) PROVE Kept
      <4>1. CASE t = u /\ cur[t] = s
        <5>1. PICK r \in Result : Entry(u, r) \in log'[s]
          BY <1>0, <2>1, <3>10, <4>1 DEF Commit, Result
        <5>2. Entry(u, r).event = e /\ Entry(u, r).n = 1
          BY <3>2 DEF Entry
        <5> QED BY <3>f, <5>1, <5>2
      <4>2. CASE t # u \/ cur[t] # s
        <5>1. cur[t] \in Subs
          BY <3>10 DEF Commit, HandlerSub
        <5>2. Advance(t, cur[t])
          BY <3>10 DEF Commit
        <5> QED BY <3>d, <4>2, <5>1, <5>2
      <4> QED BY <4>1, <4>2
    <3>11. ASSUME NEW t \in Threads, PatchCommit(t) PROVE Kept
      <4>1. t # u
        BY <3>2, <3>11 DEF PatchCommit, Patching
      <4> QED BY <3>11, <3>c, <4>1 DEF PatchCommit
    <3>12. ASSUME NEW t \in Threads, Crash(t) PROVE Kept
      <4>1. t # u
        <5> SUFFICES ASSUME t = u PROVE FALSE
          OBVIOUS
        <5>1. e \in crashed'
          BY <2>1, <3>2, <3>12, ConstantsAssumption DEF Crash
        <5> QED BY <5>1
      <4> QED BY <3>12, <3>c, <4>1 DEF Crash
    <3>13. ASSUME NEW t \in Threads, NEW x \in Subs, Retry(t, x) \/ PatchLoad(t, x) PROVE Kept
      <4>1. t # u
        BY <3>2, <3>13 DEF Retry, PatchLoad
      <4> QED BY <3>13, <3>b, <4>1 DEF Retry, PatchLoad
    <3>14. ASSUME NEW x \in Subs, Create(x) \/ Delete(x) \/ PauseExpires(x) PROVE Kept
      BY <3>14, <3>a DEF Create, Delete, PauseExpires
    <3>15. ASSUME UNCHANGED vars PROVE Kept
      BY <3>15, <3>a DEF vars
    <3> HIDE DEF Kept
    <3>16. ASSUME NEW t \in Threads, ThreadStep(t) \/ Crash(t) PROVE Kept
      BY <3>4, <3>5, <3>6, <3>7, <3>8, <3>9, <3>10, <3>11, <3>12, <3>16 DEF ThreadStep, Loop
    <3>17. Kept
      BY <3>3, <3>13, <3>14, <3>15, <3>16 DEF Next
    <3> QED BY <3>17 DEF Kept
  <2> QED BY <2>1, <2>2, <2>3
<1> QED BY <1>1, <1>2

LEMMA DispatchInvariant == Spec => []DispatchInv
<1>1. Init => DispatchInv
  BY DEF Init, DispatchInv, CopiesPaused, SelectedAhead, Covered, Dispatching, InFlight, Fresh
<1>2. DeliveryInv /\ DispatchInv /\ [Next]_vars => DispatchInv'
  BY CopiesStep, AheadStep, CoveredStep DEF DispatchInv, DeliveryInv
<1> QED BY <1>1, <1>2, Invariant, PTL DEF Spec

(* An event whose dispatch is over was tried on every subscription that was *)
(* active and not paused when it was published, unless its thread died, one *)
(* of them was deleted or, with naive timestamps, the loop was ended by an  *)
(* exception: for any number of subscriptions, events and threads.          *)
THEOREM NoReceiverPassedOver == Spec => []NoSilentLoss
<1>1. TypeOK /\ DispatchInv => NoSilentLoss
  <2> SUFFICES ASSUME TypeOK, Covered, NEW e \in Events, Dispatched(e), e \notin crashed, ~Excused(e),
                      NEW s \in selected[e]
               PROVE  Recorded(s, e, 1)
    BY DEF DispatchInv, NoSilentLoss, Excused, Lost
  <2>1. ~Ahead(e, s)
    BY DEF Ahead, Dispatching, Dispatched
  <2> QED BY <2>1 DEF Covered, Dispatched
<1> QED BY <1>1, DispatchInvariant, TypeCorrect, PTL
=============================================================================
