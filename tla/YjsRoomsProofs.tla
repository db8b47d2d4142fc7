--------------------------- MODULE YjsRoomsProofs ---------------------------
(***************************************************************************)
(* Theorems about YjsRooms, for any processes, clients and updates.        *)
(*                                                                         *)
(* Complete is not inductive: it says nothing of the rows while a room is  *)
(* open, nor of the bytes a running _persist carries.  Sole and Persist    *)
(* say that a process which is alone meets at most one row, the one it has *)
(* found, and writes what its room holds.                                  *)
(***************************************************************************)
EXTENDS YjsRooms, SequenceTheorems, TLAPS

Closed == \A p \in Procs : ~room[p]

(* A process does something with a room only while it has one. *)
Busy ==
  \A p \in Procs :
    /\ ~room[p] => snap[p] = {} /\ pc[p] = "loop"
    /\ snap[p] \subseteq accepted
    /\ final[p] => pc[p] \in {"persisting", "writing"}

(* A running _persist carries the snapshot and knows a row there is. *)
Persist ==
  \A p \in Procs :
    /\ pc[p] \in {"persisting", "writing"} => blob[p] = snap[p]
    /\ found[p] \in {0} \cup DOMAIN log

(* Every row holds accepted updates only. *)
RowsAccepted == \A r \in DOMAIN log : log[r] \subseteq accepted

(* A process that has been alone has at most one row and knows whether. *)
Sole ==
  ~shared =>
    /\ \A p, q \in Procs : room[p] /\ room[q] => p = q
    /\ Len(log) <= 1
    /\ \A p \in Procs : /\ pc[p] = "inserting" => log = <<>>
                        /\ pc[p] = "writing" /\ found[p] = 0 => log = <<>>

(* What the document is: the open room, or the rows when there is none. *)
Whole ==
  ~shared /\ ~faulty =>
    /\ \A p \in Procs : room[p] => snap[p] = accepted
    /\ Closed => accepted \subseteq Stored

IInv == TypeOK /\ Busy /\ Persist /\ RowsAccepted /\ Sole /\ Whole

-----------------------------------------------------------------------------
LEMMA StoredIs == \A x : x \in Stored <=> \E r \in DOMAIN log : x \in log[r]
  BY DEF Stored

(* With one row at most, the rows hold what is accepted. *)
LEMMA WholeIsComplete == IInv => Complete
<1> SUFFICES ASSUME IInv, ~shared, ~faulty, Closed, NEW r \in DOMAIN log PROVE log[r] = accepted
  BY DEF IInv, Whole, Complete, Closed
<1>1. Len(log) <= 1 /\ log \in Seq(SUBSET Updates)
  BY DEF IInv, Sole, TypeOK
<1>2. \A s \in DOMAIN log : s = r
  BY <1>1
<1>3. accepted \subseteq log[r]
  BY <1>2, StoredIs DEF IInv, Whole
<1> QED BY <1>3 DEF IInv, RowsAccepted

(* The content is what was accepted, until the document is exposed. *)
ContentAccepted ==
  Content \subseteq Updates /\ (~shared /\ ~faulty => Content = accepted)

LEMMA ContentIsAccepted == IInv => ContentAccepted
<1> SUFFICES ASSUME IInv PROVE ContentAccepted
  OBVIOUS
<1>1. Content \subseteq accepted
  BY StoredIs DEF Content, IInv, RowsAccepted, Busy
<1>2. ASSUME ~shared, ~faulty PROVE accepted \subseteq Content
  <2>1. CASE Closed
    BY <1>2, <2>1 DEF IInv, Whole, Content
  <2>2. CASE ~Closed
    BY <1>2, <2>2 DEF IInv, Whole, Content, Closed
  <2> QED BY <2>1, <2>2
<1> QED BY <1>1, <1>2 DEF IInv, TypeOK, ContentAccepted

LEMMA InitInv == Init => IInv
<1> SUFFICES ASSUME Init PROVE IInv
  OBVIOUS
<1>1. TypeOK
  BY EmptySeq DEF Init, TypeOK
<1>2. Busy /\ Persist /\ RowsAccepted
  BY DEF Init, Busy, Persist, RowsAccepted
<1>3. Sole /\ Whole
  BY DEF Init, Sole, Whole
<1> QED BY <1>1, <1>2, <1>3 DEF IInv

(* What a process loads: its room, or a row, or nothing when there is none. *)
LEMMA Loaded ==
  ASSUME IInv, NEW p \in Procs, NEW s \in Load(p)
  PROVE /\ s \subseteq accepted
        /\ room[p] => s = snap[p]
        /\ ~shared /\ ~faulty /\ ~room[p] /\ Closed => s = accepted
<1>1. CASE room[p]
  BY <1>1 DEF Load, IInv, Busy
<1>2. CASE ~room[p]
  <2>1. PICK r \in Found : s = IF r = 0 THEN {} ELSE log[r]
    BY <1>2 DEF Load
  <2>2. CASE log = <<>>
    <3>1. s = {}
      BY <2>1, <2>2 DEF Found
    <3>2. Stored = {}
      BY <2>2, StoredIs
    <3> QED BY <1>2, <3>1, <3>2 DEF IInv, Whole
  <2>3. CASE log # <<>>
    <3>1. r \in DOMAIN log /\ r # 0
      BY <2>1, <2>3 DEF Found, IInv, TypeOK
    <3>2. s = log[r]
      BY <2>1, <3>1
    <3> QED BY <1>2, <3>1, <3>2, WholeIsComplete DEF Complete, Closed, IInv, RowsAccepted
  <2> QED BY <2>2, <2>3
<1> QED BY <1>1, <1>2

(* A step that leaves the rows alone. *)
LEMMA SameRows ==
  ASSUME log' = log PROVE Stored' = Stored
  BY DEF Stored

LEMMA NextInv == IInv /\ [Next]_vars => IInv'
<1> SUFFICES ASSUME IInv, [Next]_vars PROVE IInv'
  OBVIOUS
<1> USE DEF IInv
<1>1. ASSUME NEW p \in Procs, NEW c \in Clients, Join(p, c) PROVE IInv'
  <2>0. PICK s \in Load(p) : Room(p, s, Members(p) + 1)
    BY <1>1 DEF Join
  <2>1. /\ s \subseteq accepted
        /\ room[p] => s = snap[p]
        /\ ~shared /\ ~faulty /\ ~room[p] /\ Closed => s = accepted
    BY Loaded
  <2>2. TypeOK'
    BY <1>1, <2>0, <2>1 DEF Join, Room, Members, Job, TypeOK
  <2>3. Busy'
    BY <1>1, <2>0, <2>1 DEF Join, Room, Job, Busy, TypeOK
  <2>4. Persist' /\ RowsAccepted'
    BY <1>1, <2>0, <2>1 DEF Join, Room, Job, Persist, RowsAccepted, TypeOK
  <2>5. Sole'
    BY <1>1, <2>0 DEF Join, Room, Job, Sole, TypeOK
  <2>6. Whole'
    BY <1>1, <2>0, <2>1, SameRows DEF Join, Room, Whole, Closed, TypeOK
  <2> QED BY <2>2, <2>3, <2>4, <2>5, <2>6
<1>2. ASSUME NEW p \in Procs, NEW c \in Clients, LoadFails(p, c) PROVE IInv'
  <2>1. TypeOK'
    BY <1>2 DEF LoadFails, Room, TypeOK
  <2>2. Busy' /\ Persist' /\ RowsAccepted'
    BY <1>2 DEF LoadFails, Room, Busy, Persist, RowsAccepted, TypeOK
  <2>3. Sole' /\ Whole'
    BY <1>2 DEF LoadFails, Room, Sole, Whole, TypeOK
  <2> QED BY <2>1, <2>2, <2>3
<1>3. ASSUME NEW p \in Procs, NEW c \in Clients, NEW u \in Updates, Ingest(p, c, u) PROVE IInv'
  <2>0. PICK s \in Load(p) :
          /\ Room(p, s \cup {u}, Members(p))
          /\ \/ Job(p, "persisting", s \cup {u}, FALSE)
             \/ UNCHANGED <<pc, blob, found, final>>
    BY <1>3 DEF Ingest
  <2>1. /\ s \subseteq accepted
        /\ room[p] => s = snap[p]
        /\ ~shared /\ ~faulty /\ ~room[p] /\ Closed => s = accepted
    BY Loaded
  <2>2. TypeOK'
    <3>1. s \cup {u} \subseteq Updates
      BY <2>1 DEF TypeOK
    <3>2. /\ pc' \in [Procs -> {"loop", "counting", "inserting", "persisting", "writing"}]
          /\ blob' \in [Procs -> SUBSET Updates]
          /\ found' \in [Procs -> Nat]
          /\ final' \in [Procs -> BOOLEAN]
      <4>1. CASE Job(p, "persisting", s \cup {u}, FALSE)
        BY <3>1, <4>1 DEF Job, TypeOK
      <4>2. CASE UNCHANGED <<pc, blob, found, final>>
        BY <4>2 DEF TypeOK
      <4> QED BY <2>0, <4>1, <4>2
    <3>3. Members(p) \in Nat
      BY DEF Members, TypeOK
    <3> QED BY <1>3, <2>0, <3>1, <3>2, <3>3 DEF Ingest, Room, TypeOK
  <2>3. Busy'
    BY <1>3, <2>0, <2>1 DEF Ingest, Room, Job, Busy, TypeOK
  <2>4. Persist'
    <3>1. CASE Job(p, "persisting", s \cup {u}, FALSE)
      BY <1>3, <2>0, <3>1 DEF Ingest, Room, Job, Persist, TypeOK
    <3>2. CASE UNCHANGED <<pc, blob, found, final>>
      BY <1>3, <2>0, <3>2 DEF Ingest, Room, Persist, TypeOK
    <3> QED BY <2>0, <3>1, <3>2
  <2>5. RowsAccepted'
    BY <1>3 DEF Ingest, RowsAccepted
  <2>6. Sole'
    <3>1. \A q \in Procs : pc'[q] \in {"inserting", "writing"} => pc[q] = pc'[q] /\ found'[q] = found[q]
      BY <2>0 DEF Job, TypeOK
    <3> QED BY <1>3, <2>0, <3>1 DEF Ingest, Room, Sole, TypeOK
  <2>7. Whole'
    BY <1>3, <2>0, <2>1 DEF Ingest, Room, Whole, Closed, TypeOK
  <2> QED BY <2>2, <2>3, <2>4, <2>5, <2>6, <2>7
<1>4. ASSUME NEW p \in Procs, NEW c \in Clients, Leave(p, c) PROVE IInv'
  <2>0. \/ room[p] /\ Job(p, "persisting", snap[p], TRUE)
        \/ UNCHANGED <<pc, blob, found, final>>
    BY <1>4 DEF Leave
  <2>1. TypeOK'
    <3>1. count' \in [Procs -> Nat] /\ socket' \in [Clients -> Procs \cup {Nowhere}]
      <4>1. CASE count[p] <= 1
        BY <1>4, <4>1 DEF Leave, TypeOK
      <4>2. CASE ~(count[p] <= 1)
        BY <1>4, <4>2 DEF Leave, TypeOK
      <4> QED BY <4>1, <4>2
    <3>2. CASE Job(p, "persisting", snap[p], TRUE)
      BY <1>4, <3>1, <3>2 DEF Leave, Job, TypeOK
    <3>3. CASE UNCHANGED <<pc, blob, found, final>>
      BY <1>4, <3>1, <3>3 DEF Leave, TypeOK
    <3> QED BY <2>0, <3>2, <3>3
  <2>2. Busy' /\ Persist' /\ RowsAccepted'
    <3>1. CASE room[p] /\ Job(p, "persisting", snap[p], TRUE)
      BY <1>4, <3>1 DEF Leave, Job, Busy, Persist, RowsAccepted, TypeOK
    <3>2. CASE UNCHANGED <<pc, blob, found, final>>
      BY <1>4, <3>2 DEF Leave, Busy, Persist, RowsAccepted
    <3> QED BY <2>0, <3>1, <3>2
  <2>3. Sole'
    BY <1>4 DEF Leave, Job, Sole, TypeOK
  <2>4. Whole'
    BY <1>4, SameRows DEF Leave, Whole, Closed
  <2> QED BY <2>1, <2>2, <2>3, <2>4
<1>5. ASSUME NEW p \in Procs, Count(p) PROVE IInv'
  <2>1. TypeOK' /\ Busy' /\ Persist' /\ RowsAccepted'
    BY <1>5 DEF Count, TypeOK, Busy, Persist, RowsAccepted
  <2>2. Sole' /\ Whole'
    BY <1>5, SameRows DEF Count, TypeOK, Sole, Whole, Closed
  <2> QED BY <2>1, <2>2
<1>6. ASSUME NEW p \in Procs, Insert(p) PROVE IInv'
  <2>0. room[p] /\ ~Closed
    BY <1>6 DEF Insert, Busy, Closed
  <2>1. /\ log' \in Seq(SUBSET Updates)
        /\ Len(log') \in {Len(log), Len(log) + 1}
        /\ \A r \in DOMAIN log : r \in DOMAIN log' /\ log'[r] = log[r]
        /\ \A r \in DOMAIN log' : r \in DOMAIN log \/ log'[r] = {}
    <3>1. CASE log' = log
      BY <3>1 DEF TypeOK
    <3>2. CASE log' = Append(log, {})
      BY <3>2, AppendProperties DEF TypeOK
    <3> QED BY <1>6, <3>1, <3>2 DEF Insert
  <2>2. TypeOK' /\ Busy'
    BY <1>6, <2>1 DEF Insert, TypeOK, Busy
  <2>3. Persist' /\ RowsAccepted'
    BY <1>6, <2>1 DEF Insert, TypeOK, Persist, RowsAccepted
  <2>4. Sole'
    <3>1. ~shared => log = <<>> /\ \A q \in Procs : q # p => pc[q] = "loop"
      BY <1>6, <2>0 DEF Insert, Sole, Busy
    <3>2. Len(<<>>) = 0
      OBVIOUS
    <3> QED BY <1>6, <2>1, <3>1, <3>2 DEF Insert, Sole, TypeOK
  <2>5. Whole'
    BY <1>6, <2>0 DEF Insert, Whole, Closed
  <2> QED BY <2>2, <2>3, <2>4, <2>5
<1>7. ASSUME NEW p \in Procs, Select(p) PROVE IInv'
  <2>0. PICK r \in Found : found' = [found EXCEPT ![p] = r]
    BY <1>7 DEF Select
  <2>1. r \in {0} \cup DOMAIN log /\ (r = 0 => log = <<>>)
    BY DEF Found, TypeOK
  <2>2. TypeOK' /\ Busy' /\ Persist' /\ RowsAccepted'
    BY <1>7, <2>0, <2>1 DEF Select, TypeOK, Busy, Persist, RowsAccepted
  <2>3. Sole' /\ Whole'
    BY <1>7, <2>0, <2>1, SameRows DEF Select, TypeOK, Sole, Whole, Closed
  <2> QED BY <2>2, <2>3
<1>8. ASSUME NEW p \in Procs, Write(p) PROVE IInv'
  <2>0. room[p] /\ blob[p] = snap[p] /\ snap[p] \subseteq accepted /\ accepted \subseteq Updates
    BY <1>8 DEF Write, Busy, Persist, TypeOK
  <2>1. /\ log' \in Seq(SUBSET Updates)
        /\ Len(log') = IF found[p] = 0 THEN Len(log) + 1 ELSE Len(log)
        /\ \A r \in DOMAIN log' : r \in DOMAIN log \/ log'[r] = snap[p]
        /\ \A r \in DOMAIN log : r \in DOMAIN log' /\ log'[r] \in {log[r], snap[p]}
        /\ \E r \in DOMAIN log' : log'[r] = snap[p]
    <3>1. CASE found[p] = 0
      <4>1. log' = Append(log, snap[p]) /\ snap[p] \in SUBSET Updates /\ log \in Seq(SUBSET Updates)
        BY <1>8, <2>0, <3>1 DEF Write, TypeOK
      <4>2. /\ log' \in Seq(SUBSET Updates) /\ Len(log') = Len(log) + 1
            /\ log'[Len(log) + 1] = snap[p]
            /\ \A r \in 1 .. Len(log) : log'[r] = log[r]
        BY <4>1, AppendProperties
      <4>3. DOMAIN log = 1 .. Len(log) /\ DOMAIN log' = 1 .. Len(log') /\ Len(log) \in Nat
        BY <4>1, <4>2, LenProperties
      <4> QED BY <3>1, <4>2, <4>3
    <3>2. CASE found[p] # 0
      <4>1. /\ log' = [log EXCEPT ![found[p]] = snap[p]] /\ found[p] \in DOMAIN log
            /\ snap[p] \in SUBSET Updates /\ log \in Seq(SUBSET Updates)
        BY <1>8, <2>0, <3>2 DEF Write, TypeOK, Persist
      <4>2. log' \in Seq(SUBSET Updates) /\ Len(log') = Len(log) /\ DOMAIN log' = DOMAIN log
        BY <4>1, ExceptSeq
      <4> QED BY <3>2, <4>1, <4>2
    <3> QED BY <3>1, <3>2
  <2>2. TypeOK' /\ Busy'
    BY <1>8, <2>1 DEF Write, Done, Job, TypeOK, Busy
  <2>3. Persist' /\ RowsAccepted'
    BY <1>8, <2>0, <2>1 DEF Write, Done, Job, TypeOK, Persist, RowsAccepted
  <2>4. Sole'
    <3>1. ~shared => Len(log') <= 1 /\ \A q \in Procs : q # p => pc[q] = "loop" /\ ~room[q]
      BY <1>8, <2>0, <2>1 DEF Write, Sole, Busy
    <3> QED BY <1>8, <3>1 DEF Write, Done, Job, Sole, TypeOK
  <2>5. Whole'
    <3>1. snap[p] \subseteq Stored'
      BY <2>1 DEF Stored
    <3> QED BY <1>8, <2>0, <3>1 DEF Write, Done, Job, Whole, Closed, TypeOK
  <2> QED BY <2>2, <2>3, <2>4, <2>5
<1>9. ASSUME NEW p \in Procs, WriteFails(p) PROVE IInv'
  <2>0. room[p]
    BY <1>9 DEF WriteFails, Busy
  <2>1. TypeOK' /\ Busy' /\ Persist' /\ RowsAccepted'
    BY <1>9 DEF WriteFails, Done, Job, TypeOK, Busy, Persist, RowsAccepted
  <2>2. Sole'
    BY <1>9 DEF WriteFails, Done, Job, TypeOK, Sole
  <2>3. Whole'
    BY <1>9, <2>0, SameRows DEF WriteFails, Done, Job, Whole, Closed, TypeOK
  <2> QED BY <2>1, <2>2, <2>3
<1>10. ASSUME NEW p \in Procs, Crash(p) PROVE IInv'
  <2>1. TypeOK' /\ Busy' /\ Persist' /\ RowsAccepted'
    BY <1>10 DEF Crash, Job, TypeOK, Busy, Persist, RowsAccepted
  <2>2. Sole'
    BY <1>10 DEF Crash, Job, TypeOK, Sole
  <2>3. Whole'
    BY <1>10, SameRows DEF Crash, Job, Whole, Closed, TypeOK
  <2> QED BY <2>1, <2>2, <2>3
<1>11. CASE UNCHANGED vars
  <2>1. TypeOK' /\ Busy' /\ Persist' /\ RowsAccepted'
    BY <1>11 DEF vars, proc, TypeOK, Busy, Persist, RowsAccepted
  <2>2. Sole' /\ Whole'
    BY <1>11, SameRows DEF vars, proc, Sole, Whole, Closed
  <2> QED BY <2>1, <2>2
<1> QED
  BY <1>1, <1>2, <1>3, <1>4, <1>5, <1>6, <1>7, <1>8, <1>9, <1>10, <1>11 DEF Next

-----------------------------------------------------------------------------
(* The inductive invariant: a process that is alone knows all the rows.     *)
THEOREM Invariant == Spec => []IInv
<1>1. Init => IInv
  BY InitInv
<1>2. IInv /\ [Next]_vars => IInv'
  BY NextInv
<1> QED BY <1>1, <1>2, PTL DEF Spec

(* Rooms and rows keep their types. *)
THEOREM TypeCorrect == Spec => []TypeOK
<1>1. IInv => TypeOK
  BY DEF IInv
<1> QED BY <1>1, Invariant, PTL

(* Until a second process opens a room or a fault hits, whoever opens the   *)
(* document gets every accepted update, for any number of processes.        *)
THEOREM DocumentIsComplete == Spec => []Complete
  BY Invariant, WholeIsComplete, PTL

(* A write takes nothing from a row that its writer's room holds, however   *)
(* many processes write rows of one document.                               *)
THEOREM WritesSpareTheirOwn == Spec => OnlyStrangersLose
<1> DEFINE Spares == \A r \in DOMAIN log, p \in Procs :
       pc[p] = "writing" /\ log'[r] # log[r] /\ pc'[p] = "loop" =>
         (log[r] \ log'[r]) \cap snap[p] = {}
<1>1. IInv /\ [Next]_vars => [Spares]_vars
  <2> SUFFICES ASSUME IInv, Next, NEW r \in DOMAIN log, NEW p \in Procs,
                      pc[p] = "writing", log'[r] # log[r], pc'[p] = "loop"
               PROVE (log[r] \ log'[r]) \cap snap[p] = {}
    OBVIOUS
  <2>0. log \in Seq(SUBSET Updates) /\ pc \in [Procs -> {"loop", "counting", "inserting", "persisting", "writing"}]
    BY DEF IInv, TypeOK
  <2>1. ASSUME NEW q \in Procs, Write(q) PROVE (log[r] \ log'[r]) \cap snap[p] = {}
    <3>1. q = p
      BY <2>0, <2>1 DEF Write, Done, Job
    <3>2. log'[r] = snap[p]
      <4>1. CASE found[p] = 0
        BY <2>0, <2>1, <3>1, <4>1 DEF Write
      <4>2. CASE found[p] # 0
        BY <2>0, <2>1, <3>1, <4>2 DEF Write, IInv, Persist
      <4> QED BY <4>1, <4>2
    <3> QED BY <3>2
  <2>2. ASSUME NEW q \in Procs, Insert(q) PROVE FALSE
    BY <2>0, <2>2 DEF Insert
  <2>3. log' = log \/ \E q \in Procs : Write(q) \/ Insert(q)
    BY DEF Next, Join, LoadFails, Leave, Ingest, Count, Select, WriteFails, Crash
  <2> QED BY <2>1, <2>2, <2>3
<1>2. Spec => [][Spares]_vars
  BY <1>1, Invariant, PTL DEF Spec
<1> QED BY <1>2 DEF OnlyStrangersLose

(* Rooms and rows implement the append-only document of SharedLog.          *)
THEOREM Refinement == Spec => ImplementsLog
<1>1. Init => Log!Init
  BY StoredIs DEF Init, Log!Init, Content
<1>2. IInv' => ContentAccepted'
  BY ContentIsAccepted, PTL
<1>3. IInv /\ IInv' /\ [Next]_vars => [Log!Next]_<<Content, shared \/ faulty>>
  <2> SUFFICES ASSUME IInv, IInv', [Next]_vars
               PROVE [Log!Next]_<<Content, shared \/ faulty>>
    OBVIOUS
  <2>1. CASE (shared \/ faulty)'
    BY <1>2, <2>1 DEF Log!Next, Log!Expose, IInv, TypeOK, ContentAccepted
  <2>2. CASE ~(shared \/ faulty)'
    <3>1. ~shared /\ ~faulty
      BY <2>2 DEF IInv, TypeOK, Next, vars, Join, LoadFails, Leave, Ingest, Room, Count, Insert, Select, Write, WriteFails, Done, Crash
    <3>2. Content = accepted /\ Content' = accepted'
      BY <1>2, <2>2, <3>1, ContentIsAccepted DEF ContentAccepted
    <3>3. accepted' = accepted \/ \E u \in Updates : accepted' = accepted \cup {u}
      BY DEF Next, vars, Join, LoadFails, Leave, Ingest, Count, Insert, Select, Write, WriteFails, Done, Crash
    <3> QED BY <2>2, <3>1, <3>2, <3>3 DEF Log!Next, Log!Accept
  <2> QED BY <2>1, <2>2
<1> QED BY <1>1, <1>3, Invariant, PTL DEF Spec, ImplementsLog, Log!Spec
=============================================================================
