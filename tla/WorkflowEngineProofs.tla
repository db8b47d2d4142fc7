------------------------ MODULE WorkflowEngineProofs ------------------------
(***************************************************************************)
(* Theorems about WorkflowEngine, for any workflows, threads, triggers and *)
(* scripts, and any number of connections, however deep the handlers nest. *)
(*                                                                         *)
(* Neither invariant is inductive.  The counters that a handler writes are *)
(* those its session holds, so CountInv speaks of the handlers on every    *)
(* stack: what a session holds never shows more than the run rows, and the *)
(* session that alone has a workflow holds what its row shows.  A handler  *)
(* that passes a workflow over with its loop intact has found no row, so   *)
(* CauseInv says that there was one when the handler selected it, and that *)
(* no creation that has been let through brings it back.                   *)
(***************************************************************************)
EXTENDS WorkflowEngine, SequenceTheorems, TLAPS

LessEq(a, b) == a.runs <= b.runs /\ a.fails <= b.fails

RowsReal ==
  \A w \in Flows : LessEq(count[w], trail[w]) /\ (w \notin shared => count[w] = trail[w])

HeldReal ==
  \A t \in Threads : \A i \in DOMAIN stack[t] : \A w \in Flows :
    stack[t][i].held[w] # None =>
      /\ LessEq(stack[t][i].held[w], trail[w])
      /\ w \in Held(stack[t][i]) \ shared => stack[t][i].held[w] = count[w]

HeldAlone ==
  \A t, u \in Threads : \A i \in DOMAIN stack[t], j \in DOMAIN stack[u] :
    <<t, i>> # <<u, j>> => Held(stack[t][i]) \cap Held(stack[u][j]) \subseteq shared

CountInv == RowsReal /\ HeldReal /\ HeldAlone

SelectedOnce == \A t \in Threads : \A i \in DOMAIN stack[t] : \A w \in Held(stack[t][i]) : state[w] # "none"

MakingNew ==
  /\ \A t \in Threads : making[t] # None => state[making[t]] = "none"
  /\ \A t, u \in Threads : t # u /\ making[t] # None => making[t] # making[u]

CauseInv == PassedOverWithCause /\ SelectedOnce /\ MakingNew

-----------------------------------------------------------------------------
(* What a step makes of the handlers that it leaves: none has more to run,  *)
(* and a session holds what it held, what the row shows, or nothing.        *)
Below(f, g) == Held(f) \subseteq Held(g) /\ \A w \in Flows : f.held[w] \in {None, g.held[w], count[w]}

Remain ==
  \A t \in Threads : \A i \in DOMAIN stack'[t] :
    i \in DOMAIN stack[t] /\ Below(stack'[t][i], stack[t][i])

LEMMA TopType ==
  ASSUME TypeOK, NEW t \in Threads, Running(t)
  PROVE  /\ stack[t] \in Seq(Frame) /\ Len(stack[t]) \in 1 .. Len(stack[t])
         /\ DOMAIN stack[t] = 1 .. Len(stack[t]) /\ Top(t) \in Frame
<1>1. stack[t] \in Seq(Frame) /\ stack[t] # <<>>
  BY DEF TypeOK, Running
<1>2. Len(stack[t]) \in 1 .. Len(stack[t])
  BY <1>1, EmptySeq, LenProperties
<1> QED BY <1>1, <1>2 DEF Top

LEMMA SetTopRemains ==
  ASSUME TypeOK, NEW t \in Threads, Running(t), NEW f \in Frame, Below(f, Top(t)), SetTop(t, f)
  PROVE  stack' \in [Threads -> Seq(Frame)] /\ Remain
<1>1. stack[t] \in Seq(Frame) /\ Len(stack[t]) \in 1 .. Len(stack[t]) /\ DOMAIN stack[t] = 1 .. Len(stack[t])
  BY TopType
<1>2. /\ stack' = [stack EXCEPT ![t] = [stack[t] EXCEPT ![Len(stack[t])] = f]]
      /\ stack \in [Threads -> Seq(Frame)]
  BY DEF SetTop, TypeOK
<1>3. /\ [stack[t] EXCEPT ![Len(stack[t])] = f] \in Seq(Frame)
      /\ DOMAIN [stack[t] EXCEPT ![Len(stack[t])] = f] = DOMAIN stack[t]
      /\ \A i \in DOMAIN stack[t] :
           [stack[t] EXCEPT ![Len(stack[t])] = f][i] = IF i = Len(stack[t]) THEN f ELSE stack[t][i]
  BY <1>1, ExceptSeq
<1>4. \A g \in Frame : Below(g, g)
  BY DEF Below
<1>5. ASSUME NEW u \in Threads, NEW i \in DOMAIN stack'[u]
      PROVE  i \in DOMAIN stack[u] /\ Below(stack'[u][i], stack[u][i])
  <2>1. CASE u = t
    BY <1>1, <1>2, <1>3, <1>4, <1>5, <2>1 DEF Top
  <2>2. CASE u # t
    <3>1. stack'[u] = stack[u] /\ stack[u] \in Seq(Frame)
      BY <1>2, <2>2
    <3> QED BY <1>4, <3>1
  <2> QED BY <2>1, <2>2
<1> QED BY <1>2, <1>3, <1>5 DEF Remain

LEMMA ReturnRemains ==
  ASSUME TypeOK, NEW t \in Threads, Running(t), Return(t)
  PROVE  stack' \in [Threads -> Seq(Frame)] /\ missed' \in BOOLEAN /\ Remain
<1> DEFINE s == SubSeq(stack[t], 1, Len(stack[t]) - 1)
<1>1. stack[t] \in Seq(Frame) /\ Len(stack[t]) \in 1 .. Len(stack[t]) /\ DOMAIN stack[t] = 1 .. Len(stack[t])
  BY TopType
<1>2. stack' = [stack EXCEPT ![t] = s] /\ stack \in [Threads -> Seq(Frame)] /\ missed' \in BOOLEAN
  BY DEF Return, TypeOK
<1>3. Len(stack[t]) \in Nat /\ Len(stack[t]) - 1 \in 0 .. Len(stack[t])
  BY <1>1
<1>4. s \in Seq(Frame) /\ DOMAIN s \subseteq DOMAIN stack[t] /\ \A i \in DOMAIN s : s[i] = stack[t][i]
  BY <1>1, <1>3
<1>5. \A g \in Frame : Below(g, g)
  BY DEF Below
<1>6. ASSUME NEW u \in Threads, NEW i \in DOMAIN stack'[u]
      PROVE  i \in DOMAIN stack[u] /\ Below(stack'[u][i], stack[u][i])
  <2> HIDE DEF s
  <2>1. CASE u = t
    BY <1>1, <1>2, <1>4, <1>5, <1>6, <2>1
  <2>2. CASE u # t
    <3>1. stack'[u] = stack[u] /\ stack[u] \in Seq(Frame)
      BY <1>2, <2>2
    <3> QED BY <1>5, <3>1
  <2> QED BY <2>1, <2>2
<1> HIDE DEF s
<1> QED BY <1>2, <1>4, <1>6 DEF Remain

LEMMA AloneRemain ==
  ASSUME HeldAlone, Remain, UNCHANGED shared
  PROVE  HeldAlone'
BY DEF HeldAlone, Remain, Below, Held

LEMMA CountsRemain ==
  ASSUME TypeOK, CountInv, Remain, UNCHANGED <<count, trail, shared>>
  PROVE  CountInv'
<1>1. RowsReal'
  BY DEF CountInv, RowsReal
<1>2. ASSUME NEW t \in Threads, NEW i \in DOMAIN stack'[t], NEW w \in Flows, stack'[t][i].held[w] # None
      PROVE  /\ LessEq(stack'[t][i].held[w], trail[w])
             /\ w \in Held(stack'[t][i]) \ shared => stack'[t][i].held[w] = count[w]
  <2>1. i \in DOMAIN stack[t] /\ Held(stack'[t][i]) \subseteq Held(stack[t][i])
    BY DEF Remain, Below
  <2>2. stack'[t][i].held[w] \in {stack[t][i].held[w], count[w]}
    BY <1>2 DEF Remain, Below
  <2>3. CASE stack'[t][i].held[w] = count[w]
    BY <2>3 DEF CountInv, RowsReal
  <2>4. CASE stack'[t][i].held[w] = stack[t][i].held[w]
    BY <1>2, <2>1, <2>4 DEF CountInv, HeldReal
  <2> QED BY <2>2, <2>3, <2>4
<1>3. HeldReal'
  BY <1>2 DEF HeldReal, Held
<1>4. HeldAlone'
  BY AloneRemain DEF CountInv
<1> QED BY <1>1, <1>3, <1>4 DEF CountInv

LEMMA SelectedRemain ==
  ASSUME TypeOK, SelectedOnce, Remain, \A w \in Flows : state[w] # "none" => state'[w] # "none"
  PROVE  SelectedOnce'
<1> SUFFICES ASSUME NEW t \in Threads, NEW i \in DOMAIN stack'[t], NEW w \in Held(stack'[t][i])
             PROVE  state'[w] # "none"
  BY DEF SelectedOnce, Held
<1>1. i \in DOMAIN stack[t] /\ w \in Held(stack[t][i])
  BY DEF Remain, Below
<1>2. stack[t][i] \in Frame
  <2>1. stack[t] \in Seq(Frame)
    BY DEF TypeOK
  <2> QED BY <1>1, <2>1
<1>3. w \in Flows
  BY <1>1, <1>2 DEF Frame, Held
<1> QED BY <1>1, <1>3 DEF SelectedOnce

(* A new handler on the stack s, on which the running one has gone on.      *)
LEMMA HandleRemains ==
  ASSUME TypeOK, CountInv, SelectedOnce, NEW t \in Threads, NEW s \in Seq(Frame), NEW e \in EventTypes,
         Len(s) = Len(stack[t]),
         \A i \in DOMAIN s : Held(s[i]) = Held(stack[t][i]) /\ s[i].held = stack[t][i].held,
         Handle(t, s, e), UNCHANGED <<state, count, trail>>
  PROVE  stack' \in [Threads -> Seq(Frame)] /\ shared' \subseteq Flows /\ CountInv' /\ SelectedOnce'
<1> DEFINE n == [event |-> e, todo |-> Active, cur |-> None, next |-> 1, ok |-> TRUE, conn |-> TRUE,
                 held |-> [w \in Flows |-> IF w \in Active THEN count[w] ELSE None]]
           top == Len(stack[t]) + 1
<1>1. n \in Frame /\ Held(n) = Active /\ Active \subseteq Flows
  BY DEF TypeOK, Frame, Held, Active
<1>2. \A w \in Flows : n.held[w] = IF w \in Active THEN count[w] ELSE None
  OBVIOUS
<1>3. /\ stack' = [stack EXCEPT ![t] = Append(s, n)]
      /\ shared' = shared \cup
           (Active \cap UNION {UNION {Held(stack[u][i]) : i \in DOMAIN stack[u]} : u \in Threads})
  BY DEF Handle
<1> HIDE DEF n
<1>4. /\ Append(s, n) \in Seq(Frame) /\ DOMAIN Append(s, n) = DOMAIN stack[t] \cup {top} /\ top \notin DOMAIN stack[t]
      /\ Append(s, n)[top] = n /\ \A i \in DOMAIN stack[t] : i \in DOMAIN s /\ Append(s, n)[i] = s[i]
  <2>1. stack[t] \in Seq(Frame)
    BY DEF TypeOK
  <2>2. Len(s) \in Nat /\ DOMAIN s = 1 .. Len(s) /\ DOMAIN stack[t] = 1 .. Len(s)
    BY <2>1
  <2>3. Append(s, n) \in Seq(Frame) /\ Len(Append(s, n)) = Len(s) + 1 /\ Append(s, n)[Len(s) + 1] = n
        /\ \A i \in 1 .. Len(s) : Append(s, n)[i] = s[i]
    BY <1>1, <2>2
  <2>4. DOMAIN Append(s, n) = 1 .. Len(s) + 1
    BY <2>3
  <2> QED BY <2>2, <2>3, <2>4
<1>5. stack' \in [Threads -> Seq(Frame)] /\ shared' \subseteq Flows /\ shared \subseteq shared'
  BY <1>1, <1>3, <1>4 DEF TypeOK
<1>6. stack'[t] = Append(s, n) /\ \A u \in Threads : u # t => stack'[u] = stack[u]
  BY <1>3 DEF TypeOK
<1> HIDE DEF top
<1>7. ASSUME NEW u \in Threads, NEW i \in DOMAIN stack'[u], <<u, i>> # <<t, top>>
      PROVE  /\ i \in DOMAIN stack[u]
             /\ Held(stack'[u][i]) = Held(stack[u][i]) /\ stack'[u][i].held = stack[u][i].held
  BY <1>4, <1>6, <1>7
<1>8. stack'[t][top] = n
  BY <1>4, <1>6
<1>9. RowsReal'
  BY <1>5 DEF CountInv, RowsReal
<1>10. ASSUME NEW u \in Threads, NEW i \in DOMAIN stack'[u], NEW w \in Flows, stack'[u][i].held[w] # None
       PROVE  /\ LessEq(stack'[u][i].held[w], trail[w])
              /\ w \in Held(stack'[u][i]) \ shared' => stack'[u][i].held[w] = count[w]
  <2>1. CASE <<u, i>> = <<t, top>>
    <3>1. stack'[u][i].held[w] = count[w]
      BY <1>2, <1>8, <1>10, <2>1
    <3> QED BY <3>1 DEF CountInv, RowsReal
  <2>2. CASE <<u, i>> # <<t, top>>
    BY <1>5, <1>7, <1>10, <2>2 DEF CountInv, HeldReal
  <2> QED BY <2>1, <2>2
<1>11. HeldReal'
  BY <1>10 DEF HeldReal, Held
<1>12. ASSUME NEW u \in Threads, NEW i \in DOMAIN stack'[u], <<u, i>> # <<t, top>>
       PROVE  Active \cap Held(stack'[u][i]) \subseteq shared'
  <2>1. i \in DOMAIN stack[u] /\ Held(stack'[u][i]) = Held(stack[u][i])
    BY <1>7, <1>12
  <2> QED BY <1>3, <2>1
<1>13. ASSUME NEW u \in Threads, NEW v \in Threads, NEW i \in DOMAIN stack'[u], NEW j \in DOMAIN stack'[v],
              <<u, i>> # <<v, j>>
       PROVE  Held(stack'[u][i]) \cap Held(stack'[v][j]) \subseteq shared'
  <2>1. CASE <<u, i>> = <<t, top>>
    <3>1. Held(stack'[u][i]) = Active /\ <<v, j>> # <<t, top>>
      BY <1>1, <1>8, <1>13, <2>1
    <3> QED BY <1>12, <3>1
  <2>2. CASE <<v, j>> = <<t, top>>
    <3>1. Held(stack'[v][j]) = Active /\ <<u, i>> # <<t, top>>
      BY <1>1, <1>8, <1>13, <2>2
    <3> QED BY <1>12, <3>1
  <2>3. CASE <<u, i>> # <<t, top>> /\ <<v, j>> # <<t, top>>
    <3>1. /\ i \in DOMAIN stack[u] /\ Held(stack'[u][i]) = Held(stack[u][i])
          /\ j \in DOMAIN stack[v] /\ Held(stack'[v][j]) = Held(stack[v][j])
      BY <1>7, <2>3
    <3>2. Held(stack[u][i]) \cap Held(stack[v][j]) \subseteq shared
      BY <1>13, <3>1 DEF CountInv, HeldAlone
    <3> QED BY <1>5, <3>1, <3>2
  <2> QED BY <2>1, <2>2, <2>3
<1>14. HeldAlone'
  BY <1>13 DEF HeldAlone, Held
<1>15. ASSUME NEW u \in Threads, NEW i \in DOMAIN stack'[u], NEW w \in Held(stack'[u][i])
       PROVE  state[w] # "none"
  <2>1. CASE <<u, i>> = <<t, top>>
    BY <1>1, <1>8, <2>1 DEF Active
  <2>2. CASE <<u, i>> # <<t, top>>
    BY <1>7, <2>2 DEF SelectedOnce
  <2> QED BY <2>1, <2>2
<1>16. SelectedOnce'
  BY <1>15 DEF SelectedOnce, Held
<1> QED BY <1>5, <1>9, <1>11, <1>14, <1>16 DEF CountInv

-----------------------------------------------------------------------------
IInv == TypeOK /\ CountInv /\ CauseInv

LEMMA InitInv == WorkflowAssumption /\ Init => IInv
<1> SUFFICES ASSUME WorkflowAssumption, Init PROVE IInv
  OBVIOUS
<1>1. TypeOK
  <2>1. <<>> \in Seq(Frame) /\ Zero \in Counts
    BY DEF Zero, Counts
  <2>2. /\ count \in [Flows -> Counts] /\ trail \in [Flows -> Counts] /\ stack \in [Threads -> Seq(Frame)]
        /\ making \in [Threads -> Flows \cup {None}]
    BY <2>1 DEF Init
  <2>3. state \in [Flows -> {"none", "on", "off", "gone"}] /\ events \in 0 .. MaxEvents /\ edits \in 0 .. MaxEdits
    BY DEF Init, WorkflowAssumption
  <2> QED BY <2>2, <2>3 DEF Init, TypeOK
<1>2. \A t \in Threads : DOMAIN stack[t] = {}
  BY DEF Init
<1>3. CountInv
  BY <1>2 DEF Init, CountInv, RowsReal, HeldReal, HeldAlone, LessEq, Zero
<1>4. CauseInv
  BY <1>2 DEF Init, CauseInv, PassedOverWithCause, SelectedOnce, MakingNew
<1> QED BY <1>1, <1>3, <1>4 DEF IInv

LEMMA Selected ==
  ASSUME IInv, NEW t \in Threads, Running(t), NEW w \in Held(Top(t))
  PROVE  w \in Flows /\ state[w] \in {"on", "off", "gone"}
<1>1. Top(t) \in Frame /\ Len(stack[t]) \in DOMAIN stack[t]
  BY TopType DEF IInv
<1>2. w \in Flows
  BY <1>1 DEF Held, Frame
<1>3. state[w] # "none"
  BY <1>1 DEF IInv, CauseInv, SelectedOnce, Top
<1> QED BY <1>2, <1>3 DEF IInv, TypeOK

(* The steps of a handler that write neither a row nor a counter.           *)
LEMMA QuietStep ==
  ASSUME IInv, Remain, stack' \in [Threads -> Seq(Frame)], missed' \in BOOLEAN, broken' \in BOOLEAN,
         broken => broken', missed' => missed \/ broken' \/ \E w \in Flows : state[w] = "gone",
         UNCHANGED <<rows, making, events, edits, trail, shared>>
  PROVE  IInv'
<1>1. TypeOK'
  BY DEF IInv, TypeOK, rows
<1>2. CountInv'
  BY CountsRemain DEF IInv, rows
<1>3. SelectedOnce'
  BY SelectedRemain DEF IInv, CauseInv, rows
<1>4. PassedOverWithCause' /\ MakingNew'
  BY DEF IInv, CauseInv, PassedOverWithCause, MakingNew, rows
<1> QED BY <1>1, <1>2, <1>3, <1>4 DEF IInv, CauseInv

LEMMA TopStep ==
  ASSUME IInv, NEW t \in Threads, Running(t), NEW f \in Frame, Below(f, Top(t)), SetTop(t, f),
         missed' \in BOOLEAN, broken' \in BOOLEAN, broken => broken', missed' => missed \/ broken',
         UNCHANGED <<rows, making, events, edits, trail, shared>>
  PROVE  IInv'
<1>1. stack' \in [Threads -> Seq(Frame)] /\ Remain
  BY SetTopRemains DEF IInv
<1> QED BY <1>1, QuietStep

(* The handler ends for the workflow w, whose row is gone unless the step   *)
(* says that the loop was cut short.                                        *)
LEMMA CutStep ==
  ASSUME IInv, NEW t \in Threads, Running(t), NEW w \in Held(Top(t)), Return(t),
         broken' = (broken \/ Exists(w)),
         UNCHANGED <<rows, making, events, edits, trail, shared>>
  PROVE  IInv'
<1>1. w \in Flows /\ (Exists(w) \/ state[w] = "gone")
  BY Selected DEF Exists
<1>2. Exists(w) \in BOOLEAN /\ broken \in BOOLEAN
  BY DEF Exists, IInv, TypeOK
<1>3. broken' \in BOOLEAN /\ (broken => broken') /\ (Exists(w) => broken')
  BY <1>2
<1> QED BY <1>1, <1>3, ReturnRemains, QuietStep DEF IInv

LEMMA DidType ==
  ASSUME NEW f \in Frame, NEW ok \in BOOLEAN
  PROVE  Did(f, ok) \in Frame /\ Held(Did(f, ok)) = Held(f) /\ Did(f, ok).held = f.held
<1>1. f.ok \in BOOLEAN /\ (f.ok /\ ok) \in BOOLEAN /\ f.next + 1 \in Nat
  BY DEF Frame
<1> QED BY <1>1 DEF Frame, Did, Held

LEMMA PublishStep ==
  ASSUME IInv, NEW t \in Threads, NEW e \in EventTypes, Publish(t, e)
  PROVE  IInv'
<1>1. stack[t] = <<>> /\ <<>> \in Seq(Frame) /\ DOMAIN <<>> = {}
  BY DEF Publish, Free, Running
<1>2. Handle(t, <<>>, e) /\ UNCHANGED <<state, count, trail>>
  BY DEF Publish, rows
<1>3. stack' \in [Threads -> Seq(Frame)] /\ shared' \subseteq Flows /\ CountInv' /\ SelectedOnce'
  BY <1>1, <1>2, HandleRemains DEF IInv, CauseInv
<1>4. TypeOK'
  <2>1. events' \in 0 .. MaxEvents
    BY WorkflowAssumption DEF IInv, TypeOK, Publish, WorkflowAssumption
  <2> QED BY <1>3, <2>1 DEF IInv, Publish, TypeOK, rows
<1>5. PassedOverWithCause' /\ MakingNew'
  BY DEF IInv, CauseInv, PassedOverWithCause, MakingNew, Publish, rows
<1> QED BY <1>3, <1>4, <1>5 DEF IInv, CauseInv

LEMMA EmitStep ==
  ASSUME IInv, NEW t \in Threads, Emit(t)
  PROVE  IInv'
<1> DEFINE s == [stack[t] EXCEPT ![Len(stack[t])] = Did(Top(t), TRUE)]
<1>1. /\ Running(t) /\ Handle(t, s, "projects.project.created")
      /\ UNCHANGED <<rows, making, events, edits, trail, missed, broken>>
  BY DEF Emit, Acting, Top
<1>2. /\ stack[t] \in Seq(Frame) /\ Len(stack[t]) \in 1 .. Len(stack[t])
      /\ DOMAIN stack[t] = 1 .. Len(stack[t]) /\ Top(t) \in Frame
  BY <1>1, TopType DEF IInv
<1>3. /\ Did(Top(t), TRUE) \in Frame /\ Held(Did(Top(t), TRUE)) = Held(Top(t))
      /\ Did(Top(t), TRUE).held = Top(t).held
  BY <1>2, DidType
<1>4. /\ s \in Seq(Frame) /\ Len(s) = Len(stack[t]) /\ DOMAIN s = DOMAIN stack[t]
      /\ \A i \in DOMAIN s : s[i] = IF i = Len(stack[t]) THEN Did(Top(t), TRUE) ELSE stack[t][i]
  <2>1. \A i \in 1 .. Len(stack[t]) : s[i] = IF i = Len(stack[t]) THEN Did(Top(t), TRUE) ELSE stack[t][i]
    BY <1>2
  <2>2. ASSUME NEW g \in Frame
        PROVE  /\ [stack[t] EXCEPT ![Len(stack[t])] = g] \in Seq(Frame)
               /\ Len([stack[t] EXCEPT ![Len(stack[t])] = g]) = Len(stack[t])
    BY <1>2, ExceptSeq
  <2>3. s \in Seq(Frame) /\ Len(s) = Len(stack[t])
    BY <1>3, <2>2
  <2>4. DOMAIN s = DOMAIN stack[t]
    OBVIOUS
  <2> QED BY <1>2, <2>1, <2>3, <2>4
<1> HIDE DEF s
<1>5. \A i \in DOMAIN s : Held(s[i]) = Held(stack[t][i]) /\ s[i].held = stack[t][i].held
  BY <1>3, <1>4 DEF Top
<1>6. "projects.project.created" \in EventTypes /\ UNCHANGED <<state, count, trail>>
  BY <1>1 DEF EventTypes, rows
<1>7. stack' \in [Threads -> Seq(Frame)] /\ shared' \subseteq Flows /\ CountInv' /\ SelectedOnce'
  BY <1>1, <1>4, <1>5, <1>6, HandleRemains DEF IInv, CauseInv
<1>8. TypeOK'
  BY <1>1, <1>7 DEF IInv, TypeOK, rows
<1>9. PassedOverWithCause' /\ MakingNew'
  BY <1>1 DEF IInv, CauseInv, PassedOverWithCause, MakingNew, rows
<1> QED BY <1>7, <1>8, <1>9 DEF IInv, CauseInv

LEMMA ActionStep ==
  ASSUME IInv, NEW t \in Threads, EmitTimesOut(t) \/ Act(t)
  PROVE  IInv'
<1> DEFINE f == Top(t)
<1>1. Running(t) /\ f \in Frame /\ UNCHANGED <<rows, making, aux>>
  BY TopType DEF IInv, EmitTimesOut, Act, Acting
<1>2. PICK ok \in BOOLEAN :
        \/ SetTop(t, Did(f, ok))
        \/ SetTop(t, [Did(f, ok) EXCEPT !.conn = TRUE])
        \/ SetTop(t, [Did(f, ok) EXCEPT !.conn = FALSE, !.held = [w \in Flows |-> None]])
  BY DEF EmitTimesOut, Act
<1> HIDE DEF f
<1>3. Did(f, ok) \in Frame /\ Held(Did(f, ok)) = Held(f) /\ Did(f, ok).held = f.held
  BY <1>1, DidType
<1>4. ASSUME NEW g \in Frame, SetTop(t, g), Held(g) = Held(f), \A w \in Flows : g.held[w] \in {None, f.held[w]}
      PROVE  IInv'
  <2>1. Below(g, f)
    BY <1>4 DEF Below
  <2> QED BY <1>1, <1>4, <2>1, TopStep DEF aux, IInv, TypeOK, f
<1>5. CASE SetTop(t, Did(f, ok))
  BY <1>3, <1>4, <1>5
<1>6. CASE SetTop(t, [Did(f, ok) EXCEPT !.conn = TRUE])
  <2> DEFINE g == [Did(f, ok) EXCEPT !.conn = TRUE]
  <2>1. g \in Frame /\ Held(g) = Held(f) /\ g.held = f.held
    BY <1>3 DEF Frame, Held
  <2>2. SetTop(t, g)
    BY <1>6
  <2> HIDE DEF g
  <2> QED BY <1>4, <2>1, <2>2
<1>7. CASE SetTop(t, [Did(f, ok) EXCEPT !.conn = FALSE, !.held = [w \in Flows |-> None]])
  <2> DEFINE g == [Did(f, ok) EXCEPT !.conn = FALSE, !.held = [w \in Flows |-> None]]
  <2>1. g \in Frame /\ Held(g) = Held(f) /\ \A w \in Flows : g.held[w] = None
    BY <1>3 DEF Frame, Held
  <2>2. SetTop(t, g)
    BY <1>7
  <2> HIDE DEF g
  <2> QED BY <1>4, <2>1, <2>2
<1> QED BY <1>2, <1>5, <1>6, <1>7

(* Only the handlers below the error are left, the uppermost of them with   *)
(* its action or its workflow behind it.                                    *)
LEMMA TooDeepStep ==
  ASSUME IInv, NEW t \in Threads, EmitTooDeep(t)
  PROVE  IInv'
<1>1. /\ Running(t) /\ broken' = TRUE /\ missed' \in BOOLEAN
      /\ UNCHANGED <<rows, making, events, edits, trail, shared>>
  BY DEF EmitTooDeep, Acting, IInv, TypeOK
<1>2. /\ stack[t] \in Seq(Frame) /\ Len(stack[t]) \in 1 .. Len(stack[t])
      /\ DOMAIN stack[t] = 1 .. Len(stack[t]) /\ Top(t) \in Frame
  BY <1>1, TopType DEF IInv
<1>3. PICK n \in 1 .. Len(stack[t]), g \in Frame :
        /\ stack' = [stack EXCEPT ![t] = Append(SubSeq(stack[t], 1, n - 1), g)]
        /\ Below(g, stack[t][n])
  <2>1. PICK n \in 1 .. Len(stack[t]) :
          LET f == IF n = Len(stack[t]) THEN Did(Top(t), TRUE) ELSE stack[t][n]
          IN \/ \E ok \in BOOLEAN :
                  stack' = [stack EXCEPT ![t] = Append(SubSeq(stack[t], 1, n - 1), [f EXCEPT !.ok = f.ok /\ ok])]
             \/ stack' = [stack EXCEPT ![t] = Append(SubSeq(stack[t], 1, n - 1), Between(f))]
    BY DEF EmitTooDeep
  <2> DEFINE f == IF n = Len(stack[t]) THEN Did(Top(t), TRUE) ELSE stack[t][n]
  <2>2. f \in Frame /\ Held(f) = Held(stack[t][n]) /\ f.held = stack[t][n].held
    <3>1. Did(Top(t), TRUE) \in Frame /\ Held(Did(Top(t), TRUE)) = Held(Top(t)) /\ Did(Top(t), TRUE).held = Top(t).held
      BY <1>2, DidType
    <3>2. stack[t][n] \in Frame
      BY <1>2
    <3> QED BY <3>1, <3>2 DEF Top
  <2> HIDE DEF f
  <2>3. ASSUME NEW ok \in BOOLEAN
        PROVE  [f EXCEPT !.ok = f.ok /\ ok] \in Frame /\ Below([f EXCEPT !.ok = f.ok /\ ok], stack[t][n])
    <3>1. (f.ok /\ ok) \in BOOLEAN
      BY <2>2 DEF Frame
    <3> QED BY <2>2, <3>1 DEF Frame, Below, Held
  <2>4. Between(f) \in Frame /\ Below(Between(f), stack[t][n])
    BY <2>2 DEF Between, Frame, Below, Held
  <2> QED BY <2>1, <2>3, <2>4 DEF f
<1> DEFINE s == Append(SubSeq(stack[t], 1, n - 1), g)
<1>4. s \in Seq(Frame) /\ DOMAIN s = 1 .. n /\ \A i \in 1 .. n : s[i] = IF i = n THEN g ELSE stack[t][i]
  <2>1. n - 1 \in 0 .. Len(stack[t]) /\ n \in Nat
    BY <1>2
  <2>2. /\ SubSeq(stack[t], 1, n - 1) \in Seq(Frame) /\ Len(SubSeq(stack[t], 1, n - 1)) = n - 1
        /\ \A i \in 1 .. n - 1 : SubSeq(stack[t], 1, n - 1)[i] = stack[t][i]
    BY <1>2, <2>1
  <2> QED BY <2>1, <2>2
<1>5. stack' \in [Threads -> Seq(Frame)] /\ stack'[t] = s /\ \A u \in Threads : u # t => stack'[u] = stack[u]
  BY <1>3, <1>4 DEF IInv, TypeOK
<1> HIDE DEF s
<1>6. ASSUME NEW u \in Threads, NEW i \in DOMAIN stack'[u]
      PROVE  i \in DOMAIN stack[u] /\ Below(stack'[u][i], stack[u][i])
  <2>1. \A h : Below(h, h)
    BY DEF Below
  <2>2. CASE u = t
    BY <1>2, <1>3, <1>4, <1>5, <1>6, <2>1, <2>2
  <2>3. CASE u # t
    BY <1>5, <1>6, <2>1, <2>3
  <2> QED BY <2>2, <2>3
<1>7. Remain
  BY <1>6 DEF Remain
<1> QED BY <1>1, <1>5, <1>7, QuietStep

LEMMA MatchStep ==
  ASSUME IInv, NEW t \in Threads, NEW w \in Flows, Match(t, w)
  PROVE  IInv'
<1> DEFINE f == Top(t)
           c == IF f.held[w] = None THEN count[w] ELSE f.held[w]
           g == [f EXCEPT !.todo = f.todo \ {w}, !.held[w] = IF Matches(f, w) THEN c ELSE None,
                          !.cur = IF Matches(f, w) THEN w ELSE None, !.next = 1, !.ok = TRUE,
                          !.conn = f.conn \/ f.held[w] = None]
<1>1. /\ Running(t) /\ f \in Frame /\ w \in f.todo /\ w \in Held(f) /\ f.cur = None
      /\ UNCHANGED <<rows, making, events, edits, trail, shared>>
  BY TopType DEF IInv, Match, Held
<1>2. CASE Return(t) /\ broken' = (broken \/ Exists(w))
  BY <1>1, <1>2, CutStep
<1>3. CASE SetTop(t, g) /\ UNCHANGED <<missed, broken>>
  <2>1. c \in Counts /\ f.conn \in BOOLEAN
    BY <1>1 DEF Frame, IInv, TypeOK
  <2>2. /\ g \in Frame /\ g.todo = f.todo \ {w} /\ g.cur \in {w, None}
        /\ g.held = [f.held EXCEPT ![w] = IF Matches(f, w) THEN c ELSE None]
    BY <1>1, <2>1 DEF Frame
  <2> HIDE DEF g
  <2>3. Held(g) \subseteq Held(f) /\ \A v \in Flows : g.held[v] \in {None, f.held[v], count[v]}
    BY <1>1, <2>2 DEF Held, Frame
  <2>4. Below(g, f)
    BY <2>3 DEF Below
  <2> QED BY <1>1, <1>3, <2>2, <2>4, TopStep DEF IInv, TypeOK
<1> QED BY <1>2, <1>3 DEF Match

LEMMA ReloadStep ==
  ASSUME IInv, NEW t \in Threads, Reload(t)
  PROVE  IInv'
<1> DEFINE f == Top(t)
           w == f.cur
           g == [f EXCEPT !.held[w] = count[w], !.conn = TRUE]
           h == [Between(f) EXCEPT !.conn = TRUE]
<1>1. /\ Running(t) /\ f \in Frame /\ w \in Flows /\ w \in Held(f)
      /\ UNCHANGED <<rows, making, events, edits, trail, shared>>
  BY TopType DEF IInv, Reload, Acted, Frame, Held
<1>2. CASE SetTop(t, g) /\ UNCHANGED <<missed, broken>>
  <2>1. g \in Frame /\ Held(g) = Held(f) /\ g.held = [f.held EXCEPT ![w] = count[w]]
    BY <1>1 DEF Frame, IInv, TypeOK, Held
  <2> HIDE DEF g
  <2>2. Below(g, f)
    BY <1>1, <2>1 DEF Below, Frame
  <2> QED BY <1>1, <1>2, <2>1, <2>2, TopStep DEF IInv, TypeOK
<1>3. CASE SetTop(t, h) /\ missed' = TRUE /\ broken' = TRUE
  <2>1. h \in Frame /\ Below(h, f)
    BY <1>1 DEF Between, Frame, Held, Below
  <2> HIDE DEF h
  <2> QED BY <1>1, <1>3, <2>1, TopStep
<1>4. CASE Return(t) /\ broken' = (broken \/ Exists(w))
  BY <1>1, <1>4, CutStep
<1> QED BY <1>2, <1>3, <1>4 DEF Reload

LEMMA ReturnStep ==
  ASSUME IInv, NEW t \in Threads, FinishRaises(t) \/ Done(t)
  PROVE  IInv'
<1>1. /\ Running(t) /\ Top(t) \in Frame /\ Return(t)
      /\ UNCHANGED <<rows, making, events, edits, trail, shared>>
  BY TopType DEF IInv, FinishRaises, Done, Acted
<1>2. CASE FinishRaises(t)
  <2>1. Top(t).cur \in Held(Top(t)) /\ broken' = (broken \/ Exists(Top(t).cur))
    BY <1>2 DEF FinishRaises, Acted, Held
  <2> QED BY <1>1, <2>1, CutStep
<1>3. CASE Done(t)
  <2>1. Held(Top(t)) = {} /\ broken' = broken
    BY <1>3 DEF Done, Held
  <2>2. missed' = missed
    BY <1>1, <2>1 DEF Return, IInv, TypeOK
  <2> QED BY <1>1, <2>1, <2>2, ReturnRemains, QuietStep DEF IInv, TypeOK
<1> QED BY <1>2, <1>3

(* The counters of the row and the run row are those of the session, one    *)
(* more; nobody else holds the workflow unless it is shared.                *)
LEMMA FinishStep ==
  ASSUME IInv, NEW t \in Threads, Finish(t)
  PROVE  IInv'
<1> DEFINE f == Top(t)
           w == f.cur
           c == f.held[w]
           top == Len(stack[t])
<1>1. Running(t) /\ w # None
  BY DEF Finish, Acted
<1>2. f \in Frame /\ top \in DOMAIN stack[t] /\ f = stack[t][top] /\ stack[t] \in Seq(Frame)
  BY <1>1, TopType DEF IInv, Top
<1>3. w \in Flows /\ w \in Held(f) /\ c \in Counts /\ c # None
  BY <1>1, <1>2 DEF Finish, Frame, Held
<1> DEFINE G(kept) == [Between(f) EXCEPT !.held[w] = None, !.conn = kept]
<1>0. PICK kept \in BOOLEAN : SetTop(t, G(kept))
  BY DEF Finish
<1> DEFINE g == G(kept)
<1>4. g \in Frame /\ Held(g) \subseteq Held(f) /\ g.held = [f.held EXCEPT ![w] = None]
  BY <1>2, <1>3 DEF Between, Frame, Held
<1>5. /\ count' = [count EXCEPT ![w] = Stored(w, Bump(c, f.ok), f.ok)]
      /\ trail' = [trail EXCEPT ![w] = Bump(trail[w], f.ok)]
      /\ SetTop(t, g)
      /\ UNCHANGED <<state, trigger, script, making, events, edits, shared, missed, broken>>
  BY <1>0 DEF Finish
<1>6. count[w] \in Counts /\ trail[w] \in Counts /\ f.ok \in BOOLEAN /\ LessEq(c, trail[w]) /\ LessEq(count[w], trail[w])
  <2>1. count[w] \in Counts /\ trail[w] \in Counts /\ f.ok \in BOOLEAN
    BY <1>2, <1>3 DEF IInv, TypeOK, Frame
  <2>2. LessEq(count[w], trail[w])
    BY <1>3 DEF IInv, CountInv, RowsReal
  <2>3. LessEq(stack[t][top].held[w], trail[w])
    BY <1>2, <1>3 DEF IInv, CountInv, HeldReal
  <2> QED BY <1>2, <2>1, <2>2, <2>3
<1>7. Bump(c, f.ok) \in Counts /\ Bump(trail[w], f.ok) \in Counts /\ Stored(w, Bump(c, f.ok), f.ok) \in Counts
  BY <1>3, <1>6 DEF Bump, Stored, Counts
<1>8. /\ LessEq(Stored(w, Bump(c, f.ok), f.ok), Bump(trail[w], f.ok)) /\ LessEq(trail[w], Bump(trail[w], f.ok))
      /\ c = trail[w] /\ count[w] = trail[w] => Stored(w, Bump(c, f.ok), f.ok) = Bump(trail[w], f.ok)
  BY <1>3, <1>6 DEF Bump, Stored, Counts, LessEq
<1>9. w \notin shared => c = trail[w] /\ count[w] = trail[w]
  BY <1>2, <1>3 DEF IInv, CountInv, RowsReal, HeldReal
<1> HIDE DEF g
<1>10. stack' \in [Threads -> Seq(Frame)] /\ Remain
  <2>1. Below(g, f)
    BY <1>3, <1>4 DEF Below, Frame
  <2> QED BY <1>1, <1>4, <1>5, <2>1, SetTopRemains DEF IInv
<1>11. stack'[t][top] = g
  <2>1. stack' = [stack EXCEPT ![t] = [stack[t] EXCEPT ![top] = g]] /\ stack \in [Threads -> Seq(Frame)]
    BY <1>5 DEF SetTop, IInv, TypeOK
  <2> QED BY <1>2, <2>1
<1> HIDE DEF top, f, c
<1>12. TypeOK'
  BY <1>5, <1>7, <1>10 DEF IInv, TypeOK
<1>13. /\ count' \in [Flows -> Counts] /\ count'[w] = Stored(w, Bump(c, f.ok), f.ok)
       /\ trail' \in [Flows -> Counts] /\ trail'[w] = Bump(trail[w], f.ok)
       /\ \A v \in Flows : v # w => count'[v] = count[v] /\ trail'[v] = trail[v]
  BY <1>3, <1>5, <1>7 DEF IInv, TypeOK
<1> HIDE DEF w
<1>14. RowsReal'
  <2> SUFFICES ASSUME NEW v \in Flows
               PROVE  LessEq(count'[v], trail'[v]) /\ (v \notin shared' => count'[v] = trail'[v])
    BY DEF RowsReal, LessEq
  <2>1. CASE v = w
    BY <1>5, <1>8, <1>9, <1>13, <2>1
  <2>2. CASE v # w
    BY <1>5, <1>13, <2>2 DEF IInv, CountInv, RowsReal
  <2> QED BY <2>1, <2>2
<1>15. ASSUME NEW u \in Threads, NEW i \in DOMAIN stack'[u], NEW v \in Flows, stack'[u][i].held[v] # None
       PROVE  /\ LessEq(stack'[u][i].held[v], trail'[v])
              /\ v \in Held(stack'[u][i]) \ shared' => stack'[u][i].held[v] = count'[v]
  <2>1. /\ i \in DOMAIN stack[u] /\ Held(stack'[u][i]) \subseteq Held(stack[u][i])
        /\ stack'[u][i].held[v] \in {stack[u][i].held[v], count[v]}
    BY <1>10, <1>15 DEF Remain, Below
  <2>2. /\ LessEq(stack'[u][i].held[v], trail[v])
        /\ v \in Held(stack'[u][i]) \ shared => stack'[u][i].held[v] = count[v]
    <3>1. CASE stack'[u][i].held[v] = count[v]
      BY <3>1 DEF IInv, CountInv, RowsReal
    <3>2. CASE stack'[u][i].held[v] = stack[u][i].held[v]
      BY <1>15, <2>1, <3>2 DEF IInv, CountInv, HeldReal
    <3> QED BY <2>1, <3>1, <3>2
  <2>3. CASE v # w
    BY <1>5, <1>13, <2>2, <2>3
  <2>4. CASE v = w
    <3>1. <<u, i>> # <<t, top>>
      BY <1>3, <1>4, <1>11, <1>15, <2>4 DEF Frame
    <3>2. Held(stack'[u][i]) \cap Held(f) \subseteq shared
      BY <1>2, <2>1, <3>1 DEF IInv, CountInv, HeldAlone
    <3>3. v \notin Held(stack'[u][i]) \ shared'
      BY <1>3, <1>5, <2>4, <3>2
    <3>4. stack'[u][i].held[v] \in Counts
      <4>1. stack'[u] \in Seq(Frame)
        BY <1>10
      <4>2. stack'[u][i] \in Frame
        BY <1>15, <4>1
      <4> QED BY <1>15, <4>2 DEF Frame
    <3>5. LessEq(stack'[u][i].held[v], trail'[v])
      BY <1>6, <1>7, <1>8, <1>13, <2>2, <2>4, <3>4 DEF LessEq, Counts
    <3> QED BY <3>3, <3>5
  <2> QED BY <2>3, <2>4
<1>16. HeldReal'
  BY <1>15 DEF HeldReal, Held, LessEq
<1>17. HeldAlone'
  BY <1>5, <1>10, AloneRemain DEF IInv, CountInv
<1>18. CauseInv'
  <2>1. SelectedOnce'
    BY <1>5, <1>10, SelectedRemain DEF IInv, CauseInv
  <2> QED BY <1>5, <2>1 DEF IInv, CauseInv, PassedOverWithCause, MakingNew
<1> QED BY <1>12, <1>14, <1>16, <1>17, <1>18 DEF IInv, CountInv

(* A change of the workflows leaves the handlers and the counters alone.    *)
LEMMA EditStep ==
  ASSUME IInv, NEW w \in Flows, NEW s \in {"on", "off", "gone"}, Edit(w, s),
         making' \in [Threads -> Flows \cup {None}], MakingNew',
         state[w] = "gone" => s = "gone"
  PROVE  IInv'
<1>1. /\ state' = [state EXCEPT ![w] = s]
      /\ UNCHANGED <<count, trigger, script, stack, events, trail, shared, missed, broken>>
  BY DEF Edit
<1>2. TypeOK'
  <2>1. edits' \in 0 .. MaxEdits
    BY WorkflowAssumption DEF IInv, TypeOK, Edit, WorkflowAssumption
  <2> QED BY <1>1, <2>1 DEF IInv, TypeOK
<1>3. CountInv'
  BY <1>1 DEF IInv, CountInv, RowsReal, HeldReal, HeldAlone, Held, LessEq
<1>4. \A v \in Flows : (state[v] # "none" => state'[v] # "none") /\ (state[v] = "gone" => state'[v] = "gone")
  BY <1>1 DEF IInv, TypeOK
<1>5. Remain
  BY <1>1 DEF Remain, Below
<1>6. SelectedOnce'
  BY <1>4, <1>5, SelectedRemain DEF IInv, CauseInv
<1>7. PassedOverWithCause'
  BY <1>1, <1>4 DEF IInv, CauseInv, PassedOverWithCause
<1> QED BY <1>2, <1>3, <1>6, <1>7 DEF IInv, CauseInv

LEMMA CreateStep ==
  ASSUME IInv, NEW t \in Threads, Create(t)
  PROVE  IInv'
<1> DEFINE w == making[t]
<1>1. w \in Flows /\ w # None /\ state[w] = "none" /\ Edit(w, "on") /\ making' = [making EXCEPT ![t] = None]
  BY DEF Create, IInv, TypeOK, CauseInv, MakingNew
<1>2. making' \in [Threads -> Flows \cup {None}] /\ state' = [state EXCEPT ![w] = "on"]
  BY <1>1 DEF IInv, TypeOK, Edit
<1>3. MakingNew'
  BY <1>1, <1>2 DEF IInv, TypeOK, CauseInv, MakingNew
<1> QED BY <1>1, <1>2, <1>3, EditStep

LEMMA EndpointStep ==
  ASSUME IInv, NEW w \in Flows, SetActive(w) \/ Delete(w)
  PROVE  IInv'
<1>1. PICK s \in {"on", "off", "gone"} : Edit(w, s)
  BY DEF SetActive, Delete
<1>2. state[w] \in {"on", "off"} /\ making' = making
  BY DEF SetActive, Delete, Exists
<1>3. MakingNew'
  BY <1>1, <1>2 DEF Edit, IInv, TypeOK, CauseInv, MakingNew
<1> QED BY <1>1, <1>2, <1>3, EditStep DEF IInv, TypeOK

LEMMA CountStep ==
  ASSUME IInv, NEW t \in Threads, NEW w \in Flows, CountActive(t, w)
  PROVE  IInv'
<1>1. making' = [making EXCEPT ![t] = w] /\ UNCHANGED <<rows, stack, aux>>
  BY DEF CountActive
<1>2. TypeOK'
  BY <1>1 DEF IInv, TypeOK, rows, aux
<1>3. CountInv'
  BY <1>1 DEF IInv, CountInv, RowsReal, HeldReal, HeldAlone, Held, LessEq, rows, aux
<1>4. MakingNew'
  BY <1>1 DEF CountActive, IInv, TypeOK, CauseInv, MakingNew, rows
<1> QED BY <1>1, <1>2, <1>3, <1>4 DEF IInv, CauseInv, PassedOverWithCause, SelectedOnce, Held, rows, aux

LEMMA NextInv == IInv /\ [Next]_vars => IInv'
<1> SUFFICES ASSUME IInv, [Next]_vars PROVE IInv'
  OBVIOUS
<1>1. ASSUME NEW t \in Threads, Step(t) PROVE IInv'
  BY <1>1, EmitStep, ActionStep, TooDeepStep, ReloadStep, FinishStep, ReturnStep, CreateStep, MatchStep DEF Step
<1>2. CASE UNCHANGED vars
  BY <1>2 DEF vars, rows, aux, IInv, TypeOK, CountInv, RowsReal, HeldReal, HeldAlone, Held, LessEq,
    CauseInv, PassedOverWithCause, SelectedOnce, MakingNew
<1> QED BY <1>1, <1>2, PublishStep, CountStep, EndpointStep DEF Next

(* The inductive invariant: what the sessions of the nested handlers hold,  *)
(* and that what they have selected had a row.                              *)
THEOREM Invariant == Spec => []IInv
<1>1. Init => IInv
  BY InitInv, WorkflowAssumption
<1> QED BY <1>1, NextInv, PTL DEF Spec

(* Every row and every handler keeps its type, however deep handlers nest.  *)
THEOREM TypeCorrect == Spec => []TypeOK
<1>1. IInv => TypeOK
  BY DEF IInv
<1> QED BY <1>1, Invariant, PTL

(* A workflow's counters never show more than its run rows, whatever        *)
(* overlapping runs write back, and just them unless two handlers have held *)
(* it at once.                                                              *)
THEOREM CountersAreReal == Spec => []CountsAreReal
<1>1. IInv => CountsAreReal
  BY DEF IInv, CountInv, RowsReal, LessEq, CountsAreReal
<1> QED BY <1>1, Invariant, PTL

(* Whatever its actions do to the session, and however deep they nest, a    *)
(* handler passes no matching workflow over unless somebody deleted one or  *)
(* its loop was cut short: no connection, no stack, or a commit refused.    *)
THEOREM NonePassedOver == Spec => []PassedOverWithCause
<1>1. IInv => PassedOverWithCause
  BY DEF IInv, CauseInv
<1> QED BY <1>1, Invariant, PTL
=============================================================================
