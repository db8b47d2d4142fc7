----------------------------- MODULE WorkflowEngine -----------------------------
(***************************************************************************)
(* The workflows of one tenant: services/workflow_engine.py as a handler   *)
(* of services/event_bus.py, and api/v1/endpoints/workflows.py.            *)
(*                                                                         *)
(* publish calls the engine in the thread of the publisher.  The engine    *)
(* opens a session, selects the active workflows once and executes those   *)
(* that match one by one; an action may publish again, which puts another  *)
(* handler with its own session on top of the running one.  A session      *)
(* keeps its connection and the counters it has loaded until a rollback,   *)
(* which gives the one back and expires the others.  The pool serves all   *)
(* requests, so whoever needs a connection may wait in vain.  Left out:    *)
(* the trigger filter, templates, what an action does outside, and edits   *)
(* of a trigger or of the actions.                                         *)
(***************************************************************************)
EXTENDS Integers, Sequences, FiniteSetsExt

CONSTANTS
  Flows,      \* workflows
  Threads,    \* threads that publish
  Triggers,   \* the event types the workflows match, one function for each choice
  Scripts,    \* their action lists, likewise
  Pool,       \* database connections
  Depth,      \* handlers that fit into the recursion limit of the interpreter
  Cap,        \* _MAX_ACTIVE_WORKFLOWS
  MaxEvents,  \* bound: events published by requests
  MaxEdits,   \* bound: changes of the workflows
  None

EventTypes == {"projects.project.created", "crm.deal.won"}

(* do: an HTTP request, a mail, or a row of its own; emit: the action       *)
(* create_calendar_event, which publishes.                                  *)
Actions == {"do", "emit"}

ASSUME WorkflowAssumption ==
  /\ Triggers \subseteq [Flows -> SUBSET EventTypes]
  /\ Scripts \subseteq [Flows -> Seq(Actions)]
  /\ Pool \in Nat \ {0} /\ Depth \in Nat \ {0} /\ Cap \in Nat /\ MaxEvents \in Nat /\ MaxEdits \in Nat
  /\ None \notin Flows

VARIABLES
  state,    \* is_active of the workflows rows, and whether there is a row
  count,    \* their runs_count and failures_count
  trigger,  \* the event types a workflow matches
  script,   \* its actions
  stack,    \* the running handlers of a thread, the innermost last
  making,   \* the workflow whose creation a thread has let through
  events,   \* auxiliary: events published by requests
  edits,    \* auxiliary: changes of the workflows
  trail,    \* auxiliary: the workflow_runs rows written, and those not "success"
  shared,   \* auxiliary: workflows that two handlers have held at once
  missed,   \* auxiliary: a handler has ended without running a workflow that matched
  broken    \* auxiliary: a loop was cut short: no connection, no stack left, a commit refused

rows == <<state, count, trigger, script>>
aux  == <<events, edits, trail, shared, missed, broken>>
vars == <<rows, stack, making, aux>>

Counts == [runs : Nat, fails : Nat]
Zero   == [runs |-> 0, fails |-> 0]
Frame  == [event : EventTypes, todo : SUBSET Flows, cur : Flows \cup {None},
           next : Nat, ok : BOOLEAN, conn : BOOLEAN, held : [Flows -> Counts \cup {None}]]

Init ==
  /\ state \in [Flows -> {"none", "on"}] /\ Cardinality({w \in Flows : state[w] = "on"}) <= Cap
  /\ count = [w \in Flows |-> Zero]
  /\ trigger \in Triggers
  /\ script \in Scripts
  /\ stack = [t \in Threads |-> <<>>]
  /\ making = [t \in Threads |-> None]
  /\ events = 0 /\ edits = 0
  /\ trail = [w \in Flows |-> Zero]
  /\ shared = {} /\ missed = FALSE /\ broken = FALSE

Active     == {w \in Flows : state[w] = "on"}
Exists(w)  == state[w] \in {"on", "off"}
Running(t) == stack[t] # <<>>
Free(t)    == ~Running(t) /\ making[t] = None
Top(t)     == stack[t][Len(stack[t])]

(* The connections that the sessions of the handlers have checked out. *)
Connections ==
  MapThenSumSet(LAMBDA t : Cardinality({i \in DOMAIN stack[t] : stack[t][i].conn}), Threads)
Connected(t) == Top(t).conn \/ Connections < Pool

Matches(f, w) == f.event \in trigger[w]

SetTop(t, f) == stack' = [stack EXCEPT ![t][Len(stack[t])] = f]
Held(f)      == f.todo \cup ({f.cur} \ {None})

-----------------------------------------------------------------------------
(* publish                                                                 *)

(* _on_event: a session, and the workflows that are active now. *)
Handle(t, s, e) ==
  /\ Connections < Pool
  /\ stack' = [stack EXCEPT ![t] = Append(s,
       [event |-> e, todo |-> Active, cur |-> None, next |-> 1, ok |-> TRUE, conn |-> TRUE,
        held |-> [w \in Flows |-> IF w \in Active THEN count[w] ELSE None]])]
  /\ shared' = shared \cup
       (Active \cap UNION {UNION {Held(stack[u][i]) : i \in DOMAIN stack[u]} : u \in Threads})

(* A request publishes; test_workflow does it for the type of a workflow.   *)
(* Without a connection the handler ends before it begins: nothing changes. *)
Publish(t, e) ==
  /\ Free(t) /\ events < MaxEvents
  /\ events' = events + 1
  /\ Handle(t, <<>>, e)
  /\ UNCHANGED <<rows, making, edits, trail, missed, broken>>

(* The loop between two workflows, and an action done with its result. *)
Between(f) == [f EXCEPT !.cur = None, !.next = 1, !.ok = TRUE]
Did(f, ok) == [f EXCEPT !.next = @ + 1, !.ok = @ /\ ok]

Acting(t, a) ==
  /\ Running(t) /\ Top(t).cur # None
  /\ LET f == Top(t) IN f.next <= Len(script[f.cur]) /\ script[f.cur][f.next] = a

(* The engine is called again before the action returns, and always ok. *)
Emit(t) ==
  /\ Acting(t, "emit") /\ Len(stack[t]) < Depth
  /\ Handle(t, [stack[t] EXCEPT ![Len(stack[t])] = Did(@, TRUE)], "projects.project.created")
  /\ UNCHANGED <<rows, making, events, edits, trail, missed, broken>>

(* Mutant: the pool has no timeout. *)
EmitWaits(t) == Acting(t, "emit") /\ Connections < 0 /\ UNCHANGED vars

(* No connection for the new handler: publish logs it and the action is ok. *)
EmitTimesOut(t) ==
  /\ Acting(t, "emit")
  /\ SetTop(t, Did(Top(t), TRUE))
  /\ UNCHANGED <<rows, making, aux>>

(* RecursionError: the next handler does not fit.  The error is caught      *)
(* where there is room to log it, so some of the handlers end; the one      *)
(* below them takes the action for ok (publish has caught it) or not, or    *)
(* gives its workflow up.                                                   *)
EmitTooDeep(t) ==
  /\ Acting(t, "emit") /\ Len(stack[t]) >= Depth
  /\ \E n \in 1 .. Len(stack[t]) :
       LET f == IF n = Len(stack[t]) THEN Did(Top(t), TRUE) ELSE stack[t][n]
           ended == {stack[t][i] : i \in n + 1 .. Len(stack[t])}
           lost == \E g \in ended : \E w \in Held(g) : Matches(g, w)
       IN \/ /\ \E ok \in BOOLEAN :
                  stack' = [stack EXCEPT ![t] = Append(SubSeq(@, 1, n - 1), [f EXCEPT !.ok = @ /\ ok])]
             /\ missed' = (missed \/ lost)
          \/ /\ stack' = [stack EXCEPT ![t] = Append(SubSeq(@, 1, n - 1), Between(f))]
             /\ missed' = TRUE
  /\ broken' = TRUE
  /\ UNCHANGED <<rows, making, events, edits, trail, shared>>

-----------------------------------------------------------------------------
(* execute_workflow                                                        *)

(* The handler ends; what it still had to run is not run. *)
Return(t) ==
  /\ stack' = [stack EXCEPT ![t] = SubSeq(@, 1, Len(@) - 1)]
  /\ missed' = (missed \/ \E w \in Held(Top(t)) : Matches(Top(t), w))

(* _trigger_matches reads the row again if a rollback has expired it, and   *)
(* raises outside the try if there is no row or no connection.              *)
Match(t, w) ==
  /\ Running(t) /\ Top(t).cur = None /\ w \in Top(t).todo
  /\ LET f == Top(t)
         c == IF f.held[w] = None THEN count[w] ELSE f.held[w]
     IN \/ /\ f.held[w] = None => Exists(w) /\ Connected(t)
           /\ SetTop(t, [f EXCEPT !.todo = @ \ {w}, !.held[w] = IF Matches(f, w) THEN c ELSE None,
                                  !.cur = IF Matches(f, w) THEN w ELSE None, !.next = 1, !.ok = TRUE,
                                  !.conn = @ \/ f.held[w] = None])
           /\ UNCHANGED <<missed, broken>>
        \/ /\ f.held[w] = None
           /\ Return(t)
           /\ broken' = (broken \/ Exists(w))
  /\ UNCHANGED <<rows, making, events, edits, trail, shared>>

(* Mutant: an action that is not ok raises. *)
ActRaises(t) ==
  /\ Acting(t, "do")
  /\ \/ SetTop(t, Did(Top(t), TRUE)) /\ UNCHANGED missed
     \/ Return(t)
  /\ UNCHANGED <<rows, making, events, edits, trail, shared, broken>>

(* An action that does not publish is ok or not, and leaves the session     *)
(* alone or uses its connection; if its row is not committed and read back, *)
(* it is not ok and rolls back.                                             *)
Act(t) ==
  /\ Acting(t, "do")
  /\ LET f == Top(t)
     IN \/ \E ok \in BOOLEAN : SetTop(t, Did(f, ok))
        \/ Connected(t) /\ \E ok \in BOOLEAN : SetTop(t, [Did(f, ok) EXCEPT !.conn = TRUE])
        \/ SetTop(t, [Did(f, FALSE) EXCEPT !.conn = FALSE, !.held = [w \in Flows |-> None]])
  /\ UNCHANGED <<rows, making, aux>>

Acted(t) ==
  /\ Running(t) /\ Top(t).cur # None
  /\ Top(t).next > Len(script[Top(t).cur])

(* Mutant: an expired counter counts as none. *)
ReloadAsZero(t) ==
  /\ Acted(t)
  /\ LET f == Top(t)
     IN /\ f.held[f.cur] = None
        /\ SetTop(t, [f EXCEPT !.held[f.cur] = Zero])
  /\ UNCHANGED <<rows, making, aux>>

(* runs_count is read again if it has expired.  A missing row raises, and   *)
(* so does the wf.id that is logged of it: the handler ends.  Without a     *)
(* connection the next workflow follows, if wf.id finds one.                *)
Reload(t) ==
  /\ Acted(t)
  /\ LET f == Top(t)
     IN /\ f.held[f.cur] = None
        /\ \/ /\ Exists(f.cur) /\ Connected(t)
              /\ SetTop(t, [f EXCEPT !.held[f.cur] = count[f.cur], !.conn = TRUE])
              /\ UNCHANGED <<missed, broken>>
           \/ /\ Exists(f.cur) /\ Connected(t)
              /\ SetTop(t, [Between(f) EXCEPT !.conn = TRUE])
              /\ missed' = TRUE /\ broken' = TRUE
           \/ Return(t) /\ broken' = (broken \/ Exists(f.cur))
  /\ UNCHANGED <<rows, making, events, edits, trail, shared>>

(* One more than what the session holds, and one more failure unless all    *)
(* actions were ok.                                                         *)
Bump(c, ok) == [runs |-> c.runs + 1, fails |-> IF ok THEN c.fails ELSE c.fails + 1]

(* An unchanged column is not written. *)
Stored(w, c, ok) == [runs |-> c.runs, fails |-> IF ok THEN count[w].fails ELSE c.fails]

(* The counters and the run row are committed together.  The refresh that   *)
(* follows may find no connection, which is logged.                         *)
Finish(t) ==
  /\ Acted(t)
  /\ LET f  == Top(t)
         w  == f.cur
         c  == Bump(f.held[w], f.ok)
     IN /\ f.held[w] # None /\ Exists(w) /\ Connected(t)
        /\ count' = [count EXCEPT ![w] = Stored(w, c, f.ok)]
        /\ trail' = [trail EXCEPT ![w] = Bump(@, f.ok)]
        /\ \E kept \in BOOLEAN : SetTop(t, [Between(f) EXCEPT !.held[w] = None, !.conn = kept])
  /\ UNCHANGED <<state, trigger, script, making, events, edits, shared, missed, broken>>

(* The update matches no row, or the commit fails for another reason.  The  *)
(* failed flush has expired wf and made the session unusable: the wf.id     *)
(* that is logged raises and ends the handler.                              *)
FinishRaises(t) ==
  /\ Acted(t) /\ Top(t).held[Top(t).cur] # None
  /\ Return(t)
  /\ broken' = (broken \/ Exists(Top(t).cur))
  /\ UNCHANGED <<rows, making, events, edits, trail, shared>>

Done(t) ==
  /\ Running(t) /\ Top(t).cur = None /\ Top(t).todo = {}
  /\ Return(t)
  /\ UNCHANGED <<rows, making, events, edits, trail, shared, broken>>

-----------------------------------------------------------------------------
(* The endpoints                                                           *)

Edit(w, s) ==
  /\ edits < MaxEdits /\ edits' = edits + 1
  /\ state' = [state EXCEPT ![w] = s]
  /\ UNCHANGED <<count, trigger, script, stack, events, trail, shared, missed, broken>>

(* create_workflow: the active ones are counted, then the row is inserted. *)
CountActive(t, w) ==
  /\ Free(t) /\ state[w] = "none" /\ \A u \in Threads : making[u] # w
  /\ Cardinality(Active) < Cap
  /\ making' = [making EXCEPT ![t] = w]
  /\ UNCHANGED <<rows, stack, aux>>

Create(t) ==
  /\ making[t] # None
  /\ Edit(making[t], "on")
  /\ making' = [making EXCEPT ![t] = None]

(* update_workflow: no cap is looked at. *)
SetActive(w) ==
  /\ Exists(w)
  /\ Edit(w, IF state[w] = "on" THEN "off" ELSE "on")
  /\ UNCHANGED making

(* delete_workflow: its runs go with it. *)
Delete(w) ==
  /\ Exists(w)
  /\ Edit(w, "gone")
  /\ UNCHANGED making

Step(t) ==
  \/ Emit(t) \/ EmitTimesOut(t) \/ EmitTooDeep(t) \/ Act(t) \/ Reload(t)
  \/ Finish(t) \/ FinishRaises(t) \/ Done(t) \/ Create(t)
  \/ \E w \in Flows : Match(t, w)

Next ==
  \/ \E t \in Threads : Step(t) \/ \E e \in EventTypes : Publish(t, e)
  \/ \E t \in Threads, w \in Flows : CountActive(t, w)
  \/ \E w \in Flows : SetActive(w) \/ Delete(w)

Spec == Init /\ [][Next]_vars

(* A request thread that has called publish goes on. *)
Fairness == \A t \in Threads : WF_vars(Step(t))
FairSpec == Spec /\ Fairness

-----------------------------------------------------------------------------
(* Every row and every handler has its type. *)
TypeOK ==
  /\ state \in [Flows -> {"none", "on", "off", "gone"}]
  /\ count \in [Flows -> Counts]
  /\ trigger \in Triggers
  /\ script \in Scripts
  /\ stack \in [Threads -> Seq(Frame)]
  /\ making \in [Threads -> Flows \cup {None}]
  /\ events \in 0..MaxEvents /\ edits \in 0..MaxEdits
  /\ trail \in [Flows -> Counts]
  /\ shared \subseteq Flows /\ missed \in BOOLEAN /\ broken \in BOOLEAN

(* The counters of a workflow never show more than its run rows, whatever   *)
(* overlapping runs write back; and they show just them as long as no two   *)
(* handlers, not even one inside the other, have held it at once.           *)
CountsAreReal ==
  \A w \in Flows :
    /\ count[w].runs <= trail[w].runs /\ count[w].fails <= trail[w].fails
    /\ w \notin shared => count[w] = trail[w]

(* docs/WORKFLOWS.md: a failing action does not stop the workflow, and the  *)
(* surviving workflows run one after the other.  So a handler that got its  *)
(* session leaves a run row for every matching workflow it selected,        *)
(* whatever its actions did to the session, unless somebody deleted a       *)
(* workflow meanwhile, the handler found no connection or no stack for its  *)
(* own work, or the commit of a run was refused.                            *)
PassedOverWithCause == missed => broken \/ \E w \in Flows : state[w] = "gone"

(* A publisher gets its thread back, even if workflows publish what         *)
(* triggers them.  It is the recursion limit that bounds the nesting, not   *)
(* the pool: a handler that rolled back publishes without a connection.     *)
EveryPublishReturns == \A t \in Threads : Running(t) ~> ~Running(t)
=============================================================================
