----------------------------- MODULE MCLiveness -----------------------------
(***************************************************************************)
(* What must happen in the end: background jobs, Stripe events, the audit  *)
(* stream and workflows, each in the loop, process or thread that the      *)
(* server runs for it.  In a behaviour one of them moves, under its own    *)
(* fairness, and the others stay where they start.                         *)
(***************************************************************************)
EXTENDS Integers, Sequences

CONSTANTS Jobs, Clients, Workers, Modes, NoJob,
          Processes, Paid, Core, NoPlan, Statuses, MaxEvents,
          AuditIds, Dests, Procs, Batch, Limit, MaxPatches, NoDest,
          Flows, Publishers, Triggers, Scripts, Pool, Depth, Cap, MaxPublished, MaxEdits, None,
          MaxCrashes

VARIABLES
  status, attempts, rqid, hist, rq, at, held, num, calls, faulty, enqErr, removed,
  tenant, rows, logged, trial, sent, acked, standing, ev, loaded, rid, row, done,
  starts, orderly, crashes,
  order, seen, dest, fails, cursor, pass, pushed, behind, losses,
  state, count, trigger, script, stack, making, events, edits, trail, shared, missed, broken,
  mover  \* the component that moves

jvars == <<status, attempts, rqid, hist, rq, at, held, num, calls, faulty, enqErr, removed>>
bvars == <<tenant, rows, logged, trial, sent, acked, standing, ev, loaded, rid, row, done,
           starts, orderly, crashes>>
svars == <<order, seen, dest, fails, cursor, pass, pushed, behind, losses>>
wvars == <<state, count, trigger, script, stack, making, events, edits, trail, shared, missed,
           broken>>
vars  == <<jvars, bvars, svars, wvars, mover>>

J == INSTANCE JobQueue
B == INSTANCE StripeBilling WITH at <- standing
S == INSTANCE AuditStream WITH Events <- AuditIds, faults <- losses
W == INSTANCE WorkflowEngine WITH Threads <- Publishers, MaxEvents <- MaxPublished

ASSUME LivenessAssumption == S!StreamAssumption /\ W!WorkflowAssumption

MCTriggers == {<< {"projects.project.created", "crm.deal.won"}, {"crm.deal.won"} >>}
MCScripts  == {<< <<"do", "emit">>, <<"do">> >>}

Init ==
  /\ J!Init /\ B!Init /\ S!Init /\ W!Init
  /\ mover \in {"jobs", "billing", "stream", "workflows"}
  /\ mover # "workflows" => W!Active = {}

Next ==
  \/ mover = "jobs" /\ J!Next /\ UNCHANGED <<bvars, svars, wvars, mover>>
  \/ mover = "billing" /\ B!Next /\ UNCHANGED <<jvars, svars, wvars, mover>>
  \/ mover = "stream" /\ S!Next /\ UNCHANGED <<jvars, bvars, wvars, mover>>
  \/ mover = "workflows" /\ W!Next /\ UNCHANGED <<jvars, bvars, svars, mover>>

(* A job service or a workflow engine that stays where it starts has no     *)
(* step to take, so its fairness asks nothing of the others' behaviours.    *)
FairSpec ==
  /\ Init /\ [][Next]_vars
  /\ J!Fairness /\ W!Fairness
  /\ mover = "billing" => B!Fairness
  /\ mover = "stream" => S!Fairness

EveryJobSettles == J!EveryJobSettles
EveryEventIsAcked == B!EveryEventIsAcked
TrialExpires == B!TrialExpires
EveryEventIsStreamed == S!EveryEventIsStreamed
EveryPublishReturns == W!EveryPublishReturns
=============================================================================
