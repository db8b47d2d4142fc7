----------------------------- MODULE JobContract -----------------------------
(***************************************************************************)
(* What the background-job service promises about the callable of a job,   *)
(* seen from the outside: a job is accepted, its callable is started at    *)
(* most once and returns or raises at most once, or the job is dropped     *)
(* without ever producing an outcome.  Nothing leaves an outcome or a drop. *)
(***************************************************************************)
CONSTANT Jobs

VARIABLE exec      \* exec[j]: how far the callable of job j has come

Outcome == {"completed", "failed"}

ExecState == {"none", "waiting", "executing", "dropped"} \cup Outcome

Init == exec = [j \in Jobs |-> "none"]

Move(j, from, to) == /\ exec[j] = from
                     /\ exec' = [exec EXCEPT ![j] = to]

Accept(j) == \E to \in {"waiting", "executing"} : Move(j, "none", to)

Start(j) == Move(j, "waiting", "executing")

Return(j) == \E o \in Outcome : Move(j, "executing", o)

Drop(j) == \E from \in {"waiting", "executing"} : Move(j, from, "dropped")

Next == \E j \in Jobs : Accept(j) \/ Start(j) \/ Return(j) \/ Drop(j)

Spec == Init /\ [][Next]_exec
=============================================================================
