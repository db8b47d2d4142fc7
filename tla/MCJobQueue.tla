----------------------------- MODULE MCJobQueue -----------------------------
(* Instances of JobQueue for TLC. *)
EXTENDS JobQueue, TLC

Symm == Permutations(Jobs) \cup Permutations(Clients) \cup Permutations(Workers)
=============================================================================
