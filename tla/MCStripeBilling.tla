-------------------------- MODULE MCStripeBilling --------------------------
(* Instances of StripeBilling for TLC. *)
EXTENDS StripeBilling, FiniteSets, TLC

CONSTANT Mixed   \* bound: statuses of events that two processes handle at once

(* Subscriptions have any status while one process is busy at a time; with  *)
(* two of them busy, those of Mixed.                                        *)
Narrow ==
  \/ Cardinality({p \in Processes : at[p] # "idle"}) <= 1
  \/ \A i \in 1 .. Len(sent) : sent[i].type \in Sync => sent[i].status \in Mixed

Symm == Permutations(Processes)
=============================================================================
