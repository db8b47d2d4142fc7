-------------------------- MODULE MCKnowledgeIngest --------------------------
(* Instances of KnowledgeIngest for TLC. *)
EXTENDS KnowledgeIngest, TLC

Symm == Permutations(Docs) \cup Permutations(Replicas) \cup Permutations(Chunks)
=============================================================================
