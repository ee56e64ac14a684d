-------------------------- MODULE MCSemanticCache --------------------------
(* Instances of SemanticCache for TLC. *)
EXTENDS SemanticCache, TLC

RequestSymmetry == Permutations(Writers)
=============================================================================
