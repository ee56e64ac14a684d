------------------------ MODULE MCAdminControlPlane ------------------------
(* Instances of AdminControlPlane for TLC. *)
EXTENDS AdminControlPlane, TLC

Symmetry == Permutations(Replicas) \cup Permutations(Tokens)
            \cup Permutations(Bindings)
=============================================================================
