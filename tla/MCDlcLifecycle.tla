--------------------------- MODULE MCDlcLifecycle ---------------------------
(* Instances of DlcLifecycle for TLC. *)
EXTENDS DlcLifecycle

MCOrder == <<"ads", "seo">>

Manifest(version, core, state, requires) ==
  [version |-> version, core |-> core, state |-> state, requires |-> requires]
Nothing == [d \in {} |-> {}]

\* The second engine ships a new version of one DLC, with a new state version,
\* and the other as it was.
MCCatalog ==
  LET seo == Manifest(1, {1, 2}, Missing, [d \in {"ads"} |-> {1, 2}])
  IN  [e \in {1, 2} |-> [d \in {"ads", "seo"} |->
        IF d = "seo" THEN seo
        ELSE IF e = 1 THEN Manifest(1, {1, 2}, 1, Nothing)
                      ELSE Manifest(2, {2}, 2, Nothing)]]

MCRequirements == {{1}, {1, 2}}
=============================================================================
