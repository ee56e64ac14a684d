----------------------------- MODULE MCContent -----------------------------
(* Instances of Content for TLC. *)
EXTENDS Pages

\* "News" and "news" differ as slugs and agree under NOCASE.
MCFold == [s \in Slugs |-> IF s = "News" THEN "news" ELSE s]

\* A member's site, and the primary site before and after it is provisioned.
MCSettings ==
  {w \in [primary : BOOLEAN, provisioned : BOOLEAN, references : {FALSE}] :
     w.provisioned => w.primary}

\* The primary site with the references page.
MCReferences == [primary : {TRUE}, provisioned : {FALSE}, references : {TRUE}]
=============================================================================
