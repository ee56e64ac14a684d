------------------------------ MODULE MCBackup ------------------------------
(* Instances of Backup for TLC. *)
EXTENDS Backup

\* Every upload carries bytes of its own.
MCDigestOf == [u \in Uploads |-> u]
=============================================================================
