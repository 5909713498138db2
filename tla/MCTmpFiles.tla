----------------------------- MODULE MCTmpFiles -----------------------------
(* Small instances of TmpFiles for TLC. *)
EXTENDS TmpFiles
=============================================================================
