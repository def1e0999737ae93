----------------------------- MODULE MCEmailSync -----------------------------
(* Instances of EmailSync for TLC.                                         *)
EXTENDS EmailSync, TLC
=============================================================================
