-------------------------- MODULE MCVaultRotation --------------------------
(* Instances of VaultRotation for TLC.                                     *)
EXTENDS VaultRotation, TLC

\* Tokens and writers are interchangeable; the rotators are not (Scheduled
\* and Manual take different steps).
Symmetry == Permutations(Tokens) \cup Permutations(Writers)
=============================================================================
