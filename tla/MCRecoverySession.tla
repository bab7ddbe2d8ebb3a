------------------------- MODULE MCRecoverySession -------------------------
(* RecoverySession for TLC.  Connections are interchangeable. *)
EXTENDS RecoverySession, TLC

Symmetry == Permutations(Connections)

=============================================================================
