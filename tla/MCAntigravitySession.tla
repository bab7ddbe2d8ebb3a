------------------------ MODULE MCAntigravitySession ------------------------
(* Small instances of AntigravitySession. *)
EXTENDS AntigravitySession, TLC

Symmetry == Permutations(Callers)
=============================================================================
