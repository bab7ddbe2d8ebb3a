-------------------------- MODULE MCClaudeSessions --------------------------
(* Small instances of ClaudeSessions. *)
EXTENDS ClaudeSessions, TLC

Symmetry == Permutations(Names)
=============================================================================
