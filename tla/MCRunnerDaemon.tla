---------------------------- MODULE MCRunnerDaemon ----------------------------
(* RunnerDaemon for TLC.  Runners and clients are interchangeable. *)
EXTENDS RunnerDaemon, TLC

Symmetry == Permutations(Runners) \cup Permutations(Clients)

=============================================================================
