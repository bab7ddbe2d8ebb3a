--------------------------- MODULE MCTaskSessions ---------------------------
(* Instances of TaskSessions: one conversation, at most one viewer, two turns *)
(* and two connections.                                                       *)
EXTENDS TaskSessions
=============================================================================
