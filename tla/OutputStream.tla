---------------------------- MODULE OutputStream ----------------------------
(***************************************************************************)
(* What a recoverable session promises, without tasks, lanes or buffers:   *)
(* one ordered stream of entries, a prefix of it released by its reader,   *)
(* at most one reader, who resumes at the released prefix, reads one entry *)
(* at a time, and writes input only after reading all there was when it    *)
(* came; and a record that always counts the inputs the child was given.   *)
(***************************************************************************)
EXTENDS Naturals

VARIABLES
  phase,     \* idle | replay | live | closed
  reader,    \* the reader's lease, 0 for none
  mark,      \* what had been produced when a replaying reader came
  read,      \* the reader's position
  produced,  \* entries so far
  released,  \* entries the reader never needs again
  inputs,    \* frames accepted for the child
  recorded   \* inputs, as the stored checkpoint counts them

vars == <<phase, reader, mark, read, produced, released, inputs, recorded>>

Init ==
  /\ phase = "idle" /\ reader = 0 /\ mark = 0 /\ read = 0
  /\ produced = 0 /\ released = 0 /\ inputs = 0 /\ recorded = 0

Produce ==
  /\ phase # "closed"
  /\ produced' = produced + 1
  /\ UNCHANGED <<phase, reader, mark, read, released, inputs, recorded>>

\* A newer reader may follow, or replace, one that is gone.
Subscribe ==
  /\ phase # "closed"
  /\ phase' = "replay"
  /\ reader' \in Nat \ {0, reader}
  /\ mark' = produced
  /\ read' = released
  /\ UNCHANGED <<produced, released, inputs, recorded>>

Read ==
  /\ reader # 0 /\ read < produced
  /\ phase = "replay" => read < mark
  /\ read' = read + 1
  /\ UNCHANGED <<phase, reader, mark, produced, released, inputs, recorded>>

\* The reader releases what it has applied, and may add one input.
Record ==
  /\ reader # 0
  /\ released' \in released..read
  /\ \/ inputs' = inputs
     \/ phase = "live" /\ inputs' = inputs + 1
  /\ recorded' = inputs'
  /\ UNCHANGED <<phase, reader, mark, read, produced>>

\* It goes live with everything up to the mark applied.
CatchUp ==
  /\ phase = "replay" /\ read = mark
  /\ phase' = "live" /\ mark' = 0
  /\ released' = mark
  /\ UNCHANGED <<reader, read, produced, inputs, recorded>>

Lose ==
  /\ reader # 0
  /\ phase' = "idle" /\ reader' = 0 /\ mark' = 0 /\ read' = 0
  /\ UNCHANGED <<produced, released, inputs, recorded>>

Close ==
  /\ phase # "closed"
  /\ phase' = "closed" /\ reader' = 0 /\ mark' = 0 /\ read' = 0
  /\ recorded' = 0
  /\ UNCHANGED <<produced, released, inputs>>

Next == Produce \/ Subscribe \/ Read \/ Record \/ CatchUp \/ Lose \/ Close

Spec == Init /\ [][Next]_vars

=============================================================================
