------------------------- MODULE RecoveryInvariants -------------------------
(***************************************************************************)
(* The inductive invariant of RecoverySession and what follows from it.    *)
(* The invariant ties the four places a position is kept (journal, runner, *)
(* delivery task, client) by what the task of the current lease is doing;  *)
(* each action has a lemma, and each lemma first says what the action does *)
(* point by point and then checks the parts of the invariant it touches.   *)
(***************************************************************************)
EXTENDS RecoverySessionProofs, FiniteSetTheorems

USE DEF Leases, Producers, Fence

\* Leases are handed out once; the task of the current lease serves the
\* subscriber's connection and is never done; a task that lost its lease can
\* only be left with a dead lane, or in a closed session.
LeaseInv ==
  /\ sub.lease <= leases
  /\ \A l \in Leases :
       /\ deliveries[l].pc # "none" => l <= leases
       /\ Current(l) => deliveries[l].pc # "done"
       /\ Current(l) /\ deliveries[l].pc # "none" => deliveries[l].connection = sub.connection
       /\ deliveries[l].pc = "sending" /\ ~Current(l) =>
            \/ node = "Closed"
            \/ deliveries[l].connection \in Connections /\ lane[deliveries[l].connection] = "closed"
  /\ \A c \in Connections :
       /\ view[c].lease <= leases
       /\ conn[c] = "replying" => view[c].lease # 0
       /\ conn[c] \in {"releasing", "gone"} => lane[c] = "closed"
       /\ \A d \in Connections : view[c].lease = view[d].lease /\ view[c].lease # 0 => c = d
  /\ Subscribed => view[sub.connection].lease = sub.lease

\* Where the client has read to, by what the delivery task is doing.
PositionInv ==
  /\ acknowledged <= produced
  /\ Subscribed =>
       LET v == view[sub.connection]
           d == deliveries[sub.lease]
       IN  /\ acknowledged <= sub.delivered /\ sub.delivered <= produced
           /\ d.pc \in {"none", "ready"} => sub.inFlight = 0 /\ v.got = sub.delivered
           /\ d.pc \in {"sending", "written"} =>
                IF d.item = Fence
                THEN sub.inFlight = 0 /\ v.got = sub.delivered
                ELSE /\ d.item = sub.delivered + 1 /\ d.item <= produced
                     /\ sub.inFlight = d.item
                     /\ v.got = IF d.pc = "written" THEN d.item ELSE sub.delivered

\* The fence is offered once everything before it was delivered, and counted
\* as written only when the client has it.
FenceInv ==
  /\ node = "Replaying" =>
       LET v == view[sub.connection]
           d == deliveries[sub.lease]
       IN  /\ sub.delivered <= replay.fence /\ replay.fence <= produced
           /\ v.fence => replay.offered
           /\ replay.written => v.fence
           /\ replay.offered => sub.delivered = replay.fence /\ sub.inFlight = 0
           /\ d.pc \in {"sending", "written"} /\ d.item # Fence => d.item <= replay.fence
           /\ d.pc \in {"sending", "written"} /\ d.item = Fence => replay.offered
           /\ d.pc = "written" /\ d.item = Fence => v.fence
  /\ node = "Live" => view[sub.connection].fence

\* The subscriber counts the inputs as the stored checkpoint does.
CheckpointInv ==
  /\ InputsMatchCheckpoint
  /\ Subscribed => view[sub.connection].sent = checkpoint.sent

Inv == JournalIsUnacknowledged /\ LeaseInv /\ PositionInv /\ FenceInv /\ CheckpointInv

-----------------------------------------------------------------------------
(* Every step preserves it.                                                *)

\* Types of the numbers the invariant compares.
Typed ==
  /\ MaxLease \in Nat /\ leases \in Nat /\ leases <= MaxLease
  /\ Subscribed => sub.connection \in Connections /\ sub.lease \in Leases
  /\ ~Subscribed => sub.lease = 0
  /\ sub.lease \in Nat /\ sub.delivered \in Nat /\ sub.inFlight \in Nat
  /\ replay.fence \in Nat
  /\ acknowledged \in Nat /\ produced \in Nat /\ accepted \in Nat
  /\ \A c \in Connections : view[c].lease \in Nat /\ view[c].got \in Nat /\ view[c].sent \in Nat
  /\ \A l \in Leases : deliveries[l].item \in Nat

\* What the types say of the numbers and of the subscriber, as the proofs use it.
LEMMA TypeFacts == TypeOK => Typed
<1> SUFFICES ASSUME TypeOK PROVE Typed
  OBVIOUS
<1>1. /\ sub.lease \in Nat /\ sub.lease <= MaxLease
      /\ sub.delivered \in Nat /\ sub.inFlight \in Nat
      /\ sub.connection \in Connections \cup {NoConnection}
  BY BoundsAssumption DEF TypeOK, NodeType
<1>0. /\ replay.fence \in Nat /\ MaxLease \in Nat
      /\ leases \in Nat /\ leases <= MaxLease
  BY BoundsAssumption DEF TypeOK, NodeType
<1>6. /\ Subscribed <=> sub.lease # 0
      /\ Subscribed <=> sub.connection # NoConnection
  BY DEF TypeOK, NodeType
<1>2. acknowledged \in Nat /\ produced \in Nat /\ accepted \in Nat
  BY DEF TypeOK, JournalType, ChildType
<1>3. \A c \in Connections : view[c].lease \in Nat /\ view[c].got \in Nat /\ view[c].sent \in Nat
  BY BoundsAssumption DEF TypeOK, ConnectionType
<1>4. \A l \in Leases : deliveries[l].item \in Nat
  BY DEF TypeOK, TaskType
<1>7. Subscribed => sub.connection \in Connections /\ sub.lease \in Leases
  <2>1. ASSUME NEW k \in Nat, NEW m \in Nat, k <= m, k # 0 PROVE k \in 1..m
    BY <2>1
  <2>2. QED
    BY <1>0, <1>1, <1>6, <2>1
<1>8. QED
  BY <1>0, <1>1, <1>2, <1>3, <1>4, <1>6, <1>7 DEF Typed

\* Each part of the invariant, when nothing it reads changes.
LEMMA SameInv ==
  ASSUME Inv
  PROVE  /\ UNCHANGED <<node, journal, produced, acknowledged>> => JournalIsUnacknowledged'
         /\ UNCHANGED <<nodeVars, deliveries, lane, conn, view, leases>> => LeaseInv'
         /\ UNCHANGED <<nodeVars, deliveries, view, acknowledged, produced>> => PositionInv'
         /\ UNCHANGED <<nodeVars, deliveries, view, produced>> => FenceInv'
         /\ UNCHANGED <<nodeVars, view, ackVars, accepted>> => CheckpointInv'
<1>1. UNCHANGED <<node, journal, produced, acknowledged>> => JournalIsUnacknowledged'
  BY DEF Inv, JournalIsUnacknowledged
<1>2. UNCHANGED <<nodeVars, deliveries, lane, conn, view, leases>> => LeaseInv'
  BY DEF Inv, LeaseInv, Current, Subscribed, nodeVars
<1>3. UNCHANGED <<nodeVars, deliveries, view, acknowledged, produced>> => PositionInv'
  BY DEF Inv, PositionInv, Subscribed, nodeVars
<1>4. UNCHANGED <<nodeVars, deliveries, view, produced>> => FenceInv'
  BY DEF Inv, FenceInv, nodeVars
<1>5. UNCHANGED <<nodeVars, view, ackVars, accepted>> => CheckpointInv'
  BY DEF Inv, CheckpointInv, InputsMatchCheckpoint, Subscribed, nodeVars, ackVars
<1>6. QED
  BY <1>1, <1>2, <1>3, <1>4, <1>5


\* A new lease starts with no task, at the acknowledged position, not yet at its fence.
LEMMA AttachInv ==
  ASSUME NEW c \in Connections, TypeOK, Inv, Attach(c)
  PROVE  Inv'
<1>1. Typed
  BY TypeFacts
<1>2. /\ node # "Closed" /\ node' = "Replaying" /\ Subscribed' /\ leases' = leases + 1
      /\ sub'.connection = c /\ sub'.lease = leases + 1
      /\ sub'.delivered = acknowledged /\ sub'.inFlight = 0
      /\ replay'.fence = produced /\ ~replay'.offered /\ ~replay'.written
      /\ Subscribed => lane[sub.connection] = "closed"
      /\ leases < MaxLease
  BY DEF Attach, ResumeAt, Subscribed
<1>3. /\ \A d \in Connections \ {c} : view'[d] = view[d]
      /\ view'[c].lease = leases + 1 /\ view'[c].got = acknowledged
      /\ ~view'[c].fence /\ view'[c].sent = checkpoint.sent
  BY DEF Attach, TypeOK, ConnectionType
<1>4. /\ \A d \in Connections : conn'[d] = IF d = c THEN "replying" ELSE conn[d]
      /\ \A d \in Connections : lane[d] = "closed" => lane'[d] = "closed"
      /\ conn[c] = "idle"
  BY DEF Attach, TypeOK, ConnectionType
<1>5. UNCHANGED <<journal, produced, acknowledged, checkpoint, accepted, deliveries>>
  BY DEF Attach, journalVars, ackVars
<1>6. leases + 1 \in Leases /\ deliveries[leases + 1].pc = "none"
  <2>1. leases + 1 \in Leases /\ ~(leases + 1 <= leases)
    <3>1. leases \in Nat /\ MaxLease \in Nat /\ leases < MaxLease
      BY <1>1, <1>2 DEF Typed
    <3>2. QED
      BY <3>1
  <2>2. \A l \in Leases : deliveries[l].pc # "none" => l <= leases
    BY DEF Inv, LeaseInv
  <2>3. QED
    BY <2>1, <2>2
<1>7. JournalIsUnacknowledged'
  BY <1>2, <1>5 DEF Inv, JournalIsUnacknowledged
<1>8. LeaseInv'
  <2>1. ASSUME NEW l \in Leases
        PROVE  /\ deliveries[l].pc # "none" => l <= leases + 1
               /\ Current(l)' => l = leases + 1
               /\ deliveries[l].pc = "sending" =>
                    /\ deliveries[l].connection \in Connections
                    /\ lane'[deliveries[l].connection] = "closed"
    <3>1. deliveries[l].pc # "none" => l <= leases
      BY DEF Inv, LeaseInv
    <3>2. deliveries[l].pc # "none" => l <= leases + 1
      <4>1. leases \in Nat /\ l \in Nat
        BY <1>1 DEF Typed
      <4>2. QED
        BY <3>1, <4>1
    <3>3. Current(l)' => l = leases + 1
      BY <1>2 DEF Current
    <3>4. CASE Current(l)
      BY <1>1, <1>2, <1>4, <3>2, <3>3, <3>4 DEF Inv, LeaseInv, Typed, Current
    <3>5. CASE ~Current(l)
      BY <1>2, <1>4, <3>2, <3>3, <3>5 DEF Inv, LeaseInv
    <3>6. QED
      BY <3>4, <3>5
  <2>2. ASSUME NEW d \in Connections
        PROVE  /\ view'[d].lease <= leases + 1
               /\ conn'[d] = "replying" => view'[d].lease # 0
               /\ conn'[d] \in {"releasing", "gone"} => lane'[d] = "closed"
               /\ \A e \in Connections :
                    view'[d].lease = view'[e].lease /\ view'[d].lease # 0 => d = e
    BY <1>1, <1>2, <1>3, <1>4 DEF Inv, LeaseInv, Typed
  <2>3. QED
    BY <1>1, <1>2, <1>3, <1>5, <1>6, <2>1, <2>2 DEF LeaseInv, Typed
<1>9. PositionInv'
  BY <1>1, <1>2, <1>3, <1>5, <1>6 DEF Inv, PositionInv, Typed
<1>10. FenceInv'
  BY <1>1, <1>2, <1>3, <1>5, <1>6 DEF Inv, FenceInv, Typed, PositionInv
<1>11. CheckpointInv'
  BY <1>1, <1>2, <1>3, <1>5 DEF Inv, CheckpointInv, InputsMatchCheckpoint
<1>12. QED
  BY <1>7, <1>8, <1>9, <1>10, <1>11 DEF Inv

\* Lanes only close and connections only move on: the leases do not notice.
LEMMA LaneClosesInv ==
  ASSUME Inv, UNCHANGED <<nodeVars, deliveries, view, leases>>,
         \A d \in Connections : lane[d] = "closed" => lane'[d] = "closed",
         \A d \in Connections : conn'[d] = "replying" => conn[d] = "replying",
         \A d \in Connections : conn'[d] \in {"releasing", "gone"} => lane'[d] = "closed"
  PROVE  LeaseInv'
  BY DEF Inv, LeaseInv, Current, Subscribed, nodeVars

\* A commit that waits changes nothing but its own request.
LEMMA CommitWaitsInv ==
  ASSUME NEW c \in Connections, TypeOK, Inv, CommitWaits(c)
  PROVE  Inv'
<1>1. /\ \A d \in Connections : conn'[d] = IF d = c THEN "committing" ELSE conn[d]
      /\ UNCHANGED <<nodeVars, journalVars, ackVars, deliveries, lane, view, accepted, leases>>
  BY DEF CommitWaits, TypeOK, ConnectionType
<1>2. \A d \in Connections : conn[d] \in {"releasing", "gone"} => lane[d] = "closed"
  BY DEF Inv, LeaseInv
<1>3. LeaseInv'
  BY <1>1, <1>2, LaneClosesInv
<1>4. QED
  BY <1>1, <1>3, SameInv DEF Inv, journalVars, ackVars, nodeVars

\* So does one that is refused after waiting.
LEMMA CommitRefusedInv ==
  ASSUME NEW c \in Connections, TypeOK, Inv, CommitRefused(c)
  PROVE  Inv'
<1>1. /\ \A d \in Connections : conn'[d] = IF d = c THEN "idle" ELSE conn[d]
      /\ UNCHANGED <<nodeVars, journalVars, ackVars, deliveries, lane, view, accepted, leases>>
  BY DEF CommitRefused, Answered, TypeOK, ConnectionType
<1>2. \A d \in Connections : conn[d] \in {"releasing", "gone"} => lane[d] = "closed"
  BY DEF Inv, LeaseInv
<1>3. LeaseInv'
  BY <1>1, <1>2, LaneClosesInv
<1>4. QED
  BY <1>1, <1>3, SameInv DEF Inv, journalVars, ackVars, nodeVars

\* A lane that fails leaves the positions alone.
LEMMA LaneFailsInv ==
  ASSUME NEW c \in Connections, TypeOK, Inv, LaneFails(c)
  PROVE  Inv'
<1>1. /\ \A d \in Connections : lane'[d] = IF d = c THEN "closed" ELSE lane[d]
      /\ UNCHANGED <<nodeVars, journalVars, ackVars, deliveries, conn, view, accepted, leases>>
  BY DEF LaneFails, TypeOK, ConnectionType
<1>2. \A d \in Connections : conn[d] \in {"releasing", "gone"} => lane[d] = "closed"
  BY DEF Inv, LeaseInv
<1>3. LeaseInv'
  BY <1>1, <1>2, LaneClosesInv
<1>4. QED
  BY <1>1, <1>3, SameInv DEF Inv, journalVars, ackVars, nodeVars

\* A connection that ends closes its lane before anyone looks for it.
LEMMA ConnectionEndsInv ==
  ASSUME NEW c \in Connections, TypeOK, Inv, ConnectionEnds(c)
  PROVE  Inv'
<1>1. /\ \A d \in Connections : lane'[d] = IF d = c THEN "closed" ELSE lane[d]
      /\ \A d \in Connections \ {c} : conn'[d] = conn[d]
      /\ conn'[c] \in {"releasing", "gone"}
      /\ UNCHANGED <<nodeVars, journalVars, ackVars, deliveries, view, accepted, leases>>
  BY DEF ConnectionEnds, TypeOK, ConnectionType
<1>2. \A d \in Connections : conn[d] \in {"releasing", "gone"} => lane[d] = "closed"
  BY DEF Inv, LeaseInv
<1>3. LeaseInv'
  BY <1>1, <1>2, LaneClosesInv
<1>4. QED
  BY <1>1, <1>3, SameInv DEF Inv, journalVars, ackVars, nodeVars

\* The task of the lease that is still current starts with nothing in flight.
LEMMA StartInv ==
  ASSUME NEW c \in Connections, TypeOK, Inv, Start(c)
  PROVE  Inv'
<1>1. Typed
  BY TypeFacts
<1>2. /\ \A d \in Connections : conn'[d] = IF d = c THEN "idle" ELSE conn[d]
      /\ conn[c] = "replying"
      /\ UNCHANGED <<nodeVars, journalVars, ackVars, lane, view, accepted, leases>>
  BY DEF Start, TypeOK, ConnectionType
<1>3. \A d \in Connections : conn[d] \in {"releasing", "gone"} => lane[d] = "closed"
  BY DEF Inv, LeaseInv
<1>4. CASE UNCHANGED deliveries
  <2>1. LeaseInv'
    BY <1>2, <1>3, <1>4, LaneClosesInv
  <2>2. QED
    BY <1>2, <1>4, <2>1, SameInv DEF Inv, journalVars, ackVars, nodeVars
<1>5. CASE deliveries' # deliveries
  <2>1. /\ sub.lease = view[c].lease /\ deliveries[sub.lease].pc = "none"
        /\ deliveries' = [deliveries EXCEPT ![sub.lease] =
                            [pc |-> "ready", connection |-> c, item |-> Fence]]
    BY <1>5 DEF Start
  <2>2. Subscribed /\ sub.connection = c /\ sub.lease \in Leases
    <3>1. view[c].lease # 0
      BY <1>2 DEF Inv, LeaseInv
    <3>2. Subscribed /\ sub.connection \in Connections /\ sub.lease \in Leases
      BY <1>1, <2>1, <3>1 DEF Typed
    <3>3. QED
      BY <2>1, <3>1, <3>2 DEF Inv, LeaseInv
  <2>3. /\ \A l \in Leases \ {sub.lease} : deliveries'[l] = deliveries[l]
        /\ deliveries'[sub.lease].pc = "ready" /\ deliveries'[sub.lease].connection = c
    BY <2>1, <2>2 DEF TypeOK, TaskType
  <2>4. UNCHANGED <<Subscribed, node, sub, replay>>
    BY <1>2 DEF nodeVars, Subscribed
  <2>5. \A l \in Leases : Current(l)' <=> Current(l)
    BY <2>4 DEF Current
  <2>6. LeaseInv'
    <3>1. ASSUME NEW l \in Leases
          PROVE  /\ deliveries'[l].pc # "none" => l <= leases'
                 /\ Current(l)' => deliveries'[l].pc # "done"
                 /\ Current(l)' /\ deliveries'[l].pc # "none" =>
                      deliveries'[l].connection = sub'.connection
                 /\ deliveries'[l].pc = "sending" /\ ~Current(l)' =>
                      \/ node' = "Closed"
                      \/ /\ deliveries'[l].connection \in Connections
                         /\ lane'[deliveries'[l].connection] = "closed"
      <4>1. CASE l = sub.lease
        BY <1>2, <2>2, <2>3, <2>4, <4>1 DEF Inv, LeaseInv
      <4>2. CASE l # sub.lease
        BY <1>2, <2>3, <2>4, <2>5, <4>2 DEF Inv, LeaseInv
      <4>3. QED
        BY <4>1, <4>2
    <3>2. QED
      BY <1>2, <1>3, <2>4, <3>1 DEF Inv, LeaseInv
  <2>7. PositionInv'
    BY <1>2, <2>1, <2>2, <2>3, <2>4 DEF Inv, PositionInv, journalVars, ackVars
  <2>8. FenceInv'
    BY <1>2, <2>1, <2>2, <2>3, <2>4 DEF Inv, FenceInv, journalVars
  <2>9. QED
    BY <1>2, <2>6, <2>7, <2>8, SameInv DEF Inv, journalVars, ackVars, nodeVars
<1>6. QED
  BY <1>4, <1>5

\* What every way of losing the subscriber leaves behind.
Loses ==
  /\ node' \in {"Detached", "Closed"} /\ (node = "Closed" => node' = "Closed")
  /\ sub' = NoSubscriber
  /\ Subscribed => lane[sub.connection] = "closed" \/ node' = "Closed"
  /\ \A l \in Leases :
       \/ deliveries'[l] = deliveries[l]
       \/ deliveries[l].pc # "none" /\ deliveries'[l].pc = "done"
  /\ \A d \in Connections : conn'[d] = "replying" => conn[d] = "replying"
  /\ \A d \in Connections : conn'[d] \in {"releasing", "gone"} => lane[d] = "closed"
  /\ lane' = lane /\ view' = view /\ leases' = leases
  /\ produced' = produced /\ acknowledged' = acknowledged

\* What every way of losing the subscriber leaves behind.
LEMMA LosesSubscriber ==
  ASSUME TypeOK, Inv, Loses
  PROVE  LeaseInv' /\ PositionInv' /\ FenceInv'
<1> USE DEF Loses
<1>1. Typed
  BY TypeFacts
<1>2. /\ ~Subscribed' /\ sub'.lease = 0 /\ \A l \in Leases : ~Current(l)'
  BY DEF Subscribed, NoSubscriber, Current
<1>3. ASSUME NEW l \in Leases
      PROVE  /\ deliveries'[l].pc # "none" => l <= leases
             /\ deliveries'[l].pc = "sending" =>
                  \/ node' = "Closed"
                  \/ /\ deliveries[l].connection \in Connections
                     /\ lane[deliveries[l].connection] = "closed"
                     /\ deliveries'[l].connection = deliveries[l].connection
  <2>1. CASE Current(l)
    BY <1>1, <2>1 DEF Inv, LeaseInv, Typed, Current
  <2>2. CASE ~Current(l)
    BY <2>2 DEF Inv, LeaseInv
  <2>3. QED
    BY <2>1, <2>2
<1>4. LeaseInv'
  BY <1>1, <1>2, <1>3 DEF Inv, LeaseInv, Typed
<1>5. PositionInv'
  BY <1>2 DEF Inv, PositionInv
<1>6. FenceInv'
  BY DEF FenceInv
<1>7. QED
  BY <1>4, <1>5, <1>6

\* detach_lane takes the subscriber only from the lane it closed.
LEMMA DetachLaneInv ==
  ASSUME NEW c \in Connections, TypeOK, Inv, DetachLane(c)
  PROVE  Inv'
<1>1. /\ \A d \in Connections : conn'[d] = IF d = c THEN "gone" ELSE conn[d]
      /\ conn[c] = "releasing"
      /\ UNCHANGED <<journalVars, ackVars, deliveries, lane, view, accepted, leases>>
  BY DEF DetachLane, TypeOK, ConnectionType
<1>2. \A d \in Connections : conn[d] \in {"releasing", "gone"} => lane[d] = "closed"
  BY DEF Inv, LeaseInv
<1>3. CASE HoldsLane(c)
  <2>1. node' \in {"Detached", "Closed"} /\ sub' = NoSubscriber /\ node' # "Closed" /\ node # "Closed"
    BY <1>3 DEF DetachLane, Detach, HoldsLane, Subscribed
  <2>2. lane[sub.connection] = "closed"
    BY <1>1, <1>2, <1>3 DEF HoldsLane
  <2>3. LeaseInv' /\ PositionInv' /\ FenceInv'
    <3>1. /\ \A l \in Leases : deliveries'[l] = deliveries[l]
          /\ \A d \in Connections : conn'[d] = "replying" => conn[d] = "replying"
          /\ \A d \in Connections : conn'[d] \in {"releasing", "gone"} => lane[d] = "closed"
          /\ UNCHANGED <<lane, view, leases, produced, acknowledged>>
      BY <1>1, <1>2 DEF journalVars, ackVars, DetachLane
    <3>2. QED
      BY <2>1, <2>2, <3>1, LosesSubscriber DEF Loses
  <2>4. JournalIsUnacknowledged'
    BY <1>1, <2>1 DEF Inv, JournalIsUnacknowledged, journalVars, ackVars
  <2>5. CheckpointInv'
    BY <1>1, <2>1 DEF Inv, CheckpointInv, InputsMatchCheckpoint, ackVars, Subscribed
  <2>6. QED
    BY <2>3, <2>4, <2>5 DEF Inv
<1>4. CASE ~HoldsLane(c)
  <2>1. UNCHANGED nodeVars
    BY <1>4 DEF DetachLane
  <2>2. LeaseInv'
    BY <1>1, <1>2, <2>1, LaneClosesInv
  <2>3. QED
    BY <1>1, <2>1, <2>2, SameInv DEF Inv, journalVars, ackVars, nodeVars
<1>5. QED
  BY <1>3, <1>4

\* Close may leave a task with an open lane, and only Close may.
LEMMA CloseInv ==
  ASSUME TypeOK, Inv, Close
  PROVE  Inv'
<1>1. /\ node' = "Closed" /\ sub' = NoSubscriber /\ DOMAIN journal' = {}
      /\ UNCHANGED <<produced, acknowledged, deliveries, lane, conn, view, accepted, leases>>
  BY DEF Close, connVars
<1>2. \A d \in Connections : conn[d] \in {"releasing", "gone"} => lane[d] = "closed"
  BY DEF Inv, LeaseInv
<1>3. LeaseInv' /\ PositionInv' /\ FenceInv'
  <2>1. /\ \A l \in Leases : deliveries'[l] = deliveries[l]
        /\ \A d \in Connections : conn'[d] = "replying" => conn[d] = "replying"
        /\ \A d \in Connections : conn'[d] \in {"releasing", "gone"} => lane[d] = "closed"
        /\ UNCHANGED <<lane, view, leases, produced, acknowledged>>
    BY <1>1, <1>2
  <2>2. QED
    BY <1>1, <2>1, LosesSubscriber DEF Loses
<1>4. JournalIsUnacknowledged' /\ CheckpointInv'
  BY <1>1 DEF JournalIsUnacknowledged, CheckpointInv, InputsMatchCheckpoint, Subscribed
<1>5. QED
  BY <1>3, <1>4 DEF Inv


\* What the leases, positions and fences do not read may change freely.
LEMMA QuietInv ==
  ASSUME Inv, UNCHANGED <<nodeVars, journal, produced, ackVars, deliveries, lane, conn, view,
                          leases, accepted>>
  PROVE  Inv'
  BY SameInv DEF Inv, ackVars, nodeVars

\* The delivery task of the current lease moves on; its lease stays current.
LEMMA CurrentMovesInv ==
  ASSUME NEW l \in Leases, TypeOK, Inv, Current(l),
         UNCHANGED <<node, lane, conn, leases>>,
         sub'.lease = sub.lease, sub'.connection = sub.connection,
         \A k \in Leases \ {l} : deliveries'[k] = deliveries[k],
         deliveries'[l].connection = deliveries[l].connection,
         deliveries[l].pc # "none", deliveries'[l].pc # "done",
         \A d \in Connections : view'[d].lease = view[d].lease
  PROVE  LeaseInv'
<1>1. Typed
  BY TypeFacts
<1>2. Subscribed' /\ Subscribed /\ sub.lease = l /\ sub.connection \in Connections
  BY <1>1 DEF Current, Subscribed, Typed
<1>3. \A k \in Leases : Current(k)' <=> Current(k)
  BY <1>2 DEF Current
<1>4. ASSUME NEW k \in Leases
      PROVE  /\ deliveries'[k].pc # "none" => k <= leases
             /\ Current(k)' => deliveries'[k].pc # "done"
             /\ Current(k)' /\ deliveries'[k].pc # "none" =>
                  deliveries'[k].connection = sub'.connection
             /\ deliveries'[k].pc = "sending" /\ ~Current(k)' =>
                  \/ node' = "Closed"
                  \/ /\ deliveries'[k].connection \in Connections
                     /\ lane'[deliveries'[k].connection] = "closed"
  <2>1. CASE k = l
    BY <1>2, <1>3, <2>1 DEF Inv, LeaseInv
  <2>2. CASE k # l
    BY <1>2, <1>3, <2>2 DEF Inv, LeaseInv
  <2>3. QED
    BY <2>1, <2>2
<1>5. QED
  BY <1>2, <1>4 DEF Inv, LeaseInv

\* The task offers the entry after the last delivered one.
LEMMA DeliverEntryInv ==
  ASSUME NEW l \in Leases, TypeOK, Inv, DeliverEntry(l)
  PROVE  Inv'
<1>1. Typed
  BY TypeFacts
<1>2. /\ Current(l) /\ EntryDue /\ deliveries[l].pc = "ready"
      /\ sub'.lease = sub.lease /\ sub'.connection = sub.connection
      /\ sub'.delivered = sub.delivered /\ sub'.inFlight = sub.delivered + 1
      /\ UNCHANGED <<node, replay, journalVars, ackVars, lane, conn, view, leases, accepted>>
  BY DEF DeliverEntry, TypeOK, NodeType, connVars, Looking
<1>3. /\ \A k \in Leases \ {l} : deliveries'[k] = deliveries[k]
      /\ deliveries'[l].connection = deliveries[l].connection
      /\ deliveries'[l].pc = "sending" /\ deliveries'[l].item = sub.delivered + 1
  BY DEF DeliverEntry, Offer, TypeOK, TaskType
<1>4. Subscribed /\ Subscribed' /\ sub.lease = l /\ sub.connection \in Connections
  BY <1>1, <1>2 DEF Current, Subscribed, Typed
<1>5. LeaseInv'
  BY <1>2, <1>3, CurrentMovesInv
<1>6. node # "Closed" /\ sub.delivered + 1 <= Limit /\ sub.delivered + 1 \in DOMAIN journal
  BY <1>2 DEF EntryDue, Current, Subscribed
<1>7. sub.delivered + 1 <= produced /\ sub.delivered + 1 # 0
  BY <1>1, <1>6 DEF Inv, JournalIsUnacknowledged, Typed
<1>8. PositionInv'
  BY <1>1, <1>2, <1>3, <1>4, <1>7 DEF Inv, PositionInv, journalVars, ackVars
<1>9. FenceInv'
  <2>1. CASE node = "Replaying"
    <3>1. sub.delivered + 1 <= replay.fence /\ sub.delivered # replay.fence
      BY <1>1, <1>6, <2>1 DEF Limit, Typed
    <3>2. QED
      BY <1>1, <1>2, <1>3, <1>4, <1>7, <2>1, <3>1 DEF Inv, FenceInv, journalVars
  <2>2. CASE node # "Replaying"
    BY <1>2, <2>2 DEF Inv, FenceInv
  <2>3. QED
    BY <2>1, <2>2
<1>10. JournalIsUnacknowledged'
  BY <1>2 DEF Inv, JournalIsUnacknowledged, journalVars, ackVars
<1>11. CheckpointInv'
  BY <1>2, <1>4 DEF Inv, CheckpointInv, InputsMatchCheckpoint, ackVars
<1>12. QED
  BY <1>5, <1>8, <1>9, <1>10, <1>11 DEF Inv

\* The fence is offered exactly when nothing before it is left: the journal holds all of it.
LEMMA DeliverFenceInv ==
  ASSUME NEW l \in Leases, TypeOK, Inv, DeliverFence(l)
  PROVE  Inv'
<1>1. Typed
  BY TypeFacts
<1>2. /\ Current(l) /\ ~EntryDue /\ deliveries[l].pc = "ready"
      /\ node = "Replaying" /\ ~replay.offered
      /\ replay'.fence = replay.fence /\ replay'.offered /\ replay'.written = replay.written
      /\ UNCHANGED <<node, sub, journalVars, ackVars, lane, conn, view, leases, accepted>>
  BY DEF DeliverFence, TypeOK, NodeType, connVars, Looking, FenceDue
<1>3. /\ \A k \in Leases \ {l} : deliveries'[k] = deliveries[k]
      /\ deliveries'[l].connection = deliveries[l].connection
      /\ deliveries'[l].pc = "sending" /\ deliveries'[l].item = 0
  BY DEF DeliverFence, Offer, TypeOK, TaskType
<1>4. Subscribed /\ Subscribed' /\ sub.lease = l /\ sub.connection \in Connections
  BY <1>1, <1>2 DEF Current, Subscribed, Typed
<1>5. LeaseInv'
  BY <1>2, <1>3, CurrentMovesInv
<1>6. /\ sub.inFlight = 0 /\ view[sub.connection].got = sub.delivered
      /\ acknowledged <= sub.delivered /\ sub.delivered <= replay.fence /\ replay.fence <= produced
  BY <1>2, <1>4 DEF Inv, PositionInv, FenceInv
<1>7. sub.delivered = replay.fence
  <2>1. SUFFICES ASSUME sub.delivered # replay.fence PROVE FALSE
    OBVIOUS
  <2>2. sub.delivered + 1 <= replay.fence /\ sub.delivered + 1 \in (acknowledged + 1)..produced
    BY <1>1, <1>6, <2>1 DEF Typed
  <2>3. sub.delivered + 1 \in DOMAIN journal
    BY <1>2, <2>2 DEF Inv, JournalIsUnacknowledged
  <2>4. QED
    BY <1>2, <2>2, <2>3 DEF EntryDue, Limit
<1>8. PositionInv'
  BY <1>2, <1>3, <1>4, <1>6 DEF Inv, PositionInv, journalVars, ackVars
<1>9. FenceInv'
  BY <1>2, <1>3, <1>4, <1>6, <1>7 DEF Inv, FenceInv, journalVars
<1>10. JournalIsUnacknowledged'
  BY <1>2 DEF Inv, JournalIsUnacknowledged, journalVars, ackVars
<1>11. CheckpointInv'
  BY <1>2, <1>4 DEF Inv, CheckpointInv, InputsMatchCheckpoint, ackVars
<1>12. QED
  BY <1>5, <1>8, <1>9, <1>10, <1>11 DEF Inv

\* A frame is written for the subscriber, or into a closed session.
LEMMA PumpWritesInv ==
  ASSUME NEW l \in Leases, TypeOK, Inv, PumpWrites(l)
  PROVE  Inv'
<1>1. Typed
  BY TypeFacts
<1>2. /\ deliveries[l].pc = "sending" /\ lane[deliveries[l].connection] = "open"
      /\ UNCHANGED <<nodeVars, journalVars, ackVars, lane, conn, leases, accepted>>
  BY DEF PumpWrites
<1>3. /\ \A k \in Leases \ {l} : deliveries'[k] = deliveries[k]
      /\ deliveries'[l].connection = deliveries[l].connection
      /\ deliveries'[l].pc = "written" /\ deliveries'[l].item = deliveries[l].item
  BY DEF PumpWrites, TypeOK, TaskType
<1>4. /\ \A d \in Connections \ {deliveries[l].connection} : view'[d] = view[d]
      /\ \A d \in Connections :
           d = deliveries[l].connection =>
             /\ view'[d].lease = view[d].lease /\ view'[d].sent = view[d].sent
             /\ IF deliveries[l].item = 0
                THEN view'[d].fence /\ view'[d].got = view[d].got
                ELSE view'[d].got = deliveries[l].item /\ view'[d].fence = view[d].fence
  BY DEF PumpWrites, TypeOK, ConnectionType
<1>5. \A d \in Connections : view'[d].lease = view[d].lease /\ view'[d].sent = view[d].sent
  BY <1>4
<1>6. JournalIsUnacknowledged'
  BY <1>2 DEF Inv, JournalIsUnacknowledged, journalVars, ackVars, nodeVars
<1>7. UNCHANGED <<node, sub, replay>> /\ (Subscribed' <=> Subscribed)
  BY <1>2 DEF nodeVars, Subscribed
<1>8. CheckpointInv'
  BY <1>1, <1>2, <1>5, <1>7 DEF Inv, CheckpointInv, InputsMatchCheckpoint, ackVars, Typed
<1>9. CASE Current(l)
  <2>1. Subscribed /\ sub.lease = l /\ sub.connection \in Connections
    BY <1>1, <1>9 DEF Current, Typed
  <2>2. deliveries[l].connection = sub.connection
    BY <1>2, <1>9 DEF Inv, LeaseInv
  <2>3. LeaseInv'
    BY <1>2, <1>3, <1>5, <1>7, <1>9, CurrentMovesInv
  <2>4. PositionInv'
    BY <1>2, <1>3, <1>4, <1>7, <2>1, <2>2 DEF Inv, PositionInv, journalVars, ackVars
  <2>5. FenceInv'
    BY <1>2, <1>3, <1>4, <1>7, <2>1, <2>2 DEF Inv, FenceInv, journalVars, Subscribed
  <2>6. QED
    BY <1>6, <1>8, <2>3, <2>4, <2>5 DEF Inv
<1>10. CASE ~Current(l)
  <2>1. node = "Closed" /\ ~Subscribed
    BY <1>2, <1>10 DEF Inv, LeaseInv, Subscribed
  <2>2. PositionInv'
    BY <1>2, <1>7, <2>1 DEF Inv, PositionInv, journalVars, ackVars
  <2>3. FenceInv'
    BY <1>7, <2>1 DEF FenceInv
  <2>4. LeaseInv'
    <3>1. \A k \in Leases : ~Current(k) /\ ~Current(k)'
      BY <1>7, <2>1 DEF Current
    <3>2. \A k \in Leases : deliveries'[k].pc # "none" => k <= leases
      BY <1>2, <1>3 DEF Inv, LeaseInv
    <3>3. QED
      BY <1>2, <1>5, <1>7, <2>1, <3>1, <3>2 DEF Inv, LeaseInv
  <2>5. QED
    BY <1>6, <1>8, <2>2, <2>3, <2>4 DEF Inv
<1>11. QED
  BY <1>9, <1>10

\* A task that is not the current lease's may end at any time.
LEMMA StaleEndsInv ==
  ASSUME NEW l \in Leases, TypeOK, Inv, ~Current(l), deliveries[l].pc # "none",
         deliveries' = [deliveries EXCEPT ![l] = [NoDelivery EXCEPT !.pc = "done"]],
         UNCHANGED <<nodeVars, journalVars, ackVars, lane, conn, view, leases, accepted>>
  PROVE  Inv'
<1>1. Typed
  BY TypeFacts
<1>2. /\ \A k \in Leases \ {l} : deliveries'[k] = deliveries[k]
      /\ deliveries'[l].pc = "done"
  BY DEF TypeOK, TaskType, NoDelivery
<1>3. UNCHANGED <<node, sub, replay>> /\ (Subscribed' <=> Subscribed)
  BY DEF nodeVars, Subscribed
<1>4. Subscribed => sub.lease \in Leases \ {l}
  BY <1>1 DEF Typed, Current
<1>5. LeaseInv'
  <2>1. \A k \in Leases : Current(k)' <=> Current(k)
    BY <1>3 DEF Current
  <2>2. ASSUME NEW k \in Leases
        PROVE  /\ deliveries'[k].pc # "none" => k <= leases
               /\ Current(k)' => deliveries'[k].pc # "done"
               /\ Current(k)' /\ deliveries'[k].pc # "none" =>
                    deliveries'[k].connection = sub.connection
               /\ deliveries'[k].pc = "sending" /\ ~Current(k)' =>
                    \/ node = "Closed"
                    \/ /\ deliveries'[k].connection \in Connections
                       /\ lane[deliveries'[k].connection] = "closed"
    <3>1. CASE k = l
      BY <1>2, <2>1, <3>1 DEF Inv, LeaseInv
    <3>2. CASE k # l
      BY <1>2, <2>1, <3>2 DEF Inv, LeaseInv
    <3>3. QED
      BY <3>1, <3>2
  <2>3. QED
    BY <1>3, <2>2 DEF Inv, LeaseInv
<1>6. PositionInv'
  BY <1>2, <1>3, <1>4 DEF Inv, PositionInv, journalVars, ackVars
<1>7. FenceInv'
  BY <1>2, <1>3, <1>4 DEF Inv, FenceInv, journalVars, Subscribed
<1>8. QED
  BY <1>5, <1>6, <1>7, SameInv DEF Inv, journalVars, ackVars, nodeVars

\* An aborted task ends.
LEMMA AbortedInv ==
  ASSUME NEW l \in Leases, TypeOK, Inv, Aborted(l)
  PROVE  Inv'
  BY StaleEndsInv DEF Aborted, connVars

\* A failed write detaches the subscriber only when the lease is still current.
LEMMA DeliverFailsInv ==
  ASSUME NEW l \in Leases, TypeOK, Inv, DeliverFails(l)
  PROVE  Inv'
<1>1. /\ deliveries[l].pc = "sending" /\ lane[deliveries[l].connection] = "closed"
      /\ UNCHANGED <<journalVars, ackVars, lane, conn, view, leases, accepted>>
      /\ deliveries' = [deliveries EXCEPT ![l] = [NoDelivery EXCEPT !.pc = "done"]]
  BY DEF DeliverFails, connVars
<1>2. CASE Current(l)
  <2>1. node \in {"Replaying", "Live"} /\ node' = "Detached" /\ sub' = NoSubscriber
    BY <1>2 DEF DeliverFails, Detach, Current, Subscribed
  <2>2. lane[sub.connection] = "closed"
    BY <1>1, <1>2 DEF Inv, LeaseInv
  <2>3. \A k \in Leases :
          \/ deliveries'[k] = deliveries[k]
          \/ deliveries[k].pc # "none" /\ deliveries'[k].pc = "done"
    BY <1>1 DEF TypeOK, TaskType, NoDelivery
  <2>4. \A d \in Connections : conn[d] \in {"releasing", "gone"} => lane[d] = "closed"
    BY DEF Inv, LeaseInv
  <2>5. LeaseInv' /\ PositionInv' /\ FenceInv'
    BY <1>1, <2>1, <2>2, <2>3, <2>4, LosesSubscriber DEF Loses, journalVars, ackVars
  <2>6. JournalIsUnacknowledged'
    BY <1>1, <2>1 DEF Inv, JournalIsUnacknowledged, journalVars, ackVars
  <2>7. CheckpointInv'
    BY <1>1, <2>1 DEF Inv, CheckpointInv, InputsMatchCheckpoint, ackVars, Subscribed
  <2>8. QED
    BY <2>5, <2>6, <2>7 DEF Inv
<1>3. CASE ~Current(l)
  BY <1>1, <1>3, StaleEndsInv DEF DeliverFails
<1>4. QED
  BY <1>2, <1>3

\* The written entry, or fence, is counted for the current lease only.
LEMMA DeliverDoneInv ==
  ASSUME NEW l \in Leases, TypeOK, Inv, DeliverDone(l)
  PROVE  Inv'
<1>1. Typed
  BY TypeFacts
<1>2. /\ deliveries[l].pc = "written"
      /\ UNCHANGED <<node, journalVars, ackVars, lane, conn, view, leases, accepted>>
  BY DEF DeliverDone, connVars
<1>3. CASE ~Current(l)
  BY <1>2, <1>3, StaleEndsInv DEF DeliverDone, nodeVars
<1>4. CASE Current(l)
  <2>1. /\ \A k \in Leases \ {l} : deliveries'[k] = deliveries[k]
        /\ deliveries'[l].connection = deliveries[l].connection
        /\ deliveries'[l].pc = "ready" /\ deliveries'[l].item = 0
    <3>1. deliveries' = [deliveries EXCEPT ![l].pc = "ready", ![l].item = Fence]
      BY <1>4 DEF DeliverDone
    <3>2. QED
      BY <3>1 DEF TypeOK, TaskType
  <2>2. Subscribed /\ sub.lease = l /\ sub.connection \in Connections
    BY <1>1, <1>4 DEF Current, Typed
  <2>3. /\ sub'.lease = sub.lease /\ sub'.connection = sub.connection
        /\ replay'.fence = replay.fence /\ replay'.offered = replay.offered
    BY <1>4 DEF DeliverDone, TypeOK, NodeType
  <2>4. Subscribed'
    BY <1>2, <2>2 DEF Subscribed
  <2>5. LeaseInv'
    BY <1>2, <1>4, <2>1, <2>3, CurrentMovesInv
  <2>6. JournalIsUnacknowledged'
    BY <1>2 DEF Inv, JournalIsUnacknowledged, journalVars, ackVars
  <2>7. CheckpointInv'
    BY <1>2, <2>2, <2>3 DEF Inv, CheckpointInv, InputsMatchCheckpoint, ackVars
  <2>8. CASE deliveries[l].item = 0
    <3>1. sub' = sub /\ (replay'.written => replay.written \/ node = "Replaying")
      BY <1>4, <2>8 DEF DeliverDone
    <3>2. PositionInv'
      BY <1>2, <2>1, <2>2, <2>8, <3>1 DEF Inv, PositionInv, journalVars, ackVars
    <3>3. FenceInv'
      BY <1>2, <2>1, <2>2, <2>3, <2>8, <3>1 DEF Inv, FenceInv, journalVars
    <3>4. QED
      BY <2>5, <2>6, <2>7, <3>2, <3>3 DEF Inv
  <2>9. CASE deliveries[l].item # 0
    <3>1. sub'.delivered = deliveries[l].item /\ sub'.inFlight = 0 /\ replay' = replay
      BY <1>4, <2>9 DEF DeliverDone, TypeOK, NodeType
    <3>2. /\ deliveries[l].item = sub.delivered + 1 /\ deliveries[l].item <= produced
          /\ sub.inFlight = deliveries[l].item /\ acknowledged <= sub.delivered
          /\ view[sub.connection].got = deliveries[l].item
      BY <1>2, <2>2, <2>9 DEF Inv, PositionInv
    <3>3. acknowledged <= deliveries[l].item
      BY <1>1, <3>2 DEF Typed
    <3>4. PositionInv'
      BY <1>2, <2>1, <2>2, <2>3, <3>1, <3>2, <3>3 DEF Inv, PositionInv, journalVars, ackVars
    <3>5. FenceInv'
      BY <1>2, <2>1, <2>2, <2>3, <2>9, <3>1, <3>2 DEF Inv, FenceInv, journalVars
    <3>6. QED
      BY <2>5, <2>6, <2>7, <3>4, <3>5 DEF Inv
  <2>10. QED
    BY <2>8, <2>9
<1>5. QED
  BY <1>3, <1>4

\* An append extends the unacknowledged suffix.
LEMMA AppendAcceptedInv ==
  ASSUME NEW p \in Producers, TypeOK, Inv, AppendAccepted(p)
  PROVE  Inv'
<1>1. Typed
  BY TypeFacts
<1>2. /\ node # "Closed" /\ produced' = produced + 1
      /\ DOMAIN journal' = DOMAIN journal \cup {produced + 1}
      /\ UNCHANGED <<nodeVars, ackVars, deliveries, lane, conn, view, leases, accepted>>
  BY DEF AppendAccepted, connVars
<1>3. UNCHANGED <<node, sub, replay>> /\ (Subscribed' <=> Subscribed)
  BY <1>2 DEF nodeVars, Subscribed
<1>4. JournalIsUnacknowledged'
  <2>1. acknowledged <= produced
    BY DEF Inv, PositionInv
  <2>2. ((acknowledged + 1)..produced) \cup {produced + 1} = (acknowledged + 1)..(produced + 1)
    BY <1>1, <2>1 DEF Typed
  <2>3. QED
    BY <1>2, <1>3, <2>2 DEF Inv, JournalIsUnacknowledged, ackVars
<1>5. \A n \in Nat : n <= produced => n <= produced'
  BY <1>1, <1>2 DEF Typed
<1>6. PositionInv'
  <2>1. Subscribed => deliveries[sub.lease].item \in Nat
    BY <1>1 DEF Typed
  <2>2. QED
    BY <1>1, <1>2, <1>3, <1>5, <2>1 DEF Inv, PositionInv, Typed, ackVars
<1>7. FenceInv'
  BY <1>1, <1>2, <1>3, <1>5 DEF Inv, FenceInv, Typed
<1>8. QED
  BY <1>2, <1>4, <1>6, <1>7, SameInv DEF Inv, ackVars

\* An accepted commit releases exactly what it acknowledges and counts its input.
LEMMA CommitAcceptedInv ==
  ASSUME NEW c \in Connections, TypeOK, Inv, CommitAccepted(c)
  PROVE  Inv'
<1>1. Typed
  BY TypeFacts
<1>2. PICK r \in Asked(c) :
        /\ Acceptable(c, r)
        /\ acknowledged' = r.through
        /\ checkpoint' = [through |-> r.through, sent |-> Sent(c, r)]
        /\ Release(r.through)
        /\ node' = IF r.finish THEN "Live" ELSE node
        /\ replay' = IF r.finish THEN NoReplay ELSE replay
        /\ accepted' = IF r.input THEN accepted + 1 ELSE accepted
        /\ view' = [view EXCEPT ![c].sent = Sent(c, r)]
        /\ Answered(c)
  BY DEF CommitAccepted
<1>3. UNCHANGED <<sub, produced, deliveries, lane, leases>>
  BY DEF CommitAccepted
<1>4. /\ Subscribed /\ sub.connection = c /\ sub.lease \in Leases
      /\ r.through >= acknowledged /\ r.through <= sub.delivered
      /\ r.finish => node = "Replaying" /\ replay.written
  BY <1>1, <1>2 DEF Acceptable, Owns, Typed
<1>5. Subscribed' /\ node' # "Closed" /\ node # "Closed"
  BY <1>2, <1>4 DEF Subscribed
<1>6. r.through \in Nat
  <2>1. CASE conn[c] = "idle"
    <3>1. r \in Requests(c)
      BY <1>2, <2>1 DEF Asked
    <3>2. QED
      BY <1>1, <3>1 DEF Requests, Typed
  <2>2. CASE conn[c] # "idle"
    <3>1. r = request[c]
      BY <1>2, <2>2 DEF Asked
    <3>2. QED
      BY <3>1 DEF TypeOK, ConnectionType
  <2>3. QED
    BY <2>1, <2>2
<1>7. /\ \A d \in Connections : /\ view'[d].lease = view[d].lease
                                /\ view'[d].got = view[d].got
                                /\ view'[d].fence = view[d].fence
      /\ view'[c].sent = Sent(c, r)
  BY <1>2 DEF TypeOK, ConnectionType
<1>8. \A d \in Connections : conn'[d] = IF d = c THEN "idle" ELSE conn[d]
  BY <1>2 DEF Answered, TypeOK, ConnectionType
<1>9. JournalIsUnacknowledged'
  <2>1. DOMAIN journal' = {s \in (acknowledged + 1)..produced : s > r.through}
    BY <1>2, <1>5 DEF Release, Inv, JournalIsUnacknowledged
  <2>2. @ = (r.through + 1)..produced
    BY <1>1, <1>4, <1>6 DEF Typed
  <2>3. QED
    BY <1>2, <1>3, <1>5, <2>1, <2>2 DEF JournalIsUnacknowledged
<1>10. LeaseInv'
  <2>1. \A l \in Leases : Current(l)' <=> Current(l)
    BY <1>3, <1>4, <1>5 DEF Current
  <2>2. QED
    BY <1>3, <1>4, <1>5, <1>7, <1>8, <2>1 DEF Inv, LeaseInv
<1>11. PositionInv'
  <2>1. r.through <= produced
    <3>1. sub.delivered <= produced
      BY <1>4 DEF Inv, PositionInv
    <3>2. QED
      BY <1>1, <1>4, <1>6, <3>1 DEF Typed
  <2>2. QED
    BY <1>2, <1>3, <1>4, <1>7, <2>1 DEF Inv, PositionInv
<1>12. FenceInv'
  BY <1>2, <1>3, <1>4, <1>7 DEF Inv, FenceInv
<1>13. CheckpointInv'
  <2>1. checkpoint.sent = accepted /\ view[c].sent = accepted
    BY <1>4, <1>5 DEF Inv, CheckpointInv, InputsMatchCheckpoint
  <2>2. Sent(c, r) = accepted'
    BY <1>1, <1>2, <2>1 DEF Sent, Typed
  <2>3. QED
    BY <1>2, <1>3, <1>4, <1>7, <2>2 DEF CheckpointInv, InputsMatchCheckpoint
<1>14. QED
  BY <1>9, <1>10, <1>11, <1>12, <1>13 DEF Inv

\* Every step preserves the invariant: one lemma per action, above.
LEMMA InvStep == TypeOK /\ Inv /\ [Next]_vars => Inv'
<1> SUFFICES ASSUME TypeOK, Inv, [Next]_vars PROVE Inv'
  OBVIOUS
<1>1. ASSUME NEW c \in Connections, ConnectionStep(c) PROVE Inv'
  BY <1>1, AttachInv, StartInv, CommitWaitsInv, CommitRefusedInv, CommitAcceptedInv,
     LaneFailsInv, ConnectionEndsInv, DetachLaneInv DEF ConnectionStep
<1>2. ASSUME NEW l \in Leases, DeliveryStep(l) PROVE Inv'
  <2>1. CASE DeliverWaits(l)
    BY <2>1, QuietInv DEF DeliverWaits, journalVars, connVars
  <2>2. CASE ~DeliverWaits(l)
    BY <1>2, <2>2, DeliverEntryInv, DeliverFenceInv, PumpWritesInv, DeliverDoneInv,
       DeliverFailsInv, AbortedInv DEF DeliveryStep
  <2>3. QED
    BY <2>1, <2>2
<1>3. ASSUME NEW p \in Producers, AppendStep(p) PROVE Inv'
  <2>1. CASE AppendAccepted(p)
    BY <2>1, AppendAcceptedInv
  <2>2. CASE AppendWaits(p) \/ FrameTooLarge(p) \/ AppendRefused(p)
    BY <2>2, QuietInv DEF AppendWaits, FrameTooLarge, AppendRefused, journalVars, connVars
  <2>3. QED
    BY <1>3, <2>1, <2>2 DEF AppendStep
<1>4. CASE ReadStep
  BY <1>4, QuietInv DEF ReadStep, ReadLine, ReadFails, ReadEof, journalVars, connVars
<1>5. CASE WriteStep
  BY <1>5, QuietInv DEF WriteStep, WriteStdin, WriteStdinFails, journalVars, connVars
<1>6. CASE SuperviseStep
  BY <1>6, QuietInv DEF SuperviseStep, ChildExits, KillNotified, Reap, Drained, journalVars, connVars
<1>7. CASE Close
  BY <1>7, CloseInv
<1>8. CASE UNCHANGED vars
  BY <1>8, QuietInv DEF vars, journalVars, connVars
<1>9. QED
  BY <1>1, <1>2, <1>3, <1>4, <1>5, <1>6, <1>7, <1>8 DEF Next

\* The initial state satisfies the invariant.
LEMMA InvInit == Init => Inv
<1> SUFFICES ASSUME Init PROVE Inv
  OBVIOUS
<1>1. ~Subscribed /\ node = "Detached" /\ \A l \in Leases : deliveries[l].pc = "none"
  BY DEF Init, Subscribed, NoDelivery
<1>2. JournalIsUnacknowledged
  <2>1. DOMAIN journal = {} /\ (0 + 1)..0 = {}
    BY DEF Init
  <2>2. QED
    BY <2>1 DEF Init, JournalIsUnacknowledged
<1>3. LeaseInv
  BY <1>1 DEF Init, LeaseInv, NoSubscriber, NoView, Current
<1>4. PositionInv /\ FenceInv
  BY <1>1 DEF Init, PositionInv, FenceInv
<1>5. CheckpointInv
  BY <1>1 DEF Init, CheckpointInv, InputsMatchCheckpoint, NoCheckpoint
<1>6. QED
  BY <1>2, <1>3, <1>4, <1>5 DEF Inv

\* The inductive invariant holds in every behaviour.
THEOREM Invariant == Spec => [](TypeOK /\ Inv)
<1>1. Init => TypeOK /\ Inv
  BY TypeInit, InvInit
<1>2. TypeOK /\ Inv /\ [Next]_vars => (TypeOK /\ Inv)'
  BY TypeStep, InvStep
<1>3. QED
  BY <1>1, <1>2, PTL DEF Spec

\* The journal is exactly what was produced and not acknowledged, for every number of
\* connections, leases and lines: recovery.rs neither loses nor resends an entry.
THEOREM JournalCorrect == Spec => []JournalIsUnacknowledged
<1>1. Inv => JournalIsUnacknowledged
  BY DEF Inv
<1>2. QED
  BY <1>1, Invariant, PTL

\* The invariant implies SubscriberPosition.
LEMMA InvPosition == TypeOK /\ Inv => SubscriberPosition
<1> SUFFICES ASSUME TypeOK, Inv, Subscribed PROVE SubscriberPosition
  BY DEF SubscriberPosition
<1>1. Typed
  BY TypeFacts
<1>2. deliveries[sub.lease].pc \in {"none", "ready", "sending", "written"}
  <2>1. sub.lease \in Leases /\ Current(sub.lease)
    BY <1>1 DEF Typed, Current
  <2>2. QED
    BY <2>1 DEF Inv, LeaseInv, TypeOK, TaskType
<1>3. view[sub.connection].lease = sub.lease
  BY DEF Inv, LeaseInv
<1>4. QED
  BY <1>1, <1>2, <1>3 DEF Inv, PositionInv, SubscriberPosition, Typed

\* The runner and the client agree on what was read, up to the frame in flight.
THEOREM PositionCorrect == Spec => []SubscriberPosition
<1>1. QED
  BY InvPosition, Invariant, PTL

\* The stored checkpoint always counts the accepted inputs.
THEOREM InputsCorrect == Spec => []InputsMatchCheckpoint
<1>1. Inv => InputsMatchCheckpoint
  BY DEF Inv, CheckpointInv
<1>2. QED
  BY <1>1, Invariant, PTL

\* The invariant implies ReplayIsExact.
LEMMA InvReplay == TypeOK /\ Inv => ReplayIsExact
<1> SUFFICES ASSUME TypeOK, Inv PROVE ReplayIsExact
  OBVIOUS
<1>1. Typed
  BY TypeFacts
<1>2. CASE node = "Replaying"
  <2>1. Subscribed /\ sub.lease \in Leases /\ sub.connection \in Connections
    BY <1>1, <1>2 DEF Typed, Subscribed
  <2>2. deliveries[sub.lease].pc \in {"none", "ready", "sending", "written"}
    BY <2>1 DEF Inv, LeaseInv, TypeOK, TaskType, Current
  <2>3. view[sub.connection].got <= replay.fence
    BY <1>1, <1>2, <2>1, <2>2 DEF Inv, PositionInv, FenceInv, Typed
  <2>4. view[sub.connection].fence => view[sub.connection].got = replay.fence
    BY <1>1, <1>2, <2>1, <2>2 DEF Inv, PositionInv, FenceInv, Typed
  <2>5. QED
    BY <1>2, <2>3, <2>4 DEF ReplayIsExact
<1>3. CASE node # "Replaying"
  BY <1>3 DEF Inv, FenceInv, ReplayIsExact
<1>4. QED
  BY <1>2, <1>3

\* Replay ends at the fence frozen by attach.
THEOREM ReplayCorrect == Spec => []ReplayIsExact
<1>1. QED
  BY InvReplay, Invariant, PTL

-----------------------------------------------------------------------------
(* Order of what is read, and who may take the stream away.                *)

\* In a closed session a frame still in flight is the next one its client reads.
ClosedInv ==
  node = "Closed" =>
    \A l \in Leases :
      LET d == deliveries[l]
          v == view[d.connection]
      IN  d.pc = "sending" =>
            /\ d.connection \in Connections
            /\ lane[d.connection] # "closed" =>
                 v.lease = l /\ (d.item # Fence => d.item = v.got + 1)

\* A step that touches no task, view or open lane keeps the closed session.
LEMMA ClosedKept ==
  ASSUME ClosedInv, node = "Closed", UNCHANGED <<deliveries, view>>,
         \A d \in Connections : lane[d] = "closed" => lane'[d] = "closed"
  PROVE  ClosedInv'
  BY DEF ClosedInv

\* Every step preserves ClosedInv.
LEMMA ClosedStep == TypeOK /\ Inv /\ ClosedInv /\ [Next]_vars => ClosedInv'
<1> SUFFICES ASSUME TypeOK, Inv, ClosedInv, [Next]_vars, node' = "Closed" PROVE ClosedInv'
  BY DEF ClosedInv
<1>0. Typed
  BY TypeFacts
<1>1. CASE Close
  <2>1. UNCHANGED <<deliveries, view, lane>> /\ node # "Closed"
    BY <1>1 DEF Close, connVars
  <2>2. ASSUME NEW l \in Leases, deliveries[l].pc = "sending"
        PROVE  /\ deliveries[l].connection \in Connections
               /\ lane[deliveries[l].connection] # "closed" =>
                    /\ view[deliveries[l].connection].lease = l
                    /\ deliveries[l].item # 0 =>
                         deliveries[l].item = view[deliveries[l].connection].got + 1
    <3>1. CASE Current(l)
      <4>1. Subscribed /\ sub.lease = l /\ sub.connection \in Connections
        BY <1>0, <3>1 DEF Current, Typed
      <4>2. deliveries[l].connection = sub.connection /\ view[sub.connection].lease = l
        BY <2>2, <3>1, <4>1 DEF Inv, LeaseInv
      <4>3. deliveries[l].item # 0 => deliveries[l].item = view[sub.connection].got + 1
        BY <2>2, <4>1 DEF Inv, PositionInv
      <4>4. QED
        BY <4>1, <4>2, <4>3
    <3>2. CASE ~Current(l)
      BY <2>1, <2>2, <3>2 DEF Inv, LeaseInv
    <3>3. QED
      BY <3>1, <3>2
  <2>3. QED
    BY <2>1, <2>2 DEF ClosedInv
<1>2. CASE ~Close
  <2>0. node = "Closed" /\ ~Subscribed /\ sub.lease = 0
    <3>1. node = "Closed"
      <4>1. ASSUME NEW c \in Connections, ConnectionStep(c) PROVE node = "Closed"
        BY <4>1 DEF ConnectionStep, Attach, Start, CommitWaits, CommitRefused, CommitAccepted,
           LaneFails, ConnectionEnds, DetachLane, Detach, nodeVars
      <4>2. ASSUME NEW l \in Leases, DeliveryStep(l) PROVE node = "Closed"
        BY <4>2 DEF DeliveryStep, DeliverEntry, DeliverFence, DeliverWaits, PumpWrites,
           DeliverDone, DeliverFails, Aborted, Detach, nodeVars
      <4>3. ASSUME NEW p \in Producers, AppendStep(p) PROVE node = "Closed"
        BY <4>3 DEF AppendStep, AppendAccepted, AppendWaits, FrameTooLarge, AppendRefused, nodeVars
      <4>4. CASE ReadStep \/ WriteStep \/ SuperviseStep \/ UNCHANGED vars
        BY <4>4 DEF ReadStep, ReadLine, ReadFails, ReadEof, WriteStep, WriteStdin,
           WriteStdinFails, SuperviseStep, ChildExits, KillNotified, Reap, Drained, vars, nodeVars
      <4>5. QED
        BY <1>2, <4>1, <4>2, <4>3, <4>4 DEF Next
    <3>2. QED
      BY <1>0, <3>1 DEF Typed, Subscribed
  <2>1. ASSUME NEW c \in Connections, ConnectionStep(c) PROVE ClosedInv'
    <3>1. ~Attach(c) /\ ~CommitAccepted(c)
      BY <2>0 DEF Attach, CommitAccepted, Acceptable, Owns
    <3>2. UNCHANGED view
      BY <2>1, <3>1 DEF ConnectionStep, Start, CommitWaits, CommitRefused,
         LaneFails, ConnectionEnds, DetachLane
    <3>3. UNCHANGED deliveries
      <4>1. CASE Start(c)
        <5>1. view[c].lease # 0
          BY <4>1 DEF Start, Inv, LeaseInv
        <5>2. QED
          BY <2>0, <4>1, <5>1 DEF Start
      <4>2. CASE ~Start(c)
        BY <2>1, <3>1, <4>2 DEF ConnectionStep, CommitWaits, CommitRefused,
           LaneFails, ConnectionEnds, DetachLane
      <4>3. QED
        BY <4>1, <4>2
    <3>4. \A d \in Connections : lane[d] = "closed" => lane'[d] = "closed"
      BY <2>1, <3>1 DEF ConnectionStep, Start, CommitWaits, CommitRefused,
         LaneFails, ConnectionEnds, DetachLane, TypeOK, ConnectionType
    <3>5. QED
      BY <2>0, <3>2, <3>3, <3>4, ClosedKept
  <2>2. ASSUME NEW l \in Leases, DeliveryStep(l) PROVE ClosedInv'
    <3>1. ~Current(l)
      BY <2>0 DEF Current
    <3>2. UNCHANGED lane
      BY <2>2 DEF DeliveryStep, DeliverEntry, DeliverFence, DeliverWaits, PumpWrites,
         DeliverDone, DeliverFails, Aborted, connVars
    <3>3. CASE PumpWrites(l)
      <4>1. /\ \A k \in Leases \ {l} : deliveries'[k] = deliveries[k]
            /\ deliveries'[l].pc = "written"
        BY <3>3 DEF PumpWrites, TypeOK, TaskType
      <4>2. /\ deliveries[l].pc = "sending" /\ lane[deliveries[l].connection] = "open"
            /\ \A d \in Connections : view'[d].lease = view[d].lease
            /\ \A d \in Connections \ {deliveries[l].connection} : view'[d] = view[d]
        BY <3>3 DEF PumpWrites, TypeOK, ConnectionType
      <4>3. deliveries[l].connection \in Connections /\ view[deliveries[l].connection].lease = l
        BY <2>0, <4>2 DEF ClosedInv
      <4>4. ASSUME NEW k \in Leases, deliveries'[k].pc = "sending"
            PROVE  /\ deliveries'[k].connection \in Connections
                   /\ lane'[deliveries'[k].connection] # "closed" =>
                        /\ view'[deliveries'[k].connection].lease = k
                        /\ deliveries'[k].item # 0 =>
                             deliveries'[k].item = view'[deliveries'[k].connection].got + 1
        <5>1. k # l /\ deliveries'[k] = deliveries[k]
          BY <4>1, <4>4
        <5>2. QED
          BY <2>0, <3>2, <4>2, <4>3, <4>4, <5>1 DEF ClosedInv
      <4>5. QED
        BY <4>4 DEF ClosedInv
    <3>4. CASE ~PumpWrites(l)
      <4>1. UNCHANGED view
        BY <2>2, <3>4 DEF DeliveryStep, DeliverEntry, DeliverFence, DeliverWaits,
           DeliverDone, DeliverFails, Aborted, connVars
      <4>2. \/ UNCHANGED deliveries
            \/ deliveries' = [deliveries EXCEPT ![l] = [NoDelivery EXCEPT !.pc = "done"]]
        BY <2>2, <3>1, <3>4 DEF DeliveryStep, DeliverEntry, DeliverFence, DeliverWaits,
           DeliverDone, DeliverFails, Aborted
      <4>3. \A k \in Leases : deliveries'[k] = deliveries[k] \/ deliveries'[k].pc = "done"
        BY <4>2 DEF TypeOK, TaskType, NoDelivery
      <4>4. QED
        BY <2>0, <3>2, <4>1, <4>3 DEF ClosedInv
    <3>5. QED
      BY <3>3, <3>4
  <2>3. ASSUME NEW p \in Producers, AppendStep(p) PROVE ClosedInv'
    BY <2>0, <2>3, ClosedKept
    DEF AppendStep, AppendAccepted, AppendWaits, FrameTooLarge, AppendRefused, connVars
  <2>4. CASE ReadStep \/ WriteStep \/ SuperviseStep \/ UNCHANGED vars
    BY <2>0, <2>4, ClosedKept
    DEF ReadStep, ReadLine, ReadFails, ReadEof, WriteStep, WriteStdin,
        WriteStdinFails, SuperviseStep, ChildExits, KillNotified, Reap, Drained, vars, connVars
  <2>5. QED
    BY <1>2, <2>1, <2>2, <2>3, <2>4 DEF Next
<1>3. QED
  BY <1>1, <1>2

\* A step that moves what a client has read moves it by one, or to its checkpoint.
LEMMA ReadsStep ==
  ASSUME TypeOK, Inv, ClosedInv, [Next]_vars, NEW c \in Connections,
         view'[c].got # view[c].got
  PROVE  IF view'[c].lease = view[c].lease
         THEN view'[c].got = view[c].got + 1
         ELSE view'[c].got = checkpoint.through
<1>0. Typed
  BY TypeFacts
<1>1. ASSUME NEW d \in Connections, Attach(d), d = c
      PROVE  view'[c].lease # view[c].lease /\ view'[c].got = checkpoint.through
  <2>1. view'[c].lease = leases + 1 /\ view'[c].got = acknowledged /\ node # "Closed"
    BY <1>1 DEF Attach, TypeOK, ConnectionType
  <2>2. view[c].lease <= leases
    BY DEF Inv, LeaseInv
  <2>3. checkpoint.through = acknowledged
    BY <2>1 DEF Inv, CheckpointInv, InputsMatchCheckpoint
  <2>4. view[c].lease # leases + 1
    BY <1>0, <2>2 DEF Typed
  <2>5. QED
    BY <2>1, <2>3, <2>4
<1>2. ASSUME NEW l \in Leases, PumpWrites(l)
      PROVE  view'[c].lease = view[c].lease /\ view'[c].got = view[c].got + 1
  <2>1. /\ deliveries[l].pc = "sending" /\ lane[deliveries[l].connection] = "open"
        /\ deliveries[l].connection = c /\ deliveries[l].item # 0
        /\ view'[c].lease = view[c].lease /\ view'[c].got = deliveries[l].item
    BY <1>2 DEF PumpWrites, TypeOK, ConnectionType
  <2>2. CASE Current(l)
    <3>1. Subscribed /\ sub.lease = l /\ sub.connection = c
      BY <1>0, <2>1, <2>2 DEF Current, Typed, Inv, LeaseInv
    <3>2. deliveries[l].item = view[c].got + 1
      BY <2>1, <3>1 DEF Inv, PositionInv
    <3>3. QED
      BY <2>1, <3>2
  <2>3. CASE ~Current(l)
    <3>1. node = "Closed"
      BY <2>1, <2>3 DEF Inv, LeaseInv
    <3>2. QED
      BY <2>1, <3>1 DEF ClosedInv
  <2>4. QED
    BY <2>2, <2>3
<1>3. \/ \E d \in Connections : Attach(d) /\ d = c
      \/ \E l \in Leases : PumpWrites(l)
  <2>1. ASSUME NEW d \in Connections, ConnectionStep(d), ~(Attach(d) /\ d = c)
        PROVE  view'[c].got = view[c].got
    <3>1. CASE Attach(d)
      BY <2>1, <3>1 DEF Attach, TypeOK, ConnectionType
    <3>2. CASE CommitAccepted(d)
      BY <3>2 DEF CommitAccepted, TypeOK, ConnectionType
    <3>3. CASE ~Attach(d) /\ ~CommitAccepted(d)
      BY <2>1, <3>3 DEF ConnectionStep, Start, CommitWaits, CommitRefused,
         LaneFails, ConnectionEnds, DetachLane
    <3>4. QED
      BY <3>1, <3>2, <3>3
  <2>2. ASSUME NEW l \in Leases, DeliveryStep(l), ~PumpWrites(l)
        PROVE  view' = view
    BY <2>2 DEF DeliveryStep, DeliverEntry, DeliverFence, DeliverWaits,
       DeliverDone, DeliverFails, Aborted, connVars
  <2>3. ASSUME NEW p \in Producers, AppendStep(p) PROVE view' = view
    BY <2>3 DEF AppendStep, AppendAccepted, AppendWaits, FrameTooLarge, AppendRefused, connVars
  <2>4. ReadStep \/ WriteStep \/ SuperviseStep \/ Close \/ UNCHANGED vars => view' = view
    BY DEF ReadStep, ReadLine, ReadFails, ReadEof, WriteStep, WriteStdin, WriteStdinFails,
       SuperviseStep, ChildExits, KillNotified, Reap, Drained, Close, vars, connVars
  <2>5. QED
    BY <2>1, <2>2, <2>3, <2>4 DEF Next
<1>4. QED
  BY <1>1, <1>2, <1>3

\* A step that takes the lease away finds the lane closed, or closes the session.
LEMMA KeepsStep ==
  ASSUME TypeOK, Inv, [Next]_vars, Subscribed, sub'.lease # sub.lease
  PROVE  node' = "Closed" \/ lane[sub.connection] = "closed"
<1>0. Typed
  BY TypeFacts
<1>1. ASSUME NEW d \in Connections, ConnectionStep(d) PROVE lane[sub.connection] = "closed"
  <2>1. CASE Attach(d)
    BY <2>1 DEF Attach
  <2>2. CASE DetachLane(d)
    BY <2>2 DEF DetachLane, HoldsLane, nodeVars, Inv, LeaseInv
  <2>3. CASE ~Attach(d) /\ ~DetachLane(d)
    BY <1>1, <2>3 DEF ConnectionStep, Start, CommitWaits, CommitRefused, CommitAccepted,
       LaneFails, ConnectionEnds, nodeVars
  <2>4. QED
    BY <2>1, <2>2, <2>3
<1>2. ASSUME NEW l \in Leases, DeliveryStep(l) PROVE lane[sub.connection] = "closed"
  <2>1. CASE DeliverFails(l)
    BY <2>1 DEF DeliverFails, nodeVars, Inv, LeaseInv
  <2>2. CASE ~DeliverFails(l)
    <3>1. sub'.lease = sub.lease
      BY <1>2, <2>2 DEF DeliveryStep, DeliverEntry, DeliverFence, DeliverWaits, PumpWrites,
         DeliverDone, Aborted, nodeVars, TypeOK, NodeType
    <3>2. QED
      BY <3>1
  <2>3. QED
    BY <2>1, <2>2
<1>3. ASSUME NEW p \in Producers, AppendStep(p) PROVE sub' = sub
  BY <1>3 DEF AppendStep, AppendAccepted, AppendWaits, FrameTooLarge, AppendRefused, nodeVars
<1>4. ReadStep \/ WriteStep \/ SuperviseStep \/ UNCHANGED vars => sub' = sub
  BY DEF ReadStep, ReadLine, ReadFails, ReadEof, WriteStep, WriteStdin, WriteStdinFails,
     SuperviseStep, ChildExits, KillNotified, Reap, Drained, vars, nodeVars
<1>5. Close => node' = "Closed"
  BY DEF Close
<1>6. QED
  BY <1>1, <1>2, <1>3, <1>4, <1>5 DEF Next

\* A client reads every entry once and in order.
THEOREM ReadsCorrect == Spec => ReadsInOrder
<1>1. Init => ClosedInv
  BY DEF Init, ClosedInv
<1>2. TypeOK /\ Inv /\ ClosedInv /\ [Next]_vars =>
        [\A c \in Connections :
           view'[c].got # view[c].got =>
             IF view'[c].lease = view[c].lease
             THEN view'[c].got = view[c].got + 1
             ELSE view'[c].got = checkpoint.through]_vars
  BY ReadsStep
<1>3. QED
  BY <1>1, <1>2, ClosedStep, Invariant, PTL DEF Spec, ReadsInOrder

\* No late cleanup of an older lease takes a subscriber away.
THEOREM KeepsCorrect == Spec => SubscriberKeepsItsStream
<1>1. TypeOK /\ Inv /\ [Next]_vars =>
        [Subscribed /\ sub'.lease # sub.lease =>
           node' = "Closed" \/ lane[sub.connection] = "closed"]_vars
  BY KeepsStep
<1>2. QED
  BY <1>1, Invariant, PTL DEF Spec, SubscriberKeepsItsStream

-----------------------------------------------------------------------------
(* Exit is last.                                                           *)

\* Once the supervisor drains, only its own Exit is left to append.
ChildInv ==
  /\ supervisor \in {"draining", "exiting", "finished"} => writer = "stopped"
  /\ supervisor \in {"exiting", "finished"} => reader = "stopped"
  /\ writer = "stopped" => pending["stdin"] = NoEntry
  /\ reader = "stopped" => pending["stdout"] = NoEntry
  /\ supervisor # "exiting" => pending["supervisor"] = NoEntry

\* An append, accepted or refused, ends the producer it should and no other.
LEMMA AppendChild ==
  ASSUME NEW p \in Producers, TypeOK, ChildInv, AppendStep(p)
  PROVE  ChildInv' /\ (supervisor = "finished" => produced' = produced)
<1>1. pending[p] # NoEntry
  BY DEF AppendStep, AppendAccepted, AppendWaits, FrameTooLarge, AppendRefused, Appending
<1>2. supervisor # "finished"
  BY <1>1 DEF ChildInv
<1>3. CASE AppendWaits(p)
  BY <1>3 DEF AppendWaits, childVars, journalVars, ChildInv
<1>4. CASE FrameTooLarge(p)
  <2>1. /\ \A q \in Producers \ {p} : pending'[q] = pending[q]
        /\ UNCHANGED <<supervisor, reader, writer>>
    BY <1>4 DEF FrameTooLarge, childVars, TypeOK, ChildType
  <2>2. QED
    BY <1>1, <2>1 DEF ChildInv
<1>5. CASE AppendAccepted(p) \/ AppendRefused(p)
  <2>1. PICK kind : Continue(p, kind) /\ (kind = "frame" \/ kind # "frame")
    BY <1>5 DEF AppendAccepted, AppendRefused
  <2>2. /\ \A q \in Producers \ {p} : pending'[q] = pending[q]
        /\ pending'[p] = NoEntry
    BY <2>1 DEF Continue, TypeOK, ChildType
  <2>3. CASE p = "stdout"
    BY <1>2, <2>1, <2>2, <2>3 DEF Continue, ChildInv
  <2>4. CASE p = "stdin"
    BY <1>2, <2>1, <2>2, <2>4 DEF Continue, ChildInv
  <2>5. CASE p = "supervisor"
    BY <1>1, <2>1, <2>2, <2>5 DEF Continue, ChildInv
  <2>6. QED
    BY <1>2, <2>3, <2>4, <2>5
<1>6. QED
  BY <1>2, <1>3, <1>4, <1>5 DEF AppendStep

\* Every step preserves ChildInv, and none appends after Exit.
LEMMA ChildStep ==
  TypeOK /\ ChildInv /\ [Next]_vars => ChildInv' /\ (supervisor = "finished" => produced' = produced)
<1> SUFFICES ASSUME TypeOK, ChildInv, [Next]_vars
             PROVE  ChildInv' /\ (supervisor = "finished" => produced' = produced)
  OBVIOUS
<1>1. ASSUME UNCHANGED <<supervisor, reader, writer, pending, produced>>
      PROVE  ChildInv' /\ (supervisor = "finished" => produced' = produced)
  BY <1>1 DEF ChildInv
<1>2. ASSUME NEW c \in Connections, ConnectionStep(c)
      PROVE  UNCHANGED <<supervisor, reader, writer, pending, produced>>
  BY <1>2 DEF ConnectionStep, Attach, Start, CommitWaits, CommitRefused, CommitAccepted,
     LaneFails, ConnectionEnds, DetachLane, journalVars, childVars
<1>3. ASSUME NEW l \in Leases, DeliveryStep(l)
      PROVE  UNCHANGED <<supervisor, reader, writer, pending, produced>>
  BY <1>3 DEF DeliveryStep, DeliverEntry, DeliverFence, DeliverWaits, PumpWrites, DeliverDone,
     DeliverFails, Aborted, journalVars, childVars
<1>4. ASSUME ReadEof \/ WriteStdin \/ ChildExits \/ Close \/ UNCHANGED vars
      PROVE  /\ UNCHANGED <<supervisor, writer, pending, produced>>
             /\ reader' = reader \/ (reader' = "stopped" /\ pending["stdout"] = NoEntry)
  BY <1>4 DEF ReadEof, WriteStdin, ChildExits, Close, Idle, vars, childVars, journalVars
<1>5. ASSUME NEW p \in Producers, NEW kind, NEW size, Appends(p, kind, size)
      PROVE  \A q \in Producers \ {p} : pending'[q] = pending[q]
  BY <1>5 DEF Appends, TypeOK, ChildType
<1>6. ASSUME ReadFails \/ (\E size \in FrameSizes : ReadLine(size))
      PROVE  ChildInv' /\ produced' = produced
  <2>1. /\ \A q \in Producers \ {"stdout"} : pending'[q] = pending[q]
        /\ reader = "running" /\ UNCHANGED <<supervisor, reader, writer, produced>>
    BY <1>5, <1>6 DEF ReadFails, ReadLine, journalVars
  <2>2. QED
    BY <2>1 DEF ChildInv
<1>7. ASSUME WriteStdinFails PROVE ChildInv' /\ produced' = produced
  <2>1. /\ \A q \in Producers \ {"stdin"} : pending'[q] = pending[q]
        /\ writer = "running" /\ UNCHANGED <<supervisor, reader, writer, produced>>
    BY <1>5, <1>7 DEF WriteStdinFails, journalVars
  <2>2. QED
    BY <2>1 DEF ChildInv
<1>8. ASSUME Drained PROVE ChildInv' /\ produced' = produced
  <2>1. /\ \A q \in Producers \ {"supervisor"} : pending'[q] = pending[q]
        /\ supervisor = "draining" /\ supervisor' = "exiting" /\ reader = "stopped"
        /\ UNCHANGED <<reader, writer, produced>>
    BY <1>5, <1>8 DEF Drained, journalVars
  <2>2. QED
    BY <2>1 DEF ChildInv
<1>9. ASSUME KillNotified \/ Reap PROVE ChildInv' /\ produced' = produced
  <2>1. /\ \A q \in Producers \ {"stdin"} : pending'[q] = pending[q]
        /\ pending'["stdin"] = NoEntry /\ writer' = "stopped" /\ supervisor # "exiting"
        /\ supervisor' \in {"killing", "draining"} /\ UNCHANGED <<reader, produced>>
    BY <1>9 DEF KillNotified, Reap, AbortStdin, IsRunning, journalVars, TypeOK, ChildType
  <2>2. QED
    BY <2>1 DEF ChildInv
<1>10. ASSUME ReadEof PROVE ChildInv' /\ produced' = produced
  BY <1>4, <1>10 DEF ChildInv
<1>11. ASSUME WriteStdin \/ ChildExits \/ Close \/ UNCHANGED vars
       PROVE  ChildInv' /\ produced' = produced
  BY <1>4, <1>11 DEF ChildInv
<1>12. QED
  BY <1>1, <1>2, <1>3, <1>6, <1>7, <1>8, <1>9, <1>10, <1>11, AppendChild
  DEF Next, ReadStep, WriteStep, SuperviseStep

\* Exit is the last entry of every session.
THEOREM ExitCorrect == Spec => ExitIsLast
<1>1. Init => ChildInv
  BY DEF Init, ChildInv
<1>2. TypeOK /\ ChildInv /\ [Next]_vars => [supervisor = "finished" => produced' = produced]_vars
  BY ChildStep
<1>3. TypeOK /\ ChildInv /\ [Next]_vars => ChildInv'
  BY ChildStep
<1>4. QED
  BY <1>1, <1>2, <1>3, TypeCorrect, PTL DEF Spec, ExitIsLast

-----------------------------------------------------------------------------
(* No lost wakeup.                                                         *)

\* Only a task that looks, and a request that was received, can wait.
WaitersInv ==
  /\ \A l \in asleep.deliveries : deliveries[l].pc = "ready"
  /\ \A c \in asleep.commits : conn[c] = "committing"

\* The invariant behind NoLostWakeup.
WakeInv == NoLostWakeup /\ WaitersInv

\* notify_waiters leaves nobody waiting.
LEMMA WokenUp ==
  ASSUME asleep' = Nobody
  PROVE  WakeInv'
  BY DEF WakeInv, NoLostWakeup, WaitersInv, Nobody

\* Nothing a waiting delivery or commit waits for has moved.
LEMMA StillWaits ==
  ASSUME WakeInv, UNCHANGED <<nodeVars, acknowledged, produced, conn, request>>,
         DOMAIN journal' = DOMAIN journal,
         asleep'.deliveries \subseteq asleep.deliveries, asleep'.commits = asleep.commits,
         \A l \in asleep'.deliveries : deliveries'[l].pc = "ready",
         \A p \in asleep'.producers :
           node # "Closed" /\ pending'[p] # NoEntry /\ ~(bytes' + pending'[p].size <= Capacity)
  PROVE  WakeInv'
<1>1. UNCHANGED <<node, sub, replay>> /\ (Subscribed' <=> Subscribed) /\ (FenceDue' <=> FenceDue)
  BY DEF nodeVars, Subscribed, FenceDue
<1>2. EntryDue' <=> EntryDue
  BY <1>1 DEF EntryDue, Limit
<1>3. \A l : Current(l)' <=> Current(l)
  BY <1>1 DEF Current
<1>4. \A c \in asleep.commits :
        /\ Owns(c, request[c])' <=> Owns(c, request[c])
        /\ AnsweredEarly(c, request[c])' <=> AnsweredEarly(c, request[c])
  BY <1>1 DEF Owns, AnsweredEarly
<1>5. \A p \in asleep'.producers : node' # "Closed" /\ pending'[p] # NoEntry /\ ~Fits(pending[p])'
  BY <1>1 DEF Fits
<1>6. NoLostWakeup'
  BY <1>1, <1>2, <1>3, <1>4, <1>5 DEF WakeInv, NoLostWakeup
<1>7. QED
  BY <1>6 DEF WakeInv, WaitersInv

\* The producers wait as before.
LEMMA SameProducers ==
  ASSUME WakeInv
  PROVE  \A p \in asleep.producers :
           node # "Closed" /\ pending[p] # NoEntry /\ ~(bytes + pending[p].size <= Capacity)
  BY DEF WakeInv, NoLostWakeup, Fits

\* Nobody waits under a lease that was just handed out.
LEMMA AttachWake ==
  ASSUME NEW c \in Connections, TypeOK, Inv, WakeInv, Attach(c)
  PROVE  WakeInv'
<1>0. Typed
  BY TypeFacts
<1>1. /\ node' # "Closed" /\ sub'.connection = c /\ sub'.lease = leases + 1
      /\ UNCHANGED <<asleep, pending, bytes, journal, deliveries, request, acknowledged>>
      /\ conn[c] = "idle" /\ \A d \in Connections : d # c => conn'[d] = conn[d]
  BY DEF Attach, journalVars, ackVars, TypeOK, ConnectionType
<1>2. ASSUME NEW l \in asleep.deliveries PROVE ~Current(l)' /\ deliveries'[l].pc = "ready"
  <2>1. l \in Leases /\ deliveries[l].pc = "ready"
    BY <1>2 DEF WakeInv, WaitersInv, TypeOK, TaskType
  <2>2. l <= leases
    BY <2>1 DEF Inv, LeaseInv
  <2>3. l # leases + 1
    BY <1>0, <2>1, <2>2 DEF Typed
  <2>4. QED
    BY <1>1, <2>1, <2>3 DEF Current
<1>3. ASSUME NEW d \in asleep.commits PROVE ~Owns(d, request[d])' /\ conn'[d] = "committing"
  <2>1. d \in Connections /\ conn[d] = "committing"
    BY DEF WakeInv, WaitersInv, TypeOK, TaskType
  <2>2. QED
    BY <1>1, <2>1 DEF Owns
<1>4. \A p \in asleep.producers : pending'[p] # NoEntry /\ ~Fits(pending[p])'
  BY <1>1, SameProducers DEF Fits
<1>5. QED
  BY <1>1, <1>2, <1>3, <1>4 DEF WakeInv, NoLostWakeup, WaitersInv

\* A commit waits only when it was answered too early.
LEMMA CommitWaitsWake ==
  ASSUME NEW c \in Connections, TypeOK, Inv, WakeInv, CommitWaits(c)
  PROVE  WakeInv'
<1>1. PICK r \in Asked(c) :
        /\ AnsweredEarly(c, r)
        /\ conn' = [conn EXCEPT ![c] = "committing"]
        /\ request' = [request EXCEPT ![c] = r]
        /\ asleep' = [asleep EXCEPT !.commits = @ \cup {c}]
  BY DEF CommitWaits
<1>2. UNCHANGED <<node, sub, replay, journal, bytes, produced, acknowledged, deliveries, pending>>
  BY DEF CommitWaits, nodeVars, journalVars, ackVars
<1>3. /\ asleep'.producers = asleep.producers /\ asleep'.deliveries = asleep.deliveries
      /\ asleep'.commits = asleep.commits \cup {c} /\ asleep'.commits \subseteq Connections
  BY <1>1 DEF TypeOK, TaskType
<1>4. /\ \A d \in Connections \ {c} : conn'[d] = conn[d] /\ request'[d] = request[d]
      /\ conn'[c] = "committing" /\ request'[c] = r
  BY <1>1 DEF TypeOK, ConnectionType
<1>5. (Subscribed' <=> Subscribed) /\ (FenceDue' <=> FenceDue) /\ (EntryDue' <=> EntryDue)
  BY <1>2 DEF Subscribed, FenceDue, EntryDue, Limit
<1>6. \A l : Current(l)' <=> Current(l)
  BY <1>2, <1>5 DEF Current
<1>7. ASSUME NEW d \in asleep'.commits
      PROVE  (Owns(d, request[d])' => AnsweredEarly(d, request[d])') /\ conn'[d] = "committing"
  <2>1. CASE d = c
    <3>1. AnsweredEarly(d, request[d])'
      BY <1>1, <1>2, <1>4, <1>5, <2>1 DEF AnsweredEarly, Owns
    <3>2. QED
      BY <1>4, <2>1, <3>1
  <2>2. CASE d # c
    <3>1. d \in asleep.commits /\ d \in Connections
      BY <1>3, <2>2
    <3>2. request'[d] = request[d] /\ conn'[d] = "committing"
      BY <1>4, <2>2, <3>1 DEF WakeInv, WaitersInv
    <3>3. Owns(d, request[d])' => Owns(d, request[d])
      BY <1>2, <1>5, <3>2 DEF Owns
    <3>4. AnsweredEarly(d, request[d]) => AnsweredEarly(d, request[d])'
      BY <1>2, <1>5, <3>2 DEF AnsweredEarly, Owns
    <3>5. QED
      BY <3>1, <3>2, <3>3, <3>4 DEF WakeInv, NoLostWakeup
  <2>3. QED
    BY <2>1, <2>2
<1>8. \A p \in asleep'.producers : node' # "Closed" /\ pending'[p] # NoEntry /\ ~Fits(pending[p])'
  BY <1>2, <1>3, SameProducers DEF Fits
<1>9. \A l \in asleep'.deliveries : (Current(l)' => ~EntryDue' /\ ~FenceDue') /\ deliveries'[l].pc = "ready"
  BY <1>2, <1>3, <1>5, <1>6 DEF WakeInv, NoLostWakeup, WaitersInv
<1>10. QED
  BY <1>7, <1>8, <1>9 DEF WakeInv, NoLostWakeup, WaitersInv

\* Connections that stop waiting, begin or end: the sleepers are untouched.
LEMMA ConnectionMovesWake ==
  ASSUME NEW c \in Connections, TypeOK, WakeInv, conn[c] # "committing" \/ c \notin asleep.commits,
         UNCHANGED <<nodeVars, journalVars, acknowledged, pending, asleep>>,
         \A l \in Leases : deliveries[l].pc = "ready" => deliveries'[l].pc = "ready",
         \A d \in Connections \ {c} : conn'[d] = conn[d] /\ request'[d] = request[d]
  PROVE  WakeInv'
<1>1. UNCHANGED <<node, sub, replay, journal, bytes, produced>>
  BY DEF nodeVars, journalVars
<1>2. (Subscribed' <=> Subscribed) /\ (FenceDue' <=> FenceDue) /\ (EntryDue' <=> EntryDue)
  BY <1>1 DEF Subscribed, FenceDue, EntryDue, Limit
<1>3. \A l : Current(l)' <=> Current(l)
  BY <1>1, <1>2 DEF Current
<1>4. ASSUME NEW d \in asleep.commits
      PROVE  (Owns(d, request[d])' => AnsweredEarly(d, request[d])') /\ conn'[d] = "committing"
  <2>1. d \in Connections /\ d # c
    BY DEF WakeInv, WaitersInv, TypeOK, TaskType
  <2>2. request'[d] = request[d] /\ conn'[d] = "committing"
    BY <2>1 DEF WakeInv, WaitersInv
  <2>3. (Owns(d, request[d])' <=> Owns(d, request[d]))
    BY <1>1, <1>2, <2>2 DEF Owns
  <2>4. (AnsweredEarly(d, request[d])' <=> AnsweredEarly(d, request[d]))
    BY <1>1, <1>2, <2>2 DEF AnsweredEarly, Owns
  <2>5. QED
    BY <2>2, <2>3, <2>4 DEF WakeInv, NoLostWakeup
<1>5. \A p \in asleep.producers : node' # "Closed" /\ pending'[p] # NoEntry /\ ~Fits(pending[p])'
  BY <1>1, SameProducers DEF Fits
<1>6. asleep.deliveries \subseteq Leases
  BY DEF TypeOK, TaskType
<1>7. \A l \in asleep.deliveries : (Current(l)' => ~EntryDue' /\ ~FenceDue') /\ deliveries'[l].pc = "ready"
  BY <1>2, <1>3, <1>6 DEF WakeInv, NoLostWakeup, WaitersInv
<1>8. QED
  BY <1>4, <1>5, <1>7 DEF WakeInv, NoLostWakeup, WaitersInv

\* The steps of a connection lose no wakeup.
LEMMA ConnectionWake ==
  ASSUME NEW c \in Connections, TypeOK, Inv, WakeInv, ConnectionStep(c)
  PROVE  WakeInv'
<1>1. CASE Attach(c)
  BY <1>1, AttachWake
<1>2. CASE CommitWaits(c)
  BY <1>2, CommitWaitsWake
<1>3. CASE CommitAccepted(c)
  BY <1>3, WokenUp DEF CommitAccepted, NotifyWaiters
<1>4. CASE DetachLane(c)
  <2>1. CASE HoldsLane(c)
    BY <1>4, <2>1, WokenUp DEF DetachLane, NotifyWaiters
  <2>2. CASE ~HoldsLane(c)
    <3>1. /\ UNCHANGED <<nodeVars, journalVars, acknowledged, pending, asleep, deliveries>>
          /\ conn[c] # "committing"
          /\ \A d \in Connections \ {c} : conn'[d] = conn[d] /\ request'[d] = request[d]
      BY <1>4, <2>2 DEF DetachLane, ackVars, TypeOK, ConnectionType
    <3>2. QED
      BY <3>1, ConnectionMovesWake
  <2>3. QED
    BY <2>1, <2>2
<1>5. CASE LaneFails(c) \/ ConnectionEnds(c)
  <2>1. /\ UNCHANGED <<nodeVars, journalVars, acknowledged, pending, asleep, deliveries, request>>
        /\ \A d \in Connections \ {c} : conn'[d] = conn[d]
        /\ conn' = conn \/ conn[c] # "committing"
    BY <1>5 DEF LaneFails, ConnectionEnds, ackVars, TypeOK, ConnectionType
  <2>2. CASE conn' = conn
    BY <2>1, <2>2, StillWaits, SameProducers DEF journalVars, WakeInv, WaitersInv
  <2>3. CASE conn[c] # "committing"
    BY <2>1, <2>3, ConnectionMovesWake
  <2>4. QED
    BY <2>1, <2>2, <2>3
<1>6. CASE Start(c)
  <2>1. /\ UNCHANGED <<nodeVars, journalVars, acknowledged, pending, asleep, request>>
        /\ conn[c] # "committing"
        /\ \A d \in Connections \ {c} : conn'[d] = conn[d]
    BY <1>6 DEF Start, ackVars, TypeOK, ConnectionType
  <2>2. ASSUME NEW l \in Leases, deliveries[l].pc = "ready" PROVE deliveries'[l].pc = "ready"
    <3>1. \/ deliveries' = deliveries
          \/ /\ deliveries[sub.lease].pc = "none"
             /\ deliveries' = [deliveries EXCEPT ![sub.lease] =
                                 [pc |-> "ready", connection |-> c, item |-> Fence]]
      BY <1>6 DEF Start
    <3>2. QED
      BY <2>2, <3>1 DEF TypeOK, TaskType
  <2>3. QED
    BY <2>1, <2>2, ConnectionMovesWake
<1>7. CASE CommitRefused(c)
  <2>1. /\ UNCHANGED <<nodeVars, journalVars, acknowledged, pending, asleep, deliveries>>
        /\ conn[c] = "committing"
        /\ \A d \in Connections \ {c} : conn'[d] = conn[d] /\ request'[d] = request[d]
    BY <1>7 DEF CommitRefused, Answered, ackVars, TypeOK, ConnectionType
  <2>2. c \notin asleep.commits
    BY <1>7 DEF CommitRefused, Asked
  <2>3. QED
    BY <2>1, <2>2, ConnectionMovesWake
<1>8. QED
  BY <1>1, <1>2, <1>3, <1>4, <1>5, <1>6, <1>7 DEF ConnectionStep

\* While the delivery task has something to offer, no commit of its lease waits.
LEMMA NoneEarly ==
  ASSUME TypeOK, Inv, WakeInv, NEW l \in Leases, Current(l), deliveries[l].pc = "ready",
         EntryDue \/ FenceDue
  PROVE  \A d \in asleep.commits : ~Owns(d, request[d])
<1>0. Typed
  BY TypeFacts
<1>1. SUFFICES ASSUME NEW d \in asleep.commits, Owns(d, request[d]) PROVE FALSE
  OBVIOUS
<1>2. AnsweredEarly(d, request[d])
  BY <1>1 DEF WakeInv, NoLostWakeup
<1>3. request[d].through \in Nat
  BY DEF TypeOK, TaskType, ConnectionType
<1>4. Subscribed /\ sub.lease = l
  BY <1>0 DEF Current, Typed
<1>5. sub.inFlight = 0
  BY <1>4 DEF Inv, PositionInv
<1>6. node = "Replaying" /\ replay.offered
  BY <1>0, <1>2, <1>3, <1>5 DEF AnsweredEarly, Typed
<1>7. sub.delivered = replay.fence
  BY <1>6 DEF Inv, FenceInv
<1>8. QED
  BY <1>0, <1>6, <1>7 DEF EntryDue, FenceDue, Limit, Typed

\* The task of the current lease offers an entry or the fence.
LEMMA OfferWake ==
  ASSUME NEW l \in Leases, TypeOK, Inv, WakeInv, DeliverEntry(l) \/ DeliverFence(l)
  PROVE  WakeInv'
<1>0. Typed
  BY TypeFacts
<1>1. /\ Current(l) /\ deliveries[l].pc = "ready" /\ l \notin asleep.deliveries
      /\ EntryDue \/ FenceDue
      /\ UNCHANGED <<node, bytes, asleep, pending, conn, request>>
      /\ sub'.lease = sub.lease /\ sub'.connection = sub.connection
  BY DEF DeliverEntry, DeliverFence, Looking, journalVars, connVars, TypeOK, NodeType
<1>2. \A k \in Leases \ {l} : deliveries'[k] = deliveries[k]
  BY DEF DeliverEntry, DeliverFence, Offer, TypeOK, TaskType
<1>3. Subscribed' <=> Subscribed
  BY <1>1 DEF Subscribed
<1>4. \A d \in asleep.commits : ~Owns(d, request[d])' /\ conn'[d] = "committing"
  <2>1. \A d \in asleep.commits : ~Owns(d, request[d])
    BY <1>1, NoneEarly
  <2>2. QED
    BY <1>1, <1>3, <2>1 DEF Owns, WakeInv, WaitersInv
<1>5. \A k \in asleep.deliveries : ~Current(k)' /\ deliveries'[k].pc = "ready"
  <2>1. asleep.deliveries \subseteq Leases \ {l}
    BY <1>1 DEF TypeOK, TaskType
  <2>2. sub.lease = l
    BY <1>1 DEF Current
  <2>3. QED
    BY <1>1, <1>2, <2>1, <2>2 DEF Current, WakeInv, WaitersInv
<1>6. \A p \in asleep.producers : node' # "Closed" /\ pending'[p] # NoEntry /\ ~Fits(pending[p])'
  BY <1>1, SameProducers DEF Fits
<1>7. QED
  BY <1>1, <1>4, <1>5, <1>6 DEF WakeInv, NoLostWakeup, WaitersInv

\* A delivery waits only with nothing due.
LEMMA DeliverWaitsWake ==
  ASSUME NEW l \in Leases, TypeOK, Inv, WakeInv, DeliverWaits(l)
  PROVE  WakeInv'
<1>1. /\ deliveries[l].pc = "ready" /\ ~EntryDue /\ ~FenceDue
      /\ UNCHANGED <<node, sub, replay, journal, bytes, produced, acknowledged, deliveries,
                     conn, request, pending>>
  BY DEF DeliverWaits, Looking, nodeVars, journalVars, ackVars, connVars
<1>2. /\ asleep'.deliveries = asleep.deliveries \cup {l}
      /\ asleep'.commits = asleep.commits /\ asleep'.producers = asleep.producers
  BY DEF DeliverWaits, TypeOK, TaskType
<1>3. (Subscribed' <=> Subscribed) /\ (FenceDue' <=> FenceDue) /\ (EntryDue' <=> EntryDue)
  BY <1>1 DEF Subscribed, FenceDue, EntryDue, Limit
<1>4. \A k : Current(k)' <=> Current(k)
  BY <1>1, <1>3 DEF Current
<1>5. \A c \in asleep.commits :
        /\ Owns(c, request[c])' <=> Owns(c, request[c])
        /\ AnsweredEarly(c, request[c])' <=> AnsweredEarly(c, request[c])
  BY <1>1, <1>3 DEF Owns, AnsweredEarly
<1>6. \A p \in asleep.producers : node' # "Closed" /\ pending'[p] # NoEntry /\ ~Fits(pending[p])'
  BY <1>1, SameProducers DEF Fits
<1>7. \A k \in asleep'.deliveries : (Current(k)' => ~EntryDue' /\ ~FenceDue') /\ deliveries'[k].pc = "ready"
  BY <1>1, <1>2, <1>3, <1>4 DEF WakeInv, NoLostWakeup, WaitersInv
<1>8. QED
  BY <1>1, <1>2, <1>5, <1>6, <1>7 DEF WakeInv, NoLostWakeup, WaitersInv

\* A task that waits for nothing moves on or ends, and the node stays.
LEMMA TaskMovesWake ==
  ASSUME NEW l \in Leases, TypeOK, WakeInv, deliveries[l].pc # "ready" \/ l \notin asleep'.deliveries,
         UNCHANGED <<nodeVars, journalVars, acknowledged, conn, request, pending>>,
         asleep'.deliveries \subseteq asleep.deliveries, asleep'.commits = asleep.commits,
         asleep'.producers = asleep.producers,
         \A k \in Leases \ {l} : deliveries'[k] = deliveries[k]
  PROVE  WakeInv'
<1>1. \A k \in asleep'.deliveries : deliveries'[k].pc = "ready"
  BY DEF WakeInv, WaitersInv, TypeOK, TaskType
<1>2. QED
  BY <1>1, StillWaits, SameProducers DEF journalVars

\* The steps of a delivery task lose no wakeup.
LEMMA DeliveryWake ==
  ASSUME NEW l \in Leases, TypeOK, Inv, WakeInv, DeliveryStep(l)
  PROVE  WakeInv'
<1>1. CASE DeliverEntry(l) \/ DeliverFence(l)
  BY <1>1, OfferWake
<1>2. CASE DeliverWaits(l)
  BY <1>2, DeliverWaitsWake
<1>3. CASE PumpWrites(l)
  <2>1. /\ UNCHANGED <<nodeVars, journalVars, acknowledged, conn, request, pending, asleep>>
        /\ deliveries[l].pc # "ready"
        /\ \A k \in Leases \ {l} : deliveries'[k] = deliveries[k]
    BY <1>3 DEF PumpWrites, ackVars, TypeOK, TaskType
  <2>2. QED
    BY <2>1, TaskMovesWake
<1>4. CASE (DeliverDone(l) \/ DeliverFails(l)) /\ Current(l)
  BY <1>4, WokenUp DEF DeliverDone, DeliverFails, NotifyWaiters
<1>5. CASE (DeliverDone(l) \/ DeliverFails(l)) /\ ~Current(l)
  <2>1. /\ UNCHANGED <<nodeVars, journalVars, acknowledged, conn, request, pending, asleep>>
        /\ deliveries[l].pc # "ready"
        /\ \A k \in Leases \ {l} : deliveries'[k] = deliveries[k]
    BY <1>5 DEF DeliverDone, DeliverFails, ackVars, connVars, nodeVars, TypeOK, TaskType
  <2>2. QED
    BY <2>1, TaskMovesWake
<1>6. CASE Aborted(l)
  <2>1. /\ UNCHANGED <<nodeVars, journalVars, acknowledged, conn, request, pending>>
        /\ asleep'.deliveries = asleep.deliveries \ {l} /\ asleep'.commits = asleep.commits
        /\ asleep'.producers = asleep.producers
        /\ \A k \in Leases \ {l} : deliveries'[k] = deliveries[k]
    BY <1>6 DEF Aborted, ackVars, connVars, TypeOK, TaskType
  <2>2. QED
    BY <2>1, TaskMovesWake
<1>7. QED
  BY <1>1, <1>2, <1>3, <1>4, <1>5, <1>6 DEF DeliveryStep

\* A producer that was not waiting changes its own event, or stops waiting.
LEMMA ProducerWake ==
  ASSUME NEW p \in Producers, TypeOK, WakeInv,
         UNCHANGED <<nodeVars, journalVars, acknowledged, conn, request, deliveries>>,
         asleep'.deliveries = asleep.deliveries, asleep'.commits = asleep.commits,
         asleep'.producers \subseteq asleep.producers, p \notin asleep'.producers,
         \A q \in Producers \ {p} : pending'[q] = pending[q]
  PROVE  WakeInv'
<1>1. \A q \in asleep'.producers : q \in Producers /\ q # p /\ q \in asleep.producers
  BY DEF TypeOK, TaskType
<1>2. \A k \in asleep'.deliveries : deliveries'[k].pc = "ready"
  BY DEF WakeInv, WaitersInv
<1>3. QED
  BY <1>1, <1>2, StillWaits, SameProducers DEF journalVars

\* A producer waits only without room; releases and Close wake it.
LEMMA AppendWake ==
  ASSUME NEW p \in Producers, TypeOK, Inv, WakeInv, AppendStep(p)
  PROVE  WakeInv'
<1>1. CASE AppendAccepted(p)
  BY <1>1, WokenUp DEF AppendAccepted, NotifyWaiters
<1>2. CASE AppendWaits(p)
  <2>1. /\ UNCHANGED <<nodeVars, journalVars, acknowledged, conn, request, pending, deliveries>>
        /\ asleep'.deliveries = asleep.deliveries /\ asleep'.commits = asleep.commits
        /\ asleep'.producers = asleep.producers \cup {p}
        /\ node # "Closed" /\ pending[p] # NoEntry /\ ~(bytes + pending[p].size <= Capacity)
    BY <1>2 DEF AppendWaits, Appending, Fits, ackVars, connVars, TypeOK, TaskType
  <2>2. \A q \in asleep'.producers :
          node # "Closed" /\ pending'[q] # NoEntry /\ ~(bytes' + pending'[q].size <= Capacity)
    BY <2>1, SameProducers DEF journalVars
  <2>3. \A k \in asleep'.deliveries : deliveries'[k].pc = "ready"
    BY <2>1 DEF WakeInv, WaitersInv
  <2>4. QED
    BY <2>1, <2>2, <2>3, StillWaits DEF journalVars
<1>3. CASE FrameTooLarge(p)
  <2>1. /\ UNCHANGED <<nodeVars, journalVars, acknowledged, conn, request, deliveries, asleep>>
        /\ p \notin asleep.producers /\ \A q \in Producers \ {p} : pending'[q] = pending[q]
    BY <1>3 DEF FrameTooLarge, Appending, ackVars, connVars, TypeOK, ChildType
  <2>2. QED
    BY <2>1, ProducerWake
<1>4. CASE AppendRefused(p)
  <2>1. /\ UNCHANGED <<nodeVars, journalVars, acknowledged, conn, request, deliveries, asleep>>
        /\ p \notin asleep.producers
    BY <1>4 DEF AppendRefused, Appending, ackVars, connVars
  <2>2. \A q \in Producers \ {p} : pending'[q] = pending[q]
    BY <1>4 DEF AppendRefused, Continue, TypeOK, ChildType
  <2>3. QED
    BY <2>1, <2>2, ProducerWake
<1>5. QED
  BY <1>1, <1>2, <1>3, <1>4 DEF AppendStep

\* The pipes and the supervisor lose no wakeup.
LEMMA ChildWake ==
  ASSUME TypeOK, Inv, ChildInv, WakeInv, ReadStep \/ WriteStep \/ SuperviseStep
  PROVE  WakeInv'
<1>1. ASSUME NEW p \in Producers, NEW kind, NEW size, Appends(p, kind, size), Idle(p),
             UNCHANGED <<nodeVars, journalVars, acknowledged, conn, request, deliveries, asleep>>
      PROVE  WakeInv'
  <2>1. \A q \in Producers \ {p} : pending'[q] = pending[q]
    BY <1>1 DEF Appends, TypeOK, ChildType
  <2>2. p \notin asleep.producers
    BY <1>1, SameProducers DEF Idle
  <2>3. QED
    BY <1>1, <2>1, <2>2, ProducerWake
<1>2. ASSUME UNCHANGED <<nodeVars, journalVars, acknowledged, conn, request, deliveries, asleep, pending>>
      PROVE  WakeInv'
  BY <1>2, StillWaits, SameProducers DEF WakeInv, WaitersInv, journalVars
<1>3. CASE ReadStep
  <2>1. ASSUME NEW size \in FrameSizes, ReadLine(size) PROVE WakeInv'
    BY <1>1, <2>1 DEF ReadLine, ackVars, connVars
  <2>2. CASE ReadFails
    BY <1>1, <2>2 DEF ReadFails, ackVars, connVars
  <2>3. CASE ReadEof
    BY <1>2, <2>3 DEF ReadEof, ackVars, connVars
  <2>4. QED
    BY <1>3, <2>1, <2>2, <2>3 DEF ReadStep
<1>4. CASE WriteStep
  <2>1. CASE WriteStdin
    BY <1>2, <2>1 DEF WriteStdin, ackVars, connVars
  <2>2. CASE WriteStdinFails
    BY <1>1, <2>2 DEF WriteStdinFails, ackVars, connVars
  <2>3. QED
    BY <1>4, <2>1, <2>2 DEF WriteStep
<1>5. CASE SuperviseStep
  <2>1. CASE ChildExits
    BY <1>2, <2>1 DEF ChildExits, ackVars, connVars
  <2>2. CASE KillNotified \/ Reap
    <3>1. /\ UNCHANGED <<nodeVars, journalVars, acknowledged, conn, request, deliveries>>
          /\ asleep'.deliveries = asleep.deliveries /\ asleep'.commits = asleep.commits
          /\ asleep'.producers = asleep.producers \ {"stdin"}
          /\ \A q \in Producers \ {"stdin"} : pending'[q] = pending[q]
      BY <2>2 DEF KillNotified, Reap, AbortStdin, ackVars, connVars, TypeOK, TaskType, ChildType
    <3>2. QED
      BY <3>1, ProducerWake
  <2>3. CASE Drained
    <3>1. Idle("supervisor")
      BY <2>3 DEF Drained, ChildInv, Idle
    <3>2. QED
      BY <1>1, <2>3, <3>1 DEF Drained, ackVars, connVars
  <2>4. QED
    BY <1>5, <2>1, <2>2, <2>3 DEF SuperviseStep
<1>6. QED
  BY <1>3, <1>4, <1>5

\* Every step preserves WakeInv.
LEMMA WakeStep == TypeOK /\ Inv /\ ChildInv /\ WakeInv /\ [Next]_vars => WakeInv'
<1> SUFFICES ASSUME TypeOK, Inv, ChildInv, WakeInv, [Next]_vars PROVE WakeInv'
  OBVIOUS
<1>1. CASE Close
  BY <1>1, WokenUp DEF Close, NotifyWaiters
<1>2. CASE UNCHANGED vars
  BY <1>2, StillWaits, SameProducers
  DEF WakeInv, WaitersInv, vars, journalVars, ackVars, connVars
<1>3. QED
  BY <1>1, <1>2, ConnectionWake, DeliveryWake, AppendWake, ChildWake DEF Next

\* No task and no commit waits for a notification that was already given.
THEOREM WakeupsCorrect == Spec => []NoLostWakeup
<1>1. Init => WakeInv
  BY DEF Init, WakeInv, NoLostWakeup, WaitersInv, Nobody
<1>2. WakeInv => NoLostWakeup
  BY DEF WakeInv
<1>3. Init => ChildInv
  BY DEF Init, ChildInv
<1>4. QED
  BY <1>1, <1>2, <1>3, WakeStep, ChildStep, Invariant, PTL DEF Spec

-----------------------------------------------------------------------------
(* The byte count.  A sum over a set is a recursive function, so what it   *)
(* gives is shown by induction on the number of elements, which is said of *)
(* sets of naturals (Counts) and not of predicates.                        *)

\* The element MapThenSumSet takes next.
Chosen(S) == CHOOSE x \in S : TRUE

\* The bytes of the entries of journal j at the positions S.
Sized(j, S) == MapThenSumSet(LAMBDA s : j[s].size, S)

\* g adds them up for every subset of S.
Adds(j, S, g) ==
  g = [T \in SUBSET S |->
         IF T = {} THEN 0 ELSE j[Chosen(T)].size + g[T \ {Chosen(T)}]]

\* A finite journal of entries with sizes.
Sizes(j, S) == IsFiniteSet(S) /\ \A s \in S : j[s].size \in Nat

\* Induction, said of a set: the naturals are well-founded.
LEMMA Counts ==
  ASSUME NEW T \in SUBSET Nat, 0 \in T, \A n \in T : n + 1 \in T
  PROVE  T = Nat
<1> DEFINE L == OpToRel(<, Nat)
<1>1. SUFFICES ASSUME Nat \ T # {} PROVE FALSE
  OBVIOUS
<1>2. \E m \in Nat \ T : \A k \in Nat \ T : <<k, m>> \notin L
  <2>1. IsWellFoundedOn(L, Nat)
    BY NatLessThanWellFounded
  <2>2. Nat \ T \subseteq Nat
    OBVIOUS
  <2> HIDE DEF L
  <2> QED
    BY <1>1, <2>1, <2>2, WFMin
<1>3. PICK m \in Nat \ T : \A k \in Nat \ T : ~ (k < m)
  BY <1>2 DEF OpToRel
<1>4. m # 0
  OBVIOUS
<1>5. m - 1 \in Nat \ T /\ m - 1 < m
  BY <1>4
<1> QED
  BY <1>3, <1>5

\* What is left of a set without its chosen element.
LEMMA Rest ==
  ASSUME NEW S, IsFiniteSet(S), NEW T \in SUBSET S, T # {}
  PROVE  /\ Chosen(T) \in T
         /\ T \ {Chosen(T)} \in SUBSET S
         /\ Cardinality(T) \in Nat
         /\ Cardinality(T \ {Chosen(T)}) = Cardinality(T) - 1
<1>1. Chosen(T) \in T
  BY DEF Chosen
<1>2. IsFiniteSet(T)
  BY FS_Subset
<1> QED
  BY <1>1, <1>2, FS_RemoveElement, FS_CardinalityType

\* There is one way to add up a finite set.
LEMMA AddsUnique ==
  ASSUME NEW j, NEW S, IsFiniteSet(S), NEW g, Adds(j, S, g), NEW h, Adds(j, S, h)
  PROVE  g = h
<1> DEFINE N == {n \in Nat : \A T \in SUBSET S : Cardinality(T) = n => g[T] = h[T]}
<1>1. 0 \in N
  <2>1. ASSUME NEW T \in SUBSET S, Cardinality(T) = 0 PROVE g[T] = h[T]
    <3>1. T = {}
      BY <2>1, FS_Subset, FS_EmptySet
    <3> QED
      BY <3>1 DEF Adds
  <2> QED
    BY <2>1
<1>2. ASSUME NEW n \in N PROVE n + 1 \in N
  <2>1. ASSUME NEW T \in SUBSET S, Cardinality(T) = n + 1 PROVE g[T] = h[T]
    <3>1. T # {}
      BY <2>1, FS_EmptySet
    <3>2. T \ {Chosen(T)} \in SUBSET S /\ Cardinality(T \ {Chosen(T)}) = n
      BY <2>1, <3>1, Rest
    <3>3. g[T \ {Chosen(T)}] = h[T \ {Chosen(T)}]
      BY <3>2
    <3> QED
      BY <3>1, <3>3 DEF Adds
  <2> QED
    BY <2>1
<1>3. N = Nat
  <2> HIDE DEF N
  <2>1. N \in SUBSET Nat
    BY DEF N
  <2> QED
    BY <1>1, <1>2, <2>1, Counts
<1>4. ASSUME NEW T \in SUBSET S PROVE g[T] = h[T]
  <2>1. Cardinality(T) \in Nat
    BY FS_Subset, FS_CardinalityType
  <2>2. Cardinality(T) \in N
    BY <2>1, <1>3
  <2> QED
    BY <2>2
<1> QED
  BY <1>4 DEF Adds

\* And there is a way.
LEMMA AddsExists ==
  ASSUME NEW j, NEW S, Sizes(j, S)
  PROVE  \E g \in [SUBSET S -> Nat] : Adds(j, S, g)
<1> USE DEF Sizes
<1> DEFINE Upto(n, g) ==
      \A T \in SUBSET S : Cardinality(T) <= n =>
         g[T] = IF T = {} THEN 0 ELSE j[Chosen(T)].size + g[T \ {Chosen(T)}]
<1> DEFINE N == {n \in Nat : \E g \in [SUBSET S -> Nat] : Upto(n, g)}
<1>0. \A T \in SUBSET S : Cardinality(T) \in Nat /\ (Cardinality(T) = 0 <=> T = {})
  BY FS_Subset, FS_CardinalityType, FS_EmptySet
<1>1. 0 \in N
  <2>1. [T \in SUBSET S |-> 0] \in [SUBSET S -> Nat]
    OBVIOUS
  <2>2. Upto(0, [T \in SUBSET S |-> 0])
    <3>1. ASSUME NEW T \in SUBSET S, Cardinality(T) <= 0 PROVE T = {}
      BY <1>0, <3>1
    <3> QED
      BY <3>1
  <2> HIDE DEF Upto
  <2> QED
    BY <2>1, <2>2
<1>2. ASSUME NEW n \in N PROVE n + 1 \in N
  <2>1. PICK g \in [SUBSET S -> Nat] : Upto(n, g)
    OBVIOUS
  <2> DEFINE h == [T \in SUBSET S |->
        IF T = {} THEN 0 ELSE j[Chosen(T)].size + g[T \ {Chosen(T)}]]
  <2>2. h \in [SUBSET S -> Nat]
    <3>1. ASSUME NEW T \in SUBSET S, T # {}
          PROVE  j[Chosen(T)].size + g[T \ {Chosen(T)}] \in Nat
      <4>1. Chosen(T) \in S /\ T \ {Chosen(T)} \in SUBSET S
        BY <3>1, Rest
      <4> QED
        BY <4>1
    <3> QED
      BY <3>1
  <2>3. Upto(n + 1, h)
    <3>1. ASSUME NEW T \in SUBSET S, Cardinality(T) <= n + 1, T # {}
          PROVE  h[T] = j[Chosen(T)].size + h[T \ {Chosen(T)}]
      <4> DEFINE R == T \ {Chosen(T)}
      <4>1. R \in SUBSET S /\ Cardinality(R) <= n
        BY <3>1, Rest
      <4>2. h[R] = g[R]
        <5> HIDE DEF R
        <5> QED
          BY <4>1, <2>1
      <4>3. h[T] = j[Chosen(T)].size + g[R]
        BY <3>1
      <4> QED
        BY <4>2, <4>3
    <3> QED
      BY <3>1
  <2>4. \E f \in [SUBSET S -> Nat] : Upto(n + 1, f)
    <3> HIDE DEF Upto, h
    <3> QED
      BY <2>2, <2>3
  <2>5. n + 1 \in Nat
    OBVIOUS
  <2> HIDE DEF Upto, h
  <2> QED
    BY <2>4, <2>5, Zenon
<1>3. N = Nat
  <2> HIDE DEF N
  <2>1. N \in SUBSET Nat
    BY DEF N
  <2> QED
    BY <1>1, <1>2, <2>1, Counts
<1>4. PICK g \in [SUBSET S -> Nat] : Upto(Cardinality(S), g)
  <2>1. Cardinality(S) \in N
    BY <1>3, FS_CardinalityType
  <2> HIDE DEF Upto
  <2> QED
    BY <2>1
<1>5. \A T \in SUBSET S : Cardinality(T) <= Cardinality(S)
  BY FS_Subset
<1>6. \A T \in SUBSET S :
         g[T] = IF T = {} THEN 0 ELSE j[Chosen(T)].size + g[T \ {Chosen(T)}]
  BY <1>4, <1>5
<1> QED
  BY <1>6 DEF Adds

\* So the sum the model takes is the one any such function gives.
LEMMA SizedIs ==
  ASSUME NEW j, NEW S, IsFiniteSet(S), NEW h, Adds(j, S, h)
  PROVE  Sized(j, S) = h[S]
<1> DEFINE f == CHOOSE g : Adds(j, S, g)
<1>1. f = h
  BY AddsUnique
<1>2. Sized(j, S) = f[S]
  BY Zenon DEF Sized, MapThenSumSet, MapThenFoldSet, Adds, Chosen
<1> QED
  BY <1>1, <1>2

\* Whichever element is taken last.
InAnyOrder(j, S, g) ==
  \A T \in SUBSET S : \A x \in S \ T : g[T \cup {x}] = g[T] + j[x].size

\* The order in which the elements are chosen is of no importance.
LEMMA AddsOne ==
  ASSUME NEW j, NEW S, Sizes(j, S),
         NEW g \in [SUBSET S -> Nat], Adds(j, S, g)
  PROVE  InAnyOrder(j, S, g)
<1> USE DEF Sizes
<1> DEFINE One(n) == \A T \in SUBSET S : \A x \in S \ T :
                       Cardinality(T) = n => g[T \cup {x}] = g[T] + j[x].size
<1> DEFINE N == {n \in Nat : One(n)}
<1>0. \A T \in SUBSET S : Cardinality(T) \in Nat /\ (Cardinality(T) = 0 <=> T = {})
  BY FS_Subset, FS_CardinalityType, FS_EmptySet
<1>1. ASSUME NEW T \in SUBSET S, T # {}
      PROVE  g[T] = j[Chosen(T)].size + g[T \ {Chosen(T)}]
  BY <1>1 DEF Adds
<1>2. g[{}] = 0
  BY DEF Adds
<1>3. ASSUME NEW T \in SUBSET S, NEW x \in S \ T, Chosen(T \cup {x}) = x
      PROVE  g[T \cup {x}] = g[T] + j[x].size
  <2>1. T \cup {x} \in SUBSET S /\ (T \cup {x}) \ {x} = T
    OBVIOUS
  <2>2. g[T \cup {x}] = j[x].size + g[T]
    BY <1>1, <1>3, <2>1
  <2> QED
    BY <2>2
<1>4. \A T \in SUBSET S : T # {} => Chosen(T) \in T
  BY Rest
<1>5. 0 \in N
  <2>1. ASSUME NEW x \in S PROVE g[{} \cup {x}] = g[{}] + j[x].size
    <3>1. Chosen({} \cup {x}) = x
      BY <1>4
    <3> QED
      BY <3>1, <1>3
  <2> QED
    BY <2>1, <1>0
<1>6. ASSUME NEW n \in N PROVE n + 1 \in N
  <2>1. ASSUME NEW T \in SUBSET S, NEW x \in S \ T, Cardinality(T) = n + 1
        PROVE  g[T \cup {x}] = g[T] + j[x].size
    <3> DEFINE y == Chosen(T \cup {x})
    <3>1. y \in T \cup {x}
      BY <1>4
    <3>2. CASE y = x
      BY <3>2, <1>3
    <3>3. CASE y # x
      <4> DEFINE R == T \ {y}
      <4>1. y \in T
        BY <3>1, <3>3
      <4>2. IsFiniteSet(T)
        BY FS_Subset
      <4>3. Cardinality(R) = n
        <5> HIDE DEF y
        <5>1. Cardinality(T \ {y}) = Cardinality(T) - 1
          BY <4>1, <4>2, FS_RemoveElement
        <5> QED
          BY <2>1, <5>1
      <4>4. g[R \cup {x}] = g[R] + j[x].size
        BY <4>3
      <4>5. g[R \cup {y}] = g[R] + j[y].size
        BY <4>1, <4>3
      <4>6. R \cup {y} = T
        BY <4>1
      <4>7. (T \cup {x}) \ {y} = R \cup {x}
        BY <4>1, <3>3
      <4>8. g[T \cup {x}] = j[y].size + g[R \cup {x}]
        BY <1>1, <4>7
      <4>9. g[R] \in Nat /\ j[x].size \in Nat /\ j[y].size \in Nat
        BY <4>1
      <4>10. g[T] = g[R] + j[y].size
        BY <4>5, <4>6
      <4> HIDE DEF y, R, N
      <4> QED
        BY <4>4, <4>8, <4>9, <4>10
    <3> QED
      BY <3>2, <3>3
  <2> QED
    BY <2>1
<1>7. N = Nat
  <2> HIDE DEF N
  <2>1. N \in SUBSET Nat
    BY DEF N
  <2> QED
    BY <1>5, <1>6, <2>1, Counts
<1>8. \A T \in SUBSET S : One(Cardinality(T))
  <2> HIDE DEF One
  <2> QED
    BY <1>0, <1>7
<1> QED
  BY <1>8 DEF InAnyOrder

\* Nothing weighs nothing.
LEMMA SizedEmpty == \A j : Sized(j, {}) = 0
<1> SUFFICES ASSUME NEW j PROVE Sized(j, {}) = 0
  OBVIOUS
<1>1. IsFiniteSet({}) /\ Sizes(j, {})
  BY FS_EmptySet DEF Sizes
<1>2. PICK g \in [SUBSET {} -> Nat] : Adds(j, {}, g)
  BY <1>1, AddsExists
<1>3. g[{}] = 0
  BY <1>2 DEF Adds
<1> QED
  BY <1>1, <1>2, <1>3, SizedIs

\* The sum of a part is found in the sums of the whole.
LEMMA SizedPart ==
  ASSUME NEW j, NEW S, IsFiniteSet(S), NEW g, Adds(j, S, g), NEW R \in SUBSET S
  PROVE  Sized(j, R) = g[R]
<1> DEFINE h == [T \in SUBSET R |-> g[T]]
<1>1. IsFiniteSet(R)
  BY FS_Subset
<1>2. Adds(j, R, h)
  <2>1. ASSUME NEW T \in SUBSET R
        PROVE  h[T] = IF T = {} THEN 0 ELSE j[Chosen(T)].size + h[T \ {Chosen(T)}]
    <3>1. T \in SUBSET S /\ T \ {Chosen(T)} \in SUBSET R
      OBVIOUS
    <3>2. h[T] = g[T] /\ h[T \ {Chosen(T)}] = g[T \ {Chosen(T)}]
      BY <3>1
    <3> HIDE DEF h
    <3> QED
      BY <3>1, <3>2 DEF Adds
  <2> QED
    BY <2>1 DEF Adds
<1>3. h[R] = g[R]
  OBVIOUS
<1> HIDE DEF h
<1> QED
  BY <1>1, <1>2, <1>3, SizedIs

\* Only the entries counted matter.
LEMMA SizedSame ==
  ASSUME NEW j, NEW k, NEW S, Sizes(j, S),
         \A s \in S : j[s] = k[s]
  PROVE  Sized(j, S) = Sized(k, S)
<1>1. PICK g \in [SUBSET S -> Nat] : Adds(j, S, g)
  BY AddsExists
<1>2. IsFiniteSet(S) /\ \A T \in SUBSET S : T # {} => j[Chosen(T)] = k[Chosen(T)]
  BY Rest DEF Sizes
<1>3. Adds(k, S, g)
  BY <1>1, <1>2 DEF Adds
<1> QED
  BY <1>1, <1>2, <1>3, SizedIs

\* An entry more adds its size.
LEMMA SizedMore ==
  ASSUME NEW j, NEW S, Sizes(j, S),
         NEW T \in SUBSET S, NEW x \in S \ T
  PROVE  Sized(j, T \cup {x}) = Sized(j, T) + j[x].size
<1>1. PICK g \in [SUBSET S -> Nat] : Adds(j, S, g)
  BY AddsExists
<1>2. g[T \cup {x}] = g[T] + j[x].size
  <2>1. InAnyOrder(j, S, g)
    BY <1>1, AddsOne
  <2> QED
    BY <2>1 DEF InAnyOrder
<1>3. T \cup {x} \in SUBSET S
  OBVIOUS
<1>4. IsFiniteSet(S)
  BY DEF Sizes
<1> QED
  BY <1>1, <1>2, <1>3, <1>4, SizedPart

\* A sum of sizes is a size.
LEMMA SizedNat ==
  ASSUME NEW j, NEW S, Sizes(j, S)
  PROVE  Sized(j, S) \in Nat
<1>1. PICK g \in [SUBSET S -> Nat] : Adds(j, S, g)
  BY AddsExists
<1> QED
  BY <1>1, SizedIs DEF Sizes

\* What is taken out and what is left make up the whole.
LEMMA SizedSplit ==
  ASSUME NEW j, NEW S, Sizes(j, S), NEW R \in SUBSET S
  PROVE  Sized(j, S) = Sized(j, S \ R) + Sized(j, R)
<1> DEFINE Split(T) == Sized(j, (S \ R) \cup T) = Sized(j, S \ R) + Sized(j, T)
<1> DEFINE N == {n \in Nat : \A T \in SUBSET R : Cardinality(T) = n => Split(T)}
<1> USE DEF Sizes
<1>0. /\ \A T \in SUBSET R : IsFiniteSet(T)
      /\ \A T \in SUBSET R : Cardinality(T) \in Nat /\ (Cardinality(T) = 0 <=> T = {})
  <2>1. \A T \in SUBSET R : T \in SUBSET S
    OBVIOUS
  <2> QED
    BY <2>1, FS_Subset, FS_CardinalityType, FS_EmptySet
<1>1. \A T \in SUBSET S : Sized(j, T) \in Nat
  <2>1. ASSUME NEW T \in SUBSET S PROVE IsFiniteSet(T) /\ \A s \in T : j[s].size \in Nat
    BY FS_Subset
  <2> QED
    BY <2>1, SizedNat
<1>2. 0 \in N
  <2>1. Split({})
    <3>1. (S \ R) \cup {} = S \ R
      OBVIOUS
    <3>2. Sized(j, S \ R) \in Nat
      BY <1>1
    <3> QED
      BY <3>1, <3>2, SizedEmpty
  <2> HIDE DEF Split
  <2> QED
    BY <1>0, <2>1
<1>3. ASSUME NEW n \in N PROVE n + 1 \in N
  <2>1. ASSUME NEW T \in SUBSET R, Cardinality(T) = n + 1 PROVE Split(T)
    <3>1. PICK x \in T : TRUE
      BY <2>1, <1>0
    <3> DEFINE Q == T \ {x}
    <3>2. Q \in SUBSET R /\ Cardinality(Q) = n
      <4>1. IsFiniteSet(T)
        BY <1>0
      <4>2. Cardinality(T \ {x}) = Cardinality(T) - 1
        BY <4>1, FS_RemoveElement
      <4> QED
        BY <2>1, <4>2
    <3>3. Split(Q)
      <4> HIDE DEF Q, Split
      <4> QED
        BY <3>2
    <3>4. Sized(j, ((S \ R) \cup Q) \cup {x}) = Sized(j, (S \ R) \cup Q) + j[x].size
      <4> DEFINE U == (S \ R) \cup Q
      <4>1. U \in SUBSET S /\ x \in S \ U
        OBVIOUS
      <4> HIDE DEF U
      <4>2. Sized(j, U \cup {x}) = Sized(j, U) + j[x].size
        <5>1. Sizes(j, S)
          OBVIOUS
        <5> HIDE DEF Sizes
        <5> QED
          BY <4>1, <5>1, SizedMore
      <4> QED
        BY <4>2 DEF U
    <3>5. Sized(j, Q \cup {x}) = Sized(j, Q) + j[x].size
      <4>1. Q \in SUBSET S /\ x \in S \ Q
        OBVIOUS
      <4>2. Sizes(j, S)
        OBVIOUS
      <4> HIDE DEF Q, Sizes
      <4> QED
        BY <4>1, <4>2, SizedMore
    <3>6. ((S \ R) \cup Q) \cup {x} = (S \ R) \cup T /\ Q \cup {x} = T
      OBVIOUS
    <3>7. Sized(j, S \ R) \in Nat /\ Sized(j, Q) \in Nat /\ j[x].size \in Nat
      BY <1>1
    <3>8. Sized(j, (S \ R) \cup Q) = Sized(j, S \ R) + Sized(j, Q)
      BY <3>3
    <3>9. Sized(j, (S \ R) \cup T) = Sized(j, S \ R) + Sized(j, T)
      <4> HIDE DEF Q
      <4>1. Sized(j, (S \ R) \cup T) = Sized(j, (S \ R) \cup Q) + j[x].size
        BY <3>4, <3>6
      <4>2. Sized(j, T) = Sized(j, Q) + j[x].size
        BY <3>5, <3>6
      <4> QED
        BY <3>7, <3>8, <4>1, <4>2
    <3> QED
      BY <3>9
  <2> HIDE DEF Split
  <2> QED
    BY <2>1
<1>4. N = Nat
  <2> HIDE DEF N
  <2>1. N \in SUBSET Nat
    BY DEF N
  <2> QED
    BY <1>2, <1>3, <2>1, Counts
<1>5. Split(R)
  <2> HIDE DEF Split
  <2>1. Cardinality(R) \in N
    BY <1>0, <1>4
  <2> QED
    BY <2>1
<1>6. (S \ R) \cup R = S
  OBVIOUS
<1> QED
  BY <1>5, <1>6
\* BytesAccounted, with the sum named.
BytesInv ==
  /\ bytes = Sized(journal, DOMAIN journal)
  /\ bytes <= Capacity

\* Every entry has a size.
LEMMA EntrySizes == ASSUME NEW e \in Entries PROVE e.size \in Nat
<1>1. FrameSizes \cup {ControlSize} \subseteq Nat
  BY SizesAssumption
<1> QED
  BY <1>1 DEF Entries

\* The journal is finite, and the next position is not in it.
LEMMA JournalSizes ==
  ASSUME TypeOK, Inv
  PROVE  /\ Sizes(journal, DOMAIN journal)
         /\ produced + 1 \notin DOMAIN journal
<1>1. \A s \in DOMAIN journal : journal[s].size \in Nat
  <2>1. ASSUME NEW s \in DOMAIN journal PROVE journal[s].size \in Nat
    <3>1. journal[s] \in Entries
      BY DEF TypeOK, JournalType
    <3> QED
      BY <3>1, EntrySizes
  <2> QED
    BY <2>1
<1>2. CASE node = "Closed"
  <2>1. DOMAIN journal = {}
    BY <1>2 DEF Inv, JournalIsUnacknowledged
  <2> QED
    BY <1>1, <2>1, FS_EmptySet DEF Sizes
<1>3. CASE node # "Closed"
  <2>1. /\ DOMAIN journal = (acknowledged + 1)..produced
        /\ acknowledged \in Nat /\ produced \in Nat
    BY <1>3 DEF Inv, JournalIsUnacknowledged, TypeOK, JournalType
  <2>2. IsFiniteSet((acknowledged + 1)..produced)
    BY <2>1, FS_Interval
  <2> QED
    BY <1>1, <2>1, <2>2 DEF Sizes
<1> QED
  BY <1>2, <1>3

\* An append counts the entry it retains, and only what fits is appended.
LEMMA AppendBytes ==
  ASSUME NEW p \in Producers, TypeOK, Inv, BytesInv, AppendAccepted(p)
  PROVE  BytesInv'
<1> DEFINE D == DOMAIN journal
           x == produced + 1
           k == [s \in D \cup {x} |-> IF s = x THEN pending[p] ELSE journal[s]]
<1>1. Sizes(journal, D) /\ x \notin D
  BY JournalSizes
<1>2. pending[p].size \in Nat
  <2>1. pending[p] \in Entries
    BY DEF AppendAccepted, Appending, TypeOK, ChildType
  <2> QED
    BY <2>1, EntrySizes
<1>3. Sizes(k, D \cup {x})
  <2>1. IsFiniteSet(D \cup {x})
    BY <1>1, FS_AddElement DEF Sizes
  <2>2. \A s \in D \cup {x} : k[s].size \in Nat
    BY <1>1, <1>2 DEF Sizes
  <2> HIDE DEF k, D, x
  <2> QED
    BY <2>1, <2>2 DEF Sizes
<1>4. Sized(k, D \cup {x}) = Sized(k, D) + k[x].size
  <2>1. D \in SUBSET (D \cup {x}) /\ x \in (D \cup {x}) \ D
    BY <1>1
  <2> HIDE DEF k, D, x
  <2> QED
    BY <1>3, <2>1, SizedMore
<1>5. Sized(journal, D) = Sized(k, D)
  <2>1. \A s \in D : journal[s] = k[s]
    BY <1>1
  <2>2. IsFiniteSet(D) /\ Sizes(journal, D)
    BY <1>1 DEF Sizes
  <2> HIDE DEF k, D, x
  <2> QED
    BY <2>1, <2>2, SizedSame
<1>6. k[x].size = pending[p].size
  OBVIOUS
<1>7. /\ journal' = k /\ DOMAIN journal' = D \cup {x}
      /\ bytes' = bytes + pending[p].size
      /\ bytes + pending[p].size <= Capacity
  BY DEF AppendAccepted, Fits
<1> HIDE DEF k, D, x
<1>8. bytes = Sized(journal, D)
  BY DEF BytesInv, D
<1> QED
  BY <1>4, <1>5, <1>6, <1>7, <1>8 DEF BytesInv

\* A commit takes off exactly the entries it drops.
LEMMA ReleaseBytes ==
  ASSUME NEW through, TypeOK, Inv, BytesInv, Release(through)
  PROVE  BytesInv'
<1> DEFINE D == DOMAIN journal
           kept == {s \in D : s > through}
           k == [s \in kept |-> journal[s]]
<1>1. Sizes(journal, D)
  BY JournalSizes
<1>2. journal' = k /\ DOMAIN journal' = kept /\ bytes' = bytes - Sized(journal, D \ kept)
  BY Zenon DEF Release, Sized
<1>3. bytes = Sized(journal, D) /\ bytes <= Capacity /\ Capacity \in Nat
  BY SizesAssumption DEF BytesInv
<1>4. kept \in SUBSET D /\ D \ kept \in SUBSET D
  OBVIOUS
<1>5. \A s \in kept : journal[s] = k[s]
  OBVIOUS
<1> HIDE DEF k, D, kept
<1>6. Sized(journal, D) = Sized(journal, D \ kept) + Sized(journal, kept)
  BY <1>1, <1>4, SizedSplit
<1>7. Sizes(journal, kept) /\ Sizes(journal, D \ kept)
  BY <1>1, <1>4, FS_Subset DEF Sizes
<1>8. Sized(journal, kept) = Sized(k, kept)
  BY <1>5, <1>7, SizedSame
<1>9. Sized(journal, kept) \in Nat /\ Sized(journal, D \ kept) \in Nat
  BY <1>7, SizedNat
<1> QED
  BY <1>2, <1>3, <1>6, <1>8, <1>9 DEF BytesInv

\* The count moves with the journal only.
LEMMA SameBytes ==
  ASSUME BytesInv, UNCHANGED <<journal, bytes>>
  PROVE  BytesInv'
  BY DEF BytesInv

\* Every step keeps the count.
LEMMA BytesStep == TypeOK /\ Inv /\ BytesInv /\ [Next]_vars => BytesInv'
<1> SUFFICES ASSUME TypeOK, Inv, BytesInv, [Next]_vars PROVE BytesInv'
  OBVIOUS
<1>1. ASSUME NEW c \in Connections, ConnectionStep(c) PROVE BytesInv'
  <2>1. CASE CommitAccepted(c)
    <3>1. PICK r \in Asked(c) : Release(r.through)
      BY <2>1 DEF CommitAccepted
    <3> QED
      BY <3>1, ReleaseBytes
  <2>2. CASE ~CommitAccepted(c)
    <3>1. UNCHANGED <<journal, bytes>>
      BY <1>1, <2>2 DEF ConnectionStep, Attach, Start, CommitWaits, CommitRefused,
         LaneFails, ConnectionEnds, DetachLane, journalVars
    <3> QED
      BY <3>1, SameBytes
  <2> QED
    BY <2>1, <2>2
<1>2. ASSUME NEW l \in Leases, DeliveryStep(l) PROVE BytesInv'
  <2>1. UNCHANGED <<journal, bytes>>
    BY <1>2 DEF DeliveryStep, DeliverEntry, DeliverFence, DeliverWaits, PumpWrites,
       DeliverDone, DeliverFails, Aborted, journalVars
  <2> QED
    BY <2>1, SameBytes
<1>3. ASSUME NEW p \in Producers, AppendStep(p) PROVE BytesInv'
  <2>1. CASE AppendAccepted(p)
    BY <2>1, AppendBytes
  <2>2. CASE ~AppendAccepted(p)
    <3>1. UNCHANGED <<journal, bytes>>
      BY <1>3, <2>2 DEF AppendStep, AppendWaits, FrameTooLarge, AppendRefused, journalVars
    <3> QED
      BY <3>1, SameBytes
  <2> QED
    BY <2>1, <2>2
<1>4. CASE ReadStep \/ WriteStep \/ SuperviseStep \/ UNCHANGED vars
  <2>1. UNCHANGED <<journal, bytes>>
    BY <1>4 DEF ReadStep, ReadLine, ReadFails, ReadEof, WriteStep, WriteStdin,
       WriteStdinFails, SuperviseStep, ChildExits, KillNotified, Reap, Drained, vars, journalVars
  <2> QED
    BY <2>1, SameBytes
<1>5. CASE Close
  <2>1. DOMAIN journal' = {} /\ bytes' = 0
    BY <1>5 DEF Close
  <2> QED
    BY <2>1, SizedEmpty, SizesAssumption DEF BytesInv
<1> QED
  BY <1>1, <1>2, <1>3, <1>4, <1>5 DEF Next

\* An empty journal counts nothing.
LEMMA BytesInit == Init => BytesInv
<1> SUFFICES ASSUME Init PROVE BytesInv
  OBVIOUS
<1>1. DOMAIN journal = {} /\ bytes = 0
  BY DEF Init
<1> QED
  BY <1>1, SizedEmpty, SizesAssumption DEF BytesInv

\* The byte count that decides backpressure is the size of what is retained and is
\* within the limit, for every sequence of appends, commits and a close: recovery.rs
\* counts up in append_wire and down in commit, and the two never drift apart.
THEOREM BytesCorrect == Spec => []BytesAccounted
<1>1. Init => TypeOK /\ Inv /\ BytesInv
  BY TypeInit, InvInit, BytesInit
<1>2. TypeOK /\ Inv /\ BytesInv /\ [Next]_vars => (TypeOK /\ Inv /\ BytesInv)'
  BY TypeStep, InvStep, BytesStep
<1>3. BytesInv => BytesAccounted
  BY Zenon DEF BytesInv, BytesAccounted, Sized
<1> QED
  BY <1>1, <1>2, <1>3, PTL DEF Spec

-----------------------------------------------------------------------------
(* RecoverySession implements OutputStream: the refinement mapping of      *)
(* `Stream` takes every step of the session to a step of the stream.       *)

\* Steps the stream does not see.
LEMMA Stutters ==
  ASSUME UNCHANGED <<node, produced, acknowledged, checkpoint, accepted>>,
         sub'.lease = sub.lease, sub'.connection = sub.connection, replay'.fence = replay.fence,
         Subscribed => view'[sub.connection].got = view[sub.connection].got
  PROVE  UNCHANGED Stream!vars
  BY DEF Stream!vars, Subscribed

\* Attach is a subscription at the released prefix.
LEMMA AttachMaps ==
  ASSUME NEW c \in Connections, TypeOK, Inv, Attach(c)
  PROVE  Stream!Subscribe
<1>0. Typed
  BY TypeFacts
<1>1. /\ node # "Closed" /\ node' = "Replaying" /\ Subscribed'
      /\ sub'.connection = c /\ sub'.lease = leases + 1
      /\ replay'.fence = produced
      /\ UNCHANGED <<produced, acknowledged, accepted, checkpoint>>
  BY DEF Attach, Subscribed, journalVars, ackVars
<1>2. view'[c].got = acknowledged
  BY DEF Attach, TypeOK, ConnectionType
<1>3. leases + 1 \in Nat \ {0, sub.lease}
  <2>1. sub.lease <= leases
    BY DEF Inv, LeaseInv
  <2>2. QED
    BY <1>0, <2>1 DEF Typed
<1>4. QED
  BY <1>1, <1>2, <1>3, TypeOK DEF Stream!Subscribe, TypeOK, NodeType

\* Losing the subscriber is losing the reader.
LEMMA LoseMaps ==
  ASSUME Subscribed, node' = "Detached", sub' = NoSubscriber, replay' = NoReplay,
         TypeOK, UNCHANGED <<produced, acknowledged, accepted, checkpoint>>
  PROVE  Stream!Lose
<1>1. sub.lease # 0 /\ ~Subscribed' /\ sub'.lease = 0 /\ replay'.fence = 0
  BY DEF TypeOK, NodeType, Subscribed, NoSubscriber, NoReplay
<1>2. QED
  BY <1>1 DEF Stream!Lose

\* finish_replay is CatchUp; a checkpoint, with or without input, is Record.
LEMMA CommitMaps ==
  ASSUME NEW c \in Connections, TypeOK, Inv, CommitAccepted(c)
  PROVE  Stream!CatchUp \/ Stream!Record
<1>0. Typed
  BY TypeFacts
<1>1. PICK r \in Asked(c) :
        /\ Acceptable(c, r)
        /\ acknowledged' = r.through
        /\ checkpoint' = [through |-> r.through, sent |-> Sent(c, r)]
        /\ node' = IF r.finish THEN "Live" ELSE node
        /\ replay' = IF r.finish THEN NoReplay ELSE replay
        /\ accepted' = IF r.input THEN accepted + 1 ELSE accepted
        /\ view' = [view EXCEPT ![c].sent = Sent(c, r)]
  BY DEF CommitAccepted
<1>2. UNCHANGED <<sub, produced>>
  BY DEF CommitAccepted
<1>3. /\ Subscribed /\ sub.connection = c /\ sub.lease \in Leases /\ sub.lease # 0
      /\ r.through >= acknowledged /\ r.through <= sub.delivered
      /\ r.finish => node = "Replaying" /\ replay.written /\ r.through = replay.fence
      /\ r.input => node = "Live"
  BY <1>0, <1>1 DEF Acceptable, Owns, Typed
<1>4. Subscribed' /\ node # "Closed" /\ (node = "Replaying" \/ node = "Live")
  BY <1>1, <1>3 DEF Subscribed
<1>5. view'[c].got = view[c].got
  BY <1>1 DEF TypeOK, ConnectionType
<1>6. checkpoint.sent = accepted /\ view[c].sent = accepted
  BY <1>3, <1>4 DEF Inv, CheckpointInv, InputsMatchCheckpoint
<1>7. checkpoint'.sent = accepted'
  BY <1>0, <1>1, <1>6 DEF Sent, Typed
<1>8. CASE r.finish
  <2>1. ~r.input /\ accepted' = accepted /\ checkpoint'.sent = checkpoint.sent
    BY <1>1, <1>3, <1>6, <1>7, <1>8
  <2>2. view[c].got = replay.fence
    BY <1>3, <1>8, InvReplay DEF ReplayIsExact, Inv, FenceInv
  <2>3. Stream!CatchUp
    BY <1>1, <1>2, <1>3, <1>4, <1>5, <1>8, <2>1, <2>2 DEF Stream!CatchUp, NoReplay
  <2>4. QED
    BY <2>3
<1>9. CASE ~r.finish
  <2>1. r.through \in acknowledged..view[c].got
    <3>1. sub.delivered <= view[c].got
      BY <1>3, InvPosition DEF SubscriberPosition
    <3>2. r.through \in Nat
      <4>1. acknowledged' \in Nat
        BY TypeStep, TypeOK DEF Next, ConnectionStep, TypeOK, JournalType
      <4>2. QED
        BY <1>1, <4>1
    <3>3. QED
      BY <1>0, <1>3, <3>1, <3>2 DEF Typed
  <2>2. node' = node /\ replay' = replay
    BY <1>1, <1>9
  <2>3. CASE r.input
    BY <1>1, <1>2, <1>3, <1>4, <1>5, <1>7, <2>1, <2>2, <2>3 DEF Stream!Record
  <2>4. CASE ~r.input
    BY <1>1, <1>2, <1>3, <1>4, <1>5, <1>7, <2>1, <2>2, <2>4 DEF Stream!Record
  <2>5. QED
    BY <2>3, <2>4
<1>10. QED
  BY <1>8, <1>9

\* Only a frame written for the current subscriber is a Read.
LEMMA PumpMaps ==
  ASSUME NEW l \in Leases, TypeOK, Inv, PumpWrites(l)
  PROVE  Stream!Read \/ UNCHANGED Stream!vars
<1>0. Typed
  BY TypeFacts
<1>1. /\ deliveries[l].pc = "sending" /\ lane[deliveries[l].connection] = "open"
      /\ UNCHANGED <<node, sub, replay, produced, acknowledged, checkpoint, accepted>>
  BY DEF PumpWrites, nodeVars, journalVars, ackVars
<1>2. CASE ~Subscribed
  BY <1>1, <1>2, Stutters
<1>3. CASE Subscribed /\ ~Current(l)
  BY <1>1, <1>3 DEF Inv, LeaseInv, Subscribed
<1>4. CASE Current(l)
  <2>1. Subscribed /\ sub.lease = l /\ sub.connection \in Connections /\ sub.lease # 0
    BY <1>0, <1>4 DEF Current, Typed
  <2>2. deliveries[l].connection = sub.connection
    BY <1>1, <1>4 DEF Inv, LeaseInv
  <2>3. CASE deliveries[l].item = 0
    <3>1. view'[sub.connection].got = view[sub.connection].got
      BY <2>1, <2>2, <2>3 DEF PumpWrites, TypeOK, ConnectionType
    <3>2. QED
      BY <1>1, <3>1, Stutters
  <2>4. CASE deliveries[l].item # 0
    <3>1. view'[sub.connection].got = deliveries[l].item
      BY <2>1, <2>2, <2>4 DEF PumpWrites, TypeOK, ConnectionType
    <3>2. /\ deliveries[l].item = view[sub.connection].got + 1
          /\ deliveries[l].item <= produced
          /\ node = "Replaying" => deliveries[l].item <= replay.fence
      BY <1>1, <2>1, <2>4 DEF Inv, PositionInv, FenceInv
    <3>3. /\ view[sub.connection].got < produced
          /\ node = "Replaying" => view[sub.connection].got < replay.fence
      BY <1>0, <2>1, <3>2 DEF Typed
    <3>4. Subscribed' /\ (node = "Replaying" \/ node = "Live")
      BY <1>1, <2>1 DEF Subscribed
    <3>5. Stream!Read
      BY <1>1, <2>1, <3>1, <3>2, <3>3, <3>4 DEF Stream!Read
    <3>6. QED
      BY <3>5
  <2>5. QED
    BY <2>3, <2>4
<1>5. QED
  BY <1>2, <1>3, <1>4

\* An accepted append is Produce.
LEMMA AppendMaps ==
  ASSUME NEW p \in Producers, TypeOK, AppendAccepted(p)
  PROVE  Stream!Produce
<1>1. /\ node # "Closed" /\ produced' = produced + 1
      /\ UNCHANGED <<node, sub, replay, acknowledged, checkpoint, accepted, view>>
  BY DEF AppendAccepted, nodeVars, ackVars, connVars
<1>2. Subscribed' <=> Subscribed
  BY <1>1 DEF Subscribed
<1>3. QED
  BY <1>1, <1>2 DEF Stream!Produce, TypeOK, NodeType

\* Close is Close.
LEMMA CloseMaps == TypeOK /\ Close => Stream!Close
<1>1. Close => ~Subscribed' /\ sub'.lease = 0 /\ replay'.fence = 0 /\ checkpoint'.sent = 0
  BY DEF Close, Subscribed, NoSubscriber, NoReplay, NoCheckpoint
<1>2. QED
  BY <1>1 DEF Close, Stream!Close, TypeOK, NodeType

\* Every step of the session is a step of the stream or leaves it alone.
LEMMA StepMaps == TypeOK /\ Inv /\ [Next]_vars => [Stream!Next]_(Stream!vars)
<1> SUFFICES ASSUME TypeOK, Inv, [Next]_vars PROVE Stream!Next \/ UNCHANGED Stream!vars
  OBVIOUS
<1>0. Typed
  BY TypeFacts
<1>1. ASSUME NEW c \in Connections, ConnectionStep(c)
      PROVE  Stream!Next \/ UNCHANGED Stream!vars
  <2>1. CASE Attach(c)
    BY <2>1, AttachMaps DEF Stream!Next
  <2>2. CASE CommitAccepted(c)
    BY <2>2, CommitMaps DEF Stream!Next
  <2>3. CASE DetachLane(c) /\ HoldsLane(c)
    <3>1. Stream!Lose
      BY <2>3, LoseMaps DEF DetachLane, HoldsLane, Detach, Subscribed, journalVars, ackVars
    <3>2. QED
      BY <3>1 DEF Stream!Next
  <2>4. CASE ~Attach(c) /\ ~CommitAccepted(c) /\ ~(DetachLane(c) /\ HoldsLane(c))
    <3>1. UNCHANGED <<node, sub, replay, produced, acknowledged, checkpoint, accepted, view>>
      BY <1>1, <2>4 DEF ConnectionStep, Start, CommitWaits, CommitRefused, LaneFails,
         ConnectionEnds, DetachLane, nodeVars, journalVars, ackVars
    <3>2. QED
      BY <3>1, Stutters
  <2>5. QED
    BY <2>1, <2>2, <2>3, <2>4
<1>2. ASSUME NEW l \in Leases, DeliveryStep(l)
      PROVE  Stream!Next \/ UNCHANGED Stream!vars
  <2>1. CASE PumpWrites(l)
    BY <2>1, PumpMaps DEF Stream!Next
  <2>2. CASE DeliverFails(l) /\ Current(l)
    <3>1. Stream!Lose
      BY <2>2, LoseMaps DEF DeliverFails, Current, Detach, Subscribed, journalVars, ackVars
    <3>2. QED
      BY <3>1 DEF Stream!Next
  <2>3. CASE ~PumpWrites(l) /\ ~(DeliverFails(l) /\ Current(l))
    <3>1. /\ UNCHANGED <<node, produced, acknowledged, checkpoint, accepted, view>>
          /\ sub'.lease = sub.lease /\ sub'.connection = sub.connection
          /\ replay'.fence = replay.fence
      BY <1>2, <2>3 DEF DeliveryStep, DeliverEntry, DeliverFence, DeliverWaits, DeliverDone,
         DeliverFails, Aborted, nodeVars, journalVars, ackVars, connVars, TypeOK, NodeType
    <3>2. QED
      BY <3>1, Stutters
  <2>4. QED
    BY <2>1, <2>2, <2>3
<1>3. ASSUME NEW p \in Producers, AppendStep(p)
      PROVE  Stream!Next \/ UNCHANGED Stream!vars
  <2>1. CASE AppendAccepted(p)
    BY <2>1, AppendMaps DEF Stream!Next
  <2>2. CASE ~AppendAccepted(p)
    BY <1>3, <2>2, Stutters DEF AppendStep, AppendWaits, FrameTooLarge, AppendRefused,
       nodeVars, journalVars, ackVars, connVars
  <2>3. QED
    BY <2>1, <2>2
<1>4. CASE ReadStep \/ WriteStep \/ SuperviseStep \/ UNCHANGED vars
  <2>1. UNCHANGED <<node, sub, replay, produced, acknowledged, checkpoint, accepted, view>>
    BY <1>4 DEF ReadStep, ReadLine, ReadFails, ReadEof, WriteStep, WriteStdin,
       WriteStdinFails, SuperviseStep, ChildExits, KillNotified, Reap, Drained, vars,
       nodeVars, journalVars, ackVars, connVars
  <2>2. QED
    BY <2>1, Stutters
<1>5. CASE Close
  BY <1>5, CloseMaps DEF Stream!Next
<1>6. QED
  BY <1>1, <1>2, <1>3, <1>4, <1>5 DEF Next

\* The initial states correspond.
LEMMA InitMaps == Init => Stream!Init
<1>1. Init => ~Subscribed
  BY DEF Init, Subscribed
<1>2. QED
  BY <1>1 DEF Init, Stream!Init, NoSubscriber, NoReplay, NoCheckpoint

\* The session implements the stream OutputStream describes, for every instance: no
\* interleaving of tasks, lanes and commits shows a client anything else.
THEOREM Refinement == Spec => ImplementsStream
<1>1. QED
  BY InitMaps, StepMaps, Invariant, PTL DEF Spec, ImplementsStream, Stream!Spec

=============================================================================
