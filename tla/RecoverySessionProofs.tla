----------------------- MODULE RecoverySessionProofs -----------------------
(***************************************************************************)
(* Proofs about RecoverySession, for every value of its constants.         *)
(***************************************************************************)
EXTENDS RecoverySession, TLAPS

USE DEF Leases, Producers, Fence

-----------------------------------------------------------------------------
(* Types: one lemma per action, with one step per group of variables the   *)
(* action changes.                                                         *)

\* A step that leaves a group of variables alone keeps that group typed.
LEMMA SameTypes ==
  ASSUME TypeOK
  PROVE  /\ UNCHANGED <<nodeVars, leases>> => NodeType'
         /\ UNCHANGED <<journal, produced, ackVars>> => JournalType'
         /\ UNCHANGED <<deliveries, asleep>> => TaskType'
         /\ UNCHANGED connVars => ConnectionType'
         /\ UNCHANGED <<pending, childVars, accepted>> => ChildType'
<1>1. UNCHANGED <<nodeVars, leases>> => NodeType'
  BY DEF TypeOK, NodeType, Subscribed, nodeVars
<1>2. UNCHANGED <<journal, produced, ackVars>> => JournalType'
  BY DEF TypeOK, JournalType, Entries, ackVars
<1>3. UNCHANGED <<deliveries, asleep>> => TaskType'
  BY DEF TypeOK, TaskType
<1>4. UNCHANGED connVars => ConnectionType'
  BY DEF TypeOK, ConnectionType, connVars
<1>5. UNCHANGED <<pending, childVars, accepted>> => ChildType'
  BY DEF TypeOK, ChildType, Entries, NoEntry, childVars
<1>6. QED
  BY <1>1, <1>2, <1>3, <1>4, <1>5

Deliveries == [pc : {"none", "ready", "sending", "written", "done"},
               connection : Connections \cup {NoConnection}, item : Nat]

\* One delivery task changing its place and item keeps the type of them all.
LEMMA DeliveryTyped ==
  ASSUME TypeOK, NEW l \in Leases,
         NEW pc \in {"none", "ready", "sending", "written", "done"}, NEW item \in Nat,
         deliveries' = [deliveries EXCEPT ![l].pc = pc, ![l].item = item]
  PROVE  deliveries' \in [Leases -> Deliveries]
<1>1. deliveries[l] \in Deliveries /\ deliveries \in [Leases -> Deliveries]
  BY DEF TypeOK, TaskType, Deliveries
<1>2. [deliveries[l] EXCEPT !.pc = pc, !.item = item] \in Deliveries
  BY <1>1 DEF Deliveries
<1>3. deliveries' = [deliveries EXCEPT ![l] = [deliveries[l] EXCEPT !.pc = pc, !.item = item]]
  BY <1>1
<1>4. QED
  BY <1>1, <1>2, <1>3

\* State::detach leaves a node without a subscriber.
LEMMA DetachTyped ==
  ASSUME TypeOK, Detach, leases' = leases
  PROVE  NodeType'
<1>1. /\ sub' \in [connection : Connections \cup {NoConnection}, lease : 0..MaxLease,
              delivered : Nat, inFlight : Nat]
      /\ sub'.lease = 0 /\ sub'.connection = NoConnection
  BY BoundsAssumption DEF TypeOK, NodeType, Detach, NoSubscriber
<1>2. node' \in {"Detached", "Closed"}
  BY DEF Detach
<1>3. replay' \in [fence : Nat, offered : BOOLEAN, written : BOOLEAN]
  BY DEF Detach, NoReplay
<1>4. QED
  BY <1>1, <1>2, <1>3 DEF TypeOK, NodeType, Subscribed


\* Attach keeps the types.
LEMMA AttachTyped ==
  ASSUME NEW c \in Connections, TypeOK, Attach(c)
  PROVE  TypeOK'
<1>1. NodeType'
  <2>1. sub' \in [connection : Connections \cup {NoConnection}, lease : 0..MaxLease,
              delivered : Nat, inFlight : Nat]
    BY BoundsAssumption DEF TypeOK, NodeType, JournalType, Attach, ResumeAt
  <2>2. /\ node' = "Replaying" /\ sub'.lease # 0 /\ sub'.connection # NoConnection
        /\ leases' \in 0..MaxLease
    BY BoundsAssumption, ConnectionsAssumption DEF TypeOK, NodeType, Attach
  <2>3. replay' \in [fence : Nat, offered : BOOLEAN, written : BOOLEAN]
    BY DEF TypeOK, JournalType, Attach
  <2>4. QED
    BY <2>1, <2>2, <2>3 DEF NodeType, Subscribed
<1>2. ConnectionType'
  BY ConnectionsAssumption, BoundsAssumption, SizesAssumption
  DEF Attach, MayHoldLane, ResumeAt, TypeOK, NodeType, Subscribed, ConnectionType, NoView, NoRequest, JournalType
<1>3. QED
  BY <1>1, <1>2, SameTypes
  DEF Attach, TypeOK, MayHoldLane, ResumeAt, nodeVars, journalVars, ackVars, connVars, childVars

\* Start keeps the types.
LEMMA StartTyped ==
  ASSUME NEW c \in Connections, TypeOK, Start(c)
  PROVE  TypeOK'
<1>1. TaskType'
  BY ConnectionsAssumption, BoundsAssumption, SizesAssumption
  DEF Start, TypeOK, NodeType, Subscribed, TaskType, NoDelivery, Nobody
<1>2. ConnectionType'
  BY ConnectionsAssumption, BoundsAssumption, SizesAssumption
  DEF Start, TypeOK, NodeType, Subscribed, ConnectionType, NoView, NoRequest
<1>3. QED
  BY <1>1, <1>2, SameTypes
  DEF Start, TypeOK, nodeVars, journalVars, ackVars, connVars, childVars

\* CommitWaits keeps the types.
LEMMA CommitWaitsTyped ==
  ASSUME NEW c \in Connections, TypeOK, CommitWaits(c)
  PROVE  TypeOK'
<1>1. TaskType'
  <2>1. asleep' = [asleep EXCEPT !.commits = @ \cup {c}] /\ UNCHANGED deliveries
    BY DEF CommitWaits
  <2>2. QED
    BY <2>1 DEF TypeOK, TaskType
<1>2. ConnectionType'
  BY ConnectionsAssumption, BoundsAssumption, SizesAssumption
  DEF CommitWaits, Asked, Requests, TypeOK, NodeType, Subscribed, ConnectionType, NoView, NoRequest
<1>3. QED
  BY <1>1, <1>2, SameTypes
  DEF CommitWaits, TypeOK, Asked, Requests, nodeVars, journalVars, ackVars, connVars, childVars

\* CommitRefused keeps the types.
LEMMA CommitRefusedTyped ==
  ASSUME NEW c \in Connections, TypeOK, CommitRefused(c)
  PROVE  TypeOK'
<1>1. ConnectionType'
  BY ConnectionsAssumption, BoundsAssumption, SizesAssumption
  DEF CommitRefused, Answered, TypeOK, NodeType, Subscribed, ConnectionType, NoView, NoRequest
<1>2. QED
  BY <1>1, SameTypes
  DEF CommitRefused, TypeOK, Answered, nodeVars, journalVars, ackVars, connVars, childVars

\* CommitAccepted keeps the types.
LEMMA CommitAcceptedTyped ==
  ASSUME NEW c \in Connections, TypeOK, CommitAccepted(c)
  PROVE  TypeOK'
<1>1. NodeType'
  BY ConnectionsAssumption, BoundsAssumption, SizesAssumption
  DEF CommitAccepted, Asked, Requests, Acceptable, Owns, Answered, Sent, Release, NotifyWaiters, TypeOK, NodeType, Subscribed, NoSubscriber, NoReplay, ConnectionType
<1>2. JournalType'
  BY ConnectionsAssumption, BoundsAssumption, SizesAssumption
  DEF CommitAccepted, Asked, Requests, Acceptable, Owns, Answered, Sent, Release, NotifyWaiters, TypeOK, NodeType, Subscribed, JournalType, NoCheckpoint, NoEntry, Entries, ConnectionType
<1>3. TaskType'
  BY ConnectionsAssumption, BoundsAssumption, SizesAssumption
  DEF CommitAccepted, Asked, Requests, Acceptable, Owns, Answered, Sent, Release, NotifyWaiters, TypeOK, NodeType, Subscribed, TaskType, NoDelivery, Nobody, JournalType, ConnectionType
<1>4. ConnectionType'
  BY ConnectionsAssumption, BoundsAssumption, SizesAssumption
  DEF CommitAccepted, Asked, Requests, Acceptable, Owns, Answered, Sent, Release, NotifyWaiters, TypeOK, NodeType, Subscribed, ConnectionType, NoView, NoRequest, JournalType
<1>5. ChildType'
  BY ConnectionsAssumption, BoundsAssumption, SizesAssumption
  DEF CommitAccepted, Asked, Requests, Acceptable, Owns, Answered, Sent, Release, NotifyWaiters, TypeOK, NodeType, Subscribed, ChildType, NoEntry, Entries, JournalType, ConnectionType, IsRunning
<1>6. QED
  BY <1>1, <1>2, <1>3, <1>4, <1>5, SameTypes
  DEF CommitAccepted, TypeOK, Asked, Requests, Acceptable, Owns, Answered, Sent, Release, NotifyWaiters, nodeVars, journalVars, ackVars, connVars, childVars

\* LaneFails keeps the types.
LEMMA LaneFailsTyped ==
  ASSUME NEW c \in Connections, TypeOK, LaneFails(c)
  PROVE  TypeOK'
<1>1. ConnectionType'
  BY ConnectionsAssumption, BoundsAssumption, SizesAssumption
  DEF LaneFails, TypeOK, NodeType, Subscribed, ConnectionType, NoView, NoRequest
<1>2. QED
  BY <1>1, SameTypes
  DEF LaneFails, TypeOK, nodeVars, journalVars, ackVars, connVars, childVars

\* ConnectionEnds keeps the types.
LEMMA ConnectionEndsTyped ==
  ASSUME NEW c \in Connections, TypeOK, ConnectionEnds(c)
  PROVE  TypeOK'
<1>1. ConnectionType'
  BY ConnectionsAssumption, BoundsAssumption, SizesAssumption
  DEF ConnectionEnds, TypeOK, NodeType, Subscribed, ConnectionType, NoView, NoRequest
<1>2. QED
  BY <1>1, SameTypes
  DEF ConnectionEnds, TypeOK, nodeVars, journalVars, ackVars, connVars, childVars

\* DetachLane keeps the types.
LEMMA DetachLaneTyped ==
  ASSUME NEW c \in Connections, TypeOK, DetachLane(c)
  PROVE  TypeOK'
<1>1. NodeType'
  BY DetachTyped, SameTypes DEF DetachLane
<1>2. TaskType'
  BY ConnectionsAssumption, BoundsAssumption, SizesAssumption
  DEF DetachLane, Detach, NotifyWaiters, TypeOK, NodeType, Subscribed, TaskType, NoDelivery, Nobody
<1>3. ConnectionType'
  BY ConnectionsAssumption, BoundsAssumption, SizesAssumption
  DEF DetachLane, Detach, NotifyWaiters, TypeOK, NodeType, Subscribed, ConnectionType, NoView, NoRequest
<1>4. QED
  BY <1>1, <1>2, <1>3, SameTypes
  DEF DetachLane, TypeOK, Detach, NotifyWaiters, nodeVars, journalVars, ackVars, connVars, childVars

\* DeliverEntry keeps the types.
LEMMA DeliverEntryTyped ==
  ASSUME NEW l \in Leases, TypeOK, DeliverEntry(l)
  PROVE  TypeOK'
<1>1. NodeType'
  BY ConnectionsAssumption, BoundsAssumption, SizesAssumption
  DEF DeliverEntry, Looking, Current, Offer, TypeOK, NodeType, Subscribed, NoSubscriber, NoReplay
<1>2. TaskType'
  <2>1. sub.delivered + 1 \in Nat
    BY DEF TypeOK, NodeType
  <2>2. deliveries' \in [Leases -> Deliveries]
    BY <2>1, DeliveryTyped DEF DeliverEntry, Offer
  <2>3. QED
    BY <2>2 DEF TypeOK, TaskType, DeliverEntry, Deliveries
<1>3. QED
  BY <1>1, <1>2, SameTypes
  DEF DeliverEntry, TypeOK, Looking, Current, Offer, nodeVars, journalVars, ackVars, connVars, childVars

\* DeliverFence keeps the types.
LEMMA DeliverFenceTyped ==
  ASSUME NEW l \in Leases, TypeOK, DeliverFence(l)
  PROVE  TypeOK'
<1>1. NodeType'
  BY ConnectionsAssumption, BoundsAssumption, SizesAssumption
  DEF DeliverFence, Offer, TypeOK, NodeType, Subscribed, NoSubscriber, NoReplay
<1>2. TaskType'
  <2>1. deliveries' \in [Leases -> Deliveries]
    BY DeliveryTyped DEF DeliverFence, Offer
  <2>2. QED
    BY <2>1 DEF TypeOK, TaskType, DeliverFence, Deliveries
<1>3. QED
  BY <1>1, <1>2, SameTypes
  DEF DeliverFence, TypeOK, Offer, nodeVars, journalVars, ackVars, connVars, childVars

\* DeliverWaits keeps the types.
LEMMA DeliverWaitsTyped ==
  ASSUME NEW l \in Leases, TypeOK, DeliverWaits(l)
  PROVE  TypeOK'
<1>1. TaskType'
  BY ConnectionsAssumption, BoundsAssumption, SizesAssumption
  DEF DeliverWaits, TypeOK, NodeType, Subscribed, TaskType, NoDelivery, Nobody
<1>2. QED
  BY <1>1, SameTypes
  DEF DeliverWaits, TypeOK, nodeVars, journalVars, ackVars, connVars, childVars

\* PumpWrites keeps the types.
LEMMA PumpWritesTyped ==
  ASSUME NEW l \in Leases, TypeOK, PumpWrites(l)
  PROVE  TypeOK'
<1> DEFINE d == deliveries[l]
<1>0. d \in Deliveries /\ deliveries \in [Leases -> Deliveries]
  BY DEF TypeOK, TaskType, Deliveries
<1>1. TaskType'
  <2>1. deliveries' = [deliveries EXCEPT ![l] = [d EXCEPT !.pc = "written"]]
    BY <1>0 DEF PumpWrites
  <2>2. [d EXCEPT !.pc = "written"] \in Deliveries
    BY <1>0 DEF Deliveries
  <2>3. deliveries' \in [Leases -> Deliveries]
    BY <1>0, <2>1, <2>2
  <2>4. QED
    BY <2>3 DEF PumpWrites, TypeOK, TaskType, Deliveries
<1>2. ConnectionType'
  <2>1. d.item \in Nat
    BY <1>0 DEF Deliveries
  <2>2. \/ UNCHANGED view
        \/ view' = [view EXCEPT ![d.connection] = [@ EXCEPT !.fence = TRUE]]
        \/ view' = [view EXCEPT ![d.connection] = [@ EXCEPT !.got = d.item]]
    BY DEF PumpWrites
  <2> DEFINE V == [lease : 0..MaxLease, got : Nat, fence : BOOLEAN, sent : Nat]
  <2>3. view' \in [Connections -> V]
    <3>1. view \in [Connections -> V]
      BY DEF TypeOK, ConnectionType
    <3>2. ASSUME NEW c \in Connections
          PROVE  [view[c] EXCEPT !.fence = TRUE] \in V /\ [view[c] EXCEPT !.got = d.item] \in V
      BY <2>1, <3>1
    <3>3. QED
      BY <2>2, <3>1, <3>2
  <2>4. QED
    BY <2>3 DEF PumpWrites, TypeOK, ConnectionType
<1>3. QED
  BY <1>1, <1>2, SameTypes
  DEF PumpWrites, TypeOK, nodeVars, journalVars, ackVars, connVars, childVars

\* DeliverDone keeps the types.
LEMMA DeliverDoneTyped ==
  ASSUME NEW l \in Leases, TypeOK, DeliverDone(l)
  PROVE  TypeOK'
<1>0. deliveries[l] \in Deliveries /\ deliveries \in [Leases -> Deliveries]
  BY DEF TypeOK, TaskType, Deliveries
<1>1. NodeType'
  <2>1. deliveries[l].item \in Nat
    BY <1>0 DEF Deliveries
  <2>2. \/ UNCHANGED sub
        \/ sub' = [sub EXCEPT !.delivered = deliveries[l].item, !.inFlight = 0]
    BY DEF DeliverDone
  <2>3. UNCHANGED replay \/ replay' = [replay EXCEPT !.written = TRUE]
    BY DEF DeliverDone
  <2>4. /\ sub' \in [connection : Connections \cup {NoConnection}, lease : 0..MaxLease,
                     delivered : Nat, inFlight : Nat]
        /\ sub'.lease = sub.lease /\ sub'.connection = sub.connection
    <3>1. CASE UNCHANGED sub
      BY <3>1 DEF TypeOK, NodeType
    <3>2. CASE sub' = [sub EXCEPT !.delivered = deliveries[l].item, !.inFlight = 0]
      BY <2>1, <3>2 DEF TypeOK, NodeType
    <3>3. QED
      BY <2>2, <3>1, <3>2
  <2>5. replay' \in [fence : Nat, offered : BOOLEAN, written : BOOLEAN]
    BY <2>3 DEF TypeOK, NodeType
  <2>6. QED
    BY <2>4, <2>5 DEF DeliverDone, TypeOK, NodeType, Subscribed
<1>2. TaskType'
  <2>1. CASE Current(l)
    <3>1. deliveries' \in [Leases -> Deliveries]
      BY <2>1, DeliveryTyped DEF DeliverDone
    <3>2. QED
      BY <2>1, <3>1 DEF DeliverDone, TypeOK, TaskType, Deliveries, NotifyWaiters, Nobody
  <2>2. CASE ~Current(l)
    <3>1. [NoDelivery EXCEPT !.pc = "done"] \in Deliveries
      BY DEF NoDelivery, Deliveries
    <3>2. deliveries' \in [Leases -> Deliveries]
      BY <1>0, <2>2, <3>1 DEF DeliverDone
    <3>3. QED
      BY <2>2, <3>2 DEF DeliverDone, TypeOK, TaskType, Deliveries
  <2>3. QED
    BY <2>1, <2>2
<1>3. QED
  BY <1>1, <1>2, SameTypes
  DEF DeliverDone, TypeOK, NotifyWaiters, nodeVars, journalVars, ackVars, connVars, childVars

\* DeliverFails keeps the types.
LEMMA DeliverFailsTyped ==
  ASSUME NEW l \in Leases, TypeOK, DeliverFails(l)
  PROVE  TypeOK'
<1>1. NodeType'
  BY DetachTyped, SameTypes DEF DeliverFails
<1>2. TaskType'
  BY ConnectionsAssumption, BoundsAssumption, SizesAssumption
  DEF DeliverFails, Detach, NotifyWaiters, TypeOK, NodeType, Subscribed, TaskType, NoDelivery, Nobody
<1>3. QED
  BY <1>1, <1>2, SameTypes
  DEF DeliverFails, TypeOK, Detach, NotifyWaiters, nodeVars, journalVars, ackVars, connVars, childVars

\* Aborted keeps the types.
LEMMA AbortedTyped ==
  ASSUME NEW l \in Leases, TypeOK, Aborted(l)
  PROVE  TypeOK'
<1>1. TaskType'
  BY ConnectionsAssumption, BoundsAssumption, SizesAssumption
  DEF Aborted, TypeOK, NodeType, Subscribed, TaskType, NoDelivery, Nobody
<1>2. QED
  BY <1>1, SameTypes
  DEF Aborted, TypeOK, nodeVars, journalVars, ackVars, connVars, childVars

\* AppendAccepted keeps the types.
LEMMA AppendAcceptedTyped ==
  ASSUME NEW p \in Producers, TypeOK, AppendAccepted(p)
  PROVE  TypeOK'
<1>1. JournalType'
  <2>1. pending[p] \in Entries
    BY DEF AppendAccepted, Appending, TypeOK, ChildType
  <2>2. produced' = produced + 1 /\ produced' \in Nat
    BY DEF AppendAccepted, TypeOK, JournalType
  <2>3. /\ DOMAIN journal' = DOMAIN journal \cup {produced + 1}
        /\ \A s \in DOMAIN journal' :
             journal'[s] = IF s = produced + 1 THEN pending[p] ELSE journal[s]
    BY DEF AppendAccepted
  <2>4. DOMAIN journal' \subseteq Nat
    BY <2>2, <2>3 DEF TypeOK, JournalType
  <2>5. \A s \in DOMAIN journal' : journal'[s] \in Entries
    BY <2>1, <2>3 DEF TypeOK, JournalType
  <2>6. QED
    BY <2>2, <2>4, <2>5 DEF AppendAccepted, TypeOK, JournalType, Entries, ackVars
<1>2. TaskType'
  BY ConnectionsAssumption, BoundsAssumption, SizesAssumption
  DEF AppendAccepted, Appending, Continue, NotifyWaiters, TypeOK, NodeType, Subscribed, TaskType, NoDelivery, Nobody, ChildType, Entries, NoEntry, IsRunning
<1>3. ChildType'
  BY ConnectionsAssumption, BoundsAssumption, SizesAssumption
  DEF AppendAccepted, Appending, Continue, NotifyWaiters, TypeOK, NodeType, Subscribed, ChildType, NoEntry, Entries, IsRunning
<1>4. QED
  BY <1>1, <1>2, <1>3, SameTypes
  DEF AppendAccepted, TypeOK, Appending, Continue, NotifyWaiters, nodeVars, journalVars, ackVars, connVars, childVars

\* AppendWaits keeps the types.
LEMMA AppendWaitsTyped ==
  ASSUME NEW p \in Producers, TypeOK, AppendWaits(p)
  PROVE  TypeOK'
<1>1. TaskType'
  BY ConnectionsAssumption, BoundsAssumption, SizesAssumption
  DEF AppendWaits, TypeOK, NodeType, Subscribed, TaskType, NoDelivery, Nobody, ChildType, Entries, NoEntry, IsRunning
<1>2. QED
  BY <1>1, SameTypes
  DEF AppendWaits, TypeOK, nodeVars, journalVars, ackVars, connVars, childVars

\* FrameTooLarge keeps the types.
LEMMA FrameTooLargeTyped ==
  ASSUME NEW p \in Producers, TypeOK, FrameTooLarge(p)
  PROVE  TypeOK'
<1>1. ChildType'
  <2>1. [kind |-> "failure", size |-> ControlSize] \in Entries
    BY DEF Entries
  <2>2. QED
    BY <2>1 DEF FrameTooLarge, TypeOK, ChildType, childVars
<1>2. QED
  BY <1>1, SameTypes
  DEF FrameTooLarge, TypeOK, nodeVars, journalVars, ackVars, connVars, childVars

\* AppendRefused keeps the types.
LEMMA AppendRefusedTyped ==
  ASSUME NEW p \in Producers, TypeOK, AppendRefused(p)
  PROVE  TypeOK'
<1>1. ChildType'
  BY ConnectionsAssumption, BoundsAssumption, SizesAssumption
  DEF AppendRefused, Continue, TypeOK, NodeType, Subscribed, ChildType, NoEntry, Entries, IsRunning
<1>2. QED
  BY <1>1, SameTypes
  DEF AppendRefused, TypeOK, Continue, nodeVars, journalVars, ackVars, connVars, childVars

\* ReadLine keeps the types.
LEMMA ReadLineTyped ==
  ASSUME NEW size \in FrameSizes, TypeOK, ReadLine(size)
  PROVE  TypeOK'
<1>1. ChildType'
  BY ConnectionsAssumption, BoundsAssumption, SizesAssumption
  DEF ReadLine, Appends, TypeOK, NodeType, Subscribed, ChildType, NoEntry, Entries, IsRunning
<1>2. QED
  BY <1>1, SameTypes
  DEF ReadLine, TypeOK, Appends, nodeVars, journalVars, ackVars, connVars, childVars

\* ReadFails keeps the types.
LEMMA ReadFailsTyped ==
  ASSUME TypeOK, ReadFails
  PROVE  TypeOK'
<1>1. ChildType'
  BY ConnectionsAssumption, BoundsAssumption, SizesAssumption
  DEF ReadFails, Appends, TypeOK, NodeType, Subscribed, ChildType, NoEntry, Entries, IsRunning
<1>2. QED
  BY <1>1, SameTypes
  DEF ReadFails, TypeOK, Appends, nodeVars, journalVars, ackVars, connVars, childVars

\* ReadEof keeps the types.
LEMMA ReadEofTyped ==
  ASSUME TypeOK, ReadEof
  PROVE  TypeOK'
<1>1. ChildType'
  BY ConnectionsAssumption, BoundsAssumption, SizesAssumption
  DEF ReadEof, TypeOK, NodeType, Subscribed, ChildType, NoEntry, Entries, IsRunning
<1>2. QED
  BY <1>1, SameTypes
  DEF ReadEof, TypeOK, nodeVars, journalVars, ackVars, connVars, childVars

\* WriteStdin keeps the types.
LEMMA WriteStdinTyped ==
  ASSUME TypeOK, WriteStdin
  PROVE  TypeOK'
<1>1. ChildType'
  BY ConnectionsAssumption, BoundsAssumption, SizesAssumption
  DEF WriteStdin, TypeOK, NodeType, Subscribed, ChildType, NoEntry, Entries, IsRunning
<1>2. QED
  BY <1>1, SameTypes
  DEF WriteStdin, TypeOK, nodeVars, journalVars, ackVars, connVars, childVars

\* WriteStdinFails keeps the types.
LEMMA WriteStdinFailsTyped ==
  ASSUME TypeOK, WriteStdinFails
  PROVE  TypeOK'
<1>1. ChildType'
  BY ConnectionsAssumption, BoundsAssumption, SizesAssumption
  DEF WriteStdinFails, Appends, TypeOK, NodeType, Subscribed, ChildType, NoEntry, Entries, IsRunning
<1>2. QED
  BY <1>1, SameTypes
  DEF WriteStdinFails, TypeOK, Appends, nodeVars, journalVars, ackVars, connVars, childVars

\* ChildExits keeps the types.
LEMMA ChildExitsTyped ==
  ASSUME TypeOK, ChildExits
  PROVE  TypeOK'
<1>1. ChildType'
  BY ConnectionsAssumption, BoundsAssumption, SizesAssumption
  DEF ChildExits, TypeOK, NodeType, Subscribed, ChildType, NoEntry, Entries, IsRunning
<1>2. QED
  BY <1>1, SameTypes
  DEF ChildExits, TypeOK, nodeVars, journalVars, ackVars, connVars, childVars

\* KillNotified keeps the types.
LEMMA KillNotifiedTyped ==
  ASSUME TypeOK, KillNotified
  PROVE  TypeOK'
<1>1. TaskType'
  BY ConnectionsAssumption, BoundsAssumption, SizesAssumption
  DEF KillNotified, AbortStdin, TypeOK, NodeType, Subscribed, TaskType, NoDelivery, Nobody
<1>2. ChildType'
  <2>1. pending' \in [Producers -> Entries \cup {NoEntry}]
    BY DEF KillNotified, AbortStdin, TypeOK, ChildType
  <2>2. /\ stdin' \in 0..StdinCapacity /\ writer' = "stopped"
        /\ supervisor' = "killing" /\ kill' = FALSE
    BY SizesAssumption DEF KillNotified, AbortStdin
  <2>3. UNCHANGED <<reader, child, lines, accepted>>
    BY DEF KillNotified
  <2>4. QED
    BY <2>1, <2>2, <2>3 DEF TypeOK, ChildType
<1>3. QED
  BY <1>1, <1>2, SameTypes
  DEF KillNotified, TypeOK, AbortStdin, nodeVars, journalVars, ackVars, connVars, childVars

\* Reap keeps the types.
LEMMA ReapTyped ==
  ASSUME TypeOK, Reap
  PROVE  TypeOK'
<1>1. TaskType'
  BY ConnectionsAssumption, BoundsAssumption, SizesAssumption
  DEF Reap, AbortStdin, TypeOK, NodeType, Subscribed, TaskType, NoDelivery, Nobody
<1>2. ChildType'
  BY ConnectionsAssumption, BoundsAssumption, SizesAssumption
  DEF Reap, AbortStdin, TypeOK, NodeType, Subscribed, ChildType, NoEntry, Entries, IsRunning
<1>3. QED
  BY <1>1, <1>2, SameTypes
  DEF Reap, TypeOK, AbortStdin, nodeVars, journalVars, ackVars, connVars, childVars

\* Drained keeps the types.
LEMMA DrainedTyped ==
  ASSUME TypeOK, Drained
  PROVE  TypeOK'
<1>1. ChildType'
  BY ConnectionsAssumption, BoundsAssumption, SizesAssumption
  DEF Drained, Appends, TypeOK, NodeType, Subscribed, ChildType, NoEntry, Entries, IsRunning
<1>2. QED
  BY <1>1, SameTypes
  DEF Drained, TypeOK, Appends, nodeVars, journalVars, ackVars, connVars, childVars

\* Close keeps the types.
LEMMA CloseTyped ==
  ASSUME TypeOK, Close
  PROVE  TypeOK'
<1>1. NodeType'
  BY ConnectionsAssumption, BoundsAssumption, SizesAssumption
  DEF Close, NotifyWaiters, TypeOK, NodeType, Subscribed, NoSubscriber, NoReplay
<1>2. JournalType'
  BY ConnectionsAssumption, BoundsAssumption, SizesAssumption
  DEF Close, NotifyWaiters, TypeOK, NodeType, Subscribed, JournalType, NoCheckpoint, NoEntry, Entries
<1>3. TaskType'
  BY ConnectionsAssumption, BoundsAssumption, SizesAssumption
  DEF Close, NotifyWaiters, TypeOK, NodeType, Subscribed, TaskType, NoDelivery, Nobody, JournalType
<1>4. ChildType'
  BY ConnectionsAssumption, BoundsAssumption, SizesAssumption
  DEF Close, NotifyWaiters, TypeOK, NodeType, Subscribed, ChildType, NoEntry, Entries, JournalType, IsRunning
<1>5. QED
  BY <1>1, <1>2, <1>3, <1>4, SameTypes
  DEF Close, TypeOK, NotifyWaiters, nodeVars, journalVars, ackVars, connVars, childVars

\* Every step keeps the types: one lemma per action, above.
LEMMA TypeStep == TypeOK /\ [Next]_vars => TypeOK'
<1> SUFFICES ASSUME TypeOK, [Next]_vars PROVE TypeOK'
  OBVIOUS
<1>1. ASSUME NEW c \in Connections, ConnectionStep(c) PROVE TypeOK'
  BY <1>1, AttachTyped, StartTyped, CommitWaitsTyped, CommitRefusedTyped, CommitAcceptedTyped,
     LaneFailsTyped, ConnectionEndsTyped, DetachLaneTyped DEF ConnectionStep
<1>2. ASSUME NEW l \in Leases, DeliveryStep(l) PROVE TypeOK'
  BY <1>2, DeliverEntryTyped, DeliverFenceTyped, DeliverWaitsTyped, PumpWritesTyped,
     DeliverDoneTyped, DeliverFailsTyped, AbortedTyped DEF DeliveryStep
<1>3. ASSUME NEW p \in Producers, AppendStep(p) PROVE TypeOK'
  BY <1>3, AppendAcceptedTyped, AppendWaitsTyped, FrameTooLargeTyped, AppendRefusedTyped
  DEF AppendStep
<1>4. CASE ReadStep
  BY <1>4, ReadLineTyped, ReadFailsTyped, ReadEofTyped DEF ReadStep
<1>5. CASE WriteStep \/ SuperviseStep \/ Close
  BY <1>5, WriteStdinTyped, WriteStdinFailsTyped, ChildExitsTyped, KillNotifiedTyped, ReapTyped,
     DrainedTyped, CloseTyped DEF WriteStep, SuperviseStep
<1>6. CASE UNCHANGED vars
  BY <1>6, SameTypes
  DEF TypeOK, vars, nodeVars, journalVars, ackVars, connVars, childVars
<1>7. QED
  BY <1>1, <1>2, <1>3, <1>4, <1>5, <1>6 DEF Next

\* The initial state has the types.
LEMMA TypeInit == Init => TypeOK
<1> SUFFICES ASSUME Init PROVE TypeOK
  OBVIOUS
<1>1. NodeType
  BY ConnectionsAssumption, BoundsAssumption, SizesAssumption DEF Init, NodeType, Subscribed, NoSubscriber, NoReplay
<1>2. JournalType
  BY ConnectionsAssumption, BoundsAssumption, SizesAssumption DEF Init, JournalType, NoCheckpoint
<1>3. TaskType
  BY ConnectionsAssumption, BoundsAssumption, SizesAssumption DEF Init, TaskType, NoDelivery, Nobody
<1>4. ConnectionType
  BY ConnectionsAssumption, BoundsAssumption, SizesAssumption DEF Init, ConnectionType, NoView, NoRequest
<1>5. ChildType
  <2>1. pending \in [Producers -> Entries \cup {NoEntry}]
    BY DEF Init
  <2>2. 0 \in 0..StdinCapacity /\ 0 \in 0..MaxLines
    BY BoundsAssumption, SizesAssumption
  <2>3. QED
    BY <2>1, <2>2 DEF Init, ChildType
<1>6. QED
  BY <1>1, <1>2, <1>3, <1>4, <1>5 DEF TypeOK

\* Every variable keeps its type in every behaviour.
THEOREM TypeCorrect == Spec => []TypeOK
<1>1. QED
  BY TypeInit, TypeStep, PTL DEF Spec

=============================================================================
