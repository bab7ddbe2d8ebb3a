--------------------------- MODULE RecoverySession ---------------------------
(***************************************************************************)
(* One recoverable session of the runner: a supervised child, the bounded  *)
(* journal of its output, and the single subscriber that replays and then  *)
(* follows that journal.                                                   *)
(*                                                                         *)
(*   runners/caffold/src/session/recovery.rs   the journal (Recovery)      *)
(*   runners/caffold/src/session.rs            child, pipes and supervisor *)
(*   runners/caffold/src/daemon.rs             connections and their lane  *)
(*                                                                         *)
(* Every critical section under Recovery.state is one action.  Recovery's  *)
(* `changed: Notify` is explicit: whoever awaits it is a member of `asleep`*)
(* and only notify_waiters() empties that set, so a forgotten notification *)
(* is a waiter that never looks again.                                     *)
(***************************************************************************)
EXTENDS Integers, FiniteSets, FiniteSetsExt

CONSTANTS
  Connections,   \* backend connections to the runner, each used once
  NoConnection,  \* not a connection
  MaxLease,      \* bound: leases handed out (Uuid::new_v4 per attach)
  MaxLines,      \* bound: lines the child writes on stdout
  MaxInputs,     \* bound: stdin frames accepted
  Capacity,      \* RecoveryLimits.journal_bytes
  FrameSizes,    \* encoded sizes a stdout frame may take
  ControlSize,   \* encoded size of TransportError and Exit entries
  StdinCapacity  \* mpsc capacity of the child's stdin queue

ASSUME ConnectionsAssumption == NoConnection \notin Connections
ASSUME BoundsAssumption == MaxLease \in Nat /\ MaxLines \in Nat /\ MaxInputs \in Nat
ASSUME SizesAssumption ==
  /\ Capacity \in Nat
  /\ FrameSizes \subseteq Nat
  /\ ControlSize \in 1..Capacity   \* limits start at 1024 bytes
  /\ StdinCapacity \in Nat \ {0}

VARIABLES
  node,          \* Node: Detached | Replaying | Live | Closed
  sub,           \* Subscriber of a Replaying or Live node, else NoSubscriber
  replay,        \* the fence of a Replaying node
  journal,       \* seq -> [kind, size]: the retained entries
  bytes,         \* State.bytes
  produced,      \* State.produced
  acknowledged,  \* State.acknowledged
  checkpoint,    \* State.checkpoint, as far as a driver's count of it goes
  deliveries,    \* lease -> the deliver() task spawned for it
  asleep,        \* who awaits `changed`
  subscription,  \* Runner.subscription: the connection that holds it
  lane,          \* connection -> its event lane (none | open | closed)
  conn,          \* connection -> where serve_requests stands
  view,          \* connection -> what its client was told and has read
  request,       \* connection -> the commit being answered
  pending,       \* producer -> the event it is appending
  reader,        \* read_stdout: running | stopped
  writer,        \* write_stdin: running | stopped
  supervisor,    \* supervise: waiting | killing | draining | exiting | finished
  child,         \* the process: running | exited
  kill,          \* the stored permit of Session.kill
  stdin,         \* frames queued for write_stdin
  accepted,      \* history: frames commit() handed to the stdin queue
  lines,         \* history: lines read from stdout (bounded by MaxLines)
  leases         \* history: leases handed out

journalVars == <<journal, bytes, produced>>
ackVars     == <<acknowledged, checkpoint>>
nodeVars    == <<node, sub, replay>>
connVars    == <<subscription, lane, conn, view, request>>
childVars   == <<reader, writer, supervisor, child, kill, stdin, lines>>
vars == <<nodeVars, journalVars, ackVars, deliveries, asleep, connVars,
          pending, childVars, accepted, leases>>

Leases    == 1..MaxLease
Producers == {"stdout", "stdin", "supervisor"}
Fence     == 0          \* a delivery item that is not a journal entry

NoSubscriber == [connection |-> NoConnection, lease |-> 0,
                 delivered |-> 0, inFlight |-> 0]
NoReplay     == [fence |-> 0, offered |-> FALSE, written |-> FALSE]
NoCheckpoint == [through |-> 0, sent |-> 0]
NoView       == [lease |-> 0, got |-> 0, fence |-> FALSE, sent |-> 0]
NoRequest    == [lease |-> 0, through |-> 0, finish |-> FALSE, input |-> FALSE]
NoEntry      == [kind |-> "none", size |-> 0]
NoDelivery   == [pc |-> "none", connection |-> NoConnection, item |-> Fence]
Nobody       == [producers |-> {}, commits |-> {}, deliveries |-> {}]

Subscribed == node \in {"Replaying", "Live"}

\* Session::is_running reads the State the supervisor set.
IsRunning == supervisor \in {"waiting", "killing"}

\* changed.notify_waiters().  (NotifyNobody: a mutant, the call forgotten.)
NotifyNobody  == UNCHANGED asleep
NotifyWaiters == asleep' = Nobody

\* State::detach: the node forgets its subscriber and aborts its task.  An
\* abort lands at the task's next await, so the task itself stays in
\* `deliveries` until Aborted takes it.
Detach ==
  /\ node' = IF node = "Closed" THEN "Closed" ELSE "Detached"
  /\ sub' = NoSubscriber
  /\ replay' = NoReplay

Init ==
  /\ node = "Detached" /\ sub = NoSubscriber /\ replay = NoReplay
  /\ journal = [s \in {} |-> NoEntry] /\ bytes = 0 /\ produced = 0
  /\ acknowledged = 0 /\ checkpoint = NoCheckpoint
  /\ deliveries = [l \in Leases |-> NoDelivery]
  /\ asleep = Nobody
  /\ subscription = NoConnection
  /\ lane = [c \in Connections |-> "none"]
  /\ conn = [c \in Connections |-> "idle"]
  /\ view = [c \in Connections |-> NoView]
  /\ request = [c \in Connections |-> NoRequest]
  /\ pending = [p \in Producers |-> NoEntry]
  /\ reader = "running" /\ writer = "running" /\ supervisor = "waiting"
  /\ child = "running" /\ kill = FALSE
  /\ stdin = 0 /\ accepted = 0 /\ lines = 0 /\ leases = 0

-----------------------------------------------------------------------------
(* Connections: attach, the reply, and the end of a connection.            *)

\* Runner::lane_for refuses while another connection still reads.  A
\* connection whose pump died is not given a second lane: its next reply
\* fails and ends it.
MayHoldLane(c) ==
  \/ subscription = c
  \/ /\ lane[c] = "none"
     /\ \A held \in Connections : subscription = held => lane[held] = "closed"

\* Where a new lease resumes.
ResumeAt == acknowledged

\* Recovery::attach for a client of this incarnation, with the lane_for call
\* in front of it.  No notification: no one may act on the new lease before
\* its reply is written.
Attach(c) ==
  /\ conn[c] = "idle" /\ leases < MaxLease
  /\ MayHoldLane(c)
  /\ node # "Closed"
  /\ Subscribed => lane[sub.connection] = "closed"
  /\ leases' = leases + 1
  /\ subscription' = c
  /\ lane' = [lane EXCEPT ![c] = IF @ = "none" THEN "open" ELSE @]
  /\ node' = "Replaying"
  /\ sub' = [connection |-> c, lease |-> leases + 1,
             delivered |-> ResumeAt, inFlight |-> 0]
  /\ replay' = [fence |-> produced, offered |-> FALSE, written |-> FALSE]
  /\ view' = [view EXCEPT ![c] = [lease |-> leases + 1, got |-> acknowledged,
                                  fence |-> FALSE, sent |-> checkpoint.sent]]
  /\ conn' = [conn EXCEPT ![c] = "replying"]
  /\ UNCHANGED <<journalVars, ackVars, deliveries, asleep, request, pending,
                 childVars, accepted>>

\* replay_when_answered: the reply reached the socket, Recovery::start spawns
\* the delivery task unless the lease was lost meanwhile.
Start(c) ==
  /\ conn[c] = "replying"
  /\ conn' = [conn EXCEPT ![c] = "idle"]
  /\ deliveries' =
       IF sub.lease = view[c].lease /\ deliveries[sub.lease].pc = "none"
       THEN [deliveries EXCEPT ![sub.lease] =
               [pc |-> "ready", connection |-> c, item |-> Fence]]
       ELSE deliveries
  /\ UNCHANGED <<nodeVars, journalVars, ackVars, asleep, subscription, lane,
                 view, request, pending, childVars, accepted, leases>>

\* pump_events returns on a failed socket write; its receiver goes with it.
LaneFails(c) ==
  /\ lane[c] = "open"
  /\ lane' = [lane EXCEPT ![c] = "closed"]
  /\ UNCHANGED <<nodeVars, journalVars, ackVars, deliveries, asleep,
                 subscription, conn, view, request, pending, childVars,
                 accepted, leases>>

\* The first half of release_subscription_of: a connection at its end gives
\* up the subscription it still holds and aborts the pump.
ConnectionEnds(c) ==
  /\ conn[c] \in {"idle", "replying"}
  /\ IF subscription = c
     THEN /\ subscription' = NoConnection
          /\ conn' = [conn EXCEPT ![c] = "releasing"]
     ELSE /\ conn' = [conn EXCEPT ![c] = "gone"]
          /\ UNCHANGED subscription
  /\ lane' = [lane EXCEPT ![c] = "closed"]
  /\ UNCHANGED <<nodeVars, journalVars, ackVars, deliveries, asleep, view,
                 request, pending, childVars, accepted, leases>>

\* same_channel: the lane being closed is still the subscriber's.
\* (HoldsAnyLane: a mutant without that test.)
HoldsAnyLane(c) == Subscribed
HoldsLane(c)    == Subscribed /\ sub.connection = c

\* The second half: Recovery::detach_lane, after the subscription was let go.
DetachLane(c) ==
  /\ conn[c] = "releasing"
  /\ conn' = [conn EXCEPT ![c] = "gone"]
  /\ IF HoldsLane(c)
     THEN Detach /\ NotifyWaiters
     ELSE UNCHANGED <<nodeVars, asleep>>
  /\ UNCHANGED <<journalVars, ackVars, deliveries, subscription, lane, view,
                 request, pending, childVars, accepted, leases>>

-----------------------------------------------------------------------------
(* The commit loop: checkpoints, the end of replay, and input.             *)

\* What a client may ask: a checkpoint, the end of replay (finish), or stdin
\* with its checkpoint (input).  It may use an older lease, a request formed
\* before a reattach, and may run one entry ahead of what it has read.
\* send_recovery answers Exited before it reaches the journal.
Requests(c) ==
  {r \in [lease : 1..leases, through : 0..(view[c].got + 1),
          finish : BOOLEAN, input : BOOLEAN] :
     /\ ~(r.finish /\ r.input)
     /\ r.input => IsRunning /\ accepted < MaxInputs}

\* The requests commit() may look at now: a new one of an idle connection, or
\* the one that connection waits with, once notified.
Asked(c) ==
  CASE conn[c] = "idle" /\ view[c].lease # 0 -> Requests(c)
    [] conn[c] = "committing" /\ c \notin asleep.commits -> {request[c]}
    [] OTHER -> {}

\* The stale-subscriber test.
Owns(c, r) == Subscribed /\ sub.connection = c /\ sub.lease = r.lease

\* A fast client answers before the delivery task has marked its frame, or
\* its fence, as written.
AnsweredEarly(c, r) ==
  /\ Owns(c, r) /\ r.through >= acknowledged
  /\ \/ r.through > sub.delivered /\ sub.inFlight = r.through
     \/ /\ r.through <= sub.delivered /\ r.finish
        /\ node = "Replaying" /\ replay.offered /\ ~replay.written
        /\ r.through = replay.fence

\* A mutant of the checks below: live before the fence was written.
AcceptableBeforeFence(c, r) ==
  /\ Owns(c, r) /\ r.through >= acknowledged /\ r.through <= sub.delivered
  /\ r.finish => node = "Replaying" /\ r.through = replay.fence
  /\ r.input => node = "Live" /\ writer = "running" /\ stdin < StdinCapacity

\* The whole chain of checks, up to the reserved stdin slot.
Acceptable(c, r) ==
  /\ Owns(c, r)
  /\ r.through >= acknowledged /\ r.through <= sub.delivered
  /\ r.finish => node = "Replaying" /\ replay.written /\ r.through = replay.fence
  /\ r.input => node = "Live" /\ writer = "running" /\ stdin < StdinCapacity

Answered(c) ==
  /\ conn' = [conn EXCEPT ![c] = "idle"]
  /\ request' = [request EXCEPT ![c] = NoRequest]

\* The driver counts the inputs it had accepted in the checkpoint it sends.
Sent(c, r) == view[c].sent + (IF r.input THEN 1 ELSE 0)

CommitWaits(c) ==
  \E r \in Asked(c) :
    /\ AnsweredEarly(c, r)
    /\ conn' = [conn EXCEPT ![c] = "committing"]
    /\ request' = [request EXCEPT ![c] = r]
    /\ asleep' = [asleep EXCEPT !.commits = @ \cup {c}]
    /\ UNCHANGED <<nodeVars, journalVars, ackVars, deliveries, subscription,
                   lane, view, pending, childVars, accepted, leases>>

\* A refusal of a new request changes nothing; one that had waited is answered.
CommitRefused(c) ==
  /\ conn[c] = "committing"
  /\ \E r \in Asked(c) : ~AnsweredEarly(c, r) /\ ~Acceptable(c, r)
  /\ Answered(c)
  /\ UNCHANGED <<nodeVars, journalVars, ackVars, deliveries, asleep,
                 subscription, lane, view, pending, childVars, accepted, leases>>

\* Dropping the journal's front while its seq is at most `through`.
Release(through) ==
  LET kept == {s \in DOMAIN journal : s > through}
      gone == DOMAIN journal \ kept
  IN  /\ journal' = [s \in kept |-> journal[s]]
      /\ bytes' = bytes - MapThenSumSet(LAMBDA s : journal[s].size, gone)

CommitAccepted(c) ==
  \E r \in Asked(c) :
    /\ Acceptable(c, r)
    /\ acknowledged' = r.through
    /\ checkpoint' = [through |-> r.through, sent |-> Sent(c, r)]
    /\ Release(r.through)
    /\ node' = IF r.finish THEN "Live" ELSE node
    /\ replay' = IF r.finish THEN NoReplay ELSE replay
    /\ stdin' = IF r.input THEN stdin + 1 ELSE stdin
    /\ accepted' = IF r.input THEN accepted + 1 ELSE accepted
    /\ view' = [view EXCEPT ![c].sent = Sent(c, r)]
    /\ Answered(c)
    /\ NotifyWaiters
    /\ UNCHANGED <<sub, produced, deliveries, subscription, lane, pending,
                   reader, writer, supervisor, child, kill, lines, leases>>

-----------------------------------------------------------------------------
(* deliver(lease): one task per lease, checking its lease at every lock.   *)

\* (CurrentForAny: a mutant, the lease never compared.)
CurrentForAny(l) == Subscribed
Current(l) == Subscribed /\ sub.lease = l

\* (LimitPastFence: a mutant that replays into live output.)
LimitPastFence == produced
Limit == IF node = "Replaying" THEN replay.fence ELSE produced

EntryDue == sub.delivered + 1 <= Limit /\ sub.delivered + 1 \in DOMAIN journal
\* (FenceAfterOutput: a mutant, no fence for an empty replay.)
FenceAfterOutput == node = "Replaying" /\ ~replay.offered /\ replay.fence > 0
FenceDue == node = "Replaying" /\ ~replay.offered

Looking(l) == deliveries[l].pc = "ready" /\ l \notin asleep.deliveries

Offer(l, item) ==
  deliveries' = [deliveries EXCEPT ![l].pc = "sending", ![l].item = item]

DeliverEntry(l) ==
  /\ Looking(l) /\ Current(l) /\ EntryDue
  /\ sub' = [sub EXCEPT !.inFlight = sub.delivered + 1]
  /\ Offer(l, sub.delivered + 1)
  /\ UNCHANGED <<node, replay, journalVars, ackVars, asleep, connVars, pending,
                 childVars, accepted, leases>>

DeliverFence(l) ==
  /\ Looking(l) /\ Current(l) /\ ~EntryDue /\ FenceDue
  /\ replay' = [replay EXCEPT !.offered = TRUE]
  /\ Offer(l, Fence)
  /\ UNCHANGED <<node, sub, journalVars, ackVars, asleep, connVars, pending,
                 childVars, accepted, leases>>

DeliverWaits(l) ==
  /\ Looking(l) /\ Current(l) /\ ~EntryDue /\ ~FenceDue
  /\ asleep' = [asleep EXCEPT !.deliveries = @ \cup {l}]
  /\ UNCHANGED <<nodeVars, journalVars, ackVars, deliveries, connVars, pending,
                 childVars, accepted, leases>>

\* pump_events writes the buffered frame and completes `written`: what the
\* socket took is what the client reads, whoever the subscriber is by now.
PumpWrites(l) ==
  LET c == deliveries[l].connection
      item == deliveries[l].item
  IN  /\ deliveries[l].pc = "sending" /\ lane[c] = "open"
      /\ deliveries' = [deliveries EXCEPT ![l].pc = "written"]
      /\ view' = [view EXCEPT ![c] =
                    IF item = Fence THEN [@ EXCEPT !.fence = TRUE]
                                    ELSE [@ EXCEPT !.got = item]]
      /\ UNCHANGED <<nodeVars, journalVars, ackVars, asleep, subscription, lane,
                     conn, request, pending, childVars, accepted, leases>>

DeliverDone(l) ==
  /\ deliveries[l].pc = "written"
  /\ IF Current(l)
     THEN /\ deliveries' = [deliveries EXCEPT ![l].pc = "ready", ![l].item = Fence]
          /\ IF deliveries[l].item = Fence
             THEN /\ replay' = IF node = "Replaying"
                               THEN [replay EXCEPT !.written = TRUE] ELSE replay
                  /\ UNCHANGED sub
             ELSE /\ sub' = [sub EXCEPT !.delivered = deliveries[l].item,
                                        !.inFlight = 0]
                  /\ UNCHANGED replay
          /\ NotifyWaiters
     ELSE /\ deliveries' = [deliveries EXCEPT ![l] = [NoDelivery EXCEPT !.pc = "done"]]
          /\ UNCHANGED <<sub, replay, asleep>>
  /\ UNCHANGED <<node, journalVars, ackVars, connVars, pending, childVars,
                 accepted, leases>>

\* The lane is gone before the frame was written.
DeliverFails(l) ==
  /\ deliveries[l].pc = "sending" /\ lane[deliveries[l].connection] = "closed"
  /\ deliveries' = [deliveries EXCEPT ![l] = [NoDelivery EXCEPT !.pc = "done"]]
  /\ IF Current(l) THEN Detach /\ NotifyWaiters ELSE UNCHANGED <<nodeVars, asleep>>
  /\ UNCHANGED <<journalVars, ackVars, connVars, pending, childVars, accepted, leases>>

\* A task that lost its lease ends: the abort of Detach lands at an await, or
\* its own lease check at the top of the loop returns.
Aborted(l) ==
  /\ deliveries[l].pc \in {"ready", "sending", "written"} /\ ~Current(l)
  /\ deliveries' = [deliveries EXCEPT ![l] = [NoDelivery EXCEPT !.pc = "done"]]
  /\ asleep' = [asleep EXCEPT !.deliveries = @ \ {l}]
  /\ UNCHANGED <<nodeVars, journalVars, ackVars, connVars, pending, childVars,
                 accepted, leases>>

-----------------------------------------------------------------------------
(* append_wire and the three tasks that call it.                           *)

\* (FitsIfRoom: a mutant that ignores the size of the entry itself.)
FitsIfRoom(entry) == bytes < Capacity
Fits(entry) == bytes + entry.size <= Capacity
Appending(p) == pending[p] # NoEntry /\ p \notin asleep.producers

\* What a producer does once its event is in the journal or refused: the
\* stdout reader goes on after a frame; a reported failure ends its task; the
\* supervisor finishes on Exit either way.
Continue(p, kind) ==
  /\ reader' = IF p = "stdout" /\ kind # "frame" THEN "stopped" ELSE reader
  /\ writer' = IF p = "stdin" THEN "stopped" ELSE writer
  /\ stdin' = IF p = "stdin" THEN 0 ELSE stdin
  /\ supervisor' = IF p = "supervisor" THEN "finished" ELSE supervisor
  /\ pending' = [pending EXCEPT ![p] = NoEntry]

AppendAccepted(p) ==
  /\ Appending(p) /\ node # "Closed"
  /\ Fits(pending[p])
  /\ produced' = produced + 1
  /\ journal' = [s \in DOMAIN journal \cup {produced + 1} |->
                   IF s = produced + 1 THEN pending[p] ELSE journal[s]]
  /\ bytes' = bytes + pending[p].size
  /\ Continue(p, pending[p].kind)
  /\ NotifyWaiters
  /\ UNCHANGED <<nodeVars, ackVars, deliveries, connVars, child, kill, lines,
                 accepted, leases>>

AppendWaits(p) ==
  /\ Appending(p) /\ node # "Closed"
  /\ pending[p].size <= Capacity /\ ~Fits(pending[p])
  /\ asleep' = [asleep EXCEPT !.producers = @ \cup {p}]
  /\ UNCHANGED <<nodeVars, journalVars, ackVars, deliveries, connVars, pending,
                 childVars, accepted, leases>>

\* Output::publish turns a frame no journal could hold into a failure report.
FrameTooLarge(p) ==
  /\ Appending(p) /\ node # "Closed"
  /\ pending[p].size > Capacity
  /\ pending' = [pending EXCEPT ![p] = [kind |-> "failure", size |-> ControlSize]]
  /\ UNCHANGED <<nodeVars, journalVars, ackVars, deliveries, asleep, connVars,
                 childVars, accepted, leases>>

\* A closed session refuses the event and the failure report after it.
AppendRefused(p) ==
  /\ Appending(p) /\ node = "Closed"
  /\ Continue(p, "failure")
  /\ UNCHANGED <<nodeVars, journalVars, ackVars, deliveries, asleep, connVars,
                 child, kill, lines, accepted, leases>>

Idle(p) == pending[p] = NoEntry
Appends(p, kind, size) ==
  pending' = [pending EXCEPT ![p] = [kind |-> kind, size |-> size]]

ReadLine(size) ==
  /\ reader = "running" /\ Idle("stdout") /\ lines < MaxLines
  /\ lines' = lines + 1
  /\ Appends("stdout", "frame", size)
  /\ UNCHANGED <<nodeVars, journalVars, ackVars, deliveries, asleep, connVars,
                 reader, writer, supervisor, child, kill, stdin, accepted, leases>>

\* A line that is not JSON, or a read error: reported, then the reader ends.
ReadFails ==
  /\ reader = "running" /\ Idle("stdout") /\ lines < MaxLines
  /\ lines' = lines + 1
  /\ Appends("stdout", "failure", ControlSize)
  /\ UNCHANGED <<nodeVars, journalVars, ackVars, deliveries, asleep, connVars,
                 reader, writer, supervisor, child, kill, stdin, accepted, leases>>

ReadEof ==
  /\ reader = "running" /\ Idle("stdout") /\ child = "exited"
  /\ reader' = "stopped"
  /\ UNCHANGED <<nodeVars, journalVars, ackVars, deliveries, asleep, connVars,
                 pending, writer, supervisor, child, kill, stdin, lines,
                 accepted, leases>>

WriteStdin ==
  /\ writer = "running" /\ Idle("stdin") /\ stdin > 0
  /\ stdin' = stdin - 1
  /\ UNCHANGED <<nodeVars, journalVars, ackVars, deliveries, asleep, connVars,
                 pending, reader, writer, supervisor, child, kill, lines,
                 accepted, leases>>

WriteStdinFails ==
  /\ writer = "running" /\ Idle("stdin") /\ stdin > 0
  /\ stdin' = stdin - 1
  /\ Appends("stdin", "failure", ControlSize)
  /\ UNCHANGED <<nodeVars, journalVars, ackVars, deliveries, asleep, connVars,
                 reader, writer, supervisor, child, kill, lines, accepted, leases>>

-----------------------------------------------------------------------------
(* supervise, and Session::close.                                          *)

\* (AbortStdinUnawaited: a mutant, a blocked failure report outlives its task.)
AbortStdinUnawaited == writer' = "stopped" /\ stdin' = 0 /\ UNCHANGED <<pending, asleep>>

\* pipes.stdin.abort(): the queue closes and a failure report still waiting
\* for room is dropped with the task.
AbortStdin ==
  /\ writer' = "stopped" /\ stdin' = 0
  /\ pending' = [pending EXCEPT !["stdin"] = NoEntry]
  /\ asleep' = [asleep EXCEPT !.producers = @ \ {"stdin"}]

ChildExits ==
  /\ child = "running"
  /\ child' = "exited"
  /\ UNCHANGED <<nodeVars, journalVars, ackVars, deliveries, asleep, connVars,
                 pending, reader, writer, supervisor, kill, stdin, lines,
                 accepted, leases>>

\* EOF on stdin first; start_kill after the grace period.
KillNotified ==
  /\ supervisor = "waiting" /\ kill
  /\ kill' = FALSE
  /\ supervisor' = "killing"
  /\ AbortStdin
  /\ UNCHANGED <<nodeVars, journalVars, ackVars, deliveries, connVars, reader,
                 child, lines, accepted, leases>>

Reap ==
  /\ IsRunning /\ child = "exited"
  /\ supervisor' = "draining"
  /\ AbortStdin
  /\ UNCHANGED <<nodeVars, journalVars, ackVars, deliveries, connVars, reader,
                 child, kill, lines, accepted, leases>>

\* pipes.stdout.await: what the child left in the pipe precedes its Exit.
Drained ==
  /\ supervisor = "draining" /\ reader = "stopped"
  /\ supervisor' = "exiting"
  /\ Appends("supervisor", "exit", ControlSize)
  /\ UNCHANGED <<nodeVars, journalVars, ackVars, deliveries, asleep, connVars,
                 reader, writer, child, kill, stdin, lines, accepted, leases>>

\* Session::close up to its wait for `finished`: the accepted loss boundary.
Close ==
  /\ node # "Closed"
  /\ node' = "Closed" /\ sub' = NoSubscriber /\ replay' = NoReplay
  /\ journal' = [s \in {} |-> NoEntry] /\ bytes' = 0
  /\ checkpoint' = NoCheckpoint
  /\ kill' = TRUE
  /\ NotifyWaiters
  /\ UNCHANGED <<produced, acknowledged, deliveries, connVars, pending, reader,
                 writer, supervisor, child, stdin, lines, accepted, leases>>

-----------------------------------------------------------------------------

ConnectionStep(c) ==
  \/ Attach(c) \/ Start(c)
  \/ CommitWaits(c) \/ CommitRefused(c) \/ CommitAccepted(c)
  \/ LaneFails(c) \/ ConnectionEnds(c) \/ DetachLane(c)

DeliveryStep(l) ==
  \/ DeliverEntry(l) \/ DeliverFence(l) \/ DeliverWaits(l)
  \/ PumpWrites(l) \/ DeliverDone(l) \/ DeliverFails(l) \/ Aborted(l)

AppendStep(p) ==
  AppendAccepted(p) \/ AppendWaits(p) \/ FrameTooLarge(p) \/ AppendRefused(p)

ReadStep == (\E size \in FrameSizes : ReadLine(size)) \/ ReadFails \/ ReadEof
WriteStep == WriteStdin \/ WriteStdinFails
SuperviseStep == ChildExits \/ KillNotified \/ Reap \/ Drained

Next ==
  \/ \E c \in Connections : ConnectionStep(c)
  \/ \E l \in Leases : DeliveryStep(l)
  \/ \E p \in Producers : AppendStep(p)
  \/ ReadStep \/ WriteStep \/ SuperviseStep \/ Close

Spec == Init /\ [][Next]_vars

\* Tasks run, the pump writes or its socket fails, replies are written, and a
\* process that was sent SIGKILL ends and its stdout with it (a descendant that
\* keeps the pipe open makes close() answer CloseFailed instead).  Clients and
\* the child owe nothing.
Fairness ==
  /\ \A l \in Leases :
       /\ WF_vars(DeliverEntry(l) \/ DeliverFence(l) \/ DeliverWaits(l)
                  \/ DeliverDone(l) \/ DeliverFails(l) \/ Aborted(l))
       /\ WF_vars(PumpWrites(l))
  /\ \A c \in Connections :
       /\ WF_vars(Start(c)) /\ WF_vars(DetachLane(c))
       /\ WF_vars(conn[c] = "committing"
                    /\ (CommitWaits(c) \/ CommitRefused(c) \/ CommitAccepted(c)))
  /\ \A p \in Producers : WF_vars(AppendStep(p))
  /\ WF_vars(ReadEof) /\ WF_vars(KillNotified) /\ WF_vars(Reap) /\ WF_vars(Drained)
  /\ WF_vars(supervisor = "killing" /\ ChildExits)

FairSpec == Spec /\ Fairness

-----------------------------------------------------------------------------
(* Properties.                                                             *)

Entries == [kind : {"frame", "failure", "exit"}, size : FrameSizes \cup {ControlSize}]

NodeType ==
  /\ node \in {"Detached", "Replaying", "Live", "Closed"}
  /\ sub \in [connection : Connections \cup {NoConnection}, lease : 0..MaxLease,
              delivered : Nat, inFlight : Nat]
  /\ Subscribed <=> sub.lease # 0
  /\ Subscribed <=> sub.connection # NoConnection
  /\ replay \in [fence : Nat, offered : BOOLEAN, written : BOOLEAN]
  /\ leases \in 0..MaxLease

JournalType ==
  /\ DOMAIN journal \subseteq Nat
  /\ \A s \in DOMAIN journal : journal[s] \in Entries
  /\ produced \in Nat /\ acknowledged \in Nat
  /\ checkpoint \in [through : Nat, sent : Nat]

TaskType ==
  /\ deliveries \in [Leases -> [pc : {"none", "ready", "sending", "written", "done"},
                                connection : Connections \cup {NoConnection},
                                item : Nat]]
  /\ asleep \in [producers : SUBSET Producers, commits : SUBSET Connections,
                 deliveries : SUBSET Leases]

ConnectionType ==
  /\ subscription \in Connections \cup {NoConnection}
  /\ lane \in [Connections -> {"none", "open", "closed"}]
  /\ conn \in [Connections -> {"idle", "replying", "committing", "releasing", "gone"}]
  /\ view \in [Connections -> [lease : 0..MaxLease, got : Nat, fence : BOOLEAN,
                               sent : Nat]]
  /\ request \in [Connections -> [lease : 0..MaxLease, through : Nat,
                                  finish : BOOLEAN, input : BOOLEAN]]

ChildType ==
  /\ pending \in [Producers -> Entries \cup {NoEntry}]
  /\ reader \in {"running", "stopped"} /\ writer \in {"running", "stopped"}
  /\ supervisor \in {"waiting", "killing", "draining", "exiting", "finished"}
  /\ child \in {"running", "exited"} /\ kill \in BOOLEAN
  /\ stdin \in 0..StdinCapacity /\ accepted \in Nat /\ lines \in 0..MaxLines

\* Every variable keeps its type (bytes is what BytesAccounted says); a
\* subscriber exists exactly while the node is Replaying or Live, as in enum
\* Node, and stdin never exceeds the slots commit() reserves from.
TypeOK == NodeType /\ JournalType /\ TaskType /\ ConnectionType /\ ChildType

\* The journal is exactly what was produced and not yet acknowledged: no entry
\* is lost on detach, released early or kept after its acknowledgement.
JournalIsUnacknowledged ==
  IF node = "Closed" THEN DOMAIN journal = {}
                     ELSE DOMAIN journal = (acknowledged + 1)..produced

\* The byte count that decides backpressure is the size of what is retained,
\* and never exceeds the limit whatever the order of appends and releases.
BytesAccounted ==
  /\ bytes = MapThenSumSet(LAMBDA s : journal[s].size, DOMAIN journal)
  /\ bytes <= Capacity

\* What the runner believes of its subscriber and what that client has really
\* read agree up to the one frame in flight, however stale tasks interleave.
SubscriberPosition ==
  Subscribed =>
    LET v == view[sub.connection] IN
    /\ v.lease = sub.lease
    /\ acknowledged <= sub.delivered /\ sub.delivered <= v.got
    /\ v.got <= produced /\ v.got <= sub.delivered + 1
    /\ sub.inFlight \in {0, sub.delivered + 1}
    /\ v.got > sub.delivered => sub.inFlight = v.got

\* The stored checkpoint counts exactly the stdin frames that were accepted: a
\* backend that lost its answer learns from the next snapshot which were.
InputsMatchCheckpoint ==
  node # "Closed" => checkpoint = [through |-> acknowledged, sent |-> accepted]

\* Replay ends at the frozen fence: its client reads nothing past the fence,
\* the fence after everything before it, and is live only having read it.
ReplayIsExact ==
  /\ node = "Replaying" =>
       LET v == view[sub.connection] IN
       /\ v.got <= replay.fence
       /\ v.fence => v.got = replay.fence
  /\ node = "Live" => view[sub.connection].fence

\* Nobody awaits `changed` while the state already lets it go on: a producer
\* only without room, a delivery only with nothing due, a commit of the
\* current lease only for the one frame or fence in flight.
NoLostWakeup ==
  /\ \A p \in asleep.producers : node # "Closed" /\ pending[p] # NoEntry /\ ~Fits(pending[p])
  /\ \A l \in asleep.deliveries : Current(l) => ~EntryDue /\ ~FenceDue
  /\ \A c \in asleep.commits :
       Owns(c, request[c]) => AnsweredEarly(c, request[c])

\* A client reads every entry once and in order within a lease, and a new
\* lease starts at the checkpoint it was given.
ReadsInOrder ==
  [][\A c \in Connections :
       view'[c].got # view[c].got =>
         IF view'[c].lease = view[c].lease
         THEN view'[c].got = view[c].got + 1
         ELSE view'[c].got = checkpoint.through]_vars

\* A subscriber loses its stream only to its own dead lane or to Close: the
\* late cleanup of an older lease or connection never takes it away.
SubscriberKeepsItsStream ==
  [][Subscribed /\ sub'.lease # sub.lease =>
       node' = "Closed" \/ lane[sub.connection] = "closed"]_vars

\* Exit is the last entry: nothing the child wrote, and no late transport
\* failure, is journaled after it.
ExitIsLast == [][supervisor = "finished" => produced' = produced]_vars

\* Every replay reaches its fence, unless the subscriber is lost.
ReplayReachesFence ==
  \A l \in Leases :
    node = "Replaying" /\ sub.lease = l
      ~> sub.lease # l \/ view[sub.connection].fence

\* A live subscriber reads everything produced, unless it is lost.
LiveReadsEverything ==
  \A l \in Leases, n \in 1..(MaxLines + 1) :
    node = "Live" /\ sub.lease = l /\ produced >= n
      ~> sub.lease # l \/ view[sub.connection].got >= n

\* Closing ends the child and its supervisor even with the journal full and
\* every producer blocked: `finished` is what Session::close waits for.
CloseFinishes == node = "Closed" ~> supervisor = "finished"

\* The session, with its tasks, lanes, waits and crashes of either side,
\* implements the stream of OutputStream: a stale task that wrote to, counted
\* for or detached the wrong reader would be a step the stream does not have.
Stream == INSTANCE OutputStream WITH
  phase    <- CASE node = "Detached"  -> "idle"
                [] node = "Replaying" -> "replay"
                [] node = "Live"      -> "live"
                [] OTHER              -> "closed",
  reader   <- sub.lease,
  mark     <- replay.fence,
  read     <- IF Subscribed THEN view[sub.connection].got ELSE 0,
  produced <- produced,
  released <- acknowledged,
  inputs   <- accepted,
  recorded <- checkpoint.sent

ImplementsStream == Stream!Spec

=============================================================================
