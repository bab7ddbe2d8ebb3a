------------------------- MODULE AntigravitySession -------------------------
(***************************************************************************)
(* The Antigravity driver's session on a recoverable child: how prompts,   *)
(* steering, Stop and permission answers reach the child exactly as their  *)
(* callers were told, across lost connections, unanswered commits and      *)
(* backend restarts.                                                       *)
(*                                                                         *)
(*   agent/antigravity.rs                   open_for, close_session        *)
(*   agent/antigravity/session.rs           requests, Stop, retire, close  *)
(*   agent/antigravity/session/state.rs     the checkpoint, Input, Phase   *)
(*   agent/antigravity/session/reading.rs   applying the child's output    *)
(*   agent/antigravity/session/permission.rs   answering questions         *)
(*   agent/runner.rs                        the shared wire and its sinks  *)
(*                                                                         *)
(* The runner's side is the commit, attach and detach that RecoverySession *)
(* models in detail.  `outbound` is held from the encoding of a checkpoint *)
(* until its commit is settled, so the one commit in flight is `commit`.   *)
(***************************************************************************)
EXTENDS Integers, Sequences, FiniteSets

CONSTANTS
  Callers,    \* requests of the application running at once
  Asks,       \* permission requests and other calls the child may make
  MaxRpc,     \* bound: RPC identifiers handed out
  MaxOutput,  \* bound: frames one child writes
  MaxFaults   \* bound: restarts, lost connections and unanswered commits

ASSUME BoundsAssumption == MaxRpc \in Nat /\ MaxOutput \in Nat /\ MaxFaults \in Nat

VARIABLES
  output,    \* the frames the child wrote, the runner's seq being the index
  stdin,     \* the frames the runner handed to the child
  saved,     \* the runner's [through, cp]: acknowledged prefix, checkpoint
  node,      \* the runner's session: none | Detached | Replaying | Live
  fence,     \* the fence of the current attachment
  wire,      \* RunnerClient.wire: up | down
  sink,      \* Wire.sessions holds an entry for this Task
  orphan,    \* a commit its sender gave up on, still on the wire
  slot,      \* Slot.session: empty | held
  opener,    \* open_for/close_session under the slot's lock
  phase,     \* State.phase
  failure,   \* State.failure
  cp,        \* State.checkpoint
  through,   \* State.through
  replayed,  \* State.replay_complete
  reader,    \* where Session::read stands
  commit,    \* the commit awaited under `outbound`
  caller,    \* what each caller is doing, and what it was told
  faults     \* history: faults so far (bounded by MaxFaults)

runnerVars  == <<saved, node, fence>>
childVars   == <<output, stdin>>
wireVars    == <<wire, sink, orphan>>
stateVars   == <<phase, failure, cp, through, replayed>>
sessionVars == <<stateVars, reader, commit, slot, opener>>
vars == <<childVars, runnerVars, wireVars, sessionVars, caller, faults>>

Rpcs == 1..MaxRpc
IdleInput == [st |-> "idle", anchor |-> 0, reqs |-> {}, acc |-> {}, started |-> FALSE]
Fresh == [next |-> 1, loaded |-> FALSE, setup |-> 0, pending |-> {}, asks |-> {},
          responses |-> {}, input |-> IdleInput]
NoCommit == [who |-> "nobody"]
Quiet    == [pc |-> "idle", rpc |-> 0, told |-> "nothing"]
NothingSaved == [through |-> 0, cp |-> Fresh]

Init ==
  /\ output = <<>> /\ stdin = <<>> /\ saved = NothingSaved
  /\ node = "none" /\ fence = 0
  /\ wire = "down" /\ sink = FALSE /\ orphan = NoCommit
  /\ slot = "empty" /\ opener = "idle"
  /\ phase = "Absent" /\ failure = "none" /\ cp = Fresh /\ through = 0 /\ replayed = FALSE
  /\ reader = "off" /\ commit = NoCommit
  /\ caller = [c \in Callers |-> Quiet] /\ faults = 0

-----------------------------------------------------------------------------
(* Input and Checkpoint: the pure transitions of state.rs.                 *)

Begun(id)        == [IdleInput EXCEPT !.st = "pending", !.anchor = id, !.reqs = {id}]
Steered(in, id)  == [in EXCEPT !.reqs = @ \cup {id}]
Accepted(in, id) == IF id \in in.reqs THEN [in EXCEPT !.acc = @ \cup {id}] ELSE in
Started(in)      == IF in.st = "idle" THEN in ELSE [in EXCEPT !.started = TRUE]
Stopped(in)      == IF in.st = "pending" THEN [in EXCEPT !.st = "stopping"] ELSE in
FinishedButAccepted(in, id) ==
  IF in.reqs = {id} THEN IdleInput ELSE [in EXCEPT !.reqs = @ \ {id}]
Finished(in, id) ==
  CASE id \notin in.reqs -> in
    [] in.reqs = {id}    -> IdleInput
    [] OTHER             -> [in EXCEPT !.reqs = @ \ {id}, !.acc = @ \ {id}]
CancelDueEarly(in) == in.st = "stopping" /\ in.acc # {}
CancelDue(in) == in.st = "stopping" /\ in.started /\ in.acc # {}
CancelAccepted(in, anchor) ==
  IF in.st # "idle" /\ in.anchor = anchor /\ in.st # "pending"
  THEN [in EXCEPT !.st = "cancelled"] ELSE in
CancelRefused(in, anchor) ==
  IF in.st = "stopping" /\ in.anchor = anchor THEN [in EXCEPT !.st = "pending"] ELSE in

(* What a new Session makes of the runner's checkpoint: a prompt it does not *)
(* record as accepted was never enqueued.                                    *)
Unaccepted(in) == in.reqs \ in.acc
RestoredUnasked(c) == [c EXCEPT !.pending = @ \ Unaccepted(c.input), !.asks = {}]
Restored(c) ==
  LET left == c.input.acc IN
  [c EXCEPT !.pending = @ \ Unaccepted(c.input),
            !.input = IF left = {} THEN IdleInput ELSE [@ EXCEPT !.reqs = left]]

Answer == {"reply", "error"}
Known(c, frame) == frame.kind \in Answer => frame.id \in c.pending \cup ({c.setup} \ {0})
RepliedStillPending(c, id) == [c EXCEPT !.input = Finished(@, id)]
Replied(c, id) == [c EXCEPT !.pending = @ \ {id}, !.input = Finished(@, id)]
Applied(c, frame) ==
  CASE frame.kind = "reply" /\ frame.id = c.setup -> [c EXCEPT !.setup = 0, !.loaded = TRUE]
    [] frame.kind = "error" /\ frame.id = c.setup -> [c EXCEPT !.setup = 0]
    [] frame.kind \in Answer /\ frame.id # c.setup -> Replied(c, frame.id)
    [] frame.kind = "work"  -> [c EXCEPT !.input = Started(@)]
    [] frame.kind = "ask"   -> [c EXCEPT !.input = Started(@), !.asks = @ \cup {frame.id}]
    [] frame.kind = "done"  -> [c EXCEPT !.asks = @ \ {frame.id}]
    [] frame.kind = "call"  -> [c EXCEPT !.responses = @ \cup {frame.id}]
    [] OTHER -> c

-----------------------------------------------------------------------------
(* The connection's phase and the loss of it.                              *)

Lost(why) ==
  IF phase = "Absent" THEN UNCHANGED <<phase, failure>>
  ELSE phase' = "Unavailable" /\ failure' = why

OutboundFree == commit = NoCommit
Ending == phase \in {"Closing", "Absent"}
Attached == node \in {"Replaying", "Live"}

(* A commit encoded under `outbound`; `wire.alive` is read before dispatch. *)
Sends(who, kind, id, encoded) ==
  /\ OutboundFree
  /\ commit' = [who |-> who, kind |-> kind, id |-> id, through |-> through, cp |-> encoded,
                status |-> IF wire = "up" THEN "sent" ELSE "gone"]

-----------------------------------------------------------------------------
(* The child.  It may answer any prompt it was given, accept or refuse its  *)
(* setup, work or ask while a prompt runs, settle a question, call a method *)
(* the driver does not have, and exit.                                      *)

GivenTo(child, kind, id) == \E i \in DOMAIN child : child[i] = [kind |-> kind, id |-> id]
Given(kind, id) == GivenTo(stdin, kind, id)
Wrote(kind, id) == GivenTo(output, kind, id)
Answered(id) == \E kind \in Answer : Wrote(kind, id)
Running == \E id \in Rpcs : Given("prompt", id) /\ ~Answered(id)
Alive == node # "none" /\ ~Wrote("exit", 0) /\ Len(output) < MaxOutput
Writes(kind, id) == output' = Append(output, [kind |-> kind, id |-> id])

ChildReplies(id) ==
  Alive /\ (Given("prompt", id) \/ Given("setup", id)) /\ ~Answered(id) /\ Writes("reply", id)
ChildRefuses(id) == Alive /\ Given("setup", id) /\ ~Answered(id) /\ Writes("error", id)
ChildWorks     == Alive /\ Running /\ Writes("work", 0)
ChildAsks(k)   == Alive /\ Running /\ ~Wrote("ask", k) /\ Writes("ask", k)
ChildSettles(k) == Alive /\ Wrote("ask", k) /\ ~Wrote("done", k) /\ Writes("done", k)
ChildCalls(k)  == Alive /\ Running /\ ~Wrote("call", k) /\ Writes("call", k)
ChildExits     == Alive /\ Writes("exit", 0)

Child ==
  /\ \/ \E id \in Rpcs : ChildReplies(id) \/ ChildRefuses(id)
     \/ \E k \in Asks : ChildAsks(k) \/ ChildSettles(k) \/ ChildCalls(k)
     \/ ChildWorks \/ ChildExits
  /\ UNCHANGED <<stdin, runnerVars, wireVars, sessionVars, caller, faults>>

-----------------------------------------------------------------------------
(* The runner: one commit at a time, in the order they were written.       *)

IsInput(r) == r.kind \in {"prompt", "setup", "cancel", "answer", "respond"}
Acceptable(r) ==
  /\ Attached
  /\ r.through >= saved.through
  /\ IsInput(r) => node = "Live"
  /\ r.kind = "fence" => node = "Replaying" /\ r.through = fence

Commits(r) ==
  /\ saved' = [through |-> r.through, cp |-> r.cp]
  /\ stdin' = IF IsInput(r) THEN Append(stdin, [kind |-> r.kind, id |-> r.id]) ELSE stdin
  /\ node' = IF r.kind = "fence" THEN "Live" ELSE node

RunnerAnswers ==
  /\ commit # NoCommit /\ commit.status = "sent" /\ orphan = NoCommit
  /\ \/ Acceptable(commit) /\ Commits(commit) /\ commit' = [commit EXCEPT !.status = "ok"]
     \/ /\ ~Acceptable(commit) /\ commit' = [commit EXCEPT !.status = "refused"]
        /\ UNCHANGED <<saved, stdin, node>>
     \/ /\ Acceptable(commit) /\ IsInput(commit)   \* the child's stdin queue is full
        /\ commit' = [commit EXCEPT !.status = "full"]
        /\ UNCHANGED <<saved, stdin, node>>
  /\ UNCHANGED <<output, fence, wireVars, stateVars, reader, slot, opener, caller, faults>>

OrphanRuns ==
  /\ orphan # NoCommit /\ orphan' = NoCommit
  /\ IF Acceptable(orphan) THEN Commits(orphan) ELSE UNCHANGED <<saved, stdin, node>>
  /\ UNCHANGED <<output, fence, wire, sink, sessionVars, caller, faults>>

-----------------------------------------------------------------------------
(* Callers: start_turn, steer_turn, interrupt and resolve_approval.        *)

Sets(c, pc, rpc, told) == caller' = [caller EXCEPT ![c] = [pc |-> pc, rpc |-> rpc, told |-> told]]
Unsent == UNCHANGED <<childVars, runnerVars, wireVars, through, replayed, reader, slot, opener, faults>>

Reserve(c) ==
  /\ caller[c].pc = "idle" /\ phase = "Ready" /\ cp.input.st = "idle" /\ cp.next \in Rpcs
  /\ cp' = [cp EXCEPT !.next = @ + 1, !.input = Begun(cp.next)]
  /\ Sets(c, "reserved", cp.next, "nothing")
  /\ Unsent /\ UNCHANGED <<phase, failure, commit>>

Steer(c) ==
  /\ caller[c].pc = "idle" /\ phase = "Ready" /\ cp.input.st = "pending"
  /\ cp.asks = {} /\ cp.next \in Rpcs
  /\ cp' = [cp EXCEPT !.next = @ + 1, !.input = Steered(@, cp.next)]
  /\ Sets(c, "steering", cp.next, "nothing")
  /\ Unsent /\ UNCHANGED <<phase, failure, commit>>

(* Options or an image could not be prepared: release_reservation. *)
ReleaseReservation(c) ==
  /\ caller[c].pc = "reserved"
  /\ cp' = IF phase = "Ready" THEN [cp EXCEPT !.input = Finished(@, caller[c].rpc)] ELSE cp
  /\ Sets(c, "idle", caller[c].rpc, "rejected")
  /\ Unsent /\ UNCHANGED <<phase, failure, commit>>

(* The checkpoint a request commits with its frame. *)
WithPrompt(c, id) == [c EXCEPT !.pending = @ \cup {id}]
EncodedPrompt(c, id) == [WithPrompt(c, id) EXCEPT !.input = Accepted(@, id)]

Dispatch(c) ==
  /\ caller[c].pc \in {"reserved", "steering"} /\ OutboundFree
  /\ LET id == caller[c].rpc IN
     IF phase \in {"Closing", "Absent", "Unavailable"} \/ id \notin cp.input.reqs
     THEN Sets(c, "idle", id, "rejected") /\ UNCHANGED <<cp, commit>>
     ELSE /\ Sends(c, "prompt", id, EncodedPrompt(cp, id))
          /\ cp' = WithPrompt(cp, id)
          /\ Sets(c, "sending", id, "nothing")
  /\ Unsent /\ UNCHANGED <<phase, failure>>

(* A caller whose Session object was replaced: that one is never Ready again. *)
DispatchStale(c) ==
  /\ caller[c].pc = "stale"
  /\ Sets(c, "idle", 0, "nothing")
  /\ Unsent /\ UNCHANGED <<phase, failure, cp, commit>>

Stop(c) ==
  /\ caller[c].pc = "idle" /\ phase = "Ready" /\ cp.input.st = "pending"
  /\ cp' = [cp EXCEPT !.input = Stopped(@)]
  /\ Sets(c, "cancelling", 0, "nothing")
  /\ Unsent /\ UNCHANGED <<phase, failure, commit>>

EncodedCancel(c) == [c EXCEPT !.input = CancelAccepted(@, @.anchor)]
CancelOnceDue(c) ==
  /\ caller[c].pc = "cancelling" /\ OutboundFree /\ CancelDue(cp.input)
  /\ Sends(c, "cancel", cp.input.anchor, EncodedCancel(cp))
  /\ caller' = [caller EXCEPT ![c].pc = "sending"]
  /\ Unsent /\ UNCHANGED <<phase, failure, cp>>
CancelIfDue(c) ==
  /\ caller[c].pc = "cancelling" /\ OutboundFree
  /\ IF CancelDue(cp.input)
     THEN /\ Sends(c, "cancel", cp.input.anchor, EncodedCancel(cp))
          /\ caller' = [caller EXCEPT ![c].pc = "sending"]
     ELSE caller' = [caller EXCEPT ![c].pc = "idle"] /\ UNCHANGED commit
  /\ Unsent /\ UNCHANGED <<phase, failure, cp>>

Resolve(c, k) ==
  /\ caller[c].pc = "idle" /\ phase = "Ready" /\ k \in cp.asks
  /\ Sends(c, "answer", k, [cp EXCEPT !.asks = @ \ {k}])
  /\ Sets(c, "sending", 0, "nothing")
  /\ Unsent /\ UNCHANGED <<phase, failure, cp>>

-----------------------------------------------------------------------------
(* What the holder of `outbound` does with the runner's answer.            *)

Settled(kind) == commit # NoCommit /\ commit.kind = kind /\ commit.status # "sent" /\ commit' = NoCommit
Unknown == commit.status = "unknown"
VerdictWithoutDoubt == IF commit.status = "ok" THEN "accepted" ELSE "rejected"
Verdict ==
  CASE commit.status = "ok" -> "accepted" [] Unknown -> "unknown" [] OTHER -> "rejected"
AfterSettling == UNCHANGED <<childVars, runnerVars, wireVars, through, slot, faults>>

SettlePrompt ==
  /\ Settled("prompt")
  /\ LET c == commit.who   id == commit.id IN
     IF commit.status = "ok"
     THEN /\ cp' = [cp EXCEPT !.input = Accepted(@, id)]
          /\ Sets(c, "cancelling", id, Verdict) /\ UNCHANGED <<phase, failure>>
     ELSE /\ cp' = IF Unknown THEN cp
                   ELSE [cp EXCEPT !.pending = @ \ {id}, !.input = Finished(@, id)]
          /\ Sets(c, "idle", id, Verdict)
          /\ IF commit.status = "full" THEN UNCHANGED <<phase, failure>> ELSE Lost("lost")
  /\ AfterSettling /\ UNCHANGED <<replayed, reader, opener>>

SettleSetup ==
  /\ Settled("setup")
  /\ IF commit.status = "ok" THEN opener' = "waiting" /\ UNCHANGED <<cp, phase, failure>>
     ELSE /\ cp' = IF Unknown THEN cp ELSE [cp EXCEPT !.setup = 0]
          /\ opener' = "idle"
          /\ IF commit.status = "full" THEN UNCHANGED <<phase, failure>> ELSE Lost("lost")
  /\ AfterSettling /\ UNCHANGED <<replayed, reader, caller>>

SettleCancel ==
  /\ Settled("cancel")
  /\ LET anchor == commit.id   byReader == commit.who = "reader"
         again == IF byReader /\ commit.status = "ok" THEN "idle" ELSE "off" IN
     /\ cp' = CASE commit.status = "ok" -> [cp EXCEPT !.input = CancelAccepted(@, anchor)]
                [] Unknown              -> cp
                [] OTHER                -> [cp EXCEPT !.input = CancelRefused(@, anchor)]
     /\ IF byReader
        THEN reader' = again /\ UNCHANGED caller
        ELSE caller' = [caller EXCEPT ![commit.who].pc = "idle"] /\ UNCHANGED reader
     /\ IF commit.status = "ok" \/ (~byReader /\ ~Unknown) \/ (byReader /\ Ending /\ ~Unknown)
        THEN UNCHANGED <<phase, failure>>
        ELSE Lost(IF commit.status = "refused" THEN "refused" ELSE "lost")
  /\ AfterSettling /\ UNCHANGED <<replayed, opener>>

SettleAnswer ==
  /\ Settled("answer")
  /\ cp' = IF commit.status = "ok" THEN [cp EXCEPT !.asks = @ \ {commit.id}] ELSE cp
  /\ Sets(commit.who, "idle", 0, "nothing")
  /\ IF Unknown THEN Lost("lost") ELSE UNCHANGED <<phase, failure>>
  /\ AfterSettling /\ UNCHANGED <<replayed, reader, opener>>

SettleAck ==
  /\ Settled("ack") \/ Settled("fence")
  /\ IF commit.status = "ok"
     THEN /\ reader' = "acked" /\ replayed' = (replayed \/ commit.kind = "fence")
          /\ UNCHANGED <<phase, failure>>
     ELSE /\ reader' = "off" /\ UNCHANGED replayed
          /\ IF Ending THEN UNCHANGED <<phase, failure>> ELSE Lost("lost")
  /\ AfterSettling /\ UNCHANGED <<cp, opener, caller>>

SettleResponse ==
  /\ Settled("respond")
  /\ IF commit.status = "ok"
     THEN /\ cp' = [cp EXCEPT !.responses = @ \ {commit.id}] /\ reader' = "acked"
          /\ UNCHANGED <<phase, failure>>
     ELSE /\ reader' = "off" /\ UNCHANGED cp
          /\ IF Ending THEN UNCHANGED <<phase, failure>> ELSE Lost("lost")
  /\ AfterSettling /\ UNCHANGED <<replayed, opener, caller>>

Settle == SettlePrompt \/ SettleSetup \/ SettleCancel \/ SettleAnswer \/ SettleAck \/ SettleResponse

-----------------------------------------------------------------------------
(* Session::read: apply one frame, count it, acknowledge the prefix, send  *)
(* the responses the child waits for and a cancel that has become due.     *)
(* The frame is applied in one critical section and counted in the next.   *)

ReaderFrame == UNCHANGED <<childVars, runnerVars, wireVars, replayed, slot, opener, caller, faults>>
Limit == IF node = "Replaying" THEN fence ELSE Len(output)
Listening == reader = "idle" /\ wire = "up" /\ sink

ApplyFrame ==
  /\ Listening /\ Attached /\ through < Limit
  /\ LET frame == output[through + 1] IN
     CASE Ending -> reader' = "off" /\ UNCHANGED <<cp, phase, failure>>
       [] ~Ending /\ (frame.kind = "exit" \/ ~Known(cp, frame)) ->
            /\ reader' = "off" /\ UNCHANGED cp
            /\ Lost(IF frame.kind = "exit" THEN "ended" ELSE "protocol")
       [] OTHER -> reader' = "applied" /\ cp' = Applied(cp, frame) /\ UNCHANGED <<phase, failure>>
  /\ UNCHANGED <<through, commit>> /\ ReaderFrame

CountFrame ==
  /\ reader = "applied"
  /\ through' = through + 1 /\ reader' = "counted"
  /\ UNCHANGED <<cp, phase, failure, commit>> /\ ReaderFrame

Acknowledge ==
  /\ reader = "counted" /\ Sends("reader", "ack", 0, cp)
  /\ reader' = "acking" /\ UNCHANGED <<cp, phase, failure, through>> /\ ReaderFrame

FinishReplay ==
  /\ Listening /\ node = "Replaying" /\ through = fence /\ ~Ending
  /\ Sends("reader", "fence", 0, cp)
  /\ reader' = "acking" /\ UNCHANGED <<cp, phase, failure, through>> /\ ReaderFrame

(* flush_responses(): nothing is sent before the replay is over. *)
Flushed == replayed => cp.responses = {}
FlushResponse == \E k \in cp.responses :
  /\ reader = "acked" /\ replayed
  /\ Sends("reader", "respond", k, [cp EXCEPT !.responses = @ \ {k}])
  /\ reader' = "flushing" /\ UNCHANGED <<cp, phase, failure, through>> /\ ReaderFrame

ReaderLeavesCancel ==
  /\ reader = "acked" /\ Flushed /\ reader' = "idle"
  /\ UNCHANGED <<cp, phase, failure, through, commit>> /\ ReaderFrame
ReaderCancelsIfDue ==
  /\ reader = "acked" /\ Flushed /\ OutboundFree
  /\ IF CancelDue(cp.input)
     THEN Sends("reader", "cancel", cp.input.anchor, EncodedCancel(cp)) /\ reader' = "cancelling"
     ELSE reader' = "idle" /\ UNCHANGED commit
  /\ UNCHANGED <<cp, phase, failure, through>> /\ ReaderFrame

ReaderEnds ==
  /\ reader = "idle" /\ ~(wire = "up" /\ sink) /\ reader' = "off"
  /\ IF Ending THEN UNCHANGED <<phase, failure>> ELSE Lost("lost")
  /\ UNCHANGED <<cp, through, commit>> /\ ReaderFrame

Read == ApplyFrame \/ CountFrame \/ Acknowledge \/ FinishReplay \/ FlushResponse
        \/ ReaderCancelsIfDue \/ ReaderEnds

-----------------------------------------------------------------------------
(* Opening and closing, under the lock of the Task's slot.                 *)

Forget == /\ phase' = "Absent" /\ failure' = "none" /\ cp' = Fresh
          /\ through' = 0 /\ replayed' = FALSE /\ reader' = "off"
Abandoned(c) == IF caller[c].pc = "idle" THEN Quiet ELSE [Quiet EXCEPT !.pc = "stale"]

(* retire(): waits for `outbound`, then only the sink of this observer goes; *)
(* the runner is not told.                                                   *)
Retire ==
  /\ slot = "held" /\ OutboundFree
  /\ \/ opener = "idle" /\ phase \notin {"Ready", "Absent"} /\ failure # "ended"
     \/ opener = "retiring"
  /\ slot' = "empty" /\ opener' = "idle" /\ sink' = FALSE
  /\ Forget /\ caller' = [c \in Callers |-> Abandoned(c)]
  /\ UNCHANGED <<childVars, runnerVars, wire, orphan, commit, faults>>

(* The runner refuses a session whose subscriber still has an open lane. *)
AlreadyAttached == wire = "up" /\ Attached

Attach ==
  /\ slot = "empty" /\ opener = "idle" /\ ~(wire = "up" /\ sink) /\ ~AlreadyAttached
  /\ wire' = "up" /\ sink' = TRUE /\ opener' = "replaying"
  /\ node' = "Replaying" /\ failure' = "none" /\ replayed' = FALSE /\ reader' = "idle"
  /\ IF node = "none"
     THEN /\ output' = <<>> /\ stdin' = <<>> /\ saved' = NothingSaved /\ fence' = 0
          /\ phase' = "Starting" /\ cp' = Fresh /\ through' = 0
     ELSE /\ fence' = Len(output) /\ UNCHANGED <<childVars, saved>>
          /\ phase' = "Restoring" /\ cp' = Restored(saved.cp) /\ through' = saved.through
  /\ UNCHANGED <<orphan, commit, slot, caller, faults>>

(* Closing ends the child and its incarnation: nothing still on the wire fits. *)
NoChild == node' = "none" /\ sink' = FALSE /\ orphan' = NoCommit

(* wait_replay fails: the Session is dropped, its sink is not.  A child that *)
(* has ended is closed first, and the next attach starts another.            *)
AttachFails ==
  /\ opener = "replaying" /\ failure # "none" /\ opener' = "idle" /\ OutboundFree
  /\ IF failure = "ended" THEN NoChild ELSE UNCHANGED <<node, sink, orphan>>
  /\ Forget /\ UNCHANGED <<childVars, saved, fence, wire, commit, slot, caller, faults>>

Opened ==
  /\ opener = "replaying" /\ failure = "none" /\ replayed
  /\ opener' = "preparing" /\ slot' = "held"
  /\ UNCHANGED <<childVars, runnerVars, wireVars, stateVars, reader, commit, caller, faults>>

(* prepare(): session/new or session/load, unless the checkpoint says loaded; *)
(* whether one is already waited for is looked up in a later critical section. *)
WithSetupUnrecorded(c) == [c EXCEPT !.next = @ + 1]
WithSetup(c) == [c EXCEPT !.next = @ + 1, !.setup = c.next]
OpenerOnly == UNCHANGED <<childVars, runnerVars, wireVars, cp, through, replayed, reader, slot,
                          commit, caller, faults>>

FindUnloaded ==
  /\ opener = "preparing" /\ ~cp.loaded /\ opener' = "asking"
  /\ OpenerOnly /\ UNCHANGED <<phase, failure>>

JoinSetup ==
  /\ opener = "asking" /\ cp.setup # 0 /\ opener' = "waiting"
  /\ OpenerOnly /\ UNCHANGED <<phase, failure>>

Prepare ==
  /\ opener = "asking" /\ cp.setup = 0 /\ OutboundFree
  /\ IF phase \in {"Closing", "Absent", "Unavailable"}
     THEN opener' = "idle" /\ UNCHANGED <<cp, commit>>
     ELSE /\ cp.next \in Rpcs /\ opener' = "sending"
          /\ Sends("opener", "setup", cp.next, WithSetup(cp)) /\ cp' = WithSetup(cp)
  /\ UNCHANGED <<childVars, runnerVars, wireVars, phase, failure, through, replayed, reader,
                 slot, caller, faults>>

(* The reply the opener waits for: the last setup's. *)
Refused == \E i \in DOMAIN stdin :
  /\ stdin[i].kind = "setup" /\ Wrote("error", stdin[i].id)
  /\ \A j \in DOMAIN stdin : stdin[j].kind = "setup" => j <= i
Prepared ==
  /\ cp.loaded /\ cp.setup = 0 /\ opener' = "idle"
  /\ opener = "preparing" \/ (opener = "waiting" /\ ~Refused)
  /\ phase' = IF phase \in {"Starting", "Restoring"} THEN "Ready" ELSE phase
  /\ OpenerOnly /\ UNCHANGED failure

PrepareFails ==
  /\ \/ opener = "waiting" /\ cp.setup = 0 /\ (~cp.loaded \/ Refused)
     \/ opener = "waiting" /\ failure # "none"
     \/ opener = "preparing" /\ cp.loaded /\ cp.setup # 0   \* 120 s, or the connection is lost
  /\ opener' = "idle" /\ OpenerOnly /\ UNCHANGED <<phase, failure>>

(* 120 s without a reply: the request is not repeated, the connection is given up. *)
PrepareTimesOut ==
  /\ opener = "waiting" /\ cp.setup # 0 /\ opener' = "idle"
  /\ Lost("lost") /\ OpenerOnly

(* A close: asked for, or before a child that ended is replaced. *)
Close ==
  /\ slot = "held" /\ opener = "idle" /\ phase # "Absent"
  /\ phase' = "Closing" /\ opener' = "closing"
  /\ UNCHANGED <<childVars, runnerVars, wireVars, failure, cp, through, replayed, reader,
                 slot, commit, caller, faults>>

Expired(c) == [c EXCEPT !.asks = {}, !.pending = {}, !.setup = 0, !.input = IdleInput]
Closed ==
  /\ opener = "closing" /\ opener' = "retiring"
  /\ NoChild
  /\ phase' = "Absent" /\ cp' = Expired(cp)
  /\ UNCHANGED <<childVars, saved, fence, wire, failure, through, replayed, reader, slot,
                 commit, caller, faults>>

CloseUnanswered ==
  /\ opener = "closing" /\ faults < MaxFaults /\ faults' = faults + 1
  /\ Lost("lost") /\ opener' = "idle"
  /\ UNCHANGED <<childVars, runnerVars, wireVars, cp, through, replayed, reader, slot, commit, caller>>

Open == Retire \/ Attach \/ AttachFails \/ Opened
        \/ FindUnloaded \/ JoinSetup \/ Prepare \/ Prepared \/ PrepareFails \/ PrepareTimesOut
        \/ Close \/ Closed \/ CloseUnanswered

-----------------------------------------------------------------------------
(* Faults: the connection ends, a commit goes unanswered, the backend dies. *)

Fault == faults < MaxFaults /\ faults' = faults + 1
Detaches == node' = IF Attached THEN "Detached" ELSE node

WireDies ==
  /\ Fault /\ wire = "up" /\ wire' = "down" /\ sink' = FALSE /\ orphan' = NoCommit /\ Detaches
  /\ IF OutboundFree THEN UNCHANGED commit
     ELSE \/ commit.status # "sent" /\ UNCHANGED commit
          \/ commit' = [commit EXCEPT !.status = "unknown"]
  /\ UNCHANGED <<childVars, saved, fence, stateVars, reader, slot, opener, caller>>

CommitTimesOut ==
  /\ Fault /\ commit # NoCommit /\ commit.status = "sent" /\ orphan = NoCommit
  /\ orphan' = IF node = "none" THEN NoCommit ELSE commit   \* its incarnation is gone
  /\ commit' = [commit EXCEPT !.status = "unknown"]
  /\ UNCHANGED <<childVars, runnerVars, wire, sink, stateVars, reader, slot, opener, caller>>

BackendRestarts ==
  /\ Fault /\ Detaches
  /\ wire' = "down" /\ sink' = FALSE /\ orphan' = NoCommit /\ commit' = NoCommit
  /\ slot' = "empty" /\ opener' = "idle" /\ Forget
  /\ caller' = [c \in Callers |-> Quiet]
  /\ UNCHANGED <<childVars, saved, fence>>

Calls == \E c \in Callers :
  \/ Reserve(c) \/ Steer(c) \/ ReleaseReservation(c) \/ Dispatch(c) \/ DispatchStale(c)
  \/ Stop(c) \/ CancelIfDue(c) \/ \E k \in Asks : Resolve(c, k)

Next ==
  \/ Child \/ RunnerAnswers \/ OrphanRuns \/ Calls \/ Settle \/ Read \/ Open
  \/ WireDies \/ CommitTimesOut \/ BackendRestarts

Spec == Init /\ [][Next]_vars

(* Every task the runtime started runs on, `outbound` is a fair mutex (so a *)
(* waiter gets it), and every commit is answered or given up on.            *)
CallGoesOn(c) == ReleaseReservation(c) \/ Dispatch(c) \/ DispatchStale(c) \/ CancelIfDue(c)
Fairness ==
  /\ WF_vars(RunnerAnswers) /\ WF_vars(OrphanRuns) /\ WF_vars(Settle)
  /\ SF_vars(Read)
  /\ \A c \in Callers : SF_vars(CallGoesOn(c))
FairSpec == Spec /\ Fairness

-----------------------------------------------------------------------------
Inputs == [st : {"idle", "pending", "stopping", "cancelled"}, anchor : 0..MaxRpc,
           reqs : SUBSET Rpcs, acc : SUBSET Rpcs, started : BOOLEAN]
Checkpoints == [next : 1..(MaxRpc + 1), loaded : BOOLEAN, setup : 0..MaxRpc,
                pending : SUBSET Rpcs, asks : SUBSET Asks, responses : SUBSET Asks,
                input : Inputs]

(* The shape of the state. *)
TypeOK ==
  /\ node \in {"none", "Detached", "Replaying", "Live"} /\ fence \in 0..MaxOutput
  /\ saved.through \in 0..Len(output) /\ saved.cp \in Checkpoints
  /\ wire \in {"up", "down"} /\ sink \in BOOLEAN
  /\ slot \in {"empty", "held"}
  /\ opener \in {"idle", "replaying", "preparing", "asking", "sending", "waiting", "closing", "retiring"}
  /\ phase \in {"Absent", "Starting", "Restoring", "Ready", "Closing", "Unavailable"}
  /\ cp \in Checkpoints /\ cp.input.acc \subseteq cp.input.reqs
  /\ through \in 0..MaxOutput /\ replayed \in BOOLEAN
  /\ reader \in {"off", "idle", "applied", "counted", "acking", "acked", "flushing", "cancelling"}
  /\ \A c \in Callers :
       caller[c].pc \in {"idle", "reserved", "steering", "stale", "sending", "cancelling"}

(* start_turn and steer_turn tell the truth: a prompt reported as started was *)
(* handed to the child, and one reported as rejected was not and will not be. *)
(* Only a commit whose outcome is unknown may go either way.                  *)
TruthfulVerdicts == \A c \in Callers :
  /\ caller[c].told = "accepted" => Given("prompt", caller[c].rpc)
  /\ caller[c].told = "rejected" =>
       /\ ~Given("prompt", caller[c].rpc)
       /\ ~(orphan # NoCommit /\ orphan.kind = "prompt" /\ orphan.id = caller[c].rpc)

(* The runner's checkpoint never waits for a reply the driver acknowledged:   *)
(* a restored driver would wait for it for ever.                              *)
NoReplyLost ==
  \A i \in 1..saved.through : output[i].kind \in Answer =>
    output[i].id \notin saved.cp.pending \cup {saved.cp.setup}

(* A question or a call the driver acknowledged stays in the runner's         *)
(* checkpoint until it is answered or settled: a new backend shows the one    *)
(* again and refuses the other, or the child would wait for ever.             *)
NoQuestionForgotten == \A k \in Asks :
  LET read(kind) == \E i \in 1..saved.through : output[i] = [kind |-> kind, id |-> k] IN
  /\ read("ask") /\ ~Wrote("done", k) /\ ~Given("answer", k) => k \in saved.cp.asks
  /\ read("call") /\ ~Given("respond", k) => k \in saved.cp.responses

(* No prompt is written to one child twice, and no session/new or             *)
(* session/load while another waits for its reply, whatever was retried,      *)
(* restored, timed out or left unanswered.  (After the reply there may be     *)
(* another: prepare() looks for the reply and for the request at two moments. *)
(* A cancel may be repeated: cancel_if_due does not look at the phase.)       *)
NoInputTwice == \A i, j \in DOMAIN stdin : i < j =>
  /\ stdin[i].kind = "prompt" => stdin[i] # stdin[j]
  /\ stdin[i].kind = "setup" /\ stdin[j].kind = "setup" => Answered(stdin[i].id)

(* state.rs:228: the CLI can ignore a cancel before its agent started.  When  *)
(* a cancel is written, the child has reported work, and not only work of an  *)
(* earlier run whose reply still follows it.  After two faults it may be: an  *)
(* unanswered commit and a restart make the driver forget a prompt the child  *)
(* was given, and its work is taken for a later prompt's.                     *)
CancelAfterStart == \A i \in DOMAIN stdin : stdin[i].kind = "cancel" /\ faults <= 1 =>
  \E w \in DOMAIN output :
    /\ output[w].kind \in {"work", "ask"}
    /\ \A j \in w..Len(output) :
         output[j].kind \in Answer => ~(output[j].id < stdin[i].id /\ Given("prompt", output[j].id))

(* A remembered Stop reaches the child, is handed back as refused, or the run *)
(* or its connection ends first.                                              *)
StopDue == phase = "Ready" /\ CancelDue(cp.input)
StopReachesChild == StopDue ~> ~StopDue

(* Every call of the application returns.                                     *)
CallsReturn == \A c \in Callers : (caller[c].pc # "idle") ~> (caller[c].pc = "idle")

(* docs/architecture/agent-runtimes.md:426: the driver "checkpoints its exact *)
(* processed prefix", so every later frame can be applied to what it saved.   *)
CheckpointIsExactPrefix ==
  \A i \in (saved.through + 1)..Len(output) :
    output[i].kind \in Answer =>
      output[i].id \in Restored(saved.cp).pending \cup ({saved.cp.setup} \ {0})

=============================================================================
