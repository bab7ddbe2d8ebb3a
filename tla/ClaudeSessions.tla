--------------------------- MODULE ClaudeSessions ---------------------------
(***************************************************************************)
(* How the backend holds Claude's sessions over its one connection to the  *)
(* runner.                                                                 *)
(*                                                                         *)
(*   agent/claude/session.rs, claude.rs   opening, closing, restarting     *)
(*   agent/claude/reading.rs              the reader of each session       *)
(*   agent/claude/starting.rs             the door every start passes      *)
(*   agent/runner.rs                      the shared connection (Wire)     *)
(*   runners/caffold/src/daemon.rs,       the runner's side of relay       *)
(*   runners/caffold/src/session.rs       sessions                         *)
(*                                                                         *)
(* A relay event names its session and nothing else, so everything here is *)
(* about which of several children, streams and sessions of one name an    *)
(* event, an answer or an ending belongs to.                               *)
(***************************************************************************)
EXTENDS Naturals, Sequences, FiniteSets

CONSTANTS
  Names,       \* conversations
  MaxWires,    \* bound: connections made
  MaxOpens,    \* bound: session streams opened
  MaxChildren, \* bound: processes spawned
  MaxFaults    \* bound: restarts, connections dropped, runners killed, answers given up on

ASSUME InstanceAssumption ==
  /\ Names # {} /\ {"none", "open", "spacing"} \cap Names = {} /\ {MaxWires, MaxOpens, MaxChildren} \subseteq Nat \ {0}
  /\ MaxFaults \in Nat

VARIABLES
  runner,    \* the runner process at the socket
  sub,       \* Runner.subscription: the connection holding it, 0 for none
  registry,  \* Runner.sessions: the child of each name, 0 for none
  child,     \* every process a runner spawned for a session
  wire,      \* the connections: what is left of each, and what is on its way
  slot,      \* RunnerClient.wire: the shared connection, 0 before the first
  sink,      \* Wire.sessions: the stream each name is routed to, 0 for none
  session,   \* one record per stream opened: Session, its channel and reader
  held,      \* ClaudeClient.sessions: 0 for a conversation nobody holds
  op,        \* the task in each conversation's operation
  door,      \* StartGate: open, held by a conversation's open, or spacing
  restart,   \* restart_runtime, and the sessions it marked
  history    \* ghosts the properties speak of, and the faults so far

runnerVars == <<runner, sub, registry, child>>
clientVars == <<slot, sink, session, held>>
vars == <<runnerVars, wire, clientVars, op, door, restart, history>>

Wires == 1..MaxWires
Streams == 1..MaxOpens
Children == 1..MaxChildren
Exit == [name : Names, stream : Streams]
Create == [name : Names, stream : Streams]
\* A refusal names no child; "begun" is SessionInfo.spawned.
Answer == [name : Names, stream : Streams, child : 0..MaxChildren, is : SUBSET {"begun", "running"}]
NoStream == [name |-> "none", wire |-> 0, child |-> 0, reader |-> "none", marks |-> {},
             inbox |-> <<>>, end |-> "none"]
NoOp == [pc |-> "idle", wire |-> 0, stream |-> 0, child |-> 0, is |-> {}]

ChildType == [name : Names \cup {"none"}, lane : 0..MaxWires, stream : 0..MaxOpens, order : {"none", "end"},
              st : {"unborn", "running", "exited", "gone", "orphan"}]
WireType == [st : {"unmade", "up", "closed", "over"}, asked : Seq(Create), answers : Seq(Answer),
             lane : Seq(Exit)]
SessionType == [name : Names \cup {"none"}, wire : 0..MaxWires, child : 0..MaxChildren,
                reader : {"none", "reading", "exited", "cut", "done"}, inbox : Seq(Exit),
                marks : SUBSET {"closing", "closed", "unmarked"},
                end : {"none", "interrupted", "failed", "unreachable"}]
OpType == [pc : {"idle", "door", "wire", "register", "write", "asked", "answered", "failed", "close",
                 "closing", "killing"}, wire : 0..MaxWires, stream : 0..MaxOpens,
           child : 0..MaxChildren, is : SUBSET {"begun", "running"}]

TypeOK ==
  /\ runner \in {"none", "serving", "stopping"} /\ sub \in 0..MaxWires
  /\ registry \in [Names -> 0..MaxChildren] /\ child \in [Children -> ChildType]
  /\ wire \in [Wires -> WireType]
  /\ slot \in 0..MaxWires /\ sink \in [Wires -> [Names -> 0..MaxOpens]]
  /\ session \in [Streams -> SessionType] /\ held \in [Names -> 0..MaxOpens]
  /\ op \in [Names -> OpType] /\ door \in {"open", "spacing"} \cup Names
  /\ restart \in [pc : {"idle", "stop", "wait"}, marked : SUBSET Streams]
  /\ history \in [faults : 0..MaxFaults, young : SUBSET Children, overdue : SUBSET Names,
                  crossed : SUBSET Names]

Init ==
  /\ runner = "none" /\ sub = 0 /\ registry = [n \in Names |-> 0]
  /\ child = [c \in Children |-> [name |-> "none", lane |-> 0, stream |-> 0, order |-> "none", st |-> "unborn"]]
  /\ wire = [w \in Wires |-> [st |-> "unmade", asked |-> <<>>, answers |-> <<>>, lane |-> <<>>]]
  /\ slot = 0 /\ sink = [w \in Wires |-> [n \in Names |-> 0]]
  /\ session = [s \in Streams |-> NoStream]
  /\ held = [n \in Names |-> 0] /\ op = [n \in Names |-> NoOp]
  /\ door = "open" /\ restart = [pc |-> "idle", marked |-> {}]
  /\ history = [faults |-> 0, young |-> {}, overdue |-> {}, crossed |-> {}]

Fault == history.faults < MaxFaults
Faulted(h) == [h EXCEPT !.faults = @ + 1]
Up(w) == w # 0 /\ wire[w].st = "up"
Alive(w) == w # 0 /\ wire[w].st # "over"   \* Wire.alive, which the route task clears last
Gone(c) == [child[c] EXCEPT !.st = "gone", !.lane = 0, !.stream = 0]
\* Told to end, if it still runs.
Ordered(c) == IF child[c].st = "running" THEN [child[c] EXCEPT !.order = "end"] ELSE child[c]
Of(n) == {c \in Children : child[c].name = n}
SaysEnd(c) == wire' = [wire EXCEPT ![child[c].lane].lane =
                   Append(@, [name |-> child[c].name, stream |-> child[c].stream])]

-----------------------------------------------------------------------------
(* Opening: open_conversation, open_session_at and RunnerClient::open, under *)
(* the conversation's operation lock.                                       *)

At(n, pc) == op[n].pc = pc
Goes(n, pc) == op' = [op EXCEPT ![n].pc = pc]
Returns(n) == op' = [op EXCEPT ![n] = NoOp]

NextStream == 1 + Cardinality({s \in Streams : session[s].name # "none"})
NextWire == 1 + Cardinality({w \in Wires : wire[w].st # "unmade"})
NextChild == 1 + Cardinality({c \in Children : child[c].st # "unborn"})

OpenBegins(n) ==
  /\ At(n, "idle") /\ held[n] = 0 /\ NextStream \in Streams /\ Goes(n, "door")
  /\ UNCHANGED <<runnerVars, wire, clientVars, door, restart, history>>

\* one_at_a_time
PassesDoor(n) ==
  /\ At(n, "door") /\ door = "open" /\ door' = n /\ Goes(n, "wire")
  /\ UNCHANGED <<runnerVars, wire, clientVars, restart, history>>

\* ANSWER_TIMEOUT: another start held the door too long.
WaitsNoLonger(n) ==
  /\ At(n, "door") /\ door # "open" /\ Returns(n)
  /\ UNCHANGED <<runnerVars, wire, clientVars, door, restart, history>>

\* Starting::drop stamps the start, and the door stays shut two seconds more.
DoorOpens ==
  /\ door = "spacing" /\ door' = "open" /\ history' = [history EXCEPT !.young = {}]
  /\ UNCHANGED <<runnerVars, wire, clientVars, op, restart>>

\* Mutant of ServesFresh: what the last runner left runs on.
ServesBeside == runner' = "serving" /\ registry' = [n \in Names |-> 0] /\ UNCHANGED child

\* A runner that starts ends what the last one left before it answers anyone.
ServesFresh ==
  /\ runner' = "serving" /\ registry' = [n \in Names |-> 0]
  /\ child' = [c \in Children |->
                 IF child[c].st = "orphan" THEN Gone(c) ELSE child[c]]

\* shared_wire, under the slot's lock: the wire that is alive, or a new one.
TakesWire(n) ==
  /\ At(n, "wire")
  /\ \/ /\ Alive(slot) /\ op' = [op EXCEPT ![n].pc = "register", ![n].wire = slot]
        /\ UNCHANGED <<runner, registry, child, wire, slot>>
     \/ /\ ~Alive(slot) /\ NextWire \in Wires
        /\ IF runner = "none" THEN ServesFresh ELSE UNCHANGED <<runner, registry, child>>
        /\ slot' = NextWire /\ wire' = [wire EXCEPT ![NextWire].st = "up"]
        /\ op' = [op EXCEPT ![n].pc = "register", ![n].wire = NextWire]
  /\ UNCHANGED <<sub, sink, session, held, door, restart, history>>

\* ensure_running or connect gives up: nothing was registered.
FindsNoRunner(n) ==
  /\ At(n, "wire") /\ ~Alive(slot) /\ Fault /\ history' = Faulted(history)
  /\ Returns(n) /\ door' = "spacing"
  /\ UNCHANGED <<runnerVars, wire, clientVars, restart>>

\* The stream is registered before the session is asked for, over any other of
\* its name, and whatever became of the wire since shared_wire returned it.
Registers(n) ==
  /\ At(n, "register") /\ NextStream \in Streams
  /\ session' = [session EXCEPT ![NextStream].name = n, ![NextStream].wire = op[n].wire]
  /\ sink' = [sink EXCEPT ![op[n].wire][n] = NextStream]
  /\ op' = [op EXCEPT ![n].pc = "write", ![n].stream = NextStream]
  /\ UNCHANGED <<runnerVars, wire, slot, held, door, restart, history>>

\* Wire::request: a write to a connection the runner has closed fails.
Writes(n) ==
  /\ At(n, "write")
  /\ IF Up(op[n].wire)
     THEN /\ Goes(n, "asked")
          /\ wire' = [wire EXCEPT ![op[n].wire].asked =
                        Append(@, [name |-> n, stream |-> op[n].stream])]
     ELSE Goes(n, "failed") /\ UNCHANGED wire
  /\ UNCHANGED <<runnerVars, clientVars, door, restart, history>>

\* REQUEST_TIMEOUT: the runner may still carry the request out.
GivesUp(n) ==
  /\ At(n, "asked") /\ Fault /\ Goes(n, "failed")
  /\ history' = [Faulted(history) EXCEPT !.overdue = @ \cup {n}]
  /\ UNCHANGED <<runnerVars, wire, clientVars, door, restart>>

\* Nobody is left to read a stream.
Dropped(s) == [NoStream EXCEPT !.name = session[s].name, !.wire = session[s].wire, !.reader = "done"]

\* Mutant of OpenFails: an open that failed has started nothing.
FailureStartsNothing(n) ==
  /\ At(n, "failed") /\ Returns(n) /\ door' = "open"
  /\ sink' = [sink EXCEPT ![op[n].wire][n] = 0]
  /\ session' = [session EXCEPT ![op[n].stream] = Dropped(op[n].stream)]
  /\ UNCHANGED <<runnerVars, wire, slot, held, restart, history>>

\* A failed open counts as a start: its answer may have been lost after one.
OpenFails(n) ==
  /\ At(n, "failed") /\ Returns(n) /\ door' = "spacing"
  /\ sink' = [sink EXCEPT ![op[n].wire][n] = 0]
  /\ session' = [session EXCEPT ![op[n].stream] = Dropped(op[n].stream)]
  /\ UNCHANGED <<runnerVars, wire, slot, held, restart, history>>

\* A session that had exited is refused here, with its stream still registered.
Opened(n) ==
  /\ At(n, "answered") /\ Returns(n)
  /\ door' = IF "begun" \in op[n].is THEN "spacing" ELSE "open"
  /\ IF "running" \in op[n].is
     THEN /\ held' = [held EXCEPT ![n] = op[n].stream]
          /\ session' = [session EXCEPT ![op[n].stream].reader = "reading",
                                        ![op[n].stream].child = op[n].child,
               ![op[n].stream].marks =
                 IF restart.pc # "idle" \/ child[op[n].child].order = "end" THEN {"unmarked"} ELSE {}]
     ELSE /\ session' = [session EXCEPT ![op[n].stream] = Dropped(op[n].stream)]
          /\ UNCHANGED held
  /\ UNCHANGED <<runnerVars, wire, slot, sink, restart, history>>

Open(n) == \/ OpenBegins(n) \/ PassesDoor(n) \/ WaitsNoLonger(n) \/ TakesWire(n) \/ FindsNoRunner(n)
           \/ Registers(n) \/ Writes(n) \/ GivesUp(n) \/ OpenFails(n) \/ Opened(n)

-----------------------------------------------------------------------------
(* Closing: close_conversation, over a connection of its own.               *)

\* Mutant of CloseBegins: the stream is unregistered before its child has ended.
CloseUnregisters(n) ==
  /\ At(n, "idle") /\ Goes(n, "close")
  /\ held' = [held EXCEPT ![n] = 0]
  /\ session' = IF held[n] = 0 THEN session
                ELSE [session EXCEPT ![held[n]].marks = @ \cup {"closing", "closed"}]
  /\ sink' = [w \in Wires |-> [sink[w] EXCEPT ![n] = 0]]
  /\ UNCHANGED <<runnerVars, wire, slot, door, restart, history>>

\* The session is let go of and marked before the runner is asked.
CloseBegins(n) ==
  /\ At(n, "idle") /\ Goes(n, "close")
  /\ held' = [held EXCEPT ![n] = 0]
  /\ session' = IF held[n] = 0 THEN session
                ELSE [session EXCEPT ![held[n]].marks = @ \cup {"closing", "closed"}]
  /\ UNCHANGED <<runnerVars, wire, slot, sink, door, restart, history>>

\* RunnerClient::close: a runner that is not listening holds no session.
CloseConnects(n) ==
  /\ At(n, "close") /\ IF runner = "none" THEN Returns(n) ELSE Goes(n, "closing")
  /\ UNCHANGED <<runnerVars, wire, clientVars, door, restart, history>>

\* Request::SessionClose: Session::close waits for the child without a lock.
CloseKills(n) ==
  /\ At(n, "closing") /\ runner = "serving"
  /\ IF registry[n] = 0 THEN Returns(n) /\ UNCHANGED child
     ELSE /\ op' = [op EXCEPT ![n].pc = "killing", ![n].child = registry[n]]
          /\ child' = [child EXCEPT ![registry[n]] = Ordered(registry[n])]
  /\ UNCHANGED <<runner, sub, registry, wire, clientVars, door, restart, history>>

CloseEnds(n) ==
  /\ At(n, "killing") /\ child[op[n].child].st # "running" /\ Returns(n)
  /\ registry' = [registry EXCEPT ![n] = IF @ = op[n].child THEN 0 ELSE @]
  /\ UNCHANGED <<runner, sub, child, wire, clientVars, door, restart, history>>

\* KILL_TIMEOUT, and the child runs on.
CloseGivesUp(n) ==
  /\ At(n, "killing") /\ child[op[n].child].st = "running" /\ Fault /\ Returns(n)
  /\ history' = [Faulted(history) EXCEPT !.overdue = @ \cup {n}]
  /\ UNCHANGED <<runnerVars, wire, clientVars, door, restart>>

Close(n) == \/ CloseBegins(n) \/ CloseConnects(n) \/ CloseKills(n) \/ CloseEnds(n)
            \/ CloseGivesUp(n)

-----------------------------------------------------------------------------
(* The route task of a connection: Wire::route.                             *)

\* route_reply: an answer nobody waits for any more is dropped.
RoutesAnswer(w) ==
  /\ wire[w].answers # <<>> /\ wire' = [wire EXCEPT ![w].answers = Tail(@)]
  /\ LET a == Head(wire[w].answers) IN
     IF ~(At(a.name, "asked") /\ op[a.name].stream = a.stream) THEN UNCHANGED op
     ELSE IF a.child = 0 THEN Goes(a.name, "failed")
     ELSE op' = [op EXCEPT ![a.name].pc = "answered", ![a.name].child = a.child, ![a.name].is = a.is]
  /\ UNCHANGED <<runnerVars, clientVars, door, restart, history>>

\* route_event: to the stream registered under the name now; an exit ends the
\* registration, whoever's it is.
RoutesExit(w) ==
  /\ wire[w].lane # <<>> /\ wire' = [wire EXCEPT ![w].lane = Tail(@)]
  /\ LET e == Head(wire[w].lane)
         n == e.name
         s == sink[w][n]
         received == s # 0 /\ session[s].reader # "done"
     IN /\ session' = IF received THEN [session EXCEPT ![s].inbox = Append(@, e)] ELSE session
        /\ sink' = [sink EXCEPT ![w][n] = 0]
        /\ history' = IF received /\ e.stream # s
                      THEN [history EXCEPT !.crossed = @ \cup {n}] ELSE history
  /\ UNCHANGED <<runnerVars, slot, held, op, door, restart>>

\* Mutant of WireEnds: the streams keep their senders.
WireLeavesStreams(w) ==
  /\ wire[w].st = "closed"
  /\ wire' = [wire EXCEPT ![w] = [st |-> "over", asked |-> <<>>, answers |-> <<>>, lane |-> <<>>]]
  /\ op' = [n \in Names |-> IF At(n, "asked") /\ op[n].wire = w
                            THEN [op[n] EXCEPT !.pc = "failed"] ELSE op[n]]
  /\ UNCHANGED <<runnerVars, slot, sink, session, held, door, restart, history>>

\* Mutant of WireEnds: the callers waiting for an answer are left waiting.
WireLeavesCallers(w) ==
  /\ wire[w].st = "closed"
  /\ wire' = [wire EXCEPT ![w] = [st |-> "over", asked |-> <<>>, answers |-> <<>>, lane |-> <<>>]]
  /\ sink' = [sink EXCEPT ![w] = [n \in Names |-> 0]]
  /\ UNCHANGED <<runnerVars, slot, session, held, op, door, restart, history>>

\* The end of the connection, wherever it cut what was on its way: every stream
\* ends and every caller is woken.
WireEnds(w) ==
  /\ wire[w].st = "closed"
  /\ wire' = [wire EXCEPT ![w] = [st |-> "over", asked |-> <<>>, answers |-> <<>>, lane |-> <<>>]]
  /\ sink' = [sink EXCEPT ![w] = [n \in Names |-> 0]]
  /\ op' = [n \in Names |-> IF At(n, "asked") /\ op[n].wire = w
                            THEN [op[n] EXCEPT !.pc = "failed"] ELSE op[n]]
  /\ UNCHANGED <<runnerVars, slot, session, held, door, restart, history>>

Route(w) == RoutesAnswer(w) \/ RoutesExit(w) \/ WireEnds(w)

-----------------------------------------------------------------------------
(* The reader of a session: spawn_reader, handle_exit.                      *)

Reads(s) ==
  /\ session[s].reader = "reading" /\ session[s].inbox # <<>>
  /\ session' = [session EXCEPT ![s].inbox = <<>>, ![s].reader = "exited",
                   ![s].end = IF "closing" \in session[s].marks THEN "interrupted" ELSE "failed"]
  /\ UNCHANGED <<runnerVars, wire, slot, sink, held, op, door, restart, history>>

\* The channel's sender is gone with nothing said: the runner went away.
Severed(s) == session[s].inbox = <<>> /\ sink[session[s].wire][session[s].name] # s
FindsEnd(s) ==
  /\ session[s].reader = "reading" /\ Severed(s)
  /\ session' = [session EXCEPT ![s].reader = "cut",
                   ![s].end = IF "closing" \in session[s].marks THEN "interrupted" ELSE "unreachable"]
  /\ UNCHANGED <<runnerVars, wire, slot, sink, held, op, door, restart, history>>

\* Mutant of LetGo: whoever holds the name is let go of.
LetGoByName(s) == [held EXCEPT ![session[s].name] = 0]

\* By identity: a conversation closed and opened again is another session.
LetGo(s) == [held EXCEPT ![session[s].name] = IF @ = s THEN 0 ELSE @]
LetsGo(s) ==
  /\ session[s].reader \in {"exited", "cut"} /\ held' = LetGo(s)
  /\ session' = [session EXCEPT ![s] = Dropped(s)]
  /\ UNCHANGED <<runnerVars, wire, slot, sink, op, door, restart, history>>

Reader(s) == Reads(s) \/ FindsEnd(s) \/ LetsGo(s)

-----------------------------------------------------------------------------
(* The runner: ensure, lane_for, Session::attach, supervise.                *)

Answers(w, q, c, is) ==
  wire' = [wire EXCEPT ![w].asked = Tail(@), ![w].answers =
             Append(@, [name |-> q.name, stream |-> q.stream, child |-> c, is |-> is])]

Runs(n) == registry[n] # 0 /\ child[registry[n]].st = "running"
\* lane_for: one live subscriber.
Subscribes(w) == sub \in {0, w} \/ ~Up(sub)
\* Session::attach: one delivery per session, though a lane to nobody is none.
Attached(c) == Up(child[c].lane)

\* A stop, another subscriber, a session attached already, a spawn that fails.
Refuses(w) ==
  /\ Up(w) /\ wire[w].asked # <<>> /\ LET q == Head(wire[w].asked) IN
       /\ runner = "stopping" \/ ~Subscribes(w) \/ (Runs(q.name) => Attached(registry[q.name]))
       /\ Answers(w, q, 0, {})
  /\ sub' = IF runner = "serving" /\ Subscribes(w) THEN w ELSE sub
  /\ UNCHANGED <<runner, registry, child, clientVars, op, door, restart, history>>

\* A child may exit before it is described.
Attaches(w) ==
  /\ Up(w) /\ wire[w].asked # <<>> /\ runner = "serving" /\ Subscribes(w) /\ sub' = w
  /\ \E is \in SUBSET {"running"} : LET q == Head(wire[w].asked)
                                  c == registry[q.name] IN
       /\ Runs(q.name) /\ ~Attached(c)
       /\ child' = [child EXCEPT ![c].lane = w, ![c].stream = q.stream,
                      ![c].st = IF is # {} THEN @ ELSE "exited"]
       /\ Answers(w, q, c, is)
  /\ UNCHANGED <<runner, registry, clientVars, op, door, restart, history>>

Spawns(w) ==
  /\ Up(w) /\ wire[w].asked # <<>> /\ runner = "serving" /\ Subscribes(w) /\ sub' = w
  /\ NextChild \in Children
  /\ \E is \in SUBSET {"running"} : LET q == Head(wire[w].asked)
                                  c == NextChild IN
       /\ ~Runs(q.name)
       /\ child' = [child EXCEPT ![c].name = q.name, ![c].lane = w, ![c].stream = q.stream,
                      ![c].st = IF is # {} THEN "running" ELSE "exited"]
       /\ registry' = [registry EXCEPT ![q.name] = c]
       /\ history' = [history EXCEPT !.young = @ \cup {c}]
       /\ Answers(w, q, c, is \cup {"begun"})
  /\ UNCHANGED <<runner, clientVars, op, door, restart>>

Exits(c) ==
  /\ child[c].st = "running" /\ child' = [child EXCEPT ![c].st = "exited"]
  /\ UNCHANGED <<runner, sub, registry, wire, clientVars, op, door, restart, history>>

\* supervise records the exit first, and says it afterwards.
SaysExit(c) ==
  /\ child[c].st = "exited" /\ child' = [child EXCEPT ![c] = Gone(c)]
  /\ IF Attached(c) THEN SaysEnd(c) ELSE UNCHANGED wire
  /\ UNCHANGED <<runner, sub, registry, clientVars, op, door, restart, history>>

\* An orphan reads the end of its standard input.
OrphanEnds(c) ==
  /\ child[c].st = "orphan" /\ child' = [child EXCEPT ![c] = Gone(c)]
  /\ UNCHANGED <<runner, sub, registry, wire, clientVars, op, door, restart, history>>

\* The runner's end closes: the requests it had not read are lost.
Closes(w) == wire' = [wire EXCEPT ![w].st = "closed", ![w].asked = <<>>]

ConnectionDrops ==
  /\ Up(slot) /\ Fault /\ history' = Faulted(history) /\ Closes(slot)
  /\ sub' = IF sub = slot THEN 0 ELSE sub
  /\ child' = [c \in Children |->
                 IF child[c].lane = slot THEN [child[c] EXCEPT !.lane = 0] ELSE child[c]]
  /\ UNCHANGED <<runner, registry, clientVars, op, door, restart>>

\* The process is gone: its sessions, its connections and the closes on them.
RunnerGone ==
  /\ runner' = "none" /\ sub' = 0 /\ registry' = [n \in Names |-> 0]
  /\ IF Up(slot) THEN Closes(slot) ELSE UNCHANGED wire
  /\ op' = [n \in Names |-> IF op[n].pc \in {"closing", "killing"} THEN NoOp ELSE op[n]]
  /\ UNCHANGED <<clientVars, door, restart>>

RunnerExits ==
  /\ runner = "stopping" /\ \A n \in Names : ~Runs(n)
  /\ RunnerGone /\ UNCHANGED history
  /\ child' = [c \in Children |->
                 IF child[c].st = "exited" THEN Gone(c) ELSE child[c]]

\* Killed: its children live on, reached by nobody.
RunnerCrashes ==
  /\ runner # "none" /\ Fault /\ history' = Faulted(history) /\ RunnerGone
  /\ child' = [c \in Children |->
                 CASE child[c].st = "running" -> [child[c] EXCEPT !.st = "orphan"]
                   [] child[c].st = "exited"  -> Gone(c)
                   [] OTHER -> child[c]]

Run == \/ \E w \in Wires : Refuses(w) \/ Attaches(w) \/ Spawns(w)
       \/ \E c \in Children : Exits(c) \/ SaysExit(c) \/ OrphanEnds(c)
       \/ ConnectionDrops \/ RunnerExits \/ RunnerCrashes

-----------------------------------------------------------------------------
(* restart_runtime and RunnerClient::restart.                               *)

\* Mutant of RestartBegins: nothing is marked before the runner is stopped.
MarksNothing ==
  /\ restart.pc = "idle" /\ Fault /\ history' = Faulted(history)
  /\ restart' = [pc |-> "stop", marked |-> {}]
  /\ UNCHANGED <<runnerVars, wire, clientVars, op, door>>

\* Every session held now ends at Caffold's asking.
RestartBegins ==
  /\ restart.pc = "idle" /\ Fault /\ history' = Faulted(history)
  /\ LET marked == {s \in Streams : \E n \in Names : held[n] = s} IN
     /\ restart' = [pc |-> "stop", marked |-> marked]
     /\ session' = [s \in Streams |-> IF s \in marked THEN [session[s] EXCEPT !.marks = @ \cup {"closing"}]
                                                  ELSE session[s]]
  /\ UNCHANGED <<runnerVars, wire, slot, sink, held, op, door>>

RestartStops ==
  /\ restart.pc = "stop" /\ restart' = [restart EXCEPT !.pc = "wait"]
  /\ IF runner # "serving" THEN UNCHANGED <<runner, child>>
     ELSE /\ runner' = "stopping"
          /\ child' = [c \in Children |->
                         IF \E n \in Names : registry[n] = c THEN Ordered(c) ELSE child[c]]
  /\ UNCHANGED <<sub, registry, wire, clientVars, op, door, history>>

RestartServes ==
  /\ restart.pc = "wait" /\ runner = "none" /\ ServesFresh
  /\ restart' = [restart EXCEPT !.pc = "idle", !.marked = {}]
  /\ UNCHANGED <<sub, wire, clientVars, op, door, history>>

\* STOP_TIMEOUT: something went on answering, maybe the next runner already; or
\* no runner could be started.
RestartGivesUp ==
  /\ restart.pc = "wait"
  /\ restart' = [restart EXCEPT !.pc = "idle", !.marked = {}]
  /\ session' = [s \in Streams |-> 
       IF s \in restart.marked /\ session[s].reader # "done"
       THEN [session[s] EXCEPT !.marks = (@ \ {"closing"}) \cup {"unmarked"}] ELSE session[s]]
  /\ UNCHANGED <<runnerVars, wire, slot, sink, held, op, door, history>>

Restart == RestartBegins \/ RestartStops \/ RestartServes \/ RestartGivesUp

-----------------------------------------------------------------------------
Next ==
  \/ \E n \in Names : Open(n) \/ Close(n)
  \/ DoorOpens
  \/ \E w \in Wires : Route(w)
  \/ \E s \in Streams : Reader(s)
  \/ Run \/ Restart

Spec == Init /\ [][Next]_vars

-----------------------------------------------------------------------------
(* Properties                                                              *)

Asking(n, s) == op[n].stream = s /\ op[n].pc \in {"write", "asked", "answered", "failed"}

(* A child the runner relays over a living connection has a stream that    *)
(* hears it: open registers the stream before it asks, and only the        *)
(* child's end or a failed open removes it.  Excepted: a name whose exit   *)
(* crossed into a later stream, and one whose open or close timed out.     *)
AttachedIsHeard == \A c \in Children : LET w == child[c].lane
                                           n == child[c].name IN
  child[c].st = "running" /\ Up(w) /\ n \notin history.crossed \cup history.overdue
    => sink[w][n] # 0

(* A stream something is routed to and read from is the session the        *)
(* conversation holds, one being opened, or one closed and speaking its    *)
(* last: no reader serves a session the backend has lost by mistake.       *)
StreamIsOwned == \A w \in Wires, n \in Names : LET s == sink[w][n] IN
  s # 0 /\ session[s].reader # "done" => held[n] = s \/ Asking(n, s) \/ "closed" \in session[s].marks

(* A close the runner has answered leaves no process of the conversation,  *)
(* not even one an earlier runner left: SessionClose waits for the child,  *)
(* and a runner ends what it finds before it answers.                      *)
CloseEndsChild == [][
  \A n \in Names :
    /\ op[n].pc \in {"closing", "killing"} /\ op'[n].pc = "idle" /\ runner' = runner
    /\ history' = history /\ n \notin history.overdue
    => \A c \in Of(n) : child'[c].st \notin {"running", "orphan"}]_vars

(* A turn cut off because a person closed its conversation or restarted    *)
(* the runtime is never reported as the agent's failure, however long the  *)
(* exit takes to arrive.  Excepted: a session opened while a restart was   *)
(* under way, or whose restart gave up, and an exit that crossed.          *)
StopIsNoFailure == \A s \in Streams :
  session[s].end = "failed" /\ "unmarked" \notin session[s].marks /\ session[s].name \notin history.crossed
    => child[session[s].child].order = "none"

(* Claude processes begun less than the door's two seconds ago never run   *)
(* two at a time, also when the answer to the first start was lost; only a *)
(* request given up on can be carried out later.                           *)
OneYoungStart ==
  history.overdue # {} \/ Cardinality({c \in history.young : child[c].st = "running"}) <= 1

(* Once nothing is on its way to it any more, a session the backend holds  *)
(* is read, and its child runs and speaks to the connection it is read     *)
(* from: no exit, lost connection or dead runner goes unnoticed.           *)
Settled(s) == LET w == session[s].wire IN
  /\ wire[w].st # "closed" /\ wire[w].lane = <<>> /\ session[s].inbox = <<>>
  /\ child[session[s].child].st # "exited" /\ session[s].reader \notin {"exited", "cut"}
  /\ session[s].reader = "reading" => ~Severed(s)

HeldIsAlive == \A n \in Names : LET s == held[n] IN
  s # 0 /\ Settled(s) => /\ session[s].reader = "reading"
                         /\ child[session[s].child].st = "running"
                         /\ child[session[s].child].lane = session[s].wire

(* An open that waits for its answer is still going to get one: its        *)
(* request or the answer is on the connection, or the connection has an    *)
(* end coming that wakes it.                                               *)
AskedIsAnswered == \A n \in Names : At(n, "asked") =>
  LET w == wire[op[n].wire] IN
  /\ w.st # "over"
  /\ w.st = "up" => \E r \in {w.asked[i] : i \in 1..Len(w.asked)}
                              \cup {w.answers[i] : i \in 1..Len(w.answers)} :
                      r.name = n /\ r.stream = op[n].stream
=============================================================================
