---------------------------- MODULE RunnerDaemon ----------------------------
(***************************************************************************)
(* The runner as a process: how it claims its socket, what it does about   *)
(* the children of a runner that was killed, the registry of sessions its  *)
(* connections share, and the ways it leaves.                              *)
(*                                                                         *)
(*   runners/caffold/src/daemon.rs            bind, serve and the handlers *)
(*   runners/caffold/src/daemon/leftovers.rs  the book of children         *)
(*   runners/caffold/src/main.rs              run, stop and restart        *)
(*                                                                         *)
(* A handler is one connection's request in progress; every await inside   *)
(* it is a step boundary, and `sessions` is a Mutex that ensure() holds    *)
(* across its awaits.  What travels over a session is RecoverySession's.   *)
(***************************************************************************)
EXTENDS Integers, FiniteSets

CONSTANTS
  Runners,      \* runner processes, each run once, on one socket path
  NoRunner,     \* not a runner
  Clients,      \* connections to a runner, with the handler each one runs
  NoClient,     \* not a client
  Sessions,     \* session ids
  Recoverable,  \* those opened with session_create_recoverable
  MaxChildren,  \* bound: child processes spawned
  MaxStarting,  \* bound: runners between their launch and their bind at once
  IdleTimeout   \* whether --idle-timeout is other than zero

ASSUME RunnersAssumption == NoRunner \notin Runners
ASSUME ClientsAssumption == NoClient \notin Clients
ASSUME SessionsAssumption == Recoverable \subseteq Sessions
ASSUME ChildrenAssumption == MaxChildren \in Nat /\ MaxStarting \in Nat
ASSUME TimeoutAssumption == IdleTimeout \in BOOLEAN

VARIABLES
  phase,       \* runner -> where run_foreground stands
  asked,       \* runner -> Runner.stopping
  path,        \* the socket file: the runner that bound it, NoRunner if none
  book,        \* Leftovers: the children written down
  child,       \* child -> [state, runner, session, given, late]; late is
               \* history: see Late
  sessions,    \* runner -> session id -> its child
  lock,        \* runner -> the handler holding `sessions` across an await
  subscriber,  \* runner -> the client holding the subscription
  todo,        \* runner -> children clear() or the last closers still wait for
  collected,   \* runner -> children the stop set out to close
  handler,     \* client -> its connection and the request it is in
  restart      \* the command line's `daemon restart`: its step, and the
               \* runner it stopped

socketVars  == <<path, book>>
runnerVars  == <<phase, asked, todo, collected>>
sessionVars == <<sessions, lock, subscriber>>
vars == <<socketVars, runnerVars, sessionVars, child, handler, restart>>

Children == 1..MaxChildren
NoChild  == 0
Unborn   == [state |-> "none", runner |-> NoRunner, session |-> NoChild,
             given |-> FALSE, late |-> FALSE]
Free     == [pc |-> "idle", runner |-> NoRunner, session |-> NoChild,
             child |-> NoChild]
NoRestart == [pc |-> "idle", runner |-> NoRunner]
NoSessions == [s \in Sessions |-> NoChild]

Starting  == {"checking", "removing", "binding"}
Listening == {"bound", "clearing", "serving", "leaving", "closing"}
Answering == {"serving", "leaving", "closing", "exiting"}

Running(ch) == child[ch].state = "running"
Ended(chs) == [ch \in Children |->
                 IF ch \in chs /\ Running(ch) THEN [child[ch] EXCEPT !.state = "exited"]
                                              ELSE child[ch]]

\* A connection to the socket path succeeds.
Answers == path # NoRunner /\ phase[path] \in Listening

Init ==
  /\ phase = [r \in Runners |-> "off"] /\ asked = [r \in Runners |-> FALSE]
  /\ path = NoRunner /\ book = {}
  /\ child = [ch \in Children |-> Unborn]
  /\ sessions = [r \in Runners |-> NoSessions]
  /\ lock = [r \in Runners |-> NoClient]
  /\ subscriber = [r \in Runners |-> NoClient]
  /\ todo = [r \in Runners |-> {}] /\ collected = [r \in Runners |-> {}]
  /\ handler = [c \in Clients |-> Free]
  /\ restart = NoRestart

-----------------------------------------------------------------------------
(* Starting: bind, then end what the last runner left.                     *)

Goes(r, to) == phase' = [phase EXCEPT ![r] = to]

Launches(r) ==
  /\ phase[r] = "off"
  /\ Cardinality({q \in Runners : phase[q] \in Starting}) < MaxStarting
  /\ Goes(r, "checking")

Launch(r) ==
  /\ Launches(r)
  /\ UNCHANGED <<socketVars, asked, todo, collected, sessionVars, child,
                 handler, restart>>

\* A connection is tried on an existing file.  (LeftBehindAlways: a mutant
\* that takes every file for a leftover.)
LeftBehindAlways == path # NoRunner
LeftBehind == path # NoRunner /\ ~Answers

CheckSocket(r) ==
  /\ phase[r] = "checking"
  /\ Goes(r, IF path = NoRunner THEN "binding"
             ELSE IF LeftBehind THEN "removing" ELSE "gone")
  /\ UNCHANGED <<socketVars, asked, todo, collected, sessionVars, child,
                 handler, restart>>

\* remove_file fails when the file has gone meanwhile, and bind fails with it.
RemoveLeftover(r) ==
  /\ phase[r] = "removing"
  /\ Goes(r, IF path = NoRunner THEN "gone" ELSE "binding")
  /\ path' = NoRunner
  /\ UNCHANGED <<book, asked, todo, collected, sessionVars, child, handler, restart>>

Bind(r) ==
  /\ phase[r] = "binding"
  /\ Goes(r, IF path = NoRunner THEN "bound" ELSE "gone")
  /\ path' = IF path = NoRunner THEN r ELSE path
  /\ UNCHANGED <<book, asked, todo, collected, sessionVars, child, handler, restart>>

ReadBook(r) ==
  /\ phase[r] = "bound"
  /\ Goes(r, "clearing")
  /\ todo' = [todo EXCEPT ![r] = book]
  /\ UNCHANGED <<socketVars, asked, collected, sessionVars, child, handler, restart>>

\* One task of clear(): the process is ended if it is still the one written
\* down, after its grace period, and the record goes either way.
ClearOne(r, ch) ==
  /\ phase[r] = "clearing" /\ ch \in todo[r]
  /\ child' = Ended({ch})
  /\ book' = book \ {ch}
  /\ todo' = [todo EXCEPT ![r] = @ \ {ch}]
  /\ UNCHANGED <<path, phase, asked, collected, sessionVars, handler, restart>>

\* (ServeAtOnce: a mutant that answers clients while clear() still works.)
ServeAtOnce(r) ==
  /\ phase[r] = "clearing"
  /\ Goes(r, "serving") /\ todo' = [todo EXCEPT ![r] = {}]
  /\ UNCHANGED <<socketVars, asked, collected, sessionVars, child, handler, restart>>
Serve(r) ==
  /\ phase[r] = "clearing" /\ todo[r] = {}
  /\ Goes(r, "serving")
  /\ UNCHANGED <<socketVars, asked, todo, collected, sessionVars, child,
                 handler, restart>>

-----------------------------------------------------------------------------
(* Connections and their requests.                                         *)

At(c) == handler[c].runner
Rests(c) == handler[c].pc = "idle" /\ At(c) # NoRunner
Becomes(c, pc) == handler' = [handler EXCEPT ![c].pc = pc]
Done(c) == handler' = [handler EXCEPT ![c] = [Free EXCEPT !.runner = At(c)]]

Connect(c) ==
  /\ handler[c] = Free
  /\ path # NoRunner /\ phase[path] = "serving"
  /\ handler' = [handler EXCEPT ![c].runner = path]
  /\ UNCHANGED <<socketVars, runnerVars, sessionVars, child, restart>>

Disconnect(c) ==
  /\ Rests(c)
  /\ handler' = [handler EXCEPT ![c] = Free]
  /\ subscriber' = [r \in Runners |-> IF subscriber[r] = c THEN NoClient
                                                           ELSE subscriber[r]]
  /\ UNCHANGED <<socketVars, runnerVars, sessions, lock, child, restart>>

\* lane_for, on behalf of a request that attaches.
MaySubscribe(c) == subscriber[At(c)] \in {NoClient, c}

\* Attaching to a session that exists, by session_attach or by a create that
\* finds it.
Subscribe(c) ==
  /\ Rests(c) /\ lock[At(c)] = NoClient /\ MaySubscribe(c)
  /\ \E s \in Sessions : sessions[At(c)][s] # NoChild
  /\ subscriber' = [subscriber EXCEPT ![At(c)] = c]
  /\ UNCHANGED <<socketVars, runnerVars, sessions, lock, child, handler, restart>>

\* ensure() and ensure_recovery() refuse on a stopping runner.
\* (AcceptsAlways: a mutant without that test.)
AcceptsAlways(r) == TRUE
Accepts(r) == ~asked[r]

\* An exited relay session is replaced; a recoverable one never is.
Vacant(r, s) ==
  sessions[r][s] \notin {ch \in Children : s \in Recoverable \/ Running(ch)}

\* The guard of `sessions` lives as long as ensure() does.
GuardHeld(r, c) == lock' = [lock EXCEPT ![r] = c]

\* The idle clock tells nobody: a runner it ends goes on accepting creates on
\* the connections it has, after it collected the sessions it will close.
Late(r) == ~asked[r] /\ phase[r] \in {"closing", "exiting"}

\* The child is started under the registry's lock, subscribed first when the
\* request attaches.
Spawn(c, s) ==
  LET r == At(c) IN
  /\ Rests(c) /\ lock[r] = NoClient
  /\ Accepts(r) /\ Vacant(r, s)
  /\ \E ch \in Children :
       /\ child[ch] = Unborn
       /\ \A older \in 1..(ch - 1) : child[older] # Unborn
       /\ child' = [child EXCEPT ![ch] = [state |-> "running", runner |-> r,
                                          session |-> s, given |-> FALSE,
                                          late |-> Late(r)]]
       /\ handler' = [handler EXCEPT ![c] = [pc |-> "spawned", runner |-> r,
                                             session |-> s, child |-> ch]]
  /\ \E attach \in BOOLEAN :
       /\ s \in Recoverable => attach
       /\ attach => MaySubscribe(c)
       /\ subscriber' = IF attach THEN [subscriber EXCEPT ![r] = c] ELSE subscriber
  /\ GuardHeld(r, c)
  /\ UNCHANGED <<socketVars, runnerVars, sessions, restart>>

\* A child that has already ended may leave ps nothing to tell.  The file system
\* is assumed to take the record: remember() reports no failure.
Remember(c) ==
  /\ handler[c].pc = "spawned"
  /\ \/ book' = book \cup {handler[c].child}
     \/ ~Running(handler[c].child) /\ UNCHANGED book
  /\ Becomes(c, "written")
  /\ UNCHANGED <<path, runnerVars, sessionVars, child, restart>>

Insert(c) ==
  LET r == At(c) IN
  /\ handler[c].pc = "written"
  /\ sessions' = [sessions EXCEPT ![r][handler[c].session] = handler[c].child]
  /\ child' = [child EXCEPT ![handler[c].child].given = TRUE]
  /\ lock' = [lock EXCEPT ![r] = NoClient]
  /\ Done(c)
  /\ UNCHANGED <<socketVars, runnerVars, subscriber, restart>>

\* (CloseForgets: a mutant that crosses the child out before it has ended.)
CloseForgets(c, s) ==
  LET r == At(c) IN
  /\ Rests(c) /\ lock[r] = NoClient /\ sessions[r][s] # NoChild
  /\ handler' = [handler EXCEPT ![c] = [pc |-> "closing", runner |-> r,
                                        session |-> s, child |-> sessions[r][s]]]
  /\ book' = book \ {sessions[r][s]}
  /\ UNCHANGED <<path, runnerVars, sessionVars, child, restart>>

\* session_close takes the session out of the lock and asks its child to end.
CloseBegins(c, s) ==
  LET r == At(c) IN
  /\ Rests(c) /\ lock[r] = NoClient /\ sessions[r][s] # NoChild
  /\ handler' = [handler EXCEPT ![c] = [pc |-> "closing", runner |-> r,
                                        session |-> s, child |-> sessions[r][s]]]
  /\ UNCHANGED <<socketVars, runnerVars, sessionVars, child, restart>>

\* close() saw the end of the child, or gave up after KILL_TIMEOUT.
CloseSettles(c) ==
  /\ handler[c].pc = "closing"
  /\ \/ ~Running(handler[c].child) /\ Becomes(c, "forgetting")
     \/ Done(c)
  /\ UNCHANGED <<socketVars, runnerVars, sessionVars, child, restart>>

Forget(c) ==
  /\ handler[c].pc = "forgetting"
  /\ book' = book \ {handler[c].child}
  /\ Becomes(c, "unlisting")
  /\ UNCHANGED <<path, runnerVars, sessionVars, child, restart>>

\* Arc::ptr_eq: another request may have replaced the session meanwhile.
\* (ListedAnyway: a mutant without that test.)
ListedAnyway(c) == TRUE
StillListed(c) == sessions[At(c)][handler[c].session] = handler[c].child

Unlist(c) ==
  /\ handler[c].pc = "unlisting" /\ lock[At(c)] = NoClient
  /\ sessions' = IF StillListed(c)
                 THEN [sessions EXCEPT ![At(c)][handler[c].session] = NoChild]
                 ELSE sessions
  /\ Done(c)
  /\ UNCHANGED <<socketVars, runnerVars, lock, subscriber, child, restart>>

\* daemon_stop: answered first, asked for when the answer is written.
StopAnswered(c) ==
  /\ Rests(c)
  /\ Becomes(c, "stopping")
  /\ UNCHANGED <<socketVars, runnerVars, sessionVars, child, restart>>

AskToStop(c) ==
  /\ handler[c].pc = "stopping"
  /\ asked' = [asked EXCEPT ![At(c)] = TRUE]
  /\ Done(c)
  /\ UNCHANGED <<socketVars, phase, todo, collected, sessionVars, child, restart>>

-----------------------------------------------------------------------------
(* Leaving: by a stop, by the idle clock, or killed.                       *)

LeaveOnStop(r) ==
  /\ phase[r] = "serving" /\ asked[r]
  /\ Goes(r, "leaving")
  /\ UNCHANGED <<socketVars, asked, todo, collected, sessionVars, child,
                 handler, restart>>

LeaveWhenIdle(r) ==
  /\ IdleTimeout
  /\ phase[r] = "serving" /\ subscriber[r] = NoClient
  /\ Goes(r, "leaving")
  /\ UNCHANGED <<socketVars, asked, todo, collected, sessionVars, child,
                 handler, restart>>

Collect(r) ==
  LET held == {sessions[r][s] : s \in Sessions} \ {NoChild} IN
  /\ phase[r] = "leaving" /\ lock[r] = NoClient
  /\ Goes(r, "closing")
  /\ todo' = [todo EXCEPT ![r] = held]
  /\ collected' = [collected EXCEPT ![r] = held]
  /\ UNCHANGED <<socketVars, asked, sessionVars, child, handler, restart>>

\* (CloserWaits: a mutant without KILL_TIMEOUT.)
CloserWaits(r, ch) ==
  /\ phase[r] = "closing" /\ ch \in todo[r] /\ ~Running(ch)
  /\ book' = book \ {ch}
  /\ todo' = [todo EXCEPT ![r] = @ \ {ch}]
  /\ UNCHANGED <<path, phase, asked, collected, sessionVars, child, handler, restart>>

\* close_and_forget of one collected session: closed, or given up on.
CloserSettles(r, ch) ==
  /\ phase[r] = "closing" /\ ch \in todo[r]
  /\ \/ ~Running(ch) /\ book' = book \ {ch}
     \/ UNCHANGED book
  /\ todo' = [todo EXCEPT ![r] = @ \ {ch}]
  /\ UNCHANGED <<path, phase, asked, collected, sessionVars, child, handler, restart>>

\* The file at the path is removed, whoever bound it.
RemoveSocket(r) ==
  /\ phase[r] = "closing" /\ todo[r] = {}
  /\ path' = NoRunner
  /\ Goes(r, "exiting")
  /\ UNCHANGED <<book, asked, todo, collected, sessionVars, child, handler, restart>>

\* What ends with the process, however it ends.
Gone(r) ==
  /\ Goes(r, "gone")
  /\ sessions' = [sessions EXCEPT ![r] = NoSessions]
  /\ lock' = [lock EXCEPT ![r] = NoClient]
  /\ subscriber' = [subscriber EXCEPT ![r] = NoClient]
  /\ todo' = [todo EXCEPT ![r] = {}]
  /\ handler' = [c \in Clients |-> IF At(c) = r THEN Free ELSE handler[c]]

\* kill_on_drop: the runtime drops the supervisors, and so the children.
Exit(r) ==
  /\ phase[r] = "exiting"
  /\ Gone(r)
  /\ child' = Ended({ch \in Children : child[ch].runner = r})
  /\ UNCHANGED <<socketVars, asked, collected, restart>>

\* listener.accept() fails and serve() returns at once: nothing is closed, the
\* socket file stays, and the children go with the runtime.
AcceptFails(r) ==
  /\ phase[r] = "serving"
  /\ Gone(r)
  /\ child' = Ended({ch \in Children : child[ch].runner = r})
  /\ UNCHANGED <<socketVars, asked, collected, restart>>

\* Killed outright: the children go on, and so does the socket file.
Crash(r) ==
  /\ phase[r] \in Starting \cup Listening \cup Answering
  /\ Gone(r)
  /\ UNCHANGED <<socketVars, asked, collected, child, restart>>

ChildExits(ch) ==
  /\ Running(ch)
  /\ child' = Ended({ch})
  /\ UNCHANGED <<socketVars, runnerVars, sessionVars, handler, restart>>

-----------------------------------------------------------------------------
(* `daemon restart`, once: stop, then start as soon as stop was answered.  *)

RestartStops(c) ==
  /\ restart.pc = "idle"
  /\ Rests(c) /\ Becomes(c, "stopping")
  /\ restart' = [pc |-> "stopped", runner |-> At(c)]
  /\ UNCHANGED <<socketVars, runnerVars, sessionVars, child>>

Reports == restart' = [restart EXCEPT !.pc = "reported"]

\* start(): alreadyRunning when a connection succeeds.
RestartStarts ==
  /\ restart.pc = "stopped"
  /\ IF Answers
     THEN Reports /\ UNCHANGED phase
     ELSE /\ restart' = [restart EXCEPT !.pc = "waiting"]
          /\ \E r \in Runners : Launches(r)
  /\ UNCHANGED <<socketVars, asked, todo, collected, sessionVars, child, handler>>

RestartConnects ==
  /\ restart.pc = "waiting" /\ Answers
  /\ Reports
  /\ UNCHANGED <<socketVars, runnerVars, sessionVars, child, handler>>

-----------------------------------------------------------------------------

StartStep(r) ==
  \/ CheckSocket(r) \/ RemoveLeftover(r) \/ Bind(r) \/ ReadBook(r)
  \/ \E ch \in Children : ClearOne(r, ch)
  \/ Serve(r)

ClientStep(c) ==
  \/ Connect(c) \/ Disconnect(c) \/ Subscribe(c) \/ StopAnswered(c)
  \/ \E s \in Sessions : Spawn(c, s) \/ CloseBegins(c, s)

HandlerStep(c) ==
  \/ Remember(c) \/ Insert(c)
  \/ CloseSettles(c) \/ Forget(c) \/ Unlist(c) \/ AskToStop(c)

LeaveStep(r) ==
  \/ LeaveOnStop(r) \/ Collect(r)
  \/ \E ch \in Children : CloserSettles(r, ch)
  \/ RemoveSocket(r) \/ Exit(r)

RestartStep == (\E c \in Clients : RestartStops(c)) \/ RestartStarts \/ RestartConnects

Next ==
  \/ \E r \in Runners :
       \/ Launch(r) \/ StartStep(r) \/ LeaveStep(r) \/ LeaveWhenIdle(r)
       \/ AcceptFails(r) \/ Crash(r)
  \/ \E c \in Clients : ClientStep(c) \/ HandlerStep(c)
  \/ \E ch \in Children : ChildExits(ch)
  \/ RestartStep

Spec == Init /\ [][Next]_vars

\* A runner that is not killed goes on, and so does a handler it has begun;
\* nobody owes a launch, a request, the end of a child or a crash.
Fairness ==
  /\ \A r \in Runners : WF_vars(StartStep(r)) /\ WF_vars(LeaveStep(r))
  /\ \A c \in Clients : WF_vars(HandlerStep(c))

FairSpec == Spec /\ Fairness

-----------------------------------------------------------------------------
(* Properties.                                                             *)

RunnerType ==
  /\ phase \in [Runners -> {"off", "gone"} \cup Starting \cup Listening \cup Answering]
  /\ asked \in [Runners -> BOOLEAN]
  /\ todo \in [Runners -> SUBSET Children]
  /\ collected \in [Runners -> SUBSET Children]

SocketType == path \in Runners \cup {NoRunner} /\ book \subseteq Children

ChildType ==
  child \in [Children -> [state : {"none", "running", "exited"},
                         runner : Runners \cup {NoRunner},
                         session : Sessions \cup {NoChild},
                         given : BOOLEAN, late : BOOLEAN]]

SessionType ==
  /\ sessions \in [Runners -> [Sessions -> Children \cup {NoChild}]]
  /\ lock \in [Runners -> Clients \cup {NoClient}]
  /\ subscriber \in [Runners -> Clients \cup {NoClient}]

Creating == {"spawned", "written"}
Ending   == {"closing", "forgetting", "unlisting"}

HandlerType ==
  /\ handler \in [Clients ->
       [pc : {"idle", "stopping"} \cup Creating \cup Ending,
        runner : Runners \cup {NoRunner}, session : Sessions \cup {NoChild},
        child : Children \cup {NoChild}]]
  /\ \A c \in Clients :
       /\ handler[c].pc # "idle" => At(c) \in Runners
       /\ handler[c].pc \in Creating \cup Ending =>
            handler[c].session \in Sessions /\ handler[c].child \in Children

RestartType ==
  restart \in [pc : {"idle", "stopped", "waiting", "reported"},
              runner : Runners \cup {NoRunner}]

\* The registry's lock is held exactly by the handler that is starting a child.
LockHeld ==
  \A r \in Runners, c \in Clients :
    lock[r] = c <=> At(c) = r /\ handler[c].pc \in Creating

\* Every variable keeps its type, a request in progress keeps its runner, its
\* session and its child, and a runner's lock is held exactly by the handler
\* that is starting a child on it.
TypeOK ==
  /\ RunnerType /\ SocketType /\ ChildType /\ SessionType
  /\ HandlerType /\ RestartType /\ LockHeld

\* A child some client was given.
InUse(ch) == Running(ch) /\ child[ch].given

\* No conversation ever has two agents: not across a crash and the next runner,
\* not across a close that races a create of the same session.  Excepted: a
\* child that a runner ended by its idle clock starts behind its own back.
NoSecondAgent ==
  \A a, b \in Children :
    InUse(a) /\ InUse(b) /\ child[a].session = child[b].session =>
      a = b \/ child[a].late \/ child[b].late

\* Every child in use stays reachable by its session id while its runner
\* answers: a close that ends late never unlists its replacement.
RegistryReaches ==
  \A ch \in Children :
    InUse(ch) /\ phase[child[ch].runner] \in Answering =>
      sessions[child[ch].runner][child[ch].session] = ch

\* A child in use is in the book, so that a crash at any moment leaves its
\* successor able to end it; a close that failed leaves it there.
RecordKept == \A ch \in Children : InUse(ch) => ch \in book

\* A runner that leaves set out to close every child in use: once a stop was
\* asked for, none is handed out behind its back and then cut off by the end of
\* the process.  Excepted: as above.
StopClosesAll ==
  \A ch \in Children :
    InUse(ch) /\ phase[child[ch].runner] \in {"closing", "exiting"} =>
      ch \in collected[child[ch].runner] \/ child[ch].late

\* A runner that listens is the one the socket path leads to.
ListenerKeepsPath ==
  \A r \in Runners : phase[r] \in Listening => path = r

\* clear() ends no child of a runner that still listens.
ClearSparesServed ==
  [][\A r \in Runners, ch \in Children :
       phase[r] = "clearing" /\ ch \in todo[r] \ todo'[r] /\ Running(ch) =>
         phase[child[ch].runner] \notin Listening]_vars

\* A stop that was asked for ends the runner, whatever its children do.
StopEnds == \A r \in Runners : asked[r] ~> phase[r] = "gone"

=============================================================================
