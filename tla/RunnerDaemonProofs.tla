-------------------------- MODULE RunnerDaemonProofs --------------------------
(***************************************************************************)
(* Proofs about RunnerDaemon, for every value of its constants: any number *)
(* of runners, clients, sessions and children.                             *)
(***************************************************************************)
EXTENDS RunnerDaemon, FiniteSetTheorems, TLAPS

-----------------------------------------------------------------------------
(* Types: one lemma per action, with one step per group of variables the   *)
(* action changes.                                                         *)

\* A step that leaves a group of variables alone keeps that group typed.
LEMMA SameTypes ==
  ASSUME TypeOK
  PROVE  /\ UNCHANGED <<phase, asked, todo, collected>> => RunnerType'
         /\ UNCHANGED <<path, book>> => SocketType'
         /\ UNCHANGED child => ChildType'
         /\ UNCHANGED <<sessions, lock, subscriber>> => SessionType'
         /\ UNCHANGED handler => HandlerType'
         /\ UNCHANGED restart => RestartType'
         /\ UNCHANGED <<lock, handler>> => LockHeld'
BY DEF TypeOK, RunnerType, SocketType, ChildType, SessionType, HandlerType,
       RestartType, LockHeld, At

\* One handler moving from step to step: the lock is held as before when it was
\* and stays, or was not and stays not, in the middle of starting a child.
LEMMA LockStays ==
  ASSUME TypeOK, NEW c \in Clients, NEW h,
         handler' = [handler EXCEPT ![c] = h], UNCHANGED lock,
         \/ handler[c].pc \notin Creating /\ h.pc \notin Creating
         \/ handler[c].pc \in Creating /\ h.pc \in Creating /\ h.runner = At(c)
  PROVE  LockHeld'
<1>1. \A d \in Clients : handler'[d] = IF d = c THEN h ELSE handler[d]
  BY DEF TypeOK, HandlerType
<1>2. QED
  BY <1>1 DEF TypeOK, LockHeld, At

LEMMA BecomesStays ==
  ASSUME TypeOK, NEW c \in Clients, NEW pc, Becomes(c, pc), UNCHANGED lock,
         pc \in Creating <=> handler[c].pc \in Creating
  PROVE  LockHeld'
<1>1. handler[c] \in [pc : {"idle", "stopping"} \cup Creating \cup Ending,
        runner : Runners \cup {NoRunner}, session : Sessions \cup {NoChild},
        child : Children \cup {NoChild}]
  BY DEF TypeOK, HandlerType
<1>2. \A d \in Clients : handler'[d].pc = (IF d = c THEN pc ELSE handler[d].pc)
                         /\ handler'[d].runner = handler[d].runner
  BY <1>1 DEF TypeOK, HandlerType, Becomes
<1>3. QED
  BY <1>2 DEF TypeOK, LockHeld, At

\* Launch keeps the types.
LEMMA LaunchTyped ==
  ASSUME NEW r \in Runners, TypeOK, Launch(r)
  PROVE  TypeOK'
<1>1. RunnerType'
  BY RunnersAssumption, ClientsAssumption DEF TypeOK, Launch, Launches, Goes, RunnerType,
     Starting, Listening, Answering
<1>2. QED
  BY <1>1, SameTypes DEF TypeOK, Launch, Launches, Goes, socketVars, runnerVars, sessionVars

\* CheckSocket keeps the types.
LEMMA CheckSocketTyped ==
  ASSUME NEW r \in Runners, TypeOK, CheckSocket(r)
  PROVE  TypeOK'
<1>1. RunnerType'
  BY RunnersAssumption, ClientsAssumption DEF TypeOK, CheckSocket, Goes, RunnerType, Starting,
     Listening, Answering
<1>2. QED
  BY <1>1, SameTypes DEF TypeOK, CheckSocket, Goes, socketVars, runnerVars, sessionVars

\* RemoveLeftover keeps the types.
LEMMA RemoveLeftoverTyped ==
  ASSUME NEW r \in Runners, TypeOK, RemoveLeftover(r)
  PROVE  TypeOK'
<1>1. RunnerType'
  BY RunnersAssumption, ClientsAssumption DEF TypeOK, RemoveLeftover, Goes, RunnerType,
     Starting, Listening, Answering
<1>2. SocketType'
  BY RunnersAssumption, ClientsAssumption DEF TypeOK, RemoveLeftover, Goes, SocketType,
     HandlerType, Creating, Ending
<1>3. QED
  BY <1>1, <1>2, SameTypes DEF TypeOK, RemoveLeftover, Goes, socketVars, runnerVars, sessionVars

\* Bind keeps the types.
LEMMA BindTyped ==
  ASSUME NEW r \in Runners, TypeOK, Bind(r)
  PROVE  TypeOK'
<1>1. RunnerType'
  BY RunnersAssumption, ClientsAssumption DEF TypeOK, Bind, Goes, RunnerType, Starting,
     Listening, Answering
<1>2. SocketType'
  BY RunnersAssumption, ClientsAssumption DEF TypeOK, Bind, Goes, SocketType, HandlerType,
     Creating, Ending
<1>3. QED
  BY <1>1, <1>2, SameTypes DEF TypeOK, Bind, Goes, socketVars, runnerVars, sessionVars

\* ReadBook keeps the types.
LEMMA ReadBookTyped ==
  ASSUME NEW r \in Runners, TypeOK, ReadBook(r)
  PROVE  TypeOK'
<1>1. RunnerType'
  BY RunnersAssumption, ClientsAssumption DEF TypeOK, ReadBook, Goes, RunnerType, Starting,
     Listening, Answering, SocketType
<1>2. QED
  BY <1>1, SameTypes DEF TypeOK, ReadBook, Goes, socketVars, runnerVars, sessionVars

\* ClearOne keeps the types.
LEMMA ClearOneTyped ==
  ASSUME NEW r \in Runners, NEW ch \in Children, TypeOK, ClearOne(r, ch)
  PROVE  TypeOK'
<1>1. RunnerType'
  BY RunnersAssumption, ClientsAssumption DEF TypeOK, ClearOne, Ended, RunnerType, Starting,
     Listening, Answering
<1>2. SocketType'
  BY RunnersAssumption, ClientsAssumption DEF TypeOK, ClearOne, Ended, SocketType,
     HandlerType, Creating, Ending
<1>3. ChildType'
  BY RunnersAssumption, ClientsAssumption DEF TypeOK, ClearOne, Ended, ChildType
<1>4. QED
  BY <1>1, <1>2, <1>3, SameTypes DEF TypeOK, ClearOne, Ended, socketVars, runnerVars, sessionVars

\* Serve keeps the types.
LEMMA ServeTyped ==
  ASSUME NEW r \in Runners, TypeOK, Serve(r)
  PROVE  TypeOK'
<1>1. RunnerType'
  BY RunnersAssumption, ClientsAssumption DEF TypeOK, Serve, Goes, RunnerType, Starting,
     Listening, Answering
<1>2. QED
  BY <1>1, SameTypes DEF TypeOK, Serve, Goes, socketVars, runnerVars, sessionVars

\* Connect keeps the types.
LEMMA ConnectTyped ==
  ASSUME NEW c \in Clients, TypeOK, Connect(c)
  PROVE  TypeOK'
<1>1. HandlerType'
  BY RunnersAssumption, ClientsAssumption DEF TypeOK, Connect, Free, HandlerType, At,
     Creating, Ending, SocketType
<1>2. LockHeld'
  <2> DEFINE h == [handler[c] EXCEPT !.runner = path]
  <2>1. handler' = [handler EXCEPT ![c] = h] /\ UNCHANGED lock
    BY DEF Connect, Done, sessionVars, TypeOK, HandlerType
  <2>2. h.pc \notin Creating /\ handler[c].pc \notin Creating
    BY DEF Connect, Rests, Free, Creating
  <2>3. QED
    BY <2>1, <2>2, LockStays
<1>3. QED
  BY <1>1, <1>2, SameTypes DEF TypeOK, Connect, Free, socketVars, runnerVars, sessionVars

\* Disconnect keeps the types.
LEMMA DisconnectTyped ==
  ASSUME NEW c \in Clients, TypeOK, Disconnect(c)
  PROVE  TypeOK'
<1>1. SessionType'
  BY RunnersAssumption, ClientsAssumption DEF TypeOK, Disconnect, Rests, Free, SessionType,
     NoSessions, HandlerType, Creating, Ending, At
<1>2. HandlerType'
  BY RunnersAssumption, ClientsAssumption DEF TypeOK, Disconnect, Rests, Free, HandlerType,
     At, Creating, Ending
<1>3. LockHeld'
  BY RunnersAssumption, ClientsAssumption DEF TypeOK, Disconnect, Rests, Free, LockHeld, At,
     Creating, Ending, HandlerType, SessionType
<1>4. QED
  BY <1>1, <1>2, <1>3, SameTypes DEF TypeOK, Disconnect, Rests, Free, socketVars, runnerVars,
     sessionVars

\* Subscribe keeps the types.
LEMMA SubscribeTyped ==
  ASSUME NEW c \in Clients, TypeOK, Subscribe(c)
  PROVE  TypeOK'
<1>1. SessionType'
  BY RunnersAssumption, ClientsAssumption DEF TypeOK, Subscribe, Rests, SessionType,
     NoSessions, HandlerType, Creating, Ending, At
<1>2. QED
  BY <1>1, SameTypes DEF TypeOK, Subscribe, Rests, socketVars, runnerVars, sessionVars

\* Spawn keeps the types.
LEMMA SpawnTyped ==
  ASSUME NEW c \in Clients, NEW s \in Sessions, TypeOK, Spawn(c, s)
  PROVE  TypeOK'
<1>1. ChildType'
  <2>1. PICK late \in BOOLEAN : late = Late(At(c))
    BY DEF Late
  <2>2. PICK ch \in Children : child' = [child EXCEPT ![ch] =
          [state |-> "running", runner |-> At(c), session |-> s, given |-> FALSE, late |-> late]]
    BY <2>1 DEF Spawn
  <2>3. At(c) \in Runners
    BY DEF Spawn, Rests, TypeOK, HandlerType, At
  <2>4. QED
    BY <2>2, <2>3 DEF TypeOK, ChildType
<1>2. SessionType'
  BY RunnersAssumption, ClientsAssumption DEF TypeOK, Spawn, Rests, GuardHeld, SessionType,
     NoSessions, HandlerType, Creating, Ending, At
<1>3. HandlerType'
  BY RunnersAssumption, ClientsAssumption DEF TypeOK, Spawn, Rests, GuardHeld, HandlerType,
     At, Creating, Ending
<1>4. LockHeld'
  BY RunnersAssumption, ClientsAssumption DEF TypeOK, Spawn, Rests, GuardHeld, LockHeld, At,
     Creating, Ending, HandlerType, SessionType
<1>5. QED
  BY <1>1, <1>2, <1>3, <1>4, SameTypes DEF TypeOK, Spawn, Rests, GuardHeld, socketVars,
     runnerVars, sessionVars

\* Remember keeps the types.
LEMMA RememberTyped ==
  ASSUME NEW c \in Clients, TypeOK, Remember(c)
  PROVE  TypeOK'
<1>1. SocketType'
  BY RunnersAssumption, ClientsAssumption DEF TypeOK, Remember, Becomes, SocketType,
     HandlerType, Creating, Ending
<1>2. HandlerType'
  BY RunnersAssumption, ClientsAssumption DEF TypeOK, Remember, Becomes, HandlerType, At,
     Creating, Ending
<1>3. LockHeld'
  <2>1. Becomes(c, "written") /\ UNCHANGED lock
    BY DEF Remember, sessionVars
  <2>2. QED
    BY <2>1, BecomesStays DEF Remember, Rests, Creating
<1>4. QED
  BY <1>1, <1>2, <1>3, SameTypes DEF TypeOK, Remember, Becomes, socketVars, runnerVars,
     sessionVars

\* Insert keeps the types.
LEMMA InsertTyped ==
  ASSUME NEW c \in Clients, TypeOK, Insert(c)
  PROVE  TypeOK'
<1>1. ChildType'
  <2> DEFINE ch == handler[c].child
  <2>1. ch \in Children /\ child' = [child EXCEPT ![ch].given = TRUE]
    BY DEF Insert, TypeOK, HandlerType, Creating
  <2>2. [child[ch] EXCEPT !.given = TRUE] \in
          [state : {"none", "running", "exited"}, runner : Runners \cup {NoRunner},
           session : Sessions \cup {NoChild}, given : BOOLEAN, late : BOOLEAN]
    BY <2>1 DEF TypeOK, ChildType
  <2>3. child' = [child EXCEPT ![ch] = [child[ch] EXCEPT !.given = TRUE]]
    BY <2>1 DEF TypeOK, ChildType
  <2>4. QED
    BY <2>1, <2>2, <2>3 DEF TypeOK, ChildType
<1>2. SessionType'
  BY RunnersAssumption, ClientsAssumption DEF TypeOK, Insert, Done, Free, SessionType,
     NoSessions, HandlerType, Creating, Ending, At
<1>3. HandlerType'
  BY RunnersAssumption, ClientsAssumption DEF TypeOK, Insert, Done, Free, HandlerType, At,
     Creating, Ending
<1>4. LockHeld'
  BY RunnersAssumption, ClientsAssumption DEF TypeOK, Insert, Done, Free, LockHeld, At,
     Creating, Ending, HandlerType, SessionType
<1>5. QED
  BY <1>1, <1>2, <1>3, <1>4, SameTypes DEF TypeOK, Insert, Done, Free, socketVars, runnerVars,
     sessionVars

\* CloseBegins keeps the types.
LEMMA CloseBeginsTyped ==
  ASSUME NEW c \in Clients, NEW s \in Sessions, TypeOK, CloseBegins(c, s)
  PROVE  TypeOK'
<1>1. HandlerType'
  BY RunnersAssumption, ClientsAssumption DEF TypeOK, CloseBegins, Rests, HandlerType, At,
     Creating, Ending, SessionType
<1>2. LockHeld'
  <2> DEFINE h == [pc |-> "closing", runner |-> At(c), session |-> s, child |-> sessions[At(c)][s]]
  <2>1. handler' = [handler EXCEPT ![c] = h] /\ UNCHANGED lock
    BY DEF CloseBegins, Done, sessionVars, TypeOK, HandlerType
  <2>2. h.pc \notin Creating /\ handler[c].pc \notin Creating
    BY DEF CloseBegins, Rests, Free, Creating
  <2>3. QED
    BY <2>1, <2>2, LockStays
<1>3. QED
  BY <1>1, <1>2, SameTypes DEF TypeOK, CloseBegins, Rests, socketVars, runnerVars, sessionVars

\* CloseSettles keeps the types.
LEMMA CloseSettlesTyped ==
  ASSUME NEW c \in Clients, TypeOK, CloseSettles(c)
  PROVE  TypeOK'
<1>1. HandlerType'
  BY RunnersAssumption, ClientsAssumption DEF TypeOK, CloseSettles, Becomes, Done, Free,
     HandlerType, At, Creating, Ending
<1>2. LockHeld'
  <2>1. CASE Becomes(c, "forgetting")
    BY <2>1, BecomesStays DEF CloseSettles, sessionVars, Creating
  <2>2. CASE Done(c)
    <3> DEFINE h == [Free EXCEPT !.runner = At(c)]
    <3>1. handler' = [handler EXCEPT ![c] = h] /\ UNCHANGED lock
      BY <2>2 DEF CloseSettles, Done, sessionVars
    <3>2. h.pc \notin Creating /\ handler[c].pc \notin Creating
      BY DEF CloseSettles, Free, Creating
    <3>3. QED
      BY <3>1, <3>2, LockStays
  <2>3. QED
    BY <2>1, <2>2 DEF CloseSettles
<1>3. QED
  BY <1>1, <1>2, SameTypes DEF TypeOK, CloseSettles, Becomes, Done, Free, socketVars,
     runnerVars, sessionVars

\* Forget keeps the types.
LEMMA ForgetTyped ==
  ASSUME NEW c \in Clients, TypeOK, Forget(c)
  PROVE  TypeOK'
<1>1. SocketType'
  BY RunnersAssumption, ClientsAssumption DEF TypeOK, Forget, Becomes, SocketType,
     HandlerType, Creating, Ending
<1>2. HandlerType'
  BY RunnersAssumption, ClientsAssumption DEF TypeOK, Forget, Becomes, HandlerType, At,
     Creating, Ending
<1>3. LockHeld'
  <2>1. Becomes(c, "unlisting") /\ UNCHANGED lock
    BY DEF Forget, sessionVars
  <2>2. QED
    BY <2>1, BecomesStays DEF Forget, Rests, Creating
<1>4. QED
  BY <1>1, <1>2, <1>3, SameTypes DEF TypeOK, Forget, Becomes, socketVars, runnerVars, sessionVars

\* Unlist keeps the types.
LEMMA UnlistTyped ==
  ASSUME NEW c \in Clients, TypeOK, Unlist(c)
  PROVE  TypeOK'
<1>1. SessionType'
  BY RunnersAssumption, ClientsAssumption DEF TypeOK, Unlist, Done, Free, SessionType,
     NoSessions, HandlerType, Creating, Ending, At
<1>2. HandlerType'
  BY RunnersAssumption, ClientsAssumption DEF TypeOK, Unlist, Done, Free, HandlerType, At,
     Creating, Ending
<1>3. LockHeld'
  BY RunnersAssumption, ClientsAssumption DEF TypeOK, Unlist, Done, Free, LockHeld, At,
     Creating, Ending, HandlerType, SessionType
<1>4. QED
  BY <1>1, <1>2, <1>3, SameTypes DEF TypeOK, Unlist, Done, Free, socketVars, runnerVars,
     sessionVars

\* StopAnswered keeps the types.
LEMMA StopAnsweredTyped ==
  ASSUME NEW c \in Clients, TypeOK, StopAnswered(c)
  PROVE  TypeOK'
<1>1. HandlerType'
  BY RunnersAssumption, ClientsAssumption DEF TypeOK, StopAnswered, Rests, Becomes,
     HandlerType, At, Creating, Ending
<1>2. LockHeld'
  <2>1. Becomes(c, "stopping") /\ UNCHANGED lock
    BY DEF StopAnswered, sessionVars
  <2>2. QED
    BY <2>1, BecomesStays DEF StopAnswered, Rests, Creating
<1>3. QED
  BY <1>1, <1>2, SameTypes DEF TypeOK, StopAnswered, Rests, Becomes, socketVars, runnerVars,
     sessionVars

\* AskToStop keeps the types.
LEMMA AskToStopTyped ==
  ASSUME NEW c \in Clients, TypeOK, AskToStop(c)
  PROVE  TypeOK'
<1>1. RunnerType'
  BY RunnersAssumption, ClientsAssumption DEF TypeOK, AskToStop, Done, Free, RunnerType,
     Starting, Listening, Answering
<1>2. HandlerType'
  BY RunnersAssumption, ClientsAssumption DEF TypeOK, AskToStop, Done, Free, HandlerType, At,
     Creating, Ending
<1>3. LockHeld'
  <2> DEFINE h == [Free EXCEPT !.runner = At(c)]
  <2>1. handler' = [handler EXCEPT ![c] = h] /\ UNCHANGED lock
    BY DEF AskToStop, Done, sessionVars, TypeOK, HandlerType
  <2>2. h.pc \notin Creating /\ handler[c].pc \notin Creating
    BY DEF AskToStop, Rests, Free, Creating
  <2>3. QED
    BY <2>1, <2>2, LockStays
<1>4. QED
  BY <1>1, <1>2, <1>3, SameTypes DEF TypeOK, AskToStop, Done, Free, socketVars, runnerVars,
     sessionVars

\* LeaveOnStop keeps the types.
LEMMA LeaveOnStopTyped ==
  ASSUME NEW r \in Runners, TypeOK, LeaveOnStop(r)
  PROVE  TypeOK'
<1>1. RunnerType'
  BY RunnersAssumption, ClientsAssumption DEF TypeOK, LeaveOnStop, Goes, RunnerType, Starting,
     Listening, Answering
<1>2. QED
  BY <1>1, SameTypes DEF TypeOK, LeaveOnStop, Goes, socketVars, runnerVars, sessionVars

\* LeaveWhenIdle keeps the types.
LEMMA LeaveWhenIdleTyped ==
  ASSUME NEW r \in Runners, TypeOK, LeaveWhenIdle(r)
  PROVE  TypeOK'
<1>1. RunnerType'
  BY RunnersAssumption, ClientsAssumption DEF TypeOK, LeaveWhenIdle, Goes, RunnerType,
     Starting, Listening, Answering
<1>2. QED
  BY <1>1, SameTypes DEF TypeOK, LeaveWhenIdle, Goes, socketVars, runnerVars, sessionVars

\* Collect keeps the types.
LEMMA CollectTyped ==
  ASSUME NEW r \in Runners, TypeOK, Collect(r)
  PROVE  TypeOK'
<1>1. RunnerType'
  BY RunnersAssumption, ClientsAssumption DEF TypeOK, Collect, Goes, RunnerType, Starting,
     Listening, Answering, SessionType
<1>2. QED
  BY <1>1, SameTypes DEF TypeOK, Collect, Goes, socketVars, runnerVars, sessionVars

\* CloserSettles keeps the types.
LEMMA CloserSettlesTyped ==
  ASSUME NEW r \in Runners, NEW ch \in Children, TypeOK, CloserSettles(r, ch)
  PROVE  TypeOK'
<1>1. RunnerType'
  BY RunnersAssumption, ClientsAssumption DEF TypeOK, CloserSettles, RunnerType, Starting,
     Listening, Answering
<1>2. SocketType'
  BY RunnersAssumption, ClientsAssumption DEF TypeOK, CloserSettles, SocketType, HandlerType,
     Creating, Ending
<1>3. QED
  BY <1>1, <1>2, SameTypes DEF TypeOK, CloserSettles, socketVars, runnerVars, sessionVars

\* RemoveSocket keeps the types.
LEMMA RemoveSocketTyped ==
  ASSUME NEW r \in Runners, TypeOK, RemoveSocket(r)
  PROVE  TypeOK'
<1>1. RunnerType'
  BY RunnersAssumption, ClientsAssumption DEF TypeOK, RemoveSocket, Goes, RunnerType,
     Starting, Listening, Answering
<1>2. SocketType'
  BY RunnersAssumption, ClientsAssumption DEF TypeOK, RemoveSocket, Goes, SocketType,
     HandlerType, Creating, Ending
<1>3. QED
  BY <1>1, <1>2, SameTypes DEF TypeOK, RemoveSocket, Goes, socketVars, runnerVars, sessionVars

\* Exit keeps the types.
LEMMA ExitTyped ==
  ASSUME NEW r \in Runners, TypeOK, Exit(r)
  PROVE  TypeOK'
<1>1. RunnerType'
  BY RunnersAssumption, ClientsAssumption DEF TypeOK, Exit, Gone, Goes, Ended, Free,
     RunnerType, Starting, Listening, Answering
<1>2. ChildType'
  BY RunnersAssumption, ClientsAssumption DEF TypeOK, Exit, Gone, Goes, Ended, Free, ChildType
<1>3. SessionType'
  BY RunnersAssumption, ClientsAssumption DEF TypeOK, Exit, Gone, Goes, Ended, Free,
     SessionType, NoSessions, HandlerType, Creating, Ending, At
<1>4. HandlerType'
  BY RunnersAssumption, ClientsAssumption DEF TypeOK, Exit, Gone, Goes, Ended, Free,
     HandlerType, At, Creating, Ending
<1>5. LockHeld'
  BY RunnersAssumption, ClientsAssumption DEF TypeOK, Exit, Gone, Goes, Ended, Free, LockHeld,
     At, Creating, Ending, HandlerType, SessionType
<1>6. QED
  BY <1>1, <1>2, <1>3, <1>4, <1>5, SameTypes DEF TypeOK, Exit, Gone, Goes, Ended, Free,
     socketVars, runnerVars, sessionVars

\* AcceptFails keeps the types.
LEMMA AcceptFailsTyped ==
  ASSUME NEW r \in Runners, TypeOK, AcceptFails(r)
  PROVE  TypeOK'
<1>1. RunnerType'
  BY RunnersAssumption, ClientsAssumption DEF TypeOK, AcceptFails, Gone, Goes, Ended, Free,
     RunnerType, Starting, Listening, Answering
<1>2. ChildType'
  BY RunnersAssumption, ClientsAssumption DEF TypeOK, AcceptFails, Gone, Goes, Ended, Free,
     ChildType
<1>3. SessionType'
  BY RunnersAssumption, ClientsAssumption DEF TypeOK, AcceptFails, Gone, Goes, Ended, Free,
     SessionType, NoSessions, HandlerType, Creating, Ending, At
<1>4. HandlerType'
  BY RunnersAssumption, ClientsAssumption DEF TypeOK, AcceptFails, Gone, Goes, Ended, Free,
     HandlerType, At, Creating, Ending
<1>5. LockHeld'
  BY RunnersAssumption, ClientsAssumption DEF TypeOK, AcceptFails, Gone, Goes, Ended, Free,
     LockHeld, At, Creating, Ending, HandlerType, SessionType
<1>6. QED
  BY <1>1, <1>2, <1>3, <1>4, <1>5, SameTypes DEF TypeOK, AcceptFails, Gone, Goes, Ended, Free,
     socketVars, runnerVars, sessionVars

\* Crash keeps the types.
LEMMA CrashTyped ==
  ASSUME NEW r \in Runners, TypeOK, Crash(r)
  PROVE  TypeOK'
<1>1. RunnerType'
  BY RunnersAssumption, ClientsAssumption DEF TypeOK, Crash, Gone, Goes, Free, RunnerType,
     Starting, Listening, Answering
<1>2. SessionType'
  BY RunnersAssumption, ClientsAssumption DEF TypeOK, Crash, Gone, Goes, Free, SessionType,
     NoSessions, HandlerType, Creating, Ending, At
<1>3. HandlerType'
  BY RunnersAssumption, ClientsAssumption DEF TypeOK, Crash, Gone, Goes, Free, HandlerType,
     At, Creating, Ending
<1>4. LockHeld'
  BY RunnersAssumption, ClientsAssumption DEF TypeOK, Crash, Gone, Goes, Free, LockHeld, At,
     Creating, Ending, HandlerType, SessionType
<1>5. QED
  BY <1>1, <1>2, <1>3, <1>4, SameTypes DEF TypeOK, Crash, Gone, Goes, Free, socketVars,
     runnerVars, sessionVars

\* ChildExits keeps the types.
LEMMA ChildExitsTyped ==
  ASSUME NEW ch \in Children, TypeOK, ChildExits(ch)
  PROVE  TypeOK'
<1>1. ChildType'
  BY RunnersAssumption, ClientsAssumption DEF TypeOK, ChildExits, Ended, ChildType
<1>2. QED
  BY <1>1, SameTypes DEF TypeOK, ChildExits, Ended, socketVars, runnerVars, sessionVars

\* RestartStops keeps the types.
LEMMA RestartStopsTyped ==
  ASSUME NEW c \in Clients, TypeOK, RestartStops(c)
  PROVE  TypeOK'
<1>1. HandlerType'
  BY RunnersAssumption, ClientsAssumption DEF TypeOK, RestartStops, Rests, Becomes,
     HandlerType, At, Creating, Ending
<1>2. RestartType'
  BY RunnersAssumption, ClientsAssumption DEF TypeOK, RestartStops, Rests, Becomes,
     RestartType, HandlerType, At
<1>3. LockHeld'
  <2>1. Becomes(c, "stopping") /\ UNCHANGED lock
    BY DEF RestartStops, sessionVars
  <2>2. QED
    BY <2>1, BecomesStays DEF RestartStops, Rests, Creating
<1>4. QED
  BY <1>1, <1>2, <1>3, SameTypes DEF TypeOK, RestartStops, Rests, Becomes, socketVars,
     runnerVars, sessionVars

\* RestartStarts keeps the types.
LEMMA RestartStartsTyped ==
  ASSUME TypeOK, RestartStarts
  PROVE  TypeOK'
<1>1. RunnerType'
  BY RunnersAssumption, ClientsAssumption DEF TypeOK, RestartStarts, Reports, Launches, Goes,
     RunnerType, Starting, Listening, Answering
<1>2. RestartType'
  BY RunnersAssumption, ClientsAssumption DEF TypeOK, RestartStarts, Reports, Launches, Goes,
     RestartType, HandlerType, At
<1>3. QED
  BY <1>1, <1>2, SameTypes DEF TypeOK, RestartStarts, Reports, Launches, Goes, socketVars,
     runnerVars, sessionVars

\* RestartConnects keeps the types.
LEMMA RestartConnectsTyped ==
  ASSUME TypeOK, RestartConnects
  PROVE  TypeOK'
<1>1. RestartType'
  BY RunnersAssumption, ClientsAssumption DEF TypeOK, RestartConnects, Reports, RestartType,
     HandlerType, At
<1>2. QED
  BY <1>1, SameTypes DEF TypeOK, RestartConnects, Reports, socketVars, runnerVars, sessionVars

-----------------------------------------------------------------------------

\* Every step keeps the types: one lemma per action, above.
LEMMA TypeStep == TypeOK /\ [Next]_vars => TypeOK'
<1> SUFFICES ASSUME TypeOK, [Next]_vars PROVE TypeOK'
  OBVIOUS
<1>1. ASSUME NEW r \in Runners, Launch(r) \/ StartStep(r) PROVE TypeOK'
  BY <1>1, LaunchTyped, CheckSocketTyped, RemoveLeftoverTyped, BindTyped, ReadBookTyped,
     ClearOneTyped, ServeTyped DEF StartStep
<1>2. ASSUME NEW r \in Runners,
             LeaveStep(r) \/ LeaveWhenIdle(r) \/ AcceptFails(r) \/ Crash(r)
      PROVE TypeOK'
  BY <1>2, LeaveOnStopTyped, CollectTyped, CloserSettlesTyped, RemoveSocketTyped, ExitTyped,
     LeaveWhenIdleTyped, AcceptFailsTyped, CrashTyped DEF LeaveStep
<1>3. ASSUME NEW c \in Clients, ClientStep(c) PROVE TypeOK'
  BY <1>3, ConnectTyped, DisconnectTyped, SubscribeTyped, StopAnsweredTyped, SpawnTyped,
     CloseBeginsTyped DEF ClientStep
<1>4. ASSUME NEW c \in Clients, HandlerStep(c) PROVE TypeOK'
  BY <1>4, RememberTyped, InsertTyped, CloseSettlesTyped, ForgetTyped, UnlistTyped,
     AskToStopTyped DEF HandlerStep
<1>5. ASSUME NEW ch \in Children, ChildExits(ch) PROVE TypeOK'
  BY <1>5, ChildExitsTyped
<1>6. CASE RestartStep
  BY <1>6, RestartStopsTyped, RestartStartsTyped, RestartConnectsTyped DEF RestartStep
<1>7. CASE UNCHANGED vars
  BY <1>7, SameTypes DEF TypeOK, vars, socketVars, runnerVars, sessionVars
<1>8. QED
  BY <1>1, <1>2, <1>3, <1>4, <1>5, <1>6, <1>7 DEF Next

\* The initial state has the types.
LEMMA TypeInit == Init => TypeOK
<1> SUFFICES ASSUME Init PROVE TypeOK
  OBVIOUS
<1>1. RunnerType /\ SocketType
  BY DEF Init, RunnerType, SocketType
<1>2. ChildType
  BY DEF Init, ChildType, Unborn
<1>3. SessionType
  BY DEF Init, SessionType, NoSessions
<1>4. HandlerType /\ LockHeld
  BY ClientsAssumption DEF Init, HandlerType, LockHeld, Free, Creating, Ending, At
<1>5. RestartType
  BY DEF Init, RestartType, NoRestart
<1>6. QED
  BY <1>1, <1>2, <1>3, <1>4, <1>5 DEF TypeOK

\* Every variable keeps its type in every behaviour, and the lock its holder.
THEOREM TypeCorrect == Spec => []TypeOK
<1>1. QED
  BY TypeInit, TypeStep, PTL DEF Spec

-----------------------------------------------------------------------------
(* The inductive invariants of RunnerDaemon and what follows from them.    *)
(* A handler gives up control at every await: the invariant says what each *)
(* request in progress may still rely on when it goes on.  Three lemmas    *)
(* cover the steps that only move a runner, only end children and only     *)
(* move a handler; the rest have one each.                                 *)

\* A connection has a runner that answers; a child that was started belongs to a
\* session of a runner that answers or is gone.
ServedInv ==
  /\ \A c \in Clients : At(c) # NoRunner => phase[At(c)] \in Answering
  /\ \A ch \in Children : child[ch].state # "none" =>
       /\ child[ch].session \in Sessions /\ child[ch].runner \in Runners
       /\ phase[child[ch].runner] \in Answering \cup {"gone"}

\* What a request in progress knows of its child, whatever happened since its
\* last await: a child being started has its place in the registry kept free
\* and is in the book before it is handed out; one being forgotten has ended.
Knows(c) ==
  /\ handler[c].pc \in Creating =>
       /\ child[handler[c].child].state # "none"
       /\ child[handler[c].child].runner = handler[c].runner
       /\ child[handler[c].child].session = handler[c].session
       /\ Vacant(handler[c].runner, handler[c].session)
  /\ handler[c].pc = "written" => handler[c].child \in book \/ ~Running(handler[c].child)
  /\ handler[c].pc = "closing" => child[handler[c].child].state # "none"
  /\ handler[c].pc \in {"forgetting", "unlisting"} => child[handler[c].child].state = "exited"

HandlerInv ==
  /\ \A r \in Runners, s \in Sessions :
       sessions[r][s] # NoChild => child[sessions[r][s]].state # "none"
  /\ \A c \in Clients : Knows(c)

Inv == ServedInv /\ HandlerInv /\ RecordKept /\ RegistryReaches

-----------------------------------------------------------------------------
(* Steps by what they change.                                              *)

\* A runner moves on: it keeps answering if it did, and stays gone.
LEMMA RunnerMoves ==
  ASSUME TypeOK, Inv, UNCHANGED <<child, handler, sessions, book>>,
         \A q \in Runners : /\ phase[q] \in Answering => phase'[q] \in Answering
                            /\ phase[q] = "gone" => phase'[q] = "gone"
  PROVE  Inv'
<1>1. ServedInv'
  BY DEF Inv, ServedInv, At, TypeOK, HandlerType
<1>2. HandlerInv'
  BY DEF Inv, HandlerInv, Knows, Vacant, Running
<1>3. RecordKept'
  BY DEF Inv, RecordKept, InUse, Running
<1>4. RegistryReaches'
  BY DEF Inv, ServedInv, RegistryReaches, InUse, Running, Answering
<1>5. QED
  BY <1>1, <1>2, <1>3, <1>4 DEF Inv

\* A child ends: nothing else of any child changes, and only children that run
\* no more leave the book.
ChildrenEnd ==
  \A ch \in Children :
    /\ child'[ch].runner = child[ch].runner /\ child'[ch].session = child[ch].session
    /\ child'[ch].given = child[ch].given
    /\ \/ child'[ch].state = child[ch].state
       \/ child[ch].state = "running" /\ child'[ch].state = "exited"
    /\ ch \in book => ch \in book' \/ child'[ch].state # "running"

LEMMA EndedPoint ==
  ASSUME TypeOK, NEW chs, child' = Ended(chs)
  PROVE  \A ch \in Children :
           /\ child'[ch].runner = child[ch].runner /\ child'[ch].session = child[ch].session
           /\ child'[ch].given = child[ch].given /\ child'[ch].late = child[ch].late
           /\ child'[ch].state = IF ch \in chs /\ child[ch].state = "running" THEN "exited"
                                                              ELSE child[ch].state
BY DEF TypeOK, ChildType, Ended, Running

LEMMA ChildrenEndInv ==
  ASSUME TypeOK, Inv, UNCHANGED <<handler, sessions, phase>>, ChildrenEnd
  PROVE  Inv'
<1>1. ServedInv'
  BY DEF Inv, ServedInv, At, ChildrenEnd
<1>2. HandlerInv'
  <2>1. \A r \in Runners, s \in Sessions :
          sessions'[r][s] # NoChild => child'[sessions'[r][s]].state # "none"
    BY DEF Inv, HandlerInv, ChildrenEnd, TypeOK, SessionType
  <2>2. \A r \in Runners, s \in Sessions : Vacant(r, s) => Vacant(r, s)'
    BY DEF ChildrenEnd, Vacant, Running
  <2>3. ASSUME NEW c \in Clients PROVE Knows(c)'
    <3>1. handler[c].pc \in Creating \cup Ending =>
            /\ handler[c].runner \in Runners /\ handler[c].session \in Sessions
            /\ handler[c].child \in Children
      BY DEF TypeOK, HandlerType, At, Creating, Ending
    <3>2. Knows(c)
      BY DEF Inv, HandlerInv
    <3>3. handler[c].pc \in Creating => Vacant(handler[c].runner, handler[c].session)'
      BY <2>2, <3>1, <3>2 DEF Knows
    <3>4. QED
      BY <3>1, <3>2, <3>3 DEF Knows, ChildrenEnd, Running, Creating, Ending
  <2>4. QED
    BY <2>1, <2>3 DEF HandlerInv
<1>3. RecordKept'
  BY DEF Inv, RecordKept, InUse, Running, ChildrenEnd
<1>4. RegistryReaches'
  BY DEF Inv, RegistryReaches, InUse, Running, ChildrenEnd
<1>5. QED
  BY <1>1, <1>2, <1>3, <1>4 DEF Inv

\* A handler moves on, and only children that run no more leave the book.
HandlerMoves(c) ==
  /\ \A d \in Clients \ {c} : handler'[d] = handler[d]
  /\ LET h == handler'[c] IN
     /\ h.runner # NoRunner => phase[h.runner] \in Answering
     /\ h.pc \in Creating =>
          /\ handler[c].pc \in Creating /\ h.runner = handler[c].runner
          /\ h.session = handler[c].session /\ h.child = handler[c].child
     /\ h.pc = "written" => h.child \in book' \/ ~Running(h.child)
     /\ h.pc = "closing" => child[h.child].state # "none"
     /\ h.pc \in {"forgetting", "unlisting"} => child[h.child].state = "exited"

LEMMA HandlerMovesInv ==
  ASSUME TypeOK, Inv, NEW c \in Clients, HandlerMoves(c),
         UNCHANGED <<child, sessions, phase>>,
         \A ch \in Children : ch \in book => ch \in book' \/ ~Running(ch)
  PROVE  Inv'
<1>1. ServedInv'
  BY DEF Inv, ServedInv, At, HandlerMoves
<1>2. HandlerInv'
  <2>1. \A r \in Runners, s \in Sessions : Vacant(r, s) => Vacant(r, s)'
    BY DEF Vacant, Running
  <2>2. ASSUME NEW d \in Clients PROVE Knows(d)'
    <3>1. handler[d].pc \in Creating \cup Ending =>
            /\ handler[d].runner \in Runners /\ handler[d].session \in Sessions
            /\ handler[d].child \in Children
      BY DEF TypeOK, HandlerType, At, Creating, Ending
    <3>2. Knows(d)
      BY DEF Inv, HandlerInv
    <3>3. CASE d # c
      <4>1. handler'[d] = handler[d]
        BY <3>3 DEF HandlerMoves
      <4>2. handler[d].pc \in Creating => Vacant(handler[d].runner, handler[d].session)'
        BY <2>1, <3>1, <3>2, <4>1 DEF Knows
      <4>3. QED
        BY <3>1, <3>2, <4>1, <4>2 DEF Knows, Running, Creating, Ending
    <3>4. CASE d = c
      <4>1. handler'[d].pc \in Creating => Vacant(handler[d].runner, handler[d].session)'
        BY <2>1, <3>1, <3>2, <3>4 DEF Knows, HandlerMoves
      <4>2. QED
        BY <3>2, <3>4, <4>1 DEF Knows, HandlerMoves, Running
    <3>5. QED
      BY <3>3, <3>4
  <2>3. QED
    BY <2>2 DEF Inv, HandlerInv
<1>3. RecordKept'
  BY DEF Inv, RecordKept, InUse, Running
<1>4. RegistryReaches'
  BY DEF Inv, RegistryReaches, InUse, Running
<1>5. QED
  BY <1>1, <1>2, <1>3, <1>4 DEF Inv

\* The process ends and takes with it its registry and its handlers; its
\* children end too or go on.
LEMMA GoneInv ==
  ASSUME TypeOK, Inv, NEW r \in Runners, Gone(r), ChildrenEnd, UNCHANGED book
  PROVE  Inv'
<1>1. /\ \A q \in Runners : phase'[q] = IF q = r THEN "gone" ELSE phase[q]
      /\ \A q \in Runners, s \in Sessions :
           sessions'[q][s] = IF q = r THEN NoChild ELSE sessions[q][s]
      /\ \A c \in Clients : handler'[c] = IF At(c) = r THEN Free ELSE handler[c]
  BY DEF Gone, Goes, NoSessions, TypeOK, RunnerType, SessionType
<1>2. ServedInv'
  <2>1. ASSUME NEW c \in Clients, At(c)' # NoRunner PROVE phase'[At(c)'] \in Answering
    BY <1>1, <2>1 DEF Inv, ServedInv, At, Free, TypeOK, HandlerType
  <2>2. ASSUME NEW ch \in Children, child'[ch].state # "none"
        PROVE  /\ child'[ch].session \in Sessions /\ child'[ch].runner \in Runners
               /\ phase'[child'[ch].runner] \in Answering \cup {"gone"}
    BY <1>1, <2>2 DEF Inv, ServedInv, ChildrenEnd
  <2>3. QED
    BY <2>1, <2>2 DEF ServedInv
<1>3. HandlerInv'
  <2>1. \A q \in Runners, s \in Sessions :
          sessions'[q][s] # NoChild => child'[sessions'[q][s]].state # "none"
    BY <1>1 DEF Inv, HandlerInv, ChildrenEnd, TypeOK, SessionType
  <2>2. \A q \in Runners, s \in Sessions : q # r /\ Vacant(q, s) => Vacant(q, s)'
    BY <1>1 DEF ChildrenEnd, Vacant, Running
  <2>3. ASSUME NEW c \in Clients PROVE Knows(c)'
    <3>1. handler[c].pc \in Creating \cup Ending =>
            /\ handler[c].runner \in Runners /\ handler[c].session \in Sessions
            /\ handler[c].child \in Children
      BY DEF TypeOK, HandlerType, At, Creating, Ending
    <3>2. Knows(c)
      BY DEF Inv, HandlerInv
    <3>3. CASE At(c) = r
      BY <1>1, <3>3 DEF Knows, Free, Creating
    <3>4. CASE At(c) # r
      <4>1. handler'[c] = handler[c]
        BY <1>1, <3>4
      <4>2. handler[c].pc \in Creating => Vacant(handler[c].runner, handler[c].session)'
        BY <2>2, <3>1, <3>2, <3>4, <4>1 DEF Knows, At
      <4>3. QED
        BY <3>1, <3>2, <4>1, <4>2 DEF Knows, ChildrenEnd, Running, Creating, Ending
    <3>5. QED
      BY <3>3, <3>4
  <2>4. QED
    BY <2>1, <2>3 DEF HandlerInv
<1>4. RecordKept'
  BY DEF Inv, RecordKept, InUse, Running, ChildrenEnd
<1>5. RegistryReaches'
  BY <1>1 DEF Inv, ServedInv, RegistryReaches, InUse, Running, ChildrenEnd, Answering
<1>6. QED
  BY <1>2, <1>3, <1>4, <1>5 DEF Inv

\* A child is started: its place is free, and stays so for whoever holds the
\* lock of another runner.
LEMMA SpawnInv ==
  ASSUME TypeOK, Inv, NEW c \in Clients, NEW s \in Sessions, Spawn(c, s)
  PROVE  Inv'
<1> DEFINE r == At(c)
<1>1. PICK ch \in Children :
        /\ child[ch] = Unborn
        /\ child' = [child EXCEPT ![ch] = [state |-> "running", runner |-> r,
                                           session |-> s, given |-> FALSE,
                                           late |-> Late(r)]]
        /\ handler' = [handler EXCEPT ![c] = [pc |-> "spawned", runner |-> r,
                                              session |-> s, child |-> ch]]
  BY DEF Spawn
<1>2. r \in Runners /\ Vacant(r, s) /\ UNCHANGED <<phase, sessions, book>>
  BY DEF Spawn, Rests, At, TypeOK, HandlerType, socketVars, runnerVars
<1>3. /\ \A k \in Children : child'[k] = IF k = ch
           THEN [state |-> "running", runner |-> r, session |-> s, given |-> FALSE,
                 late |-> Late(r)]
           ELSE child[k]
      /\ \A d \in Clients : handler'[d] = IF d = c
           THEN [pc |-> "spawned", runner |-> r, session |-> s, child |-> ch]
           ELSE handler[d]
      /\ child[ch].state = "none"
  BY <1>1 DEF TypeOK, ChildType, HandlerType, Unborn
<1>4. ServedInv'
  BY <1>2, <1>3, RunnersAssumption DEF Inv, ServedInv, At, Rests, Spawn
<1>5. HandlerInv'
  <2>1. \A q \in Runners, z \in Sessions :
          sessions'[q][z] # NoChild => child'[sessions'[q][z]].state # "none"
    BY <1>2, <1>3 DEF Inv, HandlerInv, TypeOK, SessionType
  <2>2. \A q \in Runners, z \in Sessions : Vacant(q, z) => Vacant(q, z)'
    <3>1. \A q \in Runners, z \in Sessions : sessions[q][z] # ch \/ ch = NoChild
      BY <1>3 DEF Inv, HandlerInv
    <3>2. ch # NoChild
      BY DEF Children, NoChild
    <3>3. QED
      BY <1>2, <1>3, <3>1, <3>2 DEF Vacant, Running
  <2>3. ASSUME NEW d \in Clients PROVE Knows(d)'
    <3>1. handler[d].pc \in Creating \cup Ending =>
            /\ handler[d].runner \in Runners /\ handler[d].session \in Sessions
            /\ handler[d].child \in Children
      BY DEF TypeOK, HandlerType, At, Creating, Ending
    <3>2. Knows(d)
      BY DEF Inv, HandlerInv
    <3>3. CASE d # c
      <4>1. handler'[d] = handler[d]
        BY <1>3, <3>3
      <4>2. handler[d].pc \in Creating => Vacant(handler[d].runner, handler[d].session)'
        BY <2>2, <3>1, <3>2, <4>1 DEF Knows
      <4>3. QED
        BY <1>2, <1>3, <3>1, <3>2, <4>1, <4>2 DEF Knows, Running, Creating, Ending
    <3>4. CASE d = c
      <4>1. sessions'[r][s] \notin {k \in Children : s \in Recoverable \/ child'[k].state = "running"}
        BY <1>2, <2>2 DEF Vacant, Running
      <4>2. /\ handler'[d].pc = "spawned" /\ handler'[d].runner = r
            /\ handler'[d].session = s /\ handler'[d].child = ch
            /\ child'[ch].state = "running" /\ child'[ch].runner = r /\ child'[ch].session = s
        BY <1>3, <3>4
      <4>3. Vacant(handler[d].runner, handler[d].session)'
        BY <4>1, <4>2 DEF Vacant, Running
      <4>4. QED
        BY <4>2, <4>3 DEF Knows, Creating
    <3>5. QED
      BY <3>3, <3>4
  <2>4. QED
    BY <2>1, <2>3 DEF HandlerInv
<1>6. RecordKept'
  BY <1>2, <1>3 DEF Inv, RecordKept, InUse, Running
<1>7. RegistryReaches'
  BY <1>2, <1>3 DEF Inv, RegistryReaches, InUse, Running
<1>8. QED
  BY <1>4, <1>5, <1>6, <1>7 DEF Inv

\* Only one handler holds a runner's lock.
LEMMA OneHolder ==
  ASSUME TypeOK, NEW c \in Clients, NEW d \in Clients, At(c) \in Runners,
         At(c) = At(d), handler[c].pc \in Creating, handler[d].pc \in Creating
  PROVE  c = d
BY DEF TypeOK, LockHeld

\* The child is handed out: it is in the book, and its place was kept free.
LEMMA InsertInv ==
  ASSUME TypeOK, Inv, NEW c \in Clients, Insert(c)
  PROVE  Inv'
<1> DEFINE r == At(c)
           s == handler[c].session
           ch == handler[c].child
<1>1. r \in Runners /\ s \in Sessions /\ ch \in Children /\ handler[c].pc \in Creating
  BY DEF Insert, TypeOK, HandlerType, Creating, Ending
<1>2. UNCHANGED <<phase, book>>
  BY DEF Insert, socketVars, runnerVars
<1>3. \A q \in Runners, z \in Sessions :
        sessions'[q][z] = IF q = r /\ z = s THEN ch ELSE sessions[q][z]
  BY <1>1 DEF Insert, TypeOK, SessionType
<1>4. \A k \in Children :
        /\ child'[k].state = child[k].state /\ child'[k].runner = child[k].runner
        /\ child'[k].session = child[k].session
        /\ child'[k].given = (IF k = ch THEN TRUE ELSE child[k].given)
  BY <1>1 DEF Insert, TypeOK, ChildType
<1>5. \A d \in Clients : handler'[d] = IF d = c THEN [Free EXCEPT !.runner = r] ELSE handler[d]
  BY DEF Insert, Done, TypeOK, HandlerType
<1>6. Knows(c)
  BY DEF Inv, HandlerInv
<1>7. ServedInv'
  BY <1>1, <1>2, <1>4, <1>5, RunnersAssumption DEF Inv, ServedInv, At, Free
<1>8. HandlerInv'
  <2>1. \A q \in Runners, z \in Sessions :
          sessions'[q][z] # NoChild => child'[sessions'[q][z]].state # "none"
    <3>1. child'[ch].state # "none"
      BY <1>1, <1>4, <1>6 DEF Knows
    <3>2. \A q \in Runners, z \in Sessions : sessions[q][z] # NoChild =>
            sessions[q][z] \in Children /\ child[sessions[q][z]].state # "none"
      BY DEF Inv, HandlerInv, TypeOK, SessionType
    <3>3. ASSUME NEW q \in Runners, NEW z \in Sessions, sessions'[q][z] # NoChild
          PROVE  child'[sessions'[q][z]].state # "none"
      <4>1. CASE q = r /\ z = s
        <5>1. sessions'[q][z] = ch
          BY <1>3, <4>1
        <5>2. QED
          BY <3>1, <5>1
      <4>2. CASE ~(q = r /\ z = s)
        <5>1. sessions'[q][z] = sessions[q][z]
          BY <1>3, <4>2
        <5>2. sessions[q][z] \in Children /\ child[sessions[q][z]].state # "none"
          BY <3>2, <3>3, <5>1
        <5>3. child'[sessions[q][z]].state # "none"
          BY <1>4, <5>2
        <5>4. QED
          BY <5>1, <5>3
      <4>3. QED
        BY <4>1, <4>2
    <3>4. QED
      BY <3>3
  <2>2. \A q \in Runners, z \in Sessions : q # r /\ Vacant(q, z) => Vacant(q, z)'
    BY <1>3, <1>4 DEF Vacant, Running
  <2>3. ASSUME NEW d \in Clients PROVE Knows(d)'
    <3>1. handler[d].pc \in Creating \cup Ending =>
            /\ handler[d].runner \in Runners /\ handler[d].session \in Sessions
            /\ handler[d].child \in Children
      BY DEF TypeOK, HandlerType, At, Creating, Ending
    <3>2. Knows(d)
      BY DEF Inv, HandlerInv
    <3>3. CASE d # c
      <4>1. handler'[d] = handler[d]
        BY <1>5, <3>3
      <4>2. handler[d].pc \in Creating => handler[d].runner # r
        BY <1>1, <3>3, OneHolder DEF At
      <4>3. handler[d].pc \in Creating => Vacant(handler[d].runner, handler[d].session)'
        BY <2>2, <3>1, <3>2, <4>1, <4>2 DEF Knows
      <4>4. QED
        BY <1>2, <1>4, <3>1, <3>2, <4>1, <4>3 DEF Knows, Running, Creating, Ending
    <3>4. CASE d = c
      BY <1>5, <3>4 DEF Knows, Free, Creating
    <3>5. QED
      BY <3>3, <3>4
  <2>4. QED
    BY <2>1, <2>3 DEF HandlerInv
<1>9. RecordKept'
  BY <1>1, <1>2, <1>4, <1>6 DEF Inv, RecordKept, InUse, Running, Knows, Insert
<1>10. RegistryReaches'
  <2>1. ASSUME NEW k \in Children, InUse(k), child[k].runner = r, child[k].session = s
        PROVE  k = ch
    <3>1. phase[r] \in Answering
      BY <1>1, RunnersAssumption DEF Inv, ServedInv
    <3>2. sessions[r][s] = k
      BY <2>1, <3>1 DEF Inv, RegistryReaches
    <3>3. Vacant(r, s)
      BY <1>1, <1>6 DEF Knows, At
    <3>4. QED
      BY <2>1, <3>2, <3>3 DEF Vacant, InUse
  <2>2. child[ch].runner = r /\ child[ch].session = s
    BY <1>1, <1>6 DEF Knows, At
  <2>3. ASSUME NEW k \in Children, InUse(k)', phase'[child'[k].runner] \in Answering
        PROVE  sessions'[child'[k].runner][child'[k].session] = k
    <3>1. child[k].runner \in Runners /\ child[k].session \in Sessions /\ Running(k)
      BY <1>4, <2>3 DEF Inv, ServedInv, InUse, Running
    <3>2. CASE k = ch
      <4>1. child'[k].runner = r /\ child'[k].session = s
        BY <1>1, <1>4, <2>2, <3>2
      <4>2. sessions'[r][s] = ch
        BY <1>1, <1>3
      <4>3. QED
        BY <3>2, <4>1, <4>2
    <3>3. CASE k # ch
      <4>1. InUse(k)
        BY <1>4, <2>3, <3>1, <3>3 DEF InUse
      <4>2. ~(child[k].runner = r /\ child[k].session = s)
        BY <2>1, <3>3, <4>1
      <4>3. QED
        <5>1. child'[k].runner = child[k].runner /\ child'[k].session = child[k].session
          BY <1>4
        <5>2. sessions'[child[k].runner][child[k].session] = sessions[child[k].runner][child[k].session]
          BY <1>3, <3>1, <4>2
        <5>3. QED
          BY <1>2, <2>3, <4>1, <5>1, <5>2 DEF Inv, RegistryReaches
    <3>4. QED
      BY <3>2, <3>3
  <2>4. QED
    BY <2>3 DEF RegistryReaches
<1>11. QED
  BY <1>7, <1>8, <1>9, <1>10 DEF Inv

\* A session is unlisted: what is listed under its name is its own ended child,
\* or another one that stays.
LEMMA UnlistInv ==
  ASSUME TypeOK, Inv, NEW c \in Clients, Unlist(c)
  PROVE  Inv'
<1> DEFINE r == At(c)
           s == handler[c].session
           ch == handler[c].child
<1>1. r \in Runners /\ s \in Sessions /\ ch \in Children
  BY DEF Unlist, TypeOK, HandlerType, Creating, Ending
<1>2. UNCHANGED <<phase, book, child>>
  BY DEF Unlist, socketVars, runnerVars
<1>3. \A q \in Runners, z \in Sessions :
        sessions'[q][z] = IF q = r /\ z = s /\ sessions[r][s] = ch THEN NoChild
                                                                 ELSE sessions[q][z]
  BY <1>1 DEF Unlist, StillListed, TypeOK, SessionType
<1>4. \A d \in Clients : handler'[d] = IF d = c THEN [Free EXCEPT !.runner = r] ELSE handler[d]
  BY DEF Unlist, Done, TypeOK, HandlerType
<1>5. child[ch].state = "exited"
  BY DEF Inv, HandlerInv, Knows, Unlist
<1>6. ServedInv'
  BY <1>1, <1>2, <1>4 DEF Inv, ServedInv, At, Free
<1>7. HandlerInv'
  <2>1. \A q \in Runners, z \in Sessions :
          sessions'[q][z] # NoChild => child'[sessions'[q][z]].state # "none"
    BY <1>2, <1>3 DEF Inv, HandlerInv
  <2>2. \A q \in Runners, z \in Sessions : q # r /\ Vacant(q, z) => Vacant(q, z)'
    BY <1>2, <1>3 DEF Vacant, Running
  <2>3. ASSUME NEW d \in Clients PROVE Knows(d)'
    <3>1. handler[d].pc \in Creating \cup Ending =>
            /\ handler[d].runner \in Runners /\ handler[d].session \in Sessions
      BY DEF TypeOK, HandlerType, At, Creating, Ending
    <3>2. Knows(d)
      BY DEF Inv, HandlerInv
    <3>3. CASE d # c
      <4>1. handler'[d] = handler[d]
        BY <1>4, <3>3
      <4>2. handler[d].pc \in Creating => handler[d].runner # r
        BY <1>1, ClientsAssumption DEF Unlist, TypeOK, LockHeld, At
      <4>3. handler[d].pc \in Creating => Vacant(handler[d].runner, handler[d].session)'
        BY <2>2, <3>1, <3>2, <4>1, <4>2 DEF Knows
      <4>4. QED
        BY <1>2, <3>2, <4>1, <4>3 DEF Knows, Running
    <3>4. CASE d = c
      BY <1>4, <3>4 DEF Knows, Free, Creating
    <3>5. QED
      BY <3>3, <3>4
  <2>4. QED
    BY <2>1, <2>3 DEF HandlerInv
<1>8. RecordKept'
  BY <1>2 DEF Inv, RecordKept, InUse, Running
<1>9. RegistryReaches'
  BY <1>2, <1>3, <1>5 DEF Inv, ServedInv, RegistryReaches, InUse, Running
<1>10. QED
  BY <1>6, <1>7, <1>8, <1>9 DEF Inv

-----------------------------------------------------------------------------
(* Every step keeps the invariant.                                         *)

\* A runner that starts, moves on or leaves.
LEMMA RunnerStepInv ==
  ASSUME TypeOK, Inv, NEW r \in Runners,
         \/ Launch(r) \/ CheckSocket(r) \/ RemoveLeftover(r) \/ Bind(r) \/ ReadBook(r)
         \/ Serve(r) \/ LeaveOnStop(r) \/ LeaveWhenIdle(r) \/ Collect(r) \/ RemoveSocket(r)
  PROVE  Inv'
<1>1. UNCHANGED <<child, handler, sessions, book>>
  BY DEF Launch, CheckSocket, RemoveLeftover, Bind, ReadBook, Serve, LeaveOnStop,
         LeaveWhenIdle, Collect, RemoveSocket, socketVars, sessionVars
<1>2. \A q \in Runners : /\ phase[q] \in Answering => phase'[q] \in Answering
                         /\ phase[q] = "gone" => phase'[q] = "gone"
  BY DEF Launch, Launches, CheckSocket, RemoveLeftover, Bind, ReadBook, Serve, LeaveOnStop,
         LeaveWhenIdle, Collect, RemoveSocket, Goes, Answering, TypeOK, RunnerType
<1>3. QED
  BY <1>1, <1>2, RunnerMoves

\* A child ended by clear(), by a closer or by itself.
LEMMA ChildStepInv ==
  ASSUME TypeOK, Inv,
         \/ \E r \in Runners, ch \in Children : ClearOne(r, ch) \/ CloserSettles(r, ch)
         \/ \E ch \in Children : ChildExits(ch)
  PROVE  Inv'
<1>1. UNCHANGED <<handler, sessions, phase>>
  BY DEF ClearOne, CloserSettles, ChildExits, socketVars, sessionVars, runnerVars
<1>2. ChildrenEnd
  <2>1. ASSUME NEW r \in Runners, NEW ch \in Children, ClearOne(r, ch) PROVE ChildrenEnd
    BY <2>1, EndedPoint DEF ClearOne, ChildrenEnd
  <2>2. ASSUME NEW r \in Runners, NEW ch \in Children, CloserSettles(r, ch) PROVE ChildrenEnd
    BY <2>2 DEF CloserSettles, ChildrenEnd, Running
  <2>3. ASSUME NEW ch \in Children, ChildExits(ch) PROVE ChildrenEnd
    BY <2>3, EndedPoint DEF ChildExits, ChildrenEnd, socketVars
  <2>4. QED
    BY <2>1, <2>2, <2>3
<1>3. QED
  BY <1>1, <1>2, ChildrenEndInv

\* The process ends, in order, by a failing accept or killed.
LEMMA ProcessEndsInv ==
  ASSUME TypeOK, Inv, NEW r \in Runners, Exit(r) \/ AcceptFails(r) \/ Crash(r)
  PROVE  Inv'
<1>1. Gone(r) /\ UNCHANGED book
  BY DEF Exit, AcceptFails, Crash, socketVars
<1>2. ChildrenEnd
  <2>1. ASSUME NEW chs, child' = Ended(chs) PROVE ChildrenEnd
    BY <1>1, <2>1, EndedPoint DEF ChildrenEnd
  <2>2. child' = child => ChildrenEnd
    BY <1>1 DEF ChildrenEnd
  <2>3. QED
    BY <2>1, <2>2 DEF Exit, AcceptFails, Crash
<1>3. QED
  BY <1>1, <1>2, GoneInv

\* The fields of a handler after Becomes and after Done.
LEMMA MovePoint ==
  ASSUME TypeOK, NEW c \in Clients
  PROVE  /\ \A pc : Becomes(c, pc) =>
              /\ \A d \in Clients \ {c} : handler'[d] = handler[d]
              /\ handler'[c].pc = pc /\ handler'[c].runner = handler[c].runner
              /\ handler'[c].session = handler[c].session
              /\ handler'[c].child = handler[c].child
         /\ Done(c) =>
              /\ \A d \in Clients \ {c} : handler'[d] = handler[d]
              /\ handler'[c].pc = "idle" /\ handler'[c].runner = handler[c].runner
<1>1. handler[c] \in [pc : {"idle", "stopping"} \cup Creating \cup Ending,
        runner : Runners \cup {NoRunner}, session : Sessions \cup {NoChild},
        child : Children \cup {NoChild}]
  BY DEF TypeOK, HandlerType
<1>2. ASSUME NEW pc, Becomes(c, pc)
      PROVE  /\ \A d \in Clients \ {c} : handler'[d] = handler[d]
             /\ handler'[c].pc = pc /\ handler'[c].runner = handler[c].runner
             /\ handler'[c].session = handler[c].session
             /\ handler'[c].child = handler[c].child
  BY <1>1, <1>2 DEF Becomes, TypeOK, HandlerType
<1>3. ASSUME Done(c)
      PROVE  /\ \A d \in Clients \ {c} : handler'[d] = handler[d]
             /\ handler'[c].pc = "idle" /\ handler'[c].runner = handler[c].runner
  BY <1>3 DEF Done, Free, At, TypeOK, HandlerType
<1>4. QED
  BY <1>2, <1>3

\* A connection begins or ends, or a request begins that starts no child.
LEMMA ClientStepInv ==
  ASSUME TypeOK, Inv, NEW c \in Clients,
         \/ Connect(c) \/ Disconnect(c) \/ StopAnswered(c) \/ RestartStops(c)
         \/ Subscribe(c) \/ \E s \in Sessions : CloseBegins(c, s)
  PROVE  Inv'
<1>1. UNCHANGED <<child, sessions, phase, book>>
  BY DEF Connect, Disconnect, StopAnswered, RestartStops, Subscribe, CloseBegins, socketVars,
         sessionVars, runnerVars
<1>2. At(c) # NoRunner => phase[At(c)] \in Answering
  BY DEF Inv, ServedInv
<1>3. CASE Connect(c)
  <2>1. /\ \A d \in Clients \ {c} : handler'[d] = handler[d]
        /\ handler'[c].pc = "idle" /\ handler'[c].runner = path /\ phase[path] \in Answering
    BY <1>3 DEF Connect, Free, Answering, TypeOK, HandlerType
  <2>2. HandlerMoves(c)
    BY <2>1 DEF HandlerMoves, Creating
  <2>3. QED
    BY <1>1, <2>2, HandlerMovesInv
<1>4. CASE Disconnect(c)
  <2>1. /\ \A d \in Clients \ {c} : handler'[d] = handler[d]
        /\ handler'[c].pc = "idle" /\ handler'[c].runner = NoRunner
    BY <1>4 DEF Disconnect, Free, TypeOK, HandlerType
  <2>2. HandlerMoves(c)
    BY <2>1 DEF HandlerMoves, Creating
  <2>3. QED
    BY <1>1, <2>2, HandlerMovesInv
<1>5. CASE StopAnswered(c) \/ RestartStops(c)
  <2>1. Becomes(c, "stopping")
    BY <1>5 DEF StopAnswered, RestartStops
  <2>2. HandlerMoves(c)
    BY <1>2, <2>1, MovePoint DEF HandlerMoves, Creating, At
  <2>3. QED
    BY <1>1, <2>2, HandlerMovesInv
<1>6. CASE Subscribe(c)
  BY <1>1, <1>6, RunnerMoves DEF Subscribe, runnerVars
<1>7. ASSUME NEW s \in Sessions, CloseBegins(c, s) PROVE Inv'
  <2>1. /\ \A d \in Clients \ {c} : handler'[d] = handler[d]
        /\ handler'[c].pc = "closing" /\ handler'[c].runner = At(c)
        /\ handler'[c].child = sessions[At(c)][s]
    BY <1>7 DEF CloseBegins, TypeOK, HandlerType
  <2>2. At(c) \in Runners /\ sessions[At(c)][s] # NoChild
    BY <1>7 DEF CloseBegins, Rests, At, TypeOK, HandlerType
  <2>3. child[sessions[At(c)][s]].state # "none"
    BY <2>2 DEF Inv, HandlerInv
  <2>4. HandlerMoves(c)
    BY <1>2, <2>1, <2>2, <2>3 DEF HandlerMoves, Creating
  <2>5. QED
    BY <1>1, <2>4, HandlerMovesInv
<1>8. QED
  BY <1>3, <1>4, <1>5, <1>6, <1>7

\* A request goes on after an await.
LEMMA HandlerStepInv ==
  ASSUME TypeOK, Inv, NEW c \in Clients, HandlerStep(c)
  PROVE  Inv'
<1>1. At(c) # NoRunner => phase[At(c)] \in Answering
  BY DEF Inv, ServedInv
<1>2. Knows(c)
  BY DEF Inv, HandlerInv
<1>3. CASE Remember(c)
  <2>1. Becomes(c, "written") /\ UNCHANGED <<child, sessions, phase>>
    BY <1>3 DEF Remember, runnerVars, sessionVars
  <2>2. HandlerMoves(c)
    BY <1>1, <1>3, <2>1, MovePoint DEF HandlerMoves, Remember, Creating, At
  <2>3. \A ch \in Children : ch \in book => ch \in book'
    BY <1>3 DEF Remember
  <2>4. QED
    BY <2>1, <2>2, <2>3, HandlerMovesInv
<1>4. CASE Insert(c)
  BY <1>4, InsertInv
<1>5. CASE CloseSettles(c)
  <2>1. UNCHANGED <<child, sessions, phase, book>>
    BY <1>5 DEF CloseSettles, runnerVars, sessionVars, socketVars
  <2>2. CASE Done(c)
    <3>1. HandlerMoves(c)
      BY <1>1, <2>2, MovePoint DEF HandlerMoves, Creating, At
    <3>2. QED
      BY <2>1, <3>1, HandlerMovesInv
  <2>3. CASE ~Running(handler[c].child) /\ Becomes(c, "forgetting")
    <3>1. child[handler[c].child].state = "exited"
      BY <1>2, <1>5, <2>3 DEF Knows, CloseSettles, Running, TypeOK, HandlerType, ChildType, Ending
    <3>2. HandlerMoves(c)
      BY <1>1, <2>3, <3>1, MovePoint DEF HandlerMoves, Creating, At
    <3>3. QED
      BY <2>1, <3>2, HandlerMovesInv
  <2>4. QED
    BY <1>5, <2>2, <2>3 DEF CloseSettles
<1>6. CASE Forget(c)
  <2>1. /\ Becomes(c, "unlisting") /\ UNCHANGED <<child, sessions, phase>>
        /\ book' = book \ {handler[c].child} /\ handler[c].pc = "forgetting"
    BY <1>6 DEF Forget, runnerVars, sessionVars
  <2>2. child[handler[c].child].state = "exited"
    BY <1>2, <2>1 DEF Knows
  <2>3. HandlerMoves(c)
    BY <1>1, <2>1, <2>2, MovePoint DEF HandlerMoves, Creating, At
  <2>4. \A ch \in Children : ch \in book => ch \in book' \/ ~Running(ch)
    BY <2>1, <2>2 DEF Running
  <2>5. QED
    BY <2>1, <2>3, <2>4, HandlerMovesInv
<1>7. CASE Unlist(c)
  BY <1>7, UnlistInv
<1>8. CASE AskToStop(c)
  <2>1. Done(c) /\ UNCHANGED <<child, sessions, phase, book>>
    BY <1>8 DEF AskToStop, socketVars, sessionVars
  <2>2. HandlerMoves(c)
    BY <1>1, <2>1, MovePoint DEF HandlerMoves, Creating, At
  <2>3. QED
    BY <2>1, <2>2, HandlerMovesInv
<1>9. QED
  BY <1>3, <1>4, <1>5, <1>6, <1>7, <1>8 DEF HandlerStep

\* The command line's restart, past its stop.
LEMMA RestartInv ==
  ASSUME TypeOK, Inv, RestartStarts \/ RestartConnects
  PROVE  Inv'
<1>1. UNCHANGED <<child, handler, sessions, book>>
  BY DEF RestartStarts, RestartConnects, socketVars, sessionVars
<1>2. \A q \in Runners : /\ phase[q] \in Answering => phase'[q] \in Answering
                         /\ phase[q] = "gone" => phase'[q] = "gone"
  BY DEF RestartStarts, RestartConnects, Launches, Goes, Answering, runnerVars, TypeOK, RunnerType
<1>3. QED
  BY <1>1, <1>2, RunnerMoves

LEMMA InvStep == TypeOK /\ Inv /\ [Next]_vars => Inv'
<1> SUFFICES ASSUME TypeOK, Inv, [Next]_vars PROVE Inv'
  OBVIOUS
<1>1. ASSUME NEW r \in Runners, Launch(r) \/ StartStep(r) \/ LeaveStep(r) \/ LeaveWhenIdle(r)
      PROVE  Inv'
  BY <1>1, RunnerStepInv, ChildStepInv, ProcessEndsInv DEF StartStep, LeaveStep
<1>2. ASSUME NEW r \in Runners, AcceptFails(r) \/ Crash(r) PROVE Inv'
  BY <1>2, ProcessEndsInv
<1>3. ASSUME NEW c \in Clients, ClientStep(c) PROVE Inv'
  BY <1>3, ClientStepInv, SpawnInv DEF ClientStep
<1>4. ASSUME NEW c \in Clients, HandlerStep(c) PROVE Inv'
  BY <1>4, HandlerStepInv
<1>5. ASSUME NEW ch \in Children, ChildExits(ch) PROVE Inv'
  BY <1>5, ChildStepInv
<1>6. CASE RestartStep
  BY <1>6, ClientStepInv, RestartInv DEF RestartStep
<1>7. CASE UNCHANGED vars
  BY <1>7, RunnerMoves DEF vars, runnerVars, sessionVars, socketVars
<1>8. QED
  BY <1>1, <1>2, <1>3, <1>4, <1>5, <1>6, <1>7 DEF Next

LEMMA InvInit == Init => Inv
<1> SUFFICES ASSUME Init PROVE Inv
  OBVIOUS
<1>1. ServedInv
  BY DEF Init, ServedInv, At, Free, Unborn
<1>2. HandlerInv
  BY DEF Init, HandlerInv, Knows, Free, NoSessions, Creating
<1>3. RecordKept /\ RegistryReaches
  BY DEF Init, RecordKept, RegistryReaches, InUse, Running, Unborn
<1>4. QED
  BY <1>1, <1>2, <1>3 DEF Inv

\* Every child in use is in the book, and every child in use is reachable by its
\* session id while its runner answers.
THEOREM RecordCorrect == Spec => []RecordKept
<1>1. Inv => RecordKept
  BY DEF Inv
<1>2. QED
  BY <1>1, TypeInit, TypeStep, InvInit, InvStep, PTL DEF Spec

THEOREM ReachesCorrect == Spec => []RegistryReaches
<1>1. Inv => RegistryReaches
  BY DEF Inv
<1>2. QED
  BY <1>1, TypeInit, TypeStep, InvInit, InvStep, PTL DEF Spec
-----------------------------------------------------------------------------
(* Across runners: one listener, and one agent per session.  Both need     *)
(* what the code does not enforce, that runners start one at a time: the   *)
(* run daemon_two_starters shows it, README.md tells of it.                *)

\* With one runner at a time between its launch and its bind, and any number of
\* them listening or leaving.
OneStarter == MaxStarting = 1 /\ IsFiniteSet(Runners)

\* A runner that found a leftover keeps finding one: nobody else starts.
StarterInv ==
  /\ \A q, r \in Runners : phase[q] \in Starting /\ phase[r] \in Starting => q = r
  /\ \A q, r \in Runners : phase[r] = "removing" => phase[q] \notin Listening
  /\ ListenerKeepsPath

\* A child in use that its runner did not start behind its own back.
Current(ch) == InUse(ch) /\ ~child[ch].late

\* Whoever starts a child of a runner that collected its sessions is late.
LateInv ==
  \A c \in Clients :
    handler[c].pc \in Creating /\ phase[At(c)] \in {"closing", "exiting"} =>
      child[handler[c].child].late

\* A runner that clears what was left has all of it still to do; one that serves
\* is alone in having children.
AgentInv ==
  /\ LateInv
  /\ \A r \in Runners, ch \in Children : Current(ch) =>
       /\ phase[r] = "clearing" => ch \in todo[r]
       /\ phase[r] \in {"serving", "leaving", "closing"} => child[ch].runner = r
  /\ NoSecondAgent /\ StopClosesAll
-----------------------------------------------------------------------------
(* One listener.                                                           *)

\* A step that starts nothing, makes nobody listen and leaves the socket alone.
LEMMA StartersStay ==
  ASSUME StarterInv, UNCHANGED path,
         \A q \in Runners :
           /\ phase'[q] \in Starting => phase'[q] = phase[q]
           /\ phase'[q] \in Listening => phase[q] \in Listening
  PROVE  StarterInv'
<1>1. \A q \in Runners : phase'[q] = "removing" => phase[q] = "removing"
  BY DEF Starting
<1>2. QED
  BY <1>1 DEF StarterInv, ListenerKeepsPath

\* A launch, when no runner is starting.
LEMMA LaunchStarters ==
  ASSUME TypeOK, StarterInv, OneStarter, NEW r \in Runners, Launches(r), UNCHANGED path
  PROVE  StarterInv'
<1> DEFINE started == {q \in Runners : phase[q] \in Starting}
<1>1. IsFiniteSet(started)
  BY FS_Subset DEF OneStarter
<1>2. Cardinality(started) \in Nat /\ Cardinality(started) < 1
  BY <1>1, FS_CardinalityType DEF OneStarter, Launches
<1>3. started = {}
  BY <1>1, <1>2, FS_EmptySet
<1>4. \A q \in Runners : phase'[q] = IF q = r THEN "checking" ELSE phase[q]
  BY DEF Launches, Goes, TypeOK, RunnerType
<1>5. \A q \in Runners : phase[q] \notin Starting
  BY <1>3
<1>6. QED
  BY <1>4, <1>5 DEF StarterInv, ListenerKeepsPath, Starting, Listening

\* The steps of a runner that is starting, and the end of one that leaves.
LEMMA SocketStarters ==
  ASSUME TypeOK, StarterInv, NEW r \in Runners,
         CheckSocket(r) \/ RemoveLeftover(r) \/ Bind(r) \/ RemoveSocket(r)
  PROVE  StarterInv'
<1>1. ASSUME NEW to, Goes(r, to) PROVE \A q \in Runners : phase'[q] = IF q = r THEN to ELSE phase[q]
  BY <1>1 DEF Goes, TypeOK, RunnerType
<1>2. path = NoRunner => \A q \in Runners : phase[q] \notin Listening
  BY RunnersAssumption DEF StarterInv, ListenerKeepsPath
<1>3. CASE CheckSocket(r)
  <2>1. PICK to \in {"binding", "removing", "gone"} :
          /\ Goes(r, to)
          /\ to = "removing" => LeftBehind
    BY <1>3 DEF CheckSocket
  <2>2. phase[r] = "checking" /\ UNCHANGED path
    BY <1>3 DEF CheckSocket, socketVars
  <2>3. LeftBehind => \A q \in Runners : phase[q] \notin Listening
    BY DEF LeftBehind, Answers, StarterInv, ListenerKeepsPath
  <2>4. \A q \in Runners : phase'[q] = IF q = r THEN to ELSE phase[q]
    BY <1>1, <2>1
  <2>5. QED
    BY <2>1, <2>2, <2>3, <2>4 DEF StarterInv, ListenerKeepsPath, Starting, Listening
<1>4. CASE RemoveLeftover(r)
  <2>1. PICK to \in {"binding", "gone"} : Goes(r, to)
    BY <1>4 DEF RemoveLeftover
  <2>2. \A q \in Runners : phase'[q] = IF q = r THEN to ELSE phase[q]
    BY <1>1, <2>1
  <2>3. phase[r] = "removing" /\ \A q \in Runners : phase[q] \notin Listening
    BY <1>4 DEF RemoveLeftover, StarterInv
  <2>4. QED
    BY <2>2, <2>3 DEF StarterInv, ListenerKeepsPath, Starting, Listening
<1>5. CASE Bind(r)
  <2>1. phase[r] = "binding"
    BY <1>5 DEF Bind
  <2>2. \A q \in Runners : phase[q] \in Starting => q = r
    BY <2>1 DEF StarterInv, Starting
  <2>3. CASE path = NoRunner
    <3>1. path' = r /\ \A q \in Runners : phase'[q] = IF q = r THEN "bound" ELSE phase[q]
      BY <1>1, <1>5, <2>3 DEF Bind
    <3>2. QED
      BY <1>2, <2>2, <2>3, <3>1 DEF StarterInv, ListenerKeepsPath, Starting, Listening
  <2>4. CASE path # NoRunner
    <3>1. path' = path /\ \A q \in Runners : phase'[q] = IF q = r THEN "gone" ELSE phase[q]
      BY <1>1, <1>5, <2>4 DEF Bind
    <3>2. QED
      BY <2>2, <3>1 DEF StarterInv, ListenerKeepsPath, Starting, Listening
  <2>5. QED
    BY <2>3, <2>4
<1>6. CASE RemoveSocket(r)
  <2>1. phase[r] = "closing" /\ \A q \in Runners : phase'[q] = IF q = r THEN "exiting" ELSE phase[q]
    BY <1>1, <1>6 DEF RemoveSocket
  <2>2. \A q \in Runners : phase[q] \in Listening => q = r
    BY <2>1 DEF StarterInv, ListenerKeepsPath, Listening
  <2>3. QED
    BY <2>1, <2>2 DEF StarterInv, ListenerKeepsPath, Starting, Listening
<1>7. QED
  BY <1>3, <1>4, <1>5, <1>6

\* A runner that goes on, leaves or ends without touching the socket file.
LEMMA OtherStarters ==
  ASSUME TypeOK, StarterInv, NEW r \in Runners,
         \/ ReadBook(r) \/ Serve(r) \/ LeaveOnStop(r) \/ LeaveWhenIdle(r) \/ Collect(r)
         \/ Exit(r) \/ AcceptFails(r) \/ Crash(r)
  PROVE  StarterInv'
<1>1. UNCHANGED path
  BY DEF ReadBook, Serve, LeaveOnStop, LeaveWhenIdle, Collect, Exit, AcceptFails, Crash,
     socketVars
<1>2. \A q \in Runners :
        /\ phase'[q] \in Starting => phase'[q] = phase[q]
        /\ phase'[q] \in Listening => phase[q] \in Listening
  BY DEF ReadBook, Serve, LeaveOnStop, LeaveWhenIdle, Collect, Exit, AcceptFails, Crash, Gone,
         Goes, Starting, Listening, TypeOK, RunnerType
<1>3. QED
  BY <1>1, <1>2, StartersStay

LEMMA StarterStep == OneStarter /\ TypeOK /\ StarterInv /\ [Next]_vars => StarterInv'
<1> SUFFICES ASSUME OneStarter, TypeOK, StarterInv, [Next]_vars PROVE StarterInv'
  OBVIOUS
<1>1. ASSUME NEW r \in Runners,
             \/ Launch(r) \/ StartStep(r) \/ LeaveStep(r) \/ LeaveWhenIdle(r)
             \/ AcceptFails(r) \/ Crash(r)
      PROVE  StarterInv'
  <2>1. CASE Launch(r)
    BY <2>1, LaunchStarters DEF Launch, socketVars
  <2>2. ASSUME NEW ch \in Children, ClearOne(r, ch) \/ CloserSettles(r, ch) PROVE StarterInv'
    BY <2>2, StartersStay DEF ClearOne, CloserSettles
  <2>3. QED
    BY <1>1, <2>1, <2>2, SocketStarters, OtherStarters DEF StartStep, LeaveStep
<1>2. ASSUME NEW c \in Clients, ClientStep(c) PROVE StarterInv'
  BY <1>2, StartersStay
  DEF ClientStep, Connect, Disconnect, Subscribe, StopAnswered, Spawn, CloseBegins, socketVars,
      runnerVars
<1>3. ASSUME NEW c \in Clients, HandlerStep(c) PROVE StarterInv'
  BY <1>3, StartersStay
  DEF HandlerStep, Remember, Insert, CloseSettles, Forget, Unlist, AskToStop, socketVars, runnerVars
<1>4. ASSUME NEW ch \in Children, ChildExits(ch) PROVE StarterInv'
  BY <1>4, StartersStay DEF ChildExits, socketVars, runnerVars
<1>5. CASE RestartStep
  <2>1. UNCHANGED path
    BY <1>5 DEF RestartStep, RestartStops, RestartStarts, RestartConnects, socketVars
  <2>2. UNCHANGED phase \/ \E r \in Runners : Launches(r)
    BY <1>5 DEF RestartStep, RestartStops, RestartStarts, RestartConnects, runnerVars
  <2>3. QED
    BY <2>1, <2>2, StartersStay, LaunchStarters
<1>6. CASE UNCHANGED vars
  BY <1>6, StartersStay DEF vars, socketVars, runnerVars
<1>7. QED
  BY <1>1, <1>2, <1>3, <1>4, <1>5, <1>6 DEF Next

LEMMA StarterInit == Init => StarterInv
BY DEF Init, StarterInv, ListenerKeepsPath, Starting, Listening

\* While runners start one at a time, one that listens is the one the socket
\* path leads to.
THEOREM ListenerCorrect == OneStarter /\ Spec => []ListenerKeepsPath
<1>1. OneStarter /\ Init => OneStarter /\ TypeOK /\ StarterInv
  BY TypeInit, StarterInit
<1>2. (OneStarter /\ TypeOK /\ StarterInv) /\ [Next]_vars => (OneStarter /\ TypeOK /\ StarterInv)'
  BY TypeStep, StarterStep DEF OneStarter
<1>3. OneStarter /\ TypeOK /\ StarterInv => ListenerKeepsPath
  BY DEF StarterInv
<1>4. QED
  BY <1>1, <1>2, <1>3, PTL DEF Spec

-----------------------------------------------------------------------------
(* One agent.                                                              *)

\* While runners start one at a time, clear() ends no child of one that listens.
THEOREM ClearCorrect == OneStarter /\ Spec => ClearSparesServed
<1> DEFINE Spares == \A r \in Runners, ch \in Children :
       phase[r] = "clearing" /\ ch \in todo[r] \ todo'[r] /\ Running(ch) =>
         phase[child[ch].runner] \notin Listening
<1>1. OneStarter /\ Init => OneStarter /\ TypeOK /\ Inv /\ StarterInv
  BY TypeInit, InvInit, StarterInit
<1>2. (OneStarter /\ TypeOK /\ Inv /\ StarterInv) /\ [Next]_vars
        => (OneStarter /\ TypeOK /\ Inv /\ StarterInv)'
  BY TypeStep, InvStep, StarterStep DEF OneStarter
<1>3. TypeOK /\ Inv /\ StarterInv => Spares
  <2> SUFFICES ASSUME TypeOK, Inv, StarterInv, NEW r \in Runners, NEW ch \in Children,
                      phase[r] = "clearing", Running(ch)
               PROVE  phase[child[ch].runner] \notin Listening
    OBVIOUS
  <2>1. /\ child[ch].runner \in Runners
        /\ phase[child[ch].runner] \in Answering \cup {"gone"}
    BY DEF Inv, ServedInv, Running
  <2>2. path = r
    BY DEF StarterInv, ListenerKeepsPath, Listening
  <2>3. phase[child[ch].runner] \in Listening => child[ch].runner = r
    BY <2>1, <2>2 DEF StarterInv, ListenerKeepsPath
  <2>4. QED
    BY <2>1, <2>3 DEF Answering
<1>4. (OneStarter /\ TypeOK /\ Inv /\ StarterInv) /\ [Next]_vars => [Spares]_vars
  BY <1>3
<1>5. QED
  BY <1>1, <1>2, <1>4, PTL DEF Spec, ClearSparesServed

\* A step that starts no child, and begins no phase past the clearing.
LEMMA LateStays ==
  ASSUME LateInv,
         \A q \in Runners \cup {NoRunner} : phase'[q] \in {"closing", "exiting"} => phase'[q] = phase[q],
         \A c \in Clients : At(c) \in Runners \cup {NoRunner},
         \A c \in Clients : handler'[c].pc \in Creating =>
           /\ handler[c].pc \in Creating
           /\ handler'[c].child = handler[c].child /\ handler'[c].runner = handler[c].runner
           /\ child'[handler[c].child].late = child[handler[c].child].late
  PROVE  LateInv'
BY DEF LateInv, At

\* A step that hands out no child and begins no phase past the clearing.
LEMMA AgentsStay ==
  ASSUME TypeOK, Inv, AgentInv, LateInv',
         \A q \in Runners :
           /\ phase'[q] \in {"clearing", "serving", "leaving", "closing", "exiting"} =>
                phase'[q] = phase[q]
           /\ collected'[q] = collected[q],
         \A ch \in Children :
           /\ InUse(ch)' => /\ InUse(ch) /\ child'[ch].runner = child[ch].runner
                            /\ child'[ch].session = child[ch].session
                            /\ child'[ch].late = child[ch].late
           /\ \A q \in Runners :
                phase'[q] = "clearing" /\ ch \in todo[q] => ch \in todo'[q] \/ ~InUse(ch)'
  PROVE  AgentInv'
<1>1. \A ch \in Children : Current(ch)' => Current(ch)
  BY DEF Current
<1>2. ASSUME NEW r \in Runners, NEW ch \in Children, Current(ch)'
      PROVE  /\ phase'[r] = "clearing" => ch \in todo'[r]
             /\ phase'[r] \in {"serving", "leaving", "closing"} => child'[ch].runner = r
  BY <1>1, <1>2 DEF AgentInv, Current
<1>3. NoSecondAgent'
  BY DEF AgentInv, NoSecondAgent
<1>4. StopClosesAll'
  <2>1. ASSUME NEW ch \in Children, InUse(ch)', ~child'[ch].late,
               phase'[child'[ch].runner] \in {"closing", "exiting"}
        PROVE  ch \in collected'[child'[ch].runner]
    <3>1. InUse(ch) /\ child'[ch].runner = child[ch].runner /\ ~child[ch].late
      BY <2>1
    <3>2. child[ch].runner \in Runners
      BY <3>1 DEF Inv, ServedInv, InUse, Running
    <3>3. phase[child[ch].runner] \in {"closing", "exiting"}
      BY <2>1, <3>1, <3>2
    <3>4. QED
      BY <3>1, <3>2, <3>3 DEF AgentInv, StopClosesAll
  <2>2. QED
    BY <2>1 DEF StopClosesAll
<1>5. QED
  BY <1>2, <1>3, <1>4 DEF AgentInv

\* A runner goes from one phase to the next, and no child changes: what the new
\* phase has to say of the children in use is enough, if nobody was starting one
\* when the sessions were collected.
LEMMA AgentsMove ==
  ASSUME TypeOK, Inv, AgentInv, NEW r \in Runners, NEW to, Goes(r, to),
         UNCHANGED <<child, handler>>,
         \A q \in Runners \ {r} : todo'[q] = todo[q] /\ collected'[q] = collected[q],
         to \in {"closing", "exiting"} => lock[r] = NoClient \/ phase[r] = "closing",
         \A ch \in Children : Current(ch) =>
           /\ to = "clearing" => ch \in todo'[r]
           /\ to \in {"serving", "leaving", "closing"} => child[ch].runner = r
           /\ to \in {"closing", "exiting"} /\ child[ch].runner = r => ch \in collected'[r]
  PROVE  AgentInv'
<1>1. \A q \in Runners : phase'[q] = IF q = r THEN to ELSE phase[q]
  BY DEF Goes, TypeOK, RunnerType
<1>2. \A ch \in Children : (InUse(ch)' <=> InUse(ch)) /\ (Current(ch)' <=> Current(ch))
  BY DEF Current, InUse, Running
<1>3. LateInv'
  <2>1. ASSUME NEW c \in Clients, handler[c].pc \in Creating, phase'[At(c)] \in {"closing", "exiting"}
        PROVE  child[handler[c].child].late
    <3>1. At(c) \in Runners
      BY <2>1 DEF TypeOK, HandlerType, Creating
    <3>2. At(c) = r => lock[r] # NoClient
      BY <2>1, ClientsAssumption DEF TypeOK, LockHeld
    <3>3. phase[At(c)] \in {"closing", "exiting"}
      BY <1>1, <2>1, <3>1, <3>2
    <3>4. QED
      BY <2>1, <3>3 DEF AgentInv, LateInv
  <2>2. QED
    BY <2>1 DEF LateInv, At
<1>4. ASSUME NEW q \in Runners, NEW ch \in Children, Current(ch)
      PROVE  /\ phase'[q] = "clearing" => ch \in todo'[q]
             /\ phase'[q] \in {"serving", "leaving", "closing"} => child'[ch].runner = q
  BY <1>1, <1>4 DEF AgentInv
<1>5. NoSecondAgent'
  BY <1>2 DEF AgentInv, NoSecondAgent
<1>6. StopClosesAll'
  <2>1. ASSUME NEW ch \in Children, InUse(ch), ~child[ch].late,
               phase'[child[ch].runner] \in {"closing", "exiting"}
        PROVE  ch \in collected'[child[ch].runner]
    <3>1. child[ch].runner \in Runners
      BY <2>1 DEF Inv, ServedInv, InUse, Running
    <3>2. QED
      BY <1>1, <2>1, <3>1 DEF AgentInv, StopClosesAll, Current
  <2>2. QED
    BY <1>2, <2>1 DEF StopClosesAll
<1>7. QED
  BY <1>2, <1>3, <1>4, <1>5, <1>6 DEF AgentInv

\* A runner that starts, serves or leaves.
LEMMA RunnerStepAgents ==
  ASSUME TypeOK, Inv, StarterInv, AgentInv, NEW r \in Runners,
         \/ Launch(r) \/ CheckSocket(r) \/ RemoveLeftover(r) \/ Bind(r) \/ ReadBook(r)
         \/ Serve(r) \/ LeaveOnStop(r) \/ LeaveWhenIdle(r) \/ Collect(r) \/ RemoveSocket(r)
  PROVE  AgentInv'
<1>1. CASE Launch(r) \/ CheckSocket(r) \/ RemoveLeftover(r) \/ Bind(r)
  <2>1. UNCHANGED <<child, handler, todo, collected>>
    BY <1>1 DEF Launch, CheckSocket, RemoveLeftover, Bind, sessionVars
  <2>2. PICK to \in {"checking", "binding", "removing", "bound", "gone"} : Goes(r, to)
    BY <1>1 DEF Launch, Launches, CheckSocket, RemoveLeftover, Bind
  <2>3. QED
    BY <2>1, <2>2, AgentsMove
<1>2. CASE ReadBook(r)
  <2>1. UNCHANGED <<child, handler, collected>> /\ Goes(r, "clearing")
    BY <1>2 DEF ReadBook, sessionVars
  <2>2. todo'[r] = book /\ \A q \in Runners \ {r} : todo'[q] = todo[q]
    BY <1>2 DEF ReadBook, TypeOK, RunnerType
  <2>3. \A ch \in Children : Current(ch) => ch \in todo'[r]
    BY <2>2 DEF Inv, RecordKept, Current
  <2>4. QED
    BY <2>1, <2>2, <2>3, AgentsMove
<1>3. CASE Serve(r)
  <2>1. UNCHANGED <<child, handler, collected, todo>> /\ Goes(r, "serving")
    BY <1>3 DEF Serve, sessionVars
  <2>2. \A ch \in Children : ~Current(ch)
    BY <1>3 DEF Serve, AgentInv
  <2>3. QED
    BY <2>1, <2>2, AgentsMove
<1>4. CASE LeaveOnStop(r) \/ LeaveWhenIdle(r)
  <2>1. UNCHANGED <<child, handler, collected, todo>> /\ Goes(r, "leaving")
    BY <1>4 DEF LeaveOnStop, LeaveWhenIdle, sessionVars
  <2>2. \A ch \in Children : Current(ch) => child[ch].runner = r
    BY <1>4 DEF LeaveOnStop, LeaveWhenIdle, AgentInv
  <2>3. QED
    BY <2>1, <2>2, AgentsMove
<1>6. CASE Collect(r)
  <2>1. UNCHANGED <<child, handler>> /\ Goes(r, "closing")
    BY <1>6 DEF Collect, sessionVars
  <2>2. /\ collected'[r] = {sessions[r][s] : s \in Sessions} \ {NoChild}
        /\ \A q \in Runners \ {r} : todo'[q] = todo[q] /\ collected'[q] = collected[q]
    BY <1>6 DEF Collect, TypeOK, RunnerType
  <2>3. lock[r] = NoClient /\ \A ch \in Children : Current(ch) => child[ch].runner = r
    BY <1>6 DEF Collect, AgentInv
  <2>4. ASSUME NEW ch \in Children, Current(ch) PROVE ch \in collected'[r]
    <3>1. child[ch].runner = r /\ child[ch].session \in Sessions
      BY <2>3, <2>4 DEF Inv, ServedInv, Current, InUse, Running
    <3>2. sessions[r][child[ch].session] = ch
      BY <1>6, <2>4, <3>1 DEF Inv, RegistryReaches, Collect, Answering, Current
    <3>3. ch # NoChild
      BY DEF Children, NoChild
    <3>4. QED
      BY <2>2, <3>1, <3>2, <3>3
  <2>5. QED
    BY <2>1, <2>2, <2>3, <2>4, AgentsMove
<1>7. CASE RemoveSocket(r)
  <2>1. UNCHANGED <<child, handler, collected, todo>> /\ Goes(r, "exiting")
    BY <1>7 DEF RemoveSocket, sessionVars
  <2>2. phase[r] = "closing" /\ \A ch \in Children : Current(ch) /\ child[ch].runner = r => ch \in collected[r]
    BY <1>7 DEF RemoveSocket, AgentInv, StopClosesAll, Current
  <2>3. QED
    BY <2>1, <2>2, AgentsMove
<1>8. QED
  BY <1>1, <1>2, <1>3, <1>4, <1>6, <1>7

\* A child ends, or a process with its children.
LEMMA EndAgents ==
  ASSUME TypeOK, Inv, AgentInv,
         \/ \E r \in Runners, ch \in Children : ClearOne(r, ch) \/ CloserSettles(r, ch)
         \/ \E ch \in Children : ChildExits(ch)
         \/ \E r \in Runners : Exit(r) \/ AcceptFails(r) \/ Crash(r)
  PROVE  AgentInv'
<1>0. \A c \in Clients : At(c) \in Runners \cup {NoRunner}
  BY DEF TypeOK, HandlerType, At
<1>1. ASSUME NEW r \in Runners, NEW ch \in Children, ClearOne(r, ch) PROVE AgentInv'
  <2>1. UNCHANGED <<phase, handler, collected>> /\ child' = Ended({ch})
    BY <1>1 DEF ClearOne
  <2>2. \A q \in Runners : todo[q] \ {ch} \subseteq todo'[q]
    BY <1>1 DEF ClearOne, TypeOK, RunnerType
  <2>3. \A k \in Children :
          /\ child'[k].runner = child[k].runner /\ child'[k].session = child[k].session
          /\ InUse(k)' => InUse(k) /\ k # ch
          /\ child'[k].late = child[k].late
    BY <2>1, EndedPoint DEF InUse, Running
  <2>4. LateInv'
    BY <1>0, <2>1, <2>3, LateStays DEF AgentInv, TypeOK, HandlerType
  <2>5. QED
    BY <2>1, <2>2, <2>3, <2>4, AgentsStay
<1>2. ASSUME NEW r \in Runners, NEW ch \in Children, CloserSettles(r, ch) PROVE AgentInv'
  <2>1. UNCHANGED <<phase, handler, collected, child>> /\ phase[r] = "closing"
    BY <1>2 DEF CloserSettles
  <2>2. \A q \in Runners : q # r => todo'[q] = todo[q]
    BY <1>2 DEF CloserSettles, TypeOK, RunnerType
  <2>3. \A k \in Children : InUse(k)' => InUse(k)
    BY <2>1 DEF InUse, Running
  <2>4. LateInv'
    BY <1>0, <2>1, LateStays DEF AgentInv
  <2>5. QED
    BY <2>1, <2>2, <2>3, <2>4, AgentsStay
<1>3. ASSUME NEW ch \in Children, ChildExits(ch) PROVE AgentInv'
  <2>1. UNCHANGED <<phase, handler, collected, todo>> /\ child' = Ended({ch})
    BY <1>3 DEF ChildExits, runnerVars
  <2>2. \A k \in Children :
          /\ child'[k].runner = child[k].runner /\ child'[k].session = child[k].session
          /\ InUse(k)' => InUse(k)
          /\ child'[k].late = child[k].late
    BY <2>1, EndedPoint DEF InUse, Running
  <2>3. LateInv'
    BY <1>0, <2>1, <2>2, LateStays DEF AgentInv, TypeOK, HandlerType
  <2>4. QED
    BY <2>1, <2>2, <2>3, AgentsStay
<1>4. ASSUME NEW r \in Runners, Exit(r) \/ AcceptFails(r) \/ Crash(r) PROVE AgentInv'
  <2>1. Gone(r) /\ UNCHANGED collected
    BY <1>4 DEF Exit, AcceptFails, Crash
  <2>2. \A q \in Runners :
          /\ phase'[q] = IF q = r THEN "gone" ELSE phase[q]
          /\ todo'[q] = IF q = r THEN {} ELSE todo[q]
    BY <2>1 DEF Gone, Goes, TypeOK, RunnerType
  <2>3. \A k \in Children :
          /\ child'[k].runner = child[k].runner /\ child'[k].session = child[k].session
          /\ InUse(k)' => InUse(k)
          /\ child'[k].late = child[k].late
    <3>1. ASSUME NEW chs, child' = Ended(chs)
          PROVE  \A k \in Children :
                   /\ child'[k].runner = child[k].runner /\ child'[k].session = child[k].session
                   /\ InUse(k)' => InUse(k)
                   /\ child'[k].late = child[k].late
      BY <3>1, EndedPoint DEF InUse, Running
    <3>2. QED
      BY <1>4, <3>1 DEF Exit, AcceptFails, Crash, InUse, Running
  <2>4. LateInv'
    <3>1. \A c \in Clients : handler'[c].pc \in Creating =>
            handler[c].pc \in Creating /\ handler'[c].child = handler[c].child
            /\ handler'[c].runner = handler[c].runner
      BY <2>1 DEF Gone, Free, Creating
    <3>2. \A q \in Runners \cup {NoRunner} : phase'[q] \in {"closing", "exiting"} => phase'[q] = phase[q]
      BY <2>1, <2>2 DEF Gone, Goes
    <3>3. QED
      BY <1>0, <2>3, <3>1, <3>2, LateStays DEF AgentInv, TypeOK, HandlerType
  <2>5. QED
    BY <2>1, <2>2, <2>3, <2>4, AgentsStay
<1>5. QED
  BY <1>1, <1>2, <1>3, <1>4

\* A child is handed out: unless it is late, only the runner that listens does
\* it, which is not clearing, and has no other child of that session.
LEMMA InsertAgents ==
  ASSUME TypeOK, Inv, StarterInv, AgentInv, NEW c \in Clients, Insert(c)
  PROVE  AgentInv'
<1> DEFINE r == At(c)
           s == handler[c].session
           ch == handler[c].child
<1>1. r \in Runners /\ s \in Sessions /\ ch \in Children /\ handler[c].pc \in Creating
  BY DEF Insert, TypeOK, HandlerType, Creating, Ending
<1>2. UNCHANGED <<phase, asked, todo, collected>>
  BY DEF Insert, runnerVars
<1>4. \A k \in Children :
        /\ child'[k].runner = child[k].runner /\ child'[k].session = child[k].session
        /\ child'[k].late = child[k].late
        /\ InUse(k)' => InUse(k) \/ k = ch
  BY <1>1 DEF Insert, TypeOK, ChildType, InUse, Running
<1>5. child[ch].runner = r /\ child[ch].session = s /\ Vacant(r, s)
  BY <1>1 DEF Inv, HandlerInv, Knows, At
<1>6. ~child[ch].late => phase[r] \in {"serving", "leaving"}
  <2>1. phase[r] \in Answering
    BY <1>1, RunnersAssumption DEF Inv, ServedInv
  <2>2. QED
    BY <1>1, <2>1 DEF AgentInv, LateInv, Answering
<1>7. ~child[ch].late => \A q \in Runners : phase[q] \in Listening => q = r
  BY <1>1, <1>6 DEF StarterInv, ListenerKeepsPath, Listening
<1>8. ASSUME ~child[ch].late, NEW k \in Children, Current(k), child[k].session = s PROVE k = ch
  <2>1. child[k].runner = r
    BY <1>1, <1>6, <1>8 DEF AgentInv
  <2>2. sessions[r][s] = k
    BY <1>6, <1>8, <2>1 DEF Inv, RegistryReaches, Answering, Current
  <2>3. QED
    BY <1>5, <1>8, <2>2 DEF Vacant, InUse, Current
<1>9. LateInv'
  <2>1. \A d \in Clients : At(d) \in Runners \cup {NoRunner}
    BY DEF TypeOK, HandlerType, At
  <2>2. \A d \in Clients : handler'[d].pc \in Creating =>
          handler[d].pc \in Creating /\ handler'[d].child = handler[d].child
          /\ handler'[d].runner = handler[d].runner
    BY DEF Insert, Done, Free, Creating, TypeOK, HandlerType
  <2>3. QED
    BY <1>2, <1>4, <2>1, <2>2, LateStays DEF AgentInv, TypeOK, HandlerType
<1>10. ASSUME NEW q \in Runners, NEW k \in Children, Current(k)'
       PROVE  /\ phase'[q] = "clearing" => k \in todo'[q]
              /\ phase'[q] \in {"serving", "leaving", "closing"} => child'[k].runner = q
  <2>1. CASE InUse(k)
    BY <1>2, <1>4, <1>10, <2>1 DEF AgentInv, Current
  <2>2. CASE k = ch
    BY <1>2, <1>4, <1>5, <1>6, <1>7, <1>10, <2>2 DEF Listening, Current
  <2>3. QED
    BY <1>4, <1>10, <2>1, <2>2 DEF Current
<1>11. NoSecondAgent'
  <2>1. ASSUME NEW a \in Children, NEW b \in Children, InUse(a)', InUse(b)',
               child'[a].session = child'[b].session, ~child'[a].late, ~child'[b].late
        PROVE  a = b
    <3>1. /\ child[a].session = child[b].session /\ ~child[a].late /\ ~child[b].late
          /\ (InUse(a) \/ a = ch) /\ (InUse(b) \/ b = ch)
      BY <1>4, <2>1
    <3>2. QED
      BY <1>5, <1>8, <3>1 DEF AgentInv, NoSecondAgent, Current
  <2>2. QED
    BY <2>1 DEF NoSecondAgent
<1>12. StopClosesAll'
  <2>1. ASSUME NEW k \in Children, InUse(k)', ~child'[k].late,
               phase'[child'[k].runner] \in {"closing", "exiting"}
        PROVE  k \in collected'[child'[k].runner]
    BY <1>2, <1>4, <1>5, <1>6, <2>1 DEF AgentInv, StopClosesAll
  <2>2. QED
    BY <2>1 DEF StopClosesAll
<1>13. QED
  BY <1>9, <1>10, <1>11, <1>12 DEF AgentInv

\* A request begins, or goes on without handing out a child.
LEMMA ClientAgents ==
  ASSUME TypeOK, Inv, AgentInv, NEW c \in Clients,
         \/ ClientStep(c) \/ RestartStops(c)
         \/ Remember(c) \/ CloseSettles(c) \/ Forget(c) \/ Unlist(c) \/ AskToStop(c)
  PROVE  AgentInv'
<1>1. ASSUME NEW s \in Sessions, Spawn(c, s) PROVE AgentInv'
  <2>1. PICK ch \in Children :
          /\ child[ch] = Unborn
          /\ child' = [child EXCEPT ![ch] = [state |-> "running", runner |-> At(c),
                                             session |-> s, given |-> FALSE,
                                             late |-> Late(At(c))]]
          /\ handler' = [handler EXCEPT ![c] = [pc |-> "spawned", runner |-> At(c),
                                                session |-> s, child |-> ch]]
    BY <1>1 DEF Spawn
  <2>2. \A k \in Children : InUse(k)' => /\ InUse(k) /\ child'[k].runner = child[k].runner
                                        /\ child'[k].session = child[k].session
                                        /\ child'[k].late = child[k].late
    BY <2>1 DEF InUse, Running, TypeOK, ChildType
  <2>3. UNCHANGED <<phase, todo, collected>> /\ ~asked[At(c)]
    BY <1>1 DEF Spawn, runnerVars, Accepts
  <2>4. LateInv'
    <3>1. ASSUME NEW d \in Clients, handler'[d].pc \in Creating,
                 phase'[handler'[d].runner] \in {"closing", "exiting"}
          PROVE  child'[handler'[d].child].late
      <4>1. CASE d = c
        <5>1. handler'[d].child = ch /\ handler'[d].runner = At(c)
          BY <2>1, <4>1 DEF TypeOK, HandlerType
        <5>2. child'[ch].late = Late(At(c))
          BY <2>1 DEF TypeOK, ChildType
        <5>3. QED
          BY <2>3, <3>1, <5>1, <5>2 DEF Late
      <4>2. CASE d # c
        <5>1. handler'[d] = handler[d]
          BY <2>1, <4>2 DEF TypeOK, HandlerType
        <5>2. handler[d].child # ch
          BY <2>1, <3>1, <5>1 DEF Inv, HandlerInv, Knows, Unborn
        <5>3. child'[handler[d].child] = child[handler[d].child]
          BY <2>1, <3>1, <5>1, <5>2 DEF TypeOK, HandlerType, ChildType
        <5>4. QED
          BY <2>3, <3>1, <5>1, <5>3 DEF AgentInv, LateInv, At
      <4>3. QED
        BY <4>1, <4>2
    <3>2. QED
      BY <3>1 DEF LateInv, At
  <2>5. QED
    BY <2>2, <2>3, <2>4, AgentsStay
<1>2. ASSUME ~\E s \in Sessions : Spawn(c, s) PROVE AgentInv'
  <2>1. UNCHANGED <<phase, child, todo, collected>>
    BY <1>2 DEF ClientStep, Connect, Disconnect, Subscribe, StopAnswered, CloseBegins,
       RestartStops, Remember, CloseSettles, Forget, Unlist, AskToStop, runnerVars
  <2>2. LateInv'
    <3>1. \A d \in Clients : At(d) \in Runners \cup {NoRunner}
      BY DEF TypeOK, HandlerType, At
    <3>2. \A d \in Clients : handler'[d].pc \in Creating =>
            handler[d].pc \in Creating /\ handler'[d].child = handler[d].child
            /\ handler'[d].runner = handler[d].runner
      BY <1>2 DEF ClientStep, Connect, Disconnect, Subscribe, StopAnswered, CloseBegins, Rests,
         RestartStops, Remember, CloseSettles, Forget, Unlist, AskToStop, Becomes, Done, Free,
         Creating, TypeOK, HandlerType
    <3>3. QED
      BY <2>1, <3>1, <3>2, LateStays DEF AgentInv
  <2>3. \A k \in Children : InUse(k)' <=> InUse(k)
    BY <2>1 DEF InUse, Running
  <2>4. QED
    BY <2>1, <2>2, <2>3, AgentsStay
<1>3. QED
  BY <1>1, <1>2

LEMMA AgentStep ==
  TypeOK /\ Inv /\ StarterInv /\ AgentInv /\ [Next]_vars => AgentInv'
<1> SUFFICES ASSUME TypeOK, Inv, StarterInv, AgentInv, [Next]_vars PROVE AgentInv'
  OBVIOUS
<1>1. ASSUME NEW r \in Runners,
             \/ Launch(r) \/ StartStep(r) \/ LeaveStep(r) \/ LeaveWhenIdle(r)
             \/ AcceptFails(r) \/ Crash(r)
      PROVE  AgentInv'
  BY <1>1, RunnerStepAgents, EndAgents DEF StartStep, LeaveStep
<1>2. ASSUME NEW c \in Clients, ClientStep(c) \/ HandlerStep(c) PROVE AgentInv'
  BY <1>2, ClientAgents, InsertAgents DEF HandlerStep
<1>3. ASSUME NEW ch \in Children, ChildExits(ch) PROVE AgentInv'
  BY <1>3, EndAgents
<1>4. CASE RestartStep
  <2>1. ASSUME NEW c \in Clients, RestartStops(c) PROVE AgentInv'
    BY <2>1, ClientAgents
  <2>2. ASSUME NEW r \in Runners, RestartStarts, Launches(r) PROVE AgentInv'
    <3>1. UNCHANGED <<child, handler, todo, collected>> /\ Goes(r, "checking")
      BY <2>2 DEF RestartStarts, Launches
    <3>2. QED
      BY <3>1, AgentsMove
  <2>3. CASE RestartConnects \/ (RestartStarts /\ UNCHANGED phase)
    <3>1. UNCHANGED <<phase, child, handler, todo, collected>>
      BY <2>3 DEF RestartStarts, RestartConnects, runnerVars
    <3>2. (\A k \in Children : InUse(k)' <=> InUse(k)) /\ LateInv'
      BY <3>1 DEF InUse, Running, AgentInv, LateInv, At
    <3>3. QED
      BY <3>1, <3>2, AgentsStay
  <2>4. QED
    BY <1>4, <2>1, <2>2, <2>3 DEF RestartStep, RestartStarts
<1>5. CASE UNCHANGED vars
  <2>1. (\A k \in Children : InUse(k)' <=> InUse(k)) /\ LateInv'
    BY <1>5 DEF vars, runnerVars, InUse, Running, AgentInv, LateInv, At
  <2>2. QED
    BY <1>5, <2>1, AgentsStay DEF vars, runnerVars
<1>6. QED
  BY <1>1, <1>2, <1>3, <1>4, <1>5 DEF Next

LEMMA AgentInit == Init => AgentInv
BY DEF Init, AgentInv, LateInv, Current, Creating, Free, NoSecondAgent, StopClosesAll, InUse, Running, Unborn

LEMMA AgentCorrect == OneStarter /\ Spec => []AgentInv
<1> DEFINE All == OneStarter /\ TypeOK /\ Inv /\ StarterInv /\ AgentInv
<1>1. OneStarter /\ Init => All
  BY TypeInit, InvInit, StarterInit, AgentInit
<1>2. All /\ [Next]_vars => All'
  BY TypeStep, InvStep, StarterStep, AgentStep DEF OneStarter
<1>3. All => AgentInv
  OBVIOUS
<1>4. QED
  BY <1>1, <1>2, <1>3, PTL DEF Spec

\* While runners start one at a time, no session ever has two agents in use,
\* across any number of crashes, restarts and stops, but for one that a runner
\* ended by its idle clock starts after it collected its sessions.
\* (daemon.rs serve: clear() before the first accept; ensure and ensure_recovery)
THEOREM OneAgentCorrect == OneStarter /\ Spec => []NoSecondAgent
<1>1. AgentInv => NoSecondAgent
  BY DEF AgentInv
<1>2. QED
  BY <1>1, AgentCorrect, PTL

\* On the same terms, a runner that leaves set out to close every child in use.
\* (daemon.rs serve: the registry's lock, and `stopping` read under it)
THEOREM StopCorrect == OneStarter /\ Spec => []StopClosesAll
<1>1. AgentInv => StopClosesAll
  BY DEF AgentInv
<1>2. QED
  BY <1>1, AgentCorrect, PTL

=============================================================================
