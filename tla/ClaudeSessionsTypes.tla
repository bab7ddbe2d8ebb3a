------------------------- MODULE ClaudeSessionsTypes --------------------------
(***************************************************************************)
(* Every variable of ClaudeSessions keeps its type, for any conversations  *)
(* and any bounds.  The invariant goes one group of variables at a time:   *)
(* the runner, the connections, the client, the operations and the rest.   *)
(* The groups lean on one another: an open that has a connection names a   *)
(* real one, and a child with a lane has a name and a stream.              *)
(***************************************************************************)
EXTENDS ClaudeSessions, TLAPS, SequenceTheorems

RunnerOK ==
  /\ runner \in {"none", "serving", "stopping"} /\ sub \in 0..MaxWires
  /\ registry \in [Names -> 0..MaxChildren] /\ child \in [Children -> ChildType]
  /\ \A c \in Children : child[c].lane # 0 => child[c].name \in Names /\ child[c].stream \in Streams
  /\ \A n \in Names : registry[n] # 0 => child[registry[n]].name \in Names
WireOK == wire \in [Wires -> WireType]
ClientOK ==
  /\ slot \in 0..MaxWires /\ sink \in [Wires -> [Names -> 0..MaxOpens]]
  /\ session \in [Streams -> SessionType] /\ held \in [Names -> 0..MaxOpens]
\* An open has a connection from here on, and a stream from the next step on.
Placed == {"register", "write", "asked", "answered", "failed"}
OpOK ==
  /\ op \in [Names -> OpType]
  /\ \A n \in Names : /\ op[n].pc \in Placed => op[n].wire \in Wires
                      /\ op[n].pc \in Placed \ {"register"} => op[n].stream \in Streams
RestOK ==
  /\ door \in {"open", "spacing"} \cup Names
  /\ restart \in [pc : {"idle", "stop", "wait"}, marked : SUBSET Streams]
  /\ history \in [faults : 0..MaxFaults, young : SUBSET Children, overdue : SUBSET Names,
                  crossed : SUBSET Names]
TypeInv == RunnerOK /\ WireOK /\ ClientOK /\ OpOK /\ RestOK

\* The numbers the instance gives, and the sets they bound.
LEMMA Bounds ==
  /\ MaxWires \in Nat \ {0} /\ MaxOpens \in Nat \ {0} /\ MaxChildren \in Nat \ {0} /\ MaxFaults \in Nat
  /\ 0 \in 0..MaxWires /\ 0 \in 0..MaxOpens /\ 0 \in 0..MaxChildren
  /\ Wires \subseteq 0..MaxWires /\ Streams \subseteq 0..MaxOpens /\ Children \subseteq 0..MaxChildren
BY InstanceAssumption DEF InstanceAssumption, Wires, Streams, Children

\* The head of a queue is one of its elements.
LEMMA HeadIs == ASSUME NEW S, NEW q \in Seq(S), q # <<>> PROVE Head(q) \in S
BY HeadTailProperties

\* What is left of a queue is a queue.
LEMMA TailIs == ASSUME NEW S, NEW q \in Seq(S), q # <<>> PROVE Tail(q) \in Seq(S)
BY HeadTailProperties

\* A queue grows by what may be in it.
LEMMA SeqGrows == ASSUME NEW S, NEW q \in Seq(S), NEW x \in S PROVE Append(q, x) \in Seq(S)
BY AppendProperties

\* A stream's number that is not 0.
LEMMA StreamIs == ASSUME NEW s \in 0..MaxOpens, s # 0 PROVE s \in Streams
BY Bounds DEF Streams

\* Nothing is a queue of anything.
LEMMA NoneIs == ASSUME NEW S PROVE <<>> \in Seq(S)
BY EmptySeq

\* What a step may make of a child without disturbing the invariant.
Descends(c) ==
  /\ child'[c] \in ChildType
  /\ child[c].name \in Names => child'[c].name \in Names
  /\ child'[c].lane # 0 => child'[c].name \in Names /\ child'[c].stream \in Streams

\* Children descend from what they were, and the registry only forgets.
LEMMA ChildrenChange ==
  ASSUME RunnerOK, runner' \in {"none", "serving", "stopping"}, sub' \in 0..MaxWires,
         registry' \in [Names -> 0..MaxChildren],
         \A n \in Names : registry'[n] \in {0, registry[n]},
         child' = [c \in Children |-> child'[c]], \A c \in Children : Descends(c)
  PROVE  RunnerOK'
<1>1. child' \in [Children -> ChildType]
  BY DEF Descends
<1>2. \A n \in Names : registry'[n] # 0 => registry'[n] \in Children /\ child[registry'[n]].name \in Names
  BY Bounds DEF RunnerOK, Children
<1> QED
  BY <1>1, <1>2 DEF RunnerOK, Descends

\* A child that is left alone.
LEMMA StaysIs ==
  ASSUME RunnerOK, NEW c \in Children, child'[c] = child[c]
  PROVE  Descends(c)
BY DEF RunnerOK, Descends

\* A child that is gone has no lane.
LEMMA GoneIs ==
  ASSUME RunnerOK, NEW c \in Children, child'[c] = Gone(c)
  PROVE  Descends(c)
<1>0. child[c] \in ChildType
  BY DEF RunnerOK
<1>1. /\ Gone(c) \in ChildType /\ Gone(c).name = child[c].name /\ Gone(c).lane = 0
  BY <1>0, Bounds DEF Gone, ChildType
<1> QED
  BY <1>1 DEF Descends

\* A child told to end keeps its name, stream and lane.
LEMMA OrderedIs ==
  ASSUME RunnerOK, NEW c \in Children, child'[c] = Ordered(c)
  PROVE  Descends(c)
<1>1. /\ Ordered(c) \in ChildType /\ Ordered(c).name = child[c].name
      /\ Ordered(c).lane = child[c].lane /\ Ordered(c).stream = child[c].stream
  BY DEF RunnerOK, Ordered, ChildType
<1> QED
  BY <1>1 DEF Descends, RunnerOK

\* Another state, and the same name, stream and lane, or none.
LEMMA MovesIs ==
  ASSUME RunnerOK, NEW c \in Children, NEW st \in {"unborn", "running", "exited", "gone", "orphan"},
         NEW lane \in {0, child[c].lane}, child'[c] = [child[c] EXCEPT !.st = st, !.lane = lane]
  PROVE  Descends(c)
<1> DEFINE to == [child[c] EXCEPT !.st = st, !.lane = lane]
<1>0. child[c] \in ChildType
  BY DEF RunnerOK
<1>1. /\ to \in ChildType /\ to.name = child[c].name /\ to.lane = lane /\ to.stream = child[c].stream
  BY <1>0, Bounds DEF ChildType
<1> QED
  BY <1>1 DEF Descends, RunnerOK

\* A runner that starts.
LEMMA ServesFreshIs ==
  ASSUME RunnerOK, ServesFresh, sub' \in 0..MaxWires
  PROVE  RunnerOK'
<1>1. \A c \in Children : child'[c] \in {child[c], Gone(c)}
  BY DEF ServesFresh
<1>2. \A c \in Children : Descends(c)
  BY <1>1, StaysIs, GoneIs
<1>3. child' = [c \in Children |-> child'[c]]
  BY DEF ServesFresh
<1>4. registry' \in [Names -> 0..MaxChildren] /\ \A n \in Names : registry'[n] = 0
  BY Bounds DEF ServesFresh
<1> QED
  BY <1>2, <1>3, <1>4, ChildrenChange DEF ServesFresh

\* The runner's variables.
LEMMA RunnerTypes ==
  ASSUME RunnerOK, WireOK, Next
  PROVE  RunnerOK'
<1>1. ASSUME NEW n \in Names, TakesWire(n) PROVE RunnerOK'
  <2>1. CASE UNCHANGED <<runner, registry, child>>
    BY <2>1, <1>1 DEF TakesWire, RunnerOK
  <2>2. CASE ServesFresh
    BY <2>2, <1>1, ServesFreshIs DEF TakesWire, RunnerOK
  <2> QED
    BY <1>1, <2>1, <2>2 DEF TakesWire
<1>2. ASSUME NEW n \in Names,
             \/ OpenBegins(n) \/ PassesDoor(n) \/ WaitsNoLonger(n) \/ FindsNoRunner(n)
             \/ Registers(n) \/ Writes(n) \/ GivesUp(n) \/ OpenFails(n)
             \/ Opened(n)
      PROVE  RunnerOK'
  BY <1>2 DEF RunnerOK, runnerVars, OpenBegins, PassesDoor, WaitsNoLonger, FindsNoRunner, Registers,
     Writes, GivesUp, OpenFails, Opened
<1>3. ASSUME NEW n \in Names, CloseKills(n) PROVE RunnerOK'
  <2>1. CASE registry[n] = 0
    BY <2>1, <1>3 DEF CloseKills, RunnerOK
  <2>2. CASE registry[n] # 0
    <3>1. /\ runner' = runner /\ sub' = sub /\ registry' = registry
          /\ child' = [child EXCEPT ![registry[n]] = Ordered(registry[n])]
      BY <2>2, <1>3 DEF CloseKills
    <3>2. child' = [d \in Children |-> child'[d]] /\ \A d \in Children : child'[d] \in {child[d], Ordered(d)}
      BY <3>1 DEF RunnerOK
    <3>3. \A d \in Children : Descends(d)
      BY <3>2, StaysIs, OrderedIs
    <3> QED
      BY <3>1, <3>2, <3>3, ChildrenChange DEF RunnerOK
  <2> QED
    BY <2>1, <2>2
<1>4. ASSUME NEW n \in Names, CloseEnds(n) PROVE RunnerOK'
  BY <1>4, Bounds DEF CloseEnds, RunnerOK
<1>5. ASSUME NEW n \in Names,
             CloseBegins(n) \/ CloseConnects(n) \/ CloseGivesUp(n)
      PROVE  RunnerOK'
  BY <1>5 DEF RunnerOK, runnerVars, CloseBegins, CloseConnects, CloseGivesUp
<1>6. ASSUME DoorOpens PROVE RunnerOK'
  BY <1>6 DEF RunnerOK, runnerVars, DoorOpens
<1>7. ASSUME NEW w \in Wires,
             RoutesAnswer(w) \/ RoutesExit(w) \/ WireEnds(w)
      PROVE  RunnerOK'
  BY <1>7 DEF RunnerOK, runnerVars, RoutesAnswer, RoutesExit, WireEnds
<1>8. ASSUME NEW s \in Streams, Reads(s) \/ FindsEnd(s) \/ LetsGo(s) PROVE RunnerOK'
  BY <1>8 DEF RunnerOK, runnerVars, Reads, FindsEnd, LetsGo
<1>9. ASSUME NEW w \in Wires, Refuses(w) PROVE RunnerOK'
  BY <1>9, Bounds DEF Refuses, RunnerOK, Wires
<1>10. ASSUME NEW w \in Wires, Attaches(w) PROVE RunnerOK'
  <2> DEFINE q == Head(wire[w].asked)
  <2>1. q.name \in Names /\ q.stream \in Streams
    BY <1>10, HeadIs DEF Attaches, WireOK, WireType, Create
  <2> DEFINE c == registry[q.name]
  <2>2. PICK is \in SUBSET {"running"} :
          /\ c # 0 /\ child' = [child EXCEPT ![c].lane = w, ![c].stream = q.stream,
                                 ![c].st = IF is # {} THEN @ ELSE "exited"]
    BY <1>10 DEF Attaches, Runs
  <2>3. c \in Children /\ child[c].name \in Names /\ child[c] \in ChildType
    <3>1. c \in 0..MaxChildren /\ c # 0 /\ child[c].name \in Names
      BY <2>1, <2>2 DEF RunnerOK
    <3>2. c \in Children
      BY <3>1, Bounds DEF Children
    <3> QED
      BY <3>1, <3>2 DEF RunnerOK
  <2>4. child' = [d \in Children |-> child'[d]] /\ \A d \in Children \ {c} : child'[d] = child[d]
    BY <2>2 DEF RunnerOK
  <2>5. child'[c] \in ChildType /\ child'[c].name = child[c].name /\ child'[c].stream = q.stream
    <3>1. child'[c] = [child[c] EXCEPT !.lane = w, !.stream = q.stream, !.st = IF is # {} THEN @ ELSE "exited"]
      BY <2>2, <2>3 DEF RunnerOK
    <3>2. w \in 0..MaxWires /\ q.stream \in 0..MaxOpens
      BY <2>1, Bounds
    <3> QED
      BY <3>1, <3>2, <2>3 DEF ChildType
  <2>6. \A d \in Children : Descends(d)
    BY <2>1, <2>3, <2>4, <2>5, StaysIs DEF Descends
  <2>7. runner' = runner /\ registry' = registry /\ sub' \in 0..MaxWires
    BY <1>10, Bounds DEF Attaches, Wires
  <2> QED
    BY <2>4, <2>6, <2>7, ChildrenChange DEF RunnerOK
<1>11. ASSUME NEW w \in Wires, Spawns(w) PROVE RunnerOK'
  <2> DEFINE q == Head(wire[w].asked)
  <2>1. q.name \in Names /\ q.stream \in Streams
    BY <1>11, HeadIs DEF Spawns, WireOK, WireType, Create
  <2> DEFINE c == NextChild
  <2>2. PICK is \in SUBSET {"running"} :
          /\ child' = [child EXCEPT ![c].name = q.name, ![c].lane = w, ![c].stream = q.stream,
                        ![c].st = IF is # {} THEN "running" ELSE "exited"]
          /\ registry' = [registry EXCEPT ![q.name] = c] /\ c \in Children
    BY <1>11 DEF Spawns
  <2>3. child' = [d \in Children |-> child'[d]] /\ \A d \in Children \ {c} : child'[d] = child[d]
    BY <2>2 DEF RunnerOK
  <2>4. child'[c] \in ChildType /\ child'[c].name = q.name /\ child'[c].stream = q.stream
    BY <2>1, <2>2, Bounds DEF RunnerOK, ChildType, Wires, Streams
  <2>5. child' \in [Children -> ChildType]
    BY <2>3, <2>4 DEF RunnerOK
  <2>6. \A d \in Children : child'[d].lane # 0 => child'[d].name \in Names /\ child'[d].stream \in Streams
    BY <2>1, <2>3, <2>4 DEF RunnerOK
  <2>7. registry' \in [Names -> 0..MaxChildren] /\ \A n \in Names : registry'[n] \in {c, registry[n]}
    BY <2>1, <2>2 DEF RunnerOK, Children
  <2>8. \A n \in Names : registry[n] # 0 => registry[n] \in Children
    BY Bounds DEF RunnerOK, Children
  <2>9. \A n \in Names : registry'[n] # 0 => child'[registry'[n]].name \in Names
    BY <2>1, <2>3, <2>4, <2>7, <2>8 DEF RunnerOK
  <2>10. runner' = runner /\ sub' \in 0..MaxWires
    BY <1>11, Bounds DEF Spawns, Wires
  <2> QED
    BY <2>5, <2>6, <2>7, <2>9, <2>10 DEF RunnerOK
<1>12. ASSUME NEW c \in Children, Exits(c) PROVE RunnerOK'
  <2>1. /\ runner' = runner /\ sub' = sub /\ registry' = registry
        /\ child' = [child EXCEPT ![c].st = "exited"]
    BY <1>12 DEF Exits
  <2>2. /\ child' = [d \in Children |-> child'[d]] /\ \A d \in Children \ {c} : child'[d] = child[d]
        /\ child'[c] = [child[c] EXCEPT !.st = "exited", !.lane = child[c].lane]
    BY <2>1 DEF RunnerOK, ChildType
  <2>3. \A d \in Children : Descends(d)
    BY <2>2, StaysIs, MovesIs
  <2> QED
    BY <2>1, <2>2, <2>3, ChildrenChange DEF RunnerOK
<1>13. ASSUME NEW c \in Children, SaysExit(c) PROVE RunnerOK'
  <2>1. /\ runner' = runner /\ sub' = sub /\ registry' = registry
        /\ child' = [child EXCEPT ![c] = Gone(c)]
    BY <1>13 DEF SaysExit
  <2>2. child' = [d \in Children |-> child'[d]] /\ \A d \in Children : child'[d] \in {child[d], Gone(d)}
    BY <2>1 DEF RunnerOK
  <2>3. \A d \in Children : Descends(d)
    BY <2>2, StaysIs, GoneIs
  <2> QED
    BY <2>1, <2>2, <2>3, ChildrenChange DEF RunnerOK
<1>14. ASSUME NEW c \in Children, OrphanEnds(c) PROVE RunnerOK'
  <2>1. /\ runner' = runner /\ sub' = sub /\ registry' = registry
        /\ child' = [child EXCEPT ![c] = Gone(c)]
    BY <1>14 DEF OrphanEnds
  <2>2. child' = [d \in Children |-> child'[d]] /\ \A d \in Children : child'[d] \in {child[d], Gone(d)}
    BY <2>1 DEF RunnerOK
  <2>3. \A d \in Children : Descends(d)
    BY <2>2, StaysIs, GoneIs
  <2> QED
    BY <2>1, <2>2, <2>3, ChildrenChange DEF RunnerOK
<1>15. ASSUME ConnectionDrops PROVE RunnerOK'
  <2>1. /\ runner' = runner /\ registry' = registry /\ sub' \in 0..MaxWires
        /\ child' = [d \in Children |-> IF child[d].lane = slot THEN [child[d] EXCEPT !.lane = 0] ELSE child[d]]
    BY <1>15, Bounds DEF ConnectionDrops, RunnerOK
  <2>2. \A d \in Children : child'[d] = child[d] \/ child'[d] = [child[d] EXCEPT !.st = child[d].st, !.lane = 0]
    BY <2>1 DEF RunnerOK, ChildType
  <2>3. \A d \in Children : child[d].st \in {"unborn", "running", "exited", "gone", "orphan"}
    BY DEF RunnerOK, ChildType
  <2>4. \A d \in Children : Descends(d)
    BY <2>2, <2>3, StaysIs, MovesIs
  <2> QED
    BY <2>1, <2>4, ChildrenChange DEF RunnerOK
<1>16. ASSUME RunnerExits PROVE RunnerOK'
  <2>1. /\ runner' = "none" /\ sub' = 0 /\ registry' = [m \in Names |-> 0]
        /\ child' = [d \in Children |-> IF child[d].st = "exited" THEN Gone(d) ELSE child[d]]
    BY <1>16 DEF RunnerExits, RunnerGone
  <2>2. \A d \in Children : Descends(d)
    BY <2>1, StaysIs, GoneIs
  <2> QED
    BY <2>1, <2>2, ChildrenChange, Bounds
<1>17. ASSUME RunnerCrashes PROVE RunnerOK'
  <2>1. /\ runner' = "none" /\ sub' = 0 /\ registry' = [m \in Names |-> 0]
        /\ child' = [d \in Children |->
                       CASE child[d].st = "running" -> [child[d] EXCEPT !.st = "orphan"]
                         [] child[d].st = "exited"  -> Gone(d)
                         [] OTHER -> child[d]]
    BY <1>17 DEF RunnerCrashes, RunnerGone
  <2>2. \A d \in Children : \/ child'[d] \in {child[d], Gone(d)}
                            \/ child'[d] = [child[d] EXCEPT !.st = "orphan", !.lane = child[d].lane]
    BY <2>1 DEF RunnerOK, ChildType
  <2>3. \A d \in Children : Descends(d)
    BY <2>2, StaysIs, GoneIs, MovesIs
  <2> QED
    BY <2>1, <2>3, ChildrenChange, Bounds
<1>18. ASSUME RestartStops PROVE RunnerOK'
  <2>1. CASE runner # "serving"
    BY <2>1, <1>18 DEF RestartStops, RunnerOK
  <2>2. CASE runner = "serving"
    <3>1. /\ runner' = "stopping" /\ sub' = sub /\ registry' = registry
          /\ child' = [d \in Children |-> IF \E m \in Names : registry[m] = d THEN Ordered(d) ELSE child[d]]
      BY <2>2, <1>18 DEF RestartStops
    <3>2. \A d \in Children : Descends(d)
      BY <3>1, StaysIs, OrderedIs
    <3> QED
      BY <3>1, <3>2, ChildrenChange DEF RunnerOK
  <2> QED
    BY <2>1, <2>2
<1>19. ASSUME RestartServes PROVE RunnerOK'
  BY <1>19, ServesFreshIs DEF RestartServes, RunnerOK
<1>20. ASSUME RestartBegins \/ RestartGivesUp PROVE RunnerOK'
  BY <1>20 DEF RunnerOK, runnerVars, RestartBegins, RestartGivesUp
<1> QED
  BY <1>1, <1>2, <1>3, <1>4, <1>5, <1>6, <1>7, <1>8, <1>9, <1>10, <1>11, <1>12, <1>13, <1>14,
     <1>15, <1>16, <1>17, <1>18, <1>19, <1>20
  DEF Next, Open, Close, Route, Reader, Run, Restart

\* The operations one step of a conversation's own leaves behind.
OpKept(n) ==
  /\ op'[n] \in OpType
  /\ op'[n].pc \in Placed => op'[n].wire \in Wires
  /\ op'[n].pc \in Placed \ {"register"} => op'[n].stream \in Streams

\* One operation changes.
LEMMA OpStep ==
  ASSUME OpOK, NEW n \in Names, NEW to, op' = [op EXCEPT ![n] = to], OpKept(n)
  PROVE  OpOK'
<1>1. op' = [m \in Names |-> op'[m]] /\ \A m \in Names \ {n} : op'[m] = op[m]
  BY DEF OpOK
<1>2. op' \in [Names -> OpType]
  BY <1>1 DEF OpKept, OpOK
<1> QED
  BY <1>1, <1>2 DEF OpKept, OpOK

\* An operation returns.
LEMMA ReturnsIs ==
  ASSUME OpOK, NEW n \in Names, Returns(n)
  PROVE  OpOK'
<1>1. NoOp \in OpType /\ NoOp.pc = "idle"
  BY Bounds DEF NoOp, OpType
<1>2. op' = [op EXCEPT ![n] = NoOp] /\ op'[n] = NoOp
  BY DEF Returns, OpOK
<1> QED
  BY <1>1, <1>2, OpStep DEF OpKept, Placed

\* An operation goes on with what it has.
LEMMA GoesIs ==
  ASSUME OpOK, NEW n \in Names,
         NEW pc \in {"door", "wire", "register", "write", "asked", "answered", "failed", "close", "closing"},
         Goes(n, pc),
         pc \in Placed => op[n].wire \in Wires,
         pc \in Placed \ {"register"} => op[n].stream \in Streams
  PROVE  OpOK'
<1> DEFINE to == [op[n] EXCEPT !.pc = pc]
<1>1. op[n] \in OpType
  BY DEF OpOK
<1>2. to \in OpType /\ to.pc = pc /\ to.wire = op[n].wire /\ to.stream = op[n].stream
  BY <1>1 DEF OpType
<1>3. op' = [op EXCEPT ![n] = to] /\ op'[n] = to
  BY DEF Goes, OpOK
<1> QED
  BY <1>2, <1>3, OpStep DEF OpKept, Placed

\* The operations.
LEMMA OpTypes ==
  ASSUME OpOK, RunnerOK, WireOK, ClientOK, Next
  PROVE  OpOK'
<1>1. ASSUME NEW n \in Names, OpenBegins(n) PROVE OpOK'
  BY <1>1, GoesIs DEF OpenBegins, Placed, OpOK, At
<1>2. ASSUME NEW n \in Names, PassesDoor(n) PROVE OpOK'
  BY <1>2, GoesIs DEF PassesDoor, Placed, OpOK, At
<1>3. ASSUME NEW n \in Names, WaitsNoLonger(n) PROVE OpOK'
  BY <1>3, ReturnsIs DEF WaitsNoLonger
<1>4. ASSUME NEW n \in Names, TakesWire(n) PROVE OpOK'
  <2> DEFINE to == [op[n] EXCEPT !.pc = "register", !.wire = slot']
  <2>1. op[n] \in OpType
    BY DEF OpOK
  <2>2. slot' \in Wires /\ op' = [op EXCEPT ![n].pc = "register", ![n].wire = slot']
    <3>1. CASE Alive(slot) /\ UNCHANGED slot /\ op' = [op EXCEPT ![n].pc = "register", ![n].wire = slot]
      <4>1. slot \in 0..MaxWires /\ slot # 0
        BY <3>1 DEF ClientOK, Alive
      <4> QED
        BY <4>1, <3>1, Bounds DEF Wires
    <3>2. CASE slot' = NextWire /\ NextWire \in Wires /\ op' = [op EXCEPT ![n].pc = "register", ![n].wire = NextWire]
      BY <3>2
    <3> QED
      BY <1>4, <3>1, <3>2 DEF TakesWire
  <2>3. to \in OpType /\ to.pc = "register" /\ to.wire \in Wires
    BY <2>1, <2>2, Bounds DEF OpType
  <2>4. op' = [op EXCEPT ![n] = to] /\ op'[n] = to
    BY <2>2 DEF OpOK
  <2> QED
    BY <2>3, <2>4, OpStep DEF OpKept, Placed
<1>5. ASSUME NEW n \in Names, FindsNoRunner(n) PROVE OpOK'
  BY <1>5, ReturnsIs DEF FindsNoRunner
<1>6. ASSUME NEW n \in Names, Registers(n) PROVE OpOK'
  <2> DEFINE to == [op[n] EXCEPT !.pc = "write", !.stream = NextStream]
  <2>1. op[n] \in OpType /\ op[n].wire \in Wires
    BY <1>6 DEF OpOK, Registers, At, Placed
  <2>2. NextStream \in Streams /\ op' = [op EXCEPT ![n].pc = "write", ![n].stream = NextStream]
    BY <1>6 DEF Registers
  <2>3. to \in OpType /\ to.wire \in Wires /\ to.stream \in Streams
    BY <2>1, <2>2, Bounds DEF OpType
  <2>4. op' = [op EXCEPT ![n] = to] /\ op'[n] = to
    BY <2>2 DEF OpOK
  <2> QED
    BY <2>3, <2>4, OpStep DEF OpKept, Placed
<1>7. ASSUME NEW n \in Names, Writes(n) PROVE OpOK'
  BY <1>7, GoesIs DEF Writes, At, OpOK, Placed
<1>8. ASSUME NEW n \in Names, GivesUp(n) PROVE OpOK'
  BY <1>8, GoesIs DEF GivesUp, Placed, OpOK, At
<1>9. ASSUME NEW n \in Names, OpenFails(n) PROVE OpOK'
  BY <1>9, ReturnsIs DEF OpenFails
<1>10. ASSUME NEW n \in Names, Opened(n) PROVE OpOK'
  BY <1>10, ReturnsIs DEF Opened
<1>11. ASSUME NEW n \in Names, CloseBegins(n) PROVE OpOK'
  BY <1>11, GoesIs DEF CloseBegins, Placed, OpOK, At
<1>12. ASSUME NEW n \in Names, CloseConnects(n) PROVE OpOK'
  BY <1>12, ReturnsIs, GoesIs DEF CloseConnects, Placed
<1>13. ASSUME NEW n \in Names, CloseKills(n) PROVE OpOK'
  <2>1. CASE Returns(n)
    BY <2>1, ReturnsIs
  <2>2. CASE op' = [op EXCEPT ![n].pc = "killing", ![n].child = registry[n]]
    <3> DEFINE to == [op[n] EXCEPT !.pc = "killing", !.child = registry[n]]
    <3>1. op[n] \in OpType /\ registry[n] \in 0..MaxChildren
      BY DEF OpOK, RunnerOK
    <3>2. to \in OpType /\ to.pc = "killing"
      BY <3>1 DEF OpType
    <3>3. op' = [op EXCEPT ![n] = to] /\ op'[n] = to
      BY <2>2 DEF OpOK
    <3> QED
      BY <3>2, <3>3, OpStep DEF OpKept, Placed
  <2> QED
    BY <1>13, <2>1, <2>2 DEF CloseKills
<1>14. ASSUME NEW n \in Names, CloseEnds(n) PROVE OpOK'
  BY <1>14, ReturnsIs DEF CloseEnds
<1>15. ASSUME NEW n \in Names, CloseGivesUp(n) PROVE OpOK'
  BY <1>15, ReturnsIs DEF CloseGivesUp
<1>16. ASSUME DoorOpens PROVE OpOK'
  BY <1>16 DEF OpOK, DoorOpens
<1>17. ASSUME NEW w \in Wires, RoutesAnswer(w) PROVE OpOK'
  <2> DEFINE a == Head(wire[w].answers)
  <2>1. a \in Answer
    BY <1>17, HeadIs DEF RoutesAnswer, WireOK, WireType
  <2>2. CASE UNCHANGED op
    BY <2>2 DEF OpOK
  <2>3. CASE At(a.name, "asked") /\ Goes(a.name, "failed")
    BY <2>1, <2>3, GoesIs DEF Answer, Placed, OpOK, At
  <2>4. CASE At(a.name, "asked") /\ op' = [op EXCEPT ![a.name].pc = "answered", ![a.name].child = a.child, ![a.name].is = a.is]
    <3> DEFINE to == [op[a.name] EXCEPT !.pc = "answered", !.child = a.child, !.is = a.is]
    <3>1. a.name \in Names /\ a.child \in 0..MaxChildren /\ a.is \in SUBSET {"begun", "running"}
      BY <2>1 DEF Answer
    <3>2. op[a.name] \in OpType
      BY <3>1 DEF OpOK
    <3>3. to \in OpType /\ to.wire \in Wires /\ to.stream \in Streams
      BY <2>4, <3>1, <3>2 DEF OpType, OpOK, At, Placed
    <3>4. op' = [op EXCEPT ![a.name] = to] /\ op'[a.name] = to
      BY <2>4, <3>1 DEF OpOK
    <3> QED
      BY <3>1, <3>3, <3>4, OpStep DEF OpKept, Placed
  <2> QED
    BY <1>17, <2>2, <2>3, <2>4 DEF RoutesAnswer
<1>18. ASSUME NEW w \in Wires, WireEnds(w) PROVE OpOK'
  <2>1. op' = [n \in Names |-> IF At(n, "asked") /\ op[n].wire = w
                              THEN [op[n] EXCEPT !.pc = "failed"] ELSE op[n]]
    BY <1>18 DEF WireEnds
  <2>2. \A n \in Names : op[n] \in OpType /\ [op[n] EXCEPT !.pc = "failed"] \in OpType
    BY DEF OpOK, OpType
  <2> QED
    BY <2>1, <2>2 DEF OpOK, OpType, Placed, At
<1>19. ASSUME NEW w \in Wires, RoutesExit(w) PROVE OpOK'
  BY <1>19 DEF OpOK, RoutesExit
<1>20. ASSUME NEW s \in Streams, Reads(s) \/ FindsEnd(s) \/ LetsGo(s) PROVE OpOK'
  BY <1>20 DEF OpOK, Reads, FindsEnd, LetsGo
<1>21. ASSUME NEW w \in Wires, Refuses(w) \/ Attaches(w) \/ Spawns(w) PROVE OpOK'
  BY <1>21 DEF OpOK, Refuses, Attaches, Spawns
<1>22. ASSUME NEW c \in Children, Exits(c) \/ SaysExit(c) \/ OrphanEnds(c) PROVE OpOK'
  BY <1>22 DEF OpOK, Exits, SaysExit, OrphanEnds
<1>23. ASSUME RunnerExits PROVE OpOK'
  <2>1. op' = [n \in Names |-> IF op[n].pc \in {"closing", "killing"} THEN NoOp ELSE op[n]]
    BY <1>23 DEF RunnerExits, RunnerGone
  <2>2. NoOp \in OpType /\ NoOp.pc = "idle"
    BY Bounds DEF NoOp, OpType
  <2> QED
    BY <2>1, <2>2 DEF OpOK, Placed
<1>24. ASSUME RunnerCrashes PROVE OpOK'
  <2>1. op' = [n \in Names |-> IF op[n].pc \in {"closing", "killing"} THEN NoOp ELSE op[n]]
    BY <1>24 DEF RunnerCrashes, RunnerGone
  <2>2. NoOp \in OpType /\ NoOp.pc = "idle"
    BY Bounds DEF NoOp, OpType
  <2> QED
    BY <2>1, <2>2 DEF OpOK, Placed
<1>25. ASSUME ConnectionDrops PROVE OpOK'
  BY <1>25 DEF OpOK, ConnectionDrops
<1>26. ASSUME 
             RestartBegins \/ RestartStops \/ RestartServes \/ RestartGivesUp
      PROVE  OpOK'
  BY <1>26 DEF OpOK, RestartBegins, RestartStops, RestartServes, RestartGivesUp
<1> QED
  BY <1>1, <1>2, <1>3, <1>4, <1>5, <1>6, <1>7, <1>8, <1>9, <1>10, <1>11, <1>12, <1>13, <1>14,
     <1>15, <1>16, <1>17, <1>18, <1>19, <1>20, <1>21, <1>22, <1>23, <1>24, <1>25, <1>26
  DEF Next, Open, Close, Route, Reader, Run, Restart

\* One connection changes.
LEMMA WireStep ==
  ASSUME WireOK, NEW w \in Wires, NEW to \in WireType, wire' = [wire EXCEPT ![w] = to]
  PROVE  WireOK'
BY DEF WireOK

\* A request becomes an answer to it.
LEMMA AnswersIs ==
  ASSUME WireOK, NEW w \in Wires, NEW q \in Create, NEW c \in 0..MaxChildren,
         NEW is \in SUBSET {"begun", "running"}, wire[w].asked # <<>>, Answers(w, q, c, is)
  PROVE  WireOK'
<1> DEFINE a == [name |-> q.name, stream |-> q.stream, child |-> c, is |-> is]
           to == [wire[w] EXCEPT !.asked = Tail(@), !.answers = Append(@, a)]
<1>1. wire[w] \in WireType /\ a \in Answer
  BY DEF WireOK, Create, Answer
<1>2. Tail(wire[w].asked) \in Seq(Create) /\ Append(wire[w].answers, a) \in Seq(Answer)
  BY <1>1, TailIs, SeqGrows DEF WireType
<1>3. to \in WireType
  BY <1>1, <1>2 DEF WireType
<1>4. wire' = [wire EXCEPT ![w] = to]
  BY DEF Answers, WireOK
<1> QED
  BY <1>3, <1>4, WireStep

\* The runner's end of a connection closes.
LEMMA ClosesIs ==
  ASSUME WireOK, NEW w \in Wires, Closes(w)
  PROVE  WireOK'
<1> DEFINE to == [wire[w] EXCEPT !.st = "closed", !.asked = <<>>]
<1>1. wire[w] \in WireType /\ <<>> \in Seq(Create)
  BY NoneIs DEF WireOK
<1>2. to \in WireType
  BY <1>1 DEF WireType
<1>3. wire' = [wire EXCEPT ![w] = to]
  BY DEF Closes, WireOK
<1> QED
  BY <1>2, <1>3, WireStep

\* The connection a live one names.
LEMMA UpIs ==
  ASSUME WireOK, NEW w \in 0..MaxWires, Up(w)
  PROVE  w \in Wires
BY Bounds DEF Up, Wires

\* The connections.
LEMMA WireTypes ==
  ASSUME WireOK, RunnerOK, ClientOK, OpOK, Next
  PROVE  WireOK'
<1>1. ASSUME NEW n \in Names, TakesWire(n) PROVE WireOK'
  <2>1. CASE UNCHANGED wire
    BY <2>1 DEF WireOK
  <2>2. CASE NextWire \in Wires /\ wire' = [wire EXCEPT ![NextWire].st = "up"]
    <3> DEFINE to == [wire[NextWire] EXCEPT !.st = "up"]
    <3>1. to \in WireType
      BY <2>2 DEF WireOK, WireType
    <3>2. wire' = [wire EXCEPT ![NextWire] = to]
      BY <2>2 DEF WireOK
    <3> QED
      BY <2>2, <3>1, <3>2, WireStep
  <2> QED
    BY <1>1, <2>1, <2>2 DEF TakesWire
<1>2. ASSUME NEW n \in Names, Writes(n) PROVE WireOK'
  <2>1. CASE UNCHANGED wire
    BY <2>1 DEF WireOK
  <2>2. CASE wire' = [wire EXCEPT ![op[n].wire].asked = Append(@, [name |-> n, stream |-> op[n].stream])]
    <3> DEFINE w == op[n].wire
               q == [name |-> n, stream |-> op[n].stream]
               to == [wire[w] EXCEPT !.asked = Append(@, q)]
    <3>1. w \in Wires /\ q \in Create
      BY <1>2 DEF Writes, OpOK, At, Placed, Create
    <3>2. wire[w] \in WireType
      BY <3>1 DEF WireOK
    <3>3. Append(wire[w].asked, q) \in Seq(Create)
      BY <3>1, <3>2, SeqGrows DEF WireType
    <3>4. to \in WireType
      BY <3>2, <3>3 DEF WireType
    <3>5. wire' = [wire EXCEPT ![w] = to]
      BY <2>2, <3>1 DEF WireOK
    <3> QED
      BY <3>1, <3>4, <3>5, WireStep
  <2> QED
    BY <1>2, <2>1, <2>2 DEF Writes
<1>3. ASSUME NEW n \in Names,
             \/ OpenBegins(n) \/ PassesDoor(n) \/ WaitsNoLonger(n) \/ FindsNoRunner(n)
             \/ Registers(n) \/ GivesUp(n) \/ OpenFails(n) \/ Opened(n)
      PROVE  WireOK'
  BY <1>3 DEF WireOK, OpenBegins, PassesDoor, WaitsNoLonger, FindsNoRunner, Registers, GivesUp,
     OpenFails, Opened
<1>4. ASSUME NEW n \in Names,
             \/ CloseBegins(n) \/ CloseConnects(n) \/ CloseKills(n) \/ CloseEnds(n)
             \/ CloseGivesUp(n)
      PROVE  WireOK'
  BY <1>4 DEF WireOK, CloseBegins, CloseConnects, CloseKills, CloseEnds, CloseGivesUp
<1>5. ASSUME DoorOpens PROVE WireOK'
  BY <1>5 DEF WireOK, DoorOpens
<1>6. ASSUME NEW w \in Wires, RoutesAnswer(w) PROVE WireOK'
  <2> DEFINE to == [wire[w] EXCEPT !.answers = Tail(@)]
  <2>1. wire[w] \in WireType
    BY <1>6 DEF WireOK
  <2>2. Tail(wire[w].answers) \in Seq(Answer)
    BY <1>6, <2>1, TailIs DEF RoutesAnswer, WireType
  <2>3. to \in WireType
    BY <2>1, <2>2 DEF WireType
  <2>4. wire' = [wire EXCEPT ![w] = to]
    BY <1>6 DEF RoutesAnswer, WireOK
  <2> QED
    BY <1>6, <2>3, <2>4, WireStep
<1>7. ASSUME NEW w \in Wires, RoutesExit(w) PROVE WireOK'
  <2> DEFINE to == [wire[w] EXCEPT !.lane = Tail(@)]
  <2>1. wire[w] \in WireType
    BY <1>7 DEF WireOK
  <2>2. Tail(wire[w].lane) \in Seq(Exit)
    BY <1>7, <2>1, TailIs DEF RoutesExit, WireType
  <2>3. to \in WireType
    BY <2>1, <2>2 DEF WireType
  <2>4. wire' = [wire EXCEPT ![w] = to]
    BY <1>7 DEF RoutesExit, WireOK
  <2> QED
    BY <1>7, <2>3, <2>4, WireStep
<1>8. ASSUME NEW w \in Wires, WireEnds(w) PROVE WireOK'
  <2> DEFINE to == [st |-> "over", asked |-> <<>>, answers |-> <<>>, lane |-> <<>>]
  <2>1. to \in WireType
    BY NoneIs DEF WireType
  <2>2. wire' = [wire EXCEPT ![w] = to]
    BY <1>8 DEF WireEnds
  <2> QED
    BY <2>1, <2>2, WireStep
<1>9. ASSUME NEW s \in Streams, Reads(s) \/ FindsEnd(s) \/ LetsGo(s) PROVE WireOK'
  BY <1>9 DEF WireOK, Reads, FindsEnd, LetsGo
<1>10. ASSUME NEW w \in Wires, Refuses(w) PROVE WireOK'
  <2> DEFINE q == Head(wire[w].asked)
  <2>1. wire[w].asked # <<>> /\ q \in Create
    BY <1>10, HeadIs DEF Refuses, WireOK, WireType
  <2>2. 0 \in 0..MaxChildren /\ Answers(w, q, 0, {})
    BY <1>10, Bounds DEF Refuses
  <2> QED
    BY <2>1, <2>2, AnswersIs
<1>11. ASSUME NEW w \in Wires, Attaches(w) PROVE WireOK'
  <2> DEFINE q == Head(wire[w].asked)
  <2>1. wire[w].asked # <<>> /\ q \in Create
    BY <1>11, HeadIs DEF Attaches, WireOK, WireType
  <2>2. PICK is \in SUBSET {"running"} : Answers(w, q, registry[q.name], is)
    BY <1>11 DEF Attaches
  <2>3. registry[q.name] \in 0..MaxChildren
    BY <2>1 DEF RunnerOK, Create
  <2> QED
    BY <2>1, <2>2, <2>3, AnswersIs
<1>12. ASSUME NEW w \in Wires, Spawns(w) PROVE WireOK'
  <2> DEFINE q == Head(wire[w].asked)
  <2>1. wire[w].asked # <<>> /\ q \in Create
    BY <1>12, HeadIs DEF Spawns, WireOK, WireType
  <2>2. PICK is \in SUBSET {"running"} : Answers(w, q, NextChild, is \cup {"begun"})
    BY <1>12 DEF Spawns
  <2>3. NextChild \in 0..MaxChildren
    BY <1>12, Bounds DEF Spawns
  <2> QED
    BY <2>1, <2>2, <2>3, AnswersIs
<1>13. ASSUME NEW c \in Children, SaysExit(c) PROVE WireOK'
  <2>1. CASE UNCHANGED wire
    BY <2>1 DEF WireOK
  <2>2. CASE Attached(c) /\ SaysEnd(c)
    <3> DEFINE w == child[c].lane
               e == [name |-> child[c].name, stream |-> child[c].stream]
               to == [wire[w] EXCEPT !.lane = Append(@, e)]
    <3>1. w \in 0..MaxWires /\ Up(w)
      BY <2>2 DEF Attached, RunnerOK, ChildType
    <3>2. w \in Wires /\ w # 0
      BY <3>1, UpIs DEF Up
    <3>3. e \in Exit
      BY <3>2 DEF RunnerOK, Exit
    <3>4. wire[w] \in WireType
      BY <3>2 DEF WireOK
    <3>5. Append(wire[w].lane, e) \in Seq(Exit)
      BY <3>3, <3>4, SeqGrows DEF WireType
    <3>6. to \in WireType
      BY <3>4, <3>5 DEF WireType
    <3>7. wire' = [wire EXCEPT ![w] = to]
      BY <2>2, <3>2 DEF WireOK, SaysEnd
    <3> QED
      BY <3>2, <3>6, <3>7, WireStep
  <2> QED
    BY <1>13, <2>1, <2>2 DEF SaysExit
<1>14. ASSUME NEW c \in Children, Exits(c) \/ OrphanEnds(c) PROVE WireOK'
  BY <1>14 DEF WireOK, Exits, OrphanEnds
<1>15. ASSUME ConnectionDrops PROVE WireOK'
  <2>1. slot \in Wires /\ Closes(slot)
    BY <1>15, UpIs DEF ConnectionDrops, ClientOK
  <2> QED
    BY <2>1, ClosesIs
<1>16. ASSUME RunnerExits PROVE WireOK'
  <2>1. CASE UNCHANGED wire
    BY <2>1 DEF WireOK
  <2>2. CASE Up(slot) /\ Closes(slot)
    <3>1. slot \in Wires
      BY <2>2, UpIs DEF ClientOK
    <3> QED
      BY <2>2, <3>1, ClosesIs
  <2> QED
    BY <1>16, <2>1, <2>2 DEF RunnerExits, RunnerGone
<1>17. ASSUME RunnerCrashes PROVE WireOK'
  <2>1. CASE UNCHANGED wire
    BY <2>1 DEF WireOK
  <2>2. CASE Up(slot) /\ Closes(slot)
    <3>1. slot \in Wires
      BY <2>2, UpIs DEF ClientOK
    <3> QED
      BY <2>2, <3>1, ClosesIs
  <2> QED
    BY <1>17, <2>1, <2>2 DEF RunnerCrashes, RunnerGone
<1>18. ASSUME 
             RestartBegins \/ RestartStops \/ RestartServes \/ RestartGivesUp
      PROVE  WireOK'
  BY <1>18 DEF WireOK, RestartBegins, RestartStops, RestartServes, RestartGivesUp
<1> QED
  BY <1>1, <1>2, <1>3, <1>4, <1>5, <1>6, <1>7, <1>8, <1>9, <1>10, <1>11, <1>12, <1>13, <1>14,
     <1>15, <1>16, <1>17, <1>18
  DEF Next, Open, Close, Route, Reader, Run, Restart

\* One stream changes.
LEMMA SessionStep ==
  ASSUME ClientOK, NEW s \in Streams, NEW to \in SessionType, session' = [session EXCEPT ![s] = to]
  PROVE  session' \in [Streams -> SessionType]
BY DEF ClientOK

\* A stream nobody reads any more.
LEMMA DroppedIs ==
  ASSUME ClientOK, NEW s \in Streams
  PROVE  Dropped(s) \in SessionType
<1>1. session[s] \in SessionType /\ <<>> \in Seq(Exit)
  BY NoneIs DEF ClientOK
<1> QED
  BY <1>1, Bounds DEF Dropped, NoStream, SessionType

\* Other marks on a session.
LEMMA MarksIs ==
  ASSUME ClientOK, NEW s \in Streams, NEW marks \in SUBSET {"closing", "closed", "unmarked"}
  PROVE  [session[s] EXCEPT !.marks = marks] \in SessionType
<1>1. session[s] \in SessionType
  BY DEF ClientOK
<1> QED
  BY <1>1 DEF SessionType

\* The client's variables.
LEMMA ClientTypes ==
  ASSUME ClientOK, WireOK, OpOK, RunnerOK, Next
  PROVE  ClientOK'
<1>1. ASSUME NEW n \in Names, TakesWire(n) PROVE ClientOK'
  <2>1. slot' \in 0..MaxWires
    BY <1>1, Bounds DEF TakesWire, ClientOK
  <2> QED
    BY <1>1, <2>1 DEF TakesWire, ClientOK
<1>2. ASSUME NEW n \in Names, Registers(n) PROVE ClientOK'
  <2> DEFINE w == op[n].wire
             to == [session[NextStream] EXCEPT !.name = n, !.wire = w]
  <2>1. w \in Wires /\ w \in 0..MaxWires
    BY <1>2, Bounds DEF Registers, OpOK, At, Placed
  <2>2. NextStream \in Streams /\ NextStream \in 0..MaxOpens
    BY <1>2, Bounds DEF Registers
  <2>3. session[NextStream] \in SessionType
    BY <2>2 DEF ClientOK
  <2>4. to \in SessionType
    BY <2>1, <2>3 DEF SessionType
  <2>5. session' = [session EXCEPT ![NextStream] = to]
    BY <1>2, <2>2 DEF Registers, ClientOK
  <2>6. session' \in [Streams -> SessionType]
    BY <2>2, <2>4, <2>5, SessionStep
  <2>7. sink' = [sink EXCEPT ![w] = [sink[w] EXCEPT ![n] = NextStream]]
    BY <1>2, <2>1 DEF Registers, ClientOK
  <2>8. [sink[w] EXCEPT ![n] = NextStream] \in [Names -> 0..MaxOpens]
    BY <2>1, <2>2 DEF ClientOK
  <2> QED
    BY <1>2, <2>1, <2>6, <2>7, <2>8 DEF Registers, ClientOK
<1>3. ASSUME NEW n \in Names, OpenFails(n) PROVE ClientOK'
  <2> DEFINE w == op[n].wire
             s == op[n].stream
  <2>1. s \in Streams /\ w \in Wires
    BY <1>3 DEF OpenFails, OpOK, At, Placed
  <2>2. session' \in [Streams -> SessionType]
    BY <1>3, <2>1, DroppedIs, SessionStep DEF OpenFails
  <2>3. sink' = [sink EXCEPT ![w] = [sink[w] EXCEPT ![n] = 0]]
    BY <1>3, <2>1 DEF OpenFails, ClientOK
  <2>4. [sink[w] EXCEPT ![n] = 0] \in [Names -> 0..MaxOpens]
    BY <2>1, Bounds DEF ClientOK
  <2> QED
    BY <1>3, <2>1, <2>2, <2>3, <2>4 DEF OpenFails, ClientOK
<1>4. ASSUME NEW n \in Names, Opened(n) PROVE ClientOK'
  <2> DEFINE s == op[n].stream
  <2>1. s \in Streams /\ s \in 0..MaxOpens /\ op[n] \in OpType
    BY <1>4, Bounds DEF Opened, OpOK, At, Placed
  <2>2. CASE session' = [session EXCEPT ![s] = Dropped(s)] /\ UNCHANGED held
    <3>1. session' \in [Streams -> SessionType]
      BY <2>1, <2>2, DroppedIs, SessionStep
    <3> QED
      BY <1>4, <2>2, <3>1 DEF Opened, ClientOK
  <2>3. CASE "running" \in op[n].is
    <3> DEFINE marks == IF restart.pc # "idle" \/ child[op[n].child].order = "end" THEN {"unmarked"} ELSE {}
               to == [session[s] EXCEPT !.reader = "reading", !.child = op[n].child, !.marks = marks]
    <3>1. session[s] \in SessionType /\ op[n].child \in 0..MaxChildren
      BY <2>1 DEF ClientOK, OpType
    <3>2. marks \in SUBSET {"closing", "closed", "unmarked"}
      OBVIOUS
    <3> HIDE DEF marks
    <3>3. to \in SessionType
      BY <3>1, <3>2 DEF SessionType
    <3>4. held' = [held EXCEPT ![n] = s] /\ session' = [session EXCEPT ![s].reader = "reading",
                               ![s].child = op[n].child, ![s].marks = marks]
      BY <1>4, <2>3 DEF Opened, marks
    <3>5. session' = [session EXCEPT ![s] = to]
      BY <2>1, <3>4 DEF ClientOK
    <3>6. session' \in [Streams -> SessionType]
      BY <2>1, <3>3, <3>5, SessionStep
    <3> QED
      BY <1>4, <2>1, <3>4, <3>6 DEF Opened, ClientOK
  <2> QED
    BY <1>4, <2>2, <2>3 DEF Opened
<1>5. ASSUME NEW n \in Names,
             \/ OpenBegins(n) \/ PassesDoor(n) \/ WaitsNoLonger(n) \/ FindsNoRunner(n)
             \/ Writes(n) \/ GivesUp(n)
      PROVE  ClientOK'
  BY <1>5 DEF ClientOK, clientVars, OpenBegins, PassesDoor, WaitsNoLonger, FindsNoRunner, Writes, GivesUp
<1>6. ASSUME NEW n \in Names, CloseBegins(n) PROVE ClientOK'
  <2>1. held' \in [Names -> 0..MaxOpens]
    BY <1>6, Bounds DEF CloseBegins, ClientOK
  <2>2. session' \in [Streams -> SessionType]
    <3>1. CASE held[n] = 0
      BY <1>6, <3>1 DEF CloseBegins, ClientOK
    <3>2. CASE held[n] # 0
      <4> DEFINE s == held[n]
                 marks == session[s].marks \cup {"closing", "closed"}
      <4>1. s \in Streams
        BY <3>2, Bounds DEF ClientOK, Streams
      <4>2. session[s] \in SessionType
        BY <4>1 DEF ClientOK
      <4>3. marks \in SUBSET {"closing", "closed", "unmarked"}
        BY <4>2 DEF SessionType
      <4>4. session' = [session EXCEPT ![s] = [session[s] EXCEPT !.marks = marks]]
        BY <1>6, <3>2, <4>1 DEF CloseBegins, ClientOK
      <4> HIDE DEF marks
      <4> QED
        BY <4>1, <4>3, <4>4, MarksIs, SessionStep
    <3> QED
      BY <3>1, <3>2
  <2> QED
    BY <1>6, <2>1, <2>2 DEF CloseBegins, ClientOK
<1>7. ASSUME NEW n \in Names,
             CloseConnects(n) \/ CloseKills(n) \/ CloseEnds(n) \/ CloseGivesUp(n)
      PROVE  ClientOK'
  BY <1>7 DEF ClientOK, clientVars, CloseConnects, CloseKills, CloseEnds, CloseGivesUp
<1>8. ASSUME DoorOpens PROVE ClientOK'
  BY <1>8 DEF ClientOK, clientVars, DoorOpens
<1>9. ASSUME NEW w \in Wires, RoutesExit(w) PROVE ClientOK'
  <2> DEFINE e == Head(wire[w].lane)
             s == sink[w][e.name]
  <2>1. e \in Exit
    BY <1>9, HeadIs DEF RoutesExit, WireOK, WireType
  <2>2. e.name \in Names /\ s \in 0..MaxOpens
    BY <2>1 DEF Exit, ClientOK
  <2>3. session' \in [Streams -> SessionType]
    <3>1. CASE UNCHANGED session
      BY <3>1 DEF ClientOK
    <3>2. CASE s # 0 /\ session' = [session EXCEPT ![s].inbox = Append(@, e)]
      <4>1. s \in Streams
        BY <2>2, <3>2, StreamIs
      <4>2. session[s] \in SessionType
        BY <4>1 DEF ClientOK
      <4>3. Append(session[s].inbox, e) \in Seq(Exit)
        BY <2>1, <4>2, SeqGrows DEF SessionType
      <4>4. [session[s] EXCEPT !.inbox = Append(@, e)] \in SessionType
        BY <4>2, <4>3 DEF SessionType
      <4>5. session' = [session EXCEPT ![s] = [session[s] EXCEPT !.inbox = Append(@, e)]]
        BY <3>2, <4>1 DEF ClientOK
      <4> QED
        BY <4>1, <4>4, <4>5, SessionStep
    <3> QED
      BY <1>9, <3>1, <3>2 DEF RoutesExit
  <2>4. sink' = [sink EXCEPT ![w] = [sink[w] EXCEPT ![e.name] = 0]]
    BY <1>9 DEF RoutesExit, ClientOK
  <2>5. [sink[w] EXCEPT ![e.name] = 0] \in [Names -> 0..MaxOpens]
    BY <2>2, Bounds DEF ClientOK
  <2> QED
    BY <1>9, <2>3, <2>4, <2>5 DEF RoutesExit, ClientOK
<1>10. ASSUME NEW w \in Wires, WireEnds(w) PROVE ClientOK'
  <2>1. [n \in Names |-> 0] \in [Names -> 0..MaxOpens]
    BY Bounds
  <2> QED
    BY <1>10, <2>1 DEF WireEnds, ClientOK
<1>11. ASSUME NEW w \in Wires, RoutesAnswer(w) PROVE ClientOK'
  BY <1>11 DEF ClientOK, clientVars, RoutesAnswer
<1>12. ASSUME NEW s \in Streams, Reads(s) PROVE ClientOK'
  <2>1. PICK end \in {"interrupted", "failed"} : session' = [session EXCEPT ![s].inbox = <<>>,
            ![s].reader = "exited", ![s].end = end]
    BY <1>12 DEF Reads
  <2> DEFINE to == [session[s] EXCEPT !.inbox = <<>>, !.reader = "exited", !.end = end]
  <2>2. session[s] \in SessionType /\ <<>> \in Seq(Exit)
    BY NoneIs DEF ClientOK
  <2>3. to \in SessionType
    BY <2>2 DEF SessionType
  <2>4. session' = [session EXCEPT ![s] = to]
    BY <2>1 DEF ClientOK
  <2>5. session' \in [Streams -> SessionType]
    BY <2>3, <2>4, SessionStep
  <2> QED
    BY <1>12, <2>5 DEF Reads, ClientOK
<1>13. ASSUME NEW s \in Streams, FindsEnd(s) PROVE ClientOK'
  <2>1. PICK end \in {"interrupted", "unreachable"} : session' = [session EXCEPT ![s].reader = "cut",
            ![s].end = end]
    BY <1>13 DEF FindsEnd
  <2> DEFINE to == [session[s] EXCEPT !.reader = "cut", !.end = end]
  <2>2. session[s] \in SessionType
    BY DEF ClientOK
  <2>3. to \in SessionType
    BY <2>2 DEF SessionType
  <2>4. session' = [session EXCEPT ![s] = to]
    BY <2>1 DEF ClientOK
  <2>5. session' \in [Streams -> SessionType]
    BY <2>3, <2>4, SessionStep
  <2> QED
    BY <1>13, <2>5 DEF FindsEnd, ClientOK
<1>14. ASSUME NEW s \in Streams, LetsGo(s) PROVE ClientOK'
  <2>1. session' \in [Streams -> SessionType]
    BY <1>14, DroppedIs, SessionStep DEF LetsGo
  <2>2. held' \in [Names -> 0..MaxOpens]
    BY <1>14, Bounds DEF LetsGo, LetGo, ClientOK
  <2> QED
    BY <1>14, <2>1, <2>2 DEF LetsGo, ClientOK
<1>15. ASSUME NEW w \in Wires, Refuses(w) \/ Attaches(w) \/ Spawns(w) PROVE ClientOK'
  BY <1>15 DEF ClientOK, clientVars, Refuses, Attaches, Spawns
<1>16. ASSUME NEW c \in Children, Exits(c) \/ SaysExit(c) \/ OrphanEnds(c) PROVE ClientOK'
  BY <1>16 DEF ClientOK, clientVars, Exits, SaysExit, OrphanEnds
<1>17. ASSUME RunnerExits PROVE ClientOK'
  BY <1>17 DEF ClientOK, clientVars, RunnerGone, RunnerExits
<1>18. ASSUME RunnerCrashes PROVE ClientOK'
  BY <1>18 DEF ClientOK, clientVars, RunnerGone, RunnerCrashes
<1>19. ASSUME ConnectionDrops PROVE ClientOK'
  BY <1>19 DEF ClientOK, clientVars, ConnectionDrops
<1>20. ASSUME RestartBegins PROVE ClientOK'
  <2>1. \A s \in Streams : (session[s].marks \cup {"closing"}) \in SUBSET {"closing", "closed", "unmarked"}
    BY DEF ClientOK, SessionType
  <2>2. \A s \in Streams : [session[s] EXCEPT !.marks = (session[s].marks \cup {"closing"})] \in SessionType
    BY <2>1, MarksIs
  <2>3. session' = [s \in Streams |-> session'[s]]
    BY <1>20 DEF RestartBegins
  <2>4. \A s \in Streams : session'[s] \in {session[s], [session[s] EXCEPT !.marks = (session[s].marks \cup {"closing"})]}
    BY <1>20 DEF RestartBegins
  <2>5. session' \in [Streams -> SessionType]
    BY <2>2, <2>3, <2>4 DEF ClientOK
  <2> QED
    BY <1>20, <2>5 DEF RestartBegins, ClientOK
<1>21. ASSUME RestartGivesUp PROVE ClientOK'
  <2>1. \A s \in Streams : ((session[s].marks \ {"closing"}) \cup {"unmarked"}) \in SUBSET {"closing", "closed", "unmarked"}
    BY DEF ClientOK, SessionType
  <2>2. \A s \in Streams : [session[s] EXCEPT !.marks = ((session[s].marks \ {"closing"}) \cup {"unmarked"})] \in SessionType
    BY <2>1, MarksIs
  <2>3. session' = [s \in Streams |-> session'[s]]
    BY <1>21 DEF RestartGivesUp
  <2>4. \A s \in Streams : session'[s] \in {session[s], [session[s] EXCEPT !.marks = ((session[s].marks \ {"closing"}) \cup {"unmarked"})]}
    BY <1>21 DEF RestartGivesUp
  <2>5. session' \in [Streams -> SessionType]
    BY <2>2, <2>3, <2>4 DEF ClientOK
  <2> QED
    BY <1>21, <2>5 DEF RestartGivesUp, ClientOK
<1>22. ASSUME RestartStops \/ RestartServes PROVE ClientOK'
  BY <1>22 DEF ClientOK, clientVars, RestartStops, RestartServes
<1> QED
  BY <1>1, <1>2, <1>3, <1>4, <1>5, <1>6, <1>7, <1>8, <1>9, <1>10, <1>11, <1>12, <1>13, <1>14,
     <1>15, <1>16, <1>17, <1>18, <1>19, <1>20, <1>21, <1>22
  DEF Next, Open, Close, Route, Reader, Run, Restart

\* A fault is counted, and some name may be overdue.
LEMMA FaultIs ==
  ASSUME RestOK, Fault, NEW more \in SUBSET Names,
         history' = [Faulted(history) EXCEPT !.overdue = @ \cup more]
  PROVE  history' \in [faults : 0..MaxFaults, young : SUBSET Children, overdue : SUBSET Names,
                       crossed : SUBSET Names]
<1>1. history.faults + 1 \in 0..MaxFaults
  BY Bounds DEF RestOK, Fault
<1>2. history' = [faults |-> history.faults + 1, young |-> history.young,
                  overdue |-> history.overdue \cup more, crossed |-> history.crossed]
  BY DEF Faulted, RestOK
<1>3. history.young \in SUBSET Children /\ history.overdue \cup more \in SUBSET Names /\ history.crossed \in SUBSET Names
  BY DEF RestOK
<1> DEFINE f == history.faults + 1
           young == history.young
           overdue == history.overdue \cup more
           crossed == history.crossed
<1>4. f \in 0..MaxFaults /\ young \in SUBSET Children /\ overdue \in SUBSET Names /\ crossed \in SUBSET Names
  BY <1>1, <1>3
<1>5. history' = [faults |-> f, young |-> young, overdue |-> overdue, crossed |-> crossed]
  BY <1>2
<1>6. history'.faults = f /\ history'.young = young /\ history'.overdue = overdue /\ history'.crossed = crossed
  BY <1>5
<1>7. history' = [faults |-> history'.faults, young |-> history'.young, overdue |-> history'.overdue,
                  crossed |-> history'.crossed]
  BY <1>5, <1>6
<1> QED
  BY <1>4, <1>6, <1>7

\* A fault is counted.
LEMMA FaultedIs ==
  ASSUME RestOK, Fault, history' = Faulted(history)
  PROVE  history' \in [faults : 0..MaxFaults, young : SUBSET Children, overdue : SUBSET Names,
                       crossed : SUBSET Names]
<1>1. history' = [Faulted(history) EXCEPT !.overdue = @ \cup {}]
  BY DEF Faulted, RestOK
<1>2. {} \in SUBSET Names
  OBVIOUS
<1> QED
  BY <1>1, <1>2, FaultIs

\* The door, the restart and the ghosts.
LEMMA RestTypes ==
  ASSUME RestOK, WireOK, Next
  PROVE  RestOK'
<1>1. ASSUME NEW n \in Names, PassesDoor(n) PROVE RestOK'
  BY <1>1 DEF PassesDoor, RestOK
<1>2. ASSUME NEW n \in Names, FindsNoRunner(n) PROVE RestOK'
  BY <1>2, FaultedIs DEF FindsNoRunner, RestOK
<1>3. ASSUME NEW n \in Names, GivesUp(n) PROVE RestOK'
  <2>1. history' = [Faulted(history) EXCEPT !.overdue = @ \cup {n}] /\ Fault
    BY <1>3 DEF GivesUp
  <2>2. {n} \in SUBSET Names
    OBVIOUS
  <2>3. history' \in [faults : 0..MaxFaults, young : SUBSET Children, overdue : SUBSET Names, crossed : SUBSET Names]
    BY <2>1, <2>2, FaultIs
  <2> QED
    BY <1>3, <2>3 DEF GivesUp, RestOK
<1>4. ASSUME NEW n \in Names, OpenFails(n) PROVE RestOK'
  BY <1>4 DEF OpenFails, RestOK
<1>5. ASSUME NEW n \in Names, Opened(n) PROVE RestOK'
  BY <1>5 DEF Opened, RestOK
<1>6. ASSUME NEW n \in Names,
             \/ OpenBegins(n) \/ WaitsNoLonger(n) \/ TakesWire(n) \/ Registers(n)
             \/ Writes(n)
      PROVE  RestOK'
  BY <1>6 DEF RestOK, OpenBegins, WaitsNoLonger, TakesWire, Registers, Writes
<1>7. ASSUME NEW n \in Names, CloseGivesUp(n) PROVE RestOK'
  <2>1. history' = [Faulted(history) EXCEPT !.overdue = @ \cup {n}] /\ Fault
    BY <1>7 DEF CloseGivesUp
  <2>2. {n} \in SUBSET Names
    OBVIOUS
  <2>3. history' \in [faults : 0..MaxFaults, young : SUBSET Children, overdue : SUBSET Names, crossed : SUBSET Names]
    BY <2>1, <2>2, FaultIs
  <2> QED
    BY <1>7, <2>3 DEF CloseGivesUp, RestOK
<1>8. ASSUME NEW n \in Names,
             CloseBegins(n) \/ CloseConnects(n) \/ CloseKills(n) \/ CloseEnds(n)
      PROVE  RestOK'
  BY <1>8 DEF RestOK, CloseBegins, CloseConnects, CloseKills, CloseEnds
<1>9. ASSUME DoorOpens PROVE RestOK'
  BY <1>9 DEF DoorOpens, RestOK
<1>10. ASSUME NEW w \in Wires, RoutesExit(w) PROVE RestOK'
  <2>1. Head(wire[w].lane) \in Exit
    BY <1>10, HeadIs DEF RoutesExit, WireOK, WireType
  <2> QED
    BY <1>10, <2>1 DEF RoutesExit, RestOK, Exit
<1>11. ASSUME NEW w \in Wires, RoutesAnswer(w) \/ WireEnds(w) PROVE RestOK'
  BY <1>11 DEF RestOK, RoutesAnswer, WireEnds
<1>12. ASSUME NEW s \in Streams, Reads(s) \/ FindsEnd(s) \/ LetsGo(s) PROVE RestOK'
  BY <1>12 DEF RestOK, Reads, FindsEnd, LetsGo
<1>13. ASSUME NEW w \in Wires, Spawns(w) PROVE RestOK'
  BY <1>13 DEF Spawns, RestOK
<1>14. ASSUME NEW w \in Wires, Refuses(w) \/ Attaches(w) PROVE RestOK'
  BY <1>14 DEF RestOK, Refuses, Attaches
<1>15. ASSUME NEW c \in Children, Exits(c) \/ SaysExit(c) \/ OrphanEnds(c) PROVE RestOK'
  BY <1>15 DEF RestOK, Exits, SaysExit, OrphanEnds
<1>16. ASSUME ConnectionDrops PROVE RestOK'
  BY <1>16, FaultedIs DEF ConnectionDrops, RestOK
<1>17. ASSUME RunnerExits PROVE RestOK'
  BY <1>17 DEF RunnerExits, RunnerGone, RestOK
<1>18. ASSUME RunnerCrashes PROVE RestOK'
  BY <1>18, FaultedIs DEF RunnerCrashes, RunnerGone, RestOK
<1>19. ASSUME RestartBegins PROVE RestOK'
  <2>1. history' \in [faults : 0..MaxFaults, young : SUBSET Children, overdue : SUBSET Names, crossed : SUBSET Names]
    BY <1>19, FaultedIs DEF RestartBegins
  <2> QED
    BY <1>19, <2>1 DEF RestartBegins, RestOK
<1>20. ASSUME RestartStops PROVE RestOK'
  BY <1>20 DEF RestartStops, RestOK
<1>21. ASSUME RestartServes PROVE RestOK'
  BY <1>21 DEF RestartServes, RestOK
<1>22. ASSUME RestartGivesUp PROVE RestOK'
  BY <1>22 DEF RestartGivesUp, RestOK
<1> QED
  BY <1>1, <1>2, <1>3, <1>4, <1>5, <1>6, <1>7, <1>8, <1>9, <1>10, <1>11, <1>12, <1>13, <1>14,
     <1>15, <1>16, <1>17, <1>18, <1>19, <1>20, <1>21, <1>22
  DEF Next, Open, Close, Route, Reader, Run, Restart

\* The types hold at first.
LEMMA InitTypes == Init => TypeInv
<1> SUFFICES ASSUME Init PROVE TypeInv
  OBVIOUS
<1>1. RunnerOK
  BY Bounds DEF Init, RunnerOK, ChildType
<1>2. WireOK
  BY NoneIs DEF Init, WireOK, WireType
<1>3. ClientOK
  <2>1. NoStream \in SessionType
    BY Bounds, NoneIs DEF NoStream, SessionType
  <2>2. sink \in [Wires -> [Names -> 0..MaxOpens]]
    BY Bounds DEF Init
  <2> QED
    BY <2>1, <2>2, Bounds DEF Init, ClientOK
<1>4. OpOK
  <2>1. NoOp \in OpType /\ NoOp.pc = "idle"
    BY Bounds DEF NoOp, OpType
  <2> QED
    BY <2>1 DEF Init, OpOK, Placed
<1>5. RestOK
  <2>1. 0 \in 0..MaxFaults
    BY Bounds
  <2> QED
    BY <2>1 DEF Init, RestOK
<1> QED
  BY <1>1, <1>2, <1>3, <1>4, <1>5 DEF TypeInv

\* Every step keeps the types, and so does a stuttering one.
LEMMA TypeStep == ASSUME TypeInv, [Next]_vars PROVE TypeInv'
<1>1. CASE Next
  BY <1>1, RunnerTypes, WireTypes, ClientTypes, OpTypes, RestTypes DEF TypeInv
<1>2. CASE UNCHANGED vars
  BY <1>2 DEF TypeInv, RunnerOK, WireOK, ClientOK, OpOK, RestOK, vars, runnerVars, clientVars
<1> QED
  BY <1>1, <1>2

\* The types hold at all times.
LEMMA TypesHold == Spec => []TypeInv
BY InitTypes, TypeStep, PTL DEF Spec

(* Every variable of the backend's and the runner's sides keeps its type:  *)
(* an answer, an exit or a child never names a connection, stream or       *)
(* conversation that does not exist, whatever is lost, refused or given up *)
(* on (session.rs, runner.rs, daemon.rs).                                  *)
THEOREM TypesAreKept == Spec => []TypeOK
<1>1. TypeInv => TypeOK
  BY DEF TypeInv, TypeOK, RunnerOK, WireOK, ClientOK, OpOK, RestOK
<1> QED
  BY <1>1, TypesHold, PTL
===============================================================================
