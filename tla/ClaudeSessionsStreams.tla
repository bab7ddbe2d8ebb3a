------------------------ MODULE ClaudeSessionsStreams ------------------------
(***************************************************************************)
(* More proofs about ClaudeSessions, for any conversations and any bounds: *)
(* what a stream is about, and what it hears.                              *)
(*                                                                         *)
(*   Queues   what a connection carries                                    *)
(*   Moves    what steps leave alone, and what the others do               *)
(*   Places   what speaks of a stream names its conversation and comes     *)
(*            over its connection                                          *)
(*   Lives    a session that is read has a child that speaks to it, or     *)
(*            its end is on the way                                        *)
(*   Once     a stream is asked for once, and is about one child           *)
(*   Hears    a child that is relayed has somebody to hear it              *)
(*   Stops    an end somebody asked for is never taken for a failure       *)
(***************************************************************************)
EXTENDS ClaudeSessionsProofs

-----------------------------------------------------------------------------
(* Queues.                                                                 *)

In(q) == {q[i] : i \in 1..Len(q)}
\* No two in it are for one stream.
Distinct(q) == \A i \in 1..Len(q), j \in 1..Len(q) : q[i].stream = q[j].stream => i = j

\* A queue with one more.
LEMMA InMore ==
  ASSUME NEW S, NEW q \in Seq(S), NEW x \in S
  PROVE  /\ In(Append(q, x)) = In(q) \cup {x}
         /\ Distinct(q) /\ (\A y \in In(q) : y.stream # x.stream) => Distinct(Append(q, x))
<1>1. Len(q) \in Nat /\ Len(Append(q, x)) = Len(q) + 1 /\ Append(q, x)[Len(q) + 1] = x
      /\ \A i \in 1..Len(q) : Append(q, x)[i] = q[i]
  BY AppendProperties, LenProperties
<1>2. \A i \in 1..(Len(q) + 1) : i \in 1..Len(q) \/ i = Len(q) + 1
  BY <1>1
<1>3. \A i \in 1..Len(q) : i \in 1..(Len(q) + 1)
  BY <1>1
<1>4. Len(q) + 1 \in 1..(Len(q) + 1)
  BY <1>1
<1>5. In(Append(q, x)) = In(q) \cup {x}
  BY <1>1, <1>2, <1>3, <1>4 DEF In
<1>6. ASSUME Distinct(q), \A y \in In(q) : y.stream # x.stream
      PROVE  Distinct(Append(q, x))
  <2>1. \A i \in 1..Len(q) : q[i].stream # x.stream
    BY <1>6 DEF In
  <2> QED
    BY <1>1, <1>2, <1>6, <2>1 DEF Distinct
<1> QED
  BY <1>5, <1>6

\* A queue and its head.
LEMMA InLess ==
  ASSUME NEW S, NEW q \in Seq(S), q # <<>>
  PROVE  /\ Head(q) \in In(q) /\ In(Tail(q)) \subseteq In(q)
         /\ \A x \in In(q) : x = Head(q) \/ x \in In(Tail(q))
         /\ Distinct(q) => Distinct(Tail(q)) /\ \A x \in In(Tail(q)) : x.stream # Head(q).stream
<1>1. Len(q) \in Nat /\ Len(Tail(q)) = Len(q) - 1 /\ Head(q) = q[1]
      /\ \A i \in 1..Len(Tail(q)) : Tail(q)[i] = q[i + 1] /\ i + 1 \in 1..Len(q)
  BY HeadTailProperties, LenProperties
<1>2. 1 \in 1..Len(q)
  BY <1>1, EmptySeq
<1>3. \A i \in 1..Len(q) : i = 1 \/ (i - 1 \in 1..Len(Tail(q)) /\ (i - 1) + 1 = i)
  BY <1>1
<1>4. \A i \in 1..Len(q) : i = 1 \/ (i - 1 \in 1..Len(Tail(q)) /\ Tail(q)[i - 1] = q[i])
  BY <1>1, <1>3
<1>5. Head(q) \in In(q) /\ In(Tail(q)) \subseteq In(q) /\ \A x \in In(q) : x = Head(q) \/ x \in In(Tail(q))
  BY <1>1, <1>2, <1>4 DEF In
<1>6. ASSUME Distinct(q)
      PROVE  Distinct(Tail(q)) /\ \A x \in In(Tail(q)) : x.stream # Head(q).stream
  <2>1. \A i \in 1..Len(Tail(q)) : i + 1 # 1 /\ i \in Nat
    BY <1>1
  <2>2. \A i \in 1..Len(Tail(q)) : Tail(q)[i].stream # Head(q).stream
    BY <1>1, <1>2, <1>6, <2>1 DEF Distinct
  <2>3. \A i \in 1..Len(Tail(q)), j \in 1..Len(Tail(q)) : i + 1 = j + 1 => i = j
    BY <1>1
  <2>4. Distinct(Tail(q))
    BY <1>1, <1>6, <2>3 DEF Distinct
  <2> QED
    BY <2>2, <2>4 DEF In
<1> QED
  BY <1>5, <1>6

\* Nothing is in an empty queue.
LEMMA InNone == In(<<>>) = {} /\ Distinct(<<>>)
<1>1. Len(<<>>) = 0
  BY EmptySeq
<1> QED
  BY <1>1 DEF In, Distinct

\* What is in a queue is of its kind.
LEMMA InIs == ASSUME NEW S, NEW q \in Seq(S) PROVE \A x \in In(q) : x \in S
<1>1. \A i \in 1..Len(q) : q[i] \in S
  BY ElementOfSeq
<1> QED
  BY <1>1 DEF In

\* What is mentioned in a queue is in it.
LEMMA InMentions ==
  ASSUME NEW q, NEW n
  PROVE  Mentions(q, n) <=> \E x \in In(q) : x.name = n
BY DEF Mentions, In

\* Two of one name in a queue that has one are the same.
LEMMA InSingle ==
  ASSUME NEW q, NEW n, Single(q, n), NEW x \in In(q), NEW y \in In(q), x.name = n, y.name = n
  PROVE  x = y
BY DEF Single, In

\* The kinds of what a connection carries.
LEMMA CarriedIs ==
  ASSUME WireOK, NEW w \in Wires
  PROVE  /\ wire[w].asked \in Seq(Create) /\ wire[w].answers \in Seq(Answer) /\ wire[w].lane \in Seq(Exit)
         /\ \A q \in In(wire[w].asked) : q \in Create
         /\ \A a \in In(wire[w].answers) : a \in Answer
         /\ \A e \in In(wire[w].lane) : e \in Exit
<1>1. wire[w].asked \in Seq(Create) /\ wire[w].answers \in Seq(Answer) /\ wire[w].lane \in Seq(Exit)
  BY DEF WireOK, WireType
<1> QED
  BY <1>1, InIs

-----------------------------------------------------------------------------
(* Moves.                                                                  *)

\* A connection carries nothing new.
WireFades == \A w \in Wires :
  /\ In(wire'[w].asked) \subseteq In(wire[w].asked) /\ In(wire'[w].answers) \subseteq In(wire[w].answers)
  /\ In(wire'[w].lane) \subseteq In(wire[w].lane)
  /\ Distinct(wire[w].asked) => Distinct(wire'[w].asked)
\* No child takes a lane or a name, and one that is gone stays so.
ChildFades == \A c \in Children :
  /\ child'[c].name = child[c].name /\ (child'[c].st = "unborn" <=> child[c].st = "unborn")
  /\ child[c].st = "gone" => child'[c].st = "gone"
  /\ child'[c].st = "running" => child[c].st = "running"
  /\ child'[c].lane # 0 => child'[c].lane = child[c].lane /\ child'[c].stream = child[c].stream
  /\ child'[c].order = child[c].order \/ child[c].st = "running"

\* The oldest request of a connection is answered, for a child or for none.
Took(w, c, is) == LET q == Head(wire[w].asked) IN
  /\ q \in In(wire[w].asked) /\ \A v \in Wires \ {w} : wire'[v] = wire[v]
  /\ wire'[w].st = wire[w].st /\ wire'[w].lane = wire[w].lane
  /\ In(wire'[w].asked) \subseteq In(wire[w].asked)
  /\ Distinct(wire[w].asked) => Distinct(wire'[w].asked) /\ \A x \in In(wire'[w].asked) : x.stream # q.stream
  /\ \E a \in Answer :
       /\ a.name = q.name /\ a.stream = q.stream /\ a.child = c /\ a.is = is
       /\ In(wire'[w].answers) = In(wire[w].answers) \cup {a}
LEMMA AnswersDo ==
  ASSUME WireOK, NEW w \in Wires, wire[w].asked # <<>>, NEW c \in 0..MaxChildren,
         NEW is \in SUBSET {"begun", "running"}, Answers(w, Head(wire[w].asked), c, is)
  PROVE  Took(w, c, is)
<1> DEFINE q == Head(wire[w].asked)
<1>1. wire[w] \in WireType /\ wire[w].asked \in Seq(Create) /\ wire[w].answers \in Seq(Answer)
  BY CarriedIs DEF WireOK
<1>2. q \in Create
  BY <1>1, HeadIs
<1>3. PICK a \in Answer : a = [name |-> q.name, stream |-> q.stream, child |-> c, is |-> is]
  BY <1>2 DEF Create, Answer
<1>4. wire' = [wire EXCEPT ![w] = [wire[w] EXCEPT !.asked = Tail(@), !.answers = Append(@, a)]]
  BY <1>3 DEF Answers, WireOK
<1>5. /\ wire'[w].asked = Tail(wire[w].asked) /\ wire'[w].answers = Append(wire[w].answers, a)
      /\ wire'[w].st = wire[w].st /\ wire'[w].lane = wire[w].lane
      /\ \A v \in Wires \ {w} : wire'[v] = wire[v]
  BY <1>1, <1>4 DEF WireOK, WireType
<1>6. a.name = q.name /\ a.stream = q.stream /\ a.child = c /\ a.is = is
  BY <1>3
<1>7. In(wire'[w].answers) = In(wire[w].answers) \cup {a}
  BY <1>1, <1>5, InMore
<1> QED
  BY <1>1, <1>5, <1>6, <1>7, InLess DEF Took

\* A request is written.
LEMMA WritesDo ==
  ASSUME WireOK, OpOK, NEW n \in Names, Writes(n)
  PROVE  /\ op[n].pc = "write" /\ \A m \in Names \ {n} : op'[m] = op[m]
         /\ op'[n].pc \in {"asked", "failed"} /\ op'[n].wire = op[n].wire /\ op'[n].stream = op[n].stream
         /\ op'[n].pc = "failed" => wire' = wire /\ ~Up(op[n].wire)
         /\ op'[n].pc = "asked" => LET w == op[n].wire IN
              /\ \A v \in Wires \ {w} : wire'[v] = wire[v]
              /\ wire[w].st = "up" /\ wire'[w].st = "up"
              /\ wire'[w].answers = wire[w].answers /\ wire'[w].lane = wire[w].lane
              /\ \E q \in Create : /\ q.name = n /\ q.stream = op[n].stream
                                   /\ In(wire'[w].asked) = In(wire[w].asked) \cup {q}
              /\ Distinct(wire[w].asked) /\ (\A x \in In(wire[w].asked) : x.stream # op[n].stream) =>
                   Distinct(wire'[w].asked)
<1>1. op[n].pc = "write" /\ op[n] \in OpType /\ op[n].wire \in Wires /\ op[n].stream \in Streams
  BY DEF Writes, At, OpOK, Placed
<1>2. PICK w \in Wires : w = op[n].wire
  BY <1>1
<1>3. CASE Up(w)
  <2>1. Goes(n, "asked") /\ wire' = [wire EXCEPT ![w].asked = Append(@, [name |-> n, stream |-> op[n].stream])]
    BY <1>2, <1>3 DEF Writes
  <2>2. PICK q \in Create : q = [name |-> n, stream |-> op[n].stream]
    BY <1>1 DEF Create
  <2>3. wire[w] \in WireType /\ wire[w].asked \in Seq(Create)
    BY CarriedIs DEF WireOK
  <2>4. wire' = [wire EXCEPT ![w] = [wire[w] EXCEPT !.asked = Append(@, q)]]
    BY <2>1, <2>2 DEF WireOK
  <2>5. /\ wire'[w].asked = Append(wire[w].asked, q) /\ wire'[w].st = wire[w].st
        /\ wire'[w].answers = wire[w].answers /\ wire'[w].lane = wire[w].lane
        /\ \A v \in Wires \ {w} : wire'[v] = wire[v]
    BY <2>3, <2>4 DEF WireOK, WireType
  <2>6. q.name = n /\ q.stream = op[n].stream
    BY <2>2
  <2>7. /\ op'[n].pc = "asked" /\ op'[n].wire = op[n].wire /\ op'[n].stream = op[n].stream
        /\ \A m \in Names \ {n} : op'[m] = op[m]
    BY <1>1, <2>1 DEF Goes, OpOK, OpType
  <2>8. /\ In(wire'[w].asked) = In(wire[w].asked) \cup {q}
        /\ Distinct(wire[w].asked) /\ (\A x \in In(wire[w].asked) : x.stream # q.stream) => Distinct(wire'[w].asked)
    BY <2>3, <2>5, InMore
  <2>9. wire[w].st = "up"
    BY <1>3 DEF Up
  <2> QED
    BY <1>1, <1>2, <2>5, <2>6, <2>7, <2>8, <2>9
<1>4. CASE ~Up(w)
  <2>1. Goes(n, "failed") /\ wire' = wire
    BY <1>2, <1>4 DEF Writes
  <2>2. /\ op'[n].pc = "failed" /\ op'[n].wire = op[n].wire /\ op'[n].stream = op[n].stream
        /\ \A m \in Names \ {n} : op'[m] = op[m]
    BY <1>1, <2>1 DEF Goes, OpOK, OpType
  <2> QED
    BY <1>1, <1>2, <1>4, <2>1, <2>2
<1> QED
  BY <1>3, <1>4

\* The runner says that a child has ended, if anybody listens.
LEMMA SaysExitDoes ==
  ASSUME WireOK, RunnerOK, NEW c \in Children, SaysExit(c)
  PROVE  /\ child[c].st = "exited" /\ \A d \in Children \ {c} : child'[d] = child[d]
         /\ child'[c].st = "gone" /\ child'[c].lane = 0 /\ child'[c].name = child[c].name
         /\ child'[c].order = child[c].order
         /\ ~Attached(c) => wire' = wire
         /\ Attached(c) => LET w == child[c].lane IN
              /\ w \in Wires /\ \A v \in Wires \ {w} : wire'[v] = wire[v]
              /\ wire'[w].st = wire[w].st /\ wire'[w].asked = wire[w].asked /\ wire'[w].answers = wire[w].answers
              /\ \E e \in Exit : /\ e.name = child[c].name /\ e.stream = child[c].stream
                                 /\ In(wire'[w].lane) = In(wire[w].lane) \cup {e}
<1>1. child[c] \in ChildType /\ child[c].st = "exited" /\ child' = [child EXCEPT ![c] = Gone(c)]
  BY DEF SaysExit, RunnerOK
<1>2. /\ child'[c].st = "gone" /\ child'[c].lane = 0 /\ child'[c].name = child[c].name /\ child'[c].order = child[c].order
      /\ \A d \in Children \ {c} : child'[d] = child[d]
  BY <1>1 DEF Gone, ChildType, RunnerOK
<1>3. CASE Attached(c)
  <2>1. child[c].lane \in Wires /\ child[c].lane # 0
    BY <1>1, <1>3, Bounds DEF Attached, Up, Wires, ChildType
  <2>2. PICK w \in Wires : w = child[c].lane
    BY <2>1
  <2>3. child[c].name \in Names /\ child[c].stream \in Streams
    BY <2>1 DEF RunnerOK
  <2>4. PICK e \in Exit : e = [name |-> child[c].name, stream |-> child[c].stream]
    BY <2>3 DEF Exit
  <2>5. wire[w] \in WireType /\ wire[w].lane \in Seq(Exit)
    BY CarriedIs DEF WireOK
  <2>6. wire' = [wire EXCEPT ![w] = [wire[w] EXCEPT !.lane = Append(@, e)]]
    BY <1>3, <2>2, <2>4 DEF SaysExit, SaysEnd, WireOK
  <2>7. /\ wire'[w].lane = Append(wire[w].lane, e) /\ wire'[w].st = wire[w].st
        /\ wire'[w].asked = wire[w].asked /\ wire'[w].answers = wire[w].answers
        /\ \A v \in Wires \ {w} : wire'[v] = wire[v]
    BY <2>5, <2>6 DEF WireOK, WireType
  <2>8. In(wire'[w].lane) = In(wire[w].lane) \cup {e}
    BY <2>5, <2>7, InMore
  <2>9. e.name = child[c].name /\ e.stream = child[c].stream
    BY <2>4
  <2> QED
    BY <1>1, <1>2, <1>3, <2>2, <2>7, <2>8, <2>9
<1>4. CASE ~Attached(c)
  BY <1>1, <1>2, <1>4 DEF SaysExit
<1> QED
  BY <1>3, <1>4

\* Answers and exits are taken from a connection one by one.
LEMMA TakenDo ==
  ASSUME WireOK, NEW w \in Wires
  PROVE  /\ wire[w].answers # <<>> /\ wire' = [wire EXCEPT ![w].answers = Tail(@)] =>
              /\ Head(wire[w].answers) \in In(wire[w].answers) /\ In(wire'[w].answers) \subseteq In(wire[w].answers)
              /\ \A x \in In(wire[w].answers) : x = Head(wire[w].answers) \/ x \in In(wire'[w].answers)
              /\ wire'[w].st = wire[w].st /\ wire'[w].asked = wire[w].asked /\ wire'[w].lane = wire[w].lane
              /\ \A v \in Wires \ {w} : wire'[v] = wire[v]
         /\ wire[w].lane # <<>> /\ wire' = [wire EXCEPT ![w].lane = Tail(@)] =>
              /\ Head(wire[w].lane) \in In(wire[w].lane) /\ In(wire'[w].lane) \subseteq In(wire[w].lane)
              /\ \A x \in In(wire[w].lane) : x = Head(wire[w].lane) \/ x \in In(wire'[w].lane)
              /\ wire'[w].st = wire[w].st /\ wire'[w].asked = wire[w].asked /\ wire'[w].answers = wire[w].answers
              /\ \A v \in Wires \ {w} : wire'[v] = wire[v]
<1>1. wire[w] \in WireType /\ wire[w].answers \in Seq(Answer) /\ wire[w].lane \in Seq(Exit)
  BY CarriedIs DEF WireOK
<1>2. ASSUME wire[w].answers # <<>>, wire' = [wire EXCEPT ![w].answers = Tail(@)]
      PROVE  /\ wire'[w].answers = Tail(wire[w].answers)
             /\ wire'[w].st = wire[w].st /\ wire'[w].asked = wire[w].asked /\ wire'[w].lane = wire[w].lane
             /\ \A v \in Wires \ {w} : wire'[v] = wire[v]
  BY <1>1, <1>2 DEF WireOK, WireType
<1>3. ASSUME wire[w].lane # <<>>, wire' = [wire EXCEPT ![w].lane = Tail(@)]
      PROVE  /\ wire'[w].lane = Tail(wire[w].lane)
             /\ wire'[w].st = wire[w].st /\ wire'[w].asked = wire[w].asked /\ wire'[w].answers = wire[w].answers
             /\ \A v \in Wires \ {w} : wire'[v] = wire[v]
  BY <1>1, <1>3 DEF WireOK, WireType
<1> QED
  BY <1>1, <1>2, <1>3, InLess

\* A connection closes, and what was asked on it is lost.
LEMMA ClosesDo ==
  ASSUME WireOK, NEW w \in Wires, Closes(w)
  PROVE  /\ wire'[w].st = "closed" /\ wire'[w].asked = <<>> /\ wire'[w].answers = wire[w].answers
         /\ wire'[w].lane = wire[w].lane /\ \A v \in Wires \ {w} : wire'[v] = wire[v]
<1>1. wire[w] \in WireType
  BY DEF WireOK
<1> QED
  BY <1>1 DEF Closes, WireOK, WireType

\* A request is refused, whatever the runner knows.
LEMMA RefusesDoes ==
  ASSUME WireOK, NEW w \in Wires, Refuses(w)
  PROVE  /\ wire[w].st = "up" /\ wire[w].asked # <<>>
         /\ Answers(w, Head(wire[w].asked), 0, {})
         /\ UNCHANGED <<runner, registry, child, slot, sink, session, held, op, restart, history>>
BY DEF Refuses, Up, clientVars

\* A child that speaks to nobody is given the stream that asked for it.
LEMMA AttachesDoes ==
  ASSUME WireOK, RunnerOK, NEW w \in Wires, Attaches(w)
  PROVE  /\ wire[w].st = "up" /\ wire[w].asked # <<>>
         /\ UNCHANGED <<runner, registry, slot, sink, session, held, op, restart, history>>
         /\ LET q == Head(wire[w].asked)
                c == registry[q.name] IN
            /\ c \in Children /\ child[c].st = "running" /\ ~Attached(c) /\ q \in Create
            /\ \A d \in Children \ {c} : child'[d] = child[d]
            /\ child'[c].name = child[c].name /\ child'[c].order = child[c].order
            /\ child'[c].lane = w /\ child'[c].stream = q.stream
            /\ \E is \in SUBSET {"running"} :
                 /\ Answers(w, q, c, is)
                 /\ child'[c].st = "exited" \/ (child'[c].st = "running" /\ "running" \in is)
<1> DEFINE q == Head(wire[w].asked)
<1>1. wire[w].st = "up" /\ wire[w].asked # <<>>
      /\ UNCHANGED <<runner, registry, slot, sink, session, held, op, restart, history>>
  BY DEF Attaches, Up, clientVars
<1>2. q \in Create /\ q.name \in Names
  BY <1>1, CarriedIs, HeadIs DEF Create
<1>3. registry[q.name] \in Children /\ child[registry[q.name]].st = "running" /\ ~Attached(registry[q.name])
  <2>1. Runs(q.name) /\ ~Attached(registry[q.name])
    BY DEF Attaches
  <2>2. registry[q.name] \in 0..MaxChildren
    BY <1>2 DEF RunnerOK
  <2>3. registry[q.name] # 0 /\ child[registry[q.name]].st = "running"
    BY <2>1 DEF Runs
  <2> QED
    BY <2>1, <2>2, <2>3, Bounds DEF Children
<1>4. PICK c \in Children : c = registry[q.name]
  BY <1>3
<1>5. PICK is \in SUBSET {"running"} :
        /\ child' = [child EXCEPT ![c].lane = w, ![c].stream = q.stream,
                                  ![c].st = IF is # {} THEN @ ELSE "exited"]
        /\ Answers(w, q, c, is)
  BY <1>4 DEF Attaches
<1>6. PICK st \in {"running", "exited"} :
        /\ st = "exited" \/ (st = "running" /\ "running" \in is)
        /\ child' = [child EXCEPT ![c] = [child[c] EXCEPT !.lane = w, !.stream = q.stream, !.st = st]]
  <2>1. CASE is = {}
    BY <1>5, <2>1 DEF RunnerOK
  <2>2. CASE is # {}
    BY <1>3, <1>4, <1>5, <2>2 DEF RunnerOK
  <2> QED
    BY <2>1, <2>2
<1>7. child[c] \in ChildType
  BY DEF RunnerOK
<1>8. /\ child'[c].name = child[c].name /\ child'[c].order = child[c].order
      /\ child'[c].lane = w /\ child'[c].stream = q.stream /\ child'[c].st = st
      /\ \A d \in Children \ {c} : child'[d] = child[d]
  BY <1>6, <1>7 DEF RunnerOK, ChildType
<1>9. \E i \in SUBSET {"running"} :
        /\ Answers(w, q, c, i)
        /\ child'[c].st = "exited" \/ (child'[c].st = "running" /\ "running" \in i)
  BY <1>5, <1>6, <1>8
<1> QED
  BY <1>1, <1>2, <1>3, <1>4, <1>8, <1>9

\* The next child is one nobody knows.
BornInOrder == \E k \in 0..MaxChildren : \A c \in Children : child[c].st # "unborn" <=> c <= k
LEMMA NextChildIs ==
  ASSUME BornInOrder, NextChild \in Children
  PROVE  /\ child[NextChild].st = "unborn"
         /\ \E k \in 0..MaxChildren : \A c \in Children : (child[c].st # "unborn" \/ c = NextChild) <=> c <= k
<1>1. PICK k \in 0..MaxChildren : \A c \in Children : child[c].st # "unborn" <=> c <= k
  BY DEF BornInOrder
<1>2. {c \in Children : child[c].st # "unborn"} = 1..k
  BY <1>1, Bounds DEF Children
<1>3. Cardinality(1..k) = k
  <2>1. k \in Nat /\ 1 \in Int
    BY Bounds
  <2>2. Cardinality(1..k) = IF 1 > k THEN 0 ELSE k - 1 + 1
    BY <2>1, FS_Interval
  <2> QED
    BY <2>1, <2>2
<1>4. NextChild = k + 1
  <2>1. NextChild = 1 + Cardinality(1..k)
    BY <1>2, Zenon DEF NextChild
  <2> QED
    BY <1>3, <2>1, Bounds
<1>5. k + 1 \in Children /\ k + 1 \in 0..MaxChildren
  BY <1>4, Bounds
<1>6. \A c \in Children : (child[c].st # "unborn" \/ c = k + 1) <=> c <= k + 1
  BY <1>1, Bounds DEF Children
<1>7. child[k + 1].st = "unborn"
  BY <1>1, <1>5
<1> QED
  BY <1>4, <1>5, <1>6, <1>7

\* A child is begun for the stream that asked.
LEMMA SpawnsDoes ==
  ASSUME WireOK, RunnerOK, RestOK, BornInOrder, NEW w \in Wires, Spawns(w)
  PROVE  /\ wire[w].st = "up" /\ wire[w].asked # <<>> /\ runner = "serving"
         /\ UNCHANGED <<runner, slot, sink, session, held, op, restart>>
         /\ history'.overdue = history.overdue /\ history'.crossed = history.crossed
         /\ LET q == Head(wire[w].asked)
                c == NextChild IN
            /\ c \in Children /\ child[c].st = "unborn" /\ ~Runs(q.name) /\ q \in Create
            /\ \A d \in Children \ {c} : child'[d] = child[d]
            /\ child'[c].name = q.name /\ child'[c].lane = w /\ child'[c].stream = q.stream
            /\ registry'[q.name] = c /\ \A n \in Names \ {q.name} : registry'[n] = registry[n]
            /\ \E is \in SUBSET {"running", "begun"} :
                 /\ Answers(w, q, c, is)
                 /\ child'[c].st = "exited" \/ (child'[c].st = "running" /\ "running" \in is)
<1> DEFINE q == Head(wire[w].asked)
<1>1. wire[w].st = "up" /\ wire[w].asked # <<>> /\ runner = "serving"
      /\ UNCHANGED <<runner, slot, sink, session, held, op, restart>>
  BY DEF Spawns, Up, clientVars
<1>2. q \in Create /\ q.name \in Names
  BY <1>1, CarriedIs, HeadIs DEF Create
<1>3. PICK c \in Children : c = NextChild
  BY DEF Spawns
<1>4. child[c].st = "unborn" /\ ~Runs(q.name) /\ child[c] \in ChildType
  BY <1>3, NextChildIs DEF Spawns, RunnerOK
<1>5. PICK is \in SUBSET {"running"} :
        /\ child' = [child EXCEPT ![c].name = q.name, ![c].lane = w, ![c].stream = q.stream,
                                  ![c].st = IF is # {} THEN "running" ELSE "exited"]
        /\ Answers(w, q, c, is \cup {"begun"})
        /\ registry' = [registry EXCEPT ![q.name] = c]
        /\ history' = [history EXCEPT !.young = @ \cup {c}]
  BY <1>3 DEF Spawns
<1>6. PICK st \in {"running", "exited"} :
        /\ st = "exited" \/ (st = "running" /\ "running" \in is)
        /\ child' = [child EXCEPT ![c] = [child[c] EXCEPT !.name = q.name, !.lane = w, !.stream = q.stream, !.st = st]]
  <2>1. CASE is = {}
    BY <1>5, <2>1 DEF RunnerOK
  <2>2. CASE is # {}
    BY <1>5, <2>2 DEF RunnerOK
  <2> QED
    BY <2>1, <2>2
<1>7. /\ child'[c].name = q.name
      /\ child'[c].lane = w /\ child'[c].stream = q.stream /\ child'[c].st = st
      /\ \A d \in Children \ {c} : child'[d] = child[d]
  BY <1>4, <1>6 DEF RunnerOK, ChildType
<1>8. registry'[q.name] = c /\ \A n \in Names \ {q.name} : registry'[n] = registry[n]
  BY <1>2, <1>5 DEF RunnerOK
<1>9. PICK i \in SUBSET {"running", "begun"} : i = is \cup {"begun"}
  OBVIOUS
<1>10. \E j \in SUBSET {"running", "begun"} :
         /\ Answers(w, q, c, j)
         /\ child'[c].st = "exited" \/ (child'[c].st = "running" /\ "running" \in j)
  BY <1>5, <1>6, <1>7, <1>9
<1>11. history'.overdue = history.overdue /\ history'.crossed = history.crossed
  BY <1>5 DEF RestOK
<1> QED
  BY <1>1, <1>2, <1>3, <1>4, <1>7, <1>8, <1>10, <1>11

\* Whatever the runner answers, it answers the oldest request.
LEMMA AnsweredIs ==
  ASSUME WireOK, RunnerOK, RestOK, BornInOrder, NEW w \in Wires, Refuses(w) \/ Attaches(w) \/ Spawns(w)
  PROVE  /\ wire[w].asked # <<>> /\ UNCHANGED <<slot, sink, session, held, op>>
         /\ \E c \in 0..MaxChildren, is \in SUBSET {"begun", "running"} : Answers(w, Head(wire[w].asked), c, is)
<1>1. CASE Refuses(w)
  BY <1>1, RefusesDoes, Bounds
<1>2. CASE Attaches(w)
  <2> DEFINE q == Head(wire[w].asked)
  <2>1. wire[w].asked # <<>> /\ UNCHANGED <<slot, sink, session, held, op>> /\ registry[q.name] \in Children
    BY <1>2, AttachesDoes
  <2>2. \E is \in SUBSET {"running"} : Answers(w, q, registry[q.name], is)
    BY <1>2, AttachesDoes
  <2>3. registry[q.name] \in 0..MaxChildren
    BY <2>1, Bounds
  <2> QED
    BY <2>1, <2>2, <2>3
<1>3. CASE Spawns(w)
  BY <1>3, SpawnsDoes, Bounds
<1> QED
  BY <1>1, <1>2, <1>3

\* A connection that stays as it is carries nothing new.
LEMMA FadesAt ==
  ASSUME \A w \in Wires : wire'[w].asked \in {wire[w].asked, <<>>} /\ wire'[w].answers \in {wire[w].answers, <<>>}
                          /\ wire'[w].lane \in {wire[w].lane, <<>>}
  PROVE  WireFades
BY InNone DEF WireFades

\* The end of a connection, and of what waits on it.
LEMMA WireEndsDoes ==
  ASSUME WireOK, ClientOK, OpOK, NEW w \in Wires, WireEnds(w)
  PROVE  /\ wire[w].st = "closed" /\ wire'[w].st = "over" /\ \A v \in Wires \ {w} : wire'[v] = wire[v]
         /\ wire'[w].asked = <<>> /\ wire'[w].answers = <<>> /\ wire'[w].lane = <<>>
         /\ \A n \in Names : sink'[w][n] = 0 /\ \A v \in Wires \ {w} : sink'[v][n] = sink[v][n]
         /\ \A n \in Names : \/ op'[n] = op[n] /\ ~(op[n].pc = "asked" /\ op[n].wire = w)
                             \/ /\ op[n].pc = "asked" /\ op[n].wire = w /\ op'[n].pc = "failed"
                                /\ op'[n].stream = op[n].stream /\ op'[n].wire = w
<1>1. /\ wire[w].st = "closed" /\ wire'[w].st = "over" /\ \A v \in Wires \ {w} : wire'[v] = wire[v]
      /\ wire'[w].asked = <<>> /\ wire'[w].answers = <<>> /\ wire'[w].lane = <<>>
  BY DEF WireEnds, WireOK
<1>2. \A n \in Names : sink'[w][n] = 0 /\ \A v \in Wires \ {w} : sink'[v][n] = sink[v][n]
  BY DEF WireEnds, ClientOK
<1>3. ASSUME NEW n \in Names
      PROVE  \/ op'[n] = op[n] /\ ~(op[n].pc = "asked" /\ op[n].wire = w)
             \/ /\ op[n].pc = "asked" /\ op[n].wire = w /\ op'[n].pc = "failed"
                /\ op'[n].stream = op[n].stream /\ op'[n].wire = w
  <2>1. op[n] \in OpType
    BY DEF OpOK
  <2>2. CASE op[n].pc = "asked" /\ op[n].wire = w
    <3>1. op'[n] = [op[n] EXCEPT !.pc = "failed"]
      BY <2>2 DEF WireEnds, At
    <3> QED
      BY <2>1, <2>2, <3>1 DEF OpType
  <2>3. CASE ~(op[n].pc = "asked" /\ op[n].wire = w)
    BY <2>3 DEF WireEnds, At
  <2> QED
    BY <2>2, <2>3
<1> QED
  BY <1>1, <1>2, <1>3

\* A connection that is taken was up, or it is the next one and the last has ended.
LEMMA TakesWireDoes ==
  ASSUME WireOK, OpOK, ClientOK, MadeInOrder, NEW n \in Names, TakesWire(n)
  PROVE  /\ op[n].pc = "wire" /\ op'[n].pc = "register" /\ \A m \in Names \ {n} : op'[m] = op[m]
         /\ op'[n].wire = slot' /\ slot' \in Wires
         /\ UNCHANGED <<sink, session, held, restart, history>>
         /\ \/ Alive(slot) /\ UNCHANGED <<wire, slot, child, registry, runner>>
            \/ /\ ~Alive(slot) /\ wire[slot'].st = "unmade" /\ wire'[slot'].st = "up"
               /\ wire'[slot'].asked = wire[slot'].asked /\ wire'[slot'].answers = wire[slot'].answers
               /\ wire'[slot'].lane = wire[slot'].lane /\ \A v \in Wires \ {slot'} : wire'[v] = wire[v]
               /\ \/ UNCHANGED <<child, registry, runner>>
                  \/ runner = "none" /\ ServesFresh
<1>1. UNCHANGED <<sink, session, held, restart, history>> /\ op[n].pc = "wire" /\ op[n] \in OpType
  BY DEF TakesWire, At, OpOK
<1>2. CASE Alive(slot) /\ op' = [op EXCEPT ![n].pc = "register", ![n].wire = slot]
           /\ UNCHANGED <<runner, registry, child, wire, slot>>
  <2>1. slot \in Wires
    BY <1>2, Bounds DEF Alive, ClientOK, Wires
  <2>2. op'[n].pc = "register" /\ op'[n].wire = slot /\ \A m \in Names \ {n} : op'[m] = op[m]
    BY <1>1, <1>2 DEF OpOK, OpType
  <2> QED
    BY <1>1, <1>2, <2>1, <2>2
<1>3. CASE /\ ~Alive(slot) /\ NextWire \in Wires
           /\ IF runner = "none" THEN ServesFresh ELSE UNCHANGED <<runner, registry, child>>
           /\ slot' = NextWire /\ wire' = [wire EXCEPT ![NextWire].st = "up"]
           /\ op' = [op EXCEPT ![n].pc = "register", ![n].wire = NextWire]
  <2>1. PICK w \in Wires : w = NextWire
    BY <1>3
  <2>2. wire[w] \in WireType /\ wire[w].st = "unmade"
    BY <1>3, <2>1, NextWireIs DEF WireOK
  <2>3. op'[n].pc = "register" /\ op'[n].wire = w /\ \A m \in Names \ {n} : op'[m] = op[m]
    BY <1>1, <1>3, <2>1 DEF OpOK, OpType
  <2>4. /\ wire'[w].st = "up" /\ wire'[w].asked = wire[w].asked /\ wire'[w].answers = wire[w].answers
        /\ wire'[w].lane = wire[w].lane /\ \A v \in Wires \ {w} : wire'[v] = wire[v]
    BY <1>3, <2>1, <2>2 DEF WireOK, WireType
  <2>5. UNCHANGED <<child, registry, runner>> \/ (runner = "none" /\ ServesFresh)
    BY <1>3
  <2> QED
    BY <1>1, <1>3, <2>1, <2>2, <2>3, <2>4, <2>5
<1> QED
  BY <1>1, <1>2, <1>3 DEF TakesWire

\* What says something new on a connection: a request, its answer, or an exit.
LEMMA WireMoves ==
  ASSUME WireOK, OpOK, ClientOK, MadeInOrder, Next
  PROVE  \/ WireFades
         \/ \E n \in Names : Writes(n)
         \/ \E w \in Wires : Refuses(w) \/ Attaches(w) \/ Spawns(w)
         \/ \E c \in Children : SaysExit(c)
<1>1. UNCHANGED wire => WireFades
  BY FadesAt
<1>2. ASSUME NEW n \in Names, Open(n) \/ Close(n)
      PROVE  WireFades \/ Writes(n)
  <2>1. CASE TakesWire(n)
    BY <2>1, TakesWireDoes, FadesAt
  <2>2. CASE ~TakesWire(n) /\ ~Writes(n)
    <3>1. UNCHANGED wire
      BY <1>2, <2>2 DEF Open, OpenBegins, PassesDoor, WaitsNoLonger, FindsNoRunner, Registers, GivesUp, OpenFails, Opened,
           Close, CloseBegins, CloseConnects, CloseKills, CloseEnds, CloseGivesUp
    <3> QED
      BY <1>1, <3>1
  <2> QED
    BY <2>1, <2>2
<1>3. ASSUME NEW w \in Wires, Route(w)
      PROVE  WireFades
  <2>1. CASE RoutesAnswer(w)
    BY <2>1, TakenDo, InLess, CarriedIs DEF RoutesAnswer, WireFades
  <2>2. CASE RoutesExit(w)
    BY <2>2, TakenDo, InLess, CarriedIs DEF RoutesExit, WireFades
  <2>3. CASE WireEnds(w)
    BY <2>3, WireEndsDoes, FadesAt
  <2> QED
    BY <1>3, <2>1, <2>2, <2>3 DEF Route
<1>4. ASSUME DoorOpens \/ Restart \/ \E s \in Streams : Reader(s)
      PROVE  UNCHANGED wire
  BY <1>4 DEF DoorOpens, Restart, RestartBegins, RestartStops, RestartServes, RestartGivesUp, Reader, Reads, FindsEnd, LetsGo
<1>5. ASSUME Run
      PROVE  \/ WireFades
             \/ \E w \in Wires : Refuses(w) \/ Attaches(w) \/ Spawns(w)
             \/ \E c \in Children : SaysExit(c)
  <2>1. ASSUME NEW c \in Children, Exits(c) \/ OrphanEnds(c)
        PROVE  UNCHANGED wire
    BY <2>1 DEF Exits, OrphanEnds
  <2>2. ASSUME ConnectionDrops \/ RunnerExits \/ RunnerCrashes
        PROVE  WireFades
    <3>1. UNCHANGED wire \/ (Up(slot) /\ Closes(slot))
      BY <2>2 DEF ConnectionDrops, RunnerExits, RunnerCrashes, RunnerGone
    <3>2. ASSUME Up(slot), Closes(slot)
          PROVE  WireFades
      <4>1. PICK w \in Wires : w = slot
        BY <3>2, Bounds DEF Up, ClientOK, Wires
      <4> QED
        BY <3>2, <4>1, ClosesDo, FadesAt
    <3> QED
      BY <1>1, <3>1, <3>2
  <2> QED
    BY <1>1, <1>5, <2>1, <2>2 DEF Run
<1> QED
  BY <1>1, <1>2, <1>3, <1>4, <1>5 DEF Next

\* A connection is made when the last one has ended, closes while it is the one in
\* use, and is over after that.
LEMMA WireStates ==
  ASSUME RunnerOK, RestOK, BornInOrder, WireOK, OpOK, ClientOK, MadeInOrder, Next
  PROVE  /\ \A w \in Wires : \/ wire'[w].st = wire[w].st
                             \/ wire[w].st = "unmade" /\ wire'[w].st = "up" /\ slot' = w
                             \/ wire[w].st = "up" /\ wire'[w].st = "closed" /\ slot = w
                             \/ wire[w].st = "closed" /\ wire'[w].st = "over" /\ WireEnds(w)
         /\ slot' = slot \/ (~Alive(slot) /\ \E n \in Names : TakesWire(n))
<1>1. ASSUME NEW n \in Names, Open(n) \/ Close(n)
      PROVE  /\ \A w \in Wires : wire'[w].st = wire[w].st \/ (wire[w].st = "unmade" /\ wire'[w].st = "up" /\ slot' = w)
             /\ slot' = slot \/ (~Alive(slot) /\ TakesWire(n))
  <2>1. CASE TakesWire(n)
    BY <2>1, TakesWireDoes
  <2>2. CASE Writes(n)
    <3>1. \A w \in Wires : wire'[w].st = wire[w].st
      BY <2>2, WritesDo
    <3> QED
      BY <2>2, <3>1 DEF Writes, clientVars
  <2>3. CASE ~TakesWire(n) /\ ~Writes(n)
    BY <1>1, <2>3 DEF Open, OpenBegins, PassesDoor, WaitsNoLonger, FindsNoRunner, Registers, GivesUp, OpenFails, Opened,
           Close, CloseBegins, CloseConnects, CloseKills, CloseEnds, CloseGivesUp, clientVars
  <2> QED
    BY <2>1, <2>2, <2>3
<1>2. ASSUME NEW w \in Wires, Route(w)
      PROVE  /\ \A v \in Wires : \/ wire'[v].st = wire[v].st
                                 \/ wire[v].st = "closed" /\ wire'[v].st = "over" /\ WireEnds(v)
             /\ slot' = slot
  <2>1. CASE RoutesAnswer(w)
    BY <2>1, TakenDo DEF RoutesAnswer, clientVars
  <2>2. CASE RoutesExit(w)
    BY <2>2, TakenDo DEF RoutesExit
  <2>3. CASE WireEnds(w)
    <3>1. wire[w].st = "closed" /\ wire'[w].st = "over" /\ \A v \in Wires \ {w} : wire'[v] = wire[v]
      BY <2>3, WireEndsDoes
    <3>2. slot' = slot
      BY <2>3 DEF WireEnds
    <3> QED
      BY <2>3, <3>1, <3>2
  <2> QED
    BY <1>2, <2>1, <2>2, <2>3 DEF Route
<1>3. ASSUME DoorOpens \/ Restart \/ \E s \in Streams : Reader(s)
      PROVE  UNCHANGED wire /\ slot' = slot
  BY <1>3 DEF DoorOpens, Restart, RestartBegins, RestartStops, RestartServes, RestartGivesUp, Reader, Reads, FindsEnd, LetsGo,
       clientVars
<1>4. ASSUME Run
      PROVE  /\ \A w \in Wires : \/ wire'[w].st = wire[w].st
                                 \/ wire[w].st = "up" /\ wire'[w].st = "closed" /\ slot = w
             /\ slot' = slot
  <2>1. ASSUME NEW w \in Wires, Refuses(w) \/ Attaches(w) \/ Spawns(w)
        PROVE  (\A v \in Wires : wire'[v].st = wire[v].st) /\ slot' = slot
    BY <2>1, AnsweredIs, AnswersDo DEF Took
  <2>2. ASSUME NEW c \in Children, Exits(c) \/ OrphanEnds(c)
        PROVE  UNCHANGED wire /\ slot' = slot
    BY <2>2 DEF Exits, OrphanEnds, clientVars
  <2>3. ASSUME NEW c \in Children, SaysExit(c)
        PROVE  (\A v \in Wires : wire'[v].st = wire[v].st) /\ slot' = slot
    <3>1. \A v \in Wires : wire'[v].st = wire[v].st
      BY <2>3, SaysExitDoes
    <3> QED
      BY <2>3, <3>1 DEF SaysExit, clientVars
  <2>4. ASSUME ConnectionDrops \/ RunnerExits \/ RunnerCrashes
        PROVE  /\ \A w \in Wires : wire'[w].st = wire[w].st \/ (wire[w].st = "up" /\ wire'[w].st = "closed" /\ slot = w)
               /\ slot' = slot
    <3>1. slot' = slot /\ (UNCHANGED wire \/ (Up(slot) /\ Closes(slot)))
      BY <2>4 DEF ConnectionDrops, RunnerExits, RunnerCrashes, RunnerGone, clientVars
    <3>2. ASSUME Up(slot), Closes(slot)
          PROVE  \A w \in Wires : wire'[w].st = wire[w].st \/ (wire[w].st = "up" /\ wire'[w].st = "closed" /\ slot = w)
      <4>1. PICK w \in Wires : w = slot
        BY <3>2, Bounds DEF Up, ClientOK, Wires
      <4> QED
        BY <3>2, <4>1, ClosesDo DEF Up
    <3> QED
      BY <3>1, <3>2
  <2> QED
    BY <1>4, <2>1, <2>2, <2>3, <2>4 DEF Run
<1> QED
  BY <1>1, <1>2, <1>3, <1>4 DEF Next

\* What a step makes of a child that is not attached or begun.
Fading(c) ==
  \/ child'[c] = child[c]
  \/ child'[c] = Gone(c) /\ child[c].st # "unborn"
  \/ child'[c] = Ordered(c)
  \/ child[c].st = "running" /\ child'[c] = [child[c] EXCEPT !.st = "exited"]
  \/ child[c].st = "running" /\ child'[c] = [child[c] EXCEPT !.st = "orphan"]
  \/ child'[c] = [child[c] EXCEPT !.lane = 0]
LEMMA FadesTo == ASSUME RunnerOK, \A c \in Children : Fading(c) PROVE ChildFades
<1> SUFFICES ASSUME NEW c \in Children
             PROVE  /\ child'[c].name = child[c].name /\ (child'[c].st = "unborn" <=> child[c].st = "unborn")
                    /\ child[c].st = "gone" => child'[c].st = "gone"
                    /\ child'[c].st = "running" => child[c].st = "running"
                    /\ child'[c].lane # 0 => child'[c].lane = child[c].lane /\ child'[c].stream = child[c].stream
                    /\ child'[c].order = child[c].order \/ child[c].st = "running"
  BY DEF ChildFades
<1>1. child[c] \in ChildType
  BY DEF RunnerOK
<1>2. CASE child'[c] = Gone(c) /\ child[c].st # "unborn"
  BY <1>1, <1>2 DEF Gone, ChildType
<1>3. CASE child'[c] = Ordered(c)
  BY <1>1, <1>3 DEF Ordered, ChildType
<1>4. CASE child[c].st = "running" /\ child'[c] = [child[c] EXCEPT !.st = "exited"]
  BY <1>1, <1>4 DEF ChildType
<1>5. CASE child[c].st = "running" /\ child'[c] = [child[c] EXCEPT !.st = "orphan"]
  BY <1>1, <1>5 DEF ChildType
<1>6. CASE child'[c] = [child[c] EXCEPT !.lane = 0]
  BY <1>1, <1>6 DEF ChildType
<1> QED
  BY <1>2, <1>3, <1>4, <1>5, <1>6 DEF Fading

\* Only a request that is answered gives a child a lane, or makes one.
LEMMA ChildMoves ==
  ASSUME RunnerOK, Next
  PROVE  ChildFades \/ \E w \in Wires : Attaches(w) \/ Spawns(w)
<1>1. UNCHANGED child => ChildFades
  <2>1. UNCHANGED child => \A c \in Children : Fading(c)
    BY DEF Fading
  <2> QED
    BY <2>1, FadesTo
<1>2. ServesFresh => ChildFades
  <2>1. ServesFresh => \A c \in Children : Fading(c)
    BY DEF ServesFresh, Fading
  <2> QED
    BY <2>1, FadesTo
<1>3. ASSUME NEW n \in Names, Open(n)
      PROVE  ChildFades
  <2>1. UNCHANGED child \/ ServesFresh
    BY <1>3 DEF Open, OpenBegins, PassesDoor, WaitsNoLonger, TakesWire, FindsNoRunner, Registers, Writes, GivesUp, OpenFails,
         Opened, runnerVars
  <2> QED
    BY <1>1, <1>2, <2>1
<1>4. ASSUME NEW n \in Names, Close(n)
      PROVE  ChildFades
  <2>1. CASE CloseKills(n)
    <3>1. \A c \in Children : Fading(c)
      <4>1. child' = child \/ child' = [child EXCEPT ![registry[n]] = Ordered(registry[n])]
        BY <2>1 DEF CloseKills, Fading
      <4> QED
        BY <4>1 DEF RunnerOK, Fading
    <3> QED
      BY <3>1, FadesTo
  <2>2. CASE ~CloseKills(n)
    <3>1. UNCHANGED child
      BY <1>4, <2>2 DEF Close, CloseBegins, CloseConnects, CloseEnds, CloseGivesUp, runnerVars
    <3> QED
      BY <1>1, <3>1
  <2> QED
    BY <2>1, <2>2
<1>5. ASSUME DoorOpens \/ (\E w \in Wires : Route(w)) \/ \E s \in Streams : Reader(s)
      PROVE  UNCHANGED child
  BY <1>5 DEF DoorOpens, Route, RoutesAnswer, RoutesExit, WireEnds, Reader, Reads, FindsEnd, LetsGo, runnerVars
<1>6. ASSUME Restart
      PROVE  ChildFades
  <2>1. CASE RestartStops
    <3>1. \A c \in Children : Fading(c)
      BY <2>1 DEF RestartStops, Fading
    <3> QED
      BY <3>1, FadesTo
  <2>2. CASE ~RestartStops
    <3>1. UNCHANGED child \/ ServesFresh
      BY <1>6, <2>2 DEF Restart, RestartBegins, RestartServes, RestartGivesUp, runnerVars
    <3> QED
      BY <1>1, <1>2, <3>1
  <2> QED
    BY <2>1, <2>2
<1>7. ASSUME NEW c \in Children, Exits(c) \/ SaysExit(c) \/ OrphanEnds(c)
      PROVE  ChildFades
  <2>1. CASE Exits(c)
    <3>1. \A d \in Children : Fading(d)
      BY <2>1 DEF Exits, RunnerOK, Fading
    <3> QED
      BY <3>1, FadesTo
  <2>2. CASE SaysExit(c) \/ OrphanEnds(c)
    <3>1. \A d \in Children : Fading(d)
      BY <2>2 DEF SaysExit, OrphanEnds, RunnerOK, Fading
    <3> QED
      BY <3>1, FadesTo
  <2> QED
    BY <1>7, <2>1, <2>2
<1>8. ASSUME ConnectionDrops
      PROVE  ChildFades
  <2>1. \A c \in Children : Fading(c)
    BY <1>8 DEF ConnectionDrops, Fading
  <2> QED
    BY <2>1, FadesTo
<1>9. ASSUME RunnerExits
      PROVE  ChildFades
  <2>1. \A c \in Children : Fading(c)
    BY <1>9 DEF RunnerExits, Fading
  <2> QED
    BY <2>1, FadesTo
<1>10. ASSUME RunnerCrashes
       PROVE  ChildFades
  <2>1. \A c \in Children : Fading(c)
    BY <1>10 DEF RunnerCrashes, Fading
  <2> QED
    BY <2>1, FadesTo
<1>11. ASSUME NEW w \in Wires, Refuses(w)
       PROVE  UNCHANGED child
  BY <1>11 DEF Refuses
<1> QED
  BY <1>1, <1>3, <1>4, <1>5, <1>6, <1>7, <1>8, <1>9, <1>10, <1>11 DEF Next, Run

\* A stream nobody was told of yet.
Unused(s) == /\ session[s].reader = "none" /\ session[s].child = 0 /\ session[s].inbox = <<>> /\ session[s].end = "none"

\* A stream is registered for an open that has none yet.
LEMMA RegistersDoes ==
  ASSUME ClientOK, OpOK, OpenedInOrder, \A s \in Streams : session[s].name = "none" => Unused(s),
         NEW n \in Names, Registers(n)
  PROVE  /\ op[n].pc = "register" /\ op'[n].pc = "write" /\ op'[n].wire = op[n].wire /\ op[n].wire \in Wires
         /\ \A m \in Names \ {n} : op'[m] = op[m]
         /\ UNCHANGED <<runner, registry, child, wire, slot, held, restart, history>>
         /\ LET s == NextStream IN
            /\ s \in Streams /\ op'[n].stream = s /\ session[s].name = "none"
            /\ session'[s].name = n /\ session'[s].wire = op[n].wire /\ session'[s].reader = "none"
            /\ session'[s].child = 0 /\ session'[s].inbox = <<>> /\ session'[s].end = "none"
            /\ \A t \in Streams \ {s} : session'[t] = session[t]
            /\ sink'[op[n].wire][n] = s
            /\ \A w \in Wires, m \in Names : w # op[n].wire \/ m # n => sink'[w][m] = sink[w][m]
<1>1. /\ op[n].pc = "register" /\ op[n] \in OpType /\ op[n].wire \in Wires
      /\ UNCHANGED <<runner, registry, child, wire, slot, held, restart, history>>
  BY DEF Registers, At, OpOK, Placed, runnerVars
<1>2. PICK s \in Streams : s = NextStream
  BY DEF Registers
<1>3. session[s].name = "none" /\ session[s] \in SessionType /\ Unused(s)
  BY <1>2, NextStreamIs DEF ClientOK
<1>4. session' = [session EXCEPT ![s] = [session[s] EXCEPT !.name = n, !.wire = op[n].wire]]
  BY <1>2 DEF Registers, ClientOK
<1>5. /\ session'[s].name = n /\ session'[s].wire = op[n].wire /\ session'[s].reader = "none"
      /\ session'[s].child = 0 /\ session'[s].inbox = <<>> /\ session'[s].end = "none"
      /\ \A t \in Streams \ {s} : session'[t] = session[t]
  BY <1>3, <1>4 DEF ClientOK, SessionType, Unused
<1>6. /\ sink'[op[n].wire][n] = s
      /\ \A w \in Wires, m \in Names : w # op[n].wire \/ m # n => sink'[w][m] = sink[w][m]
  BY <1>1, <1>2 DEF Registers, ClientOK
<1>7. /\ op'[n].pc = "write" /\ op'[n].wire = op[n].wire /\ op'[n].stream = s
      /\ \A m \in Names \ {n} : op'[m] = op[m]
  BY <1>1, <1>2 DEF Registers, OpOK, OpType
<1> QED
  BY <1>1, <1>2, <1>3, <1>5, <1>6, <1>7

\* A session record of which only other fields change.
LEMMA StreamStays ==
  ASSUME ClientOK, NEW s \in Streams
  PROVE  /\ \A x : LET to == [session[s] EXCEPT !.marks = x] IN
              /\ to.name = session[s].name /\ to.wire = session[s].wire /\ to.child = session[s].child
              /\ to.reader = session[s].reader /\ to.inbox = session[s].inbox /\ to.end = session[s].end /\ to.marks = x
         /\ \A x : LET to == [session[s] EXCEPT !.inbox = x] IN
              /\ to.name = session[s].name /\ to.wire = session[s].wire /\ to.child = session[s].child
              /\ to.reader = session[s].reader /\ to.marks = session[s].marks /\ to.end = session[s].end /\ to.inbox = x
         /\ \A x, y : LET to == [session[s] EXCEPT !.inbox = <<>>, !.reader = x, !.end = y] IN
              /\ to.name = session[s].name /\ to.wire = session[s].wire /\ to.child = session[s].child
              /\ to.reader = x /\ to.marks = session[s].marks /\ to.end = y /\ to.inbox = <<>>
         /\ \A x, y : LET to == [session[s] EXCEPT !.reader = x, !.end = y] IN
              /\ to.name = session[s].name /\ to.wire = session[s].wire /\ to.child = session[s].child
              /\ to.reader = x /\ to.marks = session[s].marks /\ to.end = y /\ to.inbox = session[s].inbox
         /\ \A x, y : LET to == [session[s] EXCEPT !.reader = "reading", !.child = x, !.marks = y] IN
              /\ to.name = session[s].name /\ to.wire = session[s].wire /\ to.child = x
              /\ to.reader = "reading" /\ to.marks = y /\ to.end = session[s].end /\ to.inbox = session[s].inbox
         /\ LET to == Dropped(s) IN
              /\ to.name = session[s].name /\ to.wire = session[s].wire /\ to.child = 0 /\ to.end = "none"
              /\ to.reader = "done" /\ to.marks = {} /\ to.inbox = <<>>
<1>1. session[s] \in SessionType
  BY DEF ClientOK
<1> QED
  BY <1>1 DEF SessionType, Dropped, NoStream

\* An open that failed lets its stream go, and what it had routed.
LEMMA OpenFailsDoes ==
  ASSUME ClientOK, OpOK, NEW n \in Names, OpenFails(n)
  PROVE  /\ op[n].pc = "failed" /\ op'[n].pc = "idle" /\ \A m \in Names \ {n} : op'[m] = op[m]
         /\ UNCHANGED <<runner, registry, child, wire, slot, held, restart, history>>
         /\ op[n].stream \in Streams /\ op[n].wire \in Wires
         /\ LET s == op[n].stream IN
            /\ session'[s].name = session[s].name /\ session'[s].wire = session[s].wire
            /\ session'[s].reader = "done" /\ session'[s].child = 0 /\ session'[s].inbox = <<>>
            /\ session'[s].end = "none" /\ session'[s].marks = {}
            /\ \A t \in Streams \ {s} : session'[t] = session[t]
         /\ sink'[op[n].wire][n] = 0
         /\ \A w \in Wires, m \in Names : w # op[n].wire \/ m # n => sink'[w][m] = sink[w][m]
<1>1. /\ op[n].pc = "failed" /\ op[n].wire \in Wires /\ op[n].stream \in Streams
      /\ UNCHANGED <<runner, registry, child, wire, slot, held, restart, history>>
  BY DEF OpenFails, At, OpOK, Placed, runnerVars
<1>2. op'[n].pc = "idle" /\ \A m \in Names \ {n} : op'[m] = op[m]
  BY DEF OpenFails, Returns, NoOp, OpOK
<1>3. session'[op[n].stream] = Dropped(op[n].stream) /\ \A t \in Streams \ {op[n].stream} : session'[t] = session[t]
  BY <1>1 DEF OpenFails, ClientOK
<1>4. /\ sink'[op[n].wire][n] = 0
      /\ \A w \in Wires, m \in Names : w # op[n].wire \/ m # n => sink'[w][m] = sink[w][m]
  BY <1>1 DEF OpenFails, ClientOK
<1> QED
  BY <1>1, <1>2, <1>3, <1>4, StreamStays

\* An open that was answered is read, or its session has exited already.
LEMMA OpenedDoes ==
  ASSUME ClientOK, OpOK, NEW n \in Names, Opened(n)
  PROVE  /\ op[n].pc = "answered" /\ op'[n].pc = "idle" /\ \A m \in Names \ {n} : op'[m] = op[m]
         /\ UNCHANGED <<runner, registry, child, wire, slot, sink, restart, history>> /\ op[n].stream \in Streams
         /\ LET s == op[n].stream IN
            /\ session'[s].name = session[s].name /\ session'[s].wire = session[s].wire
            /\ \A t \in Streams \ {s} : session'[t] = session[t]
            /\ IF "running" \in op[n].is
               THEN /\ held'[n] = s /\ \A m \in Names \ {n} : held'[m] = held[m]
                    /\ session'[s].reader = "reading" /\ session'[s].child = op[n].child
                    /\ session'[s].inbox = session[s].inbox /\ session'[s].end = session[s].end
                    /\ session'[s].marks =
                          IF restart.pc # "idle" \/ child[op[n].child].order = "end" THEN {"unmarked"} ELSE {}
               ELSE /\ held' = held /\ session'[s].reader = "done" /\ session'[s].child = 0
                    /\ session'[s].inbox = <<>> /\ session'[s].end = "none" /\ session'[s].marks = {}
<1>1. /\ op[n].pc = "answered" /\ op[n].stream \in Streams
      /\ UNCHANGED <<runner, registry, child, wire, slot, sink, restart, history>>
  BY DEF Opened, At, OpOK, Placed, runnerVars
<1>2. op'[n].pc = "idle" /\ \A m \in Names \ {n} : op'[m] = op[m]
  BY DEF Opened, Returns, NoOp, OpOK
<1>3. PICK s \in Streams : s = op[n].stream
  BY <1>1
<1>4. CASE "running" \in op[n].is
  <2> DEFINE marks == IF restart.pc # "idle" \/ child[op[n].child].order = "end" THEN {"unmarked"} ELSE {}
  <2>1. session' = [session EXCEPT ![s] = [session[s] EXCEPT !.reader = "reading", !.child = op[n].child, !.marks = marks]]
    BY <1>3, <1>4 DEF Opened, ClientOK
  <2>2. held'[n] = s /\ \A m \in Names \ {n} : held'[m] = held[m]
    BY <1>3, <1>4 DEF Opened, ClientOK
  <2> HIDE DEF marks
  <2>3. session'[s] = [session[s] EXCEPT !.reader = "reading", !.child = op[n].child, !.marks = marks]
        /\ \A t \in Streams \ {s} : session'[t] = session[t]
    BY <2>1 DEF ClientOK
  <2>4. /\ session'[s].name = session[s].name /\ session'[s].wire = session[s].wire
        /\ session'[s].reader = "reading" /\ session'[s].child = op[n].child
        /\ session'[s].inbox = session[s].inbox /\ session'[s].end = session[s].end
        /\ session'[s].marks = marks
    BY <2>3, StreamStays
  <2> QED
    BY <1>1, <1>2, <1>3, <1>4, <2>2, <2>3, <2>4 DEF marks
<1>5. CASE "running" \notin op[n].is
  <2>1. session'[s] = Dropped(s) /\ held' = held /\ \A t \in Streams \ {s} : session'[t] = session[t]
    BY <1>3, <1>5 DEF Opened, ClientOK
  <2> QED
    BY <1>1, <1>2, <1>3, <1>5, <2>1, StreamStays
<1> QED
  BY <1>4, <1>5

\* An exit is routed to the stream registered under its name now.
LEMMA RoutesExitDoes ==
  ASSUME WireOK, ClientOK, RestOK, NEW w \in Wires, RoutesExit(w)
  PROVE  /\ wire[w].lane # <<>> /\ wire' = [wire EXCEPT ![w].lane = Tail(@)]
         /\ UNCHANGED <<runner, registry, child, slot, held, op, restart>>
         /\ LET e == Head(wire[w].lane)
                n == e.name
                s == sink[w][n]
                received == s # 0 /\ session[s].reader # "done" IN
            /\ e \in Exit /\ n \in Names /\ s \in 0..MaxOpens
            /\ sink'[w][n] = 0
            /\ \A v \in Wires, m \in Names : v # w \/ m # n => sink'[v][m] = sink[v][m]
            /\ ~received => session' = session /\ history' = history
            /\ received =>
                 /\ s \in Streams /\ \A t \in Streams \ {s} : session'[t] = session[t]
                 /\ session'[s].name = session[s].name /\ session'[s].wire = session[s].wire
                 /\ session'[s].reader = session[s].reader /\ session'[s].child = session[s].child
                 /\ session'[s].end = session[s].end /\ session'[s].marks = session[s].marks
                 /\ session'[s].inbox # <<>> /\ In(session'[s].inbox) = In(session[s].inbox) \cup {e}
            /\ history'.overdue = history.overdue /\ history.crossed \subseteq history'.crossed
            /\ received /\ e.stream # s => n \in history'.crossed
<1> DEFINE e == Head(wire[w].lane)
<1>1. /\ wire[w].lane # <<>> /\ wire' = [wire EXCEPT ![w].lane = Tail(@)]
      /\ UNCHANGED <<runner, registry, child, slot, held, op, restart>>
  BY DEF RoutesExit, runnerVars
<1>2. e \in Exit /\ e.name \in Names
  BY <1>1, CarriedIs, HeadIs DEF Exit
<1>3. PICK n \in Names : n = e.name
  BY <1>2
<1>4. PICK s \in 0..MaxOpens : s = sink[w][n]
  BY <1>3 DEF ClientOK
<1> DEFINE received == s # 0 /\ session[s].reader # "done"
<1>5. /\ session' = IF received THEN [session EXCEPT ![s].inbox = Append(@, e)] ELSE session
      /\ sink' = [sink EXCEPT ![w][n] = 0]
      /\ history' = IF received /\ e.stream # s THEN [history EXCEPT !.crossed = @ \cup {n}] ELSE history
  BY <1>3, <1>4 DEF RoutesExit
<1>6. sink'[w][n] = 0 /\ \A v \in Wires, m \in Names : v # w \/ m # n => sink'[v][m] = sink[v][m]
  BY <1>5 DEF ClientOK
<1>7. ASSUME received
      PROVE  /\ s \in Streams /\ \A t \in Streams \ {s} : session'[t] = session[t]
             /\ session'[s].name = session[s].name /\ session'[s].wire = session[s].wire
             /\ session'[s].reader = session[s].reader /\ session'[s].child = session[s].child
             /\ session'[s].end = session[s].end /\ session'[s].marks = session[s].marks
             /\ session'[s].inbox # <<>> /\ In(session'[s].inbox) = In(session[s].inbox) \cup {e}
  <2>1. s \in Streams /\ session[s].inbox \in Seq(Exit)
    BY <1>7, StreamIs DEF ClientOK, SessionType
  <2>2. PICK q : q = Append(session[s].inbox, e)
    OBVIOUS
  <2>3. session'[s] = [session[s] EXCEPT !.inbox = q] /\ \A t \in Streams \ {s} : session'[t] = session[t]
    BY <1>5, <1>7, <2>1, <2>2 DEF ClientOK
  <2>4. q # <<>> /\ In(q) = In(session[s].inbox) \cup {e}
    <3>1. Len(q) = Len(session[s].inbox) + 1 /\ Len(session[s].inbox) \in Nat
      BY <1>2, <2>1, <2>2, AppendProperties, LenProperties
    <3> QED
      BY <1>2, <2>1, <2>2, <3>1, InMore, EmptySeq
  <2> QED
    BY <2>1, <2>3, <2>4, StreamStays
<1>8. /\ history'.overdue = history.overdue /\ history.crossed \subseteq history'.crossed
      /\ received /\ e.stream # s => n \in history'.crossed
      /\ ~received => history' = history
  BY <1>5 DEF RestOK
<1>9. ~received => session' = session
  BY <1>5
<1> QED
  BY <1>1, <1>2, <1>3, <1>4, <1>6, <1>7, <1>8, <1>9

\* What a session is marked with leaves the rest of it alone.
Same(s) ==
  /\ session'[s].name = session[s].name /\ session'[s].wire = session[s].wire /\ session'[s].child = session[s].child
  /\ session'[s].reader = session[s].reader /\ session'[s].inbox = session[s].inbox /\ session'[s].end = session[s].end
MarksOnly == \A s \in Streams : Same(s)
LEMMA MarksDo ==
  ASSUME ClientOK, \A s \in Streams : session'[s] = session[s] \/ \E x : session'[s] = [session[s] EXCEPT !.marks = x]
  PROVE  MarksOnly
<1> SUFFICES ASSUME NEW s \in Streams
             PROVE  /\ session'[s].name = session[s].name /\ session'[s].wire = session[s].wire
                    /\ session'[s].child = session[s].child /\ session'[s].reader = session[s].reader
                    /\ session'[s].inbox = session[s].inbox /\ session'[s].end = session[s].end
  BY DEF MarksOnly, Same
<1>1. CASE session'[s] = session[s]
  BY <1>1
<1>2. CASE \E x : session'[s] = [session[s] EXCEPT !.marks = x]
  <2>1. PICK x : session'[s] = [session[s] EXCEPT !.marks = x]
    BY <1>2
  <2> QED
    BY <2>1, StreamStays
<1> QED
  BY <1>1, <1>2

\* A close lets go of the session and marks it.
LEMMA CloseBeginsDoes ==
  ASSUME ClientOK, OpOK, NEW n \in Names, CloseBegins(n)
  PROVE  /\ op[n].pc = "idle" /\ op'[n].pc = "close" /\ \A m \in Names \ {n} : op'[m] = op[m]
         /\ UNCHANGED <<runner, registry, child, wire, slot, sink, restart, history>>
         /\ held'[n] = 0 /\ \A m \in Names \ {n} : held'[m] = held[m]
         /\ MarksOnly
         /\ held[n] # 0 => "closing" \in session'[held[n]].marks
         /\ \A s \in Streams : session'[s].marks = session[s].marks \/ (s = held[n] /\ "closing" \in session'[s].marks)
         /\ \A s \in Streams : "unmarked" \in session[s].marks => "unmarked" \in session'[s].marks
<1>1. /\ op[n].pc = "idle" /\ UNCHANGED <<runner, registry, child, wire, slot, sink, restart, history>>
      /\ op'[n].pc = "close" /\ \A m \in Names \ {n} : op'[m] = op[m]
  BY DEF CloseBegins, At, Goes, OpOK, OpType, runnerVars
<1>2. held'[n] = 0 /\ \A m \in Names \ {n} : held'[m] = held[m]
  BY DEF CloseBegins, ClientOK
<1>3. CASE held[n] = 0
  <2>1. session' = session
    BY <1>3 DEF CloseBegins
  <2>2. \A s \in Streams : session'[s] = session[s]
    BY <2>1
  <2> QED
    BY <1>1, <1>2, <1>3, <2>2, MarksDo
<1>4. CASE held[n] # 0
  <2>1. PICK s \in Streams : s = held[n]
    BY <1>4, StreamIs DEF ClientOK
  <2>2. PICK x : x = session[s].marks \cup {"closing", "closed"}
    OBVIOUS
  <2>3. session'[s] = [session[s] EXCEPT !.marks = x] /\ \A t \in Streams \ {s} : session'[t] = session[t]
    BY <1>4, <2>1, <2>2 DEF CloseBegins, ClientOK
  <2>4. session'[s].marks = x
    BY <2>3, StreamStays
  <2>5. MarksOnly
    BY <2>3, MarksDo
  <2> QED
    BY <1>1, <1>2, <1>4, <2>1, <2>2, <2>3, <2>4, <2>5
<1> QED
  BY <1>3, <1>4

\* A reader hears the exit, or finds the end of its stream, or lets the session go.
LEMMA ReaderDoes ==
  ASSUME ClientOK, NEW s \in Streams, Reader(s)
  PROVE  /\ UNCHANGED <<runner, registry, child, wire, slot, sink, op, restart, history>>
         /\ \A t \in Streams \ {s} : session'[t] = session[t]
         /\ session'[s].name = session[s].name /\ session'[s].wire = session[s].wire /\ session'[s].inbox \in {<<>>, session[s].inbox}
         /\ \/ /\ session[s].reader = "reading" /\ session[s].inbox # <<>> /\ held' = held
               /\ session'[s].reader = "exited" /\ session'[s].child = session[s].child
               /\ session'[s].marks = session[s].marks
               /\ session'[s].end = IF "closing" \in session[s].marks THEN "interrupted" ELSE "failed"
            \/ /\ session[s].reader = "reading" /\ Severed(s) /\ held' = held
               /\ session'[s].reader = "cut" /\ session'[s].child = session[s].child
               /\ session'[s].marks = session[s].marks /\ session'[s].end # "failed" /\ session'[s].inbox = session[s].inbox
            \/ /\ session[s].reader \in {"exited", "cut"} /\ session'[s].reader = "done"
               /\ session'[s].child = 0 /\ session'[s].end = "none" /\ session'[s].inbox = <<>> /\ session'[s].marks = {}
               /\ \A m \in Names : \/ held'[m] = held[m] /\ ~(m = session[s].name /\ held[m] = s)
                                   \/ m = session[s].name /\ held[m] = s /\ held'[m] = 0
<1>1. UNCHANGED <<runner, registry, child, wire, slot, sink, op, restart, history>>
  BY DEF Reader, Reads, FindsEnd, LetsGo, runnerVars
<1>2. CASE Reads(s)
  <2>1. PICK x : x = IF "closing" \in session[s].marks THEN "interrupted" ELSE "failed"
    OBVIOUS
  <2>2. session' = [session EXCEPT ![s] = [session[s] EXCEPT !.inbox = <<>>, !.reader = "exited", !.end = x]]
    BY <1>2, <2>1 DEF Reads, ClientOK
  <2>3. session'[s] = [session[s] EXCEPT !.inbox = <<>>, !.reader = "exited", !.end = x]
        /\ \A t \in Streams \ {s} : session'[t] = session[t]
    BY <2>2 DEF ClientOK
  <2>4. session[s].reader = "reading" /\ session[s].inbox # <<>> /\ held' = held
    BY <1>2 DEF Reads
  <2>5. /\ session'[s].name = session[s].name /\ session'[s].wire = session[s].wire /\ session'[s].child = session[s].child
        /\ session'[s].reader = "exited" /\ session'[s].marks = session[s].marks /\ session'[s].end = x
        /\ session'[s].inbox = <<>>
    BY <2>3, StreamStays
  <2> QED
    BY <1>1, <2>1, <2>3, <2>4, <2>5
<1>3. CASE FindsEnd(s)
  <2>1. PICK x \in {"interrupted", "unreachable"} : x = IF "closing" \in session[s].marks THEN "interrupted" ELSE "unreachable"
    OBVIOUS
  <2>2. session' = [session EXCEPT ![s] = [session[s] EXCEPT !.reader = "cut", !.end = x]]
    BY <1>3, <2>1 DEF FindsEnd, ClientOK
  <2>3. session'[s] = [session[s] EXCEPT !.reader = "cut", !.end = x]
        /\ \A t \in Streams \ {s} : session'[t] = session[t]
    BY <2>2 DEF ClientOK
  <2>4. session[s].reader = "reading" /\ Severed(s) /\ held' = held
    BY <1>3 DEF FindsEnd
  <2>5. /\ session'[s].name = session[s].name /\ session'[s].wire = session[s].wire /\ session'[s].child = session[s].child
        /\ session'[s].reader = "cut" /\ session'[s].marks = session[s].marks /\ session'[s].end = x
        /\ session'[s].inbox = session[s].inbox
    BY <2>3, StreamStays
  <2> QED
    BY <1>1, <2>1, <2>3, <2>4, <2>5
<1>4. CASE LetsGo(s)
  <2>1. session[s].reader \in {"exited", "cut"} /\ held' = LetGo(s) /\ session' = [session EXCEPT ![s] = Dropped(s)]
    BY <1>4 DEF LetsGo
  <2>2. session'[s] = Dropped(s) /\ \A t \in Streams \ {s} : session'[t] = session[t]
    BY <2>1 DEF ClientOK
  <2>3. \A m \in Names : \/ held'[m] = held[m] /\ ~(m = session[s].name /\ held[m] = s)
                         \/ m = session[s].name /\ held[m] = s /\ held'[m] = 0
    BY <2>1 DEF LetGo, ClientOK
  <2>4. /\ session'[s].name = session[s].name /\ session'[s].wire = session[s].wire /\ session'[s].child = 0
        /\ session'[s].reader = "done" /\ session'[s].marks = {} /\ session'[s].end = "none"
        /\ session'[s].inbox = <<>>
    BY <2>2, StreamStays
  <2> QED
    BY <1>1, <2>1, <2>2, <2>3, <2>4
<1> QED
  BY <1>2, <1>3, <1>4 DEF Reader

\* A restart marks the sessions that are held, and takes back the mark of those that live on.
LEMMA RestartDoes ==
  ASSUME ClientOK, RestOK, Restart
  PROVE  /\ UNCHANGED <<wire, slot, sink, held, op>> /\ MarksOnly
         /\ history'.overdue = history.overdue /\ history'.crossed = history.crossed
         /\ \/ /\ restart.pc = "idle" /\ UNCHANGED <<runner, registry, child>>
               /\ \A s \in Streams : IF \E n \in Names : held[n] = s
                                     THEN session'[s].marks = session[s].marks \cup {"closing"}
                                     ELSE session'[s].marks = session[s].marks
            \/ restart.pc = "stop" /\ restart'.pc = "wait" /\ session' = session /\ UNCHANGED registry
            \/ restart.pc = "wait" /\ restart'.pc = "idle" /\ session' = session /\ runner = "none" /\ ServesFresh
            \/ /\ restart.pc = "wait" /\ restart'.pc = "idle" /\ UNCHANGED <<runner, registry, child>>
               /\ \A s \in Streams : \/ session'[s].marks = session[s].marks
                                    \/ session'[s].marks = (session[s].marks \ {"closing"}) \cup {"unmarked"}
<1>1. UNCHANGED <<wire, slot, sink, held, op>>
  BY DEF Restart, RestartBegins, RestartStops, RestartServes, RestartGivesUp, clientVars
<1>2. CASE RestartBegins
  <2>1. restart.pc = "idle" /\ UNCHANGED <<runner, registry, child>>
        /\ history'.overdue = history.overdue /\ history'.crossed = history.crossed
    BY <1>2 DEF RestartBegins, Faulted, runnerVars, RestOK
  <2>2. ASSUME NEW s \in Streams
        PROVE  IF \E n \in Names : held[n] = s
               THEN session'[s] = [session[s] EXCEPT !.marks = session[s].marks \cup {"closing"}]
               ELSE session'[s] = session[s]
    BY <1>2 DEF RestartBegins
  <2>3. MarksOnly
    BY <2>2, MarksDo
  <2>4. ASSUME NEW s \in Streams
        PROVE  IF \E n \in Names : held[n] = s
               THEN session'[s].marks = session[s].marks \cup {"closing"}
               ELSE session'[s].marks = session[s].marks
    <3>1. session[s] \in SessionType
      BY DEF ClientOK
    <3>2. CASE \E n \in Names : held[n] = s
      <4>1. session'[s] = [session[s] EXCEPT !.marks = session[s].marks \cup {"closing"}]
        BY <2>2, <3>2
      <4> QED
        BY <3>1, <3>2, <4>1 DEF SessionType
    <3>3. CASE ~\E n \in Names : held[n] = s
      BY <2>2, <3>3
    <3> QED
      BY <3>2, <3>3
  <2> QED
    BY <1>1, <2>1, <2>3, <2>4
<1>3. CASE RestartStops \/ RestartServes
  <2>1. session' = session /\ history' = history
    BY <1>3 DEF RestartStops, RestartServes, clientVars
  <2>2. \A s \in Streams : session'[s] = session[s]
    BY <2>1
  <2>3. MarksOnly
    BY <2>2, MarksDo
  <2>4. CASE RestartStops
    <3>1. restart.pc = "stop" /\ restart'.pc = "wait" /\ UNCHANGED registry
      BY <2>4 DEF RestartStops, RestOK
    <3> QED
      BY <1>1, <2>1, <2>3, <3>1
  <2>5. CASE RestartServes
    <3>1. restart.pc = "wait" /\ restart'.pc = "idle" /\ runner = "none" /\ ServesFresh
      BY <2>5 DEF RestartServes, RestOK
    <3> QED
      BY <1>1, <2>1, <2>3, <3>1
  <2> QED
    BY <1>3, <2>4, <2>5
<1>4. CASE RestartGivesUp
  <2>1. restart.pc = "wait" /\ restart'.pc = "idle" /\ UNCHANGED <<runner, registry, child>> /\ history' = history
    BY <1>4 DEF RestartGivesUp, RestOK, runnerVars
  <2>2. ASSUME NEW s \in Streams
        PROVE  session'[s] = session[s] \/ session'[s] = [session[s] EXCEPT !.marks = (session[s].marks \ {"closing"}) \cup {"unmarked"}]
    BY <1>4 DEF RestartGivesUp
  <2>3. MarksOnly
    BY <2>2, MarksDo
  <2>4. ASSUME NEW s \in Streams
        PROVE  \/ session'[s].marks = session[s].marks
               \/ session'[s].marks = (session[s].marks \ {"closing"}) \cup {"unmarked"}
    <3>1. session[s] \in SessionType
      BY DEF ClientOK
    <3> QED
      BY <2>2, <3>1 DEF SessionType
  <2> QED
    BY <1>1, <2>1, <2>3, <2>4
<1> QED
  BY <1>2, <1>3, <1>4 DEF Restart

\* An open that waits is told something, or gives up.
Told(n) == /\ op[n].pc = "asked" /\ op'[n].pc \in {"answered", "failed"}
           /\ op'[n].wire = op[n].wire /\ op'[n].stream = op[n].stream
\* An operation is not at a stream, before nor after.
Away(n) == op[n].pc \notin Placed /\ op'[n].pc \notin Placed

\* One operation returns, or goes on to another point.
LEMMA GoesOn ==
  ASSUME OpOK, NEW n \in Names
  PROVE  /\ Returns(n) => op'[n].pc = "idle" /\ \A m \in Names \ {n} : op'[m] = op[m]
         /\ \A pc : Goes(n, pc) => /\ op'[n].pc = pc /\ op'[n].wire = op[n].wire /\ op'[n].stream = op[n].stream
                                  /\ \A m \in Names \ {n} : op'[m] = op[m]
BY DEF Returns, Goes, NoOp, OpOK, OpType

\* An answer is handed to the open that waits for it.
LEMMA RoutesAnswerDoes ==
  ASSUME WireOK, OpOK, NEW w \in Wires, RoutesAnswer(w)
  PROVE  /\ wire[w].answers # <<>> /\ wire' = [wire EXCEPT ![w].answers = Tail(@)]
         /\ UNCHANGED <<runner, registry, child, slot, sink, session, held, restart, history>>
         /\ LET a == Head(wire[w].answers) IN
            /\ a \in Answer
            /\ \A m \in Names \ {a.name} : op'[m] = op[m]
            /\ \/ op'[a.name] = op[a.name] /\ ~(op[a.name].pc = "asked" /\ op[a.name].stream = a.stream)
               \/ Told(a.name) /\ op[a.name].stream = a.stream /\ a.child = 0 /\ op'[a.name].pc = "failed"
               \/ /\ Told(a.name) /\ op[a.name].stream = a.stream /\ a.child # 0 /\ op'[a.name].pc = "answered"
                  /\ op'[a.name].child = a.child /\ op'[a.name].is = a.is
<1>1. /\ wire[w].answers # <<>> /\ wire' = [wire EXCEPT ![w].answers = Tail(@)]
      /\ UNCHANGED <<runner, registry, child, slot, sink, session, held, restart, history>>
  BY DEF RoutesAnswer, runnerVars, clientVars
<1>2. PICK a \in Answer : a = Head(wire[w].answers)
  BY <1>1, CarriedIs, HeadIs
<1>3. PICK n \in Names : n = a.name
  BY DEF Answer
<1>4. op[n] \in OpType
  BY DEF OpOK
<1>5. CASE ~(op[n].pc = "asked" /\ op[n].stream = a.stream)
  <2>1. op' = op
    BY <1>2, <1>3, <1>5 DEF RoutesAnswer, At
  <2> QED
    BY <1>1, <1>2, <1>3, <1>5, <2>1
<1>6. CASE op[n].pc = "asked" /\ op[n].stream = a.stream /\ a.child = 0
  <2>1. Goes(n, "failed")
    BY <1>2, <1>3, <1>6 DEF RoutesAnswer, At
  <2>2. op'[n].pc = "failed" /\ op'[n].wire = op[n].wire /\ op'[n].stream = op[n].stream
        /\ \A m \in Names \ {n} : op'[m] = op[m]
    BY <2>1, GoesOn
  <2> QED
    BY <1>1, <1>2, <1>3, <1>6, <2>2 DEF Told
<1>7. CASE op[n].pc = "asked" /\ op[n].stream = a.stream /\ a.child # 0
  <2>1. op' = [op EXCEPT ![n] = [op[n] EXCEPT !.pc = "answered", !.child = a.child, !.is = a.is]]
    BY <1>2, <1>3, <1>7 DEF RoutesAnswer, At, OpOK
  <2>2. /\ op'[n].pc = "answered" /\ op'[n].child = a.child /\ op'[n].is = a.is
        /\ op'[n].wire = op[n].wire /\ op'[n].stream = op[n].stream
        /\ \A m \in Names \ {n} : op'[m] = op[m]
    BY <1>4, <2>1 DEF OpOK, OpType
  <2> QED
    BY <1>1, <1>2, <1>3, <1>7, <2>2 DEF Told
<1> QED
  BY <1>5, <1>6, <1>7

\* A close goes on over a connection of its own.
LEMMA CloseMoves ==
  ASSUME OpOK, NEW n \in Names, Close(n)
  PROVE  Away(n) /\ \A m \in Names \ {n} : op'[m] = op[m]
<1>1. CASE CloseKills(n)
  <2>1. op[n].pc = "closing" /\ (Returns(n) \/ op' = [op EXCEPT ![n].pc = "killing", ![n].child = registry[n]])
    BY <1>1 DEF CloseKills, At
  <2>2. CASE Returns(n)
    BY <2>1, <2>2, GoesOn DEF Away, Placed
  <2>3. CASE op' = [op EXCEPT ![n].pc = "killing", ![n].child = registry[n]]
    BY <2>1, <2>3 DEF Away, Placed, OpOK, OpType
  <2> QED
    BY <2>1, <2>2, <2>3
<1>2. CASE ~CloseKills(n)
  <2>1. /\ op[n].pc \in {"idle", "close", "killing"}
        /\ Returns(n) \/ Goes(n, "close") \/ Goes(n, "closing")
    BY <1>2 DEF Close, CloseBegins, CloseConnects, CloseEnds, CloseGivesUp, At
  <2> QED
    BY <2>1, GoesOn DEF Away, Placed
<1> QED
  BY <1>1, <1>2

\* How an operation moves.
OpTurns(n) ==
  \/ op'[n] = op[n] \/ Away(n) \/ Told(n)
  \/ TakesWire(n) \/ Registers(n) \/ Writes(n) \/ OpenFails(n) \/ Opened(n)
LEMMA OpsMove ==
  ASSUME WireOK, OpOK, ClientOK, MadeInOrder, Next
  PROVE  \A n \in Names : OpTurns(n)
<1>1. ASSUME NEW n \in Names, Open(n)
      PROVE  \A m \in Names : OpTurns(m)
  <2>1. CASE TakesWire(n)
    BY <2>1, TakesWireDoes DEF OpTurns
  <2>2. CASE Registers(n)
    <3>1. \A m \in Names \ {n} : op'[m] = op[m]
      BY <2>2 DEF Registers, OpOK
    <3> QED
      BY <2>2, <3>1 DEF OpTurns
  <2>3. CASE Writes(n)
    BY <2>3, WritesDo DEF OpTurns
  <2>4. CASE OpenFails(n)
    BY <2>4, OpenFailsDoes DEF OpTurns
  <2>5. CASE Opened(n)
    BY <2>5, OpenedDoes DEF OpTurns
  <2>6. CASE GivesUp(n)
    BY <2>6, GoesOn DEF GivesUp, At, OpTurns, Told
  <2>7. CASE OpenBegins(n) \/ PassesDoor(n) \/ WaitsNoLonger(n) \/ FindsNoRunner(n)
    <3>1. op[n].pc \in {"idle", "door", "wire"} /\ (Returns(n) \/ Goes(n, "door") \/ Goes(n, "wire"))
      BY <2>7 DEF OpenBegins, PassesDoor, WaitsNoLonger, FindsNoRunner, At
    <3> QED
      BY <3>1, GoesOn DEF OpTurns, Away, Placed
  <2> QED
    BY <1>1, <2>1, <2>2, <2>3, <2>4, <2>5, <2>6, <2>7 DEF Open
<1>2. ASSUME NEW n \in Names, Close(n)
      PROVE  \A m \in Names : OpTurns(m)
  BY <1>2, CloseMoves DEF OpTurns
<1>3. ASSUME NEW w \in Wires, Route(w)
      PROVE  \A m \in Names : OpTurns(m)
  <2>1. CASE RoutesAnswer(w)
    BY <2>1, RoutesAnswerDoes DEF OpTurns
  <2>2. CASE RoutesExit(w)
    BY <2>2 DEF RoutesExit, OpTurns
  <2>3. CASE WireEnds(w)
    <3>1. \A m \in Names : op'[m] = op[m] \/ Told(m)
      BY <2>3, WireEndsDoes DEF Told
    <3> QED
      BY <3>1 DEF OpTurns
  <2> QED
    BY <1>3, <2>1, <2>2, <2>3 DEF Route
<1>4. ASSUME DoorOpens \/ (\E s \in Streams : Reader(s)) \/ Restart
      PROVE  op' = op
  BY <1>4 DEF DoorOpens, Reader, Reads, FindsEnd, LetsGo, Restart, RestartBegins, RestartStops, RestartServes, RestartGivesUp
<1>5. ASSUME Run
      PROVE  \A m \in Names : op'[m] = op[m] \/ Away(m)
  <2>1. CASE RunnerExits \/ RunnerCrashes
    <3>1. \A m \in Names : op'[m] = op[m] \/ (op[m].pc \in {"closing", "killing"} /\ op'[m] = NoOp)
      BY <2>1 DEF RunnerExits, RunnerCrashes, RunnerGone
    <3> QED
      BY <3>1 DEF Away, Placed, NoOp
  <2>2. CASE ~(RunnerExits \/ RunnerCrashes)
    BY <1>5, <2>2 DEF Run, Refuses, Attaches, Spawns, Exits, SaysExit, OrphanEnds, ConnectionDrops
  <2> QED
    BY <2>1, <2>2
<1> QED
  BY <1>1, <1>2, <1>3, <1>4, <1>5 DEF Next, OpTurns

\* How a stream moves.
SessionMoves(s) ==
  \/ Same(s)
  \/ Reader(s)
  \/ \E n \in Names : (Registers(n) /\ s = NextStream) \/ ((OpenFails(n) \/ Opened(n)) /\ s = op[n].stream)
  \/ \E w \in Wires : RoutesExit(w) /\ s = sink[w][Head(wire[w].lane).name] /\ session[s].reader # "done"
LEMMA SessionsMove ==
  ASSUME WireOK, OpOK, ClientOK, RestOK, Next
  PROVE  \A s \in Streams : SessionMoves(s)
<1>1. UNCHANGED session => \A s \in Streams : SessionMoves(s)
  BY DEF SessionMoves, Same
<1>2. ASSUME NEW n \in Names, Open(n)
      PROVE  \A s \in Streams : SessionMoves(s)
  <2>1. CASE OpenFails(n)
    BY <2>1, OpenFailsDoes DEF SessionMoves, Same
  <2>2. CASE Opened(n)
    BY <2>2, OpenedDoes DEF SessionMoves, Same
  <2>3. CASE Registers(n)
    <3>1. \A t \in Streams \ {NextStream} : session'[t] = session[t]
      BY <2>3 DEF Registers, ClientOK
    <3> QED
      BY <2>3, <3>1 DEF SessionMoves, Same
  <2>4. CASE ~OpenFails(n) /\ ~Opened(n) /\ ~Registers(n)
    <3>1. UNCHANGED session
      BY <1>2, <2>4 DEF Open, OpenBegins, PassesDoor, WaitsNoLonger, TakesWire, FindsNoRunner, Writes, GivesUp, clientVars
    <3> QED
      BY <1>1, <3>1
  <2> QED
    BY <2>1, <2>2, <2>3, <2>4
<1>3. ASSUME NEW n \in Names, Close(n)
      PROVE  \A s \in Streams : SessionMoves(s)
  <2>1. CASE CloseBegins(n)
    BY <2>1, CloseBeginsDoes DEF SessionMoves, MarksOnly
  <2>2. CASE ~CloseBegins(n)
    <3>1. UNCHANGED session
      BY <1>3, <2>2 DEF Close, CloseConnects, CloseKills, CloseEnds, CloseGivesUp, clientVars
    <3> QED
      BY <1>1, <3>1
  <2> QED
    BY <2>1, <2>2
<1>4. ASSUME NEW w \in Wires, Route(w)
      PROVE  \A s \in Streams : SessionMoves(s)
  <2>1. CASE RoutesAnswer(w) \/ WireEnds(w)
    BY <1>1, <2>1 DEF RoutesAnswer, WireEnds, clientVars
  <2>2. CASE RoutesExit(w)
    BY <2>2, RoutesExitDoes DEF SessionMoves, Same
  <2> QED
    BY <1>4, <2>1, <2>2 DEF Route
<1>5. ASSUME NEW s \in Streams, Reader(s)
      PROVE  \A t \in Streams : SessionMoves(t)
  BY <1>5, ReaderDoes DEF SessionMoves, Same
<1>6. ASSUME DoorOpens \/ Run
      PROVE  UNCHANGED session
  BY <1>6 DEF DoorOpens, Run, Refuses, Attaches, Spawns, Exits, SaysExit, OrphanEnds, ConnectionDrops, RunnerExits,
       RunnerCrashes, RunnerGone, clientVars
<1>7. ASSUME Restart
      PROVE  \A s \in Streams : SessionMoves(s)
  BY <1>7, RestartDoes DEF SessionMoves, MarksOnly
<1> QED
  BY <1>1, <1>2, <1>3, <1>4, <1>5, <1>6, <1>7 DEF Next

\* A stream keeps its name and its connection once it has them.
LEMMA StreamsStay ==
  ASSUME WireOK, OpOK, ClientOK, RestOK, OpenedInOrder, Next
  PROVE  \A s \in Streams : session[s].name # "none" => session'[s].name = session[s].name /\ session'[s].wire = session[s].wire
<1> SUFFICES ASSUME NEW s \in Streams, session[s].name # "none"
             PROVE  session'[s].name = session[s].name /\ session'[s].wire = session[s].wire
  OBVIOUS
<1>1. SessionMoves(s)
  BY SessionsMove
<1>2. CASE Same(s)
  BY <1>2 DEF Same
<1>3. CASE Reader(s)
  BY <1>3, ReaderDoes
<1>4. ASSUME NEW n \in Names, Registers(n)
      PROVE  s # NextStream
  BY <1>4, NextStreamIs DEF Registers
<1>5. ASSUME NEW n \in Names, OpenFails(n) \/ Opened(n), s = op[n].stream
      PROVE  session'[s].name = session[s].name /\ session'[s].wire = session[s].wire
  BY <1>5, OpenFailsDoes, OpenedDoes
<1>6. ASSUME NEW w \in Wires, RoutesExit(w), s = sink[w][Head(wire[w].lane).name], session[s].reader # "done"
      PROVE  session'[s].name = session[s].name /\ session'[s].wire = session[s].wire
  <2>1. s # 0
    BY Bounds DEF Streams
  <2> QED
    BY <1>6, <2>1, RoutesExitDoes
<1> QED
  BY <1>1, <1>2, <1>3, <1>4, <1>5, <1>6 DEF SessionMoves

\* Nothing is routed anew, unless it is registered.
LEMMA SinksMove ==
  ASSUME WireOK, OpOK, ClientOK, RestOK, Next
  PROVE  \A w \in Wires, n \in Names : sink'[w][n] \in {0, sink[w][n]} \/ (Registers(n) /\ w = op[n].wire)
<1> DEFINE Goal == \A w \in Wires, n \in Names : sink'[w][n] \in {0, sink[w][n]} \/ (Registers(n) /\ w = op[n].wire)
<1>1. UNCHANGED sink => Goal
  OBVIOUS
<1>2. ASSUME NEW n \in Names, Open(n)
      PROVE  Goal
  <2>1. CASE OpenFails(n)
    BY <2>1, OpenFailsDoes
  <2>2. CASE Registers(n)
    BY <2>2 DEF Registers, ClientOK
  <2>3. CASE ~OpenFails(n) /\ ~Registers(n)
    <3>1. UNCHANGED sink
      BY <1>2, <2>3 DEF Open, OpenBegins, PassesDoor, WaitsNoLonger, TakesWire, FindsNoRunner, Writes, GivesUp, Opened, clientVars
    <3> QED
      BY <1>1, <3>1
  <2> QED
    BY <2>1, <2>2, <2>3
<1>3. ASSUME NEW w \in Wires, Route(w)
      PROVE  Goal
  <2>1. CASE RoutesAnswer(w)
    BY <1>1, <2>1 DEF RoutesAnswer, clientVars
  <2>2. CASE RoutesExit(w)
    BY <2>2, RoutesExitDoes
  <2>3. CASE WireEnds(w)
    BY <2>3, WireEndsDoes
  <2> QED
    BY <1>3, <2>1, <2>2, <2>3 DEF Route
<1>4. ASSUME DoorOpens \/ Run \/ Restart \/ (\E n \in Names : Close(n)) \/ \E s \in Streams : Reader(s)
      PROVE  UNCHANGED sink
  <2>1. CASE DoorOpens \/ Run
    BY <2>1 DEF DoorOpens, Run, Refuses, Attaches, Spawns, Exits, SaysExit, OrphanEnds, ConnectionDrops, RunnerExits,
       RunnerCrashes, RunnerGone, clientVars
  <2>2. CASE Restart \/ \E s \in Streams : Reader(s)
    BY <2>2, RestartDoes, ReaderDoes
  <2>3. CASE \E n \in Names : Close(n)
    BY <2>3 DEF Close, CloseBegins, CloseConnects, CloseKills, CloseEnds, CloseGivesUp, clientVars
  <2> QED
    BY <1>4, <2>1, <2>2, <2>3
<1> HIDE DEF Goal
<1>5. Goal
  BY <1>1, <1>2, <1>3, <1>4 DEF Next
<1> QED
  BY <1>5 DEF Goal

-----------------------------------------------------------------------------
(* Places.  What speaks of a stream names the conversation it was opened   *)
(* for, and comes over the connection it was opened on.                    *)

Belongs(s, n, w) == session[s].name = n /\ session[s].wire = w
Made(w) == w \in Wires /\ wire[w].st # "unmade"

\* What is used was made, in order, and one connection at a time is up.
MadeInv ==
  /\ \A s \in Streams : IF session[s].name = "none" THEN Unused(s) ELSE Made(session[s].wire)
  /\ \A n \in Names : op[n].pc \in Placed => Made(op[n].wire)
  /\ \A w \in Wires : wire[w].st = "up" => w = slot
  /\ slot # 0 => Made(slot)
BornInv ==
  /\ BornInOrder
  /\ \A c \in Children : child[c].st = "unborn" => child[c].name = "none"
  /\ \A n \in Names : registry[n] # 0 => child[registry[n]].name = n
PlaceInv ==
  /\ \A w \in Wires : /\ \A q \in In(wire[w].asked) : Belongs(q.stream, q.name, w)
                      /\ \A a \in In(wire[w].answers) : Belongs(a.stream, a.name, w)
                      /\ \A e \in In(wire[w].lane) : Belongs(e.stream, e.name, w)
  /\ \A c \in Children : child[c].lane # 0 => Belongs(child[c].stream, child[c].name, child[c].lane)
  /\ \A n \in Names : op[n].pc \in Speaking => Belongs(op[n].stream, n, op[n].wire)
  /\ \A w \in Wires, n \in Names : sink[w][n] # 0 => Belongs(sink[w][n], n, w)
  /\ \A s \in Streams : \A e \in In(session[s].inbox) : session[e.stream].name = e.name

\* What the sections from here on rest on.
Base == TypeInv /\ AskInv /\ OwnInv /\ CloseInv
\* The parts of it that the steps' lemmas ask for.
LEMMA BaseIs ==
  ASSUME Base
  PROVE  /\ WireOK /\ OpOK /\ ClientOK /\ RestOK /\ RunnerOK
         /\ MadeInOrder /\ OpenedInOrder /\ NamedAlike /\ OpenedUnheld
         /\ \A c \in Children : Known(c)
         /\ \A n \in Names : Lone(n) /\ Kills(n)
BY DEF Base, TypeInv, AskInv, OwnInv, CloseInv

\* The next stream is unused.
LEMMA NextIsUnused ==
  ASSUME Base, MadeInv, NEW n \in Names, Registers(n)
  PROVE  NextStream \in Streams /\ session[NextStream].name = "none" /\ Unused(NextStream)
BY BaseIs, NextStreamIs DEF Registers, MadeInv

\* Every step keeps the children born in order.
LEMMA BornStep ==
  ASSUME Base, BornInv, Next
  PROVE  BornInv'
<1>1. ASSUME NEW w \in Wires, Spawns(w)
      PROVE  BornInv'
  <2>1. PICK c \in Children : c = NextChild
    BY <1>1, BaseIs, SpawnsDoes DEF BornInv
  <2>2. PICK n \in Names : n = Head(wire[w].asked).name
    BY <1>1, BaseIs, SpawnsDoes DEF BornInv, Create
  <2>3. /\ child[c].st = "unborn" /\ \A d \in Children \ {c} : child'[d] = child[d]
        /\ child'[c].name = n /\ child'[c].st # "unborn"
        /\ registry'[n] = c /\ \A m \in Names \ {n} : registry'[m] = registry[m]
    BY <1>1, <2>1, <2>2, BaseIs, SpawnsDoes DEF BornInv
  <2>4. BornInOrder'
    <3>1. PICK k \in 0..MaxChildren : \A d \in Children : (child[d].st # "unborn" \/ d = c) <=> d <= k
      BY <1>1, <2>1, NextChildIs DEF BornInv, Spawns
    <3>2. \A d \in Children : child'[d].st # "unborn" <=> d <= k
      BY <2>3, <3>1
    <3> QED
      BY <3>2 DEF BornInOrder
  <2>5. \A m \in Names \ {n} : registry[m] # 0 => registry[m] \in Children /\ registry[m] # c
    <3>1. \A m \in Names : registry[m] # 0 => registry[m] \in Children
      BY BaseIs, Bounds DEF RunnerOK, Children
    <3> QED
      BY <2>3, <3>1, NoName DEF BornInv
  <2> QED
    BY <2>3, <2>4, <2>5 DEF BornInv
<1>2. ASSUME \A c \in Children : child'[c].name = child[c].name /\ (child'[c].st = "unborn" <=> child[c].st = "unborn"),
             \A n \in Names : registry'[n] \in {0, registry[n]}
      PROVE  BornInv'
  <2>1. BornInOrder'
    BY <1>2 DEF BornInv, BornInOrder
  <2>2. \A n \in Names : registry[n] # 0 => registry[n] \in Children
    BY BaseIs, Bounds DEF RunnerOK, Children
  <2> QED
    BY <1>2, <2>1, <2>2 DEF BornInv
<1>3. ASSUME \A w \in Wires : ~Spawns(w)
      PROVE  \A n \in Names : registry'[n] \in {0, registry[n]}
  <2>1. UNCHANGED registry \/ registry' = [n \in Names |-> 0]
        \/ \E n \in Names : registry' = [registry EXCEPT ![n] = IF @ = op[n].child THEN 0 ELSE @]
    <3>1. CASE \E n \in Names : Open(n)
      BY <3>1 DEF Open, OpenBegins, PassesDoor, WaitsNoLonger, TakesWire, FindsNoRunner, Registers, Writes, GivesUp, OpenFails,
           Opened, runnerVars, ServesFresh
    <3>2. CASE \E n \in Names : Close(n)
      BY <3>2 DEF Close, CloseBegins, CloseConnects, CloseKills, CloseEnds, CloseGivesUp, runnerVars
    <3>3. CASE DoorOpens \/ (\E w \in Wires : Route(w)) \/ \E s \in Streams : Reader(s)
      BY <3>3 DEF DoorOpens, Route, RoutesAnswer, RoutesExit, WireEnds, Reader, Reads, FindsEnd, LetsGo, runnerVars
    <3>4. CASE Run
      BY <1>3, <3>4 DEF Run, Refuses, Attaches, Exits, SaysExit, OrphanEnds, ConnectionDrops, RunnerExits, RunnerCrashes,
         RunnerGone
    <3>5. CASE Restart
      BY <3>5 DEF Restart, RestartBegins, RestartStops, RestartServes, RestartGivesUp, ServesFresh, runnerVars
    <3> QED
      BY <3>1, <3>2, <3>3, <3>4, <3>5 DEF Next
  <2> QED
    BY <2>1, BaseIs DEF RunnerOK
<1>4. ASSUME NEW w \in Wires, Attaches(w)
      PROVE  \A c \in Children : child'[c].name = child[c].name /\ (child'[c].st = "unborn" <=> child[c].st = "unborn")
  BY <1>4, BaseIs, AttachesDoes
<1>5. ChildFades \/ \E w \in Wires : Attaches(w) \/ Spawns(w)
  BY BaseIs, ChildMoves
<1> QED
  BY <1>1, <1>2, <1>3, <1>4, <1>5 DEF ChildFades

\* Every step keeps to what was made.
LEMMA MadeStep ==
  ASSUME Base, BornInv, MadeInv, Next
  PROVE  MadeInv'
<1>1. WireOK /\ OpOK /\ ClientOK /\ RestOK /\ RunnerOK /\ MadeInOrder /\ OpenedInOrder /\ NamedAlike /\ BornInOrder
  BY BaseIs DEF BornInv
<1>2. \A w \in Wires :
        \/ wire'[w].st = wire[w].st
        \/ wire[w].st = "unmade" /\ wire'[w].st = "up" /\ slot' = w
        \/ wire[w].st = "up" /\ wire'[w].st = "closed" /\ slot = w
        \/ wire[w].st = "closed" /\ wire'[w].st = "over"
  BY <1>1, WireStates
<1>3. \A w : Made(w) => Made(w)'
  BY <1>2 DEF Made
<1>4. slot' = slot \/ (~Alive(slot) /\ \E n \in Names : TakesWire(n))
  BY <1>1, WireStates
<1>5. \A n \in Names : TakesWire(n) => op'[n].wire = slot' /\ Made(slot)'
  <2> SUFFICES ASSUME NEW n \in Names, TakesWire(n) PROVE op'[n].wire = slot' /\ Made(slot)'
    BY DEF Made
  <2>1. op'[n].wire = slot' /\ slot' \in Wires
        /\ ((UNCHANGED <<wire, slot>> /\ Alive(slot)) \/ wire'[slot'].st = "up")
    BY <1>1, TakesWireDoes
  <2> QED
    BY <2>1 DEF Made, MadeInv, Alive
<1>6. ASSUME NEW s \in Streams
      PROVE  (IF session[s].name = "none" THEN Unused(s) ELSE Made(session[s].wire))'
  <2>1. CASE session[s].name # "none"
    <3>1. session'[s].name = session[s].name /\ session'[s].wire = session[s].wire /\ Made(session[s].wire)
      BY <1>1, <2>1, StreamsStay DEF MadeInv
    <3> QED
      BY <1>3, <2>1, <3>1 DEF Made
  <2>2. CASE session[s].name = "none"
    <3>1. SessionMoves(s) /\ Unused(s)
      BY <1>1, <2>2, SessionsMove DEF MadeInv
    <3>2. CASE Same(s)
      BY <2>2, <3>1, <3>2 DEF Same, Unused
    <3>3. ~Reader(s)
      BY <1>1, <3>1, ReaderDoes DEF Unused
    <3>4. ASSUME NEW n \in Names, Registers(n), s = NextStream
          PROVE  session'[s].name # "none" /\ Made(session[s].wire)'
      <4>1. session'[s].name = n /\ session'[s].wire = op[n].wire /\ op[n].pc = "register"
        BY <1>1, <3>4, RegistersDoes DEF MadeInv
      <4>2. Made(op[n].wire)
        BY <4>1 DEF MadeInv, Placed
      <4> QED
        BY <1>3, <4>1, <4>2, NoName DEF Made
    <3>5. ASSUME NEW n \in Names, OpenFails(n) \/ Opened(n)
          PROVE  s # op[n].stream
      <4>1. op[n].pc \in Speaking
        BY <3>5 DEF OpenFails, Opened, At, Speaking, Placed
      <4> QED
        BY <1>1, <2>2, <4>1, NoName DEF NamedAlike
    <3>6. ASSUME NEW w \in Wires, RoutesExit(w)
          PROVE  s # sink[w][Head(wire[w].lane).name]
      <4>1. Head(wire[w].lane).name \in Names
        BY <1>1, <3>6, RoutesExitDoes
      <4>2. s # 0
        BY Bounds DEF Streams
      <4> QED
        BY <1>1, <2>2, <4>1, <4>2, NoName DEF NamedAlike
    <3> QED
      BY <3>1, <3>2, <3>3, <3>4, <3>5, <3>6 DEF SessionMoves
  <2> QED
    BY <2>1, <2>2
<1>7. ASSUME NEW n \in Names, op'[n].pc \in Placed
      PROVE  Made(op[n].wire)'
  <2>1. CASE TakesWire(n)
    BY <1>5, <2>1 DEF Made
  <2>2. CASE ~TakesWire(n)
    <3>1. OpTurns(n)
      BY <1>1, OpsMove
    <3>2. op[n].pc \in Placed /\ op'[n].wire = op[n].wire
      <4>1. Registers(n) => op[n].pc \in Placed /\ op'[n].wire = op[n].wire
        BY <1>1, RegistersDoes DEF MadeInv, Placed
      <4>2. Writes(n) => op[n].pc \in Placed /\ op'[n].wire = op[n].wire
        BY <1>1, WritesDo DEF Placed
      <4>3. OpenFails(n) \/ Opened(n) => op'[n].pc \notin Placed
        BY <1>1, OpenFailsDoes, OpenedDoes DEF Placed
      <4>4. Told(n) => op[n].pc \in Placed /\ op'[n].wire = op[n].wire
        BY DEF Told, Placed
      <4> QED
        BY <1>7, <2>2, <3>1, <4>1, <4>2, <4>3, <4>4 DEF OpTurns, Away
    <3> QED
      BY <1>3, <3>2 DEF MadeInv, Made
  <2> QED
    BY <2>1, <2>2
<1>8. ASSUME NEW w \in Wires, wire'[w].st = "up"
      PROVE  w = slot'
  <2>1. CASE wire[w].st = "up"
    <3>1. w = slot /\ slot # 0
      BY <2>1, Bounds DEF MadeInv, Wires
    <3>2. Alive(slot)
      BY <2>1, <3>1 DEF Alive
    <3> QED
      BY <1>4, <3>1, <3>2
  <2>2. CASE wire[w].st # "up"
    BY <1>2, <1>8, <2>2
  <2> QED
    BY <2>1, <2>2
<1>9. slot' # 0 => Made(slot)'
  BY <1>3, <1>4, <1>5 DEF MadeInv, Made
<1> QED
  BY <1>6, <1>7, <1>8, <1>9 DEF MadeInv, Made

\* A child takes a lane for the request that the runner answers, and only then.
Serves(w, c) == LET q == Head(wire[w].asked) IN
  /\ wire[w].st = "up" /\ wire[w].asked # <<>> /\ q \in Create /\ q \in In(wire[w].asked)
  /\ child[c].st \in {"running", "unborn"}
  /\ child[c].st = "running" => ~Attached(c)
  /\ child'[c].st \in {"running", "exited"} /\ child'[c].name = q.name
  /\ child'[c].lane = w /\ child'[c].stream = q.stream
  /\ child[c].st = "running" => registry[q.name] = c /\ child[c].name = q.name /\ child'[c].order = child[c].order
  /\ child[c].st = "unborn" => ~Runs(q.name)
  /\ \A d \in Children \ {c} : child'[d] = child[d]
  /\ UNCHANGED <<slot, sink, session, held, op, restart>>
  /\ history'.overdue = history.overdue /\ history'.crossed = history.crossed
  /\ \A v \in Wires \ {w} : wire'[v] = wire[v]
  /\ wire'[w].st = "up" /\ wire'[w].lane = wire[w].lane /\ In(wire'[w].asked) \subseteq In(wire[w].asked)
  /\ Distinct(wire[w].asked) => Distinct(wire'[w].asked) /\ \A x \in In(wire'[w].asked) : x.stream # q.stream
  /\ \E a \in Answer :
       /\ a.name = q.name /\ a.stream = q.stream /\ a.child = c
       /\ child'[c].st = "running" => "running" \in a.is
       /\ In(wire'[w].answers) = In(wire[w].answers) \cup {a}
LEMMA ServesOne ==
  ASSUME Base, BornInv, NEW w \in Wires, Attaches(w) \/ Spawns(w)
  PROVE  \E c \in Children : Serves(w, c)
<1>1. WireOK /\ RunnerOK /\ RestOK /\ BornInOrder
  BY BaseIs DEF BornInv
<1>2. PICK q : q = Head(wire[w].asked)
  OBVIOUS
<1>3. CASE Attaches(w)
  <2>1. /\ wire[w].st = "up" /\ wire[w].asked # <<>> /\ q \in Create /\ q.name \in Names
        /\ UNCHANGED <<slot, sink, session, held, op, restart, history>>
    BY <1>1, <1>2, <1>3, AttachesDoes DEF Create
  <2>2. PICK c \in Children : c = registry[q.name]
    BY <1>1, <1>2, <1>3, AttachesDoes
  <2>3. /\ child[c].st = "running" /\ ~Attached(c) /\ \A d \in Children \ {c} : child'[d] = child[d]
        /\ child'[c].name = child[c].name /\ child'[c].order = child[c].order
        /\ child'[c].lane = w /\ child'[c].stream = q.stream
    BY <1>1, <1>2, <1>3, <2>2, AttachesDoes
  <2>4. PICK is \in SUBSET {"running"} :
          /\ Answers(w, q, c, is)
          /\ child'[c].st = "exited" \/ (child'[c].st = "running" /\ "running" \in is)
    BY <1>1, <1>2, <1>3, <2>2, AttachesDoes
  <2>5. child[c].name = q.name
    BY <2>1, <2>2, Bounds DEF BornInv, Children
  <2>6. c \in 0..MaxChildren /\ is \in SUBSET {"begun", "running"}
    BY Bounds
  <2>7. Took(w, c, is)
    BY <1>1, <1>2, <2>1, <2>4, <2>6, AnswersDo
  <2>8. /\ q \in In(wire[w].asked) /\ \A v \in Wires \ {w} : wire'[v] = wire[v]
        /\ wire'[w].st = "up" /\ wire'[w].lane = wire[w].lane
        /\ In(wire'[w].asked) \subseteq In(wire[w].asked)
        /\ Distinct(wire[w].asked) => Distinct(wire'[w].asked) /\ \A x \in In(wire'[w].asked) : x.stream # q.stream
    BY <1>2, <2>1, <2>7 DEF Took
  <2>9. \E a \in Answer :
          /\ a.name = q.name /\ a.stream = q.stream /\ a.child = c
          /\ child'[c].st = "running" => "running" \in a.is
          /\ In(wire'[w].answers) = In(wire[w].answers) \cup {a}
    BY <1>2, <2>4, <2>7 DEF Took
  <2>10. child'[c].st \in {"running", "exited"}
    BY <2>4
  <2>11. Serves(w, c)
    BY <1>2, <2>1, <2>2, <2>3, <2>5, <2>8, <2>9, <2>10 DEF Serves
  <2> QED
    BY <2>11
<1>4. CASE Spawns(w)
  <2>1. /\ wire[w].st = "up" /\ wire[w].asked # <<>> /\ q \in Create /\ ~Runs(q.name)
        /\ UNCHANGED <<slot, sink, session, held, op, restart>>
        /\ history'.overdue = history.overdue /\ history'.crossed = history.crossed
    BY <1>1, <1>2, <1>4, SpawnsDoes
  <2>2. PICK c \in Children : c = NextChild
    BY <1>1, <1>2, <1>4, SpawnsDoes
  <2>3. /\ child[c].st = "unborn" /\ \A d \in Children \ {c} : child'[d] = child[d]
        /\ child'[c].name = q.name /\ child'[c].lane = w /\ child'[c].stream = q.stream
    BY <1>1, <1>2, <1>4, <2>2, SpawnsDoes
  <2>4. PICK is \in SUBSET {"running", "begun"} :
          /\ Answers(w, q, c, is)
          /\ child'[c].st = "exited" \/ (child'[c].st = "running" /\ "running" \in is)
    BY <1>1, <1>2, <1>4, <2>2, SpawnsDoes
  <2>5. c \in 0..MaxChildren /\ is \in SUBSET {"begun", "running"}
    BY Bounds
  <2>6. Took(w, c, is)
    BY <1>1, <1>2, <2>1, <2>4, <2>5, AnswersDo
  <2>7. /\ q \in In(wire[w].asked) /\ \A v \in Wires \ {w} : wire'[v] = wire[v]
        /\ wire'[w].st = "up" /\ wire'[w].lane = wire[w].lane
        /\ In(wire'[w].asked) \subseteq In(wire[w].asked)
        /\ Distinct(wire[w].asked) => Distinct(wire'[w].asked) /\ \A x \in In(wire'[w].asked) : x.stream # q.stream
    BY <1>2, <2>1, <2>6 DEF Took
  <2>8. \E a \in Answer :
          /\ a.name = q.name /\ a.stream = q.stream /\ a.child = c
          /\ child'[c].st = "running" => "running" \in a.is
          /\ In(wire'[w].answers) = In(wire[w].answers) \cup {a}
    BY <1>2, <2>4, <2>6 DEF Took
  <2>9. child'[c].st \in {"running", "exited"}
    BY <2>4
  <2>10. Serves(w, c)
    BY <1>2, <2>1, <2>2, <2>3, <2>7, <2>8, <2>9 DEF Serves
  <2> QED
    BY <2>10
<1> QED
  BY <1>3, <1>4

\* A refusal is an answer that names no child.
LEMMA RefusesOne ==
  ASSUME WireOK, NEW w \in Wires, Refuses(w)
  PROVE  /\ wire[w].st = "up" /\ UNCHANGED <<runner, registry, child, slot, sink, session, held, op, restart, history>>
         /\ \A v \in Wires \ {w} : wire'[v] = wire[v]
         /\ wire'[w].st = "up" /\ wire'[w].lane = wire[w].lane /\ In(wire'[w].asked) \subseteq In(wire[w].asked)
         /\ Distinct(wire[w].asked) => Distinct(wire'[w].asked)
         /\ \E q \in In(wire[w].asked), a \in Answer :
              /\ a.name = q.name /\ a.stream = q.stream /\ a.child = 0 /\ a.is = {}
              /\ In(wire'[w].answers) = In(wire[w].answers) \cup {a}
<1>1. PICK q : q = Head(wire[w].asked)
  OBVIOUS
<1>2. /\ wire[w].st = "up" /\ wire[w].asked # <<>> /\ Answers(w, q, 0, {})
      /\ UNCHANGED <<runner, registry, child, slot, sink, session, held, op, restart, history>>
  BY <1>1, RefusesDoes
<1>3. PICK c \in 0..MaxChildren, is \in SUBSET {"begun", "running"} : c = 0 /\ is = {}
  BY Bounds
<1>4. Took(w, c, is)
  BY <1>1, <1>2, <1>3, AnswersDo
<1> QED
  BY <1>1, <1>2, <1>3, <1>4 DEF Took

\* What comes onto a connection: a request of an open, the answer to a request, and the
\* exit of a child that was relayed over it.
LEMMA CarriesNew ==
  ASSUME Base, BornInv, Next, NEW w \in Wires
  PROVE  /\ \A x \in In(wire'[w].asked) :
              \/ x \in In(wire[w].asked)
              \/ \E n \in Names : Writes(n) /\ op'[n].pc = "asked" /\ w = op[n].wire /\ x.name = n /\ x.stream = op[n].stream
         /\ \A x \in In(wire'[w].answers) :
              \/ x \in In(wire[w].answers)
              \/ \E q \in In(wire[w].asked) :
                   /\ x.name = q.name /\ x.stream = q.stream
                   /\ \/ Refuses(w) /\ x.child = 0 /\ x.is = {}
                      \/ Serves(w, x.child) /\ x.child \in Children /\ q = Head(wire[w].asked)
         /\ \A x \in In(wire'[w].lane) :
              \/ x \in In(wire[w].lane)
              \/ \E c \in Children :
                   SaysExit(c) /\ Attached(c) /\ w = child[c].lane /\ x.name = child[c].name /\ x.stream = child[c].stream
<1>1. WireOK /\ OpOK /\ ClientOK /\ RestOK /\ RunnerOK /\ MadeInOrder /\ BornInOrder
  BY BaseIs DEF BornInv
<1>2. CASE WireFades
  BY <1>2 DEF WireFades
<1>3. ASSUME NEW n \in Names, Writes(n)
      PROVE  /\ \A x \in In(wire'[w].asked) :
                  x \in In(wire[w].asked) \/ (op'[n].pc = "asked" /\ w = op[n].wire /\ x.name = n /\ x.stream = op[n].stream)
             /\ wire'[w].answers = wire[w].answers /\ wire'[w].lane = wire[w].lane
  BY <1>1, <1>3, WritesDo
<1>4. ASSUME NEW v \in Wires, Refuses(v)
      PROVE  /\ In(wire'[w].asked) \subseteq In(wire[w].asked) /\ wire'[w].lane = wire[w].lane
             /\ \A x \in In(wire'[w].answers) :
                  \/ x \in In(wire[w].answers)
                  \/ Refuses(w) /\ \E q \in In(wire[w].asked) : x.name = q.name /\ x.stream = q.stream /\ x.child = 0 /\ x.is = {}
  BY <1>1, <1>4, RefusesOne
<1>5. ASSUME NEW v \in Wires, Attaches(v) \/ Spawns(v)
      PROVE  /\ In(wire'[w].asked) \subseteq In(wire[w].asked) /\ wire'[w].lane = wire[w].lane
             /\ \A x \in In(wire'[w].answers) :
                  \/ x \in In(wire[w].answers)
                  \/ \E q \in In(wire[w].asked) : /\ x.name = q.name /\ x.stream = q.stream
                                                  /\ Serves(w, x.child) /\ x.child \in Children /\ q = Head(wire[w].asked)
  <2>1. PICK c \in Children : Serves(v, c)
    BY <1>5, ServesOne
  <2>2. CASE v # w
    BY <2>1, <2>2 DEF Serves
  <2>3. CASE v = w
    <3>1. /\ In(wire'[w].asked) \subseteq In(wire[w].asked) /\ wire'[w].lane = wire[w].lane
          /\ Head(wire[w].asked) \in In(wire[w].asked)
      BY <2>1, <2>3 DEF Serves
    <3>2. PICK a \in Answer :
            /\ a.name = Head(wire[w].asked).name /\ a.stream = Head(wire[w].asked).stream /\ a.child = c
            /\ In(wire'[w].answers) = In(wire[w].answers) \cup {a}
      BY <2>1, <2>3 DEF Serves
    <3> QED
      BY <2>1, <2>3, <3>1, <3>2
  <2> QED
    BY <2>2, <2>3
<1>6. ASSUME NEW c \in Children, SaysExit(c)
      PROVE  /\ wire'[w].asked = wire[w].asked /\ wire'[w].answers = wire[w].answers
             /\ \A x \in In(wire'[w].lane) :
                  \/ x \in In(wire[w].lane)
                  \/ Attached(c) /\ w = child[c].lane /\ x.name = child[c].name /\ x.stream = child[c].stream
  BY <1>1, <1>6, SaysExitDoes
<1>7. \/ WireFades
      \/ \E n \in Names : Writes(n)
      \/ \E v \in Wires : Refuses(v) \/ Attaches(v) \/ Spawns(v)
      \/ \E c \in Children : SaysExit(c)
  BY <1>1, WireMoves
<1> QED
  BY <1>2, <1>3, <1>4, <1>5, <1>6, <1>7

\* A child has the lane it had, or takes one.
LEMMA LanesMove ==
  ASSUME Base, BornInv, Next, NEW c \in Children, child'[c].lane # 0
  PROVE  \/ child'[c].lane = child[c].lane /\ child'[c].stream = child[c].stream /\ child'[c].name = child[c].name
         \/ \E w \in Wires : Serves(w, c)
<1>1. CASE ChildFades
  BY <1>1 DEF ChildFades
<1>2. ASSUME NEW w \in Wires, Attaches(w) \/ Spawns(w)
      PROVE  child'[c] = child[c] \/ Serves(w, c)
  <2>1. PICK d \in Children : Serves(w, d)
    BY <1>2, ServesOne
  <2> QED
    BY <2>1 DEF Serves
<1> QED
  BY <1>1, <1>2, BaseIs, ChildMoves

\* What belongs to a stream stays with it.
LEMMA BelongsStays ==
  ASSUME Base, Next, NEW s \in Streams, NEW n \in Names, NEW w \in Wires, Belongs(s, n, w)
  PROVE  Belongs(s, n, w)'
BY BaseIs, StreamsStay, NoName DEF Belongs

\* What the connections carry is where it belongs.
LEMMA CarriedStep ==
  ASSUME Base, BornInv, PlaceInv, Next, NEW w \in Wires
  PROVE  /\ \A q \in In(wire'[w].asked) : Belongs(q.stream, q.name, w)'
         /\ \A a \in In(wire'[w].answers) : Belongs(a.stream, a.name, w)'
         /\ \A e \in In(wire'[w].lane) : Belongs(e.stream, e.name, w)'
<1>1. WireOK /\ OpOK /\ RunnerOK
  BY BaseIs
<1>2. /\ \A q \in In(wire[w].asked) : q \in Create /\ Belongs(q.stream, q.name, w)
      /\ \A a \in In(wire[w].answers) : a \in Answer /\ Belongs(a.stream, a.name, w)
      /\ \A e \in In(wire[w].lane) : e \in Exit /\ Belongs(e.stream, e.name, w)
  BY <1>1, CarriedIs DEF PlaceInv
<1>3. /\ \A q \in Create : q.stream \in Streams /\ q.name \in Names
      /\ \A a \in Answer : a.stream \in Streams /\ a.name \in Names
      /\ \A e \in Exit : e.stream \in Streams /\ e.name \in Names
  BY DEF Create, Answer, Exit
<1>4. ASSUME NEW q \in In(wire'[w].asked)
      PROVE  Belongs(q.stream, q.name, w)'
  <2>1. CASE q \in In(wire[w].asked)
    BY <1>2, <1>3, <2>1, BelongsStays
  <2>2. ASSUME NEW n \in Names, Writes(n), w = op[n].wire, q.name = n, q.stream = op[n].stream
        PROVE  Belongs(q.stream, q.name, w)'
    <3>1. op[n].pc = "write" /\ op[n].stream \in Streams
      BY <1>1, <2>2 DEF Writes, At, OpOK, Placed
    <3>2. Belongs(q.stream, q.name, w) /\ q.stream \in Streams /\ q.name \in Names
      BY <2>2, <3>1 DEF PlaceInv, Speaking, Placed
    <3> QED
      BY <3>2, BelongsStays
  <2> QED
    BY <2>1, <2>2, CarriesNew
<1>5. ASSUME NEW a \in In(wire'[w].answers)
      PROVE  Belongs(a.stream, a.name, w)'
  <2>1. CASE a \in In(wire[w].answers)
    BY <1>2, <1>3, <2>1, BelongsStays
  <2>2. ASSUME NEW q \in In(wire[w].asked), a.name = q.name, a.stream = q.stream
        PROVE  Belongs(a.stream, a.name, w)'
    <3>1. Belongs(a.stream, a.name, w) /\ a.stream \in Streams /\ a.name \in Names
      BY <1>2, <1>3, <2>2
    <3> QED
      BY <3>1, BelongsStays
  <2> QED
    BY <2>1, <2>2, CarriesNew
<1>6. ASSUME NEW e \in In(wire'[w].lane)
      PROVE  Belongs(e.stream, e.name, w)'
  <2>1. CASE e \in In(wire[w].lane)
    BY <1>2, <1>3, <2>1, BelongsStays
  <2>2. ASSUME NEW c \in Children, Attached(c), w = child[c].lane, e.name = child[c].name, e.stream = child[c].stream
        PROVE  Belongs(e.stream, e.name, w)'
    <3>1. child[c].lane # 0
      BY <2>2 DEF Attached, Up
    <3>2. Belongs(e.stream, e.name, w) /\ e.stream \in Streams /\ e.name \in Names
      BY <1>1, <2>2, <3>1 DEF PlaceInv, RunnerOK
    <3> QED
      BY <3>2, BelongsStays
  <2> QED
    BY <2>1, <2>2, CarriesNew
<1> QED
  BY <1>4, <1>5, <1>6

\* Every step keeps everything where it belongs.
LEMMA PlaceStep ==
  ASSUME Base, BornInv, MadeInv, PlaceInv, Next
  PROVE  PlaceInv'
<1>1. WireOK /\ OpOK /\ ClientOK /\ RestOK /\ RunnerOK /\ MadeInOrder /\ OpenedInOrder /\ NamedAlike /\ BornInOrder
  BY BaseIs DEF BornInv
<1>2. \A w \in Wires : /\ \A q \in In(wire'[w].asked) : Belongs(q.stream, q.name, w)'
                       /\ \A a \in In(wire'[w].answers) : Belongs(a.stream, a.name, w)'
                       /\ \A e \in In(wire'[w].lane) : Belongs(e.stream, e.name, w)'
  BY CarriedStep
<1>3. ASSUME NEW c \in Children, child'[c].lane # 0
      PROVE  Belongs(child[c].stream, child[c].name, child[c].lane)'
  <2>1. CASE child'[c].lane = child[c].lane /\ child'[c].stream = child[c].stream /\ child'[c].name = child[c].name
    <3>1. PICK w \in Wires : w = child[c].lane
      BY <1>1, <1>3, <2>1, Bounds DEF RunnerOK, ChildType, Wires
    <3>2. PICK s \in Streams, n \in Names : s = child[c].stream /\ n = child[c].name
      BY <1>1, <1>3, <2>1 DEF RunnerOK
    <3>3. Belongs(s, n, w)
      BY <1>3, <2>1, <3>1, <3>2 DEF PlaceInv
    <3>4. Belongs(s, n, w)'
      BY <3>3, BelongsStays
    <3> QED
      BY <2>1, <3>1, <3>2, <3>4 DEF Belongs
  <2>2. ASSUME NEW w \in Wires, Serves(w, c)
        PROVE  Belongs(child[c].stream, child[c].name, child[c].lane)'
    <3>1. PICK q \in In(wire[w].asked) : q = Head(wire[w].asked)
      BY <2>2 DEF Serves
    <3>2. q \in Create /\ child'[c].stream = q.stream /\ child'[c].name = q.name /\ child'[c].lane = w
      BY <2>2, <3>1 DEF Serves
    <3>3. PICK s \in Streams, n \in Names : s = q.stream /\ n = q.name
      BY <3>2 DEF Create
    <3>4. Belongs(s, n, w)
      BY <3>3 DEF PlaceInv
    <3>5. Belongs(s, n, w)'
      BY <3>4, BelongsStays
    <3> QED
      BY <3>2, <3>3, <3>5 DEF Belongs
  <2> QED
    BY <1>3, <2>1, <2>2, LanesMove
<1>4. ASSUME NEW n \in Names, op'[n].pc \in Speaking
      PROVE  Belongs(op[n].stream, n, op[n].wire)'
  <2>1. CASE Registers(n)
    <3>1. op'[n].wire = op[n].wire /\ op'[n].stream = NextStream
          /\ session'[NextStream].name = n /\ session'[NextStream].wire = op[n].wire
      BY <1>1, <2>1, RegistersDoes DEF MadeInv
    <3> QED
      BY <3>1 DEF Belongs
  <2>2. CASE ~Registers(n)
    <3>1. op[n].pc \in Speaking /\ op'[n].wire = op[n].wire /\ op'[n].stream = op[n].stream
      <4>1. TakesWire(n) \/ OpenFails(n) \/ Opened(n) => op'[n].pc \notin Speaking
        BY <1>1, TakesWireDoes, OpenFailsDoes, OpenedDoes DEF Placed, Speaking
      <4>2. Writes(n) => op[n].pc \in Speaking /\ op'[n].wire = op[n].wire /\ op'[n].stream = op[n].stream
        BY <1>1, WritesDo DEF Placed, Speaking
      <4>3. OpTurns(n)
        BY <1>1, OpsMove
      <4> QED
        BY <1>4, <2>2, <4>1, <4>2, <4>3 DEF OpTurns, Away, Told, Placed, Speaking
    <3>2. PICK s \in Streams, w \in Wires : s = op[n].stream /\ w = op[n].wire
      BY <1>1, <3>1 DEF OpOK, Placed, Speaking
    <3>3. Belongs(s, n, w)
      BY <3>1, <3>2 DEF PlaceInv
    <3>4. Belongs(s, n, w)'
      BY <3>3, BelongsStays
    <3> QED
      BY <3>1, <3>2, <3>4 DEF Belongs
  <2> QED
    BY <2>1, <2>2
<1>5. ASSUME NEW w \in Wires, NEW n \in Names, sink'[w][n] # 0
      PROVE  Belongs(sink[w][n], n, w)'
  <2>1. CASE Registers(n) /\ w = op[n].wire
    <3>1. sink'[w][n] = NextStream /\ session'[NextStream].name = n /\ session'[NextStream].wire = w
      BY <1>1, <2>1, RegistersDoes DEF MadeInv
    <3> QED
      BY <3>1 DEF Belongs
  <2>2. CASE sink'[w][n] = sink[w][n]
    <3>1. PICK s \in Streams : s = sink[w][n]
      BY <1>1, <1>5, <2>2, StreamIs DEF ClientOK
    <3>2. Belongs(s, n, w)
      BY <1>5, <2>2, <3>1 DEF PlaceInv
    <3>3. Belongs(s, n, w)'
      BY <3>2, BelongsStays
    <3> QED
      BY <2>2, <3>1, <3>3 DEF Belongs
  <2> QED
    BY <1>1, <1>5, <2>1, <2>2, SinksMove
<1>6. ASSUME NEW s \in Streams, NEW e \in In(session'[s].inbox)
      PROVE  session'[e.stream].name = e.name
  <2>1. ASSUME e \in Exit, session[e.stream].name = e.name
        PROVE  session'[e.stream].name = e.name
    BY <1>1, <2>1, StreamsStay, NoName DEF Exit
  <2>2. CASE e \in In(session[s].inbox)
    <3>1. session[s].inbox \in Seq(Exit)
      BY <1>1 DEF ClientOK, SessionType
    <3> QED
      BY <2>1, <2>2, <3>1, InIs DEF PlaceInv
  <2>3. CASE e \notin In(session[s].inbox)
    <3>1. PICK w \in Wires : RoutesExit(w) /\ s = sink[w][Head(wire[w].lane).name] /\ session[s].reader # "done"
      <4>1. Same(s) \/ Reader(s) => In(session'[s].inbox) \in {{}, In(session[s].inbox)}
        BY <1>1, ReaderDoes, InNone DEF Same
      <4>2. \A n \in Names : Registers(n) /\ s = NextStream => In(session'[s].inbox) = {}
        BY <1>1, RegistersDoes, InNone DEF MadeInv
      <4>3. \A n \in Names : (OpenFails(n) \/ Opened(n)) /\ s = op[n].stream => In(session'[s].inbox) \in {{}, In(session[s].inbox)}
        BY <1>1, OpenFailsDoes, OpenedDoes, InNone
      <4>4. SessionMoves(s)
        BY <1>1, SessionsMove
      <4> QED
        BY <1>6, <2>3, <4>1, <4>2, <4>3, <4>4 DEF SessionMoves
    <3>2. s # 0
      BY Bounds DEF Streams
    <3>3. e = Head(wire[w].lane) /\ e \in Exit
      <4>1. PICK x \in Exit : x = Head(wire[w].lane)
        BY <1>1, <3>1, RoutesExitDoes
      <4>2. In(session'[s].inbox) = In(session[s].inbox) \cup {x}
        BY <1>1, <3>1, <3>2, <4>1, RoutesExitDoes
      <4> QED
        BY <1>6, <2>3, <4>1, <4>2
    <3>4. e \in In(wire[w].lane)
      BY <1>1, <3>1, <3>3, TakenDo, RoutesExitDoes
    <3> QED
      BY <2>1, <3>3, <3>4 DEF PlaceInv, Belongs
  <2> QED
    BY <2>2, <2>3
<1> QED
  BY <1>2, <1>3, <1>4, <1>5, <1>6 DEF PlaceInv

-----------------------------------------------------------------------------
(* Lives.  A session that is read has a child that speaks to it, or its    *)
(* end is on the way: the connection is closing, the stream is routed      *)
(* elsewhere, or an exit is in the lane or already in the inbox.           *)

Lives(w, n, s, c) ==
  \/ child[c].st \in {"running", "exited"} /\ child[c].lane = w /\ child[c].stream = s
  \/ wire[w].st \in {"closed", "over"} \/ sink[w][n] # s
  \/ \E e \in In(wire[w].lane) : e.name = n
  \/ session[s].inbox # <<>>

HeldRead == \A n \in Names : held[n] # 0 =>
  session[held[n]].name = n /\ session[held[n]].reader \in {"reading", "exited", "cut"}
OpenUnread == \A n \in Names : op[n].pc \in Speaking => session[op[n].stream].reader = "none"
LiveInv ==
  /\ HeldRead /\ OpenUnread
  /\ \A s \in Streams : session[s].reader = "reading" =>
       session[s].child \in Children /\ Lives(session[s].wire, session[s].name, s, session[s].child)
  /\ \A n \in Names : op[n].pc = "answered" /\ "running" \in op[n].is =>
       op[n].child \in Children /\ Lives(op[n].wire, n, op[n].stream, op[n].child)
  /\ \A w \in Wires : \A a \in In(wire[w].answers) : "running" \in a.is =>
       a.child \in Children /\ (session[a.stream].reader = "none" => Lives(w, a.name, a.stream, a.child))
  /\ \A w \in Wires, n \in Names : wire[w].st = "over" /\ sink[w][n] # 0 =>
       op[n].stream = sink[w][n] /\ op[n].pc \in {"write", "failed"}

\* What the sections from here on rest on.
Ground == Base /\ BornInv /\ MadeInv /\ PlaceInv
LEMMA GroundIs ==
  ASSUME Ground
  PROVE  /\ Base /\ BornInv /\ MadeInv /\ PlaceInv
         /\ WireOK /\ OpOK /\ ClientOK /\ RestOK /\ RunnerOK
         /\ MadeInOrder /\ OpenedInOrder /\ NamedAlike /\ OpenedUnheld /\ BornInOrder
BY BaseIs DEF Ground, BornInv

\* Whoever opens a stream is the only one.
LEMMA OpensAlone ==
  ASSUME Ground, NEW n \in Names, NEW m \in Names, op[n].pc \in Speaking, op[m].pc \in Speaking, op[n].stream = op[m].stream
  PROVE  m = n
BY GroundIs DEF NamedAlike

\* An exit stays in its lane until it is routed, or the connection is over.
LEMMA LanesKeep ==
  ASSUME Ground, Next, NEW w \in Wires, NEW e \in In(wire[w].lane)
  PROVE  e \in In(wire'[w].lane) \/ wire'[w].st = "over" \/ (RoutesExit(w) /\ e = Head(wire[w].lane))
<1>1. WireOK /\ OpOK /\ ClientOK /\ RestOK /\ RunnerOK /\ MadeInOrder /\ BornInOrder /\ Base /\ BornInv
  BY GroundIs
<1> DEFINE Goal == e \in In(wire'[w].lane) \/ wire'[w].st = "over" \/ (RoutesExit(w) /\ e = Head(wire[w].lane))
<1>2. UNCHANGED wire => Goal
  OBVIOUS
<1>3. ASSUME NEW n \in Names, Open(n) \/ Close(n)
      PROVE  Goal
  <2>1. CASE TakesWire(n)
    <3>1. wire'[w].lane = wire[w].lane
      BY <1>1, <2>1, TakesWireDoes
    <3> QED
      BY <3>1
  <2>2. CASE Writes(n)
    <3>1. wire'[w].lane = wire[w].lane
      BY <1>1, <2>2, WritesDo
    <3> QED
      BY <3>1
  <2>3. CASE ~TakesWire(n) /\ ~Writes(n)
    <3>1. UNCHANGED wire
      BY <1>3, <2>3 DEF Open, OpenBegins, PassesDoor, WaitsNoLonger, FindsNoRunner, Registers, GivesUp, OpenFails, Opened,
         Close, CloseBegins, CloseConnects, CloseKills, CloseEnds, CloseGivesUp
    <3> QED
      BY <1>2, <3>1
  <2> QED
    BY <2>1, <2>2, <2>3
<1>4. ASSUME NEW v \in Wires, Route(v)
      PROVE  Goal
  <2>1. CASE RoutesAnswer(v)
    <3>1. wire'[w].lane = wire[w].lane
      BY <1>1, <2>1, TakenDo DEF RoutesAnswer
    <3> QED
      BY <3>1
  <2>2. CASE RoutesExit(v)
    BY <1>1, <2>2, TakenDo DEF RoutesExit
  <2>3. CASE WireEnds(v)
    BY <1>1, <2>3, WireEndsDoes
  <2> QED
    BY <1>4, <2>1, <2>2, <2>3 DEF Route
<1>5. ASSUME DoorOpens \/ Restart \/ \E s \in Streams : Reader(s)
      PROVE  UNCHANGED wire
  BY <1>5 DEF DoorOpens, Restart, RestartBegins, RestartStops, RestartServes, RestartGivesUp, Reader, Reads, FindsEnd, LetsGo
<1>6. ASSUME Run
      PROVE  Goal
  <2>1. ASSUME NEW v \in Wires, Refuses(v)
        PROVE  wire'[w].lane = wire[w].lane
    BY <1>1, <2>1, RefusesOne
  <2>2. ASSUME NEW v \in Wires, Attaches(v) \/ Spawns(v)
        PROVE  wire'[w].lane = wire[w].lane
    BY <1>1, <2>2, ServesOne DEF Serves
  <2>3. ASSUME NEW c \in Children, Exits(c) \/ OrphanEnds(c)
        PROVE  UNCHANGED wire
    BY <2>3 DEF Exits, OrphanEnds
  <2>4. ASSUME NEW c \in Children, SaysExit(c)
        PROVE  In(wire[w].lane) \subseteq In(wire'[w].lane)
    BY <1>1, <2>4, SaysExitDoes
  <2>5. ASSUME ConnectionDrops \/ RunnerExits \/ RunnerCrashes
        PROVE  wire'[w].lane = wire[w].lane
    <3>1. UNCHANGED wire \/ (Up(slot) /\ Closes(slot))
      BY <2>5 DEF ConnectionDrops, RunnerExits, RunnerCrashes, RunnerGone
    <3>2. ASSUME Up(slot), Closes(slot)
          PROVE  wire'[w].lane = wire[w].lane
      <4>1. PICK v \in Wires : v = slot
        BY <1>1, <3>2, Bounds DEF Up, ClientOK, Wires
      <4> QED
        BY <1>1, <3>2, <4>1, ClosesDo
    <3> QED
      BY <3>1, <3>2
  <2> QED
    BY <1>6, <2>1, <2>2, <2>3, <2>4, <2>5 DEF Run
<1> HIDE DEF Goal
<1>7. Goal
  BY <1>2, <1>3, <1>4, <1>5, <1>6 DEF Next
<1> QED
  BY <1>7 DEF Goal

\* A child that is relayed stays so, unless its connection closes or its exit is said there.
Relayed(c, w, s) == child[c].st \in {"running", "exited"} /\ child[c].lane = w /\ child[c].stream = s
LEMMA RelayedStays ==
  ASSUME Ground, Next, NEW c \in Children, NEW w \in Wires, NEW s \in Streams, Relayed(c, w, s), wire[w].st = "up"
  PROVE  \/ Relayed(c, w, s)' /\ (child[c].st = "exited" => child'[c].st = "exited")
         \/ wire'[w].st = "closed"
         \/ child[c].st = "exited" /\ \E e \in In(wire'[w].lane) : e.name = child[c].name /\ e.stream = s
<1>1. WireOK /\ OpOK /\ ClientOK /\ RestOK /\ RunnerOK /\ MadeInOrder /\ BornInOrder /\ Base /\ BornInv
  BY GroundIs
<1>2. child[c] \in ChildType /\ w # 0 /\ Attached(c) /\ w = slot
  <2>1. child[c] \in ChildType
    BY <1>1 DEF RunnerOK
  <2>2. w # 0
    BY Bounds DEF Wires
  <2>3. Attached(c)
    BY <2>2 DEF Attached, Up, Relayed
  <2>4. w = slot
    BY GroundIs DEF MadeInv
  <2> QED
    BY <2>1, <2>2, <2>3, <2>4
<1> DEFINE Keeps == Relayed(c, w, s)' /\ (child[c].st = "exited" => child'[c].st = "exited")
<1>3. child'[c] = child[c] => Keeps
  BY DEF Relayed
<1>4. ServesFresh => Keeps
  <2>1. ServesFresh => child'[c] = child[c]
    BY DEF ServesFresh, Relayed
  <2> QED
    BY <1>3, <2>1
<1>5. child'[c] = Ordered(c) => Keeps
  BY <1>2 DEF Ordered, ChildType, Relayed
<1>6. ASSUME NEW n \in Names, Open(n)
      PROVE  Keeps
  <2>1. UNCHANGED child \/ ServesFresh
    BY <1>6 DEF Open, OpenBegins, PassesDoor, WaitsNoLonger, TakesWire, FindsNoRunner, Registers, Writes, GivesUp, OpenFails,
       Opened, runnerVars
  <2> QED
    BY <1>3, <1>4, <2>1
<1>7. ASSUME NEW n \in Names, Close(n)
      PROVE  Keeps
  <2>1. CASE CloseKills(n)
    <3>1. child' = child \/ child' = [child EXCEPT ![registry[n]] = Ordered(registry[n])]
      BY <2>1 DEF CloseKills
    <3>2. child'[c] = child[c] \/ child'[c] = Ordered(c)
      BY <1>1, <3>1 DEF RunnerOK
    <3> QED
      BY <1>3, <1>5, <3>2
  <2>2. CASE ~CloseKills(n)
    <3>1. UNCHANGED child
      BY <1>7, <2>2 DEF Close, CloseBegins, CloseConnects, CloseEnds, CloseGivesUp, runnerVars
    <3> QED
      BY <1>3, <3>1
  <2> QED
    BY <2>1, <2>2
<1>8. ASSUME DoorOpens \/ (\E v \in Wires : Route(v)) \/ \E t \in Streams : Reader(t)
      PROVE  Keeps
  <2>1. UNCHANGED child
    BY <1>8 DEF DoorOpens, Route, RoutesAnswer, RoutesExit, WireEnds, Reader, Reads, FindsEnd, LetsGo, runnerVars
  <2> QED
    BY <1>3, <2>1
<1>9. ASSUME Restart
      PROVE  Keeps
  <2>1. UNCHANGED child \/ ServesFresh \/ child'[c] = Ordered(c) \/ child'[c] = child[c]
    BY <1>9 DEF Restart, RestartBegins, RestartStops, RestartServes, RestartGivesUp, runnerVars
  <2> QED
    BY <1>3, <1>4, <1>5, <2>1
<1>10. ASSUME NEW v \in Wires, Refuses(v)
       PROVE  Keeps
  BY <1>3, <1>10 DEF Refuses
<1>11. ASSUME NEW v \in Wires, Attaches(v) \/ Spawns(v)
       PROVE  Keeps
  <2>1. PICK d \in Children : Serves(v, d)
    BY <1>1, <1>11, ServesOne
  <2>2. d # c
    BY <1>2, <2>1 DEF Serves, Relayed
  <2>3. child'[c] = child[c]
    BY <2>1, <2>2 DEF Serves
  <2> QED
    BY <1>3, <2>3
<1>12. ASSUME NEW d \in Children, Exits(d) \/ OrphanEnds(d)
       PROVE  Keeps
  <2>1. CASE d # c
    <3>1. child'[c] = child[c]
      BY <1>1, <1>12, <2>1 DEF Exits, OrphanEnds, RunnerOK
    <3> QED
      BY <1>3, <3>1
  <2>2. CASE d = c
    <3>1. Exits(c)
      BY <1>12, <2>2 DEF OrphanEnds, Relayed
    <3>2. child[c].st = "running" /\ child'[c] = [child[c] EXCEPT !.st = "exited"]
      BY <1>1, <3>1 DEF Exits, RunnerOK
    <3> QED
      BY <1>2, <3>2 DEF ChildType, Relayed
  <2> QED
    BY <2>1, <2>2
<1>13. ASSUME NEW d \in Children, SaysExit(d)
       PROVE  Keeps \/ (child[c].st = "exited" /\ \E e \in In(wire'[w].lane) : e.name = child[c].name /\ e.stream = s)
  <2>1. CASE d # c
    BY <1>1, <1>3, <1>13, <2>1, SaysExitDoes
  <2>2. CASE d = c
    BY <1>1, <1>2, <1>13, <2>2, SaysExitDoes DEF Relayed
  <2> QED
    BY <2>1, <2>2
<1>14. ASSUME ConnectionDrops \/ RunnerExits \/ RunnerCrashes
       PROVE  wire'[w].st = "closed"
  <2>1. Up(slot)
    BY <1>2 DEF Up
  <2>2. Closes(w)
    BY <1>2, <1>14, <2>1 DEF ConnectionDrops, RunnerExits, RunnerCrashes, RunnerGone
  <2> QED
    BY <1>1, <2>2, ClosesDo
<1> HIDE DEF Keeps
<1>15. \/ Keeps \/ wire'[w].st = "closed"
       \/ child[c].st = "exited" /\ \E e \in In(wire'[w].lane) : e.name = child[c].name /\ e.stream = s
  BY <1>6, <1>7, <1>8, <1>9, <1>10, <1>11, <1>12, <1>13, <1>14 DEF Next, Run
<1> QED
  BY <1>15 DEF Keeps

\* A stream that is not yet read, or still read, was so, and what it has received stays.
LEMMA StillRead ==
  ASSUME Ground, OpenUnread, Next, NEW s \in Streams, session[s].name # "none", session'[s].reader \in {"none", "reading"}
  PROVE  /\ \/ session'[s].reader = session[s].reader /\ session'[s].child = session[s].child
            \/ \E n \in Names : /\ Opened(n) /\ s = op[n].stream /\ "running" \in op[n].is
                                /\ session[s].reader = "none"
                                /\ session'[s].reader = "reading" /\ session'[s].child = op[n].child
         /\ session[s].inbox # <<>> => session'[s].inbox # <<>>
<1>1. WireOK /\ OpOK /\ ClientOK /\ RestOK /\ RunnerOK /\ MadeInv /\ OpenedInOrder
  BY GroundIs
<1>2. SessionMoves(s)
  BY <1>1, SessionsMove
<1>3. CASE Same(s)
  BY <1>3 DEF Same
<1>4. ~Reader(s)
  BY <1>1, ReaderDoes
<1>5. \A n \in Names : ~(Registers(n) /\ s = NextStream)
  BY <1>1, RegistersDoes DEF MadeInv
<1>6. ASSUME NEW n \in Names, OpenFails(n), s = op[n].stream
      PROVE  FALSE
  BY <1>1, <1>6, OpenFailsDoes
<1>7. ASSUME NEW n \in Names, Opened(n), s = op[n].stream
      PROVE  /\ "running" \in op[n].is /\ session[s].reader = "none" /\ session'[s].inbox = session[s].inbox
             /\ session'[s].reader = "reading" /\ session'[s].child = op[n].child
  <2>1. session[s].reader = "none"
    BY <1>7 DEF OpenUnread, Opened, At, Speaking, Placed
  <2> QED
    BY <1>1, <1>7, <2>1, OpenedDoes
<1>8. ASSUME NEW w \in Wires, RoutesExit(w), s = sink[w][Head(wire[w].lane).name], session[s].reader # "done"
      PROVE  session'[s].reader = session[s].reader /\ session'[s].child = session[s].child /\ session'[s].inbox # <<>>
  <2>1. s # 0
    BY Bounds DEF Streams
  <2> QED
    BY <1>1, <1>8, <2>1, RoutesExitDoes
<1> QED
  BY <1>2, <1>3, <1>4, <1>5, <1>6, <1>7, <1>8 DEF SessionMoves

\* A stream nothing is routed to any more is never routed to again.
LEMMA StaysUnrouted ==
  ASSUME Ground, Next, NEW s \in Streams, NEW n \in Names, NEW w \in Wires, Belongs(s, n, w), sink[w][n] # s
  PROVE  sink'[w][n] # s
<1>1. WireOK /\ OpOK /\ ClientOK /\ RestOK /\ MadeInv /\ OpenedInOrder
  BY GroundIs
<1>2. s # 0 /\ session[s].name # "none"
  BY Bounds, NoName DEF Streams, Belongs
<1>3. Registers(n) /\ w = op[n].wire => sink'[w][n] # s
  BY <1>1, <1>2, RegistersDoes DEF MadeInv
<1> QED
  BY <1>1, <1>2, <1>3, SinksMove

\* A session lives on, or its end is on the way.
LEMMA LivesStays ==
  ASSUME Ground, OpenUnread, Next, NEW s \in Streams, NEW n \in Names, NEW w \in Wires, NEW c \in Children,
         Belongs(s, n, w), Lives(w, n, s, c), session'[s].reader \in {"none", "reading"}
  PROVE  Lives(w, n, s, c)'
<1>1. WireOK /\ OpOK /\ ClientOK /\ RestOK /\ RunnerOK /\ MadeInOrder /\ BornInOrder /\ MadeInv /\ PlaceInv
  BY GroundIs
<1>2. session[s].name = n /\ session[s].wire = w /\ n # "none" /\ s # 0
  BY NoName, Bounds DEF Belongs, Streams
<1>3. wire[w].st \in {"up", "closed", "over"}
  BY <1>1, <1>2 DEF MadeInv, Made, WireOK, WireType
<1>4. CASE wire[w].st \in {"closed", "over"}
  <2>1. wire'[w].st \in {"closed", "over"}
    BY <1>1, <1>4, WireStates
  <2> QED
    BY <2>1 DEF Lives
<1>5. CASE sink[w][n] # s
  BY <1>5, StaysUnrouted DEF Lives
<1>6. CASE session[s].inbox # <<>>
  BY <1>2, <1>6, StillRead DEF Lives
<1>7. ASSUME NEW e \in In(wire[w].lane), e.name = n
      PROVE  Lives(w, n, s, c)'
  <2>1. CASE e \in In(wire'[w].lane)
    BY <1>7, <2>1 DEF Lives
  <2>2. CASE wire'[w].st = "over"
    BY <2>2 DEF Lives
  <2>3. CASE RoutesExit(w) /\ e = Head(wire[w].lane)
    <3>1. sink'[w][n] = 0
      BY <1>1, <1>7, <2>3, RoutesExitDoes
    <3> QED
      BY <1>2, <3>1 DEF Lives
  <2> QED
    BY <2>1, <2>2, <2>3, LanesKeep
<1>8. CASE Relayed(c, w, s) /\ wire[w].st = "up"
  <2>1. w # 0
    BY Bounds DEF Wires
  <2>2. child[c].name = n
    BY <1>1, <1>2, <1>8, <2>1 DEF PlaceInv, Belongs, Relayed
  <2>3. CASE Relayed(c, w, s)'
    BY <2>3 DEF Relayed, Lives
  <2>4. CASE wire'[w].st = "closed"
    BY <2>4 DEF Lives
  <2>5. CASE \E e \in In(wire'[w].lane) : e.name = child[c].name
    BY <2>2, <2>5 DEF Lives
  <2> QED
    BY <1>8, <2>3, <2>4, <2>5, RelayedStays
<1> QED
  BY <1>3, <1>4, <1>5, <1>6, <1>7, <1>8 DEF Lives, Relayed

\* A conversation is held from its open on, and until its reader or a close lets go of it.
LEMMA HeldMoves ==
  ASSUME Ground, Next, NEW n \in Names
  PROVE  \/ held'[n] \in {0, held[n]}
         \/ /\ Opened(n) /\ "running" \in op[n].is /\ held'[n] = op[n].stream
            /\ session'[op[n].stream].name = session[op[n].stream].name /\ session'[op[n].stream].reader = "reading"
<1>1. WireOK /\ OpOK /\ ClientOK /\ RestOK
  BY GroundIs
<1>2. UNCHANGED held => held'[n] = held[n]
  OBVIOUS
<1>3. ASSUME NEW m \in Names, Open(m)
      PROVE  UNCHANGED held \/ Opened(m)
  BY <1>3 DEF Open, OpenBegins, PassesDoor, WaitsNoLonger, TakesWire, FindsNoRunner, Registers, Writes, GivesUp, OpenFails, clientVars
<1>4. ASSUME NEW m \in Names, Opened(m)
      PROVE  \/ held'[n] \in {0, held[n]}
             \/ /\ m = n /\ "running" \in op[n].is /\ held'[n] = op[n].stream
                /\ session'[op[n].stream].name = session[op[n].stream].name /\ session'[op[n].stream].reader = "reading"
  BY <1>1, <1>4, OpenedDoes
<1>5. ASSUME NEW m \in Names, Close(m)
      PROVE  held'[n] \in {0, held[n]}
  <2>1. CASE CloseBegins(m)
    BY <1>1, <2>1, CloseBeginsDoes
  <2>2. CASE ~CloseBegins(m)
    BY <1>5, <2>2 DEF Close, CloseConnects, CloseKills, CloseEnds, CloseGivesUp, clientVars
  <2> QED
    BY <2>1, <2>2
<1>6. ASSUME DoorOpens \/ Run \/ Restart \/ \E w \in Wires : Route(w)
      PROVE  UNCHANGED held
  <2>1. CASE DoorOpens \/ Run
    BY <2>1 DEF DoorOpens, Run, Refuses, Attaches, Spawns, Exits, SaysExit, OrphanEnds, ConnectionDrops, RunnerExits,
       RunnerCrashes, RunnerGone, clientVars
  <2>2. CASE Restart \/ \E w \in Wires : Route(w)
    BY <2>2 DEF Restart, RestartBegins, RestartStops, RestartServes, RestartGivesUp, Route, RoutesAnswer, RoutesExit, WireEnds,
       clientVars
  <2> QED
    BY <1>6, <2>1, <2>2
<1>7. ASSUME NEW s \in Streams, Reader(s)
      PROVE  held'[n] \in {0, held[n]}
  BY <1>1, <1>7, ReaderDoes
<1> QED
  BY <1>2, <1>3, <1>4, <1>5, <1>6, <1>7 DEF Next

\* What an open or a close does moves its own operation only.
LEMMA OthersStay ==
  ASSUME Ground, NEW n \in Names, Open(n) \/ Close(n)
  PROVE  \A m \in Names \ {n} : op'[m] = op[m]
<1>1. WireOK /\ OpOK /\ ClientOK /\ RestOK /\ MadeInOrder
  BY GroundIs
<1>2. CASE TakesWire(n) \/ Writes(n) \/ OpenFails(n) \/ Opened(n)
  BY <1>1, <1>2, TakesWireDoes, WritesDo, OpenFailsDoes, OpenedDoes
<1>3. CASE Registers(n)
  BY <1>1, <1>3 DEF Registers, OpOK
<1>4. CASE OpenBegins(n) \/ PassesDoor(n) \/ WaitsNoLonger(n) \/ FindsNoRunner(n) \/ GivesUp(n)
  BY <1>1, <1>4, GoesOn DEF OpenBegins, PassesDoor, WaitsNoLonger, FindsNoRunner, GivesUp
<1>5. CASE Close(n)
  BY <1>1, <1>5, CloseMoves
<1> QED
  BY <1>2, <1>3, <1>4, <1>5 DEF Open

\* An open is answered by what the connection it asked on brings.
LEMMA AnsweredBy ==
  ASSUME Ground, Next, NEW n \in Names, op'[n].pc = "answered"
  PROVE  \/ op'[n] = op[n]
         \/ /\ op[n].pc = "asked" /\ op'[n].wire = op[n].wire /\ op'[n].stream = op[n].stream
            /\ \E w \in Wires : \E a \in In(wire[w].answers) :
                 /\ RoutesAnswer(w) /\ a = Head(wire[w].answers)
                 /\ a.name = n /\ a.stream = op[n].stream /\ op'[n].child = a.child /\ op'[n].is = a.is
<1>1. WireOK /\ OpOK /\ ClientOK /\ RestOK /\ MadeInOrder
  BY GroundIs
<1>2. OpTurns(n)
  BY <1>1, OpsMove
<1>3. CASE Told(n)
  <2>1. ASSUME NEW m \in Names, Open(m)
        PROVE  FALSE
    <3>1. m = n => ~OpenBegins(m) /\ ~PassesDoor(m) /\ ~WaitsNoLonger(m) /\ ~TakesWire(m) /\ ~FindsNoRunner(m)
                   /\ ~Registers(m) /\ ~Writes(m) /\ ~OpenFails(m) /\ ~Opened(m)
      BY <1>3 DEF Told, OpenBegins, PassesDoor, WaitsNoLonger, TakesWire, FindsNoRunner, Registers, Writes, OpenFails, Opened, At
    <3>2. m = n => ~GivesUp(m)
      BY <1>1, GoesOn DEF GivesUp
    <3>3. m # n => op'[n] = op[n]
      BY <2>1, OthersStay
    <3> QED
      BY <1>3, <2>1, <3>1, <3>2, <3>3 DEF Open, Told
  <2>2. ASSUME NEW m \in Names, Close(m)
        PROVE  FALSE
    BY <1>1, <1>3, <2>2, CloseMoves DEF Away, Told, Placed
  <2>3. ASSUME DoorOpens \/ (\E s \in Streams : Reader(s)) \/ Restart
        PROVE  op' = op
    BY <2>3 DEF DoorOpens, Reader, Reads, FindsEnd, LetsGo, Restart, RestartBegins, RestartStops, RestartServes, RestartGivesUp
  <2>4. ASSUME Run
        PROVE  FALSE
    <3>1. op' = op \/ op'[n] = op[n] \/ op[n].pc \in {"closing", "killing"}
      BY <2>4 DEF Run, Refuses, Attaches, Spawns, Exits, SaysExit, OrphanEnds, ConnectionDrops, RunnerExits, RunnerCrashes, RunnerGone
    <3> QED
      BY <1>3, <3>1 DEF Told
  <2>5. ASSUME NEW w \in Wires, Route(w)
        PROVE  RoutesAnswer(w)
    <3>1. CASE RoutesExit(w)
      BY <1>3, <3>1 DEF RoutesExit, Told
    <3>2. CASE WireEnds(w)
      BY <1>1, <1>3, <3>2, WireEndsDoes DEF Told
    <3> QED
      BY <2>5, <3>1, <3>2 DEF Route
  <2>6. PICK w \in Wires : RoutesAnswer(w)
    BY <1>3, <2>1, <2>2, <2>3, <2>4, <2>5 DEF Next, Told
  <2>7. PICK a \in Answer : a = Head(wire[w].answers) /\ a \in In(wire[w].answers)
    BY <1>1, <2>6, RoutesAnswerDoes, TakenDo
  <2>8. a.name = n /\ a.stream = op[n].stream /\ op'[n].child = a.child /\ op'[n].is = a.is
    BY <1>1, <1>3, <2>6, <2>7, RoutesAnswerDoes DEF Told
  <2> QED
    BY <1>3, <2>6, <2>7, <2>8 DEF Told
<1>4. CASE ~Told(n)
  <2>1. ~TakesWire(n) /\ ~Registers(n) /\ ~Writes(n) /\ ~OpenFails(n) /\ ~Opened(n)
    BY <1>1, GroundIs, TakesWireDoes, RegistersDoes, WritesDo, OpenFailsDoes, OpenedDoes DEF MadeInv
  <2> QED
    BY <1>2, <1>4, <2>1 DEF OpTurns, Away, Placed
<1> QED
  BY <1>3, <1>4

\* The stream of an open stays unread for as long as the open speaks of it.
LEMMA UnreadStep == ASSUME Ground, OpenUnread, HeldRead, Next PROVE OpenUnread'
<1>1. WireOK /\ OpOK /\ ClientOK /\ RestOK /\ MadeInOrder /\ MadeInv /\ NamedAlike /\ OpenedInOrder
  BY GroundIs
<1> SUFFICES ASSUME NEW n \in Names, op'[n].pc \in Speaking
             PROVE  session'[op'[n].stream].reader = "none"
  BY DEF OpenUnread
<1>2. OpTurns(n)
  BY <1>1, OpsMove
<1>3. CASE Registers(n)
  <2>1. op'[n].stream = NextStream /\ session'[NextStream].reader = "none"
    BY <1>1, <1>3, RegistersDoes DEF MadeInv
  <2> QED
    BY <2>1
<1>4. CASE ~Registers(n)
  <2>1. op[n].pc \in Speaking /\ op'[n].stream = op[n].stream /\ ~OpenFails(n) /\ ~Opened(n)
    <3>1. TakesWire(n) \/ OpenFails(n) \/ Opened(n) => op'[n].pc \notin Speaking
      BY <1>1, TakesWireDoes, OpenFailsDoes, OpenedDoes DEF Placed, Speaking
    <3>2. Writes(n) => op[n].pc \in Speaking /\ op'[n].stream = op[n].stream
      BY <1>1, WritesDo DEF Placed, Speaking
    <3> QED
      BY <1>2, <1>4, <3>1, <3>2 DEF OpTurns, Away, Told, Placed, Speaking
  <2>2. PICK s \in Streams : s = op[n].stream
    BY <1>1, <2>1 DEF OpOK, Placed, Speaking
  <2>3. session[s].reader = "none" /\ session[s].name = n
    BY <1>1, <2>1, <2>2 DEF OpenUnread, NamedAlike
  <2>4. SessionMoves(s)
    BY <1>1, SessionsMove
  <2>5. Same(s) => session'[s].reader = "none"
    BY <2>3 DEF Same
  <2>6. ~Reader(s)
    BY <1>1, <2>3, ReaderDoes
  <2>7. \A m \in Names : ~(Registers(m) /\ s = NextStream)
    BY <1>1, <2>3, NoName, RegistersDoes DEF MadeInv
  <2>8. ASSUME NEW m \in Names, OpenFails(m) \/ Opened(m), s = op[m].stream
        PROVE  FALSE
    <3>1. op[m].pc \in Speaking
      BY <2>8 DEF OpenFails, Opened, At, Speaking, Placed
    <3>2. m = n
      BY <2>1, <2>2, <2>8, <3>1, OpensAlone
    <3> QED
      BY <2>1, <2>8, <3>2
  <2>9. ASSUME NEW w \in Wires, RoutesExit(w), s = sink[w][Head(wire[w].lane).name], session[s].reader # "done"
        PROVE  session'[s].reader = "none"
    <3>1. s # 0
      BY Bounds DEF Streams
    <3> QED
      BY <1>1, <2>3, <2>9, <3>1, RoutesExitDoes
  <2> QED
    BY <2>1, <2>2, <2>4, <2>5, <2>6, <2>7, <2>8, <2>9 DEF SessionMoves
<1> QED
  BY <1>3, <1>4

\* A conversation is held by a session of its own that somebody reads.
LEMMA HeldStep == ASSUME Ground, OpenUnread, HeldRead, Next PROVE HeldRead'
<1>1. WireOK /\ OpOK /\ ClientOK /\ RestOK /\ MadeInOrder /\ MadeInv /\ NamedAlike /\ OpenedInOrder
  BY GroundIs
<1> SUFFICES ASSUME NEW n \in Names, held'[n] # 0
             PROVE  session'[held'[n]].name = n /\ session'[held'[n]].reader \in {"reading", "exited", "cut"}
  BY DEF HeldRead
<1>2. CASE Opened(n) /\ "running" \in op[n].is /\ held'[n] = op[n].stream
           /\ session'[op[n].stream].name = session[op[n].stream].name /\ session'[op[n].stream].reader = "reading"
  <2>1. session[op[n].stream].name = n
    BY <1>1, <1>2 DEF Opened, At, NamedAlike, Speaking, Placed
  <2> QED
    BY <1>2, <2>1
<1>3. CASE held'[n] = held[n]
  <2>1. PICK s \in Streams : s = held[n]
    BY <1>1, <1>3, StreamIs DEF ClientOK
  <2>2. session[s].name = n /\ session[s].reader \in {"reading", "exited", "cut"}
    BY <1>3, <2>1 DEF HeldRead
  <2>3. session'[s].name = n
    BY <1>1, <2>2, NoName, StreamsStay
  <2>4. SessionMoves(s)
    BY <1>1, SessionsMove
  <2>5. Same(s) => session'[s].reader = session[s].reader
    BY DEF Same
  <2>6. Reader(s) => session'[s].reader \in {"exited", "cut"}
    <3>1. s # 0
      BY Bounds DEF Streams
    <3> QED
      BY <1>1, <1>3, <2>1, <2>2, <3>1, ReaderDoes
  <2>7. \A m \in Names : ~(Registers(m) /\ s = NextStream)
    BY <1>1, <2>2, NoName, RegistersDoes DEF MadeInv
  <2>8. ASSUME NEW m \in Names, OpenFails(m) \/ Opened(m), s = op[m].stream
        PROVE  FALSE
    BY <2>2, <2>8 DEF OpenFails, Opened, At, Speaking, Placed, OpenUnread
  <2>9. ASSUME NEW w \in Wires, RoutesExit(w), s = sink[w][Head(wire[w].lane).name], session[s].reader # "done"
        PROVE  session'[s].reader = session[s].reader
    <3>1. s # 0
      BY Bounds DEF Streams
    <3> QED
      BY <1>1, <2>9, <3>1, RoutesExitDoes
  <2> QED
    BY <1>3, <2>1, <2>2, <2>3, <2>4, <2>5, <2>6, <2>7, <2>8, <2>9 DEF SessionMoves
<1> QED
  BY <1>2, <1>3, HeldMoves

\* A session that is read has its child, or its end on the way.
LEMMA ReadStep ==
  ASSUME Ground, LiveInv, Next, NEW s \in Streams, session'[s].reader = "reading"
  PROVE  session'[s].child \in Children /\ Lives(session[s].wire, session[s].name, s, session[s].child)'
<1>1. WireOK /\ OpOK /\ ClientOK /\ RestOK /\ MadeInOrder /\ MadeInv /\ PlaceInv /\ OpenedInOrder /\ OpenUnread /\ NamedAlike
  BY GroundIs DEF LiveInv
<1>2. session[s].name # "none"
  <2>1. SUFFICES ASSUME session[s].name = "none" PROVE FALSE
    OBVIOUS
  <2>2. Unused(s) /\ SessionMoves(s)
    BY <1>1, <2>1, SessionsMove DEF MadeInv
  <2>3. ~Same(s) /\ ~Reader(s)
    BY <1>1, <2>2, ReaderDoes DEF Same, Unused
  <2>4. \A m \in Names : ~(Registers(m) /\ s = NextStream)
    BY <1>1, RegistersDoes DEF MadeInv
  <2>5. ASSUME NEW m \in Names, OpenFails(m) \/ Opened(m), s = op[m].stream
        PROVE  FALSE
    BY <1>1, <2>1, <2>5, NoName DEF OpenFails, Opened, At, Speaking, Placed, NamedAlike
  <2>6. ASSUME NEW w \in Wires, RoutesExit(w), s = sink[w][Head(wire[w].lane).name]
        PROVE  FALSE
    <3>1. s # 0
      BY Bounds DEF Streams
    <3>2. Head(wire[w].lane).name \in Names
      BY <1>1, <2>6, RoutesExitDoes
    <3> QED
      BY <1>1, <2>1, <2>6, <3>1, <3>2, NoName DEF NamedAlike
  <2> QED
    BY <2>2, <2>3, <2>4, <2>5, <2>6 DEF SessionMoves
<1>3. PICK n \in Names, w \in Wires : Belongs(s, n, w)
  <2>1. session[s].wire \in Wires
    BY <1>1, <1>2 DEF MadeInv, Made
  <2>2. session[s].name \in Names
    BY <1>1, <1>2 DEF ClientOK, SessionType
  <2> QED
    BY <2>1, <2>2 DEF Belongs
<1>4. session'[s].name = n /\ session'[s].wire = w
  BY <1>1, <1>2, <1>3, StreamsStay DEF Belongs
<1>5. PICK c \in Children : session'[s].child = c /\ Lives(w, n, s, c)
  <2>1. CASE session'[s].reader = session[s].reader /\ session'[s].child = session[s].child
    BY <1>3, <2>1 DEF LiveInv, Belongs
  <2>2. ASSUME NEW m \in Names, Opened(m), s = op[m].stream, "running" \in op[m].is, session'[s].child = op[m].child
        PROVE  op[m].child \in Children /\ Lives(w, n, s, op[m].child)
    <3>1. op[m].pc = "answered" /\ Belongs(s, m, op[m].wire)
      BY <1>1, <2>2 DEF Opened, At, Speaking, Placed, PlaceInv
    <3>2. m = n /\ op[m].wire = w
      BY <1>3, <3>1 DEF Belongs
    <3> QED
      BY <2>2, <3>1, <3>2 DEF LiveInv
  <2> QED
    BY <1>1, <1>2, <2>1, <2>2, StillRead
<1>6. Lives(w, n, s, c)'
  BY <1>1, <1>3, <1>5, LivesStays
<1> QED
  BY <1>4, <1>5, <1>6 DEF Lives

\* An open that was answered with a running child has it, or its end on the way.
LEMMA AnsweredStep ==
  ASSUME Ground, LiveInv, Next, NEW n \in Names, op'[n].pc = "answered", "running" \in op'[n].is
  PROVE  op'[n].child \in Children /\ Lives(op[n].wire, n, op[n].stream, op[n].child)'
<1>1. WireOK /\ OpOK /\ ClientOK /\ RestOK /\ MadeInOrder /\ MadeInv /\ PlaceInv /\ OpenedInOrder /\ OpenUnread /\ HeldRead
  BY GroundIs DEF LiveInv
<1>2. op[n].pc \in Speaking /\ op'[n].wire = op[n].wire /\ op'[n].stream = op[n].stream
  BY AnsweredBy DEF Speaking, Placed
<1>3. PICK s \in Streams, w \in Wires : s = op[n].stream /\ w = op[n].wire
  BY <1>1, <1>2 DEF OpOK, Placed, Speaking
<1>4. Belongs(s, n, w) /\ session[s].reader = "none"
  BY <1>1, <1>2, <1>3 DEF PlaceInv, OpenUnread
<1>5. session'[s].reader = "none"
  <2>1. op'[n].pc \in Speaking /\ OpenUnread'
    BY <1>1, UnreadStep DEF Speaking, Placed
  <2> QED
    BY <1>2, <1>3, <2>1 DEF OpenUnread
<1>6. PICK c \in Children : op'[n].child = c /\ Lives(w, n, s, c)
  <2>1. CASE op'[n] = op[n]
    BY <1>3, <2>1 DEF LiveInv
  <2>2. ASSUME NEW v \in Wires, NEW a \in In(wire[v].answers), a.name = n, a.stream = op[n].stream,
               op'[n].child = a.child, op'[n].is = a.is
        PROVE  a.child \in Children /\ Lives(w, n, s, a.child)
    <3>1. Belongs(s, n, v)
      BY <1>1, <1>3, <2>2 DEF PlaceInv
    <3>2. v = w
      BY <1>4, <3>1 DEF Belongs
    <3> QED
      BY <1>3, <1>4, <2>2, <3>2 DEF LiveInv
  <2> QED
    BY <2>1, <2>2, AnsweredBy
<1>7. Lives(w, n, s, c)'
  BY <1>1, <1>4, <1>5, <1>6, LivesStays
<1> QED
  BY <1>2, <1>3, <1>6, <1>7 DEF Lives

\* An answer that names a running child has it, or its end on the way.
LEMMA AnswerStep ==
  ASSUME Ground, LiveInv, Next, NEW w \in Wires, NEW a \in In(wire'[w].answers), "running" \in a.is
  PROVE  a.child \in Children /\ (session'[a.stream].reader = "none" => Lives(w, a.name, a.stream, a.child)')
<1>1. WireOK /\ OpOK /\ ClientOK /\ RestOK /\ RunnerOK /\ MadeInv /\ PlaceInv /\ OpenedInOrder /\ OpenUnread /\ HeldRead
      /\ Base /\ BornInv
  BY GroundIs DEF LiveInv
<1>2. CASE a \in In(wire[w].answers)
  <2>1. PICK s \in Streams, n \in Names : s = a.stream /\ n = a.name
    BY <1>1, <1>2, CarriedIs DEF Answer
  <2>2. PICK c \in Children : c = a.child /\ (session[s].reader = "none" => Lives(w, n, s, c))
    BY <1>2, <2>1 DEF LiveInv
  <2>3. Belongs(s, n, w) /\ session[s].name # "none"
    BY <1>1, <1>2, <2>1, NoName DEF PlaceInv, Belongs
  <2>4. ASSUME session'[s].reader = "none"
        PROVE  Lives(w, n, s, c)'
    <3>1. session[s].reader = "none"
      BY <1>1, <2>3, <2>4, StillRead
    <3> QED
      BY <1>1, <2>2, <2>3, <2>4, <3>1, LivesStays
  <2> QED
    BY <2>1, <2>2, <2>4 DEF Lives
<1>3. ASSUME NEW q \in In(wire[w].asked), a.name = q.name, a.stream = q.stream,
             Serves(w, a.child), a.child \in Children, q = Head(wire[w].asked)
      PROVE  Lives(w, a.name, a.stream, a.child)'
  BY <1>3 DEF Serves, Lives
<1> QED
  BY <1>1, <1>2, <1>3, CarriesNew

\* What is routed on a connection that is over is an open that finds it so.
LEMMA OverStep ==
  ASSUME Ground, LiveInv, Next, NEW w \in Wires, NEW n \in Names, wire'[w].st = "over", sink'[w][n] # 0
  PROVE  op'[n].stream = sink'[w][n] /\ op'[n].pc \in {"write", "failed"}
<1>1. WireOK /\ OpOK /\ ClientOK /\ RestOK /\ RunnerOK /\ MadeInv /\ PlaceInv /\ OpenedInOrder /\ MadeInOrder /\ BornInOrder
  BY GroundIs
<1>2. CASE Registers(n) /\ w = op[n].wire
  BY <1>1, <1>2, RegistersDoes DEF MadeInv
<1>3. CASE ~(Registers(n) /\ w = op[n].wire)
  <2>1. sink'[w][n] = sink[w][n] /\ sink[w][n] # 0
    BY <1>1, <1>3, SinksMove
  <2>2. wire[w].st = "over"
    BY <1>1, <2>1, WireStates, WireEndsDoes
  <2>3. op[n].stream = sink[w][n] /\ op[n].pc \in {"write", "failed"}
    BY <2>1, <2>2 DEF LiveInv
  <2>4. op[n].wire = w
    BY <1>1, <2>1, <2>3 DEF PlaceInv, Belongs, Speaking, Placed
  <2>5. ~TakesWire(n) /\ ~Registers(n) /\ ~Opened(n) /\ ~Told(n) /\ ~Away(n)
    BY <2>3 DEF TakesWire, Registers, Opened, At, Told, Away, Placed
  <2>6. ~OpenFails(n)
    BY <1>1, <2>1, <2>4, OpenFailsDoes
  <2>7. Writes(n) => op'[n].pc = "failed" /\ op'[n].stream = op[n].stream
    BY <1>1, <2>2, <2>4, WritesDo
  <2>8. OpTurns(n)
    BY <1>1, OpsMove
  <2> QED
    BY <2>1, <2>3, <2>5, <2>6, <2>7, <2>8 DEF OpTurns
<1> QED
  BY <1>2, <1>3

\* Every step keeps sessions alive.
LEMMA LiveStep == ASSUME Ground, LiveInv, Next PROVE LiveInv'
<1>1. HeldRead' /\ OpenUnread'
  BY HeldStep, UnreadStep DEF LiveInv
<1>2. \A s \in Streams : session'[s].reader = "reading" =>
        session'[s].child \in Children /\ Lives(session[s].wire, session[s].name, s, session[s].child)'
  BY ReadStep
<1>3. \A n \in Names : op'[n].pc = "answered" /\ "running" \in op'[n].is =>
        op'[n].child \in Children /\ Lives(op[n].wire, n, op[n].stream, op[n].child)'
  BY AnsweredStep
<1>4. \A w \in Wires : \A a \in In(wire'[w].answers) : "running" \in a.is =>
        a.child \in Children /\ (session'[a.stream].reader = "none" => Lives(w, a.name, a.stream, a.child)')
  BY AnswerStep
<1>5. \A w \in Wires, n \in Names : wire'[w].st = "over" /\ sink'[w][n] # 0 =>
        op'[n].stream = sink'[w][n] /\ op'[n].pc \in {"write", "failed"}
  BY OverStep
<1> QED
  BY <1>1, <1>2, <1>3, <1>4, <1>5 DEF LiveInv

\* Nothing changes when nothing happens.
LEMMA BornStutters == ASSUME BornInv, UNCHANGED vars PROVE BornInv'
BY DEF BornInv, BornInOrder, vars, runnerVars
LEMMA MadeStutters == ASSUME MadeInv, UNCHANGED vars PROVE MadeInv'
BY DEF MadeInv, Made, Unused, vars, clientVars
LEMMA PlaceStutters == ASSUME PlaceInv, UNCHANGED vars PROVE PlaceInv'
BY DEF PlaceInv, Belongs, vars, runnerVars, clientVars
LEMMA LiveStutters == ASSUME LiveInv, UNCHANGED vars PROVE LiveInv'
BY DEF LiveInv, HeldRead, OpenUnread, Lives, vars, runnerVars, clientVars

\* What the first state says of everything.
LEMMA Begins ==
  ASSUME Init
  PROVE  /\ \A c \in Children : child[c].st = "unborn" /\ child[c].name = "none" /\ child[c].lane = 0 /\ child[c].stream = 0
         /\ \A n \in Names : registry[n] = 0 /\ held[n] = 0 /\ op[n].pc = "idle"
         /\ \A w \in Wires : /\ wire[w].st = "unmade" /\ In(wire[w].asked) = {} /\ In(wire[w].answers) = {}
                             /\ In(wire[w].lane) = {} /\ Distinct(wire[w].asked)
                             /\ \A n \in Names : sink[w][n] = 0
         /\ \A s \in Streams : /\ session[s].name = "none" /\ session[s].reader = "none" /\ session[s].child = 0
                               /\ session[s].inbox = <<>> /\ session[s].end = "none"
         /\ slot = 0
BY InNone DEF Init, NoStream, NoOp

\* It is so at the beginning, when there is nothing.
LEMMA InitGround == Init => BornInv /\ MadeInv /\ PlaceInv /\ LiveInv
<1> SUFFICES ASSUME Init PROVE BornInv /\ MadeInv /\ PlaceInv /\ LiveInv
  OBVIOUS
<1>1. BornInv
  <2>1. \A c \in Children : ~(c <= 0)
    BY Bounds DEF Children
  <2>2. BornInOrder
    BY <2>1, Begins, Bounds DEF BornInOrder
  <2> QED
    BY <2>2, Begins DEF BornInv
<1>2. MadeInv
  BY Begins DEF MadeInv, Unused, Placed
<1>3. PlaceInv
  BY Begins, InNone DEF PlaceInv, Speaking, Placed
<1>4. LiveInv
  BY Begins DEF LiveInv, HeldRead, OpenUnread, Speaking, Placed
<1> QED
  BY <1>1, <1>2, <1>3, <1>4

\* What other modules proved, and what this one did, hold of every behaviour.
LEMMA BaseHolds == Spec => []Base
<1>1. Init => AskInv /\ OwnInv /\ CloseInv
  BY InitAsks, InitOwns, InitCloses
<1>2. ASSUME TypeInv, AskInv, OwnInv, CloseInv, [Next]_vars
      PROVE  AskInv' /\ OwnInv' /\ CloseInv'
  <2>1. CASE Next
    BY <1>2, <2>1, AskStep, OwnStep, CloseStep DEF TypeInv
  <2>2. CASE UNCHANGED vars
    BY <1>2, <2>2, AskStutters, OwnStutters, CloseStutters
  <2> QED
    BY <1>2, <2>1, <2>2
<1>3. TypeInv /\ AskInv /\ OwnInv /\ CloseInv => Base
  BY DEF Base
<1> QED
  BY <1>1, <1>2, <1>3, TypesHold, PTL DEF Spec

LEMMA GroundHolds == Spec => []Ground
<1>1. Init => BornInv /\ MadeInv /\ PlaceInv
  BY InitGround
<1>2. Base /\ BornInv /\ MadeInv /\ PlaceInv /\ [Next]_vars => BornInv' /\ MadeInv' /\ PlaceInv'
  BY BornStep, BornStutters, MadeStep, MadeStutters, PlaceStep, PlaceStutters
<1>3. Base /\ BornInv /\ MadeInv /\ PlaceInv => Ground
  BY DEF Ground
<1> QED
  BY <1>1, <1>2, <1>3, BaseHolds, PTL DEF Spec

LEMMA LiveHolds == Spec => []LiveInv
<1>1. Init => LiveInv
  BY InitGround
<1>2. Ground /\ LiveInv /\ [Next]_vars => LiveInv'
  BY LiveStep, LiveStutters
<1> QED
  BY <1>1, <1>2, GroundHolds, PTL DEF Spec

\* What is not held for nothing lives.
LEMMA LivesIsAlive == ASSUME Ground, LiveInv PROVE HeldIsAlive
<1> SUFFICES ASSUME NEW n \in Names, held[n] # 0, Settled(held[n])
             PROVE  /\ session[held[n]].reader = "reading"
                    /\ child[session[held[n]].child].st = "running"
                    /\ child[session[held[n]].child].lane = session[held[n]].wire
  BY DEF HeldIsAlive
<1>1. ClientOK /\ PlaceInv /\ MadeInv /\ OpenedUnheld /\ WireOK
  BY GroundIs
<1>2. PICK s \in Streams : s = held[n]
  BY <1>1, StreamIs DEF ClientOK
<1>3. session[s].name = n /\ session[s].reader = "reading"
  BY <1>2 DEF LiveInv, HeldRead, Settled
<1>4. PICK w \in Wires, c \in Children : w = session[s].wire /\ c = session[s].child /\ Lives(w, n, s, c)
  BY <1>1, <1>3, NoName DEF LiveInv, MadeInv, Made
<1>5. wire[w].st # "closed" /\ wire[w].lane = <<>> /\ session[s].inbox = <<>> /\ child[c].st # "exited"
  BY <1>2, <1>4 DEF Settled
<1>6. sink[w][n] = s
  BY <1>2, <1>3, <1>4, <1>5 DEF Settled, Severed
<1>7. wire[w].st # "over"
  <2>1. SUFFICES ASSUME wire[w].st = "over" PROVE FALSE
    OBVIOUS
  <2>2. s # 0
    BY Bounds DEF Streams
  <2>3. op[n].pc \in {"write", "failed"}
    BY <1>6, <2>1, <2>2 DEF LiveInv
  <2> QED
    BY <1>1, <2>3 DEF OpenedUnheld, Opening, Placed
<1>8. ~\E e \in In(wire[w].lane) : e.name = n
  BY <1>5, InNone
<1>9. child[c].st \in {"running", "exited"} /\ child[c].lane = w
  BY <1>4, <1>5, <1>6, <1>7, <1>8 DEF Lives
<1> QED
  BY <1>2, <1>3, <1>4, <1>5, <1>9

(* HeldIsAlive: once nothing is on its way to it any more, a session the   *)
(* backend holds is read by its reader, and its child runs and speaks to   *)
(* the connection it is read from.  No exit, lost connection or runner     *)
(* that died leaves a conversation held by a session that is dead, for any *)
(* conversations and any number of connections, streams and processes.     *)
THEOREM HeldSessionsAreAlive == Spec => []HeldIsAlive
<1>1. Ground /\ LiveInv => HeldIsAlive
  BY LivesIsAlive
<1> QED
  BY <1>1, GroundHolds, LiveHolds, PTL

-----------------------------------------------------------------------------
(* Once.  A stream is asked for once, so that one child at most ever       *)
(* speaks to it, and an exit said on it is that child's.                   *)

Requested(s) == \E w \in Wires : \E q \in In(wire[w].asked) : q.stream = s
Attends(c, s) == child[c].lane # 0 /\ child[c].stream = s
Said(s) == \/ \E w \in Wires : \E e \in In(wire[w].lane) : e.stream = s
           \/ \E t \in Streams : \E e \in In(session[t].inbox) : e.stream = s
Knows(s, c) == \/ \E w \in Wires : \E a \in In(wire[w].answers) : a.stream = s /\ a.child = c
               \/ \E n \in Names : op[n].pc = "answered" /\ op[n].stream = s /\ op[n].child = c
               \/ session[s].child = c
Untouched(s) == ~Said(s) /\ \A c \in Children : ~Attends(c, s) /\ ~Knows(s, c)

OnceInv ==
  /\ \A n \in Names : op[n].pc = "write" => ~Requested(op[n].stream) /\ Untouched(op[n].stream)
  /\ \A w \in Wires : Distinct(wire[w].asked)
  /\ \A s \in Streams : Requested(s) => Untouched(s)
  /\ \A s \in Streams, c \in Children : Attends(c, s) =>
       ~Said(s) /\ \A d \in Children : Attends(d, s) => d = c
  /\ \A s \in Streams, c \in Children : Knows(s, c) =>
       /\ child[c].name = session[s].name
       /\ Said(s) => child[c].st = "gone"
       /\ \A d \in Children : Attends(d, s) => d = c

\* The stream that a request being answered asked for.
Serving(w, c, s) == Serves(w, c) /\ Head(wire[w].asked).stream = s

\* What is asked anew is a stream that an open writes of.
LEMMA RequestedMoves ==
  ASSUME Ground, Next, NEW s, Requested(s)'
  PROVE  Requested(s) \/ \E n \in Names : Writes(n) /\ op[n].stream = s
<1>1. PICK w \in Wires : \E q \in In(wire'[w].asked) : q.stream = s
  BY DEF Requested
<1> QED
  BY <1>1, GroundIs, CarriesNew DEF Requested

\* What a child attends to anew is a stream it was asked for.
LEMMA AttendsMoves ==
  ASSUME Ground, Next, NEW s, NEW c \in Children, Attends(c, s)'
  PROVE  Attends(c, s) \/ \E w \in Wires : Serving(w, c, s)
<1>1. child'[c].lane # 0 /\ child'[c].stream = s
  BY DEF Attends
<1>2. CASE child'[c].lane = child[c].lane /\ child'[c].stream = child[c].stream
  BY <1>1, <1>2 DEF Attends
<1>3. ASSUME NEW w \in Wires, Serves(w, c)
      PROVE  Serving(w, c, s)
  <2>1. child'[c].stream = Head(wire[w].asked).stream
    BY <1>3 DEF Serves
  <2> QED
    BY <1>1, <1>3, <2>1 DEF Serving
<1> QED
  BY <1>1, <1>2, <1>3, GroundIs, LanesMove

\* What is in an inbox was there, or comes from a lane.
LEMMA InboxMoves ==
  ASSUME Ground, Next, NEW t \in Streams, NEW e \in In(session'[t].inbox)
  PROVE  \/ e \in In(session[t].inbox)
         \/ \E w \in Wires : RoutesExit(w) /\ e = Head(wire[w].lane) /\ e \in In(wire[w].lane)
<1>1. WireOK /\ OpOK /\ ClientOK /\ RestOK /\ MadeInv /\ OpenedInOrder
  BY GroundIs
<1>2. SessionMoves(t)
  BY <1>1, SessionsMove
<1>3. Same(t) \/ Reader(t) => In(session'[t].inbox) \in {{}, In(session[t].inbox)}
  BY <1>1, ReaderDoes, InNone DEF Same
<1>4. \A n \in Names : Registers(n) /\ t = NextStream => In(session'[t].inbox) = {}
  BY <1>1, RegistersDoes, InNone DEF MadeInv
<1>5. \A n \in Names : (OpenFails(n) \/ Opened(n)) /\ t = op[n].stream => In(session'[t].inbox) \in {{}, In(session[t].inbox)}
  BY <1>1, OpenFailsDoes, OpenedDoes, InNone
<1>6. ASSUME NEW w \in Wires, RoutesExit(w), t = sink[w][Head(wire[w].lane).name], session[t].reader # "done"
      PROVE  e \in In(session[t].inbox) \/ (e = Head(wire[w].lane) /\ e \in In(wire[w].lane))
  <2>1. t # 0
    BY Bounds DEF Streams
  <2>2. PICK x \in Exit : x = Head(wire[w].lane)
    BY <1>1, <1>6, RoutesExitDoes
  <2>3. In(session'[t].inbox) = In(session[t].inbox) \cup {x}
    BY <1>1, <1>6, <2>1, <2>2, RoutesExitDoes
  <2>4. x \in In(wire[w].lane)
    BY <1>1, <1>6, <2>2, TakenDo, RoutesExitDoes
  <2> QED
    BY <2>2, <2>3, <2>4
<1> QED
  BY <1>2, <1>3, <1>4, <1>5, <1>6 DEF SessionMoves

\* An exit is said by the child that attends to the stream.
LEMMA SaidMoves ==
  ASSUME Ground, Next, NEW s, Said(s)'
  PROVE  Said(s) \/ \E c \in Children : SaysExit(c) /\ Attends(c, s)
<1>1. ASSUME NEW w \in Wires, NEW e \in In(wire'[w].lane), e.stream = s
      PROVE  Said(s) \/ \E c \in Children : SaysExit(c) /\ Attends(c, s)
  <2>1. CASE e \in In(wire[w].lane)
    BY <1>1, <2>1 DEF Said
  <2>2. ASSUME NEW c \in Children, SaysExit(c), Attached(c), e.stream = child[c].stream
        PROVE  Attends(c, s)
    BY <1>1, <2>2 DEF Attends, Attached, Up
  <2> QED
    BY <2>1, <2>2, GroundIs, CarriesNew
<1>2. ASSUME NEW t \in Streams, NEW e \in In(session'[t].inbox), e.stream = s
      PROVE  Said(s)
  BY <1>2, InboxMoves DEF Said
<1> QED
  BY <1>1, <1>2 DEF Said

\* Whoever knows a stream's child heard it from the runner.
LEMMA KnowsMoves ==
  ASSUME Ground, Next, NEW s \in Streams, NEW c \in Children, Knows(s, c)'
  PROVE  Knows(s, c) \/ \E w \in Wires : Serving(w, c, s)
<1>1. WireOK /\ OpOK /\ ClientOK /\ RestOK /\ MadeInv /\ OpenedInOrder /\ Base /\ BornInv
  BY GroundIs
<1>2. c # 0
  BY Bounds DEF Children
<1>3. ASSUME NEW w \in Wires, NEW a \in In(wire'[w].answers), a.stream = s, a.child = c
      PROVE  Knows(s, c) \/ Serving(w, c, s)
  <2>1. CASE a \in In(wire[w].answers)
    BY <1>3, <2>1 DEF Knows
  <2>2. ASSUME NEW q \in In(wire[w].asked), a.stream = q.stream, Serves(w, a.child), q = Head(wire[w].asked)
        PROVE  Serving(w, c, s)
    BY <1>3, <2>2 DEF Serving
  <2> QED
    BY <1>1, <1>2, <1>3, <2>1, <2>2, CarriesNew
<1>4. ASSUME NEW n \in Names, op'[n].pc = "answered", op'[n].stream = s, op'[n].child = c
      PROVE  Knows(s, c)
  BY <1>4, AnsweredBy DEF Knows
<1>5. ASSUME session'[s].child = c
      PROVE  Knows(s, c)
  <2>1. SessionMoves(s)
    BY <1>1, SessionsMove
  <2>2. Same(s) \/ Reader(s) => session[s].child = c
    BY <1>1, <1>2, <1>5, ReaderDoes DEF Same
  <2>3. \A n \in Names : ~(Registers(n) /\ s = NextStream)
    BY <1>1, <1>2, <1>5, RegistersDoes DEF MadeInv
  <2>4. \A n \in Names : ~(OpenFails(n) /\ s = op[n].stream)
    BY <1>1, <1>2, <1>5, OpenFailsDoes
  <2>5. ASSUME NEW n \in Names, Opened(n), s = op[n].stream
        PROVE  op[n].pc = "answered" /\ op[n].child = c
    BY <1>1, <1>2, <1>5, <2>5, OpenedDoes
  <2>6. ASSUME NEW w \in Wires, RoutesExit(w), s = sink[w][Head(wire[w].lane).name], session[s].reader # "done"
        PROVE  session[s].child = c
    <3>1. s # 0
      BY Bounds DEF Streams
    <3> QED
      BY <1>1, <1>5, <2>6, <3>1, RoutesExitDoes
  <2> QED
    BY <2>1, <2>2, <2>3, <2>4, <2>5, <2>6 DEF SessionMoves, Knows
<1> QED
  BY <1>3, <1>4, <1>5 DEF Knows

\* A request is answered once: it is asked for no more.
LEMMA ServedOnce ==
  ASSUME Ground, OnceInv, Next, NEW w \in Wires, NEW c \in Children, NEW s \in Streams, Serving(w, c, s)
  PROVE  /\ Requested(s) /\ Untouched(s) /\ ~Requested(s)'
         /\ \E q \in In(wire[w].asked) : q = Head(wire[w].asked) /\ q.stream = s /\ Belongs(s, q.name, w)
         /\ \A v \in Wires, d \in Children : Serving(v, d, s) => v = w /\ d = c
<1>1. WireOK /\ PlaceInv
  BY GroundIs
<1>2. PICK q \in In(wire[w].asked) : q = Head(wire[w].asked) /\ q.stream = s
  BY DEF Serving, Serves
<1>3. Requested(s) /\ Untouched(s) /\ Belongs(s, q.name, w)
  BY <1>1, <1>2 DEF Requested, OnceInv, PlaceInv
<1>4. \A v \in Wires : (\E x \in In(wire[v].asked) : x.stream = s) => v = w
  BY <1>1, <1>3 DEF PlaceInv, Belongs
<1>5. \A x \in In(wire'[w].asked) : x.stream # s
  BY <1>2 DEF Serving, Serves, OnceInv
<1>6. \A v \in Wires \ {w} : wire'[v] = wire[v]
  BY DEF Serving, Serves
<1>7. ~Requested(s)'
  BY <1>4, <1>5, <1>6 DEF Requested
<1>8. ASSUME NEW v \in Wires, NEW d \in Children, Serving(v, d, s)
      PROVE  v = w /\ d = c
  <2>1. \E x \in In(wire[v].asked) : x.stream = s
    BY <1>8 DEF Serving, Serves
  <2>2. v = w
    BY <1>4, <2>1
  <2>3. child'[c].lane = w /\ child'[c].stream = s /\ child'[d].lane = w /\ child'[d].stream = s
    BY <1>8, <2>2 DEF Serving, Serves
  <2>4. SUFFICES ASSUME d # c PROVE FALSE
    BY <2>2
  <2>5. child'[d] = child[d]
    BY <2>4 DEF Serving, Serves
  <2>6. Attends(d, s)
    BY <2>3, <2>5, Bounds DEF Attends, Wires
  <2> QED
    BY <1>3, <2>6 DEF Untouched
<1> QED
  BY <1>2, <1>3, <1>7, <1>8

\* A stream that nothing was said of is untouched until its request is answered.
LEMMA UntouchedStays ==
  ASSUME Ground, OnceInv, Next, NEW s \in Streams, Untouched(s),
         Requested(s)' \/ ~Requested(s)
  PROVE  Untouched(s)'
<1>1. \A w \in Wires, c \in Children : ~Serving(w, c, s)
  BY ServedOnce
<1>2. ~Said(s)'
  BY SaidMoves DEF Untouched
<1>3. \A c \in Children : ~Attends(c, s)' /\ ~Knows(s, c)'
  BY <1>1, AttendsMoves, KnowsMoves DEF Untouched
<1> QED
  BY <1>2, <1>3 DEF Untouched

\* Nobody speaks of a stream that is not opened.
LEMMA UnopenedIsUntouched ==
  ASSUME Ground, NEW s \in Streams, session[s].name = "none"
  PROVE  ~Requested(s) /\ Untouched(s) /\ \A n \in Names : ~(op[n].pc \in Speaking /\ op[n].stream = s)
<1>1. WireOK /\ OpOK /\ ClientOK /\ RunnerOK /\ PlaceInv /\ MadeInv /\ NamedAlike
  BY GroundIs
<1>2. \A n \in Names : \A w : ~Belongs(s, n, w)
  BY NoName DEF Belongs
<1>3. /\ \A q \in Create : q.name \in Names
      /\ \A a \in Answer : a.name \in Names
      /\ \A e \in Exit : e.name \in Names
  BY DEF Create, Answer, Exit
<1>4. \A w \in Wires : /\ \A q \in In(wire[w].asked) : q.stream # s
                       /\ \A a \in In(wire[w].answers) : a.stream # s
                       /\ \A e \in In(wire[w].lane) : e.stream # s
  BY <1>1, <1>2, <1>3, CarriedIs DEF PlaceInv
<1>5. \A t \in Streams : \A e \in In(session[t].inbox) : e.stream # s
  <2>1. \A t \in Streams : session[t].inbox \in Seq(Exit)
    BY <1>1 DEF ClientOK, SessionType
  <2>2. \A t \in Streams : \A e \in In(session[t].inbox) : e \in Exit
    BY <2>1, InIs
  <2> QED
    BY <1>1, <1>3, <2>2, NoName DEF PlaceInv
<1>6. \A c \in Children : ~Attends(c, s)
  BY <1>1, <1>2 DEF Attends, PlaceInv, RunnerOK
<1>7. \A n \in Names : ~(op[n].pc \in Speaking /\ op[n].stream = s)
  BY <1>1, NoName DEF NamedAlike
<1>8. session[s].child = 0 /\ \A c \in Children : c # 0
  BY <1>1, Bounds DEF MadeInv, Unused, Children
<1> QED
  BY <1>4, <1>5, <1>6, <1>7, <1>8 DEF Requested, Untouched, Said, Knows, Speaking, Placed

\* A name that a child has is the name it keeps, and one that is gone stays gone.
LEMMA NamesStay ==
  ASSUME Ground, Next, NEW c \in Children, child[c].name # "none"
  PROVE  child'[c].name = child[c].name /\ (child[c].st = "gone" => child'[c].st = "gone")
<1>1. Base /\ BornInv /\ RunnerOK
  BY GroundIs
<1>2. CASE ChildFades
  BY <1>2 DEF ChildFades
<1>3. ASSUME NEW w \in Wires, Attaches(w) \/ Spawns(w)
      PROVE  child'[c].name = child[c].name /\ (child[c].st = "gone" => child'[c].st = "gone")
  <2>1. PICK d \in Children : Serves(w, d)
    BY <1>1, <1>3, ServesOne
  <2>2. CASE d # c
    BY <2>1, <2>2 DEF Serves
  <2>3. CASE d = c
    BY <1>1, <2>1, <2>3 DEF Serves, BornInv
  <2> QED
    BY <2>2, <2>3
<1> QED
  BY <1>1, <1>2, <1>3, ChildMoves

\* A stream somebody knows the child of is an open one.
LEMMA KnownIsNamed ==
  ASSUME Ground, NEW s \in Streams, NEW c \in Children, Knows(s, c)
  PROVE  session[s].name # "none"
BY UnopenedIsUntouched DEF Untouched

\* Every step keeps a stream to one child.
LEMMA OnceStep == ASSUME Ground, OnceInv, Next PROVE OnceInv'
<1>1. WireOK /\ OpOK /\ ClientOK /\ RestOK /\ RunnerOK /\ MadeInOrder /\ BornInOrder /\ OpenedInOrder
      /\ Base /\ BornInv /\ MadeInv /\ PlaceInv
  BY GroundIs
<1>2. ASSUME NEW n \in Names, op'[n].pc = "write"
      PROVE  ~Requested(op[n].stream)' /\ Untouched(op[n].stream)'
  <2>1. PICK s \in Streams : /\ op'[n].stream = s /\ ~Requested(s) /\ Untouched(s)
                             /\ \A m \in Names : ~(Writes(m) /\ op[m].stream = s)
    <3>1. CASE Registers(n)
      <4>1. NextStream \in Streams /\ session[NextStream].name = "none" /\ op'[n].stream = NextStream
        BY <1>1, <3>1, NextIsUnused, RegistersDoes DEF MadeInv
      <4>2. PICK s \in Streams : s = NextStream
        BY <4>1
      <4>3. ~Requested(s) /\ Untouched(s) /\ \A m \in Names : ~(op[m].pc \in Speaking /\ op[m].stream = s)
        BY <4>1, <4>2, UnopenedIsUntouched
      <4> QED
        BY <4>1, <4>2, <4>3 DEF Writes, At, Speaking, Placed
    <3>2. CASE ~Registers(n)
      <4>1. op'[n] = op[n]
        <5>1. ~TakesWire(n) /\ ~Writes(n) /\ ~OpenFails(n) /\ ~Opened(n)
          BY <1>1, <1>2, TakesWireDoes, WritesDo, OpenFailsDoes, OpenedDoes
        <5>2. OpTurns(n)
          BY <1>1, OpsMove
        <5> QED
          BY <1>2, <3>2, <5>1, <5>2 DEF OpTurns, Away, Told, Placed
      <4>2. op[n].stream \in Streams /\ op[n].pc \in Speaking
        BY <1>1, <1>2, <4>1 DEF OpOK, Placed, Speaking
      <4>3. ASSUME NEW m \in Names, Writes(m), op[m].stream = op[n].stream
            PROVE  FALSE
        <5>1. op[m].pc \in Speaking
          BY <4>3 DEF Writes, At, Speaking, Placed
        <5>2. m = n
          BY <4>2, <4>3, <5>1, OpensAlone
        <5>3. op'[m].pc # "write"
          BY <1>1, <4>3, WritesDo
        <5> QED
          BY <1>2, <5>2, <5>3
      <4> QED
        BY <1>2, <4>1, <4>2, <4>3 DEF OnceInv
    <3> QED
      BY <3>1, <3>2
  <2>2. ~Requested(s)'
    BY <2>1, RequestedMoves
  <2>3. Untouched(s)'
    BY <2>1, UntouchedStays
  <2> QED
    BY <2>1, <2>2, <2>3 DEF Requested, Untouched, Said, Attends, Knows
<1>3. ASSUME NEW w \in Wires
      PROVE  Distinct(wire'[w].asked)
  <2>1. Distinct(wire[w].asked)
    BY DEF OnceInv
  <2>2. CASE WireFades
    BY <2>1, <2>2 DEF WireFades
  <2>3. ASSUME NEW n \in Names, Writes(n)
        PROVE  Distinct(wire'[w].asked)
    <3>1. op[n].pc = "write" /\ \A x \in In(wire[w].asked) : x.stream # op[n].stream
      BY <2>3 DEF Writes, At, OnceInv, Requested
    <3> QED
      BY <1>1, <2>1, <2>3, <3>1, WritesDo
  <2>4. ASSUME NEW v \in Wires, Refuses(v)
        PROVE  Distinct(wire'[w].asked)
    BY <1>1, <2>1, <2>4, RefusesOne
  <2>5. ASSUME NEW v \in Wires, Attaches(v) \/ Spawns(v)
        PROVE  Distinct(wire'[w].asked)
    BY <1>1, <2>1, <2>5, ServesOne DEF Serves
  <2>6. ASSUME NEW c \in Children, SaysExit(c)
        PROVE  Distinct(wire'[w].asked)
    BY <1>1, <2>1, <2>6, SaysExitDoes
  <2> QED
    BY <1>1, <2>2, <2>3, <2>4, <2>5, <2>6, WireMoves
<1>4. ASSUME NEW s \in Streams, Requested(s)'
      PROVE  Untouched(s)'
  <2>1. Untouched(s)
    BY <1>4, RequestedMoves DEF OnceInv, Writes, At
  <2> QED
    BY <1>4, <2>1, UntouchedStays
<1>5. ASSUME NEW s \in Streams, NEW c \in Children, Attends(c, s)'
      PROVE  ~Said(s)' /\ \A d \in Children : Attends(d, s)' => d = c
  <2>1. CASE Attends(c, s)
    <3>1. ~Said(s) /\ ~Untouched(s) /\ \A d \in Children : Attends(d, s) => d = c
      BY <2>1 DEF OnceInv, Untouched
    <3>2. \A w \in Wires, d \in Children : ~Serving(w, d, s)
      BY <3>1, ServedOnce
    <3>3. \A d \in Children : SaysExit(d) => child'[d].lane = 0
      BY <1>1, SaysExitDoes
    <3>4. ~Said(s)'
      BY <1>5, <3>1, <3>3, SaidMoves DEF Attends
    <3> QED
      BY <3>1, <3>2, <3>4, AttendsMoves
  <2>2. ASSUME NEW w \in Wires, Serving(w, c, s)
        PROVE  ~Said(s)' /\ \A d \in Children : Attends(d, s)' => d = c
    BY <2>2, ServedOnce, SaidMoves, AttendsMoves DEF Untouched
  <2> QED
    BY <1>5, <2>1, <2>2, AttendsMoves
<1>6. ASSUME NEW s \in Streams, NEW c \in Children, Knows(s, c)'
      PROVE  /\ child'[c].name = session'[s].name
             /\ Said(s)' => child'[c].st = "gone"
             /\ \A d \in Children : Attends(d, s)' => d = c
  <2>1. CASE Knows(s, c)
    <3>1. /\ child[c].name = session[s].name /\ (Said(s) => child[c].st = "gone")
          /\ ~Untouched(s) /\ \A d \in Children : Attends(d, s) => d = c
      BY <2>1 DEF OnceInv, Untouched
    <3>2. session[s].name # "none"
      BY <2>1, KnownIsNamed
    <3>3. child'[c].name = child[c].name /\ session'[s].name = session[s].name /\ (child[c].st = "gone" => child'[c].st = "gone")
      BY <1>1, <3>1, <3>2, NamesStay, StreamsStay
    <3>4. \A w \in Wires, d \in Children : ~Serving(w, d, s)
      BY <3>1, ServedOnce
    <3>5. Said(s)' => child'[c].st = "gone"
      <4>1. \A d \in Children : SaysExit(d) => child'[d].st = "gone"
        BY <1>1, SaysExitDoes
      <4> QED
        BY <3>1, <3>3, <4>1, SaidMoves
    <3> QED
      BY <3>1, <3>3, <3>4, <3>5, AttendsMoves
  <2>2. ASSUME NEW w \in Wires, Serving(w, c, s)
        PROVE  /\ child'[c].name = session'[s].name
               /\ ~Said(s)'
               /\ \A d \in Children : Attends(d, s)' => d = c
    <3>1. PICK q \in In(wire[w].asked) : q = Head(wire[w].asked) /\ Belongs(s, q.name, w)
      BY <2>2, ServedOnce
    <3>2. child'[c].name = q.name /\ session' = session
      BY <2>2, <3>1 DEF Serving, Serves
    <3> QED
      BY <2>2, <3>1, <3>2, ServedOnce, SaidMoves, AttendsMoves DEF Untouched, Belongs
  <2> QED
    BY <1>6, <2>1, <2>2, KnowsMoves
<1>7. \A n \in Names : op'[n].pc = "write" => ~Requested(op[n].stream)' /\ Untouched(op[n].stream)'
  BY <1>2
<1> QED
  BY <1>3, <1>4, <1>5, <1>6, <1>7 DEF OnceInv

LEMMA OnceStutters == ASSUME OnceInv, UNCHANGED vars PROVE OnceInv'
BY DEF OnceInv, Requested, Untouched, Said, Attends, Knows, vars, runnerVars, clientVars

LEMMA InitOnce == Init => OnceInv
<1> SUFFICES ASSUME Init PROVE OnceInv
  OBVIOUS
<1>1. \A s \in Streams : ~Requested(s)
  BY Begins DEF Requested
<1>2. \A s \in Streams, c \in Children : ~Attends(c, s)
  BY Begins DEF Attends
<1>3. \A s \in Streams, c \in Children : ~Knows(s, c)
  <2>1. \A c \in Children : c # 0
    BY Bounds DEF Children
  <2> QED
    BY <2>1, Begins DEF Knows
<1>4. \A n \in Names : op[n].pc # "write"
  BY Begins
<1>5. \A w \in Wires : Distinct(wire[w].asked)
  BY Begins
<1> QED
  BY <1>1, <1>2, <1>3, <1>4, <1>5 DEF OnceInv

LEMMA OnceHolds == Spec => []OnceInv
<1>1. Ground /\ OnceInv /\ [Next]_vars => OnceInv'
  BY OnceStep, OnceStutters
<1> QED
  BY <1>1, InitOnce, GroundHolds, PTL DEF Spec

-----------------------------------------------------------------------------
(* Hears.  A child that is relayed over a living connection has a stream   *)
(* that hears it, and somebody who holds it, opens it or closes it: so     *)
(* that no open takes its name from it, and none that fails unroutes it.   *)

Excused == history.crossed \cup history.overdue
Closing == {"close", "closing", "killing"}
Promised(n, s, w) ==
  \/ op[n].pc \in Closing
  \/ held[n] = s /\ session[s].reader = "reading"
  \/ op[n].stream = s /\ op[n].pc = "answered" /\ "running" \in op[n].is
  \/ /\ op[n].stream = s /\ op[n].pc = "asked"
     /\ \E a \in In(wire[w].answers) : a.name = n /\ a.stream = s /\ "running" \in a.is
Hears(w, n, s) == sink[w][n] = s /\ session[s].inbox = <<>> /\ session[s].reader \in {"none", "reading"}

HeardInv ==
  /\ \A c \in Children, w \in Wires, n \in Names :
       child[c].st = "running" /\ child[c].lane = w /\ child[c].name = n /\ wire[w].st = "up" /\ n \notin Excused =>
         Hears(w, n, child[c].stream) /\ Promised(n, child[c].stream, w)
  /\ \A n \in Names, w \in Wires :
       (/\ op[n].pc \in {"write", "asked"} /\ op[n].wire = w /\ wire[w].st = "up" /\ n \notin Excused
        /\ op[n].pc = "asked" => \E q \in In(wire[w].asked) : q.name = n)
       => Hears(w, n, op[n].stream)

\* What an excuse is stays one.
LEMMA ExcusesStay == ASSUME RestOK, Next PROVE history.crossed \subseteq history'.crossed /\ history.overdue \subseteq history'.overdue
<1> DEFINE Goal == history.crossed \subseteq history'.crossed /\ history.overdue \subseteq history'.overdue
<1>1. /\ \A x : LET h == [Faulted(history) EXCEPT !.overdue = x] IN h.overdue = x /\ h.crossed = history.crossed
      /\ Faulted(history).overdue = history.overdue /\ Faulted(history).crossed = history.crossed
      /\ \A x : LET h == [history EXCEPT !.young = x] IN h.overdue = history.overdue /\ h.crossed = history.crossed
      /\ \A x : LET h == [history EXCEPT !.crossed = x] IN h.overdue = history.overdue /\ h.crossed = x
  BY DEF RestOK, Faulted
<1>2. history' = history => Goal
  OBVIOUS
<1>3. history' = Faulted(history) => Goal
  BY <1>1
<1>4. \A n \in Names : history' = [Faulted(history) EXCEPT !.overdue = @ \cup {n}] => Goal
  <2>1. \A n \in Names : [Faulted(history) EXCEPT !.overdue = @ \cup {n}] = [Faulted(history) EXCEPT !.overdue = history.overdue \cup {n}]
    BY DEF RestOK, Faulted
  <2> QED
    BY <1>1, <2>1
<1>5. ASSUME NEW n \in Names, Open(n)
      PROVE  Goal
  BY <1>2, <1>3, <1>4, <1>5 DEF Open, OpenBegins, PassesDoor, WaitsNoLonger, TakesWire, FindsNoRunner, Registers, Writes, GivesUp,
     OpenFails, Opened
<1>6. ASSUME NEW n \in Names, Close(n)
      PROVE  Goal
  BY <1>2, <1>4, <1>6 DEF Close, CloseBegins, CloseConnects, CloseKills, CloseEnds, CloseGivesUp
<1>7. ASSUME DoorOpens
      PROVE  Goal
  <2>1. history' = [history EXCEPT !.young = {}]
    BY <1>7 DEF DoorOpens
  <2> QED
    BY <1>1, <2>1
<1>8. ASSUME NEW w \in Wires, Route(w)
      PROVE  Goal
  <2>1. CASE RoutesExit(w)
    <3>1. history' = history \/ \E x : history.crossed \subseteq x /\ history' = [history EXCEPT !.crossed = x]
      BY <2>1 DEF RoutesExit
    <3> QED
      BY <1>1, <3>1
  <2>2. CASE ~RoutesExit(w)
    BY <1>2, <1>8, <2>2 DEF Route, RoutesAnswer, WireEnds
  <2> QED
    BY <2>1, <2>2
<1>9. ASSUME Run
      PROVE  Goal
  <2>1. ASSUME NEW w \in Wires, Spawns(w)
        PROVE  Goal
    <3>1. \E x : history' = [history EXCEPT !.young = x]
      BY <2>1 DEF Spawns
    <3> QED
      BY <1>1, <3>1
  <2>2. CASE ~\E w \in Wires : Spawns(w)
    BY <1>2, <1>3, <1>9, <2>2 DEF Run, Refuses, Attaches, Exits, SaysExit, OrphanEnds, ConnectionDrops, RunnerExits, RunnerCrashes
  <2> QED
    BY <2>1, <2>2
<1>10. ASSUME Restart
       PROVE  Goal
  BY <1>2, <1>3, <1>10 DEF Restart, RestartBegins, RestartStops, RestartServes, RestartGivesUp
<1>11. ASSUME NEW s \in Streams, Reader(s)
       PROVE  Goal
  BY <1>2, <1>11 DEF Reader, Reads, FindsEnd, LetsGo
<1> HIDE DEF Goal
<1>12. Goal
  BY <1>5, <1>6, <1>7, <1>8, <1>9, <1>10, <1>11 DEF Next
<1> QED
  BY <1>12 DEF Goal

\* What is routed is unrouted by the end of the open, of the session or of the connection.
LEMMA SinksClear ==
  ASSUME Ground, Next, NEW w \in Wires, NEW n \in Names, sink[w][n] # 0, sink'[w][n] = 0
  PROVE  \/ OpenFails(n) /\ w = op[n].wire
         \/ RoutesExit(w) /\ n = Head(wire[w].lane).name
         \/ WireEnds(w)
<1>1. WireOK /\ OpOK /\ ClientOK /\ RestOK /\ MadeInv /\ OpenedInOrder
  BY GroundIs
<1>2. ASSUME NEW m \in Names, Open(m)
      PROVE  OpenFails(n) /\ w = op[n].wire
  <2>1. CASE OpenFails(m)
    BY <1>1, <2>1, OpenFailsDoes
  <2>2. CASE Registers(m)
    <3>1. w # op[m].wire \/ n # m => sink'[w][n] = sink[w][n]
      BY <1>1, <2>2, RegistersDoes DEF MadeInv
    <3>2. sink'[op[m].wire][m] = NextStream /\ NextStream \in Streams
      BY <1>1, <2>2, RegistersDoes DEF MadeInv
    <3>3. NextStream # 0
      BY <3>2, Bounds DEF Streams
    <3> QED
      BY <3>1, <3>2, <3>3
  <2>3. CASE ~OpenFails(m) /\ ~Registers(m)
    BY <1>2, <2>3 DEF Open, OpenBegins, PassesDoor, WaitsNoLonger, TakesWire, FindsNoRunner, Writes, GivesUp, Opened, clientVars
  <2> QED
    BY <2>1, <2>2, <2>3
<1>3. ASSUME NEW v \in Wires, Route(v)
      PROVE  (RoutesExit(w) /\ n = Head(wire[w].lane).name) \/ WireEnds(w)
  <2>1. CASE RoutesAnswer(v)
    BY <2>1 DEF RoutesAnswer, clientVars
  <2>2. CASE RoutesExit(v)
    BY <1>1, <2>2, RoutesExitDoes
  <2>3. CASE WireEnds(v)
    BY <1>1, <2>3, WireEndsDoes
  <2> QED
    BY <1>3, <2>1, <2>2, <2>3 DEF Route
<1>4. ASSUME DoorOpens \/ Run \/ Restart \/ (\E m \in Names : Close(m)) \/ \E s \in Streams : Reader(s)
      PROVE  UNCHANGED sink
  <2>1. CASE DoorOpens \/ Run
    BY <2>1 DEF DoorOpens, Run, Refuses, Attaches, Spawns, Exits, SaysExit, OrphanEnds, ConnectionDrops, RunnerExits,
       RunnerCrashes, RunnerGone, clientVars
  <2>2. CASE Restart \/ \E s \in Streams : Reader(s)
    BY <1>1, <2>2, RestartDoes, ReaderDoes
  <2>3. CASE \E m \in Names : Close(m)
    BY <2>3 DEF Close, CloseBegins, CloseConnects, CloseKills, CloseEnds, CloseGivesUp, clientVars
  <2> QED
    BY <1>4, <2>1, <2>2, <2>3
<1> QED
  BY <1>2, <1>3, <1>4 DEF Next

\* An answer stays on its connection until it is routed, or the connection is over.
LEMMA AnswersKeep ==
  ASSUME Ground, Next, NEW w \in Wires, NEW a \in In(wire[w].answers)
  PROVE  a \in In(wire'[w].answers) \/ wire'[w].st = "over" \/ (RoutesAnswer(w) /\ a = Head(wire[w].answers))
<1>1. WireOK /\ OpOK /\ ClientOK /\ RestOK /\ RunnerOK /\ MadeInOrder /\ BornInOrder /\ Base /\ BornInv
  BY GroundIs
<1> DEFINE Goal == a \in In(wire'[w].answers) \/ wire'[w].st = "over" \/ (RoutesAnswer(w) /\ a = Head(wire[w].answers))
<1>2. UNCHANGED wire => Goal
  OBVIOUS
<1>3. ASSUME NEW n \in Names, Open(n) \/ Close(n)
      PROVE  Goal
  <2>1. CASE TakesWire(n)
    <3>1. wire'[w].answers = wire[w].answers
      BY <1>1, <2>1, TakesWireDoes
    <3> QED
      BY <3>1
  <2>2. CASE Writes(n)
    <3>1. wire'[w].answers = wire[w].answers
      BY <1>1, <2>2, WritesDo
    <3> QED
      BY <3>1
  <2>3. CASE ~TakesWire(n) /\ ~Writes(n)
    <3>1. UNCHANGED wire
      BY <1>3, <2>3 DEF Open, OpenBegins, PassesDoor, WaitsNoLonger, FindsNoRunner, Registers, GivesUp, OpenFails, Opened,
         Close, CloseBegins, CloseConnects, CloseKills, CloseEnds, CloseGivesUp
    <3> QED
      BY <1>2, <3>1
  <2> QED
    BY <2>1, <2>2, <2>3
<1>4. ASSUME NEW v \in Wires, Route(v)
      PROVE  Goal
  <2>1. CASE RoutesAnswer(v)
    BY <1>1, <2>1, TakenDo DEF RoutesAnswer
  <2>2. CASE RoutesExit(v)
    <3>1. wire'[w].answers = wire[w].answers
      BY <1>1, <2>2, TakenDo DEF RoutesExit
    <3> QED
      BY <3>1
  <2>3. CASE WireEnds(v)
    BY <1>1, <2>3, WireEndsDoes
  <2> QED
    BY <1>4, <2>1, <2>2, <2>3 DEF Route
<1>5. ASSUME DoorOpens \/ Restart \/ \E s \in Streams : Reader(s)
      PROVE  UNCHANGED wire
  BY <1>5 DEF DoorOpens, Restart, RestartBegins, RestartStops, RestartServes, RestartGivesUp, Reader, Reads, FindsEnd, LetsGo
<1>6. ASSUME Run
      PROVE  Goal
  <2>1. ASSUME NEW v \in Wires, Refuses(v)
        PROVE  In(wire[w].answers) \subseteq In(wire'[w].answers)
    BY <1>1, <2>1, RefusesOne
  <2>2. ASSUME NEW v \in Wires, Attaches(v) \/ Spawns(v)
        PROVE  In(wire[w].answers) \subseteq In(wire'[w].answers)
    <3>1. PICK c \in Children : Serves(v, c)
      BY <1>1, <2>2, ServesOne
    <3> QED
      BY <3>1 DEF Serves
  <2>3. ASSUME NEW c \in Children, Exits(c) \/ OrphanEnds(c)
        PROVE  UNCHANGED wire
    BY <2>3 DEF Exits, OrphanEnds
  <2>4. ASSUME NEW c \in Children, SaysExit(c)
        PROVE  wire'[w].answers = wire[w].answers
    BY <1>1, <2>4, SaysExitDoes
  <2>5. ASSUME ConnectionDrops \/ RunnerExits \/ RunnerCrashes
        PROVE  wire'[w].answers = wire[w].answers
    <3>1. UNCHANGED wire \/ (Up(slot) /\ Closes(slot))
      BY <2>5 DEF ConnectionDrops, RunnerExits, RunnerCrashes, RunnerGone
    <3>2. ASSUME Up(slot), Closes(slot)
          PROVE  wire'[w].answers = wire[w].answers
      <4>1. PICK v \in Wires : v = slot
        BY <1>1, <3>2, Bounds DEF Up, ClientOK, Wires
      <4> QED
        BY <1>1, <3>2, <4>1, ClosesDo
    <3> QED
      BY <3>1, <3>2
  <2> QED
    BY <1>6, <2>1, <2>2, <2>3, <2>4, <2>5 DEF Run
<1> HIDE DEF Goal
<1>7. Goal
  BY <1>2, <1>3, <1>4, <1>5, <1>6 DEF Next
<1> QED
  BY <1>7 DEF Goal

\* A close that is not given up on goes on for as long as its child runs.
LEMMA CloseGoesOn ==
  ASSUME Ground, Next, NEW n \in Names, op[n].pc \in Closing, n \notin history'.overdue,
         NEW c \in Children, child[c].st = "running", child[c].name = n,
         NEW w \in Wires, wire[w].st = "up", wire'[w].st = "up"
  PROVE  op'[n].pc \in Closing
<1>1. WireOK /\ OpOK /\ ClientOK /\ RestOK /\ MadeInOrder /\ Known(c) /\ Kills(n) /\ Base
  BY GroundIs, BaseIs
<1>2. runner # "none" /\ registry[n] = c /\ c # 0
  BY <1>1, Bounds DEF Known, Children
<1>3. n \notin history.overdue
  BY <1>1, ExcusesStay
<1>4. op'[n] = op[n] => op'[n].pc \in Closing
  OBVIOUS
<1>5. ASSUME NEW m \in Names, Open(m)
      PROVE  op'[n].pc \in Closing
  <2>1. m # n
    BY <1>5 DEF Closing, Open, OpenBegins, PassesDoor, WaitsNoLonger, TakesWire, FindsNoRunner, Registers, Writes, GivesUp,
       OpenFails, Opened, At
  <2> QED
    BY <1>5, <2>1, OthersStay
<1>6. ASSUME NEW m \in Names, Close(m)
      PROVE  op'[n].pc \in Closing
  <2>1. CASE m # n
    BY <1>6, <2>1, OthersStay
  <2>2. CASE m = n
    <3>1. ~CloseBegins(n)
      BY DEF CloseBegins, At, Closing
    <3>2. CASE CloseConnects(n)
      <4>1. Goes(n, "closing")
        BY <1>2, <3>2 DEF CloseConnects
      <4> QED
        BY <1>1, <4>1, GoesOn DEF Closing
    <3>3. CASE CloseKills(n)
      <4>1. op' = [op EXCEPT ![n].pc = "killing", ![n].child = registry[n]]
        BY <1>2, <3>3 DEF CloseKills
      <4> QED
        BY <1>1, <4>1 DEF OpOK, OpType, Closing
    <3>4. ~CloseEnds(n)
      <4>1. SUFFICES ASSUME CloseEnds(n) PROVE FALSE
        OBVIOUS
      <4>2. At(n, "killing") /\ child[op[n].child].st # "running"
        BY <4>1 DEF CloseEnds
      <4> QED
        BY <1>1, <1>3, <4>2 DEF Kills, Of
    <3>5. ~CloseGivesUp(n)
      <4>1. SUFFICES ASSUME CloseGivesUp(n) PROVE FALSE
        OBVIOUS
      <4>2. history' = [Faulted(history) EXCEPT !.overdue = @ \cup {n}]
        BY <4>1 DEF CloseGivesUp
      <4>3. n \in history'.overdue
        BY <1>1, <4>2 DEF RestOK, Faulted
      <4> QED
        BY <4>3
    <3> QED
      BY <1>6, <2>2, <3>1, <3>2, <3>3, <3>4, <3>5 DEF Close
  <2> QED
    BY <2>1, <2>2
<1>7. ASSUME DoorOpens \/ (\E s \in Streams : Reader(s)) \/ Restart
      PROVE  op' = op
  BY <1>7 DEF DoorOpens, Reader, Reads, FindsEnd, LetsGo, Restart, RestartBegins, RestartStops, RestartServes, RestartGivesUp
<1>8. ASSUME NEW v \in Wires, Route(v)
      PROVE  op'[n] = op[n]
  <2>1. CASE RoutesAnswer(v)
    BY <1>1, <2>1, RoutesAnswerDoes DEF Told, Closing
  <2>2. CASE RoutesExit(v)
    BY <2>2 DEF RoutesExit
  <2>3. CASE WireEnds(v)
    BY <1>1, <2>3, WireEndsDoes DEF Closing
  <2> QED
    BY <1>8, <2>1, <2>2, <2>3 DEF Route
<1>9. ASSUME Run
      PROVE  op' = op
  <2>1. ~RunnerExits /\ ~RunnerCrashes
    <3>1. SUFFICES ASSUME RunnerExits \/ RunnerCrashes PROVE FALSE
      OBVIOUS
    <3>2. w = slot /\ w # 0
      BY GroundIs, Bounds DEF MadeInv, Wires
    <3>3. Closes(w)
      BY <3>1, <3>2 DEF RunnerExits, RunnerCrashes, RunnerGone, Up
    <3> QED
      BY <1>1, <3>3, ClosesDo
  <2> QED
    BY <1>9, <2>1 DEF Run, Refuses, Attaches, Spawns, Exits, SaysExit, OrphanEnds, ConnectionDrops
<1> QED
  BY <1>4, <1>5, <1>6, <1>7, <1>8, <1>9 DEF Next

\* A stream goes on hearing until an exit, its open or its connection ends it.
LEMMA HearsStays ==
  ASSUME Ground, OpenUnread, Next, NEW s \in Streams, NEW n \in Names, NEW w \in Wires,
         Belongs(s, n, w), Hears(w, n, s), wire'[w].st # "over", ~Registers(n), ~OpenFails(n),
         Opened(n) => "running" \in op[n].is, n \notin history'.crossed, ~Said(s)
  PROVE  Hears(w, n, s)'
<1>1. WireOK /\ OpOK /\ ClientOK /\ RestOK /\ MadeInv /\ PlaceInv /\ OpenedInOrder /\ NamedAlike
  BY GroundIs
<1>2. /\ s # 0 /\ session[s].name = n /\ session[s].wire = w /\ n # "none"
      /\ sink[w][n] = s /\ session[s].inbox = <<>> /\ session[s].reader \in {"none", "reading"}
  BY Bounds, NoName DEF Streams, Belongs, Hears
<1>3. ASSUME NEW v \in Wires, RoutesExit(v), s = sink[v][Head(wire[v].lane).name]
      PROVE  FALSE
  <2>1. PICK x \in Exit : x = Head(wire[v].lane) /\ x \in In(wire[v].lane) /\ x.name \in Names
    BY <1>1, <1>3, RoutesExitDoes, TakenDo
  <2>2. Belongs(s, x.name, v)
    BY <1>1, <1>2, <1>3, <2>1 DEF PlaceInv
  <2>3. x.name = n /\ v = w
    BY <1>2, <2>2 DEF Belongs
  <2>4. x.stream # s
    BY <2>1, <2>3 DEF Said
  <2>5. n \in history'.crossed
    BY <1>1, <1>2, <1>3, <2>1, <2>3, <2>4, RoutesExitDoes
  <2> QED
    BY <2>5
<1>4. sink'[w][n] = s
  <2>1. sink'[w][n] \in {0, s}
    BY <1>1, <1>2, SinksMove
  <2>2. SUFFICES ASSUME sink'[w][n] = 0 PROVE FALSE
    BY <2>1
  <2>3. ~WireEnds(w)
    BY <1>1, WireEndsDoes
  <2> QED
    BY <1>2, <1>3, <2>2, <2>3, SinksClear
<1>5. session'[s].inbox = <<>> /\ session'[s].reader \in {"none", "reading"}
  <2>1. SessionMoves(s)
    BY <1>1, SessionsMove
  <2>2. CASE Same(s)
    BY <1>2, <2>2 DEF Same
  <2>3. ~Reader(s)
    BY <1>1, <1>2, ReaderDoes DEF Severed
  <2>4. \A m \in Names : ~(Registers(m) /\ s = NextStream)
    BY <1>1, <1>2, RegistersDoes DEF MadeInv
  <2>5. ASSUME NEW m \in Names, OpenFails(m) \/ Opened(m), s = op[m].stream
        PROVE  session'[s].inbox = <<>> /\ session'[s].reader \in {"none", "reading"}
    <3>1. session[s].name = m
      BY <1>1, <2>5 DEF OpenFails, Opened, At, NamedAlike, Speaking, Placed
    <3>2. Opened(n) /\ "running" \in op[n].is /\ s = op[n].stream
      BY <1>2, <2>5, <3>1
    <3> QED
      BY <1>1, <1>2, <3>2, OpenedDoes
  <2> QED
    BY <1>3, <2>1, <2>2, <2>3, <2>4, <2>5 DEF SessionMoves
<1> QED
  BY <1>4, <1>5 DEF Hears

\* The request in line is the one the open waits for.
LEMMA RequestIsMine ==
  ASSUME Ground, NEW n \in Names, n \notin history.overdue, NEW w \in Wires, wire[w].st = "up",
         NEW q \in In(wire[w].asked), q.name = n
  PROVE  op[n].pc = "asked" /\ op[n].wire = w /\ op[n].stream = q.stream
<1>1. WireOK /\ OpOK /\ Base
  BY GroundIs
<1>2. OneAt(w, n) /\ Waits(n)
  BY <1>1, BaseIs DEF Lone, Base, AskInv
<1>3. Mentions(wire[w].asked, n)
  BY InMentions
<1>4. op[n].pc = "asked" /\ op[n].wire = w /\ ~Mentions(wire[w].answers, n) /\ Single(wire[w].asked, n)
  BY <1>2, <1>3 DEF OneAt
<1>5. Has(wire[w].asked, n, op[n].stream) \/ Has(wire[w].answers, n, op[n].stream)
  BY <1>2, <1>4 DEF Waits, At, Carries
<1>6. \E x \in In(wire[w].asked) : x.name = n /\ x.stream = op[n].stream
  BY <1>4, <1>5 DEF Has, Mentions, In
<1> QED
  BY <1>4, <1>6, InSingle

\* The answer in line is the one the open waits for.
LEMMA AnswerIsMine ==
  ASSUME Ground, NEW n \in Names, n \notin history.overdue, NEW w \in Wires,
         NEW a \in In(wire[w].answers), a.name = n, NEW b \in In(wire[w].answers), b.name = n
  PROVE  a = b
<1>1. OneAt(w, n)
  BY GroundIs, BaseIs DEF Lone
<1> QED
  BY <1>1, InSingle DEF OneAt

\* A child that is relayed is heard from its start on.
LEMMA ServedIsHeard ==
  ASSUME Ground, LiveInv, OnceInv, HeardInv, Next, NEW w \in Wires, NEW c \in Children, Serves(w, c),
         NEW n \in Names, child'[c].name = n, child'[c].st = "running", n \notin Excused
  PROVE  Hears(w, n, child[c].stream)' /\ Promised(n, child[c].stream, w)'
<1>1. PICK q \in In(wire[w].asked) : q = Head(wire[w].asked) /\ q \in Create
  BY DEF Serves
<1>2. q.name = n /\ child'[c].stream = q.stream /\ wire[w].st = "up" /\ UNCHANGED <<sink, session, held, op>>
  BY <1>1 DEF Serves
<1>3. op[n].pc = "asked" /\ op[n].wire = w /\ op[n].stream = q.stream
  BY <1>1, <1>2, RequestIsMine DEF Excused
<1>4. Hears(w, n, q.stream)
  BY <1>1, <1>2, <1>3 DEF HeardInv
<1>5. PICK a \in In(wire'[w].answers) : a.name = q.name /\ a.stream = q.stream /\ "running" \in a.is
  <2>1. PICK a \in Answer : /\ a.name = q.name /\ a.stream = q.stream
                            /\ child'[c].st = "running" => "running" \in a.is
                            /\ In(wire'[w].answers) = In(wire[w].answers) \cup {a}
    BY <1>1 DEF Serves
  <2> QED
    BY <2>1
<1>6. Hears(w, n, q.stream)'
  BY <1>1, <1>2, <1>4 DEF Hears
<1>7. Promised(n, q.stream, w)'
  BY <1>1, <1>2, <1>3, <1>5 DEF Promised
<1> QED
  BY <1>2, <1>6, <1>7 DEF Hears, Promised

\* Whoever promised to keep a stream keeps it, or hands it on.
LEMMA PromiseKept ==
  ASSUME Ground, LiveInv, Next, NEW w \in Wires, NEW c \in Children, NEW n \in Names, NEW s \in Streams,
         child[c].st = "running", child[c].name = n, Belongs(s, n, w),
         wire[w].st = "up", wire'[w].st = "up", n \notin history'.overdue,
         Hears(w, n, s), Hears(w, n, s)', Promised(n, s, w)
  PROVE  Promised(n, s, w)'
<1>1. WireOK /\ OpOK /\ ClientOK /\ RestOK /\ MadeInv /\ PlaceInv /\ OpenedInOrder /\ NamedAlike /\ OpenedUnheld /\ MadeInOrder
      /\ OpenUnread
  BY GroundIs DEF LiveInv
<1>2. n \notin history.overdue
  BY <1>1, ExcusesStay
<1>3. CASE op[n].pc \in Closing
  <2>1. op'[n].pc \in Closing
    BY <1>3, CloseGoesOn
  <2> QED
    BY <2>1 DEF Promised
<1>4. CASE held[n] = s /\ session[s].reader = "reading"
  <2>1. session'[s].reader = "reading"
    <3>1. session[s].name # "none" /\ session'[s].reader \in {"none", "reading"}
      BY NoName DEF Belongs, Hears
    <3> QED
      BY <1>1, <1>4, <3>1, StillRead
  <2>2. CASE held'[n] = s
    BY <2>1, <2>2 DEF Promised
  <2>3. CASE held'[n] # s
    <3>1. s # 0
      BY Bounds DEF Streams
    <3>2. ~Opened(n)
      BY <1>1, <1>4, <3>1 DEF Opened, At, OpenedUnheld, Opening, Placed
    <3>3. CloseBegins(n)
      <4>1. ASSUME NEW m \in Names, CloseBegins(m)
            PROVE  m = n
        BY <1>1, <1>4, <2>3, <4>1, CloseBeginsDoes
      <4>2. ASSUME NEW t \in Streams, Reader(t)
            PROVE  FALSE
        <5>1. CASE t # s
          BY <1>1, <1>4, <2>3, <4>2, <5>1, ReaderDoes
        <5>2. CASE t = s
          BY <1>1, <1>4, <2>1, <4>2, <5>2, ReaderDoes
        <5> QED
          BY <5>1, <5>2
      <4>3. ASSUME NEW m \in Names, Opened(m)
            PROVE  FALSE
        BY <1>1, <1>4, <2>3, <3>2, <4>3, OpenedDoes
      <4>4. UNCHANGED held \/ (\E m \in Names : CloseBegins(m) \/ Opened(m)) \/ \E t \in Streams : Reader(t)
        BY DEF Next, Open, OpenBegins, PassesDoor, WaitsNoLonger, TakesWire, FindsNoRunner, Registers, Writes, GivesUp, OpenFails,
           Close, CloseConnects, CloseKills, CloseEnds, CloseGivesUp, DoorOpens, Route, RoutesAnswer, RoutesExit, WireEnds,
           Run, Refuses, Attaches, Spawns, Exits, SaysExit, OrphanEnds, ConnectionDrops, RunnerExits, RunnerCrashes, RunnerGone,
           Restart, RestartBegins, RestartStops, RestartServes, RestartGivesUp, clientVars
      <4> QED
        BY <1>4, <2>3, <4>1, <4>2, <4>3, <4>4
    <3>4. op'[n].pc = "close"
      BY <1>1, <3>3, CloseBeginsDoes
    <3> QED
      BY <3>4 DEF Promised, Closing
  <2> QED
    BY <2>2, <2>3
<1>5. CASE op[n].stream = s /\ op[n].pc = "answered" /\ "running" \in op[n].is
  <2>1. CASE op'[n] = op[n]
    BY <1>5, <2>1 DEF Promised
  <2>2. CASE Opened(n)
    <3>1. held'[n] = s /\ session'[s].reader = "reading"
      BY <1>1, <1>5, <2>2, OpenedDoes
    <3> QED
      BY <3>1 DEF Promised
  <2>3. ~TakesWire(n) /\ ~Registers(n) /\ ~Writes(n) /\ ~OpenFails(n) /\ ~Told(n) /\ ~Away(n)
    BY <1>5 DEF TakesWire, Registers, Writes, OpenFails, At, Told, Away, Placed
  <2> QED
    BY <1>1, <2>1, <2>2, <2>3, OpsMove DEF OpTurns
<1>6. CASE op[n].stream = s /\ op[n].pc = "asked" /\ \E a \in In(wire[w].answers) : a.name = n /\ a.stream = s /\ "running" \in a.is
  <2>1. PICK a \in In(wire[w].answers) : a.name = n /\ a.stream = s /\ "running" \in a.is
    BY <1>6
  <2>2. CASE RoutesAnswer(w) /\ a = Head(wire[w].answers)
    <3>1. a.child # 0
      BY <2>1, Bounds DEF LiveInv, Children
    <3>2. op'[n].pc = "answered" /\ op'[n].is = a.is /\ op'[n].stream = s
      BY <1>1, <1>6, <2>1, <2>2, <3>1, RoutesAnswerDoes DEF Told
    <3> QED
      BY <2>1, <3>2 DEF Promised
  <2>3. CASE ~(RoutesAnswer(w) /\ a = Head(wire[w].answers))
    <3>1. a \in In(wire'[w].answers)
      BY <2>3, AnswersKeep
    <3>2. ASSUME NEW v \in Wires, RoutesAnswer(v)
          PROVE  op'[n] = op[n]
      <4>1. PICK x \in Answer : x = Head(wire[v].answers) /\ x \in In(wire[v].answers)
        BY <1>1, <3>2, RoutesAnswerDoes, TakenDo
      <4>2. CASE x.name = n /\ x.stream = s
        <5>1. Belongs(s, n, v)
          BY <1>1, <4>1, <4>2 DEF PlaceInv
        <5>2. v = w
          BY <5>1 DEF Belongs
        <5>3. x = a
          BY <1>2, <2>1, <4>1, <4>2, <5>2, AnswerIsMine
        <5> QED
          BY <2>3, <3>2, <4>1, <5>2, <5>3
      <4>3. CASE ~(x.name = n /\ x.stream = s)
        BY <1>1, <1>6, <3>2, <4>1, <4>3, RoutesAnswerDoes
      <4> QED
        BY <4>2, <4>3
    <3>3. op'[n] = op[n]
      <4>1. ASSUME NEW m \in Names, Open(m)
            PROVE  op'[n] = op[n]
        <5>1. CASE m # n
          BY <4>1, <5>1, OthersStay
        <5>2. ~GivesUp(n)
          <6>1. SUFFICES ASSUME GivesUp(n) PROVE FALSE
            OBVIOUS
          <6>2. history' = [Faulted(history) EXCEPT !.overdue = @ \cup {n}]
            BY <6>1 DEF GivesUp
          <6>3. n \in history'.overdue
            BY <1>1, <6>2 DEF RestOK, Faulted
          <6> QED
            BY <6>3
        <5>3. CASE m = n
          BY <1>6, <4>1, <5>2, <5>3 DEF Open, OpenBegins, PassesDoor, WaitsNoLonger, TakesWire, FindsNoRunner, Registers, Writes,
             OpenFails, Opened, At
        <5> QED
          BY <5>1, <5>3
      <4>2. ASSUME NEW m \in Names, Close(m)
            PROVE  op'[n] = op[n]
        <5>1. m # n
          BY <1>6, <4>2 DEF Close, CloseBegins, CloseConnects, CloseKills, CloseEnds, CloseGivesUp, At
        <5> QED
          BY <4>2, <5>1, OthersStay
      <4>3. ASSUME NEW v \in Wires, Route(v)
            PROVE  op'[n] = op[n]
        <5>1. CASE RoutesExit(v)
          BY <5>1 DEF RoutesExit
        <5>2. CASE WireEnds(v)
          <6>1. op[n].wire = w
            BY <1>1, <1>6 DEF PlaceInv, Belongs, Speaking, Placed
          <6>2. v # w
            BY <1>1, <5>2, WireEndsDoes
          <6> QED
            BY <1>1, <5>2, <6>1, <6>2, WireEndsDoes
        <5> QED
          BY <3>2, <4>3, <5>1, <5>2 DEF Route
      <4>4. ASSUME DoorOpens \/ (\E t \in Streams : Reader(t)) \/ Restart
            PROVE  op' = op
        BY <4>4 DEF DoorOpens, Reader, Reads, FindsEnd, LetsGo, Restart, RestartBegins, RestartStops, RestartServes, RestartGivesUp
      <4>5. ASSUME Run
            PROVE  op' = op \/ op'[n] = op[n]
        BY <1>6, <4>5 DEF Run, Refuses, Attaches, Spawns, Exits, SaysExit, OrphanEnds, ConnectionDrops, RunnerExits, RunnerCrashes,
           RunnerGone
      <4> QED
        BY <4>1, <4>2, <4>3, <4>4, <4>5 DEF Next
    <3> QED
      BY <1>6, <2>1, <3>1, <3>3 DEF Promised
  <2> QED
    BY <2>2, <2>3
<1> QED
  BY <1>3, <1>4, <1>5, <1>6 DEF Promised

\* Every step keeps what is relayed heard.
LEMMA HeardStep == ASSUME Ground, LiveInv, OnceInv, HeardInv, Next PROVE HeardInv'
<1>1. WireOK /\ OpOK /\ ClientOK /\ RestOK /\ RunnerOK /\ MadeInv /\ PlaceInv /\ OpenedInOrder /\ NamedAlike /\ OpenedUnheld
      /\ MadeInOrder /\ BornInOrder /\ Base /\ BornInv /\ OpenUnread
  BY GroundIs DEF LiveInv
<1>2. \A n \in Names : n \notin Excused' => n \notin Excused /\ n \notin history'.crossed /\ n \notin history'.overdue
  BY <1>1, ExcusesStay DEF Excused
<1>3. ASSUME NEW w \in Wires, Made(w), wire'[w].st = "up"
      PROVE  wire[w].st = "up"
  BY <1>1, <1>3, WireStates DEF Made
<1>4. ASSUME NEW c \in Children, NEW w \in Wires, NEW n \in Names,
             child'[c].st = "running", child'[c].lane = w, child'[c].name = n, wire'[w].st = "up", n \notin Excused'
      PROVE  Hears(w, n, child[c].stream)' /\ Promised(n, child[c].stream, w)'
  <2>1. CASE \E v \in Wires : Serves(v, c)
    <3>1. Serves(w, c)
      BY <1>4, <2>1 DEF Serves
    <3> QED
      BY <1>2, <1>4, <3>1, ServedIsHeard
  <2>2. CASE ~\E v \in Wires : Serves(v, c)
    <3>1. w # 0
      BY Bounds DEF Wires
    <3>2. child[c].lane = w /\ child'[c].stream = child[c].stream /\ child[c].name = n
      BY <1>1, <1>4, <2>2, <3>1, LanesMove
    <3>3. child[c].st = "running"
      <4>1. CASE ChildFades
        BY <1>4, <4>1 DEF ChildFades
      <4>2. ASSUME NEW v \in Wires, Attaches(v) \/ Spawns(v)
            PROVE  child'[c] = child[c]
        <5>1. PICK d \in Children : Serves(v, d)
          BY <1>1, <4>2, ServesOne
        <5> QED
          BY <2>2, <5>1 DEF Serves
      <4> QED
        BY <1>1, <1>4, <4>1, <4>2, ChildMoves
    <3>4. PICK s \in Streams : s = child[c].stream
      BY <1>1, <3>1, <3>2 DEF RunnerOK
    <3>5. Belongs(s, n, w)
      BY <1>1, <3>1, <3>2, <3>4 DEF PlaceInv
    <3>6. wire[w].st = "up"
      BY <1>1, <1>3, <1>4, <3>5, NoName DEF MadeInv, Belongs
    <3>7. Hears(w, n, s) /\ Promised(n, s, w)
      BY <1>2, <1>4, <3>2, <3>3, <3>4, <3>6 DEF HeardInv
    <3>8. ~Said(s)
      BY <3>1, <3>2, <3>4 DEF OnceInv, Attends
    <3>9. s # 0
      BY Bounds DEF Streams
    <3>10. op[n].pc \in Opening => held[n] = 0
      BY <1>1 DEF OpenedUnheld
    <3>11. ~Registers(n) /\ ~OpenFails(n)
      BY <3>7, <3>9, <3>10 DEF Registers, OpenFails, At, Opening, Placed, Promised, Closing
    <3>12. Opened(n) => "running" \in op[n].is
      BY <3>7, <3>9, <3>10 DEF Opened, At, Opening, Placed, Promised, Closing
    <3>13. Hears(w, n, s)'
      BY <1>1, <1>2, <1>4, <3>5, <3>7, <3>8, <3>11, <3>12, HearsStays
    <3>14. Promised(n, s, w)'
      BY <1>2, <1>4, <3>2, <3>3, <3>5, <3>6, <3>7, <3>13, PromiseKept
    <3> QED
      BY <3>2, <3>4, <3>13, <3>14 DEF Hears, Promised
  <2> QED
    BY <2>1, <2>2
<1>5. ASSUME NEW n \in Names, NEW w \in Wires, op'[n].pc \in {"write", "asked"}, op'[n].wire = w, wire'[w].st = "up",
             n \notin Excused', op'[n].pc = "asked" => \E q \in In(wire'[w].asked) : q.name = n
      PROVE  Hears(w, n, op[n].stream)'
  <2>1. CASE Registers(n)
    <3>1. op[n].wire = w /\ op'[n].stream = NextStream /\ sink'[w][n] = NextStream
          /\ session'[NextStream].inbox = <<>> /\ session'[NextStream].reader = "none"
      BY <1>1, <1>5, <2>1, RegistersDoes DEF MadeInv
    <3> QED
      BY <3>1 DEF Hears
  <2>2. CASE Writes(n)
    <3>1. /\ op[n].pc = "write" /\ op'[n].stream = op[n].stream /\ op[n].wire = w
          /\ op'[n].pc = "asked" => wire[op[n].wire].st = "up"
      BY <1>1, <1>5, <2>2, WritesDo
    <3>2. wire[w].st = "up" /\ UNCHANGED <<sink, session>>
      <4>1. op'[n].pc # "failed"
        BY <1>5
      <4>2. op'[n].pc \in {"asked", "failed"}
        BY <1>1, <2>2, WritesDo
      <4> QED
        BY <2>2, <3>1, <4>1, <4>2 DEF Writes, clientVars
    <3>3. Hears(w, n, op[n].stream)
      BY <1>2, <1>5, <3>1, <3>2 DEF HeardInv
    <3> QED
      BY <3>1, <3>2, <3>3 DEF Hears
  <2>3. CASE ~Registers(n) /\ ~Writes(n)
    <3>1. op'[n] = op[n]
      <4>1. ~TakesWire(n) /\ ~OpenFails(n) /\ ~Opened(n)
        BY <1>1, <1>5, TakesWireDoes, OpenFailsDoes, OpenedDoes
      <4>2. OpTurns(n)
        BY <1>1, OpsMove
      <4> QED
        BY <1>5, <2>3, <4>1, <4>2 DEF OpTurns, Away, Told, Placed
    <3>2. op[n].pc \in {"write", "asked"} /\ op[n].wire = w
      BY <1>5, <3>1
    <3>3. PICK s \in Streams : s = op[n].stream
      BY <1>1, <3>2 DEF OpOK, Placed
    <3>4. Belongs(s, n, w)
      BY <1>1, <3>2, <3>3 DEF PlaceInv, Speaking, Placed
    <3>5. wire[w].st = "up"
      BY <1>1, <1>3, <1>5, <3>2 DEF MadeInv, Placed
    <3>6. op[n].pc = "asked" => \E q \in In(wire[w].asked) : q.name = n
      <4>1. SUFFICES ASSUME op[n].pc = "asked" PROVE \E q \in In(wire[w].asked) : q.name = n
        OBVIOUS
      <4>2. PICK q \in In(wire'[w].asked) : q.name = n
        BY <1>5, <3>1, <4>1
      <4> QED
        BY <1>1, <2>3, <4>2, CarriesNew
    <3>7. Hears(w, n, s)
      BY <1>2, <1>5, <3>2, <3>3, <3>5, <3>6 DEF HeardInv
    <3>8. ~Said(s)
      <4>1. CASE op[n].pc = "write"
        BY <3>3, <4>1 DEF OnceInv, Untouched
      <4>2. CASE op[n].pc = "asked"
        <5>1. PICK q \in In(wire[w].asked) : q.name = n
          BY <3>6, <4>2
        <5>2. q.stream = s
          BY <1>2, <1>5, <3>3, <3>5, <5>1, RequestIsMine DEF Excused
        <5> QED
          BY <5>2 DEF OnceInv, Requested, Untouched
      <4> QED
        BY <3>2, <4>1, <4>2
    <3>9. ~OpenFails(n) /\ ~Opened(n)
      BY <3>2 DEF OpenFails, Opened, At
    <3>10. Hears(w, n, s)'
      BY <1>1, <1>2, <1>5, <2>3, <3>4, <3>7, <3>8, <3>9, HearsStays
    <3> QED
      BY <3>1, <3>3, <3>10 DEF Hears
  <2> QED
    BY <2>1, <2>2, <2>3
<1>6. \A c \in Children, w \in Wires, n \in Names :
        child'[c].st = "running" /\ child'[c].lane = w /\ child'[c].name = n /\ wire'[w].st = "up" /\ n \notin Excused' =>
          Hears(w, n, child[c].stream)' /\ Promised(n, child[c].stream, w)'
  BY <1>4
<1>7. \A n \in Names, w \in Wires :
        (/\ op'[n].pc \in {"write", "asked"} /\ op'[n].wire = w /\ wire'[w].st = "up" /\ n \notin Excused'
         /\ op'[n].pc = "asked" => \E q \in In(wire'[w].asked) : q.name = n)
        => Hears(w, n, op[n].stream)'
  BY <1>5
<1> QED
  BY <1>6, <1>7 DEF HeardInv

LEMMA HeardStutters == ASSUME HeardInv, UNCHANGED vars PROVE HeardInv'
BY DEF HeardInv, Hears, Promised, Excused, vars, runnerVars, clientVars

LEMMA InitHeard == Init => HeardInv
BY Begins DEF HeardInv

LEMMA HeardHolds == Spec => []HeardInv
<1>1. Ground /\ LiveInv /\ OnceInv /\ HeardInv /\ [Next]_vars => HeardInv'
  BY HeardStep, HeardStutters
<1> QED
  BY <1>1, InitHeard, GroundHolds, LiveHolds, OnceHolds, PTL DEF Spec

\* Who is heard has a stream.
LEMMA HeardIsAttached == ASSUME Ground, HeardInv PROVE AttachedIsHeard
<1> SUFFICES ASSUME NEW c \in Children, child[c].st = "running", Up(child[c].lane), child[c].name \notin Excused
             PROVE  sink[child[c].lane][child[c].name] # 0
  BY DEF AttachedIsHeard, Excused
<1>1. RunnerOK
  BY GroundIs
<1>2. child[c].lane # 0 /\ wire[child[c].lane].st = "up"
  BY DEF Up
<1>3. PICK w \in Wires : w = child[c].lane
  BY <1>1, <1>2, Bounds DEF RunnerOK, ChildType, Wires
<1>4. PICK n \in Names, s \in Streams : n = child[c].name /\ s = child[c].stream
  BY <1>1, <1>2 DEF RunnerOK
<1>5. sink[w][n] = s
  BY <1>2, <1>3, <1>4 DEF HeardInv, Hears
<1> QED
  BY <1>3, <1>4, <1>5, Bounds DEF Streams

(* AttachedIsHeard: a running child that the runner relays over a living   *)
(* connection has a stream registered under its name there, since open     *)
(* registers before it asks (RunnerClient::open) and only the child's exit *)
(* or a failed open unregisters.  Excepted as the property says: a name    *)
(* whose exit crossed into a later stream, or that was given up on.        *)
THEOREM AttachedAreHeard == Spec => []AttachedIsHeard
<1>1. Ground /\ HeardInv => AttachedIsHeard
  BY HeardIsAttached
<1> QED
  BY <1>1, GroundHolds, HeardHolds, PTL

-----------------------------------------------------------------------------
(* Stops.  A session that is read and whose end nobody asked for has a     *)
(* child nobody told to end, and its conversation still holds it: who asks *)
(* for an end lets go of the session or marks it before the runner hears   *)
(* of it.  So what ends it unasked was no order, and no order comes later. *)

Ends == {"closing", "unmarked"}
Unended(s) == session[s].reader = "reading" /\ session[s].marks \cap Ends = {}
Unstopped(s) == LET c == session[s].child IN c \in Children /\ child[c].order = "none" /\ child[c].st = "gone"

StopInv ==
  /\ \A s \in Streams : session[s].reader \in {"none", "reading"} => session[s].end = "none"
  /\ \A s \in Streams : Unended(s) =>
       child[session[s].child].order = "none" /\ held[session[s].name] = s /\ restart.pc # "stop"
  /\ \A n \in Names : op[n].pc \in Closing => held[n] = 0
  /\ \A s \in Streams : session[s].name \notin history.crossed => \A e \in In(session[s].inbox) : e.stream = s
  /\ \A s \in Streams :
       session[s].end = "failed" /\ "unmarked" \notin session[s].marks /\ session[s].name \notin history.crossed => Unstopped(s)

\* A session that goes on as it was keeps the marks of its end.
LEMMA MarksMove ==
  ASSUME Ground, LiveInv, Next, NEW s \in Streams, Same(s)
  PROVE  /\ "unmarked" \in session[s].marks => "unmarked" \in session'[s].marks
         /\ session[s].marks \cap Ends # {} => session'[s].marks \cap Ends # {}
<1>1. WireOK /\ OpOK /\ ClientOK /\ RestOK /\ MadeInv /\ OpenedInOrder /\ OpenUnread
  BY GroundIs DEF LiveInv
<1> DEFINE Kept == /\ "unmarked" \in session[s].marks => "unmarked" \in session'[s].marks
                   /\ session[s].marks \cap Ends # {} => session'[s].marks \cap Ends # {}
<1>2. session'[s].marks = session[s].marks => Kept
  OBVIOUS
<1>3. ASSUME NEW n \in Names, Open(n)
      PROVE  session'[s].marks = session[s].marks
  <2>1. CASE Registers(n)
    <3>1. session'[NextStream].name = n /\ session[NextStream].name = "none" /\ n # "none"
      BY <1>1, <2>1, RegistersDoes, NoName DEF MadeInv
    <3>2. s # NextStream
      BY <3>1 DEF Same
    <3> QED
      BY <1>1, <2>1, <3>2, RegistersDoes DEF MadeInv
  <2>2. CASE OpenFails(n) \/ Opened(n)
    <3>1. session[op[n].stream].reader = "none"
      BY <1>1, <2>2 DEF OpenFails, Opened, At, OpenUnread, Speaking, Placed
    <3>2. session'[op[n].stream].reader # "none" /\ \A t \in Streams \ {op[n].stream} : session'[t] = session[t]
      <4>1. CASE OpenFails(n)
        BY <1>1, <4>1, OpenFailsDoes
      <4>2. CASE Opened(n)
        BY <1>1, <4>2, OpenedDoes
      <4> QED
        BY <2>2, <4>1, <4>2
    <3>3. s # op[n].stream
      BY <3>1, <3>2 DEF Same
    <3> QED
      BY <3>2, <3>3
  <2>3. CASE ~Registers(n) /\ ~OpenFails(n) /\ ~Opened(n)
    BY <1>3, <2>3 DEF Open, OpenBegins, PassesDoor, WaitsNoLonger, TakesWire, FindsNoRunner, Writes, GivesUp, clientVars
  <2> QED
    BY <2>1, <2>2, <2>3
<1>4. ASSUME NEW n \in Names, Close(n)
      PROVE  Kept
  <2>1. CASE CloseBegins(n)
    <3>1. /\ "unmarked" \in session[s].marks => "unmarked" \in session'[s].marks
          /\ session'[s].marks = session[s].marks \/ "closing" \in session'[s].marks
      BY <1>1, <2>1, CloseBeginsDoes
    <3> QED
      BY <3>1 DEF Ends
  <2>2. CASE ~CloseBegins(n)
    <3>1. UNCHANGED session
      BY <1>4, <2>2 DEF Close, CloseConnects, CloseKills, CloseEnds, CloseGivesUp, clientVars
    <3> QED
      BY <1>2, <3>1
  <2> QED
    BY <2>1, <2>2
<1>5. ASSUME NEW w \in Wires, Route(w)
      PROVE  session'[s].marks = session[s].marks
  <2>1. CASE RoutesExit(w)
    BY <1>1, <2>1, RoutesExitDoes
  <2>2. CASE ~RoutesExit(w)
    BY <1>5, <2>2 DEF Route, RoutesAnswer, WireEnds, clientVars
  <2> QED
    BY <2>1, <2>2
<1>6. ASSUME NEW t \in Streams, Reader(t)
      PROVE  session'[s].marks = session[s].marks
  BY <1>1, <1>6, ReaderDoes DEF Same
<1>7. ASSUME DoorOpens \/ Run
      PROVE  session'[s].marks = session[s].marks
  BY <1>7 DEF DoorOpens, Run, Refuses, Attaches, Spawns, Exits, SaysExit, OrphanEnds, ConnectionDrops, RunnerExits, RunnerCrashes,
     RunnerGone, clientVars
<1>8. ASSUME Restart
      PROVE  Kept
  <2>1. \/ session'[s].marks = session[s].marks \/ session'[s].marks = session[s].marks \cup {"closing"}
        \/ session'[s].marks = (session[s].marks \ {"closing"}) \cup {"unmarked"}
    BY <1>1, <1>8, RestartDoes
  <2> QED
    BY <2>1 DEF Ends
<1> HIDE DEF Kept
<1>9. Kept
  BY <1>2, <1>3, <1>4, <1>5, <1>6, <1>7, <1>8 DEF Next
<1> QED
  BY <1>9 DEF Kept

\* A child is told to end by a close of its conversation or by a restart.
LEMMA OrderMoves ==
  ASSUME Ground, Next, NEW c \in Children, child[c].st # "unborn"
  PROVE  \/ child'[c].order = child[c].order
         \/ child[c].st = "running" /\ \E n \in Names : CloseKills(n) /\ registry[n] = c
         \/ child[c].st = "running" /\ restart.pc = "stop"
<1>1. WireOK /\ OpOK /\ ClientOK /\ RestOK /\ RunnerOK /\ BornInOrder
  BY GroundIs
<1>2. child[c] \in ChildType /\ Gone(c).order = child[c].order /\ (child[c].st # "running" => Ordered(c).order = child[c].order)
  BY <1>1 DEF RunnerOK, ChildType, Gone, Ordered
<1> DEFINE Kept == child'[c].order = child[c].order
<1>3. child'[c] \in {child[c], Gone(c)} => Kept
  BY <1>2
<1>4. ASSUME NEW n \in Names, Open(n)
      PROVE  Kept
  <2>1. UNCHANGED child \/ ServesFresh
    BY <1>4 DEF Open, OpenBegins, PassesDoor, WaitsNoLonger, TakesWire, FindsNoRunner, Registers, Writes, GivesUp, OpenFails,
       Opened, runnerVars
  <2> QED
    BY <1>3, <2>1 DEF ServesFresh
<1>5. ASSUME NEW n \in Names, Close(n)
      PROVE  Kept \/ (child[c].st = "running" /\ CloseKills(n) /\ registry[n] = c)
  <2>1. CASE CloseKills(n)
    <3>1. UNCHANGED child \/ child' = [child EXCEPT ![registry[n]] = Ordered(registry[n])]
      BY <2>1 DEF CloseKills
    <3>2. child'[c] = child[c] \/ (child'[c] = Ordered(c) /\ registry[n] = c)
      BY <1>1, <3>1 DEF RunnerOK
    <3> QED
      BY <1>2, <2>1, <3>2
  <2>2. CASE ~CloseKills(n)
    BY <1>5, <2>2 DEF Close, CloseBegins, CloseConnects, CloseEnds, CloseGivesUp, runnerVars
  <2> QED
    BY <2>1, <2>2
<1>6. ASSUME DoorOpens \/ (\E v \in Wires : Route(v)) \/ \E t \in Streams : Reader(t)
      PROVE  Kept
  BY <1>6 DEF DoorOpens, Route, RoutesAnswer, RoutesExit, WireEnds, Reader, Reads, FindsEnd, LetsGo, runnerVars
<1>7. ASSUME Restart
      PROVE  Kept \/ (child[c].st = "running" /\ restart.pc = "stop")
  <2>1. CASE RestartStops
    <3>1. child'[c] \in {child[c], Ordered(c)} /\ restart.pc = "stop"
      BY <2>1 DEF RestartStops
    <3> QED
      BY <1>2, <3>1
  <2>2. CASE ~RestartStops
    <3>1. UNCHANGED child \/ ServesFresh
      BY <1>7, <2>2 DEF Restart, RestartBegins, RestartServes, RestartGivesUp, runnerVars
    <3> QED
      BY <1>3, <3>1 DEF ServesFresh
  <2> QED
    BY <2>1, <2>2
<1>8. ASSUME NEW w \in Wires, Refuses(w) \/ Attaches(w) \/ Spawns(w)
      PROVE  Kept
  <2>1. CASE Refuses(w)
    BY <1>1, <2>1, RefusesDoes
  <2>2. CASE Attaches(w)
    BY <1>1, <2>2, AttachesDoes
  <2>3. CASE Spawns(w)
    BY <1>1, <2>3, SpawnsDoes
  <2> QED
    BY <1>8, <2>1, <2>2, <2>3
<1>9. ASSUME NEW d \in Children, Exits(d) \/ SaysExit(d) \/ OrphanEnds(d)
      PROVE  Kept
  <2>1. child'[c] \in {child[c], Gone(c), [child[c] EXCEPT !.st = "exited"]}
    BY <1>1, <1>9 DEF Exits, SaysExit, OrphanEnds, RunnerOK
  <2> QED
    BY <1>2, <2>1 DEF ChildType
<1>10. ASSUME ConnectionDrops \/ RunnerExits \/ RunnerCrashes
       PROVE  Kept
  <2>1. child'[c] \in {child[c], Gone(c), [child[c] EXCEPT !.st = "orphan"], [child[c] EXCEPT !.lane = 0]}
    BY <1>10 DEF ConnectionDrops, RunnerExits, RunnerCrashes
  <2> QED
    BY <1>2, <2>1 DEF ChildType
<1> HIDE DEF Kept
<1>11. \/ Kept
       \/ child[c].st = "running" /\ \E n \in Names : CloseKills(n) /\ registry[n] = c
       \/ child[c].st = "running" /\ restart.pc = "stop"
  BY <1>4, <1>5, <1>6, <1>7, <1>8, <1>9, <1>10 DEF Next, Run
<1> QED
  BY <1>11 DEF Kept

\* A conversation lets go of a session by closing it, or after its reader found the end.
LEMMA HeldGoes ==
  ASSUME Ground, Next, NEW n \in Names, held[n] # 0, held'[n] # held[n]
  PROVE  CloseBegins(n) \/ session[held[n]].reader \in {"exited", "cut"}
<1>1. WireOK /\ OpOK /\ ClientOK /\ RestOK /\ OpenedUnheld
  BY GroundIs
<1>2. ASSUME NEW m \in Names, CloseBegins(m)
      PROVE  m = n
  BY <1>1, <1>2, CloseBeginsDoes
<1>3. ASSUME NEW t \in Streams, Reader(t)
      PROVE  session[held[n]].reader \in {"exited", "cut"}
  BY <1>1, <1>3, ReaderDoes
<1>4. ASSUME NEW m \in Names, Opened(m)
      PROVE  FALSE
  <2>1. ~Opened(n)
    BY <1>1 DEF Opened, At, OpenedUnheld, Opening, Placed
  <2> QED
    BY <1>1, <1>4, <2>1, OpenedDoes
<1>5. UNCHANGED held \/ (\E m \in Names : CloseBegins(m) \/ Opened(m)) \/ \E t \in Streams : Reader(t)
  BY DEF Next, Open, OpenBegins, PassesDoor, WaitsNoLonger, TakesWire, FindsNoRunner, Registers, Writes, GivesUp, OpenFails,
     Close, CloseConnects, CloseKills, CloseEnds, CloseGivesUp, DoorOpens, Route, RoutesAnswer, RoutesExit, WireEnds,
     Run, Refuses, Attaches, Spawns, Exits, SaysExit, OrphanEnds, ConnectionDrops, RunnerExits, RunnerCrashes, RunnerGone,
     Restart, RestartBegins, RestartStops, RestartServes, RestartGivesUp, clientVars
<1> QED
  BY <1>2, <1>3, <1>4, <1>5

\* A conversation is being closed from the beginning of its close on.
LEMMA ClosingMoves ==
  ASSUME Ground, Next, NEW n \in Names, op'[n].pc \in Closing
  PROVE  op[n].pc \in Closing \/ CloseBegins(n)
<1>1. WireOK /\ OpOK /\ ClientOK /\ RestOK /\ MadeInOrder
  BY GroundIs
<1>2. ASSUME NEW m \in Names, Open(m)
      PROVE  op[n].pc \in Closing
  <2>1. CASE m # n
    BY <1>2, <2>1, OthersStay
  <2>2. CASE m = n
    <3>1. CASE TakesWire(n) \/ Writes(n) \/ OpenFails(n) \/ Opened(n)
      BY <1>1, <3>1, TakesWireDoes, WritesDo, OpenFailsDoes, OpenedDoes DEF Closing
    <3>2. CASE Registers(n)
      BY <1>1, <3>2, RegistersDoes, GroundIs DEF MadeInv, Closing
    <3>3. CASE OpenBegins(n) \/ PassesDoor(n) \/ WaitsNoLonger(n) \/ FindsNoRunner(n) \/ GivesUp(n)
      BY <1>1, <3>3, GoesOn DEF OpenBegins, PassesDoor, WaitsNoLonger, FindsNoRunner, GivesUp, Closing
    <3> QED
      BY <1>2, <2>2, <3>1, <3>2, <3>3 DEF Open
  <2> QED
    BY <2>1, <2>2
<1>3. ASSUME NEW m \in Names, Close(m)
      PROVE  op[n].pc \in Closing \/ CloseBegins(n)
  <2>1. CASE m # n
    BY <1>3, <2>1, OthersStay
  <2>2. CASE m = n
    BY <1>3, <2>2 DEF Close, CloseConnects, CloseKills, CloseEnds, CloseGivesUp, At, Closing
  <2> QED
    BY <2>1, <2>2
<1>4. ASSUME NEW v \in Wires, Route(v)
      PROVE  op[n].pc \in Closing
  <2>1. CASE RoutesAnswer(v)
    BY <1>1, <2>1, RoutesAnswerDoes DEF Closing
  <2>2. CASE RoutesExit(v)
    BY <2>2 DEF RoutesExit
  <2>3. CASE WireEnds(v)
    BY <1>1, <2>3, WireEndsDoes DEF Closing
  <2> QED
    BY <1>4, <2>1, <2>2, <2>3 DEF Route
<1>5. ASSUME DoorOpens \/ (\E t \in Streams : Reader(t)) \/ Restart
      PROVE  op' = op
  BY <1>5 DEF DoorOpens, Reader, Reads, FindsEnd, LetsGo, Restart, RestartBegins, RestartStops, RestartServes, RestartGivesUp
<1>6. ASSUME Run
      PROVE  op' = op \/ op'[n] = op[n] \/ op'[n] = NoOp
  BY <1>6 DEF Run, Refuses, Attaches, Spawns, Exits, SaysExit, OrphanEnds, ConnectionDrops, RunnerExits, RunnerCrashes, RunnerGone
<1>7. NoOp.pc \notin Closing
  BY DEF NoOp, Closing
<1> QED
  BY <1>2, <1>3, <1>4, <1>5, <1>6, <1>7 DEF Next

\* The child a session came to know of is the conversation's, for good.
LEMMA ItsChild ==
  ASSUME Ground, OnceInv, NEW s \in Streams, session[s].child \in Children
  PROVE  /\ session[s].name # "none" /\ child[session[s].child].name = session[s].name
         /\ child[session[s].child].st # "unborn" /\ (Said(s) => child[session[s].child].st = "gone")
<1>1. Knows(s, session[s].child)
  BY DEF Knows
<1>2. session[s].name # "none" /\ child[session[s].child].name = session[s].name
      /\ (Said(s) => child[session[s].child].st = "gone")
  BY <1>1, KnownIsNamed DEF OnceInv
<1> QED
  BY <1>2, GroundIs DEF BornInv

\* A session whose end nobody asked for stays with its conversation and its child's orders.
LEMMA UnendedStays ==
  ASSUME Ground, LiveInv, OnceInv, StopInv, Next, NEW s \in Streams, Unended(s)', Same(s)
  PROVE  child'[session[s].child].order = "none" /\ held'[session[s].name] = s /\ restart'.pc # "stop"
<1>1. WireOK /\ OpOK /\ ClientOK /\ RestOK /\ OpenUnread
  BY GroundIs DEF LiveInv
<1>2. Unended(s)
  BY MarksMove DEF Unended, Same
<1> DEFINE c == session[s].child
           n == session[s].name
<1>3. child[c].order = "none" /\ held[n] = s /\ restart.pc # "stop"
  BY <1>2 DEF StopInv
<1>4. c \in Children /\ s # 0
  BY <1>2, Bounds DEF LiveInv, Unended, Streams
<1>5. n \in Names /\ child[c].name = n /\ child[c].st # "unborn"
  <2>1. n # "none" /\ child[c].name = n /\ child[c].st # "unborn"
    BY <1>4, ItsChild
  <2> QED
    BY <1>1, <2>1 DEF ClientOK, SessionType
<1> HIDE DEF c, n
<1>6. held'[n] = s
  <2>1. SUFFICES ASSUME held'[n] # s PROVE FALSE
    OBVIOUS
  <2>2. CASE CloseBegins(n)
    <3>1. "closing" \in session'[s].marks
      BY <1>1, <1>3, <1>4, <2>2, CloseBeginsDoes, <1>5
    <3> QED
      BY <3>1 DEF Unended, Ends
  <2>3. CASE session[s].reader \in {"exited", "cut"}
    BY <1>2, <2>3 DEF Unended
  <2> QED
    BY <1>3, <1>4, <1>5, <2>1, <2>2, <2>3, HeldGoes
<1>7. restart'.pc # "stop"
  <2>1. SUFFICES ASSUME restart'.pc = "stop" PROVE FALSE
    OBVIOUS
  <2>2. CASE RestartBegins
    <3>1. session'[s].marks = session[s].marks \cup {"closing"}
      BY <1>1, <1>3, <1>5, <2>2, StreamStays DEF RestartBegins
    <3> QED
      BY <3>1 DEF Unended, Ends
  <2>3. CASE ~RestartBegins
    <3>1. restart' = restart \/ restart'.pc \in {"wait", "idle"}
      BY <1>1, <2>3 DEF RestOK, Next, Open, OpenBegins, PassesDoor, WaitsNoLonger, TakesWire, FindsNoRunner, Registers, Writes, GivesUp,
         OpenFails, Opened, Close, CloseBegins, CloseConnects, CloseKills, CloseEnds, CloseGivesUp, DoorOpens, Route, RoutesAnswer,
         RoutesExit, WireEnds, Run, Refuses, Attaches, Spawns, Exits, SaysExit, OrphanEnds, ConnectionDrops, RunnerExits,
         RunnerCrashes, RunnerGone, Restart, RestartStops, RestartServes, RestartGivesUp, Reader, Reads, FindsEnd, LetsGo
    <3> QED
      BY <1>3, <2>1, <3>1
  <2> QED
    BY <2>2, <2>3
<1>8. child'[c].order = "none"
  <2>1. ASSUME NEW m \in Names, CloseKills(m), registry[m] = c
        PROVE  FALSE
    <3>1. child[c].name = m
      BY <1>4, <2>1, Bounds, GroundIs DEF BornInv, Children
    <3>2. held[m] = 0
      BY <2>1 DEF StopInv, CloseKills, At, Closing
    <3> QED
      BY <1>3, <1>4, <1>5, <3>1, <3>2
  <2> QED
    BY <1>3, <1>4, <1>5, <2>1, OrderMoves
<1> QED
  BY <1>6, <1>7, <1>8 DEF c, n

\* Every step keeps it so, also the one that opens the session.
LEMMA UnendedStep ==
  ASSUME Ground, LiveInv, OnceInv, StopInv, Next, NEW s \in Streams, Unended(s)'
  PROVE  (child[session[s].child].order = "none" /\ held[session[s].name] = s /\ restart.pc # "stop")'
<1>1. WireOK /\ OpOK /\ ClientOK /\ RestOK /\ MadeInv /\ OpenedInOrder /\ OpenUnread /\ RunnerOK /\ PlaceInv
  BY GroundIs DEF LiveInv
<1>2. s # 0 /\ session'[s].reader = "reading" /\ session'[s].marks \cap Ends = {}
  BY Bounds DEF Streams, Unended
<1>3. CASE Same(s)
  BY <1>3, UnendedStays DEF Same
<1>4. ~Reader(s)
  BY <1>1, <1>2, ReaderDoes
<1>5. \A n \in Names : ~(Registers(n) /\ s = NextStream)
  BY <1>1, <1>2, RegistersDoes DEF MadeInv
<1>6. \A n \in Names : ~(OpenFails(n) /\ s = op[n].stream)
  BY <1>1, <1>2, OpenFailsDoes
<1>7. ASSUME NEW n \in Names, Opened(n), s = op[n].stream
      PROVE  (child[session[s].child].order = "none" /\ held[session[s].name] = s /\ restart.pc # "stop")'
  <2>1. /\ op[n].pc = "answered" /\ "running" \in op[n].is /\ UNCHANGED <<child, restart>>
        /\ held'[n] = s /\ session'[s].name = session[s].name /\ session'[s].child = op[n].child
        /\ session'[s].marks = IF restart.pc # "idle" \/ child[op[n].child].order = "end" THEN {"unmarked"} ELSE {}
    BY <1>1, <1>2, <1>7, OpenedDoes
  <2>2. restart.pc = "idle" /\ child[op[n].child].order # "end"
    BY <1>2, <2>1 DEF Ends
  <2>3. op[n].child \in Children
    BY <2>1 DEF LiveInv
  <2>4. child[op[n].child].order = "none"
    BY <1>1, <2>2, <2>3 DEF RunnerOK, ChildType
  <2>5. session[s].name = n
    BY <1>1, <1>7, <2>1 DEF PlaceInv, Belongs, Speaking, Placed
  <2> QED
    BY <2>1, <2>2, <2>4, <2>5
<1>8. ASSUME NEW w \in Wires, RoutesExit(w), s = sink[w][Head(wire[w].lane).name], session[s].reader # "done"
      PROVE  (child[session[s].child].order = "none" /\ held[session[s].name] = s /\ restart.pc # "stop")'
  <2>1. /\ UNCHANGED <<child, held, restart>> /\ session'[s].name = session[s].name
        /\ session'[s].reader = session[s].reader /\ session'[s].child = session[s].child
        /\ session'[s].marks = session[s].marks
    BY <1>1, <1>2, <1>8, RoutesExitDoes
  <2>2. Unended(s)
    BY <1>2, <2>1 DEF Unended
  <2> QED
    BY <2>1, <2>2 DEF StopInv
<1>9. SessionMoves(s)
  BY <1>1, SessionsMove
<1> QED
  BY <1>3, <1>4, <1>5, <1>6, <1>7, <1>8, <1>9 DEF SessionMoves

\* A session receives the exits said on it, unless one crossed.
LEMMA InboxStep ==
  ASSUME Ground, StopInv, Next, NEW s \in Streams, session'[s].name \notin history'.crossed
  PROVE  \A e \in In(session'[s].inbox) : e.stream = s
<1>1. WireOK /\ OpOK /\ ClientOK /\ RestOK /\ MadeInv /\ OpenedInOrder /\ PlaceInv
  BY GroundIs
<1>2. s # 0 /\ history.crossed \subseteq history'.crossed
  BY <1>1, Bounds, ExcusesStay DEF Streams
<1>3. ASSUME session'[s].name = session[s].name, session'[s].inbox \in {<<>>, session[s].inbox}
      PROVE  \A e \in In(session'[s].inbox) : e.stream = s
  BY <1>2, <1>3, InNone DEF StopInv
<1>4. Same(s) \/ Reader(s) => \A e \in In(session'[s].inbox) : e.stream = s
  BY <1>1, <1>3, ReaderDoes DEF Same
<1>5. ASSUME NEW n \in Names, (Registers(n) /\ s = NextStream) \/ ((OpenFails(n) \/ Opened(n)) /\ s = op[n].stream)
      PROVE  \A e \in In(session'[s].inbox) : e.stream = s
  <2>1. CASE Registers(n) /\ s = NextStream
    BY <1>1, <2>1, RegistersDoes, InNone DEF MadeInv
  <2>2. CASE OpenFails(n) /\ s = op[n].stream
    BY <1>1, <1>3, <2>2, OpenFailsDoes
  <2>3. CASE Opened(n) /\ s = op[n].stream
    BY <1>1, <1>3, <2>3, OpenedDoes
  <2> QED
    BY <1>5, <2>1, <2>2, <2>3
<1>6. ASSUME NEW w \in Wires, RoutesExit(w), s = sink[w][Head(wire[w].lane).name], session[s].reader # "done"
      PROVE  \A e \in In(session'[s].inbox) : e.stream = s
  <2>1. PICK x \in Exit : x = Head(wire[w].lane)
    BY <1>1, <1>6, RoutesExitDoes
  <2>2. /\ x.name \in Names /\ session'[s].name = session[s].name
        /\ In(session'[s].inbox) = In(session[s].inbox) \cup {x}
        /\ x.stream # s => x.name \in history'.crossed
    BY <1>1, <1>2, <1>6, <2>1, RoutesExitDoes
  <2>3. session[s].name = x.name
    BY <1>1, <1>2, <1>6, <2>1, <2>2 DEF PlaceInv, Belongs
  <2>4. \A e \in In(session[s].inbox) : e.stream = s
    BY <1>2, <2>2 DEF StopInv
  <2> QED
    BY <2>2, <2>3, <2>4
<1>7. SessionMoves(s)
  BY <1>1, SessionsMove
<1> QED
  BY <1>4, <1>5, <1>6, <1>7 DEF SessionMoves

\* A child that is gone without an order stays so.
LEMMA UnstoppedStays ==
  ASSUME Ground, OnceInv, Next, NEW s \in Streams, Unstopped(s), session'[s].child = session[s].child
  PROVE  Unstopped(s)'
<1>1. PICK c \in Children : c = session[s].child
  BY DEF Unstopped
<1>2. child[c].name # "none" /\ child[c].order = "none" /\ child[c].st = "gone"
  <2>1. child[c].name = session[s].name /\ session[s].name # "none"
    BY <1>1, ItsChild
  <2> QED
    BY <1>1, <2>1 DEF Unstopped
<1>3. child'[c].st = "gone" /\ child'[c].order = "none"
  BY <1>2, NamesStay, OrderMoves
<1> QED
  BY <1>1, <1>3 DEF Unstopped

\* A session fails when nobody asked for its end.
LEMMA FailedStep ==
  ASSUME Ground, LiveInv, OnceInv, StopInv, Next, NEW s \in Streams,
         session'[s].end = "failed", "unmarked" \notin session'[s].marks, session'[s].name \notin history'.crossed
  PROVE  Unstopped(s)'
<1>1. WireOK /\ OpOK /\ ClientOK /\ RestOK /\ MadeInv /\ OpenedInOrder /\ OpenUnread
  BY GroundIs DEF LiveInv
<1>2. s # 0 /\ history.crossed \subseteq history'.crossed
  BY <1>1, Bounds, ExcusesStay DEF Streams
<1>3. CASE Same(s)
  <2>1. Unstopped(s)
    BY <1>2, <1>3, MarksMove DEF StopInv, Same
  <2> QED
    BY <1>3, <2>1, UnstoppedStays DEF Same
<1>4. CASE Reader(s)
  <2>1. /\ session[s].reader = "reading" /\ session[s].inbox # <<>> /\ session'[s].child = session[s].child
        /\ session'[s].marks = session[s].marks /\ "closing" \notin session[s].marks
        /\ session'[s].name = session[s].name
    BY <1>1, <1>4, ReaderDoes
  <2>2. Unended(s)
    BY <2>1 DEF Unended, Ends
  <2>3. session[s].child \in Children /\ child[session[s].child].order = "none"
    BY <2>1, <2>2 DEF LiveInv, StopInv
  <2>4. Said(s)
    <3>1. Head(session[s].inbox) \in In(session[s].inbox)
      BY <1>1, <2>1, InLess DEF ClientOK, SessionType
    <3>2. Head(session[s].inbox).stream = s
      BY <1>2, <2>1, <3>1 DEF StopInv
    <3> QED
      BY <3>1, <3>2 DEF Said
  <2>5. child[session[s].child].st = "gone"
    BY <2>3, <2>4, ItsChild
  <2>6. child' = child
    BY <1>1, <1>4, ReaderDoes
  <2> QED
    BY <2>1, <2>3, <2>5, <2>6 DEF Unstopped
<1>5. \A n \in Names : ~(Registers(n) /\ s = NextStream)
  BY <1>1, RegistersDoes DEF MadeInv
<1>6. \A n \in Names : ~(OpenFails(n) /\ s = op[n].stream)
  BY <1>1, OpenFailsDoes
<1>7. ASSUME NEW n \in Names, Opened(n), s = op[n].stream
      PROVE  FALSE
  <2>1. session[s].end = "none"
    BY <1>7 DEF StopInv, OpenUnread, LiveInv, Opened, At, Speaking, Placed
  <2> QED
    BY <1>1, <1>7, <2>1, OpenedDoes
<1>8. ASSUME NEW w \in Wires, RoutesExit(w), s = sink[w][Head(wire[w].lane).name], session[s].reader # "done"
      PROVE  Unstopped(s)'
  <2>1. /\ UNCHANGED child /\ session'[s].name = session[s].name /\ session'[s].child = session[s].child
        /\ session'[s].end = session[s].end /\ session'[s].marks = session[s].marks
    BY <1>1, <1>2, <1>8, RoutesExitDoes
  <2>2. Unstopped(s)
    BY <1>2, <2>1 DEF StopInv
  <2> QED
    BY <2>1, <2>2 DEF Unstopped
<1>9. SessionMoves(s)
  BY <1>1, SessionsMove
<1> QED
  BY <1>3, <1>4, <1>5, <1>6, <1>7, <1>8, <1>9 DEF SessionMoves

\* A session that is not read to its end has none.
LEMMA EndStep ==
  ASSUME Ground, LiveInv, StopInv, Next, NEW s \in Streams, session'[s].reader \in {"none", "reading"}
  PROVE  session'[s].end = "none"
<1>1. WireOK /\ OpOK /\ ClientOK /\ RestOK /\ MadeInv /\ OpenedInOrder /\ OpenUnread
  BY GroundIs DEF LiveInv
<1>2. Same(s) => session'[s].end = "none"
  BY DEF Same, StopInv
<1>3. ~Reader(s) /\ \A n \in Names : ~(OpenFails(n) /\ s = op[n].stream)
  BY <1>1, ReaderDoes, OpenFailsDoes
<1>4. \A n \in Names : Registers(n) /\ s = NextStream => session'[s].end = "none"
  BY <1>1, RegistersDoes DEF MadeInv
<1>5. ASSUME NEW n \in Names, Opened(n), s = op[n].stream
      PROVE  session'[s].end = "none"
  <2>1. session[s].end = "none"
    BY <1>5 DEF StopInv, OpenUnread, LiveInv, Opened, At, Speaking, Placed
  <2> QED
    BY <1>1, <1>5, <2>1, OpenedDoes
<1>6. ASSUME NEW w \in Wires, RoutesExit(w), s = sink[w][Head(wire[w].lane).name], session[s].reader # "done"
      PROVE  session'[s].end = "none"
  <2>1. s # 0
    BY Bounds DEF Streams
  <2>2. session'[s].reader = session[s].reader /\ session'[s].end = session[s].end
    BY <1>1, <1>6, <2>1, RoutesExitDoes
  <2> QED
    BY <2>2 DEF StopInv
<1>7. SessionMoves(s)
  BY <1>1, SessionsMove
<1> QED
  BY <1>2, <1>3, <1>4, <1>5, <1>6, <1>7 DEF SessionMoves

\* Every step keeps failures free of orders.
LEMMA StopStep == ASSUME Ground, LiveInv, OnceInv, StopInv, Next PROVE StopInv'
<1>1. \A s \in Streams : session'[s].reader \in {"none", "reading"} => session'[s].end = "none"
  BY EndStep
<1>2. \A s \in Streams : Unended(s)' =>
        (child[session[s].child].order = "none" /\ held[session[s].name] = s /\ restart.pc # "stop")'
  BY UnendedStep
<1>3. \A s \in Streams : session'[s].name \notin history'.crossed => \A e \in In(session'[s].inbox) : e.stream = s
  BY InboxStep
<1>4. \A s \in Streams : session'[s].end = "failed" /\ "unmarked" \notin session'[s].marks
                         /\ session'[s].name \notin history'.crossed => Unstopped(s)'
  BY FailedStep
<1>5. ASSUME NEW n \in Names, op'[n].pc \in Closing
      PROVE  held'[n] = 0
  <2>1. CASE CloseBegins(n)
    BY <2>1, GroundIs, CloseBeginsDoes
  <2>2. CASE op[n].pc \in Closing
    <3>1. held[n] = 0 /\ ~Opened(n)
      BY <2>2 DEF StopInv, Opened, At, Closing
    <3> QED
      BY <3>1, HeldMoves
  <2> QED
    BY <1>5, <2>1, <2>2, ClosingMoves
<1> QED
  BY <1>1, <1>2, <1>3, <1>4, <1>5 DEF StopInv

LEMMA StopStutters == ASSUME StopInv, UNCHANGED vars PROVE StopInv'
BY DEF StopInv, Unended, Unstopped, vars, runnerVars, clientVars

LEMMA InitStop == Init => StopInv
<1> SUFFICES ASSUME Init PROVE StopInv
  OBVIOUS
<1>1. \A s \in Streams : session[s] = NoStream
  BY DEF Init
<1>2. \A s \in Streams : session[s].reader = "none" /\ session[s].end = "none" /\ session[s].inbox = <<>>
  BY <1>1 DEF NoStream
<1>3. \A n \in Names : op[n].pc \notin Closing
  BY DEF Init, NoOp, Closing
<1> QED
  BY <1>2, <1>3, InNone DEF StopInv, Unended

LEMMA StopHolds == Spec => []StopInv
<1>1. Ground /\ LiveInv /\ OnceInv /\ StopInv /\ [Next]_vars => StopInv'
  BY StopStep, StopStutters
<1> QED
  BY <1>1, InitStop, GroundHolds, LiveHolds, OnceHolds, PTL DEF Spec

(* StopIsNoFailure: a turn cut off because a person closed its conversation *)
(* or restarted the runtime is never reported as the agent's failure        *)
(* (handle_exit), however late its exit arrives.  Excepted as the property  *)
(* says: a session opened while a restart was under way, or whose restart   *)
(* gave up, and a name whose exit crossed into a later stream.              *)
THEOREM StopsAreNoFailures == Spec => []StopIsNoFailure
<1>1. StopInv => StopIsNoFailure
  BY DEF StopInv, StopIsNoFailure, Unstopped
<1> QED
  BY <1>1, StopHolds, PTL
=============================================================================
