------------------------- MODULE ClaudeSessionsProofs -------------------------
(***************************************************************************)
(* Proofs about ClaudeSessions, for any conversations and any bounds:      *)
(*                                                                         *)
(*   Answers   an open that waits is going to get its answer               *)
(*   Owners    a stream that is read belongs to somebody                   *)
(*   Closes    a close that is answered leaves nothing running             *)
(*   Starts    processes begun are spaced by the door                      *)
(*                                                                         *)
(* Each has an inductive invariant beside the types, and a lemma that      *)
(* every step keeps it, with one step per action.                          *)
(***************************************************************************)
EXTENDS ClaudeSessionsTypes, FiniteSetTheorems

-----------------------------------------------------------------------------
(* Answers.  What a connection carries is followed from the request to the *)
(* answer, and connections are made in order, so that a new one is never   *)
(* one somebody waits on already.                                          *)

\* Something of this conversation's open is among what a connection carries.
Has(q, n, s) == \E i \in 1..Len(q) : q[i].name = n /\ q[i].stream = s
Carries(w, n, s) == Has(wire[w].asked, n, s) \/ Has(wire[w].answers, n, s)

\* An open waits on a connection that was made and is not over, and one that is up
\* carries its request or its answer.
Waits(n) == At(n, "asked") =>
  /\ wire[op[n].wire].st \in {"up", "closed"}
  /\ wire[op[n].wire].st = "up" => Carries(op[n].wire, n, op[n].stream)

\* Connections are made in order, so that the next one is one nobody waits on.
MadeInOrder == \E k \in 0..MaxWires : \A w \in Wires : wire[w].st # "unmade" <=> w <= k

AskInv == MadeInOrder /\ \A n \in Names : Waits(n)

\* What is appended to a queue is in it, with what was there.
LEMMA HasMore ==
  ASSUME NEW S, NEW q \in Seq(S), NEW x \in S, NEW n, NEW s,
         Has(q, n, s) \/ (x.name = n /\ x.stream = s)
  PROVE  Has(Append(q, x), n, s)
<1>1. Len(q) \in Nat /\ Len(Append(q, x)) = Len(q) + 1 /\ Append(q, x)[Len(q) + 1] = x
      /\ \A i \in 1..Len(q) : Append(q, x)[i] = q[i]
  BY AppendProperties, LenProperties
<1>2. CASE Has(q, n, s)
  BY <1>1, <1>2 DEF Has
<1>3. CASE x.name = n /\ x.stream = s
  BY <1>1, <1>3 DEF Has
<1> QED
  BY <1>2, <1>3

\* What is not at its head stays in a queue.
LEMMA HasLess ==
  ASSUME NEW S, NEW q \in Seq(S), q # <<>>, NEW n, NEW s, Has(q, n, s),
         ~(Head(q).name = n /\ Head(q).stream = s)
  PROVE  Has(Tail(q), n, s)
<1>1. Len(q) \in Nat /\ Len(Tail(q)) = Len(q) - 1 /\ Head(q) = q[1]
      /\ \A i \in 1..Len(Tail(q)) : Tail(q)[i] = q[i + 1]
  BY HeadTailProperties, LenProperties
<1>2. PICK i \in 1..Len(q) : q[i].name = n /\ q[i].stream = s
  BY DEF Has
<1>3. i # 1 /\ i - 1 \in 1..Len(Tail(q)) /\ Tail(q)[i - 1] = q[i]
  BY <1>1, <1>2
<1> QED
  BY <1>2, <1>3 DEF Has

\* A step that leaves the connections their requests and answers, and starts no wait.
Quiet ==
  /\ \A w \in Wires : /\ wire'[w].st = wire[w].st /\ wire'[w].asked = wire[w].asked
                      /\ wire'[w].answers = wire[w].answers
  /\ \A n \in Names : op'[n].pc = "asked" => op'[n] = op[n]

\* Such a step keeps every open's request and answer.
LEMMA QuietKeeps ==
  ASSUME AskInv, OpOK, Quiet
  PROVE  AskInv'
<1>1. MadeInOrder'
  BY DEF AskInv, MadeInOrder, Quiet
<1>2. ASSUME NEW n \in Names, op'[n].pc = "asked"
      PROVE  Waits(n)'
  <2>1. op'[n] = op[n] /\ At(n, "asked") /\ op[n].wire \in Wires
    BY <1>2 DEF Quiet, At, OpOK, Placed
  <2>2. Waits(n) /\ wire'[op[n].wire].st = wire[op[n].wire].st
    BY <2>1 DEF AskInv, Quiet
  <2>3. \A w \in Wires : \A m, s : Carries(w, m, s) => Has(wire'[w].asked, m, s) \/ Has(wire'[w].answers, m, s)
    BY DEF Carries, Quiet
  <2> QED
    BY <2>1, <2>2, <2>3 DEF Waits, At, Carries
<1> QED
  BY <1>1, <1>2 DEF AskInv, Waits, At

\* The steps of one conversation that neither begin nor end a wait of another.
LEMMA ReturnsQuiet ==
  ASSUME OpOK, NEW n \in Names, Returns(n), UNCHANGED wire
  PROVE  Quiet
BY DEF Quiet, Returns, OpOK, NoOp

\* An operation goes on to anything but waiting.
LEMMA GoesQuiet ==
  ASSUME OpOK, NEW n \in Names, NEW pc, pc # "asked", Goes(n, pc), UNCHANGED wire
  PROVE  Quiet
<1>1. op'[n].pc = pc /\ \A m \in Names \ {n} : op'[m] = op[m]
  BY DEF Goes, OpOK, OpType
<1> QED
  BY <1>1 DEF Quiet

\* Neither a connection nor an operation changes.
LEMMA StaysQuiet ==
  ASSUME UNCHANGED <<wire, op>>
  PROVE  Quiet
BY DEF Quiet

\* The connection is closed, and what it had asked is lost.
LEMMA ClosesKeeps ==
  ASSUME AskInv, WireOK, OpOK, NEW w \in Wires, wire[w].st # "unmade", Closes(w),
         \A n \in Names : op'[n].pc = "asked" => op'[n] = op[n]
  PROVE  AskInv'
<1>1. wire' = [wire EXCEPT ![w] = [wire[w] EXCEPT !.st = "closed", !.asked = <<>>]]
  BY DEF Closes, WireOK
<1>2. wire'[w].st = "closed" /\ \A v \in Wires \ {w} : wire'[v] = wire[v]
  BY <1>1 DEF WireOK, WireType
<1>3. MadeInOrder'
  BY <1>2 DEF AskInv, MadeInOrder
<1>4. ASSUME NEW n \in Names, op'[n].pc = "asked"
      PROVE  Waits(n)'
  <2>1. op'[n] = op[n] /\ Waits(n) /\ At(n, "asked") /\ op[n].wire \in Wires
    BY <1>4 DEF AskInv, At, OpOK, Placed
  <2>2. CASE op[n].wire = w
    BY <1>2, <2>1, <2>2 DEF Waits
  <2>3. CASE op[n].wire # w
    BY <1>2, <2>1, <2>3 DEF Waits, Carries, At
  <2> QED
    BY <2>2, <2>3
<1> QED
  BY <1>3, <1>4 DEF AskInv, Waits, At

\* A request leaves one queue of the connection, its answer enters the other.
LEMMA AnswersKeeps ==
  ASSUME AskInv, WireOK, OpOK, UNCHANGED op, NEW w \in Wires, wire[w].asked # <<>>,
         NEW c \in 0..MaxChildren, NEW is \in SUBSET {"begun", "running"},
         Answers(w, Head(wire[w].asked), c, is)
  PROVE  AskInv'
<1> DEFINE q == Head(wire[w].asked)
           a == [name |-> q.name, stream |-> q.stream, child |-> c, is |-> is]
<1>1. wire[w] \in WireType /\ q \in Create
  BY HeadIs DEF WireOK, WireType
<1>2. a \in Answer /\ a.name = q.name /\ a.stream = q.stream
  BY <1>1 DEF Create, Answer
<1>3. wire' = [wire EXCEPT ![w] = [wire[w] EXCEPT !.asked = Tail(@), !.answers = Append(@, a)]]
  BY DEF Answers, WireOK
<1>4. /\ wire'[w].st = wire[w].st /\ wire'[w].asked = Tail(wire[w].asked)
      /\ wire'[w].answers = Append(wire[w].answers, a) /\ \A v \in Wires \ {w} : wire'[v] = wire[v]
  BY <1>1, <1>3 DEF WireOK, WireType
<1> HIDE DEF a
<1>5. MadeInOrder'
  BY <1>4 DEF AskInv, MadeInOrder
<1>6. \A n, s : Carries(w, n, s) => Carries(w, n, s)'
  <2> SUFFICES ASSUME NEW n, NEW s, Carries(w, n, s) PROVE Has(wire'[w].asked, n, s) \/ Has(wire'[w].answers, n, s)
    BY DEF Carries
  <2>0. wire[w].asked \in Seq(Create) /\ wire[w].answers \in Seq(Answer)
    BY <1>1 DEF WireType
  <2>1. CASE Has(wire[w].answers, n, s) \/ (a.name = n /\ a.stream = s)
    BY <1>2, <1>4, <2>0, <2>1, HasMore
  <2>2. CASE Has(wire[w].asked, n, s) /\ ~(q.name = n /\ q.stream = s)
    BY <1>4, <2>0, <2>2, HasLess
  <2> QED
    BY <1>2, <2>1, <2>2 DEF Carries
<1>7. ASSUME NEW n \in Names, At(n, "asked")
      PROVE  Waits(n)'
  <2>1. Waits(n) /\ op[n].wire \in Wires
    BY <1>7 DEF AskInv, At, OpOK, Placed
  <2>2. wire'[op[n].wire].st = wire[op[n].wire].st
    BY <1>4, <2>1
  <2>3. Carries(op[n].wire, n, op[n].stream) => Carries(op[n].wire, n, op[n].stream)'
    <3>1. CASE op[n].wire = w
      BY <1>6, <3>1 DEF Carries
    <3>2. CASE op[n].wire # w
      BY <1>4, <2>1, <3>2 DEF Carries
    <3> QED
      BY <3>1, <3>2
  <2> QED
    BY <1>7, <2>1, <2>2, <2>3 DEF Waits, At, Carries
<1> QED
  BY <1>5, <1>7 DEF AskInv, Waits, At

\* The next connection is one that was not made.
LEMMA NextWireIs ==
  ASSUME MadeInOrder, NextWire \in Wires
  PROVE  /\ wire[NextWire].st = "unmade"
         /\ \E k \in 0..MaxWires : \A w \in Wires : (wire[w].st # "unmade" \/ w = NextWire) <=> w <= k
<1>1. PICK k \in 0..MaxWires : \A w \in Wires : wire[w].st # "unmade" <=> w <= k
  BY DEF MadeInOrder
<1>2. {w \in Wires : wire[w].st # "unmade"} = 1..k
  BY <1>1, Bounds DEF Wires
<1>3. Cardinality(1..k) = k
  <2>1. k \in Nat /\ 1 \in Int
    BY Bounds
  <2>2. Cardinality(1..k) = IF 1 > k THEN 0 ELSE k - 1 + 1
    BY <2>1, FS_Interval
  <2> QED
    BY <2>1, <2>2
<1>4. NextWire = k + 1
  <2>1. NextWire = 1 + Cardinality(1..k)
    BY <1>2, Zenon DEF NextWire
  <2> QED
    BY <1>3, <2>1, Bounds
<1>5. k + 1 \in Wires /\ k + 1 \in 0..MaxWires
  BY <1>4, Bounds
<1>6. \A w \in Wires : (wire[w].st # "unmade" \/ w = k + 1) <=> w <= k + 1
  BY <1>1, Bounds DEF Wires
<1>7. wire[k + 1].st = "unmade"
  BY <1>1, <1>5
<1> QED
  BY <1>4, <1>5, <1>6, <1>7

\* Every step keeps what an open waits for.
LEMMA AskStep ==
  ASSUME RunnerOK, WireOK, ClientOK, OpOK, AskInv, Next
  PROVE  AskInv'
<1>1. ASSUME NEW n \in Names, OpenBegins(n) PROVE AskInv'
  BY <1>1, GoesQuiet, QuietKeeps DEF OpenBegins
<1>2. ASSUME NEW n \in Names, PassesDoor(n) PROVE AskInv'
  BY <1>2, GoesQuiet, QuietKeeps DEF PassesDoor
<1>3. ASSUME NEW n \in Names, WaitsNoLonger(n) PROVE AskInv'
  BY <1>3, ReturnsQuiet, QuietKeeps DEF WaitsNoLonger
<1>4. ASSUME NEW n \in Names, TakesWire(n) PROVE AskInv'
  <2>1. op'[n].pc # "asked" /\ \A m \in Names \ {n} : op'[m] = op[m]
    BY <1>4 DEF TakesWire, OpOK, OpType
  <2>2. CASE UNCHANGED wire
    <3>1. Quiet
      BY <2>1, <2>2 DEF Quiet
    <3> QED
      BY <3>1, QuietKeeps
  <2>3. CASE NextWire \in Wires /\ wire' = [wire EXCEPT ![NextWire].st = "up"]
    <3>1. PICK x \in Wires : x = NextWire
      BY <2>3
    <3>2. wire'[x].st = "up" /\ \A w \in Wires \ {x} : wire'[w] = wire[w]
      BY <2>3, <3>1 DEF WireOK, WireType
    <3>3. wire[x].st = "unmade" /\ \E k \in 0..MaxWires : \A w \in Wires : (wire[w].st # "unmade" \/ w = x) <=> w <= k
      BY <2>3, <3>1, NextWireIs DEF AskInv
    <3>4. MadeInOrder'
      BY <3>2, <3>3 DEF MadeInOrder
    <3>5. ASSUME NEW m \in Names, op'[m].pc = "asked"
          PROVE  Waits(m)'
      <4>1. op'[m] = op[m] /\ Waits(m) /\ At(m, "asked") /\ op[m].wire \in Wires
        BY <2>1, <3>5 DEF AskInv, At, OpOK, Placed
      <4>2. op[m].wire # x
        BY <3>3, <4>1 DEF Waits
      <4> QED
        BY <3>2, <4>1, <4>2 DEF Waits, Carries, At
    <3> QED
      BY <3>4, <3>5 DEF AskInv, Waits, At
  <2> QED
    BY <1>4, <2>2, <2>3 DEF TakesWire
<1>5. ASSUME NEW n \in Names, FindsNoRunner(n) PROVE AskInv'
  BY <1>5, ReturnsQuiet, QuietKeeps DEF FindsNoRunner
<1>6. ASSUME NEW n \in Names, Registers(n) PROVE AskInv'
  <2>1. op'[n].pc # "asked" /\ (\A m \in Names \ {n} : op'[m] = op[m]) /\ UNCHANGED wire
    BY <1>6 DEF Registers, OpOK, OpType
  <2>2. Quiet
    BY <2>1 DEF Quiet
  <2> QED
    BY <2>2, QuietKeeps
<1>7. ASSUME NEW n \in Names, Writes(n) PROVE AskInv'
  <2>1. CASE Goes(n, "failed") /\ UNCHANGED wire
    BY <2>1, GoesQuiet, QuietKeeps
  <2>2. CASE /\ Up(op[n].wire) /\ Goes(n, "asked")
             /\ wire' = [wire EXCEPT ![op[n].wire].asked = Append(@, [name |-> n, stream |-> op[n].stream])]
    <3> DEFINE w == op[n].wire
               q == [name |-> n, stream |-> op[n].stream]
    <3>1. w \in Wires /\ q \in Create
      BY <1>7 DEF Writes, OpOK, At, Placed, Create
    <3>2. wire[w] \in WireType /\ wire[w].st = "up"
      BY <2>2, <3>1 DEF WireOK, Up
    <3>3. wire' = [wire EXCEPT ![w] = [wire[w] EXCEPT !.asked = Append(@, q)]]
      BY <2>2, <3>1 DEF WireOK
    <3>4. /\ wire'[w].st = "up" /\ wire'[w].asked = Append(wire[w].asked, q) /\ wire'[w].answers = wire[w].answers
          /\ \A v \in Wires \ {w} : wire'[v] = wire[v]
      BY <3>1, <3>2, <3>3 DEF WireOK, WireType
    <3>5. op'[n].pc = "asked" /\ op'[n].wire = w /\ op'[n].stream = op[n].stream /\ \A m \in Names \ {n} : op'[m] = op[m]
      BY <2>2 DEF Goes, OpOK, OpType
    <3>6. MadeInOrder'
      BY <3>2, <3>4 DEF AskInv, MadeInOrder
    <3>7. q.name = n /\ q.stream = op[n].stream /\ wire[w].asked \in Seq(Create)
      BY <3>2 DEF WireType
    <3> HIDE DEF q
    <3>8. \A m, s : Has(wire[w].asked, m, s) \/ (q.name = m /\ q.stream = s) => Has(wire'[w].asked, m, s)
      BY <3>1, <3>4, <3>7, HasMore
    <3>9. Waits(n)'
      BY <3>4, <3>5, <3>7, <3>8 DEF Waits, At, Carries
    <3>10. ASSUME NEW m \in Names \ {n}, op'[m].pc = "asked"
           PROVE  Waits(m)'
      <4>1. op'[m] = op[m] /\ Waits(m) /\ At(m, "asked") /\ op[m].wire \in Wires
        BY <3>5, <3>10 DEF AskInv, At, OpOK, Placed
      <4>2. CASE op[m].wire = w
        BY <3>2, <3>4, <3>8, <4>1, <4>2 DEF Waits, Carries, At
      <4>3. CASE op[m].wire # w
        BY <3>4, <4>1, <4>3 DEF Waits, Carries, At
      <4> QED
        BY <4>2, <4>3
    <3> QED
      BY <3>6, <3>9, <3>10 DEF AskInv, Waits, At
  <2> QED
    BY <1>7, <2>1, <2>2 DEF Writes
<1>8. ASSUME NEW n \in Names, GivesUp(n) PROVE AskInv'
  BY <1>8, GoesQuiet, QuietKeeps DEF GivesUp
<1>9. ASSUME NEW n \in Names, OpenFails(n) PROVE AskInv'
  BY <1>9, ReturnsQuiet, QuietKeeps DEF OpenFails
<1>10. ASSUME NEW n \in Names, Opened(n) PROVE AskInv'
  BY <1>10, ReturnsQuiet, QuietKeeps DEF Opened
<1>11. ASSUME NEW n \in Names, CloseBegins(n) PROVE AskInv'
  BY <1>11, GoesQuiet, QuietKeeps DEF CloseBegins
<1>12. ASSUME NEW n \in Names, CloseConnects(n) PROVE AskInv'
  BY <1>12, GoesQuiet, ReturnsQuiet, QuietKeeps DEF CloseConnects
<1>13. ASSUME NEW n \in Names, CloseKills(n) PROVE AskInv'
  <2>1. op'[n].pc # "asked" /\ (\A m \in Names \ {n} : op'[m] = op[m]) /\ UNCHANGED wire
    BY <1>13 DEF CloseKills, OpOK, OpType, Returns, NoOp
  <2>2. Quiet
    BY <2>1 DEF Quiet
  <2> QED
    BY <2>2, QuietKeeps
<1>14. ASSUME NEW n \in Names, CloseEnds(n) PROVE AskInv'
  BY <1>14, ReturnsQuiet, QuietKeeps DEF CloseEnds
<1>15. ASSUME NEW n \in Names, CloseGivesUp(n) PROVE AskInv'
  BY <1>15, ReturnsQuiet, QuietKeeps DEF CloseGivesUp
<1>16. ASSUME DoorOpens PROVE AskInv'
  BY <1>16, StaysQuiet, QuietKeeps DEF DoorOpens
<1>17. ASSUME NEW w \in Wires, RoutesAnswer(w) PROVE AskInv'
  <2> DEFINE a == Head(wire[w].answers)
  <2>1. wire[w] \in WireType /\ wire[w].answers # <<>> /\ a \in Answer
    BY <1>17, HeadIs DEF RoutesAnswer, WireOK, WireType
  <2>2. wire' = [wire EXCEPT ![w] = [wire[w] EXCEPT !.answers = Tail(@)]]
    BY <1>17 DEF RoutesAnswer, WireOK
  <2>3. /\ wire'[w].st = wire[w].st /\ wire'[w].asked = wire[w].asked /\ wire'[w].answers = Tail(wire[w].answers)
        /\ \A v \in Wires \ {w} : wire'[v] = wire[v]
    BY <2>1, <2>2 DEF WireOK, WireType
  <2>4. MadeInOrder'
    BY <2>3 DEF AskInv, MadeInOrder
  <2>5. ASSUME NEW n \in Names, op'[n].pc = "asked"
        PROVE  op'[n] = op[n] /\ ~(a.name = n /\ a.stream = op[n].stream)
    <3>1. a.name \in Names
      BY <2>1 DEF Answer
    <3>2. CASE ~(At(a.name, "asked") /\ op[a.name].stream = a.stream)
      BY <1>17, <2>5, <3>2 DEF RoutesAnswer, At
    <3>3. CASE At(a.name, "asked") /\ op[a.name].stream = a.stream
      <4>1. op'[a.name].pc \in {"failed", "answered"} /\ \A m \in Names \ {a.name} : op'[m] = op[m]
        <5>1. CASE a.child = 0
          BY <1>17, <3>1, <3>3, <5>1 DEF RoutesAnswer, Goes, OpOK, OpType
        <5>2. CASE a.child # 0
          <6> DEFINE to == [op[a.name] EXCEPT !.pc = "answered", !.child = a.child, !.is = a.is]
          <6>1. op' = [op EXCEPT ![a.name].pc = "answered", ![a.name].child = a.child, ![a.name].is = a.is]
            BY <1>17, <3>3, <5>2 DEF RoutesAnswer
          <6>2. op' = [op EXCEPT ![a.name] = to]
            BY <3>1, <6>1 DEF OpOK
          <6>3. to.pc = "answered"
            BY <3>1 DEF OpOK, OpType
          <6> QED
            BY <3>1, <6>2, <6>3 DEF OpOK
        <5> QED
          BY <5>1, <5>2
      <4> QED
        BY <2>5, <4>1
    <3> QED
      BY <3>2, <3>3
  <2>6. ASSUME NEW n \in Names, op'[n].pc = "asked"
        PROVE  Waits(n)'
    <3>1. op'[n] = op[n] /\ Waits(n) /\ At(n, "asked") /\ op[n].wire \in Wires /\ ~(a.name = n /\ a.stream = op[n].stream)
      BY <2>5, <2>6 DEF AskInv, At, OpOK, Placed
    <3>2. CASE op[n].wire = w
      <4>1. Has(wire[w].answers, n, op[n].stream) => Has(wire'[w].answers, n, op[n].stream)
        <5>1. wire[w].answers \in Seq(Answer)
          BY <2>1 DEF WireType
        <5> QED
          BY <2>1, <2>3, <3>1, <5>1, HasLess
      <4> QED
        BY <2>3, <3>1, <3>2, <4>1 DEF Waits, Carries, At
    <3>3. CASE op[n].wire # w
      BY <2>3, <3>1, <3>3 DEF Waits, Carries, At
    <3> QED
      BY <3>2, <3>3
  <2> QED
    BY <2>4, <2>6 DEF AskInv, Waits, At
<1>18. ASSUME NEW w \in Wires, RoutesExit(w) PROVE AskInv'
  <2>1. wire' = [wire EXCEPT ![w] = [wire[w] EXCEPT !.lane = Tail(@)]] /\ UNCHANGED op
    BY <1>18 DEF RoutesExit, WireOK
  <2>2. Quiet
    BY <2>1 DEF Quiet, WireOK, WireType
  <2> QED
    BY <2>2, QuietKeeps
<1>19. ASSUME NEW w \in Wires, WireEnds(w) PROVE AskInv'
  <2>1. op' = [n \in Names |-> IF At(n, "asked") /\ op[n].wire = w THEN [op[n] EXCEPT !.pc = "failed"] ELSE op[n]]
    BY <1>19 DEF WireEnds
  <2>2. \A n \in Names : op'[n].pc = "asked" => op'[n] = op[n] /\ op[n].wire # w
    BY <2>1 DEF At, OpOK, OpType
  <2>3. wire[w].st = "closed" /\ wire'[w].st = "over" /\ \A v \in Wires \ {w} : wire'[v] = wire[v]
    BY <1>19 DEF WireEnds, WireOK
  <2>4. MadeInOrder'
    BY <2>3 DEF AskInv, MadeInOrder
  <2>5. ASSUME NEW n \in Names, op'[n].pc = "asked"
        PROVE  Waits(n)'
    <3>1. op'[n] = op[n] /\ Waits(n) /\ At(n, "asked") /\ op[n].wire \in Wires \ {w}
      BY <2>2, <2>5 DEF AskInv, At, OpOK, Placed
    <3> QED
      BY <2>3, <3>1 DEF Waits, Carries, At
  <2> QED
    BY <2>4, <2>5 DEF AskInv, Waits, At
<1>20. ASSUME NEW s \in Streams, Reads(s) PROVE AskInv'
  BY <1>20, StaysQuiet, QuietKeeps DEF Reads
<1>21. ASSUME NEW s \in Streams, FindsEnd(s) PROVE AskInv'
  BY <1>21, StaysQuiet, QuietKeeps DEF FindsEnd
<1>22. ASSUME NEW s \in Streams, LetsGo(s) PROVE AskInv'
  BY <1>22, StaysQuiet, QuietKeeps DEF LetsGo
<1>23. ASSUME NEW w \in Wires, Refuses(w) PROVE AskInv'
  <2>1. 0 \in 0..MaxChildren /\ Answers(w, Head(wire[w].asked), 0, {}) /\ wire[w].asked # <<>> /\ UNCHANGED op
    BY <1>23, Bounds DEF Refuses
  <2>2. {} \in SUBSET {"begun", "running"}
    OBVIOUS
  <2> QED
    BY <2>1, <2>2, AnswersKeeps
<1>24. ASSUME NEW w \in Wires, Attaches(w) PROVE AskInv'
  <2> DEFINE q == Head(wire[w].asked)
  <2>1. wire[w].asked # <<>> /\ q \in Create
    BY <1>24, HeadIs DEF Attaches, WireOK, WireType
  <2>2. UNCHANGED op /\ \E is \in SUBSET {"running"} : Answers(w, q, registry[q.name], is)
    BY <1>24 DEF Attaches
  <2>3. registry[q.name] \in 0..MaxChildren
    BY <2>1 DEF RunnerOK, Create
  <2> QED
    BY <2>1, <2>2, <2>3, AnswersKeeps
<1>25. ASSUME NEW w \in Wires, Spawns(w) PROVE AskInv'
  <2> DEFINE q == Head(wire[w].asked)
  <2>1. wire[w].asked # <<>> /\ q \in Create
    BY <1>25, HeadIs DEF Spawns, WireOK, WireType
  <2>2. UNCHANGED op /\ \E is \in SUBSET {"running"} : Answers(w, q, NextChild, is \cup {"begun"})
    BY <1>25 DEF Spawns
  <2>3. NextChild \in 0..MaxChildren
    BY <1>25, Bounds DEF Spawns
  <2> QED
    BY <2>1, <2>2, <2>3, AnswersKeeps
<1>26. ASSUME NEW c \in Children, Exits(c) PROVE AskInv'
  BY <1>26, StaysQuiet, QuietKeeps DEF Exits
<1>27. ASSUME NEW c \in Children, SaysExit(c) PROVE AskInv'
  <2>1. UNCHANGED op /\ (UNCHANGED wire \/ SaysEnd(c))
    BY <1>27 DEF SaysExit
  <2>2. \A w \in Wires : \E q : wire'[w] \in {wire[w], [wire[w] EXCEPT !.lane = q]}
    BY <2>1 DEF SaysEnd, WireOK
  <2>3. \A w \in Wires : wire'[w].st = wire[w].st /\ wire'[w].asked = wire[w].asked /\ wire'[w].answers = wire[w].answers
    BY <2>2 DEF WireOK, WireType
  <2>4. Quiet
    BY <2>1, <2>3 DEF Quiet
  <2> QED
    BY <2>4, QuietKeeps
<1>28. ASSUME NEW c \in Children, OrphanEnds(c) PROVE AskInv'
  BY <1>28, StaysQuiet, QuietKeeps DEF OrphanEnds
<1>29. ASSUME ConnectionDrops PROVE AskInv'
  <2>1. slot \in Wires /\ wire[slot].st # "unmade" /\ Closes(slot) /\ UNCHANGED op
    BY <1>29, UpIs DEF ConnectionDrops, ClientOK, Up
  <2> QED
    BY <2>1, ClosesKeeps
<1>30. ASSUME RunnerExits PROVE AskInv'
  <2>1. op' = [n \in Names |-> IF op[n].pc \in {"closing", "killing"} THEN NoOp ELSE op[n]]
    BY <1>30 DEF RunnerExits, RunnerGone
  <2>2. \A n \in Names : op'[n].pc = "asked" => op'[n] = op[n]
    BY <2>1 DEF NoOp
  <2>3. CASE UNCHANGED wire
    <3>1. Quiet
      BY <2>2, <2>3 DEF Quiet
    <3> QED
      BY <3>1, QuietKeeps
  <2>4. CASE Up(slot) /\ Closes(slot)
    <3>1. slot \in Wires /\ wire[slot].st # "unmade"
      BY <2>4, UpIs DEF ClientOK, Up
    <3> QED
      BY <2>2, <2>4, <3>1, ClosesKeeps
  <2> QED
    BY <1>30, <2>3, <2>4 DEF RunnerExits, RunnerGone
<1>31. ASSUME RunnerCrashes PROVE AskInv'
  <2>1. op' = [n \in Names |-> IF op[n].pc \in {"closing", "killing"} THEN NoOp ELSE op[n]]
    BY <1>31 DEF RunnerCrashes, RunnerGone
  <2>2. \A n \in Names : op'[n].pc = "asked" => op'[n] = op[n]
    BY <2>1 DEF NoOp
  <2>3. CASE UNCHANGED wire
    <3>1. Quiet
      BY <2>2, <2>3 DEF Quiet
    <3> QED
      BY <3>1, QuietKeeps
  <2>4. CASE Up(slot) /\ Closes(slot)
    <3>1. slot \in Wires /\ wire[slot].st # "unmade"
      BY <2>4, UpIs DEF ClientOK, Up
    <3> QED
      BY <2>2, <2>4, <3>1, ClosesKeeps
  <2> QED
    BY <1>31, <2>3, <2>4 DEF RunnerCrashes, RunnerGone
<1>32. ASSUME RestartBegins PROVE AskInv'
  BY <1>32, StaysQuiet, QuietKeeps DEF RestartBegins
<1>33. ASSUME RestartStops PROVE AskInv'
  BY <1>33, StaysQuiet, QuietKeeps DEF RestartStops
<1>34. ASSUME RestartServes PROVE AskInv'
  BY <1>34, StaysQuiet, QuietKeeps DEF RestartServes
<1>35. ASSUME RestartGivesUp PROVE AskInv'
  BY <1>35, StaysQuiet, QuietKeeps DEF RestartGivesUp
<1> QED
  BY <1>1, <1>2, <1>3, <1>4, <1>5, <1>6, <1>7, <1>8, <1>9, <1>10, <1>11, <1>12, <1>13, <1>14,
     <1>15, <1>16, <1>17, <1>18, <1>19, <1>20, <1>21, <1>22, <1>23, <1>24, <1>25, <1>26, <1>27, <1>28,
     <1>29, <1>30, <1>31, <1>32, <1>33, <1>34, <1>35
  DEF Next, Open, Close, Route, Reader, Run, Restart

\* At first no open waits.
LEMMA InitAsks == Init => AskInv
<1> SUFFICES ASSUME Init PROVE AskInv
  OBVIOUS
<1>1. \A w \in Wires : wire[w].st = "unmade" /\ ~(w <= 0)
  BY Bounds DEF Init, Wires
<1>2. MadeInOrder
  BY <1>1, Bounds DEF MadeInOrder
<1> QED
  BY <1>2 DEF AskInv, Waits, At, Init, NoOp

\* Nor does a stuttering step.
LEMMA AskStutters == ASSUME AskInv, UNCHANGED vars PROVE AskInv'
BY DEF AskInv, MadeInOrder, Waits, Carries, At, vars, runnerVars, clientVars

\* What the invariant says in the property's words.
LEMMA WaitsIsAnswered ==
  ASSUME AskInv, WireOK, OpOK
  PROVE  AskedIsAnswered
<1> SUFFICES ASSUME NEW n \in Names, At(n, "asked")
             PROVE  LET w == wire[op[n].wire] IN
                    /\ w.st # "over"
                    /\ w.st = "up" => \E r \in {w.asked[i] : i \in 1..Len(w.asked)}
                                                \cup {w.answers[i] : i \in 1..Len(w.answers)} :
                                        r.name = n /\ r.stream = op[n].stream
  BY DEF AskedIsAnswered
<1> DEFINE w == wire[op[n].wire]
<1>1. w.st \in {"up", "closed"} /\ (w.st = "up" => Carries(op[n].wire, n, op[n].stream))
  BY DEF AskInv, Waits
<1>2. ASSUME w.st = "up"
      PROVE  \E r \in {w.asked[i] : i \in 1..Len(w.asked)} \cup {w.answers[i] : i \in 1..Len(w.answers)} :
               r.name = n /\ r.stream = op[n].stream
  BY <1>1, <1>2 DEF Carries, Has
<1> QED
  BY <1>1, <1>2

(* An open that waits for its answer is still going to get one, or its     *)
(* connection an end that wakes it: no refusal, exit, lost connection or   *)
(* dead runner leaves a caller waiting (Wire::request and Wire::route,     *)
(* runner.rs).                                                             *)
THEOREM AskedAreAnswered == Spec => []AskedIsAnswered
<1>1. ASSUME TypeInv, AskInv, [Next]_vars
      PROVE  AskInv'
  <2>1. CASE Next
    BY <1>1, <2>1, AskStep DEF TypeInv
  <2>2. CASE UNCHANGED vars
    BY <1>1, <2>2, AskStutters
  <2> QED
    BY <1>1, <2>1, <2>2
<1>2. TypeInv /\ AskInv => AskedIsAnswered
  BY WaitsIsAnswered DEF TypeInv
<1> QED
  BY <1>1, <1>2, InitAsks, TypesHold, PTL DEF Spec

-----------------------------------------------------------------------------
(* Owners.  A stream belongs to the conversation it was opened for, and    *)
(* what an operation does to a stream it does to its own.                  *)

Speaking == Placed \ {"register"}
Opening == {"door", "wire"} \cup Placed

\* Streams are opened in order, so that the next one is one nobody names.
OpenedInOrder == \E k \in 0..MaxOpens : \A s \in Streams : session[s].name # "none" <=> s <= k
\* What is routed, opened or held under a name carries that name.
NamedAlike == \A n \in Names :
  /\ \A w \in Wires : sink[w][n] # 0 => session[sink[w][n]].name = n
  /\ op[n].pc \in Speaking => session[op[n].stream].name = n
\* A conversation being opened is held by nobody.
OpenedUnheld == \A n \in Names : op[n].pc \in Opening => held[n] = 0

OwnInv == OpenedInOrder /\ NamedAlike /\ OpenedUnheld /\ StreamIsOwned

\* A stream without a name is nobody's.
LEMMA NoName == "none" \notin Names
BY InstanceAssumption DEF InstanceAssumption

\* An open speaks of a stream from its registration to its end.
LEMMA AskingIs ==
  ASSUME NEW n, NEW s
  PROVE  Asking(n, s) <=> op[n].stream = s /\ op[n].pc \in Speaking
BY DEF Asking, Speaking, Placed

\* A step that routes nothing anew and lets no stream go that is still read.
Calm ==
  /\ \A w \in Wires, n \in Names : sink'[w][n] \in {0, sink[w][n]}
  /\ \A s \in Streams : /\ session'[s].name = session[s].name
                        /\ session'[s].reader # "done" => session[s].reader # "done"
                             /\ ("closed" \in session[s].marks => "closed" \in session'[s].marks)
  /\ \A n \in Names :
       /\ op'[n].pc \in Opening => held'[n] = 0
       /\ op'[n].pc \in Speaking => op[n].pc \in Speaking /\ op'[n].stream = op[n].stream
       /\ \A s \in Streams : held[n] = s \/ (op[n].stream = s /\ op[n].pc \in Speaking) =>
            \/ session'[s].reader = "done" \/ "closed" \in session'[s].marks
            \/ held'[n] = s \/ (op'[n].stream = s /\ op'[n].pc \in Speaking)

\* A calm step keeps the owners.
LEMMA CalmKeeps ==
  ASSUME OwnInv, ClientOK, OpOK, Calm
  PROVE  OwnInv'
<1>1. OpenedInOrder'
  BY DEF OwnInv, OpenedInOrder, Calm
<1>2. OpenedUnheld'
  BY DEF OpenedUnheld, Calm
<1>3. ASSUME NEW n \in Names, NEW w \in Wires, sink'[w][n] # 0
      PROVE  session'[sink'[w][n]].name = n
  <2>1. sink'[w][n] = sink[w][n] /\ sink[w][n] \in 0..MaxOpens
    BY <1>3 DEF Calm, ClientOK
  <2>2. sink[w][n] \in Streams
    BY <1>3, <2>1, StreamIs
  <2> QED
    BY <1>3, <2>1, <2>2 DEF Calm, OwnInv, NamedAlike
<1>4. ASSUME NEW n \in Names, op'[n].pc \in Speaking
      PROVE  session'[op'[n].stream].name = n
  <2>1. op[n].pc \in Speaking /\ op'[n].stream = op[n].stream /\ op[n].stream \in Streams
    BY <1>4 DEF Calm, OpOK, Speaking
  <2> QED
    BY <2>1 DEF Calm, OwnInv, NamedAlike
<1>5. ASSUME NEW n \in Names, NEW w \in Wires, NEW s \in Streams, s = sink'[w][n], session'[s].reader # "done"
      PROVE  held'[n] = s \/ (op'[n].stream = s /\ op'[n].pc \in Speaking) \/ "closed" \in session'[s].marks
  <2>1. s = sink[w][n] /\ s # 0 /\ session[s].reader # "done"
    BY <1>5, Bounds DEF Calm, Streams
  <2>2. held[n] = s \/ Asking(n, s) \/ "closed" \in session[s].marks
    BY <2>1 DEF OwnInv, StreamIsOwned
  <2> QED
    BY <1>5, <2>2, AskingIs DEF Calm
<1>6. StreamIsOwned'
  <2> SUFFICES ASSUME NEW w \in Wires, NEW n \in Names, sink'[w][n] # 0, session'[sink'[w][n]].reader # "done"
               PROVE  \/ held'[n] = sink'[w][n] \/ "closed" \in session'[sink'[w][n]].marks
                      \/ op'[n].stream = sink'[w][n] /\ op'[n].pc \in Speaking
    BY DEF StreamIsOwned, Asking, Speaking, Placed
  <2>1. sink'[w][n] \in Streams
    BY StreamIs DEF Calm, ClientOK
  <2>2. held'[n] = sink'[w][n] \/ (op'[n].stream = sink'[w][n] /\ op'[n].pc \in Speaking) \/ "closed" \in session'[sink'[w][n]].marks
    BY <1>5, <2>1
  <2> QED
    BY <2>2
<1> QED
  BY <1>1, <1>2, <1>3, <1>4, <1>6 DEF OwnInv, NamedAlike

\* The client's own is left alone; an operation stays with its stream, or it had none.
Stays(m) ==
  /\ op'[m].pc \in Speaking <=> op[m].pc \in Speaking
  /\ op[m].pc \in Speaking => op'[m].stream = op[m].stream
  /\ op'[m].pc \in Opening => op[m].pc \in Opening \/ held[m] = 0

\* Only operations move, and none takes a stream or lets one go.
LEMMA StillCalm ==
  ASSUME OwnInv, ClientOK, OpOK, UNCHANGED <<sink, session, held>>, \A m \in Names : Stays(m)
  PROVE  OwnInv'
<1>1. \A n \in Names : op[n].pc \in Opening => held[n] = 0
  BY DEF OwnInv, OpenedUnheld
<1>2. Calm
  BY <1>1 DEF Calm, ClientOK, Stays
<1> QED
  BY <1>2, CalmKeeps

\* Nothing of the client's moves.
LEMMA RestsCalm ==
  ASSUME OwnInv, ClientOK, OpOK, UNCHANGED <<sink, session, held, op>>
  PROVE  OwnInv'
<1>1. \A m \in Names : Stays(m)
  BY DEF Stays
<1> QED
  BY <1>1, StillCalm

\* An operation goes on with its stream, or without one.
LEMMA GoesCalm ==
  ASSUME OwnInv, ClientOK, OpOK, UNCHANGED <<sink, session, held>>, NEW n \in Names, NEW pc, Goes(n, pc),
         pc \in Speaking <=> op[n].pc \in Speaking, pc \in Opening => op[n].pc \in Opening \/ held[n] = 0
  PROVE  OwnInv'
<1>1. op'[n].pc = pc /\ op'[n].stream = op[n].stream /\ \A m \in Names \ {n} : op'[m] = op[m]
  BY DEF Goes, OpOK, OpType
<1>2. \A m \in Names : Stays(m)
  BY <1>1 DEF Stays
<1> QED
  BY <1>2, StillCalm

\* An operation without a stream returns.
LEMMA ReturnsCalm ==
  ASSUME OwnInv, ClientOK, OpOK, UNCHANGED <<sink, session, held>>, NEW n \in Names, Returns(n),
         op[n].pc \notin Speaking
  PROVE  OwnInv'
<1>1. op'[n].pc = "idle" /\ \A m \in Names \ {n} : op'[m] = op[m]
  BY DEF Returns, OpOK, NoOp
<1>2. \A m \in Names : Stays(m)
  BY <1>1 DEF Stays, Opening, Speaking, Placed
<1> QED
  BY <1>2, StillCalm

\* A stream hears something.
LEMMA InboxIs ==
  ASSUME ClientOK, NEW s \in Streams, NEW q, NEW to, to = [session[s] EXCEPT !.inbox = q]
  PROVE  to.name = session[s].name /\ to.reader = session[s].reader /\ to.marks = session[s].marks
<1>1. session[s] \in SessionType
  BY DEF ClientOK
<1> QED
  BY <1>1 DEF SessionType

\* A stream is marked.
LEMMA MarksAre ==
  ASSUME ClientOK, NEW s \in Streams, NEW q, NEW to, to = [session[s] EXCEPT !.marks = q]
  PROVE  to.name = session[s].name /\ to.reader = session[s].reader /\ to.marks = q
<1>1. session[s] \in SessionType
  BY DEF ClientOK
<1> QED
  BY <1>1 DEF SessionType

\* The next stream is one nobody names.
LEMMA NextStreamIs ==
  ASSUME OpenedInOrder, NextStream \in Streams
  PROVE  /\ session[NextStream].name = "none"
         /\ \E k \in 0..MaxOpens : \A s \in Streams : (session[s].name # "none" \/ s = NextStream) <=> s <= k
<1>1. PICK k \in 0..MaxOpens : \A s \in Streams : session[s].name # "none" <=> s <= k
  BY DEF OpenedInOrder
<1>2. {s \in Streams : session[s].name # "none"} = 1..k
  BY <1>1, Bounds DEF Streams
<1>3. Cardinality(1..k) = k
  <2>1. k \in Nat /\ 1 \in Int
    BY Bounds
  <2>2. Cardinality(1..k) = IF 1 > k THEN 0 ELSE k - 1 + 1
    BY <2>1, FS_Interval
  <2> QED
    BY <2>1, <2>2
<1>4. NextStream = k + 1
  <2>1. NextStream = 1 + Cardinality(1..k)
    BY <1>2, Zenon DEF NextStream
  <2> QED
    BY <1>3, <2>1, Bounds
<1>5. k + 1 \in Streams /\ k + 1 \in 0..MaxOpens
  BY <1>4, Bounds
<1>6. \A s \in Streams : (session[s].name # "none" \/ s = k + 1) <=> s <= k + 1
  BY <1>1, Bounds DEF Streams
<1>7. session[k + 1].name = "none"
  BY <1>1, <1>5
<1> QED
  BY <1>4, <1>5, <1>6, <1>7

\* Every step keeps the owners.
LEMMA OwnStep ==
  ASSUME RunnerOK, WireOK, ClientOK, OpOK, OwnInv, Next
  PROVE  OwnInv'
<1>1. ASSUME NEW n \in Names, OpenBegins(n) PROVE OwnInv'
  BY <1>1, GoesCalm DEF OpenBegins, clientVars, At, Opening, Speaking, Placed
<1>2. ASSUME NEW n \in Names, PassesDoor(n) PROVE OwnInv'
  BY <1>2, GoesCalm DEF PassesDoor, clientVars, At, Opening, Speaking, Placed
<1>3. ASSUME NEW n \in Names, WaitsNoLonger(n) PROVE OwnInv'
  BY <1>3, ReturnsCalm DEF WaitsNoLonger, clientVars, At, Opening, Speaking, Placed
<1>4. ASSUME NEW n \in Names, TakesWire(n) PROVE OwnInv'
  <2>1. UNCHANGED <<sink, session, held>>
    BY <1>4 DEF TakesWire, clientVars
  <2>2. /\ op[n].pc \in {"wire", "closing"} /\ op'[n].pc \in {"register", "idle", "killing"}
        /\ op'[n].pc = "register" => op[n].pc = "wire"
        /\ \A m \in Names \ {n} : op'[m] = op[m]
    BY <1>4 DEF TakesWire, At, OpOK, OpType, Returns, NoOp
  <2>3. \A m \in Names : Stays(m)
    BY <2>2 DEF Stays, Opening, Speaking, Placed
  <2> QED
    BY <2>1, <2>3, StillCalm
<1>5. ASSUME NEW n \in Names, FindsNoRunner(n) PROVE OwnInv'
  BY <1>5, ReturnsCalm DEF FindsNoRunner, clientVars, At, Opening, Speaking, Placed
<1>6. ASSUME NEW n \in Names, Registers(n) PROVE OwnInv'
  <2> DEFINE v == op[n].wire
  <2>1. v \in Wires /\ op[n] \in OpType /\ op[n].pc = "register"
    BY <1>6 DEF Registers, OpOK, At, Placed
  <2>2. PICK x \in Streams : x = NextStream
    BY <1>6 DEF Registers
  <2>3. session[x].name = "none" /\ \E k \in 0..MaxOpens : \A s \in Streams : (session[s].name # "none" \/ s = x) <=> s <= k
    BY <2>2, NextStreamIs DEF OwnInv
  <2>4. session' = [session EXCEPT ![x] = [session[x] EXCEPT !.name = n, !.wire = v]]
    BY <1>6, <2>2 DEF Registers, ClientOK
  <2>5. session'[x].name = n /\ \A s \in Streams \ {x} : session'[s] = session[s]
    BY <2>4 DEF ClientOK, SessionType
  <2>6. sink' = [sink EXCEPT ![v] = [sink[v] EXCEPT ![n] = x]]
    BY <1>6, <2>1, <2>2 DEF Registers, ClientOK
  <2>7. op' = [op EXCEPT ![n] = [op[n] EXCEPT !.pc = "write", !.stream = x]]
    BY <1>6, <2>2 DEF Registers, OpOK
  <2>8. op'[n].pc = "write" /\ op'[n].stream = x /\ \A m \in Names \ {n} : op'[m] = op[m]
    BY <2>1, <2>7 DEF OpOK, OpType
  <2>9. OpenedInOrder'
    <3>1. \A s \in Streams : session'[s].name # "none" <=> (session[s].name # "none" \/ s = x)
      BY <2>5, NoName
    <3> QED
      BY <2>3, <3>1 DEF OpenedInOrder
  <2>10. OpenedUnheld'
    BY <1>6, <2>1, <2>8 DEF Registers, OwnInv, OpenedUnheld, Opening, Placed
  <2>11. \A u \in Wires, m \in Names : (sink'[u][m] = x /\ m = n) \/ sink'[u][m] = sink[u][m]
    BY <2>1, <2>6 DEF ClientOK
  <2>12. \A u \in Wires, m \in Names : sink[u][m] # 0 => sink[u][m] \in Streams \ {x} /\ session[sink[u][m]].name = m
    BY <2>3, NoName, StreamIs DEF OwnInv, NamedAlike, ClientOK
  <2>13. \A u \in Wires, m \in Names : sink'[u][m] # 0 => session'[sink'[u][m]].name = m
    BY <2>5, <2>11, <2>12
  <2>14. \A m \in Names : op'[m].pc \in Speaking => session'[op'[m].stream].name = m
    <3> SUFFICES ASSUME NEW m \in Names \ {n}, op[m].pc \in Speaking PROVE session'[op[m].stream].name = m
      BY <2>5, <2>8
    <3>1. op[m].stream \in Streams /\ session[op[m].stream].name = m
      BY DEF OpOK, Speaking, OwnInv, NamedAlike
    <3> QED
      BY <2>3, <2>5, <3>1, NoName
  <2>15. StreamIsOwned'
    <3> SUFFICES ASSUME NEW u \in Wires, NEW m \in Names, sink'[u][m] # 0, session'[sink'[u][m]].reader # "done"
                 PROVE  \/ held'[m] = sink'[u][m] \/ "closed" \in session'[sink'[u][m]].marks
                        \/ op'[m].stream = sink'[u][m] /\ op'[m].pc \in Speaking
      BY DEF StreamIsOwned, Asking, Speaking, Placed
    <3>1. CASE sink'[u][m] = x /\ m = n
      BY <2>8, <3>1 DEF Speaking, Placed
    <3>2. CASE sink'[u][m] = sink[u][m]
      <4>1. sink[u][m] \in Streams \ {x}
        BY <2>12, <3>2
      <4>2. session'[sink[u][m]] = session[sink[u][m]]
        BY <2>5, <4>1
      <4>3. held[m] = sink[u][m] \/ Asking(m, sink[u][m]) \/ "closed" \in session[sink[u][m]].marks
        BY <3>2, <4>2 DEF OwnInv, StreamIsOwned
      <4>4. Asking(m, sink[u][m]) => op'[m].stream = sink[u][m] /\ op'[m].pc \in Speaking
        BY <2>1, <2>8, AskingIs DEF Speaking, Placed
      <4>5. held' = held
        BY <1>6 DEF Registers
      <4> QED
        BY <3>2, <4>2, <4>3, <4>4, <4>5
    <3> QED
      BY <2>11, <3>1, <3>2
  <2> QED
    BY <2>9, <2>10, <2>13, <2>14, <2>15 DEF OwnInv, NamedAlike
<1>7. ASSUME NEW n \in Names, Writes(n) PROVE OwnInv'
  <2>1. op[n].pc = "write" /\ UNCHANGED <<sink, session, held>> /\ (Goes(n, "asked") \/ Goes(n, "failed"))
    BY <1>7 DEF Writes, clientVars, At
  <2>2. \A pc \in {"write", "asked", "failed"} : pc \in Speaking
    BY DEF Speaking, Placed
  <2> QED
    BY <2>1, <2>2, GoesCalm DEF Opening, Speaking, Placed
<1>8. ASSUME NEW n \in Names, GivesUp(n) PROVE OwnInv'
  BY <1>8, GoesCalm DEF GivesUp, clientVars, At, Opening, Speaking, Placed
<1>9. ASSUME NEW n \in Names, OpenFails(n) PROVE OwnInv'
  <2> DEFINE v == op[n].wire
             x == op[n].stream
  <2>1. v \in Wires /\ x \in Streams /\ op[n].pc = "failed"
    BY <1>9 DEF OpenFails, OpOK, At, Placed
  <2>2. sink' = [sink EXCEPT ![v] = [sink[v] EXCEPT ![n] = 0]]
    BY <1>9, <2>1 DEF OpenFails, ClientOK
  <2>3. session'[x].name = session[x].name /\ session'[x].reader = "done" /\ \A s \in Streams \ {x} : session'[s] = session[s]
    BY <1>9, <2>1 DEF OpenFails, ClientOK, Dropped, NoStream
  <2>4. op'[n].pc = "idle" /\ \A m \in Names \ {n} : op'[m] = op[m]
    BY <1>9 DEF OpenFails, Returns, NoOp, OpOK
  <2>5. held' = held /\ \A m \in Names : op[m].pc \in Opening => held[m] = 0
    BY <1>9 DEF OpenFails, OwnInv, OpenedUnheld
  <2>6. \A u \in Wires, m \in Names : sink'[u][m] \in {0, sink[u][m]}
    BY <2>1, <2>2 DEF ClientOK
  <2>7. held[n] = 0
    BY <2>1, <2>5 DEF Opening, Placed
  <2>8. \A s \in Streams : s # 0
    BY Bounds DEF Streams
  <2>9. Calm
    BY <2>1, <2>3, <2>4, <2>5, <2>6, <2>7, <2>8 DEF Calm, Opening, Speaking, Placed
  <2> QED
    BY <2>9, CalmKeeps
<1>10. ASSUME NEW n \in Names, Opened(n) PROVE OwnInv'
  <2> DEFINE x == op[n].stream
  <2>1. x \in Streams /\ op[n].pc = "answered" /\ sink' = sink
    BY <1>10 DEF Opened, OpOK, At, Placed
  <2>2. op'[n].pc = "idle" /\ \A m \in Names \ {n} : op'[m] = op[m]
    BY <1>10 DEF Opened, Returns, NoOp, OpOK
  <2>3. \A m \in Names : op[m].pc \in Opening => held[m] = 0
    BY DEF OwnInv, OpenedUnheld
  <2>4. held[n] = 0
    BY <2>1, <2>3 DEF Opening, Placed
  <2>5. \A s \in Streams : s # 0
    BY Bounds DEF Streams
  <2>6. CASE session' = [session EXCEPT ![x] = Dropped(x)] /\ UNCHANGED held
    <3>1. session'[x].name = session[x].name /\ session'[x].reader = "done" /\ \A s \in Streams \ {x} : session'[s] = session[s]
      BY <2>1, <2>6 DEF ClientOK, Dropped, NoStream
    <3>2. \A u \in Wires, m \in Names : sink'[u][m] \in {0, sink[u][m]}
      BY <2>1
    <3>3. Calm
      BY <2>1, <2>2, <2>3, <2>4, <2>5, <2>6, <3>1, <3>2 DEF Calm, Opening, Speaking, Placed
    <3> QED
      BY <3>3, CalmKeeps
  <2>7. CASE "running" \in op[n].is
    <3>1. PICK marks : session' = [session EXCEPT ![x].reader = "reading", ![x].child = op[n].child, ![x].marks = marks]
      BY <1>10, <2>7 DEF Opened
    <3>2. session' = [session EXCEPT ![x] = [session[x] EXCEPT !.reader = "reading", !.child = op[n].child, !.marks = marks]]
      BY <2>1, <3>1 DEF ClientOK
    <3>3. session'[x].name = session[x].name /\ \A s \in Streams \ {x} : session'[s] = session[s]
      BY <2>1, <3>2 DEF ClientOK, SessionType
    <3>4. held' = [held EXCEPT ![n] = x]
      BY <1>10, <2>7 DEF Opened
    <3>5. held'[n] = x /\ \A m \in Names \ {n} : held'[m] = held[m]
      BY <3>4 DEF ClientOK
    <3>6. OpenedInOrder'
      BY <2>1, <3>3 DEF OwnInv, OpenedInOrder
    <3>7. OpenedUnheld'
      BY <2>2, <2>3, <3>5 DEF OpenedUnheld, Opening, Placed
    <3>8. NamedAlike'
      <4>1. \A u \in Wires, m \in Names : sink[u][m] # 0 => sink[u][m] \in Streams
        BY StreamIs DEF ClientOK
      <4>2. \A m \in Names : op'[m].pc \in Speaking => op'[m] = op[m] /\ op[m].stream \in Streams
        BY <2>2 DEF Speaking, Placed, OpOK
      <4>3. \A s \in Streams : session'[s].name = session[s].name
        BY <3>3
      <4>4. \A u \in Wires, m \in Names : sink'[u][m] # 0 => session'[sink'[u][m]].name = m
        BY <2>1, <4>1, <4>3 DEF OwnInv, NamedAlike
      <4>5. \A m \in Names : op'[m].pc \in Speaking => session'[op'[m].stream].name = m
        BY <4>2, <4>3 DEF OwnInv, NamedAlike
      <4> QED
        BY <4>4, <4>5 DEF NamedAlike
    <3>9. StreamIsOwned'
      <4> SUFFICES ASSUME NEW u \in Wires, NEW m \in Names, sink[u][m] # 0, session'[sink[u][m]].reader # "done"
                   PROVE  \/ held'[m] = sink[u][m] \/ "closed" \in session'[sink[u][m]].marks
                          \/ op'[m].stream = sink[u][m] /\ op'[m].pc \in Speaking
        BY <2>1 DEF StreamIsOwned, Asking, Speaking, Placed
      <4>0. sink[u][m] \in Streams /\ session[sink[u][m]].name = m
        BY StreamIs DEF ClientOK, OwnInv, NamedAlike
      <4>1. CASE sink[u][m] = x
        <5>1. session[x].name = n
          BY <2>1 DEF OwnInv, NamedAlike, Speaking, Placed
        <5> QED
          BY <3>5, <4>0, <4>1, <5>1
      <4>2. CASE sink[u][m] # x
        <5>1. session'[sink[u][m]] = session[sink[u][m]]
          BY <3>3, <4>0, <4>2
        <5>2. held[m] = sink[u][m] \/ Asking(m, sink[u][m]) \/ "closed" \in session[sink[u][m]].marks
          BY <5>1 DEF OwnInv, StreamIsOwned
        <5>3. held[m] = sink[u][m] => held'[m] = sink[u][m]
          BY <2>4, <2>5, <3>5, <4>0
        <5>4. Asking(m, sink[u][m]) => op'[m].stream = sink[u][m] /\ op'[m].pc \in Speaking
          BY <2>2, <4>2, AskingIs
        <5> QED
          BY <5>1, <5>2, <5>3, <5>4
      <4> QED
        BY <4>1, <4>2
    <3> QED
      BY <3>6, <3>7, <3>8, <3>9 DEF OwnInv
  <2> QED
    BY <1>10, <2>6, <2>7 DEF Opened
<1>11. ASSUME NEW n \in Names, CloseBegins(n) PROVE OwnInv'
  <2>1. op'[n].pc = "close" /\ op[n].pc = "idle" /\ (\A m \in Names \ {n} : op'[m] = op[m]) /\ sink' = sink
    BY <1>11 DEF CloseBegins, At, Goes, OpOK, OpType
  <2>2. held' = [held EXCEPT ![n] = 0]
    BY <1>11 DEF CloseBegins
  <2>3. \A s \in Streams : /\ session'[s].name = session[s].name /\ session'[s].reader = session[s].reader
                           /\ session[s].marks \subseteq session'[s].marks
                           /\ s = held[n] => "closed" \in session'[s].marks
    <3>1. CASE held[n] = 0
      BY <1>11, <3>1, Bounds DEF CloseBegins, Streams
    <3>2. CASE held[n] # 0
      <4>1. session' = [session EXCEPT ![held[n]].marks = @ \cup {"closing", "closed"}]
        BY <1>11, <3>2 DEF CloseBegins
      <4> QED
        BY <4>1 DEF ClientOK, SessionType
    <3> QED
      BY <3>1, <3>2
  <2>4. \A m \in Names : op[m].pc \in Opening => held[m] = 0
    BY DEF OwnInv, OpenedUnheld
  <2>5. held'[n] = 0 /\ \A m \in Names \ {n} : held'[m] = held[m]
    BY <2>2 DEF ClientOK
  <2>6. Calm
    BY <2>1, <2>3, <2>4, <2>5 DEF Calm, Opening, Speaking, Placed
  <2> QED
    BY <2>6, CalmKeeps
<1>12. ASSUME NEW n \in Names, CloseConnects(n) PROVE OwnInv'
  BY <1>12, ReturnsCalm, GoesCalm DEF CloseConnects, clientVars, At, Opening, Speaking, Placed
<1>13. ASSUME NEW n \in Names, CloseKills(n) PROVE OwnInv'
  <2>1. UNCHANGED <<sink, session, held>>
    BY <1>13 DEF CloseKills, clientVars
  <2>2. /\ op[n].pc \in {"wire", "closing"} /\ op'[n].pc \in {"register", "idle", "killing"}
        /\ op'[n].pc = "register" => op[n].pc = "wire"
        /\ \A m \in Names \ {n} : op'[m] = op[m]
    BY <1>13 DEF CloseKills, At, OpOK, OpType, Returns, NoOp
  <2>3. \A m \in Names : Stays(m)
    BY <2>2 DEF Stays, Opening, Speaking, Placed
  <2> QED
    BY <2>1, <2>3, StillCalm
<1>14. ASSUME NEW n \in Names, CloseEnds(n) PROVE OwnInv'
  BY <1>14, ReturnsCalm DEF CloseEnds, clientVars, At, Opening, Speaking, Placed
<1>15. ASSUME NEW n \in Names, CloseGivesUp(n) PROVE OwnInv'
  BY <1>15, ReturnsCalm DEF CloseGivesUp, clientVars, At, Opening, Speaking, Placed
<1>16. ASSUME DoorOpens PROVE OwnInv'
  BY <1>16, RestsCalm DEF DoorOpens, clientVars
<1>17. ASSUME NEW w \in Wires, RoutesAnswer(w) PROVE OwnInv'
  <2> DEFINE a == Head(wire[w].answers)
  <2>1. a \in Answer /\ a.name \in Names
    <3>1. a \in Answer
      BY <1>17, HeadIs DEF RoutesAnswer, WireOK, WireType
    <3> QED
      BY <3>1 DEF Answer
  <2>2. UNCHANGED <<sink, session, held>>
    BY <1>17 DEF RoutesAnswer, clientVars
  <2>3. CASE UNCHANGED op
    <3>1. \A m \in Names : Stays(m)
      BY <2>3 DEF Stays
    <3> QED
      BY <2>2, <3>1, StillCalm
  <2>4. ASSUME op[a.name].pc = "asked", op'[a.name].pc \in {"failed", "answered"}, op'[a.name].stream = op[a.name].stream,
               \A m \in Names \ {a.name} : op'[m] = op[m]
        PROVE  OwnInv'
    <3>1. \A m \in Names : Stays(m)
      BY <2>4 DEF Stays, Opening, Speaking, Placed
    <3> QED
      BY <2>2, <3>1, StillCalm
  <2>5. CASE At(a.name, "asked") /\ Goes(a.name, "failed")
    BY <2>1, <2>4, <2>5 DEF At, Goes, OpOK, OpType
  <2>6. CASE At(a.name, "asked") /\ op' = [op EXCEPT ![a.name].pc = "answered", ![a.name].child = a.child, ![a.name].is = a.is]
    <3>1. op' = [op EXCEPT ![a.name] = [op[a.name] EXCEPT !.pc = "answered", !.child = a.child, !.is = a.is]]
      BY <2>1, <2>6 DEF OpOK
    <3> DEFINE to == [op[a.name] EXCEPT !.pc = "answered", !.child = a.child, !.is = a.is]
    <3>2. to.pc = "answered" /\ to.stream = op[a.name].stream
      BY <2>1 DEF OpOK, OpType
    <3>3. op'[a.name] = to /\ \A m \in Names \ {a.name} : op'[m] = op[m]
      BY <2>1, <3>1 DEF OpOK
    <3> QED
      BY <2>4, <2>6, <3>2, <3>3 DEF At
  <2> QED
    BY <1>17, <2>3, <2>5, <2>6 DEF RoutesAnswer
<1>18. ASSUME NEW w \in Wires, RoutesExit(w) PROVE OwnInv'
  <2>1. UNCHANGED <<held, op>> /\ \A u \in Wires, m \in Names : sink'[u][m] \in {0, sink[u][m]}
    BY <1>18 DEF RoutesExit, ClientOK
  <2>2. \A s \in Streams : session'[s] = session[s] \/ \E q : session'[s] = [session[s] EXCEPT !.inbox = q]
    BY <1>18 DEF RoutesExit, ClientOK
  <2>5. \A s \in Streams : session'[s].name = session[s].name /\ session'[s].reader = session[s].reader
                           /\ session'[s].marks = session[s].marks
    <3>1. ASSUME NEW s \in Streams, NEW q, session'[s] = [session[s] EXCEPT !.inbox = q]
          PROVE  session'[s].name = session[s].name /\ session'[s].reader = session[s].reader /\ session'[s].marks = session[s].marks
      BY <3>1, InboxIs
    <3> QED
      BY <2>2, <3>1
  <2>3. \A m \in Names : op[m].pc \in Opening => held[m] = 0
    BY DEF OwnInv, OpenedUnheld
  <2>4. Calm
    BY <2>1, <2>5, <2>3 DEF Calm
  <2> QED
    BY <2>4, CalmKeeps
<1>19. ASSUME NEW w \in Wires, WireEnds(w) PROVE OwnInv'
  <2>1. op' = [n \in Names |-> IF At(n, "asked") /\ op[n].wire = w THEN [op[n] EXCEPT !.pc = "failed"] ELSE op[n]]
        /\ sink' = [sink EXCEPT ![w] = [n \in Names |-> 0]] /\ UNCHANGED <<session, held>>
    BY <1>19 DEF WireEnds
  <2>2. \A n \in Names : op'[n] = op[n] \/ (op[n].pc = "asked" /\ op'[n].pc = "failed" /\ op'[n].stream = op[n].stream)
    BY <2>1 DEF At, OpOK, OpType
  <2>3. \A v \in Wires, n \in Names : sink'[v][n] \in {0, sink[v][n]}
    BY <2>1 DEF ClientOK
  <2>4. \A n \in Names : op[n].pc \in Opening => held[n] = 0
    BY DEF OwnInv, OpenedUnheld
  <2>5. Calm
    BY <2>1, <2>2, <2>3, <2>4 DEF Calm, Opening, Speaking, Placed
  <2> QED
    BY <2>5, CalmKeeps
<1>20. ASSUME NEW s \in Streams, Reads(s) PROVE OwnInv'
  <2>1. UNCHANGED <<held, op, sink>> /\ session[s].reader = "reading"
    BY <1>20 DEF Reads
  <2>2. \E end : session' = [session EXCEPT ![s] = [session[s] EXCEPT !.inbox = <<>>, !.reader = "exited", !.end = end]]
    BY <1>20 DEF Reads, ClientOK
  <2>3. \A r \in Streams : /\ session'[r].name = session[r].name /\ session'[r].marks = session[r].marks
                           /\ session'[r].reader # "done" => session[r].reader # "done"
    BY <2>1, <2>2 DEF ClientOK, SessionType
  <2>4. \A m \in Names : op[m].pc \in Opening => held[m] = 0
    BY DEF OwnInv, OpenedUnheld
  <2>5. Calm
    BY <2>1, <2>3, <2>4 DEF Calm
  <2> QED
    BY <2>5, CalmKeeps
<1>21. ASSUME NEW s \in Streams, FindsEnd(s) PROVE OwnInv'
  <2>1. UNCHANGED <<held, op, sink>> /\ session[s].reader = "reading"
    BY <1>21 DEF FindsEnd
  <2>2. \E end : session' = [session EXCEPT ![s] = [session[s] EXCEPT !.reader = "cut", !.end = end]]
    BY <1>21 DEF FindsEnd, ClientOK
  <2>3. \A r \in Streams : /\ session'[r].name = session[r].name /\ session'[r].marks = session[r].marks
                           /\ session'[r].reader # "done" => session[r].reader # "done"
    BY <2>1, <2>2 DEF ClientOK, SessionType
  <2>4. \A m \in Names : op[m].pc \in Opening => held[m] = 0
    BY DEF OwnInv, OpenedUnheld
  <2>5. Calm
    BY <2>1, <2>3, <2>4 DEF Calm
  <2> QED
    BY <2>5, CalmKeeps
<1>22. ASSUME NEW s \in Streams, LetsGo(s) PROVE OwnInv'
  <2>1. UNCHANGED <<op, sink>>
    BY <1>22 DEF LetsGo
  <2>2. session'[s].name = session[s].name /\ session'[s].reader = "done" /\ \A r \in Streams \ {s} : session'[r] = session[r]
    BY <1>22 DEF LetsGo, ClientOK, Dropped, NoStream
  <2>3. \A m \in Names : held'[m] = held[m] \/ (held[m] = s /\ held'[m] = 0)
    BY <1>22 DEF LetsGo, LetGo, ClientOK
  <2>4. \A m \in Names : op[m].pc \in Opening => held[m] = 0
    BY DEF OwnInv, OpenedUnheld
  <2>5. Calm
    BY <2>1, <2>2, <2>3, <2>4 DEF Calm
  <2> QED
    BY <2>5, CalmKeeps
<1>23. ASSUME NEW w \in Wires, Refuses(w) PROVE OwnInv'
  BY <1>23, RestsCalm DEF Refuses, clientVars
<1>24. ASSUME NEW w \in Wires, Attaches(w) PROVE OwnInv'
  BY <1>24, RestsCalm DEF Attaches, clientVars
<1>25. ASSUME NEW w \in Wires, Spawns(w) PROVE OwnInv'
  BY <1>25, RestsCalm DEF Spawns, clientVars
<1>26. ASSUME NEW c \in Children, Exits(c) PROVE OwnInv'
  BY <1>26, RestsCalm DEF Exits, clientVars
<1>27. ASSUME NEW c \in Children, SaysExit(c) PROVE OwnInv'
  BY <1>27, RestsCalm DEF SaysExit, clientVars
<1>28. ASSUME NEW c \in Children, OrphanEnds(c) PROVE OwnInv'
  BY <1>28, RestsCalm DEF OrphanEnds, clientVars
<1>29. ASSUME ConnectionDrops PROVE OwnInv'
  BY <1>29, RestsCalm DEF ConnectionDrops, clientVars
<1>30. ASSUME RunnerExits PROVE OwnInv'
  <2>1. UNCHANGED <<sink, session, held>>
    BY <1>30 DEF RunnerExits, RunnerGone, clientVars
  <2>2. \A m \in Names : op'[m] = op[m] \/ (op[m].pc \in {"closing", "killing"} /\ op'[m].pc = "idle")
    BY <1>30 DEF RunnerExits, RunnerGone, NoOp
  <2>3. \A m \in Names : Stays(m)
    BY <2>2 DEF Stays, Opening, Speaking, Placed
  <2> QED
    BY <2>1, <2>3, StillCalm
<1>31. ASSUME RunnerCrashes PROVE OwnInv'
  <2>1. UNCHANGED <<sink, session, held>>
    BY <1>31 DEF RunnerCrashes, RunnerGone, clientVars
  <2>2. \A m \in Names : op'[m] = op[m] \/ (op[m].pc \in {"closing", "killing"} /\ op'[m].pc = "idle")
    BY <1>31 DEF RunnerCrashes, RunnerGone, NoOp
  <2>3. \A m \in Names : Stays(m)
    BY <2>2 DEF Stays, Opening, Speaking, Placed
  <2> QED
    BY <2>1, <2>3, StillCalm
<1>32. ASSUME RestartBegins PROVE OwnInv'
  <2>1. UNCHANGED <<op, sink, held>>
    BY <1>32 DEF RestartBegins
  <2>2. ASSUME NEW s \in Streams
        PROVE  /\ session'[s].name = session[s].name /\ session'[s].reader = session[s].reader
               /\ "closed" \in session[s].marks => "closed" \in session'[s].marks
    <3>1. session'[s] = session[s] \/ session'[s] = [session[s] EXCEPT !.marks = (session[s].marks \cup {"closing"})]
      BY <1>32 DEF RestartBegins
    <3>2. CASE session'[s] = session[s]
      BY <3>2
    <3>3. CASE session'[s] = [session[s] EXCEPT !.marks = (session[s].marks \cup {"closing"})]
      <4>1. session'[s].name = session[s].name /\ session'[s].reader = session[s].reader /\ session'[s].marks = (session[s].marks \cup {"closing"})
        BY <3>3, MarksAre
      <4> QED
        BY <4>1
    <3> QED
      BY <3>1, <3>2, <3>3
  <2>3. \A m \in Names : op[m].pc \in Opening => held[m] = 0
    BY DEF OwnInv, OpenedUnheld
  <2>4. Calm
    BY <2>1, <2>2, <2>3 DEF Calm
  <2> QED
    BY <2>4, CalmKeeps
<1>33. ASSUME RestartStops PROVE OwnInv'
  BY <1>33, RestsCalm DEF RestartStops, clientVars
<1>34. ASSUME RestartServes PROVE OwnInv'
  BY <1>34, RestsCalm DEF RestartServes, clientVars
<1>35. ASSUME RestartGivesUp PROVE OwnInv'
  <2>1. UNCHANGED <<op, sink, held>>
    BY <1>35 DEF RestartGivesUp
  <2>2. ASSUME NEW s \in Streams
        PROVE  /\ session'[s].name = session[s].name /\ session'[s].reader = session[s].reader
               /\ "closed" \in session[s].marks => "closed" \in session'[s].marks
    <3>1. session'[s] = session[s] \/ session'[s] = [session[s] EXCEPT !.marks = ((session[s].marks \ {"closing"}) \cup {"unmarked"})]
      BY <1>35 DEF RestartGivesUp
    <3>2. CASE session'[s] = session[s]
      BY <3>2
    <3>3. CASE session'[s] = [session[s] EXCEPT !.marks = ((session[s].marks \ {"closing"}) \cup {"unmarked"})]
      <4>1. session'[s].name = session[s].name /\ session'[s].reader = session[s].reader /\ session'[s].marks = ((session[s].marks \ {"closing"}) \cup {"unmarked"})
        BY <3>3, MarksAre
      <4> QED
        BY <4>1
    <3> QED
      BY <3>1, <3>2, <3>3
  <2>3. \A m \in Names : op[m].pc \in Opening => held[m] = 0
    BY DEF OwnInv, OpenedUnheld
  <2>4. Calm
    BY <2>1, <2>2, <2>3 DEF Calm
  <2> QED
    BY <2>4, CalmKeeps
<1> QED
  BY <1>1, <1>2, <1>3, <1>4, <1>5, <1>6, <1>7, <1>8, <1>9, <1>10, <1>11, <1>12, <1>13, <1>14,
     <1>15, <1>16, <1>17, <1>18, <1>19, <1>20, <1>21, <1>22, <1>23, <1>24, <1>25, <1>26, <1>27, <1>28,
     <1>29, <1>30, <1>31, <1>32, <1>33, <1>34, <1>35
  DEF Next, Open, Close, Route, Reader, Run, Restart

\* At first there are no streams.
LEMMA InitOwns == Init => OwnInv
<1> SUFFICES ASSUME Init PROVE OwnInv
  OBVIOUS
<1>1. \A s \in Streams : session[s].name = "none" /\ ~(s <= 0)
  BY Bounds DEF Init, Streams, NoStream
<1>2. OpenedInOrder
  BY <1>1, Bounds DEF OpenedInOrder
<1>3. \A n \in Names : op[n].pc \notin Opening /\ op[n].pc \notin Speaking
  BY DEF Init, NoOp, Opening, Speaking, Placed
<1>4. \A w \in Wires, n \in Names : sink[w][n] = 0
  BY DEF Init
<1> QED
  BY <1>2, <1>3, <1>4 DEF OwnInv, NamedAlike, OpenedUnheld, StreamIsOwned

\* A stuttering step changes no owner.
LEMMA OwnStutters == ASSUME OwnInv, UNCHANGED vars PROVE OwnInv'
BY DEF OwnInv, OpenedInOrder, NamedAlike, OpenedUnheld, StreamIsOwned, Asking, vars, runnerVars, clientVars

(* A stream something is routed to and read from is the session its        *)
(* conversation holds, one being opened, or one closed and speaking its    *)
(* last: opening over an old registration, closing, letting go by identity *)
(* and a restart never leave a reader on a session the backend has lost    *)
(* (claude.rs, session.rs, reading.rs).                                    *)
THEOREM StreamsAreOwned == Spec => []StreamIsOwned
<1>1. ASSUME TypeInv, OwnInv, [Next]_vars
      PROVE  OwnInv'
  <2>1. CASE Next
    BY <1>1, <2>1, OwnStep DEF TypeInv
  <2>2. CASE UNCHANGED vars
    BY <1>1, <2>2, OwnStutters
  <2> QED
    BY <1>1, <2>1, <2>2
<1>2. OwnInv => StreamIsOwned
  BY DEF OwnInv
<1> QED
  BY <1>1, <1>2, InitOwns, TypesHold, PTL DEF Spec
-----------------------------------------------------------------------------
(* Closes.  What is under way for a conversation is followed through the   *)
(* connections, so that no start it has forgotten can come after a close.  *)

Mentions(q, n) == \E i \in 1..Len(q) : q[i].name = n
Single(q, n) == \A i \in 1..Len(q), j \in 1..Len(q) : q[i].name = n /\ q[j].name = n => i = j

\* One request or answer of a conversation is under way on a connection, at most, and
\* only while its open waits there.
OneAt(w, n) ==
  /\ Single(wire[w].asked, n) /\ Single(wire[w].answers, n)
  /\ ~(Mentions(wire[w].asked, n) /\ Mentions(wire[w].answers, n))
  /\ Mentions(wire[w].asked, n) \/ Mentions(wire[w].answers, n) => op[n].pc = "asked" /\ op[n].wire = w

\* Unless one was given up on, whose answer may still come.
Lone(n) == n \notin history.overdue => \A w \in Wires : OneAt(w, n)

\* A running child is the one its runner knows, and an orphan has none.
Known(c) == /\ child[c].st = "running" => /\ runner # "none" /\ child[c].name \in Names
                                          /\ registry[child[c].name] = c
            /\ child[c].st = "orphan" => runner = "none"

\* A close waits for the only child of its conversation that runs.
Kills(n) == At(n, "killing") =>
  /\ runner # "none"
  /\ n \in history.overdue \/ \A c \in Of(n) : child[c].st = "running" => c = op[n].child

CloseInv == /\ \A c \in Children : Known(c)
            /\ \A n \in Names : Lone(n) /\ Kills(n)

\* A queue without its head.
LEMMA MentionsLess ==
  ASSUME NEW S, NEW q \in Seq(S), q # <<>>, NEW n
  PROVE  /\ Mentions(Tail(q), n) => Mentions(q, n)
         /\ Single(q, n) => Single(Tail(q), n) /\ (Head(q).name = n => ~Mentions(Tail(q), n))
<1>1. Len(q) \in Nat /\ Len(Tail(q)) = Len(q) - 1 /\ Head(q) = q[1]
      /\ \A i \in 1..Len(Tail(q)) : Tail(q)[i] = q[i + 1] /\ i + 1 \in 1..Len(q)
  BY HeadTailProperties, LenProperties
<1>2. 1 \in 1..Len(q)
  BY <1>1, EmptySeq
<1>3. Mentions(Tail(q), n) => Mentions(q, n)
  BY <1>1 DEF Mentions
<1>4. Single(q, n) => Single(Tail(q), n)
  <2> SUFFICES ASSUME Single(q, n), NEW i \in 1..Len(Tail(q)), NEW j \in 1..Len(Tail(q)),
                      Tail(q)[i].name = n, Tail(q)[j].name = n
               PROVE  i = j
    BY DEF Single
  <2>1. i + 1 = j + 1
    BY <1>1 DEF Single
  <2> QED
    BY <1>1, <2>1
<1>5. Single(q, n) /\ Head(q).name = n => ~Mentions(Tail(q), n)
  <2> SUFFICES ASSUME Single(q, n), q[1].name = n, NEW i \in 1..Len(Tail(q)), Tail(q)[i].name = n
               PROVE  FALSE
    BY <1>1 DEF Mentions
  <2>1. i + 1 = 1
    BY <1>1, <1>2 DEF Single
  <2> QED
    BY <1>1, <2>1
<1> QED
  BY <1>3, <1>4, <1>5

\* A queue with one more.
LEMMA MentionsMore ==
  ASSUME NEW S, NEW q \in Seq(S), NEW x \in S, NEW n
  PROVE  /\ Mentions(Append(q, x), n) <=> Mentions(q, n) \/ x.name = n
         /\ Single(q, n) /\ ~(Mentions(q, n) /\ x.name = n) => Single(Append(q, x), n)
<1>1. Len(q) \in Nat /\ Len(Append(q, x)) = Len(q) + 1 /\ Append(q, x)[Len(q) + 1] = x
      /\ \A i \in 1..Len(q) : Append(q, x)[i] = q[i]
  BY AppendProperties, LenProperties
<1>2. \A i \in 1..(Len(q) + 1) : i \in 1..Len(q) \/ i = Len(q) + 1
  BY <1>1
<1>3. 1..Len(q) \subseteq 1..(Len(q) + 1) /\ Len(q) + 1 \in 1..(Len(q) + 1)
  BY <1>1
<1>4. Mentions(Append(q, x), n) <=> Mentions(q, n) \/ x.name = n
  BY <1>1, <1>2, <1>3 DEF Mentions
<1>5. ASSUME Single(q, n), ~(Mentions(q, n) /\ x.name = n)
      PROVE  Single(Append(q, x), n)
  <2> SUFFICES ASSUME NEW i \in 1..(Len(q) + 1), NEW j \in 1..(Len(q) + 1),
                      Append(q, x)[i].name = n, Append(q, x)[j].name = n
               PROVE  i = j
    BY <1>1 DEF Single
  <2>1. CASE i \in 1..Len(q) /\ j \in 1..Len(q)
    BY <1>1, <1>5, <2>1 DEF Single
  <2>2. CASE i \in 1..Len(q) /\ j = Len(q) + 1
    BY <1>1, <1>5, <2>2 DEF Mentions
  <2>3. CASE i = Len(q) + 1 /\ j \in 1..Len(q)
    BY <1>1, <1>5, <2>3 DEF Mentions
  <2> QED
    BY <1>2, <2>1, <2>2, <2>3
<1> QED
  BY <1>4, <1>5

\* An empty queue mentions nobody.
LEMMA NoMention == \A n : ~Mentions(<<>>, n) /\ Single(<<>>, n)
<1>1. Len(<<>>) = 0
  BY EmptySeq
<1> QED
  BY <1>1 DEF Mentions, Single

\* A step that adds nothing to what the connections carry, and ends a wait only with
\* its connection or by giving up on it.
Thins ==
  /\ history.overdue \subseteq history'.overdue
  /\ \A w \in Wires : /\ wire'[w].asked \in {wire[w].asked, <<>>}
                      /\ wire'[w].answers \in {wire[w].answers, <<>>}
  /\ \A n \in Names : op[n].pc = "asked" =>
       \/ op'[n] = op[n] \/ n \in history'.overdue
       \/ (wire'[op[n].wire].asked = <<>> /\ wire'[op[n].wire].answers = <<>>)

\* A step that thins out what is under way.
LEMMA ThinsKeeps ==
  ASSUME \A n \in Names : Lone(n), Thins
  PROVE  \A n \in Names : Lone(n)'
<1> SUFFICES ASSUME NEW n \in Names, n \notin history'.overdue, NEW w \in Wires
             PROVE  OneAt(w, n)'
  BY DEF Lone
<1>1. OneAt(w, n)
  BY DEF Lone, Thins
<1>2. wire'[w].asked \in {wire[w].asked, <<>>} /\ wire'[w].answers \in {wire[w].answers, <<>>}
  BY DEF Thins
<1>3. ASSUME Mentions(wire'[w].asked, n) \/ Mentions(wire'[w].answers, n)
      PROVE  op'[n].pc = "asked" /\ op'[n].wire = w
  <2>1. op[n].pc = "asked" /\ op[n].wire = w
    BY <1>1, <1>2, <1>3, NoMention DEF OneAt
  <2>2. op'[n] = op[n]
    BY <1>3, <2>1, NoMention DEF Thins
  <2> QED
    BY <2>1, <2>2
<1>4. /\ Single(wire'[w].asked, n) /\ Single(wire'[w].answers, n)
      /\ ~(Mentions(wire'[w].asked, n) /\ Mentions(wire'[w].answers, n))
  BY <1>1, <1>2, NoMention DEF OneAt
<1> QED
  BY <1>3, <1>4 DEF OneAt, Single, Mentions

\* A step that makes nothing run, lets the runner forget nothing that runs, and leaves
\* the closes their children.
Tame ==
  /\ history.overdue \subseteq history'.overdue
  /\ runner' = "none" <=> runner = "none"
  /\ \A c \in Children :
       /\ child'[c].name = child[c].name
       /\ child'[c].st = "running" =>
            child[c].st = "running" /\ (child[c].name \in Names =>
                                          registry'[child[c].name] = registry[child[c].name])
       /\ child'[c].st = "orphan" => child[c].st = "orphan"
  /\ \A n \in Names : op'[n].pc = "killing" => op[n].pc = "killing" /\ op'[n].child = op[n].child

\* A tame step.
LEMMA TameKeeps ==
  ASSUME CloseInv, Tame
  PROVE  (\A c \in Children : Known(c)') /\ (\A n \in Names : Kills(n)')
<1>1. ASSUME NEW c \in Children
      PROVE  Known(c)'
  <2>1. Known(c)
    BY DEF CloseInv
  <2> QED
    BY <2>1 DEF Known, Tame
<1>2. ASSUME NEW n \in Names, op'[n].pc = "killing"
      PROVE  runner' # "none" /\ (n \in history'.overdue \/
               \A c \in Children : child'[c].name = n /\ child'[c].st = "running" => c = op'[n].child)
  <2>1. Kills(n) /\ op[n].pc = "killing" /\ op'[n].child = op[n].child
    BY <1>2 DEF CloseInv, Tame
  <2> QED
    BY <2>1 DEF Kills, At, Of, Tame
<1> QED
  BY <1>1, <1>2 DEF Kills, At, Of

\* A step that is both.
LEMMA BothKeep == ASSUME CloseInv, Thins, Tame PROVE CloseInv'
BY TameKeeps, ThinsKeeps DEF CloseInv

\* One connection and the operation of one conversation change.
LEMMA LoneStep ==
  ASSUME \A n \in Names : Lone(n), history'.overdue = history.overdue, NEW w \in Wires, NEW m \in Names,
         \A v \in Wires \ {w} : wire'[v] = wire[v], \A n \in Names \ {m} : op'[n] = op[n],
         \A n \in Names : n \notin history.overdue => OneAt(w, n)',
         m \notin history.overdue => op'[m] = op[m] \/ \A v \in Wires \ {w} :
           ~Mentions(wire[v].asked, m) /\ ~Mentions(wire[v].answers, m)
  PROVE  \A n \in Names : Lone(n)'
<1> SUFFICES ASSUME NEW n \in Names, n \notin history.overdue, NEW v \in Wires \ {w} PROVE OneAt(v, n)'
  BY DEF Lone
<1>1. OneAt(v, n) /\ wire'[v] = wire[v]
  BY DEF Lone
<1>2. op'[n] = op[n] \/ (~Mentions(wire[v].asked, n) /\ ~Mentions(wire[v].answers, n))
  OBVIOUS
<1> QED
  BY <1>1, <1>2 DEF OneAt, Single, Mentions

\* The oldest answer reaches its open, or nobody.
LEMMA AnswerGoes ==
  ASSUME WireOK, \A n \in Names : Lone(n), history'.overdue = history.overdue, NEW w \in Wires,
         wire[w].answers # <<>>, wire' = [wire EXCEPT ![w].answers = Tail(@)],
         \A n \in Names \ {Head(wire[w].answers).name} : op'[n] = op[n]
  PROVE  \A n \in Names : Lone(n)'
<1> DEFINE q == wire[w].answers
           m == Head(q).name
<1>1. wire[w] \in WireType /\ q \in Seq(Answer) /\ m \in Names
  <2>1. wire[w] \in WireType /\ q \in Seq(Answer)
    BY DEF WireOK, WireType
  <2>2. Head(q) \in Answer
    BY <2>1, HeadIs
  <2> QED
    BY <2>1, <2>2 DEF Answer
<1>2. wire'[w].asked = wire[w].asked /\ wire'[w].answers = Tail(q) /\ \A v \in Wires \ {w} : wire'[v] = wire[v]
  BY <1>1 DEF WireOK, WireType
<1>3. \A n : /\ Mentions(Tail(q), n) => Mentions(q, n)
             /\ Single(q, n) => Single(Tail(q), n) /\ (m = n => ~Mentions(Tail(q), n))
  BY <1>1, MentionsLess
<1>4. Mentions(q, m)
  BY <1>1, HeadTailProperties, EmptySeq, LenProperties DEF Mentions
<1>5. ASSUME NEW n \in Names, n \notin history.overdue
      PROVE  OneAt(w, n)'
  <2>1. OneAt(w, n)
    BY <1>5 DEF Lone
  <2>2. /\ Single(wire'[w].asked, n) /\ Single(wire'[w].answers, n)
        /\ ~(Mentions(wire'[w].asked, n) /\ Mentions(wire'[w].answers, n))
    BY <1>2, <1>3, <2>1 DEF OneAt
  <2>3. Mentions(wire'[w].asked, n) \/ Mentions(wire'[w].answers, n) => op'[n].pc = "asked" /\ op'[n].wire = w
    <3>1. CASE n = m
      BY <1>2, <1>3, <1>4, <2>1, <3>1 DEF OneAt
    <3>2. CASE n # m
      BY <1>2, <1>3, <2>1, <3>2 DEF OneAt
    <3> QED
      BY <3>1, <3>2
  <2> QED
    BY <2>2, <2>3 DEF OneAt, Single, Mentions
<1>6. m \notin history.overdue => \A v \in Wires \ {w} : ~Mentions(wire[v].asked, m) /\ ~Mentions(wire[v].answers, m)
  BY <1>1, <1>4 DEF Lone, OneAt
<1> QED
  BY <1>1, <1>2, <1>5, <1>6, LoneStep

\* A request becomes an answer.
LEMMA RequestGoes ==
  ASSUME WireOK, \A n \in Names : Lone(n), history'.overdue = history.overdue, UNCHANGED op, NEW w \in Wires,
         wire[w].asked # <<>>, NEW c \in 0..MaxChildren, NEW is \in SUBSET {"begun", "running"},
         Answers(w, Head(wire[w].asked), c, is)
  PROVE  \A n \in Names : Lone(n)'
<1> DEFINE q == wire[w].asked
           h == Head(q)
           a == [name |-> h.name, stream |-> h.stream, child |-> c, is |-> is]
<1>1. wire[w] \in WireType /\ q \in Seq(Create) /\ wire[w].answers \in Seq(Answer) /\ h \in Create
  <2>1. wire[w] \in WireType /\ q \in Seq(Create) /\ wire[w].answers \in Seq(Answer)
    BY DEF WireOK, WireType
  <2> QED
    BY <2>1, HeadIs
<1>2. a \in Answer /\ a.name = h.name /\ h.name \in Names
  BY <1>1 DEF Create, Answer
<1>3. wire' = [wire EXCEPT ![w] = [wire[w] EXCEPT !.asked = Tail(@), !.answers = Append(@, a)]]
  BY DEF Answers, WireOK
<1>4. /\ wire'[w].asked = Tail(q) /\ wire'[w].answers = Append(wire[w].answers, a)
      /\ \A v \in Wires \ {w} : wire'[v] = wire[v]
  BY <1>1, <1>3 DEF WireOK, WireType
<1> HIDE DEF a
<1>5. \A n : /\ Mentions(Tail(q), n) => Mentions(q, n)
             /\ Single(q, n) => Single(Tail(q), n) /\ (h.name = n => ~Mentions(Tail(q), n))
  BY <1>1, MentionsLess
<1>6. \A n : /\ Mentions(wire'[w].answers, n) <=> Mentions(wire[w].answers, n) \/ a.name = n
             /\ Single(wire[w].answers, n) /\ ~(Mentions(wire[w].answers, n) /\ a.name = n) =>
                  Single(wire'[w].answers, n)
  BY <1>1, <1>2, <1>4, MentionsMore
<1>7. Mentions(q, h.name)
  BY <1>1, HeadTailProperties, EmptySeq, LenProperties DEF Mentions
<1>8. ASSUME NEW n \in Names, n \notin history.overdue
      PROVE  OneAt(w, n)'
  <2>1. OneAt(w, n)
    BY <1>8 DEF Lone
  <2>2. /\ Single(wire'[w].asked, n) /\ Single(wire'[w].answers, n)
        /\ ~(Mentions(wire'[w].asked, n) /\ Mentions(wire'[w].answers, n))
        /\ Mentions(wire'[w].asked, n) \/ Mentions(wire'[w].answers, n) => op[n].pc = "asked" /\ op[n].wire = w
    <3>1. CASE n = h.name
      BY <1>2, <1>4, <1>5, <1>6, <1>7, <2>1, <3>1 DEF OneAt
    <3>2. CASE n # h.name
      BY <1>2, <1>4, <1>5, <1>6, <2>1, <3>2 DEF OneAt
    <3> QED
      BY <3>1, <3>2
  <2> QED
    BY <2>2 DEF OneAt, Single, Mentions
<1> QED
  BY <1>2, <1>4, <1>8, LoneStep

\* A request is written by an open that had none under way.
LEMMA RequestComes ==
  ASSUME WireOK, \A n \in Names : Lone(n), UNCHANGED history, NEW n \in Names, NEW w \in Wires,
         op[n].pc = "write", op'[n].pc = "asked", op'[n].wire = w, \A m \in Names \ {n} : op'[m] = op[m],
         NEW q \in Create, q.name = n, wire' = [wire EXCEPT ![w].asked = Append(@, q)]
  PROVE  \A m \in Names : Lone(m)'
<1>1. wire[w] \in WireType /\ wire[w].asked \in Seq(Create)
  BY DEF WireOK, WireType
<1>2. /\ wire'[w].asked = Append(wire[w].asked, q) /\ wire'[w].answers = wire[w].answers
      /\ \A v \in Wires \ {w} : wire'[v] = wire[v]
  BY <1>1 DEF WireOK, WireType
<1>3. \A m : /\ Mentions(wire'[w].asked, m) <=> Mentions(wire[w].asked, m) \/ m = n
             /\ Single(wire[w].asked, m) /\ ~(Mentions(wire[w].asked, m) /\ m = n) => Single(wire'[w].asked, m)
  BY <1>1, <1>2, MentionsMore
<1>4. n \notin history.overdue => \A v \in Wires : ~Mentions(wire[v].asked, n) /\ ~Mentions(wire[v].answers, n)
  BY DEF Lone, OneAt
<1>5. ASSUME NEW m \in Names, m \notin history.overdue
      PROVE  OneAt(w, m)'
  <2>1. OneAt(w, m)
    BY <1>5 DEF Lone
  <2>2. /\ Single(wire'[w].asked, m) /\ Single(wire'[w].answers, m)
        /\ ~(Mentions(wire'[w].asked, m) /\ Mentions(wire'[w].answers, m))
        /\ Mentions(wire'[w].asked, m) \/ Mentions(wire'[w].answers, m) => op'[m].pc = "asked" /\ op'[m].wire = w
    <3>1. CASE m = n
      BY <1>2, <1>3, <1>4, <1>5, <2>1, <3>1 DEF OneAt
    <3>2. CASE m # n
      BY <1>2, <1>3, <2>1, <3>2 DEF OneAt
    <3> QED
      BY <3>1, <3>2
  <2> QED
    BY <2>2 DEF OneAt, Single, Mentions
<1> QED
  BY <1>2, <1>4, <1>5, LoneStep

\* Whatever else the ghosts record, a name once given up on stays so.
LEMMA OverdueStays ==
  ASSUME RestOK
  PROVE  /\ Faulted(history).overdue = history.overdue
         /\ \A x : [Faulted(history) EXCEPT !.overdue = x].overdue = x
         /\ \A x : [history EXCEPT !.young = x].overdue = history.overdue
         /\ \A x : [history EXCEPT !.crossed = x].overdue = history.overdue
BY DEF RestOK, Faulted

\* An operation moves on that neither waits nor starts to kill.
LEMMA OpMoves ==
  ASSUME CloseInv, UNCHANGED <<runner, registry, child, wire>>, history.overdue \subseteq history'.overdue,
         NEW n \in Names, \A m \in Names \ {n} : op'[m] = op[m],
         op[n].pc # "asked" \/ n \in history'.overdue, op'[n].pc # "killing"
  PROVE  CloseInv'
<1>1. Thins
  BY DEF Thins
<1>2. Tame
  BY DEF Tame
<1> QED
  BY <1>1, <1>2, BothKeep

\* An operation that does not wait goes on or returns.
LEMMA OpGoes ==
  ASSUME CloseInv, OpOK, UNCHANGED <<runner, registry, child, wire, history>>, NEW n \in Names,
         op[n].pc # "asked", Returns(n) \/ \E pc : pc # "killing" /\ Goes(n, pc)
  PROVE  CloseInv'
<1>1. op'[n].pc # "killing" /\ \A m \in Names \ {n} : op'[m] = op[m]
  BY DEF Returns, Goes, NoOp, OpOK, OpType
<1> QED
  BY <1>1, OpMoves

\* Nobody's operation moves, and the connections carry the same requests and answers.
LEMMA RunnerMoves ==
  ASSUME CloseInv, UNCHANGED op, history.overdue \subseteq history'.overdue, Tame,
         \A w \in Wires : wire'[w].asked \in {wire[w].asked, <<>>} /\ wire'[w].answers = wire[w].answers
  PROVE  CloseInv'
<1>1. Thins
  BY DEF Thins
<1> QED
  BY <1>1, BothKeep

\* Nothing of the runner or the operations changes.
LEMMA ClientMoves ==
  ASSUME CloseInv, UNCHANGED <<runner, registry, child, op, history>>,
         \A w \in Wires : wire'[w].asked \in {wire[w].asked, <<>>} /\ wire'[w].answers = wire[w].answers
  PROVE  CloseInv'
<1>1. Tame
  BY DEF Tame
<1> QED
  BY <1>1, RunnerMoves

\* A connection that closes has its requests taken from it.
LEMMA ClosesThins ==
  ASSUME WireOK, NEW w \in Wires, Closes(w)
  PROVE  \A v \in Wires : wire'[v].asked \in {wire[v].asked, <<>>} /\ wire'[v].answers = wire[v].answers
<1>1. wire' = [wire EXCEPT ![w] = [wire[w] EXCEPT !.st = "closed", !.asked = <<>>]]
  BY DEF Closes, WireOK
<1>2. wire[w] \in WireType
  BY DEF WireOK
<1> QED
  BY <1>1, <1>2 DEF WireOK, WireType

\* A runner that starts finds nothing running, and ends the orphans.
LEMMA FreshTypes ==
  ASSUME CloseInv, RunnerOK, runner = "none", ServesFresh,
         \A n \in Names : op'[n].pc = "killing" => op[n].pc = "killing"
  PROVE  (\A c \in Children : Known(c)') /\ (\A n \in Names : Kills(n)')
<1>1. ASSUME NEW c \in Children
      PROVE  child'[c].st \notin {"running", "orphan"}
  <2>1. child[c].st # "running" /\ child[c] \in ChildType
    BY DEF CloseInv, Known, RunnerOK
  <2>2. CASE child[c].st = "orphan"
    BY <2>1, <2>2 DEF ServesFresh, Gone, ChildType
  <2>3. CASE child[c].st # "orphan"
    BY <2>1, <2>3 DEF ServesFresh
  <2> QED
    BY <2>2, <2>3
<1>2. \A n \in Names : op'[n].pc # "killing"
  BY DEF CloseInv, Kills, At
<1> QED
  BY <1>1, <1>2 DEF Known, Kills, At

\* What a runner orders to end goes on running under its name.
LEMMA OrderedStays ==
  ASSUME RunnerOK, NEW c \in Children
  PROVE  Ordered(c).name = child[c].name /\ Ordered(c).st = child[c].st
<1>1. child[c] \in ChildType
  BY DEF RunnerOK
<1> QED
  BY <1>1 DEF Ordered, ChildType

\* A child that is gone keeps its name.
LEMMA GoneStays ==
  ASSUME RunnerOK, NEW c \in Children
  PROVE  Gone(c).name = child[c].name /\ Gone(c).st = "gone"
<1>1. child[c] \in ChildType
  BY DEF RunnerOK
<1> QED
  BY <1>1 DEF Gone, ChildType

\* Every step keeps what a close relies on.
LEMMA CloseStep ==
  ASSUME RunnerOK, WireOK, ClientOK, OpOK, RestOK, CloseInv, Next
  PROVE  CloseInv'
<1>1. ASSUME NEW n \in Names, OpenBegins(n) PROVE CloseInv'
  BY <1>1, OpGoes DEF OpenBegins, runnerVars, At
<1>2. ASSUME NEW n \in Names, PassesDoor(n) PROVE CloseInv'
  BY <1>2, OpGoes DEF PassesDoor, runnerVars, At
<1>3. ASSUME NEW n \in Names, WaitsNoLonger(n) PROVE CloseInv'
  BY <1>3, OpGoes DEF WaitsNoLonger, runnerVars, At
<1>4. ASSUME NEW n \in Names, TakesWire(n) PROVE CloseInv'
  <2>1. op[n].pc = "wire" /\ op'[n].pc = "register" /\ (\A m \in Names \ {n} : op'[m] = op[m]) /\ UNCHANGED history
    BY <1>4 DEF TakesWire, At, OpOK, OpType
  <2>2. Thins
    <3>1. \A w \in Wires : wire'[w] \in {wire[w], [wire[w] EXCEPT !.st = "up"]}
      BY <1>4 DEF TakesWire, WireOK
    <3>2. \A w \in Wires : wire'[w].asked = wire[w].asked /\ wire'[w].answers = wire[w].answers
      BY <3>1 DEF WireOK, WireType
    <3> QED
      BY <2>1, <3>2 DEF Thins
  <2>3. \A m \in Names : Lone(m)'
    BY <2>2, ThinsKeeps DEF CloseInv
  <2>4. CASE UNCHANGED <<runner, registry, child>>
    <3>1. Tame
      BY <2>1, <2>4 DEF Tame
    <3> QED
      BY <2>3, <3>1, TameKeeps DEF CloseInv
  <2>5. CASE runner = "none" /\ ServesFresh
    <3>1. \A m \in Names : op'[m].pc = "killing" => op[m].pc = "killing"
      BY <2>1
    <3> QED
      BY <2>3, <2>5, <3>1, FreshTypes DEF CloseInv
  <2> QED
    BY <1>4, <2>4, <2>5 DEF TakesWire
<1>5. ASSUME NEW n \in Names, FindsNoRunner(n) PROVE CloseInv'
  <2>1. history'.overdue = history.overdue /\ op[n].pc = "wire" /\ UNCHANGED <<runner, registry, child, wire>>
    BY <1>5, OverdueStays DEF FindsNoRunner, runnerVars, At
  <2>2. op'[n].pc = "idle" /\ \A m \in Names \ {n} : op'[m] = op[m]
    BY <1>5 DEF FindsNoRunner, Returns, NoOp, OpOK
  <2> QED
    BY <2>1, <2>2, OpMoves
<1>6. ASSUME NEW n \in Names, Registers(n) PROVE CloseInv'
  <2>1. UNCHANGED <<runner, registry, child, wire, history>> /\ op[n].pc = "register"
    BY <1>6 DEF Registers, runnerVars, At
  <2>2. op'[n].pc = "write" /\ \A m \in Names \ {n} : op'[m] = op[m]
    BY <1>6 DEF Registers, OpOK, OpType
  <2> QED
    BY <2>1, <2>2, OpMoves
<1>7. ASSUME NEW n \in Names, Writes(n) PROVE CloseInv'
  <2>1. CASE Goes(n, "failed") /\ UNCHANGED wire
    BY <1>7, <2>1, OpGoes DEF Writes, runnerVars, At
  <2>2. CASE /\ Up(op[n].wire) /\ Goes(n, "asked")
             /\ wire' = [wire EXCEPT ![op[n].wire].asked = Append(@, [name |-> n, stream |-> op[n].stream])]
    <3> DEFINE w == op[n].wire
               q == [name |-> n, stream |-> op[n].stream]
    <3>1. w \in Wires /\ q \in Create /\ q.name = n /\ op[n].pc = "write" /\ UNCHANGED <<runner, registry, child, history>>
      BY <1>7 DEF Writes, OpOK, At, Placed, Create, runnerVars
    <3>2. op'[n].pc = "asked" /\ op'[n].wire = w /\ \A m \in Names \ {n} : op'[m] = op[m]
      BY <2>2 DEF Goes, OpOK, OpType
    <3>3. wire' = [wire EXCEPT ![w].asked = Append(@, q)]
      BY <2>2
    <3> HIDE DEF q, w
    <3>4. \A m \in Names : Lone(m)'
      BY <3>1, <3>2, <3>3, RequestComes DEF CloseInv
    <3>5. Tame
      BY <3>1, <3>2 DEF Tame
    <3> QED
      BY <3>4, <3>5, TameKeeps DEF CloseInv
  <2> QED
    BY <1>7, <2>1, <2>2 DEF Writes
<1>8. ASSUME NEW n \in Names, GivesUp(n) PROVE CloseInv'
  <2>1. history'.overdue = history.overdue \cup {n} /\ UNCHANGED <<runner, registry, child, wire>>
    BY <1>8, OverdueStays DEF GivesUp, runnerVars
  <2>2. op'[n].pc \in {"failed", "idle"} /\ \A m \in Names \ {n} : op'[m] = op[m]
    BY <1>8 DEF GivesUp, Returns, Goes, NoOp, OpOK, OpType
  <2> QED
    BY <2>1, <2>2, OpMoves
<1>9. ASSUME NEW n \in Names, OpenFails(n) PROVE CloseInv'
  BY <1>9, OpGoes DEF OpenFails, runnerVars, At
<1>10. ASSUME NEW n \in Names, Opened(n) PROVE CloseInv'
  BY <1>10, OpGoes DEF Opened, runnerVars, At
<1>11. ASSUME NEW n \in Names, CloseBegins(n) PROVE CloseInv'
  BY <1>11, OpGoes DEF CloseBegins, runnerVars, At
<1>12. ASSUME NEW n \in Names, CloseConnects(n) PROVE CloseInv'
  BY <1>12, OpGoes DEF CloseConnects, runnerVars, At
<1>13. ASSUME NEW n \in Names, CloseKills(n) PROVE CloseInv'
  <2>1. UNCHANGED <<runner, registry, wire, history>> /\ runner = "serving" /\ op[n].pc = "closing"
    BY <1>13 DEF CloseKills, At
  <2>2. CASE Returns(n) /\ UNCHANGED child
    BY <2>1, <2>2, OpGoes
  <2>3. CASE /\ op' = [op EXCEPT ![n].pc = "killing", ![n].child = registry[n]] /\ registry[n] # 0
             /\ child' = [child EXCEPT ![registry[n]] = Ordered(registry[n])]
    <3>1. op'[n].pc = "killing" /\ op'[n].child = registry[n] /\ \A m \in Names \ {n} : op'[m] = op[m]
      BY <2>3 DEF OpOK, OpType
    <3>2. registry[n] \in Children
      BY <2>3, Bounds DEF RunnerOK, Children
    <3>3. \A c \in Children : child'[c].name = child[c].name /\ child'[c].st = child[c].st
      BY <2>3, <3>2, OrderedStays DEF RunnerOK
    <3>4. \A c \in Children : Known(c)'
      BY <2>1, <3>3 DEF CloseInv, Known
    <3>5. \A m \in Names : Lone(m)'
      <4>1. Thins
        BY <2>1, <3>1 DEF Thins
      <4> QED
        BY <4>1, ThinsKeeps DEF CloseInv
    <3>6. Kills(n)'
      <4>1. \A c \in Children : child[c].name = n /\ child[c].st = "running" => c = registry[n]
        BY DEF CloseInv, Known
      <4> QED
        BY <2>1, <3>1, <3>3, <4>1 DEF Kills, Of
    <3>7. ASSUME NEW m \in Names \ {n}
          PROVE  Kills(m)'
      <4>1. Kills(m) /\ op'[m] = op[m]
        BY <3>1 DEF CloseInv
      <4> QED
        BY <2>1, <3>3, <4>1 DEF Kills, At, Of
    <3> QED
      BY <3>4, <3>5, <3>6, <3>7 DEF CloseInv
  <2> QED
    BY <1>13, <2>2, <2>3 DEF CloseKills
<1>14. ASSUME NEW n \in Names, CloseEnds(n) PROVE CloseInv'
  <2>1. UNCHANGED <<runner, child, wire, history>> /\ op[n].pc = "killing" /\ child[op[n].child].st # "running"
    BY <1>14 DEF CloseEnds, At
  <2>2. op'[n].pc = "idle" /\ \A m \in Names \ {n} : op'[m] = op[m]
    BY <1>14 DEF CloseEnds, Returns, NoOp, OpOK
  <2>3. registry' = [registry EXCEPT ![n] = IF registry[n] = op[n].child THEN 0 ELSE registry[n]]
    BY <1>14 DEF CloseEnds
  <2>4. \A c \in Children : child[c].st = "running" => registry'[child[c].name] = registry[child[c].name]
    BY <2>1, <2>3 DEF CloseInv, Known, RunnerOK
  <2>5. Thins
    BY <2>1, <2>2 DEF Thins
  <2>6. Tame
    BY <2>1, <2>2, <2>4 DEF Tame
  <2> QED
    BY <2>5, <2>6, BothKeep
<1>15. ASSUME NEW n \in Names, CloseGivesUp(n) PROVE CloseInv'
  <2>1. history'.overdue = history.overdue \cup {n} /\ UNCHANGED <<runner, registry, child, wire>>
    BY <1>15, OverdueStays DEF CloseGivesUp, runnerVars
  <2>2. op'[n].pc \in {"failed", "idle"} /\ \A m \in Names \ {n} : op'[m] = op[m]
    BY <1>15 DEF CloseGivesUp, Returns, Goes, NoOp, OpOK, OpType
  <2> QED
    BY <2>1, <2>2, OpMoves
<1>16. ASSUME DoorOpens PROVE CloseInv'
  <2>1. UNCHANGED <<runner, registry, child, wire, op>> /\ history'.overdue = history.overdue
    BY <1>16, OverdueStays DEF DoorOpens, runnerVars
  <2>2. Tame
    BY <2>1 DEF Tame
  <2> QED
    BY <2>1, <2>2, RunnerMoves
<1>17. ASSUME NEW w \in Wires, RoutesAnswer(w) PROVE CloseInv'
  <2>1. UNCHANGED <<runner, registry, child, history>> /\ wire[w].answers # <<>> /\ wire' = [wire EXCEPT ![w].answers = Tail(@)]
    BY <1>17 DEF RoutesAnswer, runnerVars
  <2> DEFINE a == Head(wire[w].answers)
  <2>2. a \in Answer
    BY <2>1, HeadIs DEF WireOK, WireType
  <2>3. a.name \in Names
    BY <2>2 DEF Answer
  <2>4. (\A m \in Names \ {a.name} : op'[m] = op[m]) /\ (op'[a.name] = op[a.name] \/ op'[a.name].pc \in {"failed", "answered"})
    <3>1. CASE UNCHANGED op
      BY <3>1
    <3>2. CASE Goes(a.name, "failed")
      BY <2>3, <3>2 DEF Goes, OpOK, OpType
    <3>3. CASE op' = [op EXCEPT ![a.name].pc = "answered", ![a.name].child = a.child, ![a.name].is = a.is]
      <4> DEFINE to == [op[a.name] EXCEPT !.pc = "answered", !.child = a.child, !.is = a.is]
      <4>1. op' = [op EXCEPT ![a.name] = to]
        BY <2>3, <3>3 DEF OpOK
      <4>2. to.pc = "answered"
        BY <2>3 DEF OpOK, OpType
      <4> QED
        BY <2>3, <4>1, <4>2 DEF OpOK
    <3> QED
      BY <1>17, <3>1, <3>2, <3>3 DEF RoutesAnswer
  <2>5. \A m \in Names : Lone(m)'
    BY <2>1, <2>4, AnswerGoes DEF CloseInv
  <2>6. Tame
    BY <2>1, <2>4 DEF Tame
  <2> QED
    BY <2>5, <2>6, TameKeeps DEF CloseInv
<1>18. ASSUME NEW w \in Wires, RoutesExit(w) PROVE CloseInv'
  <2>1. UNCHANGED <<runner, registry, child, op>> /\ history'.overdue = history.overdue
    BY <1>18, OverdueStays DEF RoutesExit, runnerVars
  <2>2. wire' = [wire EXCEPT ![w] = [wire[w] EXCEPT !.lane = Tail(@)]]
    BY <1>18 DEF RoutesExit, WireOK
  <2>3. \A v \in Wires : wire'[v].asked = wire[v].asked /\ wire'[v].answers = wire[v].answers
    BY <2>2 DEF WireOK, WireType
  <2>4. Tame
    BY <2>1 DEF Tame
  <2> QED
    BY <2>1, <2>3, <2>4, RunnerMoves
<1>19. ASSUME NEW w \in Wires, WireEnds(w) PROVE CloseInv'
  <2>1. UNCHANGED <<runner, registry, child, history>>
        /\ wire' = [wire EXCEPT ![w] = [st |-> "over", asked |-> <<>>, answers |-> <<>>, lane |-> <<>>]]
        /\ op' = [n \in Names |-> IF At(n, "asked") /\ op[n].wire = w THEN [op[n] EXCEPT !.pc = "failed"] ELSE op[n]]
    BY <1>19 DEF WireEnds, runnerVars
  <2>2. wire'[w].asked = <<>> /\ wire'[w].answers = <<>> /\ \A v \in Wires \ {w} : wire'[v] = wire[v]
    BY <2>1 DEF WireOK
  <2>3. \A n \in Names : op'[n] = op[n] \/ (op[n].pc = "asked" /\ op'[n].pc = "failed" /\ op[n].wire = w)
    BY <2>1 DEF At, OpOK, OpType
  <2>4. Thins
    BY <2>1, <2>2, <2>3 DEF Thins
  <2>5. Tame
    BY <2>1, <2>3 DEF Tame
  <2> QED
    BY <2>4, <2>5, BothKeep
<1>20. ASSUME NEW s \in Streams, Reads(s) PROVE CloseInv'
  <2>1. UNCHANGED <<runner, registry, child, wire, op>> /\ history'.overdue = history.overdue
    BY <1>20, OverdueStays DEF Reads, runnerVars
  <2>2. Tame
    BY <2>1 DEF Tame
  <2> QED
    BY <2>1, <2>2, RunnerMoves
<1>21. ASSUME NEW s \in Streams, FindsEnd(s) PROVE CloseInv'
  <2>1. UNCHANGED <<runner, registry, child, wire, op>> /\ history'.overdue = history.overdue
    BY <1>21, OverdueStays DEF FindsEnd, runnerVars
  <2>2. Tame
    BY <2>1 DEF Tame
  <2> QED
    BY <2>1, <2>2, RunnerMoves
<1>22. ASSUME NEW s \in Streams, LetsGo(s) PROVE CloseInv'
  <2>1. UNCHANGED <<runner, registry, child, wire, op>> /\ history'.overdue = history.overdue
    BY <1>22, OverdueStays DEF LetsGo, runnerVars
  <2>2. Tame
    BY <2>1 DEF Tame
  <2> QED
    BY <2>1, <2>2, RunnerMoves
<1>23. ASSUME NEW w \in Wires, Refuses(w) PROVE CloseInv'
  <2>1. UNCHANGED <<runner, registry, child, op, history>> /\ wire[w].asked # <<>> /\ Answers(w, Head(wire[w].asked), 0, {})
    BY <1>23 DEF Refuses
  <2>2. 0 \in 0..MaxChildren /\ {} \in SUBSET {"begun", "running"}
    BY Bounds
  <2>3. \A m \in Names : Lone(m)'
    BY <2>1, <2>2, RequestGoes DEF CloseInv
  <2>4. Tame
    BY <2>1 DEF Tame
  <2> QED
    BY <2>3, <2>4, TameKeeps DEF CloseInv
<1>24. ASSUME NEW w \in Wires, Attaches(w) PROVE CloseInv'
  <2> DEFINE q == Head(wire[w].asked)
  <2>1. wire[w].asked # <<>> /\ q \in Create
    BY <1>24, HeadIs DEF Attaches, WireOK, WireType
  <2>2. PICK is \in SUBSET {"running"} :
          /\ Runs(q.name) /\ Answers(w, q, registry[q.name], is)
          /\ child' = [child EXCEPT ![registry[q.name]].lane = w, ![registry[q.name]].stream = q.stream,
                         ![registry[q.name]].st = IF is # {} THEN @ ELSE "exited"]
    BY <1>24 DEF Attaches
  <2>3. registry[q.name] \in Children /\ registry[q.name] \in 0..MaxChildren /\ UNCHANGED <<runner, registry, op, history>>
    <3>1. registry[q.name] \in 0..MaxChildren /\ registry[q.name] # 0
      BY <2>1, <2>2 DEF RunnerOK, Create, Runs
    <3>2. UNCHANGED <<runner, registry, op, history>>
      BY <1>24 DEF Attaches
    <3> QED
      BY <3>1, <3>2, Bounds DEF Children
  <2>4. \A m \in Names : Lone(m)'
    BY <2>1, <2>2, <2>3, RequestGoes DEF CloseInv
  <2> DEFINE x == registry[q.name]
             st == IF is # {} THEN child[x].st ELSE "exited"
             to == [child[x] EXCEPT !.lane = w, !.stream = q.stream, !.st = st]
  <2>5. child' = [child EXCEPT ![x] = to]
    BY <2>2, <2>3 DEF RunnerOK
  <2>6. to.name = child[x].name /\ to.st \in {child[x].st, "exited"}
    BY <2>3 DEF RunnerOK, ChildType
  <2> HIDE DEF to
  <2>7. \A c \in Children : child'[c].name = child[c].name /\ child'[c].st \in {child[c].st, "exited"}
    BY <2>3, <2>5, <2>6 DEF RunnerOK
  <2>8. Tame
    BY <2>3, <2>7 DEF Tame
  <2> QED
    BY <2>4, <2>8, TameKeeps DEF CloseInv
<1>25. ASSUME NEW w \in Wires, Spawns(w) PROVE CloseInv'
  <2> DEFINE q == Head(wire[w].asked)
  <2>1. wire[w].asked # <<>> /\ q \in Create
    BY <1>25, HeadIs DEF Spawns, WireOK, WireType
  <2>2. PICK is \in SUBSET {"running"} :
          /\ ~Runs(q.name) /\ Answers(w, q, NextChild, is \cup {"begun"})
          /\ child' = [child EXCEPT ![NextChild].name = q.name, ![NextChild].lane = w, ![NextChild].stream = q.stream,
                         ![NextChild].st = IF is # {} THEN "running" ELSE "exited"]
          /\ registry' = [registry EXCEPT ![q.name] = NextChild]
    BY <1>25 DEF Spawns
  <2>3. runner = "serving" /\ UNCHANGED <<runner, op>> /\ history'.overdue = history.overdue
    BY <1>25, OverdueStays DEF Spawns
  <2>4. PICK x \in Children : x = NextChild
    BY <1>25 DEF Spawns
  <2>5. x \in 0..MaxChildren /\ is \cup {"begun"} \in SUBSET {"begun", "running"} /\ q.name \in Names
    BY <2>1, Bounds DEF Create
  <2>6. \A m \in Names : Lone(m)'
    BY <2>1, <2>2, <2>3, <2>4, <2>5, RequestGoes DEF CloseInv
  <2> DEFINE st == IF is # {} THEN "running" ELSE "exited"
             to == [child[x] EXCEPT !.name = q.name, !.lane = w, !.stream = q.stream, !.st = st]
  <2>7. child' = [child EXCEPT ![x] = to]
    BY <2>2, <2>4 DEF RunnerOK
  <2>8. to.name = q.name /\ to.st \in {"running", "exited"}
    BY <2>4 DEF RunnerOK, ChildType
  <2> HIDE DEF to
  <2>9. child'[x].name = q.name /\ child'[x].st \in {"running", "exited"} /\ \A c \in Children \ {x} : child'[c] = child[c]
    BY <2>7, <2>8 DEF RunnerOK
  <2>10. registry'[q.name] = x /\ \A n \in Names \ {q.name} : registry'[n] = registry[n]
    BY <2>2, <2>4, <2>5 DEF RunnerOK
  <2>11. \A c \in Children : child[c].st = "running" => child[c].name # q.name
    <3> SUFFICES ASSUME NEW c \in Children, child[c].st = "running", child[c].name = q.name PROVE FALSE
      OBVIOUS
    <3>1. registry[q.name] = c
      BY DEF CloseInv, Known
    <3> QED
      BY <2>2, <3>1, Bounds DEF Runs, Children
  <2>12. \A c \in Children : Known(c)'
    <3> SUFFICES ASSUME NEW c \in Children PROVE Known(c)'
      OBVIOUS
    <3>1. CASE c = x
      BY <2>3, <2>5, <2>9, <2>10, <3>1 DEF Known
    <3>2. CASE c # x
      BY <2>3, <2>9, <2>10, <2>11, <3>2 DEF Known, CloseInv
    <3> QED
      BY <3>1, <3>2
  <2>13. \A n \in Names : Kills(n)'
    <3> SUFFICES ASSUME NEW n \in Names, op[n].pc = "killing", n \notin history.overdue, NEW c \in Children,
                        child'[c].name = n, child'[c].st = "running"
                 PROVE  c = op[n].child
      BY <2>3 DEF Kills, At, Of
    <3>1. Mentions(wire[w].asked, q.name)
      <4>1. wire[w].asked \in Seq(Create)
        BY DEF WireOK, WireType
      <4> QED
        BY <2>1, <4>1, HeadTailProperties, EmptySeq, LenProperties DEF Mentions
    <3>2. q.name # n
      BY <3>1 DEF CloseInv, Lone, OneAt
    <3>3. c # x
      BY <2>9, <3>2
    <3> QED
      BY <2>9, <3>3 DEF CloseInv, Kills, At, Of
  <2> QED
    BY <2>6, <2>12, <2>13 DEF CloseInv
<1>26. ASSUME NEW c \in Children, Exits(c) PROVE CloseInv'
  <2>1. UNCHANGED <<runner, registry, wire, op, history>>
    BY <1>26 DEF Exits
  <2>2. child' = [child EXCEPT ![c] = [child[c] EXCEPT !.st = "exited"]]
    BY <1>26 DEF Exits, RunnerOK
  <2>3. \A d \in Children : child'[d].name = child[d].name /\ child'[d].st \in {child[d].st, "exited"}
    BY <2>2 DEF RunnerOK, ChildType
  <2>4. Tame
    BY <2>1, <2>3 DEF Tame
  <2> QED
    BY <2>1, <2>4, RunnerMoves
<1>27. ASSUME NEW c \in Children, SaysExit(c) PROVE CloseInv'
  <2>1. UNCHANGED <<runner, registry, op, history>>
    BY <1>27 DEF SaysExit
  <2>2. child' = [child EXCEPT ![c] = Gone(c)]
    BY <1>27 DEF SaysExit
  <2>3. \A d \in Children : child'[d].name = child[d].name /\ child'[d].st \in {child[d].st, "gone"}
    BY <2>2, GoneStays DEF RunnerOK
  <2>4. Tame
    BY <2>1, <2>3 DEF Tame
  <2>5. \A w \in Wires : \E q : wire'[w] \in {wire[w], [wire[w] EXCEPT !.lane = q]}
    BY <1>27 DEF SaysExit, SaysEnd, WireOK
  <2>6. \A w \in Wires : wire'[w].asked = wire[w].asked /\ wire'[w].answers = wire[w].answers
    BY <2>5 DEF WireOK, WireType
  <2> QED
    BY <2>1, <2>4, <2>6, RunnerMoves
<1>28. ASSUME NEW c \in Children, OrphanEnds(c) PROVE CloseInv'
  <2>1. UNCHANGED <<runner, registry, wire, op, history>>
    BY <1>28 DEF OrphanEnds
  <2>2. child' = [child EXCEPT ![c] = Gone(c)]
    BY <1>28 DEF OrphanEnds
  <2>3. \A d \in Children : child'[d].name = child[d].name /\ child'[d].st \in {child[d].st, "gone"}
    BY <2>2, GoneStays DEF RunnerOK
  <2>4. Tame
    BY <2>1, <2>3 DEF Tame
  <2> QED
    BY <2>1, <2>4, RunnerMoves
<1>29. ASSUME ConnectionDrops PROVE CloseInv'
  <2>1. UNCHANGED <<runner, registry, op>> /\ history'.overdue = history.overdue
    BY <1>29, OverdueStays DEF ConnectionDrops
  <2>2. \A d \in Children : child'[d] \in {child[d], [child[d] EXCEPT !.lane = 0]}
    BY <1>29 DEF ConnectionDrops
  <2>3. \A d \in Children : child'[d].name = child[d].name /\ child'[d].st = child[d].st
    BY <2>2 DEF RunnerOK, ChildType
  <2>4. Tame
    BY <2>1, <2>3 DEF Tame
  <2>5. slot \in Wires /\ Closes(slot)
    BY <1>29, UpIs DEF ConnectionDrops, ClientOK
  <2> QED
    BY <2>1, <2>4, <2>5, ClosesThins, RunnerMoves
<1>30. ASSUME RunnerExits PROVE CloseInv'
  <2>1. runner' = "none" /\ history'.overdue = history.overdue
    BY <1>30, OverdueStays DEF RunnerExits, RunnerGone
  <2>2. op' = [n \in Names |-> IF op[n].pc \in {"closing", "killing"} THEN NoOp ELSE op[n]]
    BY <1>30 DEF RunnerExits, RunnerGone
  <2>3. \A n \in Names : op'[n].pc # "killing" /\ (op[n].pc = "asked" => op'[n] = op[n])
    BY <2>2 DEF NoOp
  <2>4. \A n \in Names : Lone(n)'
    <3>1. \A w \in Wires : wire'[w].asked \in {wire[w].asked, <<>>} /\ wire'[w].answers = wire[w].answers
      <4>1. CASE UNCHANGED wire
        BY <4>1
      <4>2. CASE Up(slot) /\ Closes(slot)
        BY <4>2, UpIs, ClosesThins DEF ClientOK
      <4> QED
        BY <1>30, <4>1, <4>2 DEF RunnerExits, RunnerGone
    <3>2. Thins
      BY <2>1, <2>3, <3>1 DEF Thins
    <3> QED
      BY <3>2, ThinsKeeps DEF CloseInv
  <2>5. \A c \in Children : child[c].st # "running"
    BY <1>30, Bounds DEF RunnerExits, Runs, CloseInv, Known, Children
  <2>6. \A c \in Children : child'[c].st # "running"
    BY <1>30, <2>5, GoneStays DEF RunnerExits
  <2> QED
    BY <2>1, <2>3, <2>4, <2>6 DEF CloseInv, Known, Kills, At
<1>31. ASSUME RunnerCrashes PROVE CloseInv'
  <2>1. runner' = "none" /\ history'.overdue = history.overdue
    BY <1>31, OverdueStays DEF RunnerCrashes, RunnerGone
  <2>2. op' = [n \in Names |-> IF op[n].pc \in {"closing", "killing"} THEN NoOp ELSE op[n]]
    BY <1>31 DEF RunnerCrashes, RunnerGone
  <2>3. \A n \in Names : op'[n].pc # "killing" /\ (op[n].pc = "asked" => op'[n] = op[n])
    BY <2>2 DEF NoOp
  <2>4. \A n \in Names : Lone(n)'
    <3>1. \A w \in Wires : wire'[w].asked \in {wire[w].asked, <<>>} /\ wire'[w].answers = wire[w].answers
      <4>1. CASE UNCHANGED wire
        BY <4>1
      <4>2. CASE Up(slot) /\ Closes(slot)
        BY <4>2, UpIs, ClosesThins DEF ClientOK
      <4> QED
        BY <1>31, <4>1, <4>2 DEF RunnerCrashes, RunnerGone
    <3>2. Thins
      BY <2>1, <2>3, <3>1 DEF Thins
    <3> QED
      BY <3>2, ThinsKeeps DEF CloseInv
  <2>6. \A c \in Children : child'[c].st # "running"
    <3> SUFFICES ASSUME NEW c \in Children PROVE child'[c].st # "running"
      OBVIOUS
    <3>1. child[c] \in ChildType
      BY DEF RunnerOK
    <3>2. CASE child[c].st = "running"
      BY <1>31, <3>1, <3>2 DEF RunnerCrashes, ChildType
    <3>3. CASE child[c].st = "exited"
      BY <1>31, <3>3, GoneStays DEF RunnerCrashes
    <3>4. CASE child[c].st \notin {"running", "exited"}
      BY <1>31, <3>4 DEF RunnerCrashes
    <3> QED
      BY <3>2, <3>3, <3>4
  <2> QED
    BY <2>1, <2>3, <2>4, <2>6 DEF CloseInv, Known, Kills, At
<1>32. ASSUME RestartBegins PROVE CloseInv'
  <2>1. UNCHANGED <<runner, registry, child, wire, op>> /\ history'.overdue = history.overdue
    BY <1>32, OverdueStays DEF RestartBegins, runnerVars
  <2>2. Tame
    BY <2>1 DEF Tame
  <2> QED
    BY <2>1, <2>2, RunnerMoves
<1>33. ASSUME RestartStops PROVE CloseInv'
  <2>1. UNCHANGED <<registry, wire, op, history>> /\ (runner' = runner \/ (runner = "serving" /\ runner' = "stopping"))
    BY <1>33 DEF RestartStops
  <2>2. \A c \in Children : child'[c] \in {child[c], Ordered(c)}
    BY <1>33 DEF RestartStops
  <2>3. \A c \in Children : child'[c].name = child[c].name /\ child'[c].st = child[c].st
    BY <2>2, OrderedStays
  <2>4. Tame
    BY <2>1, <2>3 DEF Tame
  <2> QED
    BY <2>1, <2>4, RunnerMoves
<1>34. ASSUME RestartServes PROVE CloseInv'
  <2>1. UNCHANGED <<wire, op, history>> /\ runner = "none" /\ ServesFresh
    BY <1>34 DEF RestartServes
  <2>2. Thins
    BY <2>1 DEF Thins
  <2> QED
    BY <2>1, <2>2, ThinsKeeps, FreshTypes DEF CloseInv
<1>35. ASSUME RestartGivesUp PROVE CloseInv'
  <2>1. UNCHANGED <<runner, registry, child, wire, op>> /\ history'.overdue = history.overdue
    BY <1>35, OverdueStays DEF RestartGivesUp, runnerVars
  <2>2. Tame
    BY <2>1 DEF Tame
  <2> QED
    BY <2>1, <2>2, RunnerMoves
<1> QED
  BY <1>1, <1>2, <1>3, <1>4, <1>5, <1>6, <1>7, <1>8, <1>9, <1>10, <1>11, <1>12, <1>13, <1>14,
     <1>15, <1>16, <1>17, <1>18, <1>19, <1>20, <1>21, <1>22, <1>23, <1>24, <1>25, <1>26, <1>27, <1>28,
     <1>29, <1>30, <1>31, <1>32, <1>33, <1>34, <1>35
  DEF Next, Open, Close, Route, Reader, Run, Restart

\* A close returns, and neither is the runner another nor was it given up on.
Ended(k) == /\ op[k].pc \in {"closing", "killing"} /\ op'[k].pc = "idle"
            /\ runner' = runner /\ history' = history

\* A fault that is counted shows.
LEMMA FaultIsSeen ==
  ASSUME RestOK, NEW x, history' = [Faulted(history) EXCEPT !.overdue = x]
  PROVE  history'.faults # history.faults
<1>1. history.faults \in Nat /\ history'.faults = history.faults + 1
  BY Bounds DEF RestOK, Faulted
<1> QED
  BY <1>1

\* A step of another conversation ends no close of this one.
LEMMA NotMine ==
  ASSUME OpOK, NEW k \in Names, Ended(k), NEW n \in Names, op[n].pc \notin {"closing", "killing"},
         \A m \in Names \ {n} : op'[m] = op[m]
  PROVE  FALSE
BY DEF Ended

\* What ends a close is the runner's answer that it has no such session, or that it has ended.
LEMMA WhoEnds ==
  ASSUME OpOK, RestOK, NEW k \in Names, Ended(k), Next
  PROVE  CloseKills(k) \/ CloseEnds(k)
<1>1. ASSUME NEW n \in Names, OpenBegins(n) PROVE CloseKills(k) \/ CloseEnds(k)
  <2>1. op[n].pc \notin {"closing", "killing"} /\ \A m \in Names \ {n} : op'[m] = op[m]
    BY <1>1 DEF OpenBegins, OpOK, OpType, At, Goes, Returns, NoOp
  <2> QED
    BY <2>1, NotMine
<1>2. ASSUME NEW n \in Names, PassesDoor(n) PROVE CloseKills(k) \/ CloseEnds(k)
  <2>1. op[n].pc \notin {"closing", "killing"} /\ \A m \in Names \ {n} : op'[m] = op[m]
    BY <1>2 DEF PassesDoor, OpOK, OpType, At, Goes, Returns, NoOp
  <2> QED
    BY <2>1, NotMine
<1>3. ASSUME NEW n \in Names, WaitsNoLonger(n) PROVE CloseKills(k) \/ CloseEnds(k)
  <2>1. op[n].pc \notin {"closing", "killing"} /\ \A m \in Names \ {n} : op'[m] = op[m]
    BY <1>3 DEF WaitsNoLonger, OpOK, OpType, At, Goes, Returns, NoOp
  <2> QED
    BY <2>1, NotMine
<1>4. ASSUME NEW n \in Names, TakesWire(n) PROVE CloseKills(k) \/ CloseEnds(k)
  <2>1. op[n].pc \notin {"closing", "killing"} /\ \A m \in Names \ {n} : op'[m] = op[m]
    BY <1>4 DEF TakesWire, OpOK, OpType, At, Goes, Returns, NoOp
  <2> QED
    BY <2>1, NotMine
<1>5. ASSUME NEW n \in Names, FindsNoRunner(n) PROVE CloseKills(k) \/ CloseEnds(k)
  <2>1. op[n].pc \notin {"closing", "killing"} /\ \A m \in Names \ {n} : op'[m] = op[m]
    BY <1>5 DEF FindsNoRunner, OpOK, OpType, At, Goes, Returns, NoOp
  <2> QED
    BY <2>1, NotMine
<1>6. ASSUME NEW n \in Names, Registers(n) PROVE CloseKills(k) \/ CloseEnds(k)
  <2>1. op[n].pc \notin {"closing", "killing"} /\ \A m \in Names \ {n} : op'[m] = op[m]
    BY <1>6 DEF Registers, OpOK, OpType, At, Goes, Returns, NoOp
  <2> QED
    BY <2>1, NotMine
<1>7. ASSUME NEW n \in Names, Writes(n) PROVE CloseKills(k) \/ CloseEnds(k)
  <2>1. op[n].pc = "write" /\ (Goes(n, "asked") \/ Goes(n, "failed"))
    BY <1>7 DEF Writes, At
  <2>2. \A m \in Names \ {n} : op'[m] = op[m]
    BY <2>1 DEF Goes, OpOK
  <2> QED
    BY <2>1, <2>2, NotMine
<1>8. ASSUME NEW n \in Names, GivesUp(n) PROVE CloseKills(k) \/ CloseEnds(k)
  <2>1. op[n].pc \notin {"closing", "killing"} /\ \A m \in Names \ {n} : op'[m] = op[m]
    BY <1>8 DEF GivesUp, OpOK, OpType, At, Goes, Returns, NoOp
  <2> QED
    BY <2>1, NotMine
<1>9. ASSUME NEW n \in Names, OpenFails(n) PROVE CloseKills(k) \/ CloseEnds(k)
  <2>1. op[n].pc \notin {"closing", "killing"} /\ \A m \in Names \ {n} : op'[m] = op[m]
    BY <1>9 DEF OpenFails, OpOK, OpType, At, Goes, Returns, NoOp
  <2> QED
    BY <2>1, NotMine
<1>10. ASSUME NEW n \in Names, Opened(n) PROVE CloseKills(k) \/ CloseEnds(k)
  <2>1. op[n].pc \notin {"closing", "killing"} /\ \A m \in Names \ {n} : op'[m] = op[m]
    BY <1>10 DEF Opened, OpOK, OpType, At, Goes, Returns, NoOp
  <2> QED
    BY <2>1, NotMine
<1>11. ASSUME NEW n \in Names, CloseBegins(n) PROVE CloseKills(k) \/ CloseEnds(k)
  <2>1. op[n].pc \notin {"closing", "killing"} /\ \A m \in Names \ {n} : op'[m] = op[m]
    BY <1>11 DEF CloseBegins, OpOK, OpType, At, Goes, Returns, NoOp
  <2> QED
    BY <2>1, NotMine
<1>12. ASSUME NEW n \in Names, CloseConnects(n) PROVE CloseKills(k) \/ CloseEnds(k)
  <2>1. op[n].pc \notin {"closing", "killing"} /\ \A m \in Names \ {n} : op'[m] = op[m]
    BY <1>12 DEF CloseConnects, OpOK, OpType, At, Goes, Returns, NoOp
  <2> QED
    BY <2>1, NotMine
<1>13. ASSUME NEW n \in Names, CloseKills(n) PROVE CloseKills(k) \/ CloseEnds(k)
  <2>1. CASE n = k
    BY <1>13, <2>1
  <2>2. CASE n # k
    <3>1. op'[k] = op[k]
      BY <1>13, <2>2 DEF CloseKills, Returns, OpOK
    <3> QED
      BY <3>1 DEF Ended
  <2> QED
    BY <2>1, <2>2
<1>14. ASSUME NEW n \in Names, CloseEnds(n) PROVE CloseKills(k) \/ CloseEnds(k)
  <2>1. CASE n = k
    BY <1>14, <2>1
  <2>2. CASE n # k
    <3>1. op'[k] = op[k]
      BY <1>14, <2>2 DEF CloseEnds, Returns, OpOK
    <3> QED
      BY <3>1 DEF Ended
  <2> QED
    BY <2>1, <2>2
<1>15. ASSUME NEW n \in Names, CloseGivesUp(n) PROVE CloseKills(k) \/ CloseEnds(k)
  <2>1. history' = [Faulted(history) EXCEPT !.overdue = Faulted(history).overdue \cup {n}]
    BY <1>15 DEF CloseGivesUp
  <2> QED
    BY <2>1, FaultIsSeen DEF Ended
<1>16. ASSUME DoorOpens PROVE CloseKills(k) \/ CloseEnds(k)
  BY <1>16 DEF Ended, DoorOpens
<1>17. ASSUME NEW w \in Wires, RoutesAnswer(w) PROVE CloseKills(k) \/ CloseEnds(k)
  <2> DEFINE a == Head(wire[w].answers)
  <2>1. UNCHANGED op \/ (op[a.name].pc = "asked" /\ \A m \in Names \ {a.name} : op'[m] = op[m])
    BY <1>17 DEF RoutesAnswer, Goes, At, OpOK
  <2>2. op'[k] = op[k] \/ op[k].pc = "asked"
    BY <2>1
  <2> QED
    BY <2>2 DEF Ended
<1>18. ASSUME NEW w \in Wires, WireEnds(w) PROVE CloseKills(k) \/ CloseEnds(k)
  <2>1. op'[k] = op[k] \/ op[k].pc = "asked"
    BY <1>18 DEF WireEnds, At
  <2> QED
    BY <2>1 DEF Ended
<1>19. ASSUME NEW w \in Wires, RoutesExit(w) PROVE CloseKills(k) \/ CloseEnds(k)
  BY <1>19 DEF Ended, RoutesExit
<1>20. ASSUME NEW s \in Streams, Reads(s) \/ FindsEnd(s) \/ LetsGo(s) PROVE CloseKills(k) \/ CloseEnds(k)
  BY <1>20 DEF Ended, Reads, FindsEnd, LetsGo
<1>21. ASSUME NEW w \in Wires, Refuses(w) \/ Attaches(w) \/ Spawns(w) PROVE CloseKills(k) \/ CloseEnds(k)
  BY <1>21 DEF Ended, Refuses, Attaches, Spawns
<1>22. ASSUME NEW c \in Children, Exits(c) \/ SaysExit(c) \/ OrphanEnds(c) PROVE CloseKills(k) \/ CloseEnds(k)
  BY <1>22 DEF Ended, Exits, SaysExit, OrphanEnds
<1>23. ASSUME RunnerExits PROVE CloseKills(k) \/ CloseEnds(k)
  BY <1>23 DEF RunnerExits, RunnerGone, Ended
<1>24. ASSUME RunnerCrashes PROVE CloseKills(k) \/ CloseEnds(k)
  BY <1>24 DEF RunnerCrashes, RunnerGone, Ended
<1>25. ASSUME ConnectionDrops PROVE CloseKills(k) \/ CloseEnds(k)
  BY <1>25 DEF Ended, ConnectionDrops
<1>26. ASSUME 
             RestartBegins \/ RestartStops \/ RestartServes \/ RestartGivesUp
      PROVE  CloseKills(k) \/ CloseEnds(k)
  BY <1>26 DEF Ended, RestartBegins, RestartStops, RestartServes, RestartGivesUp
<1> QED
  BY <1>1, <1>2, <1>3, <1>4, <1>5, <1>6, <1>7, <1>8, <1>9, <1>10, <1>11, <1>12, <1>13, <1>14,
     <1>15, <1>16, <1>17, <1>18, <1>19, <1>20, <1>21, <1>22, <1>23, <1>24, <1>25, <1>26
  DEF Next, Open, Close, Route, Reader, Run, Restart

\* At first nothing runs and nothing is under way.
LEMMA InitCloses == Init => CloseInv
<1> SUFFICES ASSUME Init PROVE CloseInv
  OBVIOUS
<1>1. \A c \in Children : Known(c)
  BY DEF Init, Known
<1>2. \A n \in Names : Lone(n)
  BY NoMention DEF Init, Lone, OneAt
<1>3. \A n \in Names : Kills(n)
  BY DEF Init, Kills, At, NoOp
<1> QED
  BY <1>1, <1>2, <1>3 DEF CloseInv

\* A stuttering step.
LEMMA CloseStutters == ASSUME CloseInv, UNCHANGED vars PROVE CloseInv'
BY DEF CloseInv, Known, Lone, OneAt, Mentions, Single, Kills, Of, At, vars, runnerVars, clientVars

\* The step that ends a close finds nothing of its conversation running.
LEMMA EndsFindNothing ==
  ASSUME TypeInv, CloseInv, Next, NEW n \in Names, Ended(n), n \notin history.overdue, NEW c \in Of(n)
  PROVE  child'[c].st \notin {"running", "orphan"}
<1>1. c \in Children /\ child[c].name = n /\ Known(c)
  BY DEF Of, CloseInv
<1>2. CASE CloseKills(n)
  <2>1. registry[n] = 0 /\ runner = "serving" /\ child' = child
    BY <1>2 DEF CloseKills, Ended, TypeInv, OpOK, OpType
  <2>2. c # 0
    BY <1>1, Bounds DEF Children
  <2> QED
    BY <1>1, <2>1, <2>2 DEF Known
<1>3. CASE CloseEnds(n)
  <2>1. op[n].pc = "killing" /\ child[op[n].child].st # "running" /\ child' = child
    BY <1>3 DEF CloseEnds, At
  <2>2. runner # "none" /\ (child[c].st = "running" => c = op[n].child)
    BY <1>1, <2>1 DEF CloseInv, Kills, At
  <2> QED
    BY <1>1, <2>1, <2>2 DEF Known
<1> QED
  BY <1>2, <1>3, WhoEnds DEF TypeInv

(* A close the runner has answered leaves no process of the conversation,  *)
(* not even one an earlier runner left: SessionClose waits for the child   *)
(* it found (session.rs), and no start is under way that could bring       *)
(* another, unless one was given up on.                                    *)
THEOREM ClosesEndChildren == Spec => CloseEndsChild
<1>1. ASSUME TypeInv, CloseInv, [Next]_vars
      PROVE  CloseInv'
  <2>1. CASE Next
    BY <1>1, <2>1, CloseStep DEF TypeInv
  <2>2. CASE UNCHANGED vars
    BY <1>1, <2>2, CloseStutters
  <2> QED
    BY <1>1, <2>1, <2>2
<1>2. ASSUME TypeInv, CloseInv, [Next]_vars
      PROVE  [\A n \in Names :
                /\ op[n].pc \in {"closing", "killing"} /\ op'[n].pc = "idle" /\ runner' = runner
                /\ history' = history /\ n \notin history.overdue
                => \A c \in Of(n) : child'[c].st \notin {"running", "orphan"}]_vars
  BY <1>2, EndsFindNothing DEF Ended
<1> QED
  BY <1>1, <1>2, InitCloses, TypesHold, PTL DEF Spec, CloseEndsChild

-----------------------------------------------------------------------------
(* Starts.  Who is past the door may have begun a process only when its    *)
(* answer, or the lack of one, keeps the door shut behind it.              *)

\* Past the door, and before a request is written.
Starting == {"wire", "register", "write"}
Inside == Starting \cup {"asked", "answered", "failed"}
Young == {c \in history.young : child[c].st = "running"}
\* An answer to this conversation that tells of no process begun.
Dull(q, n) == \E i \in 1..Len(q) : q[i].name = n /\ "begun" \notin q[i].is

\* Nothing was begun yet for the open that is past the door.
Unstarted(n) ==
  \/ op[n].pc \in Starting
  \/ op[n].pc = "asked" /\ \E w \in Wires : Mentions(wire[w].asked, n) \/ Dull(wire[w].answers, n)
  \/ op[n].pc = "answered" /\ "begun" \notin op[n].is

\* The door belongs to the open past it; while nothing was begun, nothing young runs,
\* and never two.
DoorInv ==
  /\ \A n \in Names : op[n].pc \in Inside => door = n
  /\ history.overdue = {} =>
       /\ door = "open" \/ (\E n \in Names : Unstarted(n)) => Young = {}
       /\ \A c, d \in Young : c = d

\* The door is nobody's when it is open or waits.
LEMMA DoorNames == "open" \notin Names /\ "spacing" \notin Names
BY InstanceAssumption DEF InstanceAssumption

\* What does not make a process run, nor let a start begin that could not.
LEMMA DoorKeeps ==
  ASSUME DoorInv, Young' \subseteq Young, history'.overdue = {} => history.overdue = {},
         \A n \in Names : op'[n].pc \in Inside => door' = n,
         history'.overdue = {} /\ (door' = "open" \/ (\E n \in Names : Unstarted(n)')) =>
           door = "open" \/ (\E n \in Names : Unstarted(n))
  PROVE  DoorInv'
BY DEF DoorInv

\* An empty queue tells nothing.
LEMMA NothingDull == \A n : ~Dull(<<>>, n)
<1>1. Len(<<>>) = 0
  BY EmptySeq
<1> QED
  BY <1>1 DEF Dull

\* A step that only takes from what is under way.
LEMMA DoorRests ==
  ASSUME DoorInv, Young' \subseteq Young, history'.overdue = {} => history.overdue = {},
         \A w \in Wires : /\ wire'[w].asked \in {wire[w].asked, <<>>}
                          /\ wire'[w].answers \in {wire[w].answers, <<>>},
         door' = "open" => door = "open",
         \A n \in Names : op'[n].pc \in Inside => door' = n,
         \A n \in Names : op'[n].pc \in Starting \cup {"asked", "answered"} => op'[n] = op[n]
  PROVE  DoorInv'
<1>1. ASSUME NEW n \in Names, Unstarted(n)'
      PROVE  Unstarted(n)
  <2>1. op'[n] = op[n]
    BY <1>1 DEF Unstarted
  <2>2. CASE op'[n].pc \in Starting
    BY <2>1, <2>2 DEF Unstarted
  <2>3. CASE op'[n].pc = "asked" /\ \E w \in Wires : Mentions(wire'[w].asked, n) \/ Dull(wire'[w].answers, n)
    <3>1. PICK w \in Wires : Mentions(wire'[w].asked, n) \/ Dull(wire'[w].answers, n)
      BY <2>3
    <3>2. Mentions(wire[w].asked, n) \/ Dull(wire[w].answers, n)
      BY <3>1, NoMention, NothingDull
    <3> QED
      BY <2>1, <2>3, <3>2 DEF Unstarted
  <2>4. CASE op'[n].pc = "answered" /\ "begun" \notin op'[n].is
    BY <2>1, <2>4 DEF Unstarted
  <2> QED
    BY <1>1, <2>2, <2>3, <2>4 DEF Unstarted
<1> QED
  BY <1>1, DoorKeeps

\* Nobody's operation moves, nor the door.
LEMMA DoorStill ==
  ASSUME DoorInv, Young' \subseteq Young, history'.overdue = {} => history.overdue = {}, UNCHANGED <<door, op>>,
         \A w \in Wires : /\ wire'[w].asked \in {wire[w].asked, <<>>}
                          /\ wire'[w].answers \in {wire[w].answers, <<>>}
  PROVE  DoorInv'
<1>1. \A n \in Names : op'[n].pc \in Inside => door' = n
  BY DEF DoorInv
<1> QED
  BY <1>1, DoorRests

\* One operation goes on outside, and the door stays as it is.
LEMMA DoorOutside ==
  ASSUME DoorInv, OpOK, UNCHANGED <<child, wire, door>>, Young' \subseteq Young,
         history'.overdue = {} => history.overdue = {},
         NEW n \in Names, op'[n].pc \notin Inside, \A m \in Names \ {n} : op'[m] = op[m]
  PROVE  DoorInv'
<1>1. \A m \in Names : op'[m].pc \in Inside => door' = m
  BY DEF DoorInv
<1>2. \A m \in Names : op'[m].pc \in Starting \cup {"asked", "answered"} => op'[m] = op[m]
  BY DEF Inside
<1> QED
  BY <1>1, <1>2, DoorRests

\* No process runs that did not.
LEMMA YoungLess ==
  ASSUME history'.young \subseteq history.young,
         \A c \in Children : child'[c].st = "running" => child[c].st = "running", RestOK
  PROVE  Young' \subseteq Young
BY DEF Young, RestOK

\* What the ghosts of a fault or of a name given up on leave of the young.
LEMMA YoungStays ==
  ASSUME RestOK
  PROVE  /\ Faulted(history).young = history.young
         /\ \A x : [Faulted(history) EXCEPT !.overdue = x].young = history.young
         /\ \A x : [history EXCEPT !.crossed = x].young = history.young
         /\ \A x : [history EXCEPT !.young = x].young = x
BY DEF RestOK, Faulted

\* Only what is asked or answered changes, and only the client's side.
LEMMA DullLess ==
  ASSUME NEW S, NEW q \in Seq(S), q # <<>>, NEW n
  PROVE  /\ Dull(Tail(q), n) => Dull(q, n)
         /\ Head(q).name = n /\ "begun" \notin Head(q).is => Dull(q, n)
<1>1. Len(q) \in Nat /\ Len(Tail(q)) = Len(q) - 1 /\ Head(q) = q[1]
      /\ \A i \in 1..Len(Tail(q)) : Tail(q)[i] = q[i + 1] /\ i + 1 \in 1..Len(q)
  BY HeadTailProperties, LenProperties
<1>2. 1 \in 1..Len(q)
  BY <1>1, EmptySeq
<1> QED
  BY <1>1, <1>2 DEF Dull

\* A queue with one more answer.
LEMMA DullMore ==
  ASSUME NEW S, NEW q \in Seq(S), NEW x \in S, NEW n, Dull(Append(q, x), n)
  PROVE  Dull(q, n) \/ (x.name = n /\ "begun" \notin x.is)
<1>1. Len(q) \in Nat /\ Len(Append(q, x)) = Len(q) + 1 /\ Append(q, x)[Len(q) + 1] = x
      /\ \A i \in 1..Len(q) : Append(q, x)[i] = q[i]
  BY AppendProperties, LenProperties
<1>2. PICK i \in 1..(Len(q) + 1) : Append(q, x)[i].name = n /\ "begun" \notin Append(q, x)[i].is
  BY <1>1 DEF Dull
<1>3. i \in 1..Len(q) \/ i = Len(q) + 1
  BY <1>1
<1> QED
  BY <1>1, <1>2, <1>3 DEF Dull

\* A queue that mentions nobody of a name tells nothing of it.
LEMMA DullMentions == ASSUME NEW q, NEW n, Dull(q, n) PROVE Mentions(q, n)
BY DEF Dull, Mentions

\* A request is answered, and no process runs that did not.
LEMMA AnswerRests ==
  ASSUME WireOK, DoorInv, CloseInv, UNCHANGED <<op, door, history>>, Young' \subseteq Young, NEW w \in Wires,
         wire[w].asked # <<>>, NEW c \in 0..MaxChildren, NEW is \in SUBSET {"begun", "running"},
         Answers(w, Head(wire[w].asked), c, is)
  PROVE  DoorInv'
<1> DEFINE q == wire[w].asked
           h == Head(q)
           a == [name |-> h.name, stream |-> h.stream, child |-> c, is |-> is]
<1>1. wire[w] \in WireType /\ q \in Seq(Create) /\ wire[w].answers \in Seq(Answer) /\ h \in Create
  <2>1. wire[w] \in WireType /\ q \in Seq(Create) /\ wire[w].answers \in Seq(Answer)
    BY DEF WireOK, WireType
  <2> QED
    BY <2>1, HeadIs
<1>2. a \in Answer /\ a.name = h.name /\ h.name \in Names
  BY <1>1 DEF Create, Answer
<1>3. wire' = [wire EXCEPT ![w] = [wire[w] EXCEPT !.asked = Tail(@), !.answers = Append(@, a)]]
  BY DEF Answers, WireOK
<1>4. /\ wire'[w].asked = Tail(q) /\ wire'[w].answers = Append(wire[w].answers, a)
      /\ \A v \in Wires \ {w} : wire'[v] = wire[v]
  BY <1>1, <1>3 DEF WireOK, WireType
<1> HIDE DEF a
<1>5. \A n : Mentions(Tail(q), n) => Mentions(q, n)
  BY <1>1, MentionsLess
<1>6. \A n : Dull(wire'[w].answers, n) => Dull(wire[w].answers, n) \/ a.name = n
  BY <1>1, <1>2, <1>4, DullMore
<1>7. Mentions(q, h.name)
  BY <1>1, HeadTailProperties, EmptySeq, LenProperties DEF Mentions
<1>8. ASSUME NEW n \in Names, Unstarted(n)'
      PROVE  Unstarted(n)
  <2>1. CASE op[n].pc \in Starting \/ (op[n].pc = "answered" /\ "begun" \notin op[n].is)
    BY <2>1 DEF Unstarted
  <2>2. CASE op[n].pc = "asked" /\ \E v \in Wires : Mentions(wire'[v].asked, n) \/ Dull(wire'[v].answers, n)
    <3>1. PICK v \in Wires : Mentions(wire'[v].asked, n) \/ Dull(wire'[v].answers, n)
      BY <2>2
    <3>2. CASE v = w
      <4>1. Mentions(wire[w].asked, n) \/ Dull(wire[w].answers, n)
        BY <1>2, <1>4, <1>5, <1>6, <1>7, <3>1, <3>2
      <4> QED
        BY <2>2, <4>1 DEF Unstarted
    <3>3. CASE v # w
      BY <1>4, <2>2, <3>1, <3>3 DEF Unstarted
    <3> QED
      BY <3>2, <3>3
  <2> QED
    BY <1>8, <2>1, <2>2 DEF Unstarted
<1>9. \A n \in Names : op'[n].pc \in Inside => door' = n
  BY DEF DoorInv
<1> QED
  BY <1>8, <1>9, DoorKeeps

\* A process is begun for an open that waits past the door.
LEMMA SpawnRests ==
  ASSUME RunnerOK, WireOK, RestOK, DoorInv, CloseInv, NEW w \in Wires, Spawns(w)
  PROVE  DoorInv'
<1> DEFINE q == wire[w].asked
           h == Head(q)
<1>1. q # <<>> /\ wire[w] \in WireType /\ q \in Seq(Create) /\ wire[w].answers \in Seq(Answer)
  BY DEF Spawns, WireOK, WireType
<1>2. h \in Create /\ h.name \in Names
  BY <1>1, HeadIs DEF Create
<1>3. PICK is \in SUBSET {"running"} :
        /\ Answers(w, h, NextChild, is \cup {"begun"})
        /\ child' = [child EXCEPT ![NextChild].name = h.name, ![NextChild].lane = w, ![NextChild].stream = h.stream,
                       ![NextChild].st = IF is # {} THEN "running" ELSE "exited"]
        /\ history' = [history EXCEPT !.young = @ \cup {NextChild}]
  BY DEF Spawns
<1>4. PICK x \in Children : x = NextChild
  BY DEF Spawns
<1>5. UNCHANGED <<op, door>> /\ history'.young = history.young \cup {x} /\ history'.overdue = history.overdue
  BY <1>3, <1>4 DEF Spawns, RestOK
<1> DEFINE a == [name |-> h.name, stream |-> h.stream, child |-> x, is |-> is \cup {"begun"}]
<1>6. wire' = [wire EXCEPT ![w] = [wire[w] EXCEPT !.asked = Tail(@), !.answers = Append(@, a)]]
  BY <1>3, <1>4 DEF Answers, WireOK
<1>7. /\ wire'[w].asked = Tail(q) /\ wire'[w].answers = Append(wire[w].answers, a)
      /\ \A v \in Wires \ {w} : wire'[v] = wire[v]
  BY <1>1, <1>6 DEF WireOK, WireType
<1>8. a \in Answer /\ a.name = h.name /\ "begun" \in a.is
  BY <1>2, <1>4, Bounds DEF Create, Answer
<1> HIDE DEF a
<1>9. \A c \in Children \ {x} : child'[c] = child[c]
  BY <1>3, <1>4 DEF RunnerOK
<1>10. Mentions(q, h.name)
  BY <1>1, HeadTailProperties, EmptySeq, LenProperties DEF Mentions
<1>11. ASSUME history.overdue = {}
       PROVE  /\ door' # "open" /\ (\A n \in Names : ~Unstarted(n)')
              /\ \A c, d \in Young' : c = d
  <2>1. \A n \in Names, v \in Wires : OneAt(v, n)
    BY <1>11 DEF CloseInv, Lone
  <2>2. op[h.name].pc = "asked" /\ door = h.name
    BY <1>2, <1>10, <2>1 DEF OneAt, DoorInv, Inside
  <2>3. Young = {}
    BY <1>2, <1>10, <1>11, <2>2 DEF Unstarted, DoorInv
  <2>4. Young' \subseteq {x}
    BY <1>5, <1>9, <2>3 DEF Young, RestOK
  <2>5. ASSUME NEW n \in Names, Unstarted(n)'
        PROVE  FALSE
    <3>1. n = h.name
      BY <1>5, <2>2, <2>5 DEF Unstarted, DoorInv, Inside
    <3>2. PICK v \in Wires : Mentions(wire'[v].asked, n) \/ Dull(wire'[v].answers, n)
      BY <1>5, <2>2, <2>5, <3>1 DEF Unstarted, Starting
    <3>3. OneAt(v, n) /\ OneAt(w, n)
      BY <2>1
    <3>4. CASE v = w
      <4>1. ~Mentions(Tail(q), n)
        BY <1>1, <3>1, <3>3, MentionsLess DEF OneAt
      <4>2. Dull(wire[w].answers, n)
        BY <1>1, <1>7, <1>8, <3>2, <3>4, <4>1, DullMore
      <4> QED
        BY <1>10, <3>1, <3>3, <4>2, DullMentions DEF OneAt
    <3>5. CASE v # w
      <4>1. Mentions(wire[v].asked, n) \/ Mentions(wire[v].answers, n)
        BY <1>7, <3>2, <3>5, DullMentions
      <4> QED
        BY <1>10, <3>1, <3>3, <3>5, <4>1 DEF OneAt
    <3> QED
      BY <3>4, <3>5
  <2> QED
    BY <1>2, <1>5, <2>2, <2>4, <2>5, DoorNames
<1>12. \A n \in Names : op'[n].pc \in Inside => door' = n
  BY <1>5 DEF DoorInv
<1> QED
  BY <1>5, <1>11, <1>12 DEF DoorInv

\* Every step keeps the door's promise.
LEMMA DoorStep ==
  ASSUME RunnerOK, WireOK, ClientOK, OpOK, RestOK, CloseInv, DoorInv, Next
  PROVE  DoorInv'
<1>1. ASSUME NEW n \in Names, OpenBegins(n) PROVE DoorInv'
  <2>1. op'[n].pc = "door" /\ \A m \in Names \ {n} : op'[m] = op[m]
    BY <1>1 DEF OpenBegins, Goes, OpOK, OpType
  <2>2. UNCHANGED <<child, wire, door, history>>
    BY <1>1 DEF OpenBegins, runnerVars
  <2> QED
    BY <2>1, <2>2, DoorOutside DEF Inside, Starting, Young
<1>2. ASSUME NEW n \in Names, PassesDoor(n) PROVE DoorInv'
  <2>1. op'[n].pc = "wire" /\ \A m \in Names \ {n} : op'[m] = op[m]
    BY <1>2 DEF PassesDoor, Goes, OpOK, OpType
  <2>2. UNCHANGED <<child, wire, history>> /\ door = "open" /\ door' = n
    BY <1>2 DEF PassesDoor, runnerVars
  <2>3. \A m \in Names : op'[m].pc \in Inside => door' = m
    BY <2>1, <2>2, DoorNames DEF DoorInv
  <2> QED
    BY <2>2, <2>3, DoorKeeps DEF Young
<1>3. ASSUME NEW n \in Names, WaitsNoLonger(n) PROVE DoorInv'
  <2>1. op'[n].pc = "idle" /\ \A m \in Names \ {n} : op'[m] = op[m]
    BY <1>3 DEF WaitsNoLonger, Returns, NoOp, OpOK
  <2>2. UNCHANGED <<child, wire, door, history>>
    BY <1>3 DEF WaitsNoLonger, runnerVars
  <2> QED
    BY <2>1, <2>2, DoorOutside DEF Inside, Starting, Young
<1>4. ASSUME NEW n \in Names, TakesWire(n) PROVE DoorInv'
  <2>1. op[n].pc = "wire" /\ op'[n].pc = "register" /\ (\A m \in Names \ {n} : op'[m] = op[m]) /\ UNCHANGED <<door, history>>
    BY <1>4 DEF TakesWire, At, OpOK, OpType
  <2>2. \A c \in Children : child'[c].st = "running" => child[c].st = "running"
    <3>1. \A c \in Children : child'[c] \in {child[c], Gone(c)}
      BY <1>4 DEF TakesWire, ServesFresh
    <3> QED
      BY <3>1, GoneStays
  <2>3. Young' \subseteq Young
    BY <2>1, <2>2, YoungLess
  <2>4. \A m \in Names : op'[m].pc \in Inside => door' = m
    BY <2>1 DEF DoorInv, Inside, Starting
  <2>5. Unstarted(n)
    BY <2>1 DEF Unstarted, Starting
  <2> QED
    BY <2>1, <2>3, <2>4, <2>5, DoorKeeps
<1>5. ASSUME NEW n \in Names, FindsNoRunner(n) PROVE DoorInv'
  <2>1. op'[n].pc = "idle" /\ (\A m \in Names \ {n} : op'[m] = op[m]) /\ op[n].pc = "wire" /\ door' = "spacing"
    BY <1>5 DEF FindsNoRunner, Returns, NoOp, OpOK, At
  <2>2. UNCHANGED <<child, wire>> /\ history'.overdue = history.overdue /\ history'.young = history.young
    BY <1>5, OverdueStays, YoungStays DEF FindsNoRunner, runnerVars
  <2>3. Young' \subseteq Young
    BY <2>2, YoungLess
  <2>4. \A m \in Names : op'[m].pc \notin Inside
    BY <2>1 DEF DoorInv, Inside, Starting
  <2> QED
    BY <2>1, <2>2, <2>3, <2>4, DoorRests DEF Inside
<1>6. ASSUME NEW n \in Names, Registers(n) PROVE DoorInv'
  <2>1. op[n].pc = "register" /\ op'[n].pc = "write" /\ (\A m \in Names \ {n} : op'[m] = op[m])
    BY <1>6 DEF Registers, At, OpOK, OpType
  <2>2. UNCHANGED <<child, history, door>>
    BY <1>6 DEF Registers, runnerVars
  <2>3. \A m \in Names : op'[m].pc \in Inside => door' = m
    BY <2>1, <2>2 DEF DoorInv, Inside, Starting
  <2>4. Unstarted(n)
    BY <2>1 DEF Unstarted, Starting
  <2> QED
    BY <2>2, <2>3, <2>4, DoorKeeps DEF Young
<1>7. ASSUME NEW n \in Names, Writes(n) PROVE DoorInv'
  <2>1. op[n].pc = "write" /\ (\A m \in Names \ {n} : op'[m] = op[m])
    BY <1>7 DEF Writes, At, Goes, OpOK
  <2>2. UNCHANGED <<child, history, door>>
    BY <1>7 DEF Writes, runnerVars
  <2>3. \A m \in Names : op'[m].pc \in Inside => door' = m
    BY <2>1, <2>2 DEF DoorInv, Inside, Starting
  <2>4. Unstarted(n)
    BY <2>1 DEF Unstarted, Starting
  <2> QED
    BY <2>2, <2>3, <2>4, DoorKeeps DEF Young
<1>8. ASSUME NEW n \in Names, GivesUp(n) PROVE DoorInv'
  <2>1. op[n].pc = "asked" /\ op'[n].pc = "failed" /\ (\A m \in Names \ {n} : op'[m] = op[m])
    BY <1>8 DEF GivesUp, At, Goes, OpOK, OpType
  <2>2. UNCHANGED <<child, wire, door>> /\ n \in history'.overdue /\ history'.young = history.young
    BY <1>8, OverdueStays, YoungStays DEF GivesUp, runnerVars
  <2>3. Young' \subseteq Young
    BY <2>2, YoungLess
  <2>4. \A m \in Names : op'[m].pc \in Inside => door' = m
    BY <2>1, <2>2 DEF DoorInv, Inside, Starting
  <2> QED
    BY <2>2, <2>3, <2>4, DoorKeeps
<1>9. ASSUME NEW n \in Names, OpenFails(n) PROVE DoorInv'
  <2>1. op'[n].pc = "idle" /\ (\A m \in Names \ {n} : op'[m] = op[m]) /\ op[n].pc = "failed" /\ door' = "spacing"
    BY <1>9 DEF OpenFails, Returns, NoOp, OpOK, At
  <2>2. UNCHANGED <<child, wire, history>>
    BY <1>9 DEF OpenFails, runnerVars
  <2>3. \A m \in Names : op'[m].pc \notin Inside
    BY <2>1 DEF DoorInv, Inside, Starting
  <2> QED
    BY <2>1, <2>2, <2>3, DoorRests DEF Inside, Young
<1>10. ASSUME NEW n \in Names, Opened(n) PROVE DoorInv'
  <2>1. op'[n].pc = "idle" /\ (\A m \in Names \ {n} : op'[m] = op[m]) /\ op[n].pc = "answered"
    BY <1>10 DEF Opened, Returns, NoOp, OpOK, At
  <2>2. UNCHANGED <<child, wire, history>> /\ (door' = "open" => "begun" \notin op[n].is)
    BY <1>10 DEF Opened, runnerVars
  <2>3. \A m \in Names : op'[m].pc \notin Inside
    BY <2>1 DEF DoorInv, Inside, Starting
  <2>4. \A m \in Names : ~Unstarted(m)'
    BY <2>3 DEF Unstarted, Inside
  <2>5. door' = "open" => Unstarted(n)
    BY <2>1, <2>2 DEF Unstarted
  <2> QED
    BY <2>2, <2>3, <2>4, <2>5, DoorKeeps DEF Young
<1>11. ASSUME NEW n \in Names, CloseBegins(n) PROVE DoorInv'
  <2>1. op'[n].pc = "close" /\ \A m \in Names \ {n} : op'[m] = op[m]
    BY <1>11 DEF CloseBegins, Goes, OpOK, OpType
  <2>2. UNCHANGED <<child, wire, door, history>>
    BY <1>11 DEF CloseBegins, runnerVars
  <2> QED
    BY <2>1, <2>2, DoorOutside DEF Inside, Starting, Young
<1>12. ASSUME NEW n \in Names, CloseConnects(n) PROVE DoorInv'
  <2>1. op'[n].pc \in {"idle", "closing"} /\ \A m \in Names \ {n} : op'[m] = op[m]
    BY <1>12 DEF CloseConnects, Goes, Returns, NoOp, OpOK, OpType
  <2>2. UNCHANGED <<child, wire, door, history>>
    BY <1>12 DEF CloseConnects, runnerVars
  <2> QED
    BY <2>1, <2>2, DoorOutside DEF Inside, Starting, Young
<1>13. ASSUME NEW n \in Names, CloseKills(n) PROVE DoorInv'
  <2>1. op'[n].pc \in {"idle", "killing"} /\ (\A m \in Names \ {n} : op'[m] = op[m]) /\ UNCHANGED <<wire, door, history>>
    BY <1>13 DEF CloseKills, Returns, NoOp, OpOK, OpType
  <2>2. \A c \in Children : child'[c].st = child[c].st
    <3>1. \A c \in Children : child'[c] \in {child[c], Ordered(c)}
      BY <1>13, Bounds DEF CloseKills, RunnerOK, Children
    <3> QED
      BY <3>1, OrderedStays
  <2>3. Young' \subseteq Young
    BY <2>1, <2>2, YoungLess
  <2>4. \A m \in Names : op'[m].pc \in Inside => door' = m
    BY <2>1 DEF DoorInv, Inside, Starting
  <2>5. \A m \in Names : op'[m].pc \in Starting \cup {"asked", "answered"} => op'[m] = op[m]
    BY <2>1 DEF Starting
  <2> QED
    BY <2>1, <2>3, <2>4, <2>5, DoorRests
<1>14. ASSUME NEW n \in Names, CloseEnds(n) PROVE DoorInv'
  <2>1. op'[n].pc = "idle" /\ \A m \in Names \ {n} : op'[m] = op[m]
    BY <1>14 DEF CloseEnds, Returns, NoOp, OpOK
  <2>2. UNCHANGED <<child, wire, door, history>>
    BY <1>14 DEF CloseEnds
  <2> QED
    BY <2>1, <2>2, DoorOutside DEF Inside, Starting, Young
<1>15. ASSUME NEW n \in Names, CloseGivesUp(n) PROVE DoorInv'
  <2>1. op'[n].pc = "idle" /\ \A m \in Names \ {n} : op'[m] = op[m]
    BY <1>15 DEF CloseGivesUp, Returns, NoOp, OpOK
  <2>2. UNCHANGED <<child, wire, door>> /\ n \in history'.overdue /\ history'.young = history.young
    BY <1>15, OverdueStays, YoungStays DEF CloseGivesUp, runnerVars
  <2>3. Young' \subseteq Young
    BY <2>2, YoungLess
  <2> QED
    BY <2>1, <2>2, <2>3, DoorOutside DEF Inside, Starting
<1>16. ASSUME DoorOpens PROVE DoorInv'
  <2>1. door = "spacing" /\ UNCHANGED <<child, op>> /\ history'.young = {} /\ history'.overdue = history.overdue
    BY <1>16, YoungStays, OverdueStays DEF DoorOpens, runnerVars
  <2>2. Young' = {}
    BY <2>1 DEF Young
  <2>3. \A m \in Names : op'[m].pc \notin Inside
    BY <2>1, DoorNames DEF DoorInv
  <2> QED
    BY <2>2, <2>3 DEF DoorInv
<1>17. ASSUME NEW w \in Wires, RoutesAnswer(w) PROVE DoorInv'
  <2> DEFINE a == Head(wire[w].answers)
  <2>1. UNCHANGED <<child, history, door>> /\ wire[w].answers # <<>> /\ wire' = [wire EXCEPT ![w].answers = Tail(@)]
    BY <1>17 DEF RoutesAnswer, runnerVars
  <2>2. wire[w] \in WireType /\ wire[w].answers \in Seq(Answer)
    BY DEF WireOK, WireType
  <2>3. a \in Answer /\ a.name \in Names
    BY <2>1, <2>2, HeadIs DEF Answer
  <2>4. wire' = [wire EXCEPT ![w] = [wire[w] EXCEPT !.answers = Tail(@)]]
    BY <2>1 DEF WireOK
  <2>5. wire'[w].asked = wire[w].asked /\ wire'[w].answers = Tail(wire[w].answers) /\ \A v \in Wires \ {w} : wire'[v] = wire[v]
    BY <2>2, <2>4 DEF WireOK, WireType
  <2>6. /\ \A m \in Names \ {a.name} : op'[m] = op[m]
        /\ \/ op'[a.name] = op[a.name]
           \/ op[a.name].pc = "asked" /\ op'[a.name].pc = "failed"
           \/ op[a.name].pc = "asked" /\ op'[a.name].pc = "answered" /\ op'[a.name].is = a.is
    <3>1. CASE UNCHANGED op
      BY <3>1
    <3>2. CASE At(a.name, "asked") /\ Goes(a.name, "failed")
      BY <2>3, <3>2 DEF Goes, OpOK, OpType, At
    <3>3. CASE At(a.name, "asked") /\ op' = [op EXCEPT ![a.name].pc = "answered", ![a.name].child = a.child, ![a.name].is = a.is]
      <4> DEFINE to == [op[a.name] EXCEPT !.pc = "answered", !.child = a.child, !.is = a.is]
      <4>1. op' = [op EXCEPT ![a.name] = to]
        BY <2>3, <3>3 DEF OpOK
      <4>2. to.pc = "answered" /\ to.is = a.is
        BY <2>3 DEF OpOK, OpType
      <4> QED
        BY <2>3, <3>3, <4>1, <4>2 DEF OpOK, At
    <3> QED
      BY <1>17, <3>1, <3>2, <3>3 DEF RoutesAnswer
  <2>7. \A m \in Names : op'[m].pc \in Inside => door' = m
    BY <2>1, <2>3, <2>6 DEF DoorInv, Inside
  <2>8. \A n : /\ Dull(Tail(wire[w].answers), n) => Dull(wire[w].answers, n)
               /\ a.name = n /\ "begun" \notin a.is => Dull(wire[w].answers, n)
    BY <2>1, <2>2, DullLess
  <2>9. ASSUME NEW n \in Names, Unstarted(n)'
        PROVE  Unstarted(n)
    <3>1. CASE n = a.name /\ op'[n] # op[n]
      <4>1. op[n].pc = "asked" /\ Dull(wire[w].answers, n)
        BY <2>6, <2>8, <2>9, <3>1 DEF Unstarted, Starting
      <4> QED
        BY <4>1 DEF Unstarted
    <3>2. CASE op'[n] = op[n]
      <4>1. \A v \in Wires : Mentions(wire'[v].asked, n) \/ Dull(wire'[v].answers, n) =>
              Mentions(wire[v].asked, n) \/ Dull(wire[v].answers, n)
        BY <2>5, <2>8
      <4> QED
        BY <2>9, <3>2, <4>1 DEF Unstarted
    <3> QED
      BY <2>6, <3>1, <3>2
  <2> QED
    BY <2>1, <2>7, <2>9, DoorKeeps DEF Young
<1>18. ASSUME NEW w \in Wires, RoutesExit(w) PROVE DoorInv'
  <2>1. UNCHANGED <<child, op, door>> /\ history'.overdue = history.overdue /\ history'.young = history.young
    BY <1>18, OverdueStays, YoungStays DEF RoutesExit, runnerVars
  <2>2. wire' = [wire EXCEPT ![w] = [wire[w] EXCEPT !.lane = Tail(@)]]
    BY <1>18 DEF RoutesExit, WireOK
  <2>3. \A v \in Wires : wire'[v].asked = wire[v].asked /\ wire'[v].answers = wire[v].answers
    BY <2>2 DEF WireOK, WireType
  <2> QED
    BY <2>1, <2>3, DoorStill DEF Young
<1>19. ASSUME NEW w \in Wires, WireEnds(w) PROVE DoorInv'
  <2>1. UNCHANGED <<child, door, history>>
        /\ wire' = [wire EXCEPT ![w] = [st |-> "over", asked |-> <<>>, answers |-> <<>>, lane |-> <<>>]]
        /\ op' = [n \in Names |-> IF At(n, "asked") /\ op[n].wire = w THEN [op[n] EXCEPT !.pc = "failed"] ELSE op[n]]
    BY <1>19 DEF WireEnds, runnerVars
  <2>2. \A v \in Wires : wire'[v].asked \in {wire[v].asked, <<>>} /\ wire'[v].answers \in {wire[v].answers, <<>>}
    BY <2>1 DEF WireOK
  <2>3. \A n \in Names : op'[n] = op[n] \/ (op[n].pc = "asked" /\ op'[n].pc = "failed")
    BY <2>1 DEF At, OpOK, OpType
  <2>4. \A n \in Names : op'[n].pc \in Inside => door' = n
    BY <2>1, <2>3 DEF DoorInv, Inside
  <2>5. \A n \in Names : op'[n].pc \in Starting \cup {"asked", "answered"} => op'[n] = op[n]
    BY <2>3 DEF Starting
  <2> QED
    BY <2>1, <2>2, <2>4, <2>5, DoorRests DEF Young
<1>20. ASSUME NEW s \in Streams, Reads(s) \/ FindsEnd(s) \/ LetsGo(s) PROVE DoorInv'
  <2>1. UNCHANGED <<child, wire, op, door, history>>
    BY <1>20 DEF Reads, FindsEnd, LetsGo, runnerVars
  <2> QED
    BY <2>1, DoorStill DEF Young
<1>21. ASSUME NEW w \in Wires, Refuses(w) PROVE DoorInv'
  <2>1. UNCHANGED <<child, op, door, history>> /\ wire[w].asked # <<>> /\ Answers(w, Head(wire[w].asked), 0, {})
    BY <1>21 DEF Refuses
  <2>2. 0 \in 0..MaxChildren /\ {} \in SUBSET {"begun", "running"}
    BY Bounds
  <2> QED
    BY <2>1, <2>2, AnswerRests DEF Young
<1>22. ASSUME NEW w \in Wires, Attaches(w) PROVE DoorInv'
  <2> DEFINE q == Head(wire[w].asked)
  <2>1. wire[w].asked # <<>> /\ q \in Create
    BY <1>22, HeadIs DEF Attaches, WireOK, WireType
  <2>2. PICK is \in SUBSET {"running"} :
          /\ Runs(q.name) /\ Answers(w, q, registry[q.name], is)
          /\ child' = [child EXCEPT ![registry[q.name]].lane = w, ![registry[q.name]].stream = q.stream,
                         ![registry[q.name]].st = IF is # {} THEN @ ELSE "exited"]
    BY <1>22 DEF Attaches
  <2>3. registry[q.name] \in Children /\ registry[q.name] \in 0..MaxChildren /\ UNCHANGED <<op, door, history>>
    <3>1. registry[q.name] \in 0..MaxChildren /\ registry[q.name] # 0
      BY <2>1, <2>2 DEF RunnerOK, Create, Runs
    <3>2. UNCHANGED <<op, door, history>>
      BY <1>22 DEF Attaches
    <3> QED
      BY <3>1, <3>2, Bounds DEF Children
  <2>4. \A c \in Children : child'[c].st = "running" => child[c].st = "running"
    BY <2>1, <2>2, <2>3 DEF RunnerOK, Runs
  <2>5. Young' \subseteq Young
    BY <2>3, <2>4, YoungLess
  <2>6. is \in SUBSET {"begun", "running"}
    OBVIOUS
  <2> QED
    BY <2>1, <2>2, <2>3, <2>5, <2>6, AnswerRests
<1>23. ASSUME NEW w \in Wires, Spawns(w) PROVE DoorInv'
  BY <1>23, SpawnRests
<1>24. ASSUME NEW c \in Children, Exits(c) \/ SaysExit(c) \/ OrphanEnds(c) PROVE DoorInv'
  <2>1. UNCHANGED <<op, door, history>>
    BY <1>24 DEF Exits, SaysExit, OrphanEnds
  <2>2. \A d \in Children : child'[d].st = "running" => child[d].st = "running"
    BY <1>24, GoneStays DEF Exits, SaysExit, OrphanEnds, RunnerOK, ChildType
  <2>3. Young' \subseteq Young
    BY <2>1, <2>2, YoungLess
  <2>4. \A v \in Wires : wire'[v].asked = wire[v].asked /\ wire'[v].answers = wire[v].answers
    <3> DEFINE e == [name |-> child[c].name, stream |-> child[c].stream]
    <3>1. UNCHANGED wire \/ wire' = [wire EXCEPT ![child[c].lane].lane = Append(@, e)]
      BY <1>24 DEF Exits, SaysExit, OrphanEnds, SaysEnd
    <3> HIDE DEF e
    <3>2. \A v \in Wires : wire'[v] \in {wire[v], [wire[v] EXCEPT !.lane = Append(wire[v].lane, e)]}
      BY <3>1 DEF WireOK
    <3> QED
      BY <3>2 DEF WireOK, WireType
  <2> QED
    BY <2>1, <2>3, <2>4, DoorStill
<1>25. ASSUME ConnectionDrops PROVE DoorInv'
  <2>1. UNCHANGED <<op, door>> /\ history'.overdue = history.overdue /\ history'.young = history.young
    BY <1>25, OverdueStays, YoungStays DEF ConnectionDrops
  <2>2. \A d \in Children : child'[d] \in {child[d], [child[d] EXCEPT !.lane = 0]}
    BY <1>25 DEF ConnectionDrops
  <2>3. \A d \in Children : child'[d].st = child[d].st
    BY <2>2 DEF RunnerOK, ChildType
  <2>4. Young' \subseteq Young
    BY <2>1, <2>3, YoungLess
  <2>5. slot \in Wires /\ Closes(slot)
    BY <1>25, UpIs DEF ConnectionDrops, ClientOK
  <2> QED
    BY <2>1, <2>4, <2>5, ClosesThins, DoorStill
<1>26. ASSUME RunnerExits \/ RunnerCrashes PROVE DoorInv'
  <2>1. UNCHANGED door /\ history'.overdue = history.overdue /\ history'.young = history.young
    BY <1>26, OverdueStays, YoungStays DEF RunnerExits, RunnerCrashes, RunnerGone
  <2>2. op' = [n \in Names |-> IF op[n].pc \in {"closing", "killing"} THEN NoOp ELSE op[n]]
    BY <1>26 DEF RunnerExits, RunnerCrashes, RunnerGone
  <2>3. \A n \in Names : op'[n].pc \in Inside => op'[n] = op[n]
    BY <2>2 DEF NoOp, Inside, Starting
  <2>4. \A w \in Wires : wire'[w].asked \in {wire[w].asked, <<>>} /\ wire'[w].answers = wire[w].answers
    <3>1. CASE UNCHANGED wire
      BY <3>1
    <3>2. CASE Up(slot) /\ Closes(slot)
      BY <3>2, UpIs, ClosesThins DEF ClientOK
    <3> QED
      BY <1>26, <3>1, <3>2 DEF RunnerExits, RunnerCrashes, RunnerGone
  <2>5. \A c \in Children : child'[c].st = "running" => child[c].st = "running"
    <3>1. ASSUME NEW c \in Children, child'[c].st = "running"
          PROVE  child[c].st = "running"
      <4>1. child[c] \in ChildType
        BY DEF RunnerOK
      <4>2. CASE child[c].st = "exited"
        BY <1>26, <3>1, <4>2, GoneStays DEF RunnerExits, RunnerCrashes
      <4>3. CASE child[c].st \notin {"running", "exited"}
        BY <1>26, <3>1, <4>3 DEF RunnerExits, RunnerCrashes
      <4> QED
        BY <4>2, <4>3
    <3> QED
      BY <3>1
  <2>6. Young' \subseteq Young
    BY <2>1, <2>5, YoungLess
  <2>7. \A n \in Names : op'[n].pc \in Inside => door' = n
    BY <2>1, <2>3 DEF DoorInv
  <2> QED
    BY <2>1, <2>3, <2>4, <2>6, <2>7, DoorRests DEF Inside
<1>27. ASSUME RestartBegins \/ RestartStops \/ RestartServes \/ RestartGivesUp PROVE DoorInv'
  <2>1. UNCHANGED <<op, wire, door>> /\ history'.overdue = history.overdue /\ history'.young = history.young
    BY <1>27, OverdueStays, YoungStays DEF RestartBegins, RestartStops, RestartServes, RestartGivesUp
  <2>2. \A c \in Children : child'[c] \in {child[c], Ordered(c), Gone(c)}
    BY <1>27 DEF RestartBegins, RestartStops, RestartServes, RestartGivesUp, ServesFresh, runnerVars
  <2>3. \A c \in Children : child'[c].st = "running" => child[c].st = "running"
    BY <2>2, OrderedStays, GoneStays
  <2>4. Young' \subseteq Young
    BY <2>1, <2>3, YoungLess
  <2> QED
    BY <2>1, <2>4, DoorStill
<1> QED
  BY <1>1, <1>2, <1>3, <1>4, <1>5, <1>6, <1>7, <1>8, <1>9, <1>10, <1>11, <1>12, <1>13, <1>14,
     <1>15, <1>16, <1>17, <1>18, <1>19, <1>20, <1>21, <1>22, <1>23, <1>24, <1>25, <1>26, <1>27
  DEF Next, Open, Close, Route, Reader, Run, Restart

\* At first nothing was begun.
LEMMA InitDoor == Init => DoorInv
<1> SUFFICES ASSUME Init PROVE DoorInv
  OBVIOUS
<1>1. \A n \in Names : op[n].pc = "idle"
  BY DEF Init, NoOp
<1>2. Young = {}
  BY DEF Init, Young
<1> QED
  BY <1>1, <1>2 DEF DoorInv, Inside, Starting

\* A stuttering step.
LEMMA DoorStutters == ASSUME DoorInv, UNCHANGED vars PROVE DoorInv'
<1>1. UNCHANGED <<op, door, wire, child, history>>
  BY DEF vars, runnerVars
<1> QED
  BY <1>1, DoorStill DEF Young

\* Of at most one there is at most one.
LEMMA OneYoung ==
  ASSUME RestOK, DoorInv
  PROVE  OneYoungStart
<1> SUFFICES ASSUME history.overdue = {} PROVE Cardinality(Young) <= 1
  BY DEF OneYoungStart, Young
<1>1. CASE Young = {}
  BY <1>1, FS_EmptySet
<1>2. CASE Young # {}
  <2>1. PICK c \in Young : TRUE
    BY <1>2
  <2>2. Young = {c}
    BY <2>1 DEF DoorInv
  <2>3. Cardinality(Young) = 1
    BY <2>2, FS_Singleton
  <2> QED
    BY <2>3
<1> QED
  BY <1>1, <1>2

(* Claude processes begun less than the door's two seconds ago never run   *)
(* two at a time (StartGate, starting.rs), also when the answer to a start *)
(* was lost: an open that failed counts as a start.  Excepted: once a      *)
(* request was given up on, the runner may carry it out at any time.       *)
THEOREM StartsAreSpaced == Spec => []OneYoungStart
<1>1. ASSUME TypeInv, CloseInv, DoorInv, [Next]_vars
      PROVE  (CloseInv /\ DoorInv)'
  <2>1. CASE Next
    BY <1>1, <2>1, CloseStep, DoorStep DEF TypeInv
  <2>2. CASE UNCHANGED vars
    BY <1>1, <2>2, CloseStutters, DoorStutters
  <2> QED
    BY <1>1, <2>1, <2>2
<1>2. TypeInv /\ DoorInv => OneYoungStart
  BY OneYoung DEF TypeInv
<1> QED
  BY <1>1, <1>2, InitCloses, InitDoor, TypesHold, PTL DEF Spec
===============================================================================
