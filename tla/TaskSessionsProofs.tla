------------------------- MODULE TaskSessionsProofs -------------------------
(***************************************************************************)
(* Proofs about TaskSessions, for every value of its constants: any number *)
(* of viewers, turns, connections, waiting reports and faults.             *)
(***************************************************************************)
EXTENDS TaskSessions, WellFoundedInduction, TLAPS

-----------------------------------------------------------------------------
(* Types.                                                                  *)

Agents == [begun : TurnOrNone, doing : TurnOrNone, busy : BOOLEAN, work : 0..MaxWork]
Links == [up : BOOLEAN, conn : Generations, watched : BOOLEAN, late : SUBSET {"reports", "turns"}]
Lives == {"Unloaded", "Subscribing", "Subscribed", "Unsubscribing", "Error"}
Entries == [life : Lives, gen : 0..MaxGeneration, conv : Status, pending : Status, page : Pages,
            active : TurnOrNone, cand : TurnOrNone, runtime : BOOLEAN, retained : BOOLEAN]
Ops == [pc : {"idle", "calling", "reading", "answered", "refused"},
        gen : Generations, snap : Status, page : Pages, kept : BOOLEAN]
Cmds == [role : {"none", "bootstrap", "prompt", "stop", "recover"},
         pc : {"idle", "ensuring", "prepare", "resuming", "refreshing", "locate", "seek",
               "sought", "steer", "start", "record", "accept", "interrupt", "reading"},
         gen : Generations, ret : {"none", "ok", "failed"},
         seen : Status, turn : TurnOrNone, page : Pages, tried : BOOLEAN]
Tasks == {"op", "cmd"}

\* What a sequence holds.
In(s) == {s[i] : i \in DOMAIN s}

\* A report of a turn names it.
Named(r) == r.k \in {"started", "ended"} => r.t # 0

AgentType == /\ kind \in Kinds /\ agent \in Agents /\ observer \subseteq Generations
             /\ link \in Links /\ (link.up \/ link.conn < MaxGeneration)
ChanType == /\ chan \in [Generations -> Seq(Report)]
            /\ \A g \in Generations : \A r \in In(chan[g]) : Named(r)
ViewType == /\ restore \in {"none", "listing", "opening", "loaded"}
            /\ viewers \in 0..MaxViewers /\ boots \in 0..MaxViewers
EntryType == /\ entry \in Entries /\ op \in Ops
             /\ entry.gen = 0 => entry.life = "Unloaded" /\ op.pc = "idle"
LineType == line \in Seq(Request) /\ (op.pc # "idle" => line # <<>>)
MovedType == moved \in [Tasks -> SUBSET Marks]
FaultType == faults \in Seq({"exit", "call", "lag"}) /\ Len(faults) <= MaxFaults

Types == /\ AgentType /\ ChanType /\ ViewType /\ EntryType /\ LineType
         /\ cmd \in Cmds /\ MovedType /\ FaultType

-----------------------------------------------------------------------------
(* The inductive invariant.                                                *)

\* Who holds the operation lock, and on which connection.
Opening == op.pc # "idle" /\ req.kind \in Opens
Closing == op.pc # "idle" /\ req.kind = "Close"
Unmoved == "epoch" \notin moved["op"]
LineInv ==
  /\ op.pc \in {"idle", "calling", "reading"} => op.page = NoPage
  /\ op.pc = "reading" => Opening
  /\ entry.gen <= link.conn /\ op.gen <= link.conn /\ cmd.gen <= link.conn
  /\ \A r \in In(line) : r.gen <= link.conn
  /\ Opening => entry.gen = op.gen
  /\ Closing => entry.life # "Subscribed"
  /\ kind = "claude" => link.up /\ link.conn = 1

\* A half-made effect belongs to the holder of the lock, and the state is as it left it.
EffectInv == ~Met("lag") =>
  /\ entry.life = "Subscribing" => Opening /\ ~op.kept /\ Unmoved
  /\ entry.life = "Unsubscribing" => Closing /\ Unmoved

\* A session that is subscribed, or about to be, is reported, or about to learn that it is not.
CloseTold == kind = "claude" /\ \E r \in In(chan[1]) : r.k = "closed"
Heard == link.watched \/ ~link.up \/ CloseTold \/ (Met("exit") /\ Met("lag"))
WatchInv ==
  /\ CloseTold => Met("exit")
  /\ Watching => Heard
  /\ op.pc \in {"reading", "answered"} /\ Opening /\ Unmoved /\ op.gen = link.conn => Heard

\* Whatever says that a turn ended is right; a page that still has it running was
\* read before the session was told.
Ended(t) == t <= agent.begun /\ agent.doing # t
SaidEnded(t) == \E g \in Generations : \E r \in In(chan[g]) : r.k = "ended" /\ r.t = t
EndInv ==
  /\ agent.doing <= agent.begun
  /\ \A t \in Turns :
       /\ entry.page[t] = "done" \/ op.page[t] = "done" \/ cmd.page[t] = "done" \/ SaidEnded(t) => Ended(t)
       /\ op.page[t] = "running" /\ entry.page[t] = "done" => "revision" \in moved["op"]

Inv == LineInv /\ EffectInv /\ WatchInv /\ EndInv

-----------------------------------------------------------------------------
(* The session's state, function by function.                              *)

\* The least of a set of numbers.
LEMMA LeastExists ==
  ASSUME NEW S \in SUBSET Nat, S # {}
  PROVE  \E x \in S : \A y \in S : x <= y
<1>1. S \subseteq Nat /\ S # {}
  OBVIOUS
<1>2. PICK x \in S : \A y \in S : ~(<<y, x>> \in OpToRel(<, Nat))
  BY <1>1, WFMin, NatLessThanWellFounded, Zenon
<1>3. \A y \in S : ~(y < x)
  BY <1>1, <1>2, Zenon DEF OpToRel
<1>4. ASSUME NEW y \in S PROVE x <= y
  <2>1. x \in Nat /\ y \in Nat /\ ~(y < x)
    BY <1>3
  <2>2. QED
    BY <2>1
<1>5. QED
  BY <1>4

\* Newest is the greatest of a set of turns, so the set has it.
LEMMA NewestType ==
  ASSUME NEW S \in SUBSET Turns
  PROVE  Newest(S) \in TurnOrNone /\ (S # {} => Newest(S) \in S)
<1>0. MaxTurns \in Nat /\ \A t \in S : t \in Nat /\ t <= MaxTurns
  BY InstanceAssumption DEF Turns
<1>1. CASE S = {}
  BY <1>0, <1>1 DEF Newest, TurnOrNone
<1>2. CASE S # {}
  <2> DEFINE R == {MaxTurns - t : t \in S}
  <2>1. R \in SUBSET Nat /\ R # {}
    <3>1. \A t \in S : MaxTurns - t \in Nat
      BY <1>0
    <3>2. QED
      BY <3>1, <1>2
  <2>2. PICK m \in R : \A x \in R : m <= x
    BY <2>1, LeastExists
  <2>3. PICK t \in S : m = MaxTurns - t
    OBVIOUS
  <2>4. \A u \in S : u <= t
    <3> TAKE u \in S
    <3>1. m <= MaxTurns - u
      BY <2>2
    <3>2. QED
      BY <1>0, <2>3, <3>1
  <2>5. Newest(S) \in S
    BY <1>2, <2>4 DEF Newest
  <2>6. QED
    BY <1>0, <2>5 DEF Turns, TurnOrNone
<1>3. QED
  BY <1>1, <1>2

LEMMA TurnFacts ==
  /\ MaxTurns \in Nat /\ 0 \in TurnOrNone /\ Turns \subseteq TurnOrNone
  /\ \A t \in TurnOrNone : t # 0 => t \in Turns
BY InstanceAssumption DEF Turns, TurnOrNone

LEMMA RunningType ==
  ASSUME NEW page \in Pages, NEW s
  PROVE  /\ ActiveOf(s, page) \in TurnOrNone /\ RunningIn(page) \in TurnOrNone
         /\ RunningIn(page) # 0 => page[RunningIn(page)] = "running"
<1> DEFINE S == {t \in Turns : page[t] = "running"}
<1>1. Newest(S) \in TurnOrNone /\ (S # {} => Newest(S) \in S)
  BY NewestType
<1>2. S = {} => Newest(S) = 0
  BY DEF Newest
<1>3. QED
  BY <1>1, <1>2, TurnFacts DEF ActiveOf, RunningIn

LEMMA FirstRunningType ==
  ASSUME NEW page \in Pages, NEW a \in TurnOrNone, NEW b \in TurnOrNone
  PROVE  FirstRunning(page, a, b) \in TurnOrNone
BY TurnFacts DEF FirstRunning

\* Whatever a page becomes, the turns that ended stay.
KeepsDone(old, new) == \A t \in Turns : old[t] = "done" => new[t] = "done"

\* A page of turns read into another keeps the turns that ended.
LEMMA MergeFacts ==
  ASSUME NEW page \in Pages, NEW read \in Pages
  PROVE  /\ Merge(page, read) \in Pages
         /\ KeepsDone(page, Merge(page, read))
         /\ \A t \in Turns : Merge(page, read)[t] = "done" => page[t] = "done" \/ read[t] = "done"
<1>1. \A t \in Turns : Merge(page, read)[t] = IF read[t] = "none" THEN page[t]
         ELSE IF page[t] = "done" /\ read[t] = "running" THEN page[t] ELSE read[t]
  BY DEF Merge
<1>2. Merge(page, read) \in Pages
  BY DEF Merge, Pages
<1>3. QED
  BY <1>1, <1>2 DEF Pages, KeepsDone

LEMMA UpsertFacts ==
  ASSUME NEW page \in Pages, NEW t \in TurnOrNone
  PROVE  /\ Upsert(page, t, "running") \in Pages /\ KeepsDone(page, Upsert(page, t, "running"))
         /\ Upsert(page, t, "done") \in Pages /\ KeepsDone(page, Upsert(page, t, "done"))
         /\ \A u \in Turns : Upsert(page, t, "running")[u] = "done" => page[u] = "done"
         /\ \A u \in Turns : Upsert(page, t, "done")[u] = "done" => page[u] = "done" \/ t = u
<1>1. CASE t = 0
  <2>1. t \notin Turns
    BY <1>1 DEF Turns
  <2>2. Upsert(page, t, "running") = page /\ Upsert(page, t, "done") = page
    BY <2>1 DEF Upsert, Pages
  <2>3. QED
    BY <2>2 DEF KeepsDone
<1>2. CASE t # 0
  <2>1. t \in Turns
    BY <1>2, TurnFacts
  <2>2. QED
    BY <2>1 DEF Upsert, Pages, KeepsDone
<1>3. QED
  BY <1>1, <1>2

LEMMA PageFacts == NoPage \in Pages /\ History \in Pages
                   /\ \A t \in Turns : NoPage[t] = "none"
BY DEF NoPage, History, Pages

LEMMA AppliedFacts ==
  ASSUME NEW e \in Entries, NEW snap \in Status, NEW read \in Pages, NEW refresh \in BOOLEAN,
         NEW d, d = Applied(e, snap, read, refresh)
  PROVE  /\ d \in Entries /\ d.life = "Subscribed" /\ d.gen = e.gen
         /\ d.page = IF refresh THEN Merge(e.page, read) ELSE read
<1> DEFINE active == ActiveOf(snap, read)
           page == IF refresh THEN Merge(e.page, read) ELSE read
           cand == FirstRunning(page, active, IF refresh THEN e.cand ELSE 0)
           runtime == e.runtime /\ (snap = "active" \/ cand # 0)
<1>1. active \in TurnOrNone /\ page \in Pages
  BY RunningType, MergeFacts DEF Entries
<1>2. cand \in TurnOrNone
  <2> HIDE DEF active, page
  <2>1. (IF refresh THEN e.cand ELSE 0) \in TurnOrNone
    BY TurnFacts DEF Entries
  <2>2. QED
    BY <1>1, <2>1, FirstRunningType
<1>3. runtime \in BOOLEAN
  BY DEF Entries
<1>4. d = [life |-> "Subscribed", gen |-> e.gen, conv |-> snap, pending |-> "none", page |-> page,
           active |-> active, cand |-> cand, runtime |-> runtime, retained |-> e.retained]
  BY DEF Applied, Entries
<1>5. d.page = page
  BY <1>4
<1>6. QED
  <2>1. d \in Entries /\ d.life = "Subscribed" /\ d.gen = e.gen
    <3> HIDE DEF active, page, cand, runtime
    <3>1. QED
      BY <1>1, <1>2, <1>3, <1>4 DEF Entries, Lives, Status
  <2>2. QED
    BY <2>1, <1>5

LEMMA NewerType ==
  ASSUME NEW e \in Entries, NEW snap \in Status, NEW since
  PROVE  Newer(e, snap, since) \in Status
BY DEF Newer, Known, Entries

LEMMA AppliedStaleFacts ==
  ASSUME NEW e \in Entries, NEW snap \in Status, NEW read \in Pages, NEW since,
         NEW d, d = AppliedStale(e, snap, read, since)
  PROVE  d \in Entries /\ d.life = "Subscribed" /\ d.gen = e.gen /\ d.page = Merge(e.page, read)
<1> DEFINE status == Newer(e, snap, since)
           page == Merge(e.page, read)
           held == IF Is(page, e.active, "running") THEN e.active ELSE 0
           other == FirstRunning(page, e.cand, ActiveOf(snap, read))
           cand == IF held # 0 THEN held ELSE other
           active == IF held # 0 THEN held ELSE ActiveOf(status, page)
           runtime == e.runtime /\ (status = "active" \/ cand # 0)
<1>1. status \in Status /\ page \in Pages /\ held \in TurnOrNone
  BY NewerType, MergeFacts, TurnFacts DEF Entries
<1>2. ActiveOf(snap, read) \in TurnOrNone /\ e.cand \in TurnOrNone
  BY RunningType DEF Entries
<1>3. other \in TurnOrNone /\ ActiveOf(status, page) \in TurnOrNone
  <2> HIDE DEF status, page
  <2>1. QED
    BY <1>1, <1>2, RunningType, FirstRunningType
<1>4. cand \in TurnOrNone /\ active \in TurnOrNone /\ runtime \in BOOLEAN
  <2> HIDE DEF held, other, status, page
  <2>1. QED
    BY <1>1, <1>3 DEF Entries
<1>5. d = [life |-> "Subscribed", gen |-> e.gen, conv |-> status, pending |-> "none", page |-> page,
           active |-> active, cand |-> cand, runtime |-> runtime, retained |-> e.retained]
  BY DEF AppliedStale, Entries
<1>6. d.page = page
  BY <1>5
<1>7. QED
  <2>1. d \in Entries /\ d.life = "Subscribed" /\ d.gen = e.gen
    <3> HIDE DEF active, page, cand, runtime, status
    <3>1. QED
      BY <1>1, <1>4, <1>5 DEF Entries, Lives, Status
  <2>2. QED
    BY <2>1, <1>6

LEMMA AppliedResumeFacts ==
  ASSUME NEW e \in Entries, NEW snap \in Status, NEW since,
         NEW d, d = AppliedResume(e, snap, since)
  PROVE  d \in Entries /\ d.life = "Subscribed" /\ d.gen = e.gen /\ d.page = e.page
<1> DEFINE status == Newer(e, snap, since)
           held == IF "revision" \in since /\ Is(e.page, e.active, "running") THEN e.active ELSE 0
           active == IF held # 0 THEN held ELSE ActiveOf(status, e.page)
           runtime == active # 0 \/ status = "active"
<1>1. status \in Status /\ held \in TurnOrNone /\ e.page \in Pages
  BY NewerType, TurnFacts DEF Entries
<1>2. active \in TurnOrNone /\ runtime \in BOOLEAN
  <2> HIDE DEF status, held
  <2>1. ActiveOf(status, e.page) \in TurnOrNone
    BY <1>1, RunningType
  <2>2. QED
    BY <1>1, <2>1
<1>3. d = [life |-> "Subscribed", gen |-> e.gen, conv |-> status, pending |-> "none", page |-> e.page,
           active |-> active, cand |-> active, runtime |-> runtime, retained |-> e.retained]
  BY DEF AppliedResume, Entries
<1>4. QED
  <2> HIDE DEF active, runtime, status
  <2>1. QED
    BY <1>1, <1>2, <1>3 DEF Entries, Lives, Status

LEMMA WithStatusFacts ==
  ASSUME NEW e \in Entries, NEW s \in Status
  PROVE  \E c, p \in Status : WithStatus(e, s) = [e EXCEPT !.conv = c, !.pending = p]
<1>1. CASE e.conv # "none"
  <2>1. WithStatus(e, s) = [e EXCEPT !.conv = s, !.pending = e.pending]
    BY <1>1 DEF WithStatus, Entries
  <2>2. QED
    BY <2>1 DEF Entries
<1>2. CASE e.conv = "none"
  <2>1. WithStatus(e, s) = [e EXCEPT !.conv = e.conv, !.pending = s]
    BY <1>2 DEF WithStatus, Entries
  <2>2. QED
    BY <2>1 DEF Entries
<1>3. QED
  BY <1>1, <1>2

LEMMA EffectFacts ==
  ASSUME NEW e \in Entries, NEW r \in Report,
         r.k \in {"status", "activity", "started", "ended"}, NEW d, d = Effect(e, r)
  PROVE  /\ d \in Entries /\ d.life = e.life /\ d.gen = e.gen /\ d.retained = e.retained
         /\ KeepsDone(e.page, d.page)
         /\ \A t \in Turns : d.page[t] = "done" => e.page[t] = "done" \/ (r.k = "ended" /\ r.t = t)
<1>1. CASE r.k = "status"
  <2> DEFINE over == r.s # "active"
  <2>0. r.s \in Status
    BY DEF Report
  <2>1. PICK c \in Status, p \in Status : WithStatus(e, r.s) = [e EXCEPT !.conv = c, !.pending = p]
    BY <2>0, WithStatusFacts
  <2>2. PICK a \in TurnOrNone, b \in BOOLEAN :
          d = [[e EXCEPT !.conv = c, !.pending = p] EXCEPT !.active = a, !.runtime = b]
    <3>1. (IF over THEN 0 ELSE e.active) \in TurnOrNone /\ (e.runtime /\ ~(over /\ e.cand = 0)) \in BOOLEAN
      BY TurnFacts DEF Entries
    <3>2. d = [[e EXCEPT !.conv = c, !.pending = p] EXCEPT !.active = IF over THEN 0 ELSE e.active,
                                                     !.runtime = e.runtime /\ ~(over /\ e.cand = 0)]
      BY <1>1, <2>1 DEF Effect, Entries
    <3>3. QED
      BY <3>1, <3>2
  <2>3. QED
    BY <2>2, <1>1 DEF Entries, KeepsDone
<1>2. CASE r.k = "activity"
  <2>1. r.s \in Status /\ d = WithStatus(e, r.s)
    BY <1>2 DEF Report, Effect
  <2>2. PICK c \in Status, p \in Status : WithStatus(e, r.s) = [e EXCEPT !.conv = c, !.pending = p]
    BY <2>1, WithStatusFacts
  <2>3. d = [e EXCEPT !.conv = c, !.pending = p]
    BY <2>1, <2>2
  <2>4. QED
    BY <2>3, <1>2 DEF Entries, KeepsDone
<1>3. CASE r.k = "started"
  <2>0. r.t \in TurnOrNone /\ e.page \in Pages
    BY <1>3, TurnFacts DEF Report, Entries
  <2> DEFINE q == Upsert(e.page, r.t, "running")
  <2>1. q \in Pages /\ KeepsDone(e.page, q)
        /\ \A t \in Turns : q[t] = "done" => e.page[t] = "done"
    BY <2>0, UpsertFacts
  <2>2. PICK a, c \in TurnOrNone : d = [e EXCEPT !.active = a, !.cand = c, !.runtime = TRUE,
                                                 !.page = q]
    <3>1. r.t \in TurnOrNone /\ (IF e.life = "Subscribed" THEN r.t ELSE e.cand) \in TurnOrNone
      BY <2>0, TurnFacts DEF Entries
    <3>2. d = [e EXCEPT !.active = r.t, !.cand = IF e.life = "Subscribed" THEN r.t ELSE e.cand,
                        !.runtime = TRUE, !.page = q]
      BY <1>3 DEF Effect, Entries
    <3>3. QED
      BY <3>1, <3>2
  <2>3. d.page = q
    BY <2>2 DEF Entries
  <2>4. d \in Entries /\ d.life = e.life /\ d.gen = e.gen /\ d.retained = e.retained
    <3>1. q \in Pages
      BY <2>1
    <3> HIDE DEF q
    <3>2. QED
      BY <3>1, <2>2 DEF Entries
  <2>5. QED
    BY <2>1, <2>3, <2>4
<1>4. CASE r.k = "ended"
  <2>0. r.t \in TurnOrNone /\ e.page \in Pages
    BY <1>4, TurnFacts DEF Report, Entries
  <2> DEFINE q == Upsert(e.page, r.t, "done")
  <2>1. q \in Pages /\ KeepsDone(e.page, q)
        /\ \A t \in Turns : q[t] = "done" => e.page[t] = "done" \/ r.t = t
    BY <2>0, UpsertFacts
  <2>2. PICK a, c \in TurnOrNone, b \in BOOLEAN :
          d = [e EXCEPT !.active = a, !.cand = c, !.runtime = b, !.page = q]
    <3>1. (IF e.active = r.t THEN 0 ELSE e.active) \in TurnOrNone
          /\ (IF e.cand = r.t THEN 0 ELSE e.cand) \in TurnOrNone
          /\ (e.runtime /\ r.t \notin {e.active, e.cand}) \in BOOLEAN
      BY TurnFacts DEF Entries
    <3>2. d = [e EXCEPT !.active = IF e.active = r.t THEN 0 ELSE e.active,
                        !.cand = IF e.cand = r.t THEN 0 ELSE e.cand,
                        !.runtime = e.runtime /\ r.t \notin {e.active, e.cand},
                        !.page = q]
      BY <1>4 DEF Effect, Entries
    <3>3. QED
      BY <3>1, <3>2
  <2>3. d.page = q
    BY <2>2 DEF Entries
  <2>4. d \in Entries /\ d.life = e.life /\ d.gen = e.gen /\ d.retained = e.retained
    <3>1. q \in Pages
      BY <2>1
    <3> HIDE DEF q
    <3>2. QED
      BY <3>1, <2>2 DEF Entries
  <2>5. QED
    BY <2>1, <2>3, <2>4, <1>4
<1>5. QED
  BY <1>1, <1>2, <1>3, <1>4

-----------------------------------------------------------------------------
(* The reports of a connection and the queue of the operation lock.        *)

LEMMA InConcat ==
  ASSUME NEW S, NEW s \in Seq(S), NEW u \in Seq(S)
  PROVE  s \o u \in Seq(S) /\ In(s \o u) = In(s) \cup In(u)
<1> DEFINE c == s \o u
<1>1. /\ c \in Seq(S) /\ Len(c) = Len(s) + Len(u)
      /\ \A i \in 1..Len(s) : c[i] = s[i]
      /\ \A i \in 1..Len(u) : c[Len(s) + i] = u[i]
  OBVIOUS
<1>2. DOMAIN c = 1..Len(c) /\ DOMAIN s = 1..Len(s) /\ DOMAIN u = 1..Len(u)
  BY <1>1
<1>3. Len(s) \in Nat /\ Len(u) \in Nat
  OBVIOUS
<1> HIDE DEF c
<1>4. In(c) \subseteq In(s) \cup In(u)
  <2> SUFFICES ASSUME NEW i \in DOMAIN c PROVE c[i] \in In(s) \cup In(u)
    BY DEF In
  <2>1. CASE i <= Len(s)
    BY <1>1, <1>2, <1>3, <2>1 DEF In
  <2>2. CASE ~(i <= Len(s))
    <3>1. PICK j \in 1..Len(u) : i = Len(s) + j
      <4>1. i - Len(s) \in 1..Len(u) /\ i = Len(s) + (i - Len(s))
        BY <1>1, <1>2, <1>3, <2>2
      <4>2. QED
        BY <4>1
    <3>2. QED
      BY <1>1, <1>2, <3>1 DEF In
  <2>3. QED
    BY <2>1, <2>2
<1>5. In(s) \subseteq In(c)
  <2> SUFFICES ASSUME NEW i \in DOMAIN s PROVE s[i] \in In(c)
    BY DEF In
  <2>1. i \in DOMAIN c /\ c[i] = s[i]
    BY <1>1, <1>2, <1>3
  <2>2. QED
    BY <2>1 DEF In
<1>6. In(u) \subseteq In(c)
  <2> SUFFICES ASSUME NEW i \in DOMAIN u PROVE u[i] \in In(c)
    BY DEF In
  <2>1. Len(s) + i \in DOMAIN c /\ c[Len(s) + i] = u[i]
    BY <1>1, <1>2, <1>3
  <2>2. QED
    BY <2>1 DEF In
<1>7. QED
  BY <1>1, <1>4, <1>5, <1>6 DEF c

LEMMA InAppend ==
  ASSUME NEW S, NEW s \in Seq(S), NEW x \in S
  PROVE  Append(s, x) \in Seq(S) /\ In(Append(s, x)) = In(s) \cup {x}
<1> DEFINE u == <<x>>
<1>1. u \in Seq(S) /\ Append(s, x) = s \o u /\ In(u) = {x}
  BY DEF In
<1> HIDE DEF u
<1>2. QED
  BY <1>1, InConcat

LEMMA InTail ==
  ASSUME NEW S, NEW s \in Seq(S), s # <<>>
  PROVE  /\ Tail(s) \in Seq(S) /\ Head(s) \in S /\ In(s) = {Head(s)} \cup In(Tail(s))
         /\ Head(s) \in In(s) /\ In(Tail(s)) \subseteq In(s)
<1>1. /\ Tail(s) \in Seq(S) /\ Len(Tail(s)) = Len(s) - 1 /\ Head(s) = s[1] /\ 1 \in DOMAIN s
      /\ \A i \in 1..Len(Tail(s)) : Tail(s)[i] = s[i + 1]
      /\ Len(s) \in Nat /\ Len(s) # 0 /\ DOMAIN s = 1..Len(s) /\ DOMAIN Tail(s) = 1..Len(Tail(s))
  OBVIOUS
<1>2. ASSUME NEW i \in DOMAIN s PROVE s[i] = Head(s) \/ s[i] \in In(Tail(s))
  <2>1. CASE i = 1
    BY <1>1, <2>1
  <2>2. CASE i # 1
    <3>1. i - 1 \in DOMAIN Tail(s) /\ Tail(s)[i - 1] = s[i]
      BY <1>1, <2>2
    <3>2. QED
      BY <3>1 DEF In
  <2>3. QED
    BY <2>1, <2>2
<1>3. ASSUME NEW i \in DOMAIN Tail(s) PROVE Tail(s)[i] \in In(s)
  <2>1. i + 1 \in DOMAIN s /\ Tail(s)[i] = s[i + 1]
    BY <1>1
  <2>2. QED
    BY <2>1 DEF In
<1>4. Head(s) \in In(s) /\ Head(s) \in S
  BY <1>1 DEF In
<1>5. QED
  BY <1>1, <1>2, <1>3, <1>4 DEF In

LEMMA InSubSeq ==
  ASSUME NEW S, NEW s \in Seq(S), NEW n \in Nat, n <= Len(s)
  PROVE  SubSeq(s, n + 1, Len(s)) \in Seq(S) /\ In(SubSeq(s, n + 1, Len(s))) \subseteq In(s)
<1> DEFINE u == SubSeq(s, n + 1, Len(s))
<1>1. /\ u \in Seq(S) /\ Len(u) = Len(s) - n /\ \A i \in 1..Len(u) : u[i] = s[n + i]
      /\ DOMAIN s = 1..Len(s) /\ Len(s) \in Nat
  OBVIOUS
<1>2. DOMAIN u = 1..Len(u)
  <2>1. u \in Seq(S)
    BY <1>1
  <2> HIDE DEF u
  <2>2. QED
    BY <2>1
<1> HIDE DEF u
<1>3. ASSUME NEW i \in DOMAIN u PROVE u[i] \in In(s)
  <2>1. n + i \in DOMAIN s /\ u[i] = s[n + i]
    BY <1>1, <1>2
  <2>2. QED
    BY <2>1 DEF In
<1>4. QED
  BY <1>1, <1>3 DEF In, u

LEMMA InSubset ==
  ASSUME NEW S, NEW s \in Seq(S)
  PROVE  In(s) \subseteq S
BY DEF In

\* Reports added to the connection that watches the thread.
LEMMA ReportedFacts ==
  ASSUME Types, NEW rs \in Seq(Report), \A r \in In(rs) : Named(r), NEW c, c = Reported(rs)
  PROVE  /\ c \in [Generations -> Seq(Report)]
         /\ \A g \in Generations : \A r \in In(c[g]) : Named(r)
         /\ \A g \in Generations : In(chan[g]) \subseteq In(c[g]) /\ In(c[g]) \subseteq In(chan[g]) \cup In(rs)
         /\ link.watched => In(c[link.conn]) = In(chan[link.conn]) \cup In(rs)
<1>1. CASE link.watched
  <2> DEFINE g == link.conn
  <2>1. g \in Generations /\ chan[g] \in Seq(Report)
    BY DEF Types, ChanType, AgentType, Links
  <2>2. chan[g] \o rs \in Seq(Report) /\ In(chan[g] \o rs) = In(chan[g]) \cup In(rs)
    BY <2>1, InConcat
  <2>3. c = [chan EXCEPT ![g] = chan[g] \o rs]
    BY <1>1 DEF Reported
  <2>4. QED
    <3>1. c \in [Generations -> Seq(Report)] /\ c[g] = chan[g] \o rs
          /\ \A h \in Generations : h # g => c[h] = chan[h]
      BY <2>1, <2>2, <2>3 DEF Types, ChanType
    <3> HIDE DEF g
    <3>2. \A h \in Generations : In(chan[h]) \subseteq In(c[h]) /\ In(c[h]) \subseteq In(chan[h]) \cup In(rs)
      BY <2>2, <3>1
    <3>3. QED
      BY <2>2, <3>1, <3>2 DEF Types, ChanType, g
<1>2. CASE ~link.watched
  BY <1>2 DEF Reported, Types, ChanType
<1>3. QED
  BY <1>1, <1>2

-----------------------------------------------------------------------------
(* Types of the steps.                                                     *)

LEMMA Constants ==
  /\ MaxViewers \in Nat /\ MaxTurns \in Nat /\ MaxWork \in Nat /\ MaxReports \in Nat /\ MaxFaults \in Nat
  /\ MaxGeneration \in Nat /\ MaxGeneration # 0 /\ 1 \in Generations
  /\ Generations \subseteq Nat /\ 0 \notin Generations /\ Kinds \subseteq {"codex", "claude"}
  /\ Roles \subseteq {"bootstrap", "prompt", "stop", "recover"}
BY InstanceAssumption DEF Generations

LEMMA InitTypes == Init => Types
<1> SUFFICES ASSUME Init PROVE Types
  OBVIOUS
<1> USE Constants, PageFacts, TurnFacts DEF Init
<1>1. AgentType
  BY DEF AgentType, Agents, Links
<1>2. ChanType
  BY DEF ChanType, In
<1>3. ViewType
  BY DEF ViewType
<1>4. EntryType
  BY DEF EntryType, Entries, Ops, Idle, Lives, Status
<1>5. LineType
  BY DEF LineType, Idle
<1>6. cmd \in Cmds
  BY DEF NoCommand, Cmds, Status
<1>7. MovedType
  BY DEF MovedType, Tasks
<1>8. FaultType
  BY DEF FaultType
<1>9. QED
  BY <1>1, <1>2, <1>3, <1>4, <1>5, <1>6, <1>7, <1>8 DEF Types

\* The marks stay marks, and whoever read nothing has none.
LEMMA MarkTypes ==
  ASSUME Types, NEW S \in SUBSET Marks
  PROVE  /\ Mark(S) => MovedType'
         /\ \A x \in Tasks : MarkFrom(x, S) => MovedType'
         /\ \A x \in Tasks : moved' = [moved EXCEPT ![x] = {}] => MovedType'
<1>1. \A x \in Tasks : Marked(x, S) \in SUBSET Marks
  BY DEF Types, MovedType, Marked
<1>2. Mark(S) => MovedType'
  BY <1>1 DEF Mark, MovedType, Tasks
<1>3. \A x \in Tasks : MarkFrom(x, S) => MovedType'
  BY <1>1 DEF MarkFrom, MovedType, Tasks
<1>4. QED
  BY <1>2, <1>3 DEF Types, MovedType

LEMMA AgentMoves ==
  ASSUME Types
  PROVE  /\ Gone \in Agents /\ Gone.begun = agent.begun /\ Gone.doing = 0
         /\ agent.begun < MaxTurns =>
              Begun \in Agents /\ Begun.begun = agent.begun + 1 /\ Begun.doing = agent.begun + 1
<1>0. agent \in Agents
  BY DEF Types, AgentType
<1>1. Gone \in Agents /\ Gone.begun = agent.begun /\ Gone.doing = 0
  BY <1>0, TurnFacts DEF Gone, Agents
<1>2. ASSUME agent.begun < MaxTurns
      PROVE  Begun \in Agents /\ Begun.begun = agent.begun + 1 /\ Begun.doing = agent.begun + 1
  <2>1. agent.begun \in Nat /\ agent.begun + 1 \in 0..MaxTurns
    BY <1>0, <1>2, Constants DEF Agents, TurnOrNone
  <2>2. QED
    BY <1>0, <2>1 DEF Begun, Agents, TurnOrNone
<1>3. QED
  BY <1>1, <1>2

\* What the agent says when a turn begins or ends, or its work moves.
LEMMA SayFacts ==
  ASSUME Types
  PROVE  /\ \A k \in {"status", "activity", "lost", "closed", "retold"}, s \in Status :
              Say(k, 0, s) \in Report /\ Named(Say(k, 0, s))
         /\ \A k \in {"started", "ended"}, t \in Turns :
              Say(k, t, "none") \in Report /\ Named(Say(k, t, "none"))
         /\ Activity \in {"status", "activity"}
         /\ agent.doing # 0 => agent.doing \in Turns
         /\ agent.begun < MaxTurns => agent.begun + 1 \in Turns
<1>1. Turns \subseteq TurnOrNone /\ 0 \in TurnOrNone /\ \A t \in Turns : t # 0
  BY TurnFacts DEF Turns
<1>2. /\ agent.doing # 0 => agent.doing \in Turns
      /\ agent.begun < MaxTurns => agent.begun + 1 \in Turns
  BY Constants DEF Types, AgentType, Agents, TurnOrNone, Turns
<1>3. QED
  BY <1>1, <1>2 DEF Say, Report, Named, Activity, Status

LEMMA InShort ==
  /\ In(<<>>) = {}
  /\ \A a : In(<<a>>) = {a}
  /\ \A a, b : In(<<a, b>>) = {a, b}
BY DEF In

LEMMA SameTypes ==
  ASSUME Types
  PROVE  /\ UNCHANGED <<kind, agent, link, observer>> => AgentType'
         /\ UNCHANGED chan => ChanType'
         /\ UNCHANGED <<restore, viewers, boots>> => ViewType'
         /\ UNCHANGED <<entry, op>> => EntryType'
         /\ UNCHANGED <<line, op>> => LineType'
         /\ UNCHANGED cmd => (cmd \in Cmds)'
         /\ UNCHANGED moved => MovedType'
         /\ UNCHANGED faults => FaultType'
BY DEF Types, AgentType, ChanType, ViewType, EntryType, LineType, MovedType, FaultType

LEMMA ReportTypes ==
  ASSUME Types, NEW rs \in Seq(Report), \A r \in In(rs) : Named(r), chan' = Reported(rs)
  PROVE  ChanType'
BY ReportedFacts DEF ChanType

LEMMA QueueFacts ==
  ASSUME Types, NEW r \in Request
  PROVE  /\ Append(line, r) \in Seq(Request) /\ Append(line, r) # <<>>
         /\ line # <<>> => Head(Append(line, r)) = Head(line)
         /\ In(Append(line, r)) = In(line) \cup {r}
<1>1. line \in Seq(Request)
  BY DEF Types, LineType
<1>2. QED
  BY <1>1, InAppend

\* What TurnEnds says, for the activity it ends with.
TurnEnded(working) ==
  <<Say("ended", agent.doing, "none")>>
  \o IF kind = "claude" THEN <<Say("activity", 0, Busy(working))>> ELSE <<>>

LEMMA EndedReports ==
  ASSUME Types, agent.doing # 0, NEW working \in BOOLEAN
  PROVE  /\ TurnEnded(working) \in Seq(Report)
         /\ In(TurnEnded(working)) \subseteq {Say("ended", agent.doing, "none"), Say("activity", 0, Busy(working))}
         /\ \A r \in In(TurnEnded(working)) : Named(r)
<1> USE SayFacts, InShort
<1> DEFINE first == <<Say("ended", agent.doing, "none")>>
           last == IF kind = "claude" THEN <<Say("activity", 0, Busy(working))>> ELSE <<>>
<1>1. /\ first \in Seq(Report) /\ In(first) = {Say("ended", agent.doing, "none")}
      /\ Named(Say("ended", agent.doing, "none"))
  BY DEF Status
<1>2. /\ last \in Seq(Report) /\ In(last) \subseteq {Say("activity", 0, Busy(working))}
      /\ Named(Say("activity", 0, Busy(working)))
  <2>1. Busy(working) \in Status
    BY DEF Busy, Status
  <2>2. Say("activity", 0, Busy(working)) \in Report /\ Named(Say("activity", 0, Busy(working)))
    BY <2>1
  <2>3. QED
    BY <2>2
<1>3. TurnEnded(working) = first \o last
  BY DEF TurnEnded
<1> HIDE DEF first, last
<1>4. first \o last \in Seq(Report) /\ In(first \o last) = In(first) \cup In(last)
  BY <1>1, <1>2, InConcat
<1>5. QED
  BY <1>1, <1>2, <1>3, <1>4

LEMMA TurnTypes ==
  ASSUME Types, AgentNext
  PROVE  Types'
<1> USE SameTypes, SayFacts, InShort
<1>0. agent \in Agents /\ 0 \in TurnOrNone
  BY TurnFacts DEF Types, AgentType
<1>1. CASE TurnBegins
  <2> DEFINE rs == <<Say(Activity, 0, "active"), Say("started", agent.begun + 1, "none")>>
  <2>0. agent.begun < MaxTurns
    BY <1>1 DEF TurnBegins, MayBegin
  <2>1. rs \in Seq(Report) /\ \A r \in In(rs) : Named(r)
    BY <2>0 DEF Status
  <2>2. ChanType'
    <3> HIDE DEF rs
    <3>1. chan' = Reported(rs)
      BY <1>1 DEF TurnBegins, rs
    <3>2. QED
      BY <2>1, <3>1, ReportTypes
  <2>3. AgentType'
    BY <1>1, <2>0, AgentMoves DEF TurnBegins, Types, AgentType
  <2>4. QED
    BY <1>1, <2>2, <2>3 DEF TurnBegins, Types
<1>2. CASE TurnEnds
  <2>1. PICK working \in BOOLEAN : agent' = [agent EXCEPT !.doing = 0, !.busy = working]
                                   /\ chan' = Reported(TurnEnded(working))
    BY <1>0, <1>2 DEF TurnEnds, TurnEnded, Agents
  <2>2. ChanType'
    BY <1>2, <2>1, EndedReports, ReportTypes DEF TurnEnds
  <2>3. AgentType'
    <3>1. agent' \in Agents
      BY <1>0, <2>1 DEF Agents
    <3>2. QED
      BY <1>2, <3>1 DEF TurnEnds, Types, AgentType
  <2>4. QED
    BY <1>2, <2>2, <2>3 DEF TurnEnds, Types
<1>3. CASE GoesIdle
  <2> DEFINE rs == <<Say(Activity, 0, "idle")>>
  <2>1. rs \in Seq(Report) /\ \A r \in In(rs) : Named(r)
    BY DEF Status
  <2>2. ChanType'
    <3> HIDE DEF rs
    <3>1. chan' = Reported(rs)
      BY <1>3 DEF GoesIdle, rs
    <3>2. QED
      BY <2>1, <3>1, ReportTypes
  <2>3. AgentType'
    <3>1. agent' \in Agents
      BY <1>0, <1>3 DEF GoesIdle, Agents
    <3>2. QED
      BY <1>3, <3>1 DEF GoesIdle, Types, AgentType
  <2>4. QED
    BY <1>3, <2>2, <2>3 DEF GoesIdle, Types
<1>4. CASE WorkBegins
  <2> DEFINE rs == <<Say("activity", 0, "active")>>
  <2>1. rs \in Seq(Report) /\ \A r \in In(rs) : Named(r)
    BY DEF Status
  <2>2. ChanType'
    <3> HIDE DEF rs
    <3>1. chan' = Reported(rs)
      BY <1>4 DEF WorkBegins, rs
    <3>2. QED
      BY <2>1, <3>1, ReportTypes
  <2>3. AgentType'
    <3>1. agent.work + 1 \in 0..MaxWork
      BY <1>4, <1>0, Constants DEF WorkBegins, Agents
    <3>2. agent' \in Agents
      BY <1>4, <1>0, <3>1 DEF WorkBegins, Agents
    <3>3. QED
      BY <1>4, <3>2 DEF WorkBegins, Types, AgentType
  <2>4. QED
    BY <1>4, <2>2, <2>3 DEF WorkBegins, Types
<1>5. CASE TranscriptChanges
  <2> DEFINE rs == <<Say("retold", 0, "none")>>
  <2>1. rs \in Seq(Report) /\ \A r \in In(rs) : Named(r)
    BY DEF Status
  <2>2. ChanType'
    <3> HIDE DEF rs
    <3>1. chan' = Reported(rs)
      BY <1>5 DEF TranscriptChanges, rs
    <3>2. QED
      BY <2>1, <3>1, ReportTypes
  <2>3. QED
    BY <1>5, <2>2 DEF TranscriptChanges, Types
<1>6. QED
  BY <1>1, <1>2, <1>3, <1>4, <1>5 DEF AgentNext

LEMMA FaultAdded ==
  ASSUME Types, NEW f \in {"exit", "call", "lag"}, Len(faults) < MaxFaults, faults' = Append(faults, f)
  PROVE  FaultType'
<1>1. faults \in Seq({"exit", "call", "lag"}) /\ MaxFaults \in Nat
  BY Constants DEF Types, FaultType
<1>2. Append(faults, f) \in Seq({"exit", "call", "lag"}) /\ Len(Append(faults, f)) = Len(faults) + 1
  BY <1>1
<1>3. Len(faults) \in Nat /\ Len(faults) + 1 <= MaxFaults
  BY <1>1
<1>4. QED
  BY <1>2, <1>3 DEF FaultType

LEMMA LostTypes ==
  ASSUME Types, ConnectionLost \/ Connected
  PROVE  Types'
<1> USE SameTypes
<1>1. CASE ConnectionLost
  <2> DEFINE g == link.conn
             r == Say("lost", 0, "none")
  <2>1. g \in Generations /\ chan[g] \in Seq(Report) /\ r \in Report /\ Named(r)
    BY SayFacts DEF Types, AgentType, ChanType, Links, Status
  <2>2. chan' = [chan EXCEPT ![g] = Append(chan[g], r)]
    BY <1>1 DEF ConnectionLost
  <2>3. ChanType'
    <3> HIDE DEF g, r
    <3>1. Append(chan[g], r) \in Seq(Report) /\ In(Append(chan[g], r)) = In(chan[g]) \cup {r}
      BY <2>1, InAppend
    <3>2. chan' \in [Generations -> Seq(Report)] /\ chan'[g] = Append(chan[g], r)
          /\ \A h \in Generations : h # g => chan'[h] = chan[h]
      BY <2>1, <2>2, <3>1 DEF Types, ChanType
    <3>3. QED
      BY <2>1, <3>1, <3>2 DEF Types, ChanType
  <2>4. AgentType'
    BY <1>1, <2>1 DEF ConnectionLost, Types, AgentType, Links
  <2>5. QED
    BY <1>1, <2>3, <2>4 DEF ConnectionLost, Types
<1>2. CASE Connected
  <2>1. link.conn + 1 \in Generations
    BY <1>2, Constants DEF Connected, Types, AgentType, Links, Generations
  <2>2. QED
    BY <1>2, <2>1 DEF Connected, Types, AgentType, ViewType, Links
<1>3. QED
  BY <1>1, <1>2

LEMMA SessionEndsTypes ==
  ASSUME Types, SessionEnds
  PROVE  Types'
<1> USE SameTypes, SayFacts, InShort
<1>1. FaultType'
  BY FaultAdded DEF SessionEnds
<1>2. agent' \in Agents /\ AgentType'
  BY AgentMoves DEF SessionEnds, Types, AgentType, Links
<1> DEFINE first == IF agent.doing # 0 THEN <<Say("ended", agent.doing, "none")>> ELSE <<>>
           last == <<Say("status", 0, "idle"), Say("closed", 0, "none")>>
           only == <<Say("closed", 0, "none")>>
<1>3. ChanType'
  <2>1. first \in Seq(Report) /\ \A r \in In(first) : Named(r)
    OBVIOUS
  <2>2. last \in Seq(Report) /\ \A r \in In(last) : Named(r)
    BY DEF Status
  <2>3. only \in Seq(Report) /\ \A r \in In(only) : Named(r)
    BY DEF Status
  <2>4. chan' = Reported(first \o last) \/ chan' = Reported(only)
    BY DEF SessionEnds
  <2> HIDE DEF first, last, only
  <2>5. first \o last \in Seq(Report) /\ In(first \o last) = In(first) \cup In(last)
    BY <2>1, <2>2, InConcat
  <2>6. CASE chan' = Reported(first \o last)
    BY <2>1, <2>2, <2>5, <2>6, ReportTypes
  <2>7. CASE chan' = Reported(only)
    BY <2>3, <2>7, ReportTypes
  <2>8. QED
    BY <2>4, <2>6, <2>7
<1>4. QED
  BY <1>1, <1>2, <1>3 DEF SessionEnds, Types

\* Reports taken from a connection leave those behind them.
LEMMA TakenTypes ==
  ASSUME Types, NEW g \in Generations, NEW s \in Seq(Report), In(s) \subseteq In(chan[g]),
         chan' = [chan EXCEPT ![g] = s]
  PROVE  ChanType' /\ \A h \in Generations : In(chan'[h]) \subseteq In(chan[h])
<1>1. chan' \in [Generations -> Seq(Report)] /\ \A h \in Generations : chan'[h] = IF h = g THEN s ELSE chan[h]
  BY DEF Types, ChanType
<1>2. QED
  BY <1>1 DEF Types, ChanType

LEMMA LagTypes ==
  ASSUME Types, NEW n \in 0..MaxReports, Lag(n)
  PROVE  Types' /\ \A h \in Generations : In(chan'[h]) \subseteq In(chan[h])
<1> USE SameTypes
<1>1. FaultType'
  BY FaultAdded DEF Lag
<1>2. MovedType'
  BY MarkTypes DEF Lag, Marks
<1>3. ChanType' /\ \A h \in Generations : In(chan'[h]) \subseteq In(chan[h])
  <2>1. n \in Nat /\ 1 \in Generations /\ chan[1] \in Seq(Report) /\ n <= Len(chan[1])
    BY Constants DEF Lag, Types, ChanType
  <2>2. SubSeq(chan[1], n + 1, Len(chan[1])) \in Seq(Report)
        /\ In(SubSeq(chan[1], n + 1, Len(chan[1]))) \subseteq In(chan[1])
    BY <2>1, InSubSeq
  <2>3. QED
    BY <2>1, <2>2, TakenTypes DEF Lag
<1>4. QED
  BY <1>1, <1>2, <1>3 DEF Lag, Types

\* What applying a report does to the entry, and who is told to close.
LEMMA SessionReportFacts ==
  ASSUME Types, NEW g \in Generations, NEW r \in Report, SessionReport(g, r)
  PROVE  /\ entry' \in Entries /\ entry'.life = entry.life /\ entry'.gen = entry.gen
         /\ KeepsDone(entry.page, entry'.page)
         /\ \A t \in Turns : entry'.page[t] = "done" => entry.page[t] = "done" \/ (r.k = "ended" /\ r.t = t)
         /\ entry' = entry \/ Mark(Touches(r))
         /\ line' = line \/ line' = Queue("bridge", "Close", g)
         /\ MovedType'
<1>0. entry \in Entries
  BY DEF Types, EntryType
<1>1. CASE Ignored(entry, r)
  BY <1>0, <1>1, SameTypes DEF KeepsDone, SessionReport
<1>2. CASE ~Ignored(entry, r)
  <2> DEFINE had == Demand(entry, viewers, cmd)
             has == Demand(Effect(entry, r), viewers, cmd)
  <2>1. PICK e : e = Effect(entry, r)
    OBVIOUS
  <2>2. /\ e \in Entries /\ e.life = entry.life /\ e.gen = entry.gen /\ KeepsDone(entry.page, e.page)
        /\ \A t \in Turns : e.page[t] = "done" => entry.page[t] = "done" \/ (r.k = "ended" /\ r.t = t)
    BY <1>0, <2>1, EffectFacts DEF SessionReport
  <2>3. entry' = [e EXCEPT !.retained = e.retained \/ (had /\ ~has)]
    BY <1>2, <2>1 DEF SessionReport
  <2>4. (e.retained \/ (had /\ ~has)) \in BOOLEAN
    OBVIOUS
  <2>5. entry' \in Entries /\ entry'.life = e.life /\ entry'.gen = e.gen /\ entry'.page = e.page
    <3> HIDE DEF had, has
    <3>1. QED
      BY <2>2, <2>3, <2>4 DEF Entries
  <2>6. Mark(Touches(r)) /\ (line' = line \/ line' = Queue("bridge", "Close", g))
    BY <1>2 DEF SessionReport
  <2>7. MovedType'
    BY <2>6, MarkTypes DEF Touches, Marks
  <2>8. QED
    BY <2>2, <2>5, <2>6, <2>7
<1>3. QED
  BY <1>1, <1>2

LEMMA LoseConnectionFacts ==
  ASSUME Types, NEW g \in Generations, LoseConnection(g)
  PROVE  /\ entry' \in Entries /\ entry'.gen = entry.gen /\ entry'.page = entry.page
         /\ \/ entry' = entry /\ moved' = moved
            \/ entry.gen = g /\ entry'.life = "Error" /\ Mark({"epoch", "revision"})
         /\ MovedType'
<1>0. entry \in Entries
  BY DEF Types, EntryType
<1>1. CASE entry.gen = g
  <2>1. entry' = Lost(entry) /\ Mark({"epoch", "revision"})
    BY <1>1 DEF LoseConnection
  <2>2. MovedType'
    BY <2>1, MarkTypes DEF Marks
  <2>3. QED
    BY <1>0, <1>1, <2>1, <2>2, TurnFacts DEF Lost, Entries, Lives
<1>2. CASE entry.gen # g
  BY <1>0, <1>2, SameTypes DEF LoseConnection
<1>3. QED
  BY <1>1, <1>2

LEMMA NeedsOpeningFacts ==
  ASSUME Types, NEW d, d = NeedsOpening(entry)
  PROVE  d \in Entries /\ d.gen = entry.gen /\ d.page = entry.page /\ d.life = "Unloaded"
BY TurnFacts DEF NeedsOpening, Types, EntryType, Entries, Lives

LEMMA DeliverTypes ==
  ASSUME Types, NEW g \in Generations, Deliver(g)
  PROVE  Types' /\ \A h \in Generations : In(chan'[h]) \subseteq In(chan[h])
<1> USE SameTypes, Constants
<1> DEFINE r == Head(chan[g])
<1>1. chan[g] \in Seq(Report) /\ chan[g] # <<>>
  BY DEF Deliver, Types, ChanType
<1>2. r \in Report /\ Tail(chan[g]) \in Seq(Report) /\ In(Tail(chan[g])) \subseteq In(chan[g])
  BY <1>1, InTail
<1>3. ChanType' /\ \A h \in Generations : In(chan'[h]) \subseteq In(chan[h])
  BY <1>2, TakenTypes DEF Deliver
<1>4. /\ entry' \in Entries /\ entry'.gen = entry.gen
      /\ entry'.life \in {entry.life, "Unloaded"} \/ entry.gen = g
      /\ line' \in Seq(Request) /\ (line # <<>> => line' # <<>>) /\ MovedType'
  <2> HIDE DEF r
  <2>0. entry \in Entries /\ line \in Seq(Request)
    BY DEF Types, EntryType, LineType
  <2>1. CASE entry.gen # g /\ UNCHANGED <<entry, line, moved>>
    BY <2>0, <2>1
  <2>2. CASE entry.gen = g /\ SessionReport(g, r)
    <3>1. Queue("bridge", "Close", g) \in Seq(Request) /\ Queue("bridge", "Close", g) # <<>>
      BY QueueFacts, [by |-> "bridge", kind |-> "Close", gen |-> g] \in Request DEF Queue, Request
    <3>2. QED
      BY <1>2, <2>0, <2>2, <3>1, SessionReportFacts
  <2>3. CASE ClosedReport(r)
    BY <2>0, <2>3, NeedsOpeningFacts, MarkTypes DEF ClosedReport, Marks
  <2>4. CASE RetoldReport(r)
    BY <2>0, <2>4, QueueFacts, [by |-> "retold", kind |-> "Latest", gen |-> 1] \in Request
      DEF RetoldReport, Queue, Request
  <2>5. CASE LoseConnection(g) /\ UNCHANGED line
    BY <2>0, <2>5, LoseConnectionFacts
  <2>6. QED
    BY <2>1, <2>2, <2>3, <2>4, <2>5 DEF Deliver, r
<1>5. EntryType' /\ LineType'
  BY <1>4 DEF Deliver, Types, EntryType, LineType
<1>6. QED
  BY <1>3, <1>4, <1>5 DEF Deliver, Types

LEMMA ObserverTypes ==
  ASSUME Types, NEW g \in Generations, ObserverTells(g)
  PROVE  Types'
<1> USE SameTypes
<1>1. /\ entry' \in Entries /\ entry'.gen = entry.gen /\ MovedType'
      /\ entry'.life = entry.life \/ entry.gen = g
  BY LoseConnectionFacts DEF ObserverTells
<1>2. EntryType' /\ AgentType'
  BY <1>1, Constants DEF ObserverTells, Types, EntryType, AgentType
<1>3. QED
  BY <1>1, <1>2 DEF ObserverTells, Types

\* The holder of the operation lock gives it to the next.
LEMMA ReturnFacts ==
  ASSUME Types, line # <<>>, NEW how \in {"ok", "failed"}, NEW e \in Entries, Return(how, e)
  PROVE  /\ op' = Idle /\ op' \in Ops /\ LineType' /\ In(line') \subseteq In(line) /\ req \in In(line)
         /\ cmd' \in Cmds /\ cmd'.gen = cmd.gen /\ cmd'.page = cmd.page
         /\ restore' \in {"none", "listing", "opening", "loaded"}
<1>1. line \in Seq(Request) /\ cmd \in Cmds
  BY DEF Types, LineType
<1>2. line' \in Seq(Request) /\ In(line') \subseteq In(line) /\ req \in In(line)
  BY <1>1, InTail DEF Return, req
<1>3. op' = Idle /\ op' \in Ops
  BY Constants, PageFacts DEF Return, Idle, Ops, Status
<1>4. cmd' \in Cmds /\ cmd'.gen = cmd.gen /\ cmd'.page = cmd.page
  <2>1. CASE req.by = "cmd"
    <3>1. cmd' = [cmd EXCEPT !.ret = how, !.seen = e.conv, !.turn = e.active]
      BY <2>1 DEF Return
    <3>2. e.conv \in Status /\ e.active \in TurnOrNone
      BY DEF Entries
    <3>3. QED
      BY <1>1, <3>1, <3>2 DEF Cmds
  <2>2. CASE req.by # "cmd"
    BY <1>1, <2>2 DEF Return
  <2>3. QED
    BY <2>1, <2>2
<1>5. LineType'
  BY <1>2, <1>3 DEF LineType, Idle
<1>6. restore' \in {"none", "listing", "opening", "loaded"}
  BY DEF Return, Types, ViewType
<1>7. QED
  BY <1>2, <1>3, <1>4, <1>5, <1>6

LEMMA CallingFacts ==
  ASSUME NEW g \in Generations, NEW b \in BOOLEAN, NEW d, d = Calling(g, b)
  PROVE  /\ d \in Ops /\ d.pc = "calling" /\ d.gen = g /\ d.kept = b /\ d.page = NoPage
BY PageFacts DEF Calling, Idle, Ops, Status

\* The head of the queue is a request, and the lock's holder is that head.
LEMMA HeadFacts ==
  ASSUME Types, line # <<>>
  PROVE  req \in Request /\ req.gen \in Generations /\ req \in In(line)
<1>1. line \in Seq(Request)
  BY DEF Types, LineType
<1>2. req \in Request /\ req \in In(line)
  BY <1>1, InTail DEF req
<1>3. QED
  BY <1>2 DEF Request

LEMMA EntryFacts ==
  ASSUME Types
  PROVE  /\ entry \in Entries /\ op \in Ops /\ line \in Seq(Request) /\ cmd \in Cmds
         /\ op.pc # "idle" => line # <<>> /\ entry.gen # 0
         /\ entry.life # "Unloaded" => entry.gen # 0
         /\ entry.gen # 0 => entry.gen \in Generations
BY Constants DEF Types, EntryType, LineType, Entries, Generations

LEMMA AlreadyTypes ==
  ASSUME Types, OpenAlready \/ OpenPanics \/ CloseRefrains
  PROVE  Types'
<1> USE SameTypes, EntryFacts
<1>1. PICK how \in {"ok", "failed"} : Return(how, entry) /\ line # <<>>
  BY DEF OpenAlready, OpenPanics, CloseRefrains
<1>2. /\ op' = Idle /\ op' \in Ops /\ LineType' /\ cmd' \in Cmds
      /\ restore' \in {"none", "listing", "opening", "loaded"}
  BY <1>1, ReturnFacts
<1>3. EntryType' /\ ViewType'
  BY <1>2 DEF OpenAlready, OpenPanics, CloseRefrains, Types, EntryType, ViewType, Idle
<1>4. MovedType'
  <2>1. CASE moved' = moved
    BY <2>1
  <2>2. CASE moved' = [moved EXCEPT !["cmd"] = IF req.by = "cmd" THEN {} ELSE @]
    BY <2>2 DEF Types, MovedType
  <2>3. QED
    BY <2>1, <2>2 DEF OpenAlready, OpenPanics, CloseRefrains
<1>5. QED
  BY <1>2, <1>3, <1>4 DEF OpenAlready, OpenPanics, CloseRefrains, Types, agentVars

LEMMA BeginTypes ==
  ASSUME Types, BeginOpen \/ BeginClose
  PROVE  Types'
<1> USE SameTypes, EntryFacts
<1>1. line # <<>> /\ req.gen \in Generations
  BY HeadFacts DEF BeginOpen, BeginClose
<1>2. MovedType'
  BY MarkTypes DEF BeginOpen, BeginClose, Marks, Tasks
<1>3. entry' \in Entries /\ op' \in Ops /\ entry'.gen # 0
  <2>1. CASE BeginClose
    <3>1. entry' \in Entries /\ entry'.gen = entry.gen
      BY <2>1 DEF BeginClose, Entries, Lives
    <3>2. QED
      BY <2>1, <3>1, CallingFacts DEF BeginClose
  <2>2. CASE BeginOpen /\ Subscribed(entry, req.gen)
    <3>1. entry' = entry /\ op' = Calling(req.gen, TRUE) /\ entry.gen # 0
      BY <2>2 DEF BeginOpen, Subscribed
    <3>2. QED
      BY <1>1, <3>1, CallingFacts
  <2>3. CASE BeginOpen /\ ~Subscribed(entry, req.gen)
    <3>1. PICK g \in Generations : g = req.gen
      BY <1>1
    <3>2. entry' = [entry EXCEPT !.life = "Subscribing", !.gen = g, !.cand = 0] /\ op' = Calling(g, FALSE)
      BY <2>3, <3>1 DEF BeginOpen
    <3>3. g \in 0..MaxGeneration /\ g # 0
      BY Constants DEF Generations
    <3>4. entry' \in Entries /\ entry'.gen = g
      BY <3>2, <3>3, TurnFacts DEF Entries, Lives
    <3>5. QED
      BY <3>2, <3>3, <3>4, CallingFacts
  <2>4. QED
    BY <2>1, <2>2, <2>3
<1>4. EntryType' /\ LineType'
  BY <1>1, <1>3 DEF BeginOpen, BeginClose, EntryType, LineType
<1>5. QED
  BY <1>2, <1>4 DEF BeginOpen, BeginClose, Types, agentVars

LEMMA BeginLatestTypes ==
  ASSUME Types, BeginLatest
  PROVE  Types'
<1> USE SameTypes, EntryFacts
<1>1. line # <<>> /\ req.gen \in Generations
  BY HeadFacts DEF BeginLatest
<1>2. CASE Subscribed(entry, req.gen)
  <2>1. op' \in Ops /\ entry'.gen # 0 /\ entry' = entry /\ line' = line
    BY <1>1, <1>2, CallingFacts, Constants DEF BeginLatest, Subscribed
  <2>2. EntryType' /\ LineType'
    BY <1>1, <2>1 DEF EntryType, LineType
  <2>3. MovedType'
    BY <1>2, MarkTypes DEF BeginLatest, Tasks
  <2>4. QED
    BY <1>2, <2>2, <2>3 DEF BeginLatest, Types, agentVars
<1>3. CASE ~Subscribed(entry, req.gen)
  <2>1. Return("ok", entry)
    BY <1>3 DEF BeginLatest
  <2>2. /\ op' = Idle /\ op' \in Ops /\ LineType' /\ cmd' \in Cmds
        /\ restore' \in {"none", "listing", "opening", "loaded"}
    BY <1>1, <2>1, ReturnFacts
  <2>3. EntryType' /\ ViewType'
    BY <2>2 DEF BeginLatest, Types, EntryType, ViewType, Idle
  <2>4. QED
    BY <1>3, <2>2, <2>3 DEF BeginLatest, Types, agentVars
<1>4. QED
  BY <1>2, <1>3

LEMMA ProviderTypes ==
  ASSUME Types, ProviderOpens \/ ProviderReads \/ ProviderCloses \/ CallFails
  PROVE  Types' /\ entry' = entry /\ line' = line /\ cmd' = cmd /\ moved' = moved /\ chan' = chan
         /\ agent' = agent /\ kind' = kind
<1> USE SameTypes, EntryFacts, PageFacts
<1>1. op.pc # "idle" /\ op'.pc # "idle" /\ op' \in Ops
  <2>1. Busy(agent.busy) \in Status
    BY DEF Busy, Status
  <2>2. CASE ProviderOpens
    BY <2>1, <2>2 DEF ProviderOpens, Ops
  <2>3. CASE ProviderReads \/ ProviderCloses \/ CallFails
    BY <2>3 DEF ProviderReads, ProviderCloses, CallFails, Ops
  <2>4. QED
    BY <2>2, <2>3
<1>2. entry' = entry /\ line' = line /\ cmd' = cmd /\ moved' = moved /\ chan' = chan
      /\ agent' = agent /\ kind' = kind /\ observer' = observer /\ UNCHANGED <<restore, viewers, boots>>
  BY DEF ProviderOpens, ProviderReads, ProviderCloses, CallFails, agentVars
<1>3. EntryType' /\ LineType'
  BY <1>1, <1>2 DEF EntryType, LineType
<1>4. AgentType'
  <2>0. link \in Links
    BY DEF Types, AgentType
  <2>1. link' \in Links /\ link'.up = link.up /\ link'.conn = link.conn
    <3>1. CASE ProviderOpens
      BY <2>0, <3>1 DEF ProviderOpens, Links
    <3>2. CASE ProviderReads \/ CallFails
      BY <2>0, <3>2 DEF ProviderReads, CallFails, agentVars
    <3>3. CASE ProviderCloses
      <4>1. PICK S \in SUBSET {"reports", "turns"} :
              link' = link \/ link' = [link EXCEPT !.watched = FALSE, !.late = S]
        <5>1. link.late \cup (IF chan[op.gen] = <<>> THEN {} ELSE {"reports"}) \in SUBSET {"reports", "turns"}
          BY <2>0 DEF Links
        <5>2. QED
          BY <3>3, <5>1 DEF ProviderCloses
      <4>2. QED
        BY <2>0, <4>1 DEF Links
    <3>4. QED
      BY <3>1, <3>2, <3>3
  <2>2. QED
    BY <1>2, <2>1 DEF Types, AgentType
<1>5. FaultType'
  BY FaultAdded DEF ProviderOpens, ProviderReads, ProviderCloses, CallFails
<1>6. QED
  BY <1>2, <1>3, <1>4, <1>5 DEF Types

\* The entry an open leaves when it completes.
LEMMA CompletedFacts ==
  ASSUME Types, OpenCompletes
  PROVE  /\ entry' \in Entries /\ entry'.life = "Subscribed" /\ entry'.gen = entry.gen
         /\ \/ req.kind = "Prompt" /\ entry'.page = entry.page
            \/ entry'.page = Merge(entry.page, op.page)
            \/ "revision" \notin moved["op"] /\ entry'.page = op.page
<1> USE EntryFacts
<1>1. op.snap \in Status /\ op.page \in Pages
  BY DEF Ops
<1>2. CASE req.kind = "Prompt"
  <2>1. entry' = AppliedResume(entry, op.snap, moved["op"])
    BY <1>2 DEF OpenCompletes
  <2>2. QED
    BY <1>1, <1>2, <2>1, AppliedResumeFacts
<1>3. CASE req.kind # "Prompt" /\ "revision" \notin moved["op"]
  <2>1. PICK b \in BOOLEAN : b = (req.kind = "Refresh")
    OBVIOUS
  <2>2. entry' = Applied(entry, op.snap, op.page, b)
    BY <1>3, <2>1 DEF OpenCompletes
  <2>3. QED
    BY <1>1, <1>3, <2>2, AppliedFacts
<1>4. CASE req.kind # "Prompt" /\ "revision" \in moved["op"]
  <2>1. entry' = AppliedStale(entry, op.snap, op.page, moved["op"])
    BY <1>4 DEF OpenCompletes
  <2>2. QED
    BY <1>1, <2>1, AppliedStaleFacts
<1>5. QED
  BY <1>2, <1>3, <1>4

\* The entry a call leaves when it ends, however it ends.
LEMMA EndedFacts ==
  ASSUME Types, OpenInterrupted \/ OpenFails \/ CloseEnds \/ LatestEnds
  PROVE  /\ entry' \in Entries /\ entry'.gen = entry.gen
         /\ entry'.life \in {entry.life, "Error", "Unloaded"}
         /\ entry'.page \in {entry.page, NoPage, Merge(entry.page, op.page)}
<1> USE EntryFacts, PageFacts
<1>1. CASE OpenInterrupted
  BY <1>1 DEF OpenInterrupted
<1>2. CASE OpenFails
  BY <1>2 DEF OpenFails, Entries, Lives
<1>3. CASE CloseEnds
  BY <1>3, TurnFacts DEF CloseEnds, Entries, Lives
<1>4. CASE LatestEnds
  <2>1. CASE entry' = [entry EXCEPT !.page = Merge(@, op.page)]
    <3>1. PICK m : m = Merge(entry.page, op.page)
      OBVIOUS
    <3>2. m \in Pages
      BY <3>1, MergeFacts DEF Entries, Ops
    <3>3. entry' = [entry EXCEPT !.page = m]
      BY <2>1, <3>1
    <3>4. entry' \in Entries /\ entry'.gen = entry.gen /\ entry'.life = entry.life /\ entry'.page = m
      BY <3>2, <3>3 DEF Entries
    <3>5. QED
      BY <3>1, <3>4
  <2>2. CASE entry' = entry
    BY <2>2
  <2>3. QED
    BY <1>4, <2>1, <2>2 DEF LatestEnds
<1>5. QED
  BY <1>1, <1>2, <1>3, <1>4

LEMMA EndTypes ==
  ASSUME Types, OpenCompletes \/ OpenInterrupted \/ OpenFails \/ CloseEnds \/ LatestEnds
  PROVE  Types'
<1> USE SameTypes, EntryFacts
<1>1. op.pc # "idle" /\ line # <<>>
  BY DEF OpenCompletes, OpenInterrupted, OpenFails, CloseEnds, LatestEnds
<1>2. entry' \in Entries /\ entry'.gen = entry.gen
  BY CompletedFacts, EndedFacts
<1>3. PICK how \in {"ok", "failed"}, e \in {entry, entry'} : Return(how, e)
  BY DEF OpenCompletes, OpenInterrupted, OpenFails, CloseEnds, LatestEnds
<1>4. /\ op' = Idle /\ op' \in Ops /\ LineType' /\ cmd' \in Cmds
      /\ restore' \in {"none", "listing", "opening", "loaded"}
  BY <1>1, <1>2, <1>3, ReturnFacts
<1>5. MovedType'
  <2>1. CASE OpenCompletes
    <3>1. Marked("op", {"revision"}) \in SUBSET Marks /\ Marked("cmd", {"revision"}) \in SUBSET Marks
      BY DEF Marked, Types, MovedType, Tasks, Marks
    <3>2. moved' = [x \in {"op", "cmd"} |-> IF x = "cmd" /\ req.by # "cmd" THEN Marked(x, {"revision"}) ELSE {}]
      BY <2>1 DEF OpenCompletes
    <3>3. QED
      BY <3>1, <3>2 DEF MovedType, Tasks
  <2>2. CASE OpenInterrupted \/ OpenFails \/ CloseEnds \/ LatestEnds
    <3>1. PICK S \in {{}, {"revision"}} : MarkFrom("op", S)
      BY <2>2 DEF OpenInterrupted, OpenFails, CloseEnds, LatestEnds
    <3>2. QED
      BY <3>1, MarkTypes DEF Marks, Tasks
  <2>3. QED
    BY <2>1, <2>2
<1>6. EntryType' /\ ViewType'
  BY <1>1, <1>2, <1>4 DEF OpenCompletes, OpenInterrupted, OpenFails, CloseEnds, LatestEnds, Types,
    EntryType, ViewType, Idle
<1>7. QED
  BY <1>4, <1>5, <1>6 DEF OpenCompletes, OpenInterrupted, OpenFails, CloseEnds, LatestEnds, Types, agentVars

-----------------------------------------------------------------------------
(* What a command may do to the rest: it never moves the state of the      *)
(* subscription or the status, and a turn it saw end was seen by what it    *)
(* read.                                                                   *)

EntryStep ==
  /\ entry' \in Entries /\ entry'.life = entry.life /\ entry'.gen = entry.gen
  /\ entry'.conv = entry.conv /\ entry'.pending = entry.pending
  /\ KeepsDone(entry.page, entry'.page)
  /\ \A t \in Turns : entry'.page[t] = "done" => entry.page[t] = "done" \/ cmd.page[t] = "done"
MovedStep ==
  /\ MovedType'
  /\ op.pc # "idle" => /\ moved["op"] \subseteq moved'["op"] /\ ("epoch" \in moved'["op"] => "epoch" \in moved["op"])
                       /\ "status" \in moved'["op"] => "status" \in moved["op"]
                       /\ entry'.page # entry.page => "revision" \in moved'["op"]
LineStep ==
  /\ line' \in Seq(Request) /\ (line # <<>> => line' # <<>> /\ Head(line') = Head(line))
  /\ \A r \in In(line') : r \in In(line) \/ r.gen \in {1, cmd.gen, link.conn}
CmdStep ==
  cmd' \in Cmds /\ cmd'.gen \in {cmd.gen, link.conn, 1} /\ cmd'.page \in {NoPage, cmd.page, History}
CommandStep == EntryStep /\ MovedStep /\ LineStep /\ CmdStep

LEMMA SameSteps ==
  ASSUME Types
  PROVE  /\ entry' = entry => EntryStep
         /\ entry'.page = entry.page /\ moved' = moved => MovedStep
         /\ entry'.page = entry.page /\ moved' = [moved EXCEPT !["cmd"] = {}] => MovedStep
         /\ line' = line => LineStep
<1>1. entry' = entry => EntryStep
  BY DEF EntryStep, Types, EntryType, KeepsDone
<1>2. line' = line => LineStep
  BY DEF LineStep, Types, LineType
<1>3. entry'.page = entry.page /\ moved' = moved => MovedStep
  BY DEF MovedStep, Types, MovedType
<1>4. entry'.page = entry.page /\ moved' = [moved EXCEPT !["cmd"] = {}] => MovedStep
  BY DEF MovedStep, Types, MovedType, Tasks
<1>5. QED
  BY <1>1, <1>2, <1>3, <1>4

\* While the lock is held, what moves is only added to what its holder reads.
LEMMA MarkAdds ==
  ASSUME Types, op.pc # "idle", NEW S \in SUBSET Marks
  PROVE  Mark(S) \/ MarkFrom("cmd", S) => moved'["op"] = moved["op"] \cup S
BY DEF Mark, MarkFrom, Marked, Compares

LEMMA MarkSteps ==
  ASSUME Types
  PROVE  /\ MarkFrom("cmd", {"revision"}) => MovedStep
         /\ MarkFrom("cmd", {}) /\ entry'.page = entry.page => MovedStep
<1>1. MarkFrom("cmd", {"revision"}) => MovedStep
  BY MarkTypes, MarkAdds DEF MovedStep, Marks, Tasks
<1>2. MarkFrom("cmd", {}) /\ entry'.page = entry.page => MovedStep
  BY MarkTypes, MarkAdds DEF MovedStep, Marks, Tasks
<1>3. QED
  BY <1>1, <1>2

LEMMA AskSteps ==
  ASSUME Types
  PROVE  /\ \A k \in {"History", "Refresh", "Prompt"} : Ask(k) => LineStep
         /\ \A k \in {"History", "Refresh", "Prompt"} : line' = Queue("cmd", k, link.conn) => LineStep
<1>1. cmd.gen \in Generations /\ link.conn \in Generations
  BY DEF Types, Cmds, AgentType, Links
<1>2. ASSUME NEW k \in {"History", "Refresh", "Prompt"}, NEW g \in {cmd.gen, link.conn},
             line' = Queue("cmd", k, g)
      PROVE  LineStep
  <2>1. PICK r \in Request : r = [by |-> "cmd", kind |-> k, gen |-> g]
    BY <1>1 DEF Request
  <2>2. line' = Append(line, r) /\ r.gen = g
    BY <1>2, <2>1 DEF Queue
  <2>3. /\ line' \in Seq(Request) /\ line' # <<>> /\ (line # <<>> => Head(line') = Head(line))
        /\ In(line') = In(line) \cup {r}
    BY <2>2, QueueFacts
  <2>4. QED
    BY <2>2, <2>3 DEF LineStep
<1>3. QED
  BY <1>2 DEF Ask

LEMMA NoCommandStep ==
  ASSUME Types
  PROVE  cmd' = NoCommand => CmdStep
BY PageFacts, TurnFacts, Constants DEF CmdStep, NoCommand, Cmds, Status

\* The fields of the entry and of the command that change one at a time.
LEMMA RetainedStep ==
  ASSUME Types, NEW b \in BOOLEAN, NEW c \in BOOLEAN,
         entry' = [entry EXCEPT !.retained = b, !.runtime = c]
  PROVE  EntryStep /\ entry'.page = entry.page
BY DEF EntryStep, Types, EntryType, Entries, KeepsDone

LEMMA LeaveSteps ==
  ASSUME Types, Leave
  PROVE  EntryStep /\ MovedStep /\ CmdStep
<1>1. PICK b \in BOOLEAN : entry' = [entry EXCEPT !.retained = b]
  <2>1. (entry.retained \/ Leased) \in BOOLEAN
    BY DEF Types, EntryType, Entries, Leased
  <2>2. QED
    BY <2>1 DEF Leave
<1>2. entry' = [entry EXCEPT !.retained = b, !.runtime = entry.runtime] /\ entry.runtime \in BOOLEAN
  BY <1>1 DEF Types, EntryType, Entries
<1>3. EntryStep /\ entry'.page = entry.page
  BY <1>2, RetainedStep
<1>4. QED
  BY <1>3, SameSteps, NoCommandStep DEF Leave

LEMMA CmdFields ==
  ASSUME Types
  PROVE  /\ cmd \in Cmds
         /\ \A s \in Status, t \in TurnOrNone : Target(s, t) \in Cmds /\ Target(s, t).gen = cmd.gen
                                                /\ Target(s, t).page = cmd.page
         /\ cmd.seen \in Status /\ cmd.turn \in TurnOrNone /\ cmd.page \in Pages /\ cmd.gen \in Generations
         /\ entry.conv \in Status /\ entry.active \in TurnOrNone /\ agent.doing \in TurnOrNone
<1>1. cmd \in Cmds
  BY DEF Types
<1>2. cmd.seen \in Status /\ cmd.turn \in TurnOrNone /\ cmd.page \in Pages /\ cmd.gen \in Generations
  BY <1>1 DEF Cmds
<1>3. entry.conv \in Status /\ entry.active \in TurnOrNone /\ agent.doing \in TurnOrNone
  BY DEF Types, EntryType, Entries, AgentType, Agents
<1>4. ASSUME NEW s \in Status, NEW t \in TurnOrNone
      PROVE  Target(s, t) \in Cmds /\ Target(s, t).gen = cmd.gen /\ Target(s, t).page = cmd.page
  <2>1. PICK p \in {"start", "steer", "locate"} :
          Target(s, t) = [cmd EXCEPT !.ret = "none", !.seen = s, !.turn = t, !.pc = p]
    BY DEF Target
  <2>2. QED
    BY <1>1, <2>1 DEF Cmds
<1>5. QED
  BY <1>1, <1>2, <1>3, <1>4

\* Commands that move on, ask for an open, or leave.
LEMMA AskingSteps ==
  ASSUME Types, Prepare \/ Resumed \/ Refreshed \/ Locate \/ Seek \/ StopEnsured
  PROVE  CommandStep
<1> USE SameSteps, CmdFields
<1> DEFINE Small == entry' = entry /\ cmd' \in Cmds /\ cmd'.gen = cmd.gen /\ cmd'.page = cmd.page
<1>1. Leave /\ line' = line => CommandStep
  BY LeaveSteps DEF CommandStep
<1>2. Small /\ LineStep /\ MovedStep => CommandStep
  BY DEF CommandStep, CmdStep
<1>3. CASE Prepare
  <2>1. LineStep
    BY <1>3, AskSteps DEF Prepare
  <2>2. Small
    BY <1>3 DEF Prepare, Cmds
  <2>3. QED
    BY <1>2, <1>3, <2>1, <2>2 DEF Prepare
<1>4. CASE Resumed
  BY <1>2, <1>4 DEF Resumed
<1>5. CASE Refreshed
  <2>1. Small
    BY <1>5, TurnFacts DEF Refreshed, Cmds
  <2>2. QED
    BY <1>2, <1>5, <2>1 DEF Refreshed
<1>6. CASE Locate
  <2>1. CASE Subscribed(entry, cmd.gen)
    <3>1. Small
      BY <1>6, <2>1 DEF Locate, Cmds
    <3>2. QED
      BY <1>2, <1>6, <2>1, <3>1 DEF Locate
  <2>2. CASE ~Subscribed(entry, cmd.gen)
    BY <1>1, <1>6, <2>2 DEF Locate
  <2>3. QED
    BY <2>1, <2>2
<1>7. CASE Seek
  <2>1. cmd' = [cmd EXCEPT !.pc = "sought", !.page = History, !.turn = agent.doing] /\ UNCHANGED <<entry, line, moved>>
    BY <1>7 DEF Seek
  <2>2. cmd' \in Cmds /\ cmd'.gen = cmd.gen /\ cmd'.page = History
    BY <2>1, PageFacts DEF Cmds
  <2>3. QED
    BY <2>1, <2>2 DEF CommandStep, CmdStep
<1>8. CASE StopEnsured
  <2>1. CASE Leave
    BY <1>1, <1>8, <2>1 DEF StopEnsured
  <2>2. CASE ~Leave
    <3>1. PICK pc \in {"interrupt", "seek"} : cmd' = [cmd EXCEPT !.pc = pc, !.ret = "none"] /\ UNCHANGED <<entry, moved>>
      BY <1>8, <2>2 DEF StopEnsured
    <3>2. Small
      BY <3>1 DEF Cmds
    <3>3. QED
      BY <1>2, <1>8, <3>1, <3>2 DEF StopEnsured
  <2>3. QED
    BY <2>1, <2>2
<1>9. QED
  BY <1>3, <1>4, <1>5, <1>6, <1>7, <1>8

LEMMA LeavingSteps ==
  ASSUME Types, CallReturnsFailed \/ BootstrapEnds \/ Recovered \/ CommandFails \/ StopReads
  PROVE  CommandStep
<1> USE SameSteps, CmdFields
<1>1. CASE Recovered
  <2> DEFINE c == entry.runtime \/ (entry.gen = cmd.gen /\ entry.conv = "active")
  <2>1. c \in BOOLEAN /\ TRUE \in BOOLEAN
    BY DEF Types, EntryType, Entries
  <2>2. entry' = [entry EXCEPT !.retained = TRUE, !.runtime = c]
    BY <1>1 DEF Recovered
  <2>3. EntryStep /\ entry'.page = entry.page
    <3> HIDE DEF c
    <3>1. QED
      BY <2>1, <2>2, RetainedStep
  <2>4. QED
    BY <1>1, <2>3, NoCommandStep DEF Recovered, CommandStep
<1>2. CASE CallReturnsFailed \/ BootstrapEnds \/ CommandFails \/ StopReads
  <2>1. Leave /\ line' = line
    BY <1>2 DEF CallReturnsFailed, BootstrapEnds, CommandFails, StopReads
  <2>2. QED
    BY <2>1, LeaveSteps DEF CommandStep
<1>3. QED
  BY <1>1, <1>2

\* A page read by a command is merged into the session's, or dropped.
LEMMA SoughtSteps ==
  ASSUME Types, PromptSought \/ StopSought
  PROVE  CommandStep
<1> USE SameSteps, CmdFields, PageFacts
<1>0. entry \in Entries /\ Located(entry) \in Entries /\ Located(entry).life = entry.life
      /\ Located(entry).gen = entry.gen /\ Located(entry).page = entry.page
      /\ Located(entry).conv = entry.conv /\ Located(entry).pending = entry.pending
  BY DEF Located, Types, EntryType, Entries
<1>1. PICK d \in Entries : /\ d = Located(entry) /\ d.life = entry.life /\ d.gen = entry.gen /\ d.page = entry.page
                          /\ d.conv = entry.conv /\ d.pending = entry.pending
  BY <1>0
<1>2. PICK m \in Pages : m = Merge(entry.page, cmd.page) /\ KeepsDone(entry.page, m)
                         /\ \A t \in Turns : m[t] = "done" => entry.page[t] = "done" \/ cmd.page[t] = "done"
  BY <1>0, MergeFacts DEF Entries
<1>3. ASSUME entry' = [d EXCEPT !.page = m] PROVE EntryStep
  <2>1. /\ entry' \in Entries /\ entry'.life = d.life /\ entry'.gen = d.gen /\ entry'.page = m
        /\ entry'.conv = d.conv /\ entry'.pending = d.pending
    BY <1>3 DEF Entries
  <2>2. QED
    BY <1>1, <1>2, <2>1 DEF EntryStep
<1>4. ASSUME entry' = d PROVE EntryStep /\ entry'.page = entry.page
  BY <1>1, <1>4 DEF EntryStep, KeepsDone
<1>5. ASSUME NEW pc \in {"start", "steer", "interrupt"}, cmd' = [cmd EXCEPT !.pc = pc, !.page = NoPage]
      PROVE  CmdStep
  BY <1>5 DEF CmdStep, Cmds
<1>6. CASE PromptSought
  <2>0. line' = line
    BY <1>6 DEF PromptSought
  <2>1. CASE cmd.turn = 0
    <3>1. cmd' = [cmd EXCEPT !.pc = "start", !.page = NoPage] /\ UNCHANGED entry /\ MarkFrom("cmd", {})
      BY <1>6, <2>1 DEF PromptSought
    <3>2. QED
      BY <1>5, <2>0, <3>1, MarkSteps DEF CommandStep
  <2>2. CASE cmd.turn # 0 /\ "epoch" \in moved["cmd"]
    BY <1>6, <2>0, <2>2, LeaveSteps DEF PromptSought, CommandStep
  <2>3. CASE cmd.turn # 0 /\ "epoch" \notin moved["cmd"]
    <3>1. /\ entry' = [d EXCEPT !.page = Merge(d.page, cmd.page)] /\ MarkFrom("cmd", {"revision"})
          /\ cmd' = [cmd EXCEPT !.pc = "steer", !.page = NoPage]
      BY <1>1, <1>6, <2>3 DEF PromptSought
    <3>2. entry' = [d EXCEPT !.page = m]
      BY <1>1, <1>2, <3>1
    <3>3. QED
      BY <1>3, <1>5, <2>0, <3>1, <3>2, MarkSteps DEF CommandStep
  <2>4. QED
    BY <2>1, <2>2, <2>3
<1>7. CASE StopSought
  <2>0. line' = line /\ CmdStep
    BY <1>5, <1>7 DEF StopSought
  <2>1. CASE entry' = d /\ MarkFrom("cmd", {})
    BY <1>4, <2>0, <2>1, MarkSteps DEF CommandStep
  <2>2. CASE entry' = [d EXCEPT !.page = Merge(d.page, cmd.page)] /\ MarkFrom("cmd", {"revision"})
    <3>1. entry' = [d EXCEPT !.page = m]
      BY <1>1, <1>2, <2>2
    <3>2. QED
      BY <1>3, <2>0, <2>2, <3>1, MarkSteps DEF CommandStep
  <2>3. QED
    BY <1>1, <1>7, <2>1, <2>2 DEF StopSought
<1>8. QED
  BY <1>6, <1>7

LEMMA RetrySteps ==
  ASSUME Types, NEW error, Retry(error)
  PROVE  CommandStep
<1> USE SameSteps, CmdFields
<1>1. cmd' = [cmd EXCEPT !.pc = "refreshing", !.tried = TRUE] /\ Ask("Refresh") /\ UNCHANGED <<entry, moved>>
  BY DEF Retry
<1>2. CmdStep
  BY <1>1 DEF CmdStep, Cmds
<1>3. QED
  BY <1>1, <1>2, AskSteps DEF CommandStep

LEMMA SendingSteps ==
  ASSUME Types, Steer \/ SteerRefused \/ StartRefused \/ Start \/ Interrupt
  PROVE  CommandStep
<1> USE SameSteps, CmdFields
<1>1. CASE Steer
  <2>1. CmdStep
    BY <1>1 DEF Steer, CmdStep, Cmds
  <2>2. QED
    BY <1>1, <2>1 DEF Steer, CommandStep
<1>2. CASE SteerRefused \/ StartRefused
  BY <1>2, RetrySteps DEF SteerRefused, StartRefused
<1>3. CASE Start
  <2>1. agent.begun + 1 \in TurnOrNone
    BY <1>3, Constants DEF Start, MayBegin, Types, AgentType, Agents, TurnOrNone
  <2>2. cmd' = [cmd EXCEPT !.pc = "record", !.turn = agent.begun + 1]
    BY <1>3 DEF Start
  <2>3. CmdStep
    BY <2>1, <2>2 DEF CmdStep, Cmds
  <2>4. QED
    BY <1>3, <2>3 DEF Start, CommandStep
<1>4. CASE Interrupt
  <2>1. CmdStep
    BY <1>4 DEF Interrupt, CmdStep, Cmds
  <2>2. QED
    BY <1>4, <2>1, AskSteps DEF Interrupt, CommandStep
<1>5. QED
  BY <1>1, <1>2, <1>3, <1>4

LEMMA RecordSteps ==
  ASSUME Types, Record
  PROVE  CommandStep
<1> USE SameSteps, CmdFields
<1> DEFINE t == cmd.turn
           over == entry.page[t] = "done"
           ours == entry.gen = cmd.gen
<1>0. entry \in Entries /\ entry.page \in Pages /\ t \in TurnOrNone
  BY DEF Types, EntryType, Entries
<1>1. PICK u \in Pages : u = Upsert(entry.page, t, "running") /\ KeepsDone(entry.page, u)
                         /\ \A x \in Turns : u[x] = "done" => entry.page[x] = "done"
  BY <1>0, UpsertFacts
<1>2. PICK c \in BOOLEAN : c = (entry.runtime \/ (~over /\ t \in {entry.active, entry.cand}))
  BY DEF Types, EntryType, Entries
<1>3. MarkFrom("cmd", IF ours THEN {"revision"} ELSE {}) /\ line' = line /\ cmd' = NoCommand
  BY DEF Record
<1>4. \/ entry' = [entry EXCEPT !.retained = TRUE]
      \/ ours /\ entry' = [[entry EXCEPT !.active = t, !.cand = t, !.runtime = TRUE, !.page = u]
                             EXCEPT !.retained = TRUE]
      \/ entry' = [[entry EXCEPT !.runtime = c] EXCEPT !.retained = TRUE]
  BY <1>1, <1>2 DEF Record
<1> HIDE DEF t, over, ours
<1>5. CASE entry' = [entry EXCEPT !.retained = TRUE]
           \/ entry' = [[entry EXCEPT !.runtime = c] EXCEPT !.retained = TRUE]
  <2>1. EntryStep /\ entry'.page = entry.page
    BY <1>0, <1>5 DEF EntryStep, Entries, KeepsDone
  <2>2. MovedStep
    BY <1>3, <2>1, MarkSteps
  <2>3. QED
    BY <1>3, <2>1, <2>2, NoCommandStep DEF CommandStep
<1>6. CASE ours /\ entry' = [[entry EXCEPT !.active = t, !.cand = t, !.runtime = TRUE, !.page = u]
                               EXCEPT !.retained = TRUE]
  <2>1. /\ entry' \in Entries /\ entry'.life = entry.life /\ entry'.gen = entry.gen /\ entry'.page = u
        /\ entry'.conv = entry.conv /\ entry'.pending = entry.pending
    BY <1>0, <1>6 DEF Entries
  <2>2. EntryStep
    BY <1>1, <2>1 DEF EntryStep
  <2>3. MovedStep
    BY <1>3, <1>6, MarkSteps
  <2>4. QED
    BY <1>3, <2>2, <2>3, NoCommandStep DEF CommandStep
<1>7. QED
  BY <1>4, <1>5, <1>6

LEMMA BeginsSteps ==
  ASSUME Types, NEW role \in Roles, CommandBegins(role)
  PROVE  CommandStep
<1> USE SameSteps
<1>1. link.conn \in Generations /\ role \in {"bootstrap", "prompt", "stop", "recover"}
  BY Constants DEF Types, AgentType, Links
<1>2. PICK g \in Generations : g = link.conn
  BY <1>1
<1>3. PICK pc \in {"prepare", "ensuring"} : cmd' = [[NoCommand EXCEPT !.role = role, !.gen = g] EXCEPT !.pc = pc]
  BY <1>2 DEF CommandBegins, Command
<1>4. CmdStep
  BY <1>1, <1>2, <1>3, PageFacts, TurnFacts DEF CmdStep, NoCommand, Cmds, Status
<1>5. LineStep
  BY AskSteps DEF CommandBegins
<1>6. QED
  BY <1>4, <1>5 DEF CommandStep, CommandBegins

Commanding == CommandNext \/ Requests

\* A command moves nothing of the connection but what it remembers of a stop.
LinkSame ==
  /\ link' \in Links
  /\ link'.up = link.up /\ link'.conn = link.conn /\ link'.watched = link.watched
  /\ "reports" \in link'.late <=> "reports" \in link.late

LEMMA CommandLink ==
  ASSUME Types, Commanding
  PROVE  LinkSame
<1>0. link \in Links
  BY DEF Types, AgentType
<1>1. CASE StopSought
  <2>1. PICK S \in SUBSET {"reports", "turns"} :
          /\ link' = [link EXCEPT !.late = S]
          /\ "reports" \in S <=> "reports" \in link.late
    <3> DEFINE S == link.late \cup IF entry.life = "Subscribed" THEN {} ELSE {"turns"}
    <3>1. S \in SUBSET {"reports", "turns"} /\ ("reports" \in S <=> "reports" \in link.late)
      BY <1>0 DEF Links
    <3>2. link' = [link EXCEPT !.late = S]
      BY <1>1 DEF StopSought
    <3>3. QED
      BY <3>1, <3>2
  <2>2. QED
    BY <1>0, <2>1 DEF Links, LinkSame
<1>2. CASE link' = link
  BY <1>0, <1>2 DEF LinkSame
<1>3. CASE Requests
  BY <1>2, <1>3 DEF Requests, CommandBegins, agentVars
<1>4. CASE CallReturnsFailed \/ BootstrapEnds \/ Recovered \/ Prepare \/ Resumed \/ Refreshed \/ Locate
  BY <1>2, <1>4 DEF CallReturnsFailed, BootstrapEnds, Recovered, Prepare, Resumed, Refreshed, Locate, agentVars
<1>5. CASE Seek \/ PromptSought \/ Steer \/ SteerRefused \/ Start \/ StartRefused \/ Record
  BY <1>2, <1>5 DEF Seek, PromptSought, Steer, SteerRefused, Start, StartRefused, Retry, Record, agentVars
<1>6. CASE StopEnsured \/ Interrupt \/ StopReads \/ CommandFails
  BY <1>2, <1>6 DEF StopEnsured, Interrupt, StopReads, CommandFails, agentVars
<1>7. QED
  BY <1>1, <1>3, <1>4, <1>5, <1>6 DEF Commanding, CommandNext

LEMMA CommandFrame ==
  ASSUME Commanding
  PROVE  /\ UNCHANGED <<kind, observer, op, faults, viewers>>
         /\ UNCHANGED <<agent, chan>> \/ Start
         /\ restore' \in {restore, "none"}
         /\ boots' = boots \/ (boots > 0 /\ boots' = boots - 1)
<1>1. CASE Requests
  BY <1>1 DEF Requests, CommandBegins, agentVars
<1>2. CASE Start
  BY <1>2 DEF Start
<1>3. CASE CallReturnsFailed \/ BootstrapEnds \/ Recovered \/ Prepare \/ Resumed \/ Refreshed \/ Locate
  BY <1>3 DEF CallReturnsFailed, BootstrapEnds, Recovered, Prepare, Resumed, Refreshed, Locate, agentVars
<1>4. CASE Seek \/ PromptSought \/ StopSought \/ Steer \/ SteerRefused \/ StartRefused \/ Record
  BY <1>4 DEF Seek, PromptSought, StopSought, Steer, SteerRefused, StartRefused, Retry, Record, agentVars
<1>5. CASE StopEnsured \/ Interrupt \/ StopReads \/ CommandFails
  BY <1>5 DEF StopEnsured, Interrupt, StopReads, CommandFails, agentVars
<1>6. QED
  BY <1>1, <1>2, <1>3, <1>4, <1>5 DEF Commanding, CommandNext

LEMMA CommandSteps ==
  ASSUME Types, Commanding
  PROVE  CommandStep
BY AskingSteps, LeavingSteps, SoughtSteps, SendingSteps, RecordSteps, BeginsSteps
  DEF Commanding, CommandNext, Requests

\* What a start tells.
LEMMA SentReports ==
  ASSUME Types, Start
  PROVE  /\ agent' \in Agents /\ agent' = Begun /\ agent.begun < MaxTurns
         /\ \E rs \in Seq(Report) :
              /\ chan' = Reported(rs) /\ \A r \in In(rs) : Named(r)
              /\ \A r \in In(rs) : r.k \notin {"closed", "ended"}
<1> USE SayFacts, InShort
<1> DEFINE rs == <<Say("status", 0, "active"), Say("started", agent.begun + 1, "none")>>
<1>1. agent' = Begun /\ agent.begun < MaxTurns /\ chan' = Reported(rs)
  BY DEF Start, MayBegin
<1>2. rs \in Seq(Report) /\ \A r \in In(rs) : Named(r) /\ r.k \notin {"closed", "ended"}
  BY <1>1 DEF Status, Say
<1> HIDE DEF rs
<1>3. QED
  BY <1>1, <1>2, AgentMoves

LEMMA CommandTypes ==
  ASSUME Types, Commanding
  PROVE  Types'
<1> USE SameTypes
<1>1. CommandStep
  BY CommandSteps
<1>2. AgentType' /\ ChanType'
  <2>0. agent' \in Agents /\ ChanType'
    <3>1. CASE UNCHANGED <<agent, chan>>
      BY <3>1 DEF Types, AgentType
    <3>2. CASE Start
      <4>1. PICK rs \in Seq(Report) : chan' = Reported(rs) /\ \A r \in In(rs) : Named(r)
        BY <3>2, SentReports
      <4>2. ChanType'
        BY <4>1, ReportTypes
      <4>3. QED
        BY <3>2, <4>2, SentReports
    <3>3. QED
      BY <3>1, <3>2, CommandFrame
  <2>1. AgentType'
    BY <2>0, CommandFrame, CommandLink DEF LinkSame, Types, AgentType
  <2>2. QED
    BY <2>0, <2>1
<1>3. ViewType' /\ FaultType'
  BY CommandFrame, Constants DEF Types, ViewType
<1>4. EntryType' /\ LineType' /\ MovedType'
  BY <1>1, CommandFrame DEF CommandStep, EntryStep, LineStep, MovedStep, Types, EntryType, LineType
<1>5. (cmd \in Cmds)'
  BY <1>1 DEF CommandStep, CmdStep
<1>6. QED
  BY <1>2, <1>3, <1>4, <1>5 DEF Types

Viewing == ViewerNext \/ RetentionLapses \/ RestoreNext

LEMMA ViewFacts ==
  ASSUME Types, Viewing
  PROVE  /\ UNCHANGED <<kind, agentVars, op, cmd, moved, faults>>
         /\ entry' \in Entries /\ entry'.life = entry.life /\ entry'.gen = entry.gen /\ entry'.page = entry.page
         /\ entry'.conv = entry.conv /\ entry'.pending = entry.pending
         /\ LineStep
         /\ ViewType'
<1> USE SameSteps, Constants
<1>1. UNCHANGED <<kind, agentVars, op, cmd, moved, faults>>
  BY DEF Viewing, ViewerNext, RestoreNext, ViewerComes, ViewerLeaves, RetentionLapses, Resubscribe, NotLoaded
<1>2. /\ entry' \in Entries /\ entry'.life = entry.life /\ entry'.gen = entry.gen /\ entry'.page = entry.page
      /\ entry'.conv = entry.conv /\ entry'.pending = entry.pending
  BY DEF Viewing, ViewerNext, RestoreNext, ViewerComes, ViewerLeaves, RetentionLapses, Resubscribe, NotLoaded,
    Types, EntryType, Entries
<1>3. LineStep
  <2>1. link.conn \in Generations
    BY DEF Types, AgentType, Links
  <2>2. CASE line' = line
    BY <2>2
  <2>3. CASE line' = Queue("timer", "Close", 1)
    <3>1. PICK r \in Request : r = [by |-> "timer", kind |-> "Close", gen |-> 1]
      BY DEF Request
    <3>2. line' = Append(line, r) /\ r.gen = 1
      BY <2>3, <3>1 DEF Queue
    <3>3. QED
      BY <3>2, QueueFacts DEF LineStep
  <2>4. CASE line' = Queue("restore", "History", link.conn)
    <3>1. PICK r \in Request : r = [by |-> "restore", kind |-> "History", gen |-> link.conn]
      BY <2>1 DEF Request
    <3>2. line' = Append(line, r) /\ r.gen = link.conn
      BY <2>4, <3>1 DEF Queue
    <3>3. QED
      BY <3>2, QueueFacts DEF LineStep
  <2>5. QED
    BY <2>2, <2>3, <2>4 DEF Viewing, ViewerNext, RestoreNext, ViewerComes, ViewerLeaves, RetentionLapses,
      Resubscribe, NotLoaded
<1>4. ViewType'
  BY DEF Viewing, ViewerNext, RestoreNext, ViewerComes, ViewerLeaves, RetentionLapses, Resubscribe, NotLoaded,
    Types, ViewType
<1>5. QED
  BY <1>1, <1>2, <1>3, <1>4

LEMMA ViewTypes ==
  ASSUME Types, Viewing
  PROVE  Types'
<1>1. AgentType' /\ ChanType' /\ (cmd \in Cmds)' /\ MovedType' /\ FaultType' /\ ViewType'
  BY ViewFacts, SameTypes DEF Types, agentVars
<1>2. EntryType' /\ LineType'
  BY ViewFacts DEF Types, EntryType, LineType, LineStep
<1>3. QED
  BY <1>1, <1>2 DEF Types

LEMMA NextTypes ==
  ASSUME Types, [Next]_vars
  PROVE  Types'
<1>1. CASE AgentNext
  BY <1>1, TurnTypes
<1>2. CASE LinkNext
  BY <1>2, LostTypes, SessionEndsTypes, LagTypes DEF LinkNext
<1>3. CASE ReportNext
  BY <1>3, DeliverTypes, ObserverTypes DEF ReportNext
<1>4. CASE ProviderNext
  BY <1>4, ProviderTypes DEF ProviderNext
<1>5. CASE OperationNext
  BY <1>5, AlreadyTypes, BeginTypes, BeginLatestTypes, EndTypes DEF OperationNext
<1>6. CASE Viewing
  BY <1>6, ViewTypes
<1>7. CASE Commanding
  BY <1>7, CommandTypes
<1>8. CASE UNCHANGED vars
  BY <1>8, SameTypes DEF vars, agentVars, Types
<1>9. QED
  BY <1>1, <1>2, <1>3, <1>4, <1>5, <1>6, <1>7, <1>8 DEF Next, Viewing, Commanding

-----------------------------------------------------------------------------
(* What the agent does, and what is said of it.                            *)

AgentGrows == agent'.doing <= agent'.begun /\ \A t \in Turns : Ended(t) => Ended(t)'
\* Reports are added; none of a turn that has not ended, or of a closed session.
Speaks == \A g \in Generations :
  /\ In(chan[g]) \subseteq In(chan'[g])
  /\ \A r \in In(chan'[g]) : r \in In(chan[g]) \/ (r.k # "closed" /\ (r.k = "ended" => Ended(r.t)'))
Takes == \A g \in Generations : In(chan'[g]) \subseteq In(chan[g])

\* The turn that was running is not, and no other began.
Halts == agent'.begun = agent.begun /\ agent'.doing = 0

LEMMA AgentKinds ==
  ASSUME Types, agent.doing <= agent.begun
  PROVE  /\ agent' = agent => AgentGrows
         /\ agent' = Gone => Halts
         /\ Halts => AgentGrows /\ (\A t \in Turns : t = agent.doing => Ended(t)')
         /\ agent.begun < MaxTurns /\ agent' = Begun => AgentGrows
         /\ agent'.begun = agent.begun /\ agent'.doing = agent.doing => AgentGrows
<1>0. agent.begun \in Nat /\ agent.doing \in Nat /\ \A t \in Turns : t \in Nat /\ t # 0
  BY Constants DEF Types, AgentType, Agents, TurnOrNone, Turns
<1>1. agent'.begun = agent.begun /\ agent'.doing = agent.doing => AgentGrows
  BY DEF AgentGrows, Ended
<1>2. ASSUME Halts PROVE AgentGrows /\ (\A t \in Turns : t = agent.doing => Ended(t)')
  <2>1. agent'.begun = agent.begun /\ agent'.doing = 0
    BY <1>2 DEF Halts
  <2>2. AgentGrows
    BY <1>0, <2>1 DEF AgentGrows, Ended
  <2>3. \A t \in Turns : t = agent.doing => Ended(t)'
    BY <1>0, <2>1 DEF Ended
  <2>4. QED
    BY <2>2, <2>3
<1>3. ASSUME agent.begun < MaxTurns, agent' = Begun PROVE AgentGrows
  <2>1. agent'.begun = agent.begun + 1 /\ agent'.doing = agent.begun + 1
    BY <1>3, AgentMoves
  <2>2. QED
    BY <1>0, <2>1 DEF AgentGrows, Ended
<1>4. agent' = Gone => Halts
  BY AgentMoves DEF Halts
<1>5. QED
  BY <1>1, <1>2, <1>3, <1>4

LEMMA SpeakFacts ==
  ASSUME Types, NEW rs \in Seq(Report), \A r \in In(rs) : Named(r), chan' = Reported(rs),
         \A r \in In(rs) : r.k # "closed" /\ (r.k = "ended" => Ended(r.t)')
  PROVE  Speaks
BY ReportedFacts DEF Speaks

LEMMA TurnSteps ==
  ASSUME Types, agent.doing <= agent.begun, AgentNext
  PROVE  AgentGrows /\ Speaks
<1> USE SayFacts, InShort
<1>0. agent \in Agents
  BY DEF Types, AgentType
<1>1. CASE TurnBegins
  <2> DEFINE rs == <<Say(Activity, 0, "active"), Say("started", agent.begun + 1, "none")>>
  <2>1. chan' = Reported(rs) /\ agent' = Begun /\ agent.begun < MaxTurns
    BY <1>1 DEF TurnBegins, MayBegin
  <2>2. rs \in Seq(Report) /\ \A r \in In(rs) : Named(r) /\ r.k \notin {"closed", "ended"}
    BY <2>1 DEF Status, Say
  <2> HIDE DEF rs
  <2>3. Speaks
    BY <2>1, <2>2, SpeakFacts
  <2>4. QED
    BY <2>1, <2>3, AgentKinds
<1>2. CASE TurnEnds
  <2>1. PICK working \in BOOLEAN : agent' = [agent EXCEPT !.doing = 0, !.busy = working]
                                   /\ chan' = Reported(TurnEnded(working))
    BY <1>0, <1>2 DEF TurnEnds, TurnEnded, Agents
  <2>2. Halts /\ agent.doing # 0 /\ agent.doing \in Turns
    BY <1>0, <1>2, <2>1 DEF TurnEnds, Halts, Agents
  <2>3. AgentGrows /\ \A t \in Turns : t = agent.doing => Ended(t)'
    BY <2>2, AgentKinds
  <2>4. \A r \in In(TurnEnded(working)) : Named(r) /\ r.k # "closed" /\ (r.k = "ended" => r.t = agent.doing)
    BY <2>2, EndedReports DEF Say
  <2>5. Speaks
    <3>1. \A r \in In(TurnEnded(working)) : r.k # "closed" /\ (r.k = "ended" => Ended(r.t)')
      BY <2>2, <2>3, <2>4
    <3>2. TurnEnded(working) \in Seq(Report)
      BY <2>2, EndedReports
    <3>3. QED
      BY <2>1, <2>4, <3>1, <3>2, SpeakFacts
  <2>6. QED
    BY <2>3, <2>5
<1>3. CASE GoesIdle \/ WorkBegins
  <2>1. PICK s \in Status, k \in {"status", "activity"} : chan' = Reported(<<Say(k, 0, s)>>)
    BY <1>3 DEF GoesIdle, WorkBegins, Status
  <2> DEFINE rs == <<Say(k, 0, s)>>
  <2>2. rs \in Seq(Report) /\ \A r \in In(rs) : Named(r) /\ r.k \notin {"closed", "ended"}
    BY DEF Say
  <2>3. chan' = Reported(rs) /\ agent'.begun = agent.begun /\ agent'.doing = agent.doing
    BY <1>0, <1>3, <2>1 DEF GoesIdle, WorkBegins, Agents
  <2> HIDE DEF rs
  <2>4. Speaks
    BY <2>2, <2>3, SpeakFacts
  <2>5. QED
    BY <2>3, <2>4, AgentKinds
<1>4. CASE TranscriptChanges
  <2> DEFINE rs == <<Say("retold", 0, "none")>>
  <2>1. rs \in Seq(Report) /\ \A r \in In(rs) : Named(r) /\ r.k \notin {"closed", "ended"}
    BY DEF Status, Say
  <2>2. chan' = Reported(rs) /\ agent' = agent
    BY <1>4 DEF TranscriptChanges
  <2> HIDE DEF rs
  <2>3. Speaks
    BY <2>1, <2>2, SpeakFacts
  <2>4. QED
    BY <2>2, <2>3, AgentKinds
<1>5. QED
  BY <1>1, <1>2, <1>3, <1>4 DEF AgentNext

LEMMA CommandSpeaks ==
  ASSUME Types, agent.doing <= agent.begun, Commanding
  PROVE  AgentGrows /\ Speaks
<1>1. CASE UNCHANGED <<agent, chan>>
  BY <1>1, AgentKinds DEF Speaks
<1>2. CASE Start
  <2>1. PICK rs \in Seq(Report) :
          /\ chan' = Reported(rs) /\ \A r \in In(rs) : Named(r)
          /\ \A r \in In(rs) : r.k \notin {"closed", "ended"}
    BY <1>2, SentReports
  <2>2. Speaks
    BY <2>1, SpeakFacts
  <2>3. QED
    BY <1>2, <2>2, SentReports, AgentKinds
<1>3. QED
  BY <1>1, <1>2, CommandFrame

-----------------------------------------------------------------------------
(* Steps that leave the holder of the lock where it is.                    *)

HeadSame == op' = op /\ (line # <<>> => line' # <<>> /\ Head(line') = Head(line))

LEMMA HolderSame ==
  ASSUME Types, HeadSame
  PROVE  (Opening' <=> Opening) /\ (Closing' <=> Closing)
BY DEF HeadSame, Opening, Closing, req, Types, LineType, Opens

LEMMA Numbers ==
  ASSUME Types
  PROVE  /\ link.conn \in Nat /\ link.conn # 0 /\ entry.gen \in Nat /\ op.gen \in Nat /\ cmd.gen \in Nat
         /\ link.conn \in Generations /\ cmd.gen \in Generations
         /\ \A r \in In(line) : r.gen \in Nat
<1>1. link.conn \in Generations /\ op.gen \in Generations /\ cmd.gen \in Generations /\ entry.gen \in Nat
  BY Constants DEF Types, AgentType, Links, EntryType, Entries, Ops, Cmds
<1>2. In(line) \subseteq Request
  BY InSubset DEF Types, LineType
<1>3. \A r \in In(line) : r.gen \in Generations
  BY <1>2 DEF Request
<1>4. QED
  BY <1>1, <1>3, Constants

LEMMA QuietLine ==
  ASSUME Types, LineInv, HeadSame, kind' = kind, link'.conn \in Nat, link.conn <= link'.conn,
         entry'.gen = entry.gen, entry'.life = entry.life \/ entry'.life # "Subscribed",
         cmd'.gen = cmd.gen \/ cmd'.gen <= link'.conn,
         \A r \in In(line') : r \in In(line) \/ r.gen <= link'.conn,
         kind = "claude" => link'.up /\ link'.conn = 1
  PROVE  LineInv'
<1>1. op' = op /\ (Opening' <=> Opening) /\ (Closing' <=> Closing)
  BY HolderSame DEF HeadSame
<1>2. /\ entry'.gen <= link'.conn /\ op'.gen <= link'.conn /\ cmd'.gen <= link'.conn
      /\ \A r \in In(line') : r.gen <= link'.conn
  BY <1>1, Numbers DEF LineInv
<1>3. QED
  BY <1>1, <1>2 DEF LineInv

LEMMA QuietEffect ==
  ASSUME Types, EffectInv, HeadSame, Met("lag") => Met("lag")',
         entry'.life = entry.life \/ entry'.life \notin {"Subscribing", "Unsubscribing"},
         op.pc # "idle" /\ entry'.life = entry.life /\ entry.life \in {"Subscribing", "Unsubscribing"} /\ Unmoved
           => Unmoved'
  PROVE  EffectInv'
<1>1. op' = op /\ (Opening' <=> Opening) /\ (Closing' <=> Closing)
  BY HolderSame DEF HeadSame
<1>2. (Opening => op.pc # "idle") /\ (Closing => op.pc # "idle")
  BY DEF Opening, Closing
<1>3. QED
  BY <1>1, <1>2 DEF EffectInv

LEMMA QuietWatch ==
  ASSUME Types, WatchInv, HeadSame, link'.conn = link.conn, CloseTold' => Met("exit")',
         Watching' => Watching, op.pc # "idle" /\ Unmoved' => Unmoved,
         Heard => Heard' \/ (~Watching' /\ (op.pc # "idle" => ~Unmoved'))
  PROVE  WatchInv'
<1>1. op' = op /\ (Opening' <=> Opening)
  BY HolderSame DEF HeadSame
<1>2. Opening => op.pc # "idle"
  BY DEF Opening
<1>3. QED
  BY <1>1, <1>2 DEF WatchInv

LEMMA QuietEnd ==
  ASSUME Types, LineInv, EndInv, AgentGrows, op' = op,
         \A t \in Turns : SaidEnded(t)' => SaidEnded(t) \/ Ended(t)',
         \A t \in Turns : entry'.page[t] = "done" => entry.page[t] = "done" \/ cmd.page[t] = "done" \/ Ended(t),
         \A t \in Turns : cmd'.page[t] = "done" => cmd.page[t] = "done" \/ Ended(t),
         op.pc # "idle" => /\ "revision" \in moved["op"] => "revision" \in moved'["op"]
                           /\ entry'.page # entry.page => "revision" \in moved'["op"]
  PROVE  EndInv'
<1>1. agent'.doing <= agent'.begun /\ \A t \in Turns : Ended(t) => Ended(t)'
  BY DEF AgentGrows
<1>2. op.pc = "idle" => \A t \in Turns : op.page[t] = "none"
  BY PageFacts DEF LineInv
<1>3. ASSUME NEW t \in Turns,
             entry'.page[t] = "done" \/ op'.page[t] = "done" \/ cmd'.page[t] = "done" \/ SaidEnded(t)'
      PROVE  Ended(t)'
  BY <1>1, <1>3 DEF EndInv
<1>4. ASSUME NEW t \in Turns, op'.page[t] = "running" /\ entry'.page[t] = "done"
      PROVE  "revision" \in moved'["op"]
  BY <1>2, <1>4 DEF EndInv
<1>5. QED
  BY <1>1, <1>3, <1>4 DEF EndInv

LEMMA HistoryEnded ==
  ASSUME Types, NEW t \in Turns, History[t] = "done"
  PROVE  Ended(t)
BY Constants DEF History, Ended, Types, AgentType, Agents, TurnOrNone, Turns

\* What a step that tells or takes reports makes of those said.
LEMMA SaidFacts ==
  /\ Speaks => \A t \in Turns : SaidEnded(t)' => SaidEnded(t) \/ Ended(t)'
  /\ Takes => \A t \in Turns : SaidEnded(t)' => SaidEnded(t)
  /\ chan' = chan => Takes
  /\ Speaks /\ kind' = kind => (CloseTold' <=> CloseTold)
  /\ Takes /\ kind' = kind => (CloseTold' => CloseTold)
  /\ chan' = chan /\ kind' = kind => (CloseTold' <=> CloseTold)
<1>1. 1 \in Generations
  BY Constants
<1>2. Speaks => \A t \in Turns : SaidEnded(t)' => SaidEnded(t) \/ Ended(t)'
  BY DEF Speaks, SaidEnded
<1>3. Takes => \A t \in Turns : SaidEnded(t)' => SaidEnded(t)
  BY DEF Takes, SaidEnded
<1>4. Speaks /\ kind' = kind => (CloseTold' <=> CloseTold)
  BY <1>1 DEF Speaks, CloseTold
<1>5. Takes /\ kind' = kind => (CloseTold' => CloseTold)
  BY <1>1 DEF Takes, CloseTold
<1>6. chan' = chan => Takes
  BY DEF Takes
<1>7. chan' = chan /\ kind' = kind => (CloseTold' <=> CloseTold)
  BY DEF CloseTold
<1>8. QED
  BY <1>2, <1>3, <1>4, <1>5, <1>6, <1>7

LEMMA MetFacts ==
  ASSUME Types
  PROVE  /\ faults' = faults => \A k : Met(k)' <=> Met(k)
         /\ \A f \in {"exit", "call", "lag"} : faults' = Append(faults, f) =>
              \A k : Met(k)' <=> Met(k) \/ k = f
<1>1. \A k : Met(k) <=> k \in In(faults)
  BY DEF Met, In
<1>2. \A k : Met(k)' <=> k \in In(faults')
  BY DEF Met, In
<1>3. faults \in Seq({"exit", "call", "lag"})
  BY DEF Types, FaultType
<1>4. ASSUME NEW f \in {"exit", "call", "lag"}, faults' = Append(faults, f)
      PROVE  In(faults') = In(faults) \cup {f}
  BY <1>3, <1>4, InAppend
<1>5. QED
  BY <1>1, <1>2, <1>4

LEMMA SameHead ==
  ASSUME Types
  PROVE  op' = op /\ line' = line => HeadSame
BY DEF HeadSame

LEMMA InitInv == Init => Inv
<1> SUFFICES ASSUME Init PROVE Inv
  OBVIOUS
<1> USE PageFacts, InShort, Constants DEF Init
<1>1. op.pc = "idle" /\ op.gen = 1 /\ op.page = NoPage /\ cmd.page = NoPage /\ cmd.gen = 1 /\ entry.gen = 0
      /\ entry.page = NoPage /\ entry.life = "Unloaded"
  BY DEF Idle, NoCommand
<1>2. ~Opening /\ ~Closing /\ ~Watching /\ ~CloseTold
  BY <1>1 DEF Opening, Closing, Watching, Subscribed, CloseTold
<1>3. LineInv
  BY <1>1, <1>2 DEF LineInv
<1>4. EffectInv /\ WatchInv
  BY <1>1, <1>2 DEF EffectInv, WatchInv
<1>5. EndInv
  <2>1. \A t \in Turns : ~SaidEnded(t)
    BY DEF SaidEnded
  <2>2. \A t \in Turns : entry.page[t] = "none" /\ op.page[t] = "none" /\ cmd.page[t] = "none"
    BY <1>1
  <2>3. QED
    BY <2>1, <2>2 DEF EndInv
<1>6. QED
  BY <1>3, <1>4, <1>5 DEF Inv

LEMMA TurnInv ==
  ASSUME Types, Inv, AgentNext
  PROVE  Inv'
<1> USE DEF Inv
<1>1. UNCHANGED <<kind, link, observer, restore, entry, viewers, boots, line, op, cmd, moved, faults>>
  BY DEF AgentNext, TurnBegins, TurnEnds, GoesIdle, WorkBegins, TranscriptChanges
<1>2. AgentGrows /\ Speaks
  BY TurnSteps DEF EndInv
<1>3. LineInv'
  BY <1>1, QuietLine, SameHead, Numbers DEF LineInv
<1>4. EffectInv'
  BY <1>1, QuietEffect, SameHead, MetFacts DEF Unmoved
<1>5. WatchInv'
  <2>1. CloseTold' <=> CloseTold
    BY <1>1, <1>2, SaidFacts
  <2>2. (Watching' <=> Watching) /\ (Heard => Heard') /\ (Met("exit")' <=> Met("exit")) /\ (Unmoved' <=> Unmoved)
    BY <1>1, <2>1, MetFacts DEF Watching, Subscribed, Heard, Unmoved
  <2>3. QED
    BY <1>1, <2>1, <2>2, QuietWatch, SameHead DEF WatchInv
<1>6. EndInv'
  BY <1>1, <1>2, SaidFacts, QuietEnd
<1>7. QED
  BY <1>3, <1>4, <1>5, <1>6

LEMMA LostInv ==
  ASSUME Types, Inv, ConnectionLost
  PROVE  Inv'
<1> USE DEF Inv
<1>1. /\ UNCHANGED <<kind, restore, entry, viewers, boots, line, op, cmd, moved, faults>>
      /\ link'.conn = link.conn /\ ~link'.up /\ kind = "codex"
  BY DEF ConnectionLost, Types, AgentType, Links
<1>2. Speaks /\ AgentGrows
  <2> DEFINE g == link.conn
             r == Say("lost", 0, "none")
  <2>1. g \in Generations /\ chan[g] \in Seq(Report) /\ r \in Report /\ r.k = "lost"
    BY SayFacts DEF Types, AgentType, ChanType, Links, Status, Say
  <2>2. chan' = [chan EXCEPT ![g] = Append(chan[g], r)] /\ chan \in [Generations -> Seq(Report)]
    BY DEF ConnectionLost, Types, ChanType
  <2>3. AgentGrows
    BY AgentKinds DEF ConnectionLost, EndInv
  <2> HIDE DEF g, r
  <2>4. In(Append(chan[g], r)) = In(chan[g]) \cup {r}
    BY <2>1, InAppend
  <2>5. \A h \in Generations : In(chan'[h]) = IF h = g THEN In(chan[h]) \cup {r} ELSE In(chan[h])
    BY <2>1, <2>2, <2>4
  <2>6. QED
    BY <2>1, <2>3, <2>5 DEF Speaks
<1>3. LineInv'
  BY <1>1, QuietLine, SameHead, Numbers DEF LineInv
<1>4. EffectInv'
  BY <1>1, QuietEffect, SameHead, MetFacts DEF Unmoved
<1>5. WatchInv'
  <2>1. CloseTold' <=> CloseTold
    BY <1>1, <1>2, SaidFacts
  <2>2. Heard'
    BY <1>1 DEF Heard
  <2>3. QED
    BY <1>1, <2>1, <2>2, MetFacts DEF WatchInv
<1>6. EndInv'
  BY <1>1, <1>2, SaidFacts, QuietEnd
<1>7. QED
  BY <1>3, <1>4, <1>5, <1>6

LEMMA ConnectedInv ==
  ASSUME Types, Inv, Connected
  PROVE  Inv'
<1> USE DEF Inv
<1>1. /\ UNCHANGED <<kind, agent, chan, observer, entry, viewers, boots, line, op, cmd, moved, faults>>
      /\ link'.conn = link.conn + 1 /\ link'.up /\ ~link'.watched /\ ~link.up
  BY DEF Connected
<1>2. kind # "claude"
  BY <1>1 DEF LineInv
<1>3. LineInv'
  <2>1. \A r \in In(line') : r \in In(line)
    BY <1>1
  <2>2. link'.conn \in Nat /\ link.conn <= link'.conn
    BY <1>1, Numbers
  <2>3. QED
    BY <1>1, <1>2, <2>1, <2>2, QuietLine, SameHead
<1>4. EffectInv'
  BY <1>1, QuietEffect, SameHead, MetFacts DEF Unmoved
<1>5. WatchInv'
  <2>1. ~CloseTold'
    BY <1>1, <1>2 DEF CloseTold
  <2>2. entry.gen # link'.conn /\ op.gen # link'.conn
    BY <1>1, Numbers DEF LineInv
  <2>3. QED
    BY <1>1, <2>1, <2>2 DEF WatchInv, Watching, Subscribed
<1>6. EndInv'
  BY <1>1, SaidFacts, QuietEnd, AgentKinds DEF EndInv
<1>7. QED
  BY <1>3, <1>4, <1>5, <1>6

LEMMA SessionEndsInv ==
  ASSUME Types, Inv, SessionEnds
  PROVE  Inv'
<1> USE DEF Inv
<1>1. /\ UNCHANGED <<kind, observer, restore, entry, viewers, boots, line, op, cmd, moved>>
      /\ link' = [link EXCEPT !.watched = FALSE] /\ link.watched /\ kind = "claude"
      /\ faults' = Append(faults, "exit")
  BY DEF SessionEnds
<1>2. link'.conn = link.conn /\ link'.up = link.up /\ link.up /\ link.conn = 1
  BY <1>1 DEF Types, AgentType, Links, LineInv
<1>3. \A k : Met(k)' <=> Met(k) \/ k = "exit"
  BY <1>1, MetFacts
<1> DEFINE first == IF agent.doing # 0 THEN <<Say("ended", agent.doing, "none")>> ELSE <<>>
           last == <<Say("status", 0, "idle"), Say("closed", 0, "none")>>
           only == <<Say("closed", 0, "none")>>
<1>4. AgentGrows /\ (agent' = Gone => \A t \in Turns : t = agent.doing => Ended(t)')
  BY AgentKinds DEF SessionEnds, EndInv
<1>5. PICK rs \in Seq(Report) :
         /\ chan' = Reported(rs) /\ \A r \in In(rs) : Named(r)
         /\ \A r \in In(rs) : r.k = "ended" => r.t = agent.doing /\ agent' = Gone
         /\ \E r \in In(rs) : r.k = "closed"
  <2> USE SayFacts, InShort
  <2>1. first \in Seq(Report) /\ \A r \in In(first) : Named(r) /\ (r.k = "ended" => r.t = agent.doing)
    BY DEF Say
  <2>2. last \in Seq(Report) /\ (\A r \in In(last) : Named(r) /\ r.k # "ended") /\ \E r \in In(last) : r.k = "closed"
    BY DEF Status, Say
  <2>3. only \in Seq(Report) /\ (\A r \in In(only) : Named(r) /\ r.k # "ended") /\ \E r \in In(only) : r.k = "closed"
    BY DEF Status, Say
  <2>4. (agent' = Gone /\ chan' = Reported(first \o last)) \/ chan' = Reported(only)
    BY DEF SessionEnds
  <2> HIDE DEF first, last, only
  <2>5. first \o last \in Seq(Report) /\ In(first \o last) = In(first) \cup In(last)
    BY <2>1, <2>2, InConcat
  <2>6. CASE agent' = Gone /\ chan' = Reported(first \o last)
    BY <2>1, <2>2, <2>5, <2>6
  <2>7. CASE chan' = Reported(only)
    BY <2>3, <2>7
  <2>8. QED
    BY <2>4, <2>6, <2>7
<1> HIDE DEF first, last, only
<1>6. /\ \A g \in Generations : In(chan'[g]) \subseteq In(chan[g]) \cup In(rs)
      /\ In(chan'[1]) = In(chan[1]) \cup In(rs)
  BY <1>1, <1>2, <1>5, ReportedFacts
<1>7. LineInv'
  BY <1>1, <1>2, QuietLine, SameHead, Numbers DEF LineInv
<1>8. EffectInv'
  BY <1>1, <1>3, QuietEffect, SameHead DEF Unmoved
<1>9. WatchInv'
  <2>1. CloseTold'
    BY <1>1, <1>5, <1>6 DEF CloseTold
  <2>2. Heard' /\ Met("exit")'
    BY <1>3, <2>1 DEF Heard
  <2>3. QED
    BY <2>2 DEF WatchInv
<1>10. EndInv'
  <2>1. \A t \in Turns : SaidEnded(t)' => SaidEnded(t) \/ Ended(t)'
    <3> SUFFICES ASSUME NEW t \in Turns, NEW g \in Generations, NEW r \in In(chan'[g]), r.k = "ended" /\ r.t = t
                 PROVE  SaidEnded(t) \/ Ended(t)'
      BY DEF SaidEnded
    <3>1. CASE r \in In(chan[g])
      BY <3>1 DEF SaidEnded
    <3>2. CASE r \in In(rs)
      BY <1>4, <1>5, <3>2
    <3>3. QED
      BY <1>6, <3>1, <3>2
  <2>2. QED
    BY <1>1, <1>4, <2>1, QuietEnd
<1>11. QED
  BY <1>7, <1>8, <1>9, <1>10

LEMMA LagInv ==
  ASSUME Types, Inv, NEW n \in 0..MaxReports, Lag(n)
  PROVE  Inv'
<1> USE DEF Inv
<1>1. UNCHANGED <<kind, agent, link, observer, restore, entry, viewers, boots, line, op, cmd>>
      /\ kind = "claude" /\ faults' = Append(faults, "lag")
  BY DEF Lag
<1>2. \A k : Met(k)' <=> Met(k) \/ k = "lag"
  BY <1>1, MetFacts
<1>3. Takes
  BY LagTypes DEF Takes
<1>4. moved' = moved \/ Mark({"epoch"})
  BY DEF Lag
<1>5. LineInv'
  BY <1>1, QuietLine, SameHead, Numbers DEF LineInv
<1>6. EffectInv'
  BY <1>2 DEF EffectInv
<1>7. WatchInv'
  <2>1. CloseTold' => CloseTold
    BY <1>1, <1>3, SaidFacts
  <2>2. Heard => Heard'
    BY <1>1, <1>2 DEF Heard, WatchInv
  <2>3. op.pc # "idle" /\ Unmoved' => Unmoved
    BY <1>4, MarkAdds DEF Unmoved, Marks
  <2>4. (Watching' <=> Watching) /\ (Met("exit") => Met("exit")')
    BY <1>1, <1>2 DEF Watching, Subscribed
  <2>5. QED
    BY <1>1, <2>1, <2>2, <2>3, <2>4, QuietWatch, SameHead DEF WatchInv
<1>8. EndInv'
  <2>1. op.pc # "idle" /\ "revision" \in moved["op"] => "revision" \in moved'["op"]
    BY <1>4, MarkAdds DEF Marks
  <2>2. QED
    BY <1>1, <1>3, <2>1, SaidFacts, QuietEnd, AgentKinds DEF EndInv
<1>9. QED
  BY <1>5, <1>6, <1>7, <1>8

\* A report, or the observer, tells the session; the lock stays where it is.
ReportStep(g) ==
  /\ UNCHANGED <<kind, agent, link, op, cmd, faults>> /\ HeadSame /\ Takes
  /\ \A r \in In(line') : r \in In(line) \/ r.gen \in {1, entry.gen}
  /\ entry' \in Entries /\ entry'.gen = entry.gen /\ KeepsDone(entry.page, entry'.page)
  /\ \A t \in Turns : entry'.page[t] = "done" => entry.page[t] = "done" \/ SaidEnded(t)
  /\ op.pc # "idle" => /\ moved["op"] \subseteq moved'["op"]
                       /\ entry'.page # entry.page => "revision" \in moved'["op"]
  /\ \/ entry'.life = entry.life /\ (CloseTold => CloseTold')
        /\ (op.pc # "idle" /\ "epoch" \in moved'["op"] => "epoch" \in moved["op"])
     \/ entry'.life \in {"Unloaded", "Error"} /\ (op.pc # "idle" => "epoch" \in moved'["op"])

LEMMA ObserverStep ==
  ASSUME Types, NEW g \in Generations, ObserverTells(g)
  PROVE  ReportStep(g)
<1>1. UNCHANGED <<kind, agent, link, chan, line, op, cmd, faults>> /\ LoseConnection(g)
  BY DEF ObserverTells
<1>2. entry' \in Entries /\ entry'.gen = entry.gen /\ entry'.page = entry.page
      /\ \/ entry' = entry /\ moved' = moved
         \/ entry'.life = "Error" /\ Mark({"epoch", "revision"})
  BY <1>1, LoseConnectionFacts
<1>3. Takes /\ (CloseTold => CloseTold')
  BY <1>1, SaidFacts
<1>4. op.pc # "idle" /\ Mark({"epoch", "revision"}) => moved'["op"] = moved["op"] \cup {"epoch", "revision"}
  BY MarkAdds DEF Marks
<1>5. QED
  BY <1>1, <1>2, <1>3, <1>4, SameHead DEF ReportStep, KeepsDone

LEMMA DeliverStep ==
  ASSUME Types, NEW g \in Generations, Deliver(g)
  PROVE  ReportStep(g)
<1>1. UNCHANGED <<kind, agent, link, op, cmd, faults>> /\ Takes
  BY DeliverTypes DEF Deliver, Takes
<1>2. PICK r : r = Head(chan[g])
  OBVIOUS
<1>3. /\ chan \in [Generations -> Seq(Report)] /\ chan[g] \in Seq(Report) /\ chan[g] # <<>>
      /\ chan' = [chan EXCEPT ![g] = Tail(chan[g])] /\ r \in Report /\ r \in In(chan[g])
      /\ In(chan[g]) = {r} \cup In(Tail(chan[g]))
  BY <1>2, InTail DEF Deliver, Types, ChanType
<1>4. r.k # "closed" => (CloseTold => CloseTold')
  <2> SUFFICES ASSUME r.k # "closed", kind = "claude", NEW s \in In(chan[1]), s.k = "closed"
               PROVE  \E x \in In(chan'[1]) : x.k = "closed"
    BY <1>1 DEF CloseTold
  <2>1. 1 \in Generations
    BY Constants
  <2>2. CASE g = 1
    BY <1>3, <2>1, <2>2
  <2>3. CASE g # 1
    BY <1>3, <2>1, <2>3
  <2>4. QED
    BY <2>2, <2>3
<1>5. entry \in Entries /\ line \in Seq(Request)
  BY DEF Types, EntryType, LineType
<1>6. CASE r.k \notin {"lost", "closed", "retold"} /\ UNCHANGED <<entry, line, moved>>
  BY <1>1, <1>4, <1>5, <1>6, SameHead DEF ReportStep, KeepsDone
<1>7. CASE entry.gen = g /\ SessionReport(g, r)
  <2>1. /\ entry' \in Entries /\ entry'.life = entry.life /\ entry'.gen = entry.gen
        /\ KeepsDone(entry.page, entry'.page)
        /\ \A t \in Turns : entry'.page[t] = "done" => entry.page[t] = "done" \/ (r.k = "ended" /\ r.t = t)
        /\ line' = line \/ line' = Queue("bridge", "Close", g)
    BY <1>3, <1>7, SessionReportFacts
  <2>2. \A t \in Turns : r.k = "ended" /\ r.t = t => SaidEnded(t)
    BY <1>3 DEF SaidEnded
  <2>3. r.k # "closed"
    BY <1>7 DEF SessionReport
  <2>4. HeadSame /\ \A s \in In(line') : s \in In(line) \/ s.gen = g
    <3>1. CASE line' = line
      BY <1>1, <3>1, SameHead
    <3>2. CASE line' = Queue("bridge", "Close", g)
      <4>1. PICK s \in Request : s = [by |-> "bridge", kind |-> "Close", gen |-> g]
        BY DEF Request
      <4>2. line' = Append(line, s) /\ s.gen = g
        BY <3>2, <4>1 DEF Queue
      <4>3. QED
        BY <1>1, <4>2, QueueFacts DEF HeadSame
    <3>3. QED
      BY <2>1, <3>1, <3>2
  <2>5. op.pc # "idle" => /\ moved["op"] \subseteq moved'["op"]
                          /\ entry'.page # entry.page => "revision" \in moved'["op"]
                          /\ "epoch" \in moved'["op"] => "epoch" \in moved["op"]
    <3>1. CASE Ignored(entry, r)
      BY <1>7, <3>1 DEF SessionReport
    <3>2. CASE ~Ignored(entry, r)
      <4>1. Mark(Touches(r)) /\ Touches(r) \in SUBSET Marks /\ "revision" \in Touches(r) /\ "epoch" \notin Touches(r)
        BY <1>7, <3>2 DEF SessionReport, Touches, Marks
      <4>2. QED
        BY <4>1, MarkAdds
    <3>3. QED
      BY <3>1, <3>2
  <2>6. QED
    BY <1>1, <1>4, <1>7, <2>1, <2>2, <2>3, <2>4, <2>5 DEF ReportStep
<1>8. CASE ClosedReport(r)
  <2>1. entry' \in Entries /\ entry'.gen = entry.gen /\ entry'.page = entry.page /\ entry'.life = "Unloaded"
        /\ Mark({"epoch", "revision"}) /\ line' = line
    BY <1>8, NeedsOpeningFacts DEF ClosedReport
  <2>2. op.pc # "idle" => moved'["op"] = moved["op"] \cup {"epoch", "revision"}
    BY <2>1, MarkAdds DEF Marks
  <2>3. QED
    BY <1>1, <2>1, <2>2, SameHead DEF ReportStep, KeepsDone
<1>9. CASE RetoldReport(r)
  <2>1. PICK s \in Request : s = [by |-> "retold", kind |-> "Latest", gen |-> 1]
    BY Constants DEF Request
  <2>2. line' = Append(line, s) /\ s.gen = 1 /\ entry' = entry /\ moved' = moved /\ r.k = "retold"
    BY <1>9, <2>1 DEF RetoldReport, Queue
  <2>3. HeadSame /\ \A x \in In(line') : x \in In(line) \/ x.gen = 1
    BY <1>1, <2>2, QueueFacts DEF HeadSame
  <2>4. QED
    BY <1>1, <1>4, <1>5, <2>2, <2>3 DEF ReportStep, KeepsDone
<1>10. CASE r.k = "lost" /\ LoseConnection(g) /\ UNCHANGED line
  <2>1. entry' \in Entries /\ entry'.gen = entry.gen /\ entry'.page = entry.page
        /\ \/ entry' = entry /\ moved' = moved
           \/ entry'.life = "Error" /\ Mark({"epoch", "revision"})
    BY <1>10, LoseConnectionFacts
  <2>2. op.pc # "idle" /\ Mark({"epoch", "revision"}) => moved'["op"] = moved["op"] \cup {"epoch", "revision"}
    BY MarkAdds DEF Marks
  <2>3. QED
    BY <1>1, <1>4, <1>10, <2>1, <2>2, SameHead DEF ReportStep, KeepsDone
<1>11. QED
  BY <1>2, <1>6, <1>7, <1>8, <1>9, <1>10 DEF Deliver

LEMMA ReportInv ==
  ASSUME Types, Inv, NEW g \in Generations, ReportStep(g)
  PROVE  Inv'
<1> USE DEF Inv
<1>1. UNCHANGED <<kind, agent, link, op, cmd, faults>> /\ HeadSame /\ Takes
  BY DEF ReportStep
<1>2. LineInv'
  <2>1. \A r \in In(line') : r \in In(line) \/ r.gen <= link'.conn
    BY <1>1, Numbers DEF ReportStep, LineInv
  <2>2. QED
    BY <1>1, <2>1, QuietLine, Numbers DEF LineInv, ReportStep
<1>3. EffectInv'
  <2>1. \/ entry'.life = entry.life /\ (op.pc # "idle" /\ Unmoved => Unmoved')
        \/ entry'.life \notin {"Subscribing", "Unsubscribing"}
    BY DEF ReportStep, Unmoved
  <2>2. Met("lag") => Met("lag")'
    BY <1>1, MetFacts
  <2>3. QED
    BY <1>1, <2>1, <2>2, QuietEffect
<1>4. WatchInv'
  <2>1. CloseTold' => CloseTold
    BY <1>1, SaidFacts
  <2>2. (Watching' => Watching) /\ (Met("exit")' <=> Met("exit")) /\ (op.pc # "idle" /\ Unmoved' => Unmoved)
    BY <1>1, MetFacts DEF Watching, Subscribed, ReportStep, Unmoved
  <2>3. Heard => Heard' \/ (~Watching' /\ (op.pc # "idle" => ~Unmoved'))
    <3>1. CASE CloseTold => CloseTold'
      BY <1>1, <3>1, MetFacts DEF Heard
    <3>2. CASE entry'.life \in {"Unloaded", "Error"} /\ (op.pc # "idle" => "epoch" \in moved'["op"])
      BY <3>2 DEF Watching, Subscribed, Unmoved
    <3>3. QED
      BY <3>1, <3>2 DEF ReportStep
  <2>4. QED
    BY <1>1, <2>1, <2>2, <2>3, QuietWatch DEF WatchInv
<1>5. EndInv'
  <2>1. \A t \in Turns : SaidEnded(t) => Ended(t)
    BY DEF EndInv
  <2>2. QED
    BY <1>1, <2>1, SaidFacts, QuietEnd, AgentKinds DEF EndInv, ReportStep
<1>6. QED
  BY <1>2, <1>3, <1>4, <1>5

LEMMA ViewInv ==
  ASSUME Types, Inv, Viewing
  PROVE  Inv'
<1> USE DEF Inv
<1>1. /\ UNCHANGED <<kind, agentVars, op, cmd, moved, faults>>
      /\ entry'.life = entry.life /\ entry'.gen = entry.gen /\ entry'.page = entry.page /\ LineStep
  BY ViewFacts
<1>2. HeadSame /\ UNCHANGED <<agent, link, chan>>
  BY <1>1 DEF HeadSame, LineStep, agentVars
<1>3. LineInv'
  <2>1. \A r \in In(line') : r \in In(line) \/ r.gen <= link'.conn
    BY <1>1, <1>2, Numbers DEF LineStep, LineInv
  <2>2. QED
    BY <1>1, <1>2, <2>1, QuietLine, Numbers DEF LineInv
<1>4. EffectInv'
  BY <1>1, <1>2, QuietEffect, MetFacts DEF Unmoved
<1>5. WatchInv'
  <2>1. CloseTold' <=> CloseTold
    BY <1>1, <1>2, SaidFacts
  <2>2. (Watching' <=> Watching) /\ (Met("exit")' <=> Met("exit")) /\ (Unmoved' <=> Unmoved) /\ (Heard => Heard')
    BY <1>1, <1>2, <2>1, MetFacts DEF Watching, Subscribed, Unmoved, Heard
  <2>3. QED
    BY <1>2, <2>1, <2>2, QuietWatch DEF WatchInv
<1>6. EndInv'
  BY <1>1, <1>2, SaidFacts, QuietEnd, AgentKinds DEF EndInv
<1>7. QED
  BY <1>3, <1>4, <1>5, <1>6

LEMMA CommandInv ==
  ASSUME Types, Inv, Commanding
  PROVE  Inv'
<1> USE DEF Inv
<1>1. UNCHANGED <<kind, op, faults>> /\ LinkSame /\ CommandStep
  BY CommandFrame, CommandLink, CommandSteps
<1>2. AgentGrows /\ Speaks
  BY CommandSpeaks DEF EndInv
<1>3. HeadSame
  BY <1>1 DEF HeadSame, CommandStep, LineStep
<1>4. entry'.life = entry.life /\ entry'.gen = entry.gen
  BY <1>1 DEF CommandStep, EntryStep
<1>5. op.pc # "idle" => (Unmoved' <=> Unmoved)
  BY <1>1 DEF CommandStep, MovedStep, Unmoved
<1>6. LineInv'
  <2>1. cmd'.gen <= link'.conn /\ \A r \in In(line') : r \in In(line) \/ r.gen <= link'.conn
    BY <1>1, Numbers DEF LinkSame, CommandStep, CmdStep, LineStep, LineInv
  <2>2. QED
    BY <1>1, <1>3, <1>4, <2>1, QuietLine, Numbers DEF LinkSame, LineInv
<1>7. EffectInv'
  BY <1>1, <1>3, <1>4, <1>5, QuietEffect, MetFacts
<1>8. WatchInv'
  <2>1. CloseTold' <=> CloseTold
    BY <1>1, <1>2, SaidFacts
  <2>2. (Watching' <=> Watching) /\ (Met("exit")' <=> Met("exit")) /\ (Heard => Heard')
    BY <1>1, <1>4, <2>1, MetFacts DEF LinkSame, Watching, Subscribed, Heard
  <2>3. QED
    BY <1>1, <1>3, <1>5, <2>1, <2>2, QuietWatch DEF LinkSame, WatchInv
<1>9. EndInv'
  <2>1. \A t \in Turns : cmd'.page[t] = "done" => cmd.page[t] = "done" \/ Ended(t)
    BY <1>1, HistoryEnded, PageFacts DEF CommandStep, CmdStep
  <2>2. \A t \in Turns : entry'.page[t] = "done" => entry.page[t] = "done" \/ cmd.page[t] = "done" \/ Ended(t)
    BY <1>1 DEF CommandStep, EntryStep
  <2>3. op.pc # "idle" => /\ "revision" \in moved["op"] => "revision" \in moved'["op"]
                          /\ entry'.page # entry.page => "revision" \in moved'["op"]
    BY <1>1 DEF CommandStep, MovedStep
  <2>4. QED
    BY <1>1, <1>2, <2>1, <2>2, <2>3, SaidFacts, QuietEnd
<1>10. QED
  BY <1>6, <1>7, <1>8, <1>9

-----------------------------------------------------------------------------
(* Steps of the provider, and of the operation lock.                       *)

\* What an answer, or its failure, makes of the operation in flight.
LEMMA ProviderFacts ==
  ASSUME Types, LineInv, ProviderOpens \/ ProviderReads \/ ProviderCloses \/ CallFails
  PROVE  /\ op.pc \in {"calling", "reading", "answered"} /\ op'.pc \in {"reading", "answered", "refused"}
         /\ op'.gen = op.gen /\ op'.kept = op.kept
         /\ op'.page \in {NoPage, History, op.page} /\ (op'.pc = "reading" => op'.page = NoPage /\ Opening)
         /\ link'.conn = link.conn /\ link'.up = link.up
         /\ \/ link'.watched
            \/ link' = link /\ op'.pc # "reading" /\ (op'.pc = "answered" /\ Opening => op.pc = "reading")
            \/ Closing
         /\ faults' = faults \/ faults' = Append(faults, "call")
<1>1. op \in Ops /\ link \in Links
  BY DEF Types, EntryType, AgentType
<1>2. CASE ProviderOpens
  BY <1>1, <1>2 DEF ProviderOpens, Opening, Ops, Links
<1>3. CASE ProviderReads
  <2>1. op' = [op EXCEPT !.pc = "answered", !.page = History] /\ link' = link /\ faults' = faults
        /\ (op.pc = "reading" \/ (op.pc = "calling" /\ req.kind = "Latest"))
    BY <1>3 DEF ProviderReads, agentVars
  <2>2. op'.pc = "answered" /\ op'.gen = op.gen /\ op'.kept = op.kept /\ op'.page = History
    BY <1>1, <2>1 DEF Ops
  <2>3. Opening => op.pc = "reading"
    BY <2>1 DEF Opening, Opens
  <2>4. QED
    BY <2>1, <2>2, <2>3
<1>4. CASE ProviderCloses
  BY <1>1, <1>4 DEF ProviderCloses, Closing, Ops, Links, LineInv
<1>5. CASE CallFails
  BY <1>1, <1>5 DEF CallFails, agentVars, Ops, LineInv
<1>6. QED
  BY <1>2, <1>3, <1>4, <1>5

LEMMA ProviderInv ==
  ASSUME Types, Inv, ProviderOpens \/ ProviderReads \/ ProviderCloses \/ CallFails
  PROVE  Inv'
<1> USE DEF Inv
<1>1. UNCHANGED <<entry, line, cmd, moved, chan, agent, kind>>
  BY ProviderTypes
<1>2. /\ op.pc # "idle" /\ op'.pc # "idle" /\ op'.gen = op.gen /\ op'.kept = op.kept
      /\ op'.page \in {NoPage, History, op.page} /\ op'.pc # "calling" /\ (op'.pc = "reading" => op'.page = NoPage /\ Opening)
      /\ link'.conn = link.conn /\ link'.up = link.up
  BY ProviderFacts
<1>3. (Opening' <=> Opening) /\ (Closing' <=> Closing) /\ (CloseTold' <=> CloseTold) /\ (Unmoved' <=> Unmoved)
  BY <1>1, <1>2 DEF Opening, Closing, req, CloseTold, Unmoved
<1>4. (Met("lag")' <=> Met("lag")) /\ (Met("exit")' <=> Met("exit"))
  <2>1. faults' = faults \/ faults' = Append(faults, "call")
    BY ProviderFacts
  <2>2. QED
    BY <2>1, MetFacts
<1>5. LineInv'
  BY <1>1, <1>2, <1>3 DEF LineInv
<1>6. EffectInv'
  BY <1>1, <1>2, <1>3, <1>4 DEF EffectInv
<1>7. WatchInv'
  <2>1. CASE link'.watched
    BY <1>3, <1>4, <2>1 DEF WatchInv, Heard
  <2>2. CASE link' = link /\ op'.pc # "reading" /\ (op'.pc = "answered" /\ Opening => op.pc = "reading")
    <3>1. (Heard' <=> Heard) /\ (Watching' <=> Watching)
      BY <1>1, <1>3, <1>4, <2>2 DEF Heard, Watching, Subscribed
    <3>2. QED
      BY <1>2, <1>3, <1>4, <2>2, <3>1 DEF WatchInv
  <2>3. CASE Closing
    BY <1>1, <1>3, <1>4, <2>3 DEF WatchInv, LineInv, Closing, Opening, Opens, Watching, Subscribed
  <2>4. QED
    BY <2>1, <2>2, <2>3, ProviderFacts
<1>8. EndInv'
  <2>1. \A t \in Turns : Ended(t)' <=> Ended(t)
    BY <1>1 DEF Ended
  <2>2. \A t \in Turns : SaidEnded(t)' <=> SaidEnded(t)
    BY <1>1 DEF SaidEnded
  <2>3. \A t \in Turns : op'.page[t] = "done" => op.page[t] = "done" \/ Ended(t)
    BY <1>2, PageFacts, HistoryEnded
  <2>4. \A t \in Turns : op'.page[t] = "running" => op.page[t] = "running" \/ ~Ended(t)
    BY <1>2, PageFacts DEF History, Ended
  <2>5. QED
    BY <1>1, <2>1, <2>2, <2>3, <2>4 DEF EndInv
<1>9. QED
  BY <1>5, <1>6, <1>7, <1>8

\* The lock is let go.
LEMMA ReleaseInv ==
  ASSUME Types, Inv, UNCHANGED <<kind, agent, link, chan, faults>>, op' = Idle,
         In(line') \subseteq In(line), cmd'.gen = cmd.gen, cmd'.page = cmd.page,
         entry'.gen = entry.gen,
         entry'.life \notin {"Subscribing", "Unsubscribing"} \/ Met("lag"),
         Watching' => Heard,
         \A t \in Turns : entry'.page[t] = "done" => entry.page[t] = "done" \/ op.page[t] = "done"
  PROVE  Inv'
<1> USE DEF Inv
<1>1. op'.pc = "idle" /\ op'.page = NoPage /\ op'.gen = 1 /\ ~Opening' /\ ~Closing'
  BY DEF Idle, Opening, Closing
<1>2. (CloseTold' <=> CloseTold) /\ (Met("lag")' <=> Met("lag")) /\ (Met("exit")' <=> Met("exit"))
  BY MetFacts DEF CloseTold
<1>3. Heard' <=> Heard
  BY <1>2 DEF Heard
<1>4. LineInv'
  BY <1>1, Numbers DEF LineInv
<1>5. EffectInv'
  BY <1>2 DEF EffectInv
<1>6. WatchInv'
  BY <1>1, <1>2, <1>3 DEF WatchInv
<1>7. EndInv'
  <2>1. \A t \in Turns : (Ended(t)' <=> Ended(t)) /\ (SaidEnded(t)' <=> SaidEnded(t))
    BY DEF Ended, SaidEnded
  <2>2. QED
    BY <1>1, <2>1, PageFacts DEF EndInv
<1>8. QED
  BY <1>4, <1>5, <1>6, <1>7

\* The lock's holder makes its call.
LEMMA CallInv ==
  ASSUME Types, Inv, UNCHANGED <<kind, agent, link, chan, faults, line, cmd>>, line # <<>>, op.pc = "idle",
         NEW g \in Generations, NEW b \in BOOLEAN, op' = Calling(g, b), g <= link.conn,
         moved'["op"] = {}, entry'.page = entry.page,
         \/ /\ entry' = entry /\ entry.life = "Subscribed" /\ entry.gen = g /\ req.kind \in {"Refresh", "Latest"}
         \/ /\ entry'.life = "Subscribing" /\ entry'.gen = g /\ ~b /\ req.kind \in Opens
         \/ /\ entry'.life = "Unsubscribing" /\ entry'.gen = entry.gen /\ req.kind = "Close"
  PROVE  Inv'
<1> USE DEF Inv
<1>1. op'.pc = "calling" /\ op'.page = NoPage /\ op'.gen = g /\ op'.kept = b
  BY CallingFacts
<1>2. (CloseTold' <=> CloseTold) /\ (Met("exit")' <=> Met("exit")) /\ Unmoved' /\ req' = req
  BY MetFacts DEF CloseTold, Unmoved, req
<1>3. LineInv'
  <2>1. (Opening' <=> req.kind \in Opens) /\ (Closing' <=> req.kind = "Close")
    BY <1>1, <1>2 DEF Opening, Closing
  <2>2. entry'.gen <= link.conn /\ (Opening' => entry'.gen = g) /\ (Closing' => entry'.life # "Subscribed")
    BY <2>1 DEF LineInv, Opens
  <2>3. QED
    BY <1>1, <2>2 DEF LineInv
<1>4. EffectInv'
  BY <1>1, <1>2 DEF EffectInv, Opening, Closing
<1>5. WatchInv'
  <2>1. Watching' => Watching
    BY DEF Watching, Subscribed
  <2>2. Heard => Heard'
    BY <1>2, MetFacts DEF Heard
  <2>3. QED
    BY <1>1, <1>2, <2>1, <2>2 DEF WatchInv
<1>6. EndInv'
  <2>1. \A t \in Turns : (Ended(t)' <=> Ended(t)) /\ (SaidEnded(t)' <=> SaidEnded(t))
    BY DEF Ended, SaidEnded
  <2>2. QED
    BY <1>1, <2>1, PageFacts DEF EndInv
<1>7. QED
  BY <1>3, <1>4, <1>5, <1>6

LEMMA BeginInv ==
  ASSUME Types, Inv, BeginOpen \/ BeginClose \/ (BeginLatest /\ Subscribed(entry, req.gen))
  PROVE  Inv'
<1>1. UNCHANGED <<kind, agent, link, chan, faults, line, cmd>> /\ line # <<>> /\ op.pc = "idle"
  BY DEF BeginOpen, BeginClose, BeginLatest, agentVars
<1>2. PICK g \in Generations : g = req.gen
  BY <1>1, HeadFacts
<1>3. g <= link.conn
  BY <1>1, <1>2, HeadFacts DEF Inv, LineInv
<1>4. moved'["op"] = {}
  BY DEF BeginOpen, BeginClose, BeginLatest, MarkFrom, Types, MovedType, Tasks
<1>5. entry \in Entries
  BY EntryFacts
<1>6. CASE BeginOpen /\ Subscribed(entry, g) /\ req.kind = "Refresh"
  <2>1. op' = Calling(g, TRUE) /\ entry' = entry
    BY <1>2, <1>6 DEF BeginOpen
  <2>2. QED
    BY <1>1, <1>3, <1>4, <1>6, <2>1, CallInv DEF Subscribed
<1>7. CASE BeginOpen /\ ~Subscribed(entry, g)
  <2>1. /\ entry' = [entry EXCEPT !.life = "Subscribing", !.gen = g, !.cand = 0]
        /\ op' = Calling(g, FALSE) /\ req.kind \in Opens
    BY <1>2, <1>7 DEF BeginOpen
  <2>2. entry'.life = "Subscribing" /\ entry'.gen = g /\ entry'.page = entry.page
    BY <1>5, <2>1 DEF Entries
  <2>3. QED
    BY <1>1, <1>3, <1>4, <2>1, <2>2, CallInv
<1>8. CASE BeginClose
  <2>1. PICK h \in Generations : h = entry.gen
    BY <1>8, EntryFacts DEF BeginClose
  <2>2. /\ entry' = [entry EXCEPT !.life = "Unsubscribing"] /\ op' = Calling(h, FALSE) /\ req.kind = "Close"
    BY <1>8, <2>1 DEF BeginClose
  <2>3. entry'.life = "Unsubscribing" /\ entry'.gen = entry.gen /\ entry'.page = entry.page
    BY <1>5, <2>2 DEF Entries
  <2>4. h <= link.conn
    BY <2>1 DEF Inv, LineInv
  <2>5. QED
    BY <1>1, <1>4, <2>2, <2>3, <2>4, CallInv
<1>9. CASE BeginLatest /\ Subscribed(entry, g)
  <2>1. op' = Calling(g, FALSE) /\ entry' = entry /\ req.kind = "Latest"
    BY <1>2, <1>9 DEF BeginLatest
  <2>2. QED
    BY <1>1, <1>3, <1>4, <1>9, <2>1, CallInv DEF Subscribed
<1>10. QED
  BY <1>2, <1>6, <1>7, <1>8, <1>9 DEF BeginOpen

\* A request that finds nothing to do, or a state it cannot leave.
LEMMA AlreadyInv ==
  ASSUME Types, Inv, OpenAlready \/ OpenPanics \/ CloseRefrains \/ (BeginLatest /\ ~Subscribed(entry, req.gen))
  PROVE  Inv'
<1>1. UNCHANGED <<kind, agent, link, chan, faults, entry>> /\ op.pc = "idle"
  BY DEF OpenAlready, OpenPanics, CloseRefrains, BeginLatest, agentVars
<1>2. PICK how \in {"ok", "failed"} : Return(how, entry) /\ line # <<>>
  BY DEF OpenAlready, OpenPanics, CloseRefrains, BeginLatest
<1>3. op' = Idle /\ In(line') \subseteq In(line) /\ cmd'.gen = cmd.gen /\ cmd'.page = cmd.page
  BY <1>2, ReturnFacts, EntryFacts
<1>4. entry.life \notin {"Subscribing", "Unsubscribing"} \/ Met("lag")
  BY <1>1 DEF Inv, EffectInv, Opening, Closing
<1>5. Watching' => Heard
  BY <1>1 DEF Inv, WatchInv, Watching, Subscribed
<1>6. QED
  BY <1>1, <1>3, <1>4, <1>5, ReleaseInv

LEMMA EndsInv ==
  ASSUME Types, Inv, OpenCompletes \/ OpenInterrupted \/ OpenFails \/ CloseEnds \/ LatestEnds
  PROVE  Inv'
<1> USE EntryFacts, PageFacts
<1>1. UNCHANGED <<kind, agent, link, chan, faults>> /\ op.pc \in {"answered", "refused"} /\ line # <<>>
  BY DEF OpenCompletes, OpenInterrupted, OpenFails, CloseEnds, LatestEnds, agentVars
<1>2. entry' \in Entries /\ entry'.gen = entry.gen
  BY CompletedFacts, EndedFacts
<1>3. PICK how \in {"ok", "failed"}, e \in {entry, entry'} : Return(how, e)
  BY DEF OpenCompletes, OpenInterrupted, OpenFails, CloseEnds, LatestEnds
<1>4. op' = Idle /\ In(line') \subseteq In(line) /\ cmd'.gen = cmd.gen /\ cmd'.page = cmd.page
  BY <1>1, <1>2, <1>3, ReturnFacts
<1>5. \A t \in Turns : entry'.page[t] = "done" => entry.page[t] = "done" \/ op.page[t] = "done"
  <2>1. \A t \in Turns : Merge(entry.page, op.page)[t] = "done" => entry.page[t] = "done" \/ op.page[t] = "done"
    BY MergeFacts DEF Entries, Ops
  <2>2. entry'.page \in {entry.page, NoPage, Merge(entry.page, op.page), op.page}
    BY CompletedFacts, EndedFacts
  <2>3. QED
    BY <2>1, <2>2
<1>6. entry'.life \notin {"Subscribing", "Unsubscribing"} \/ Met("lag")
  <2>1. CASE OpenCompletes
    BY <2>1, CompletedFacts
  <2>2. CASE OpenInterrupted \/ OpenFails \/ CloseEnds \/ LatestEnds
    <3>1. entry'.life \in {entry.life, "Error", "Unloaded"}
      BY <2>2, EndedFacts
    <3>2. CASE entry.life \notin {"Subscribing", "Unsubscribing"}
      BY <3>1, <3>2
    <3>3. CASE entry.life = "Subscribing" /\ ~Met("lag")
      <4>1. Opening /\ ~op.kept /\ Unmoved
        BY <3>3 DEF Inv, EffectInv
      <4>2. OpenFails
        BY <2>2, <4>1 DEF Opening, Unmoved, OpenInterrupted, CloseEnds, LatestEnds, SameObservation, Opens
      <4>3. entry' = [entry EXCEPT !.life = "Error"]
        BY <4>1, <4>2 DEF OpenFails
      <4>4. QED
        BY <4>3 DEF Entries
    <3>4. CASE entry.life = "Unsubscribing" /\ ~Met("lag")
      <4>1. Closing /\ Unmoved
        BY <3>4 DEF Inv, EffectInv
      <4>2. CloseEnds
        BY <2>2, <4>1 DEF Closing, OpenInterrupted, OpenFails, LatestEnds, Opens
      <4>3. entry' = [entry EXCEPT !.life = "Error"]
            \/ entry' = [entry EXCEPT !.life = "Unloaded", !.cand = 0, !.page = NoPage]
        BY <3>4, <4>1, <4>2 DEF CloseEnds, SameObservation, Unmoved
      <4>4. QED
        BY <4>3 DEF Entries
    <3>5. QED
      BY <3>2, <3>3, <3>4
  <2>3. QED
    BY <2>1, <2>2
<1>7. Watching' => Heard
  <2>1. CASE OpenCompletes
    <3>1. Opening /\ Unmoved /\ op.pc = "answered"
      BY <2>1 DEF OpenCompletes, Opening, Unmoved, SameObservation
    <3>2. Watching' => op.gen = link.conn
      BY <1>1, <1>2, <3>1 DEF Watching, Subscribed, Inv, LineInv
    <3>3. QED
      BY <3>1, <3>2 DEF Inv, WatchInv
  <2>2. CASE OpenInterrupted \/ OpenFails \/ CloseEnds \/ LatestEnds
    BY <1>1, <1>2, <2>2, EndedFacts DEF Watching, Subscribed, Inv, WatchInv
  <2>3. QED
    BY <2>1, <2>2
<1>8. QED
  BY <1>1, <1>2, <1>4, <1>5, <1>6, <1>7, ReleaseInv

LEMMA NextInv ==
  ASSUME Types, Inv, [Next]_vars
  PROVE  Inv'
<1>1. CASE AgentNext
  BY <1>1, TurnInv
<1>2. CASE LinkNext
  BY <1>2, LostInv, ConnectedInv, SessionEndsInv, LagInv DEF LinkNext
<1>3. CASE ReportNext
  BY <1>3, DeliverStep, ObserverStep, ReportInv DEF ReportNext
<1>4. CASE ProviderNext
  BY <1>4, ProviderInv DEF ProviderNext
<1>5. CASE OperationNext
  BY <1>5, AlreadyInv, BeginInv, EndsInv DEF OperationNext
<1>6. CASE Viewing
  BY <1>6, ViewInv
<1>7. CASE Commanding
  BY <1>7, CommandInv
<1>8. CASE UNCHANGED vars
  BY <1>8 DEF vars, agentVars, Inv, LineInv, EffectInv, WatchInv, EndInv, Opening, Closing, Unmoved, req,
    CloseTold, Heard, Watching, Subscribed, Met, Ended, SaidEnded
<1>9. QED
  BY <1>1, <1>2, <1>3, <1>4, <1>5, <1>6, <1>7, <1>8 DEF Next, Viewing, Commanding

LEMMA Invariant == Spec => [](Types /\ Inv)
<1>1. Init => Types /\ Inv
  BY InitTypes, InitInv
<1>2. Types /\ Inv /\ [Next]_vars => (Types /\ Inv)'
  BY NextTypes, NextInv
<1>3. QED
  BY <1>1, <1>2, PTL DEF Spec

-----------------------------------------------------------------------------
(* The status, when nothing was lost and no closed subscription left reports *)
(* behind: the conversation a subscribed session holds is the agent's, or   *)
(* the last report still waiting corrects it; what an open was told and     *)
(* what has been reported since settle, taken together, on the same.        *)

\* The reports that carry a status, and what the last of them says.
Says(r) == r.k \in {"status", "activity"}
Mute(s) == \A r \in In(s) : ~Says(r)
Last(s, i) == i \in DOMAIN s /\ Says(s[i]) /\ \A j \in DOMAIN s : i < j => ~Says(s[j])
Tells(s, b) == \A i : Last(s, i) => s[i].s = b

\* A status agrees with the agent unless a report on its way corrects it.
Doing == Busy(agent.busy)
Waiting == chan[link.conn]
Agrees(s) == Mute(Waiting) => s = Doing
Told == "status" \in moved["op"]
Opened == Opening /\ op.pc \in {"reading", "answered"} /\ op.gen = link.conn
Clean == link.up /\ "reports" \notin link.late

SaidInv ==
  /\ \A g \in Generations : g > link.conn => chan[g] = <<>>
  /\ \A g \in Generations : \A r \in In(chan[g]) :
       Says(r) => r.s # "none" /\ (kind = "codex" => r.k = "status")
  /\ Clean => Tells(Waiting, Doing) /\ (link.watched \/ Waiting = <<>>)
  /\ kind = "claude" => "reports" \notin link.late /\ (link.watched => entry.gen # 0)
ToldInv ==
  /\ op.pc # "idle" /\ Told => "revision" \in moved["op"] /\ Known(entry) # "none"
  /\ Clean /\ Opening /\ op.gen = link.conn /\ Told => link.watched /\ Agrees(Known(entry))
\* An activity that only repeats what the session knows is not taken for news: a Claude
\* open that was told otherwise still has the report of it waiting.
Corrects(r) == Says(r) /\ r.s # Known(entry)
Corrected == Known(entry) \in {"none", op.snap} \/ \E r \in In(Waiting) : Corrects(r)
OpenInv ==
  /\ Clean /\ Opened => /\ link.watched /\ op.snap # "none"
                        /\ Agrees(Newer(entry, op.snap, moved["op"]))
  /\ kind = "claude" /\ Opened /\ ~Told => Corrected
KnownInv ==
  /\ Clean /\ Watching => link.watched /\ entry.conv # "none" /\ Agrees(entry.conv)
  /\ kind = "claude" /\ Known(entry) # "none" => link.watched /\ Agrees(Known(entry))
Settled == SaidInv /\ ToldInv /\ OpenInv /\ KnownInv

\* A report waiting that corrects the status says one.
LEMMA MuteThen ==
  Corrected' /\ Mute(Waiting)' => Known(entry)' \in {"none", op'.snap}
BY DEF Corrected, Corrects, Mute

\* Where some report says a status, there is a last one that does.
LEMMA LastSays ==
  ASSUME NEW S, NEW s \in Seq(S), ~Mute(s)
  PROVE  \E i : Last(s, i)
<1>1. Len(s) \in Nat /\ DOMAIN s = 1..Len(s)
  OBVIOUS
<1> DEFINE D == {i \in 1..Len(s) : Says(s[i])}
           R == {Len(s) - i : i \in D}
<1>2. R \in SUBSET Nat /\ R # {}
  <2>1. PICK k \in D : TRUE
    BY <1>1 DEF Mute, In
  <2>2. Len(s) - k \in R
    OBVIOUS
  <2>3. ASSUME NEW x \in R PROVE x \in Nat
    BY <1>1, <2>3
  <2>4. QED
    BY <2>2, <2>3
<1>3. PICK m \in R : \A x \in R : m <= x
  BY <1>2, LeastExists
<1>4. PICK i \in D : m = Len(s) - i
  OBVIOUS
<1>5. ASSUME NEW j \in DOMAIN s, i < j PROVE ~Says(s[j])
  <2> SUFFICES ASSUME Says(s[j]) PROVE FALSE
    OBVIOUS
  <2>1. Len(s) - j \in R
    BY <1>1
  <2>2. m <= Len(s) - j
    BY <1>3, <2>1
  <2>3. i \in 1..Len(s) /\ j \in 1..Len(s)
    BY <1>1
  <2> HIDE DEF D, R
  <2>4. QED
    BY <1>1, <1>4, <1>5, <2>2, <2>3
<1>6. QED
  BY <1>1, <1>4, <1>5 DEF Last

LEMMA TellsTail ==
  ASSUME NEW S, NEW s \in Seq(S), s # <<>>, NEW b, Tells(s, b)
  PROVE  /\ Tells(Tail(s), b)
         /\ Mute(Tail(s)) /\ Says(Head(s)) => Head(s).s = b
         /\ Mute(Tail(s)) /\ ~Says(Head(s)) => Mute(s)
<1>1. /\ Len(Tail(s)) = Len(s) - 1 /\ Head(s) = s[1] /\ 1 \in DOMAIN s
      /\ \A i \in 1..Len(Tail(s)) : Tail(s)[i] = s[i + 1]
      /\ Len(s) \in Nat /\ Len(s) # 0 /\ DOMAIN s = 1..Len(s) /\ DOMAIN Tail(s) = 1..Len(Tail(s))
  OBVIOUS
<1>2. ASSUME NEW i, Last(Tail(s), i) PROVE Tail(s)[i].s = b
  <2>1. i \in DOMAIN Tail(s) /\ i + 1 \in DOMAIN s /\ s[i + 1] = Tail(s)[i] /\ Says(s[i + 1])
    BY <1>1, <1>2 DEF Last
  <2>2. ASSUME NEW j \in DOMAIN s, i + 1 < j PROVE ~Says(s[j])
    <3>1. j - 1 \in DOMAIN Tail(s) /\ i < j - 1 /\ Tail(s)[j - 1] = s[j]
      BY <1>1, <2>1, <2>2
    <3>2. QED
      BY <1>2, <3>1 DEF Last
  <2>3. Last(s, i + 1)
    BY <2>1, <2>2 DEF Last
  <2>4. QED
    BY <2>1, <2>3 DEF Tells
<1>3. Mute(Tail(s)) /\ Says(Head(s)) => Last(s, 1)
  <2> SUFFICES ASSUME Mute(Tail(s)), NEW j \in DOMAIN s, 1 < j PROVE ~Says(s[j])
    BY <1>1 DEF Last
  <2>1. j - 1 \in DOMAIN Tail(s) /\ Tail(s)[j - 1] = s[j]
    BY <1>1
  <2>2. QED
    BY <2>1 DEF Mute, In
<1>4. Mute(Tail(s)) /\ ~Says(Head(s)) => Mute(s)
  BY InTail DEF Mute
<1>5. QED
  BY <1>1, <1>2, <1>3, <1>4 DEF Tells

LEMMA TellsConcat ==
  ASSUME NEW S, NEW s \in Seq(S), NEW u \in Seq(S), NEW b, Tells(u, b), Mute(u) => Tells(s, b)
  PROVE  Tells(s \o u, b) /\ (Mute(s \o u) <=> Mute(s) /\ Mute(u))
<1> DEFINE c == s \o u
<1>1. /\ c \in Seq(S) /\ Len(c) = Len(s) + Len(u)
      /\ \A i \in 1..Len(s) : c[i] = s[i]
      /\ \A i \in 1..Len(u) : c[Len(s) + i] = u[i]
      /\ Len(s) \in Nat /\ Len(u) \in Nat /\ DOMAIN s = 1..Len(s) /\ DOMAIN u = 1..Len(u)
  OBVIOUS
<1>2. DOMAIN c = 1..Len(c)
  BY <1>1
<1>3. Mute(c) <=> Mute(s) /\ Mute(u)
  BY InConcat DEF Mute
<1> HIDE DEF c
<1>4. ASSUME NEW i, Last(c, i) PROVE c[i].s = b
  <2>1. i \in 1..Len(c) /\ Says(c[i]) /\ \A j \in 1..Len(c) : i < j => ~Says(c[j])
    BY <1>2, <1>4 DEF Last
  <2>2. CASE i > Len(s)
    <3>1. PICK k \in 1..Len(u) : i = Len(s) + k
      <4>1. i - Len(s) \in 1..Len(u) /\ i = Len(s) + (i - Len(s))
        BY <1>1, <2>1, <2>2
      <4>2. QED
        BY <4>1
    <3>2. ASSUME NEW j \in 1..Len(u), k < j PROVE ~Says(u[j])
      <4>1. Len(s) + j \in 1..Len(c) /\ i < Len(s) + j /\ c[Len(s) + j] = u[j]
        BY <1>1, <3>1, <3>2
      <4>2. QED
        BY <2>1, <4>1
    <3>3. Last(u, k) /\ u[k] = c[i]
      BY <1>1, <2>1, <3>1, <3>2 DEF Last
    <3>4. QED
      BY <3>3 DEF Tells
  <2>3. CASE ~(i > Len(s))
    <3>1. i \in 1..Len(s) /\ c[i] = s[i]
      BY <1>1, <2>1, <2>3
    <3>2. Mute(u)
      <4>1. ASSUME NEW j \in 1..Len(u) PROVE ~Says(u[j])
        <5>1. Len(s) + j \in 1..Len(c) /\ i < Len(s) + j /\ c[Len(s) + j] = u[j]
          BY <1>1, <3>1
        <5>2. QED
          BY <2>1, <5>1
      <4>2. QED
        BY <1>1, <4>1 DEF Mute, In
    <3>3. ASSUME NEW j \in 1..Len(s), i < j PROVE ~Says(s[j])
      <4>1. j \in 1..Len(c) /\ c[j] = s[j]
        BY <1>1
      <4>2. QED
        BY <2>1, <3>3, <4>1
    <3>4. Last(s, i)
      BY <1>1, <2>1, <3>1, <3>3 DEF Last
    <3>5. QED
      BY <3>1, <3>2, <3>4 DEF Tells
  <2>4. QED
    BY <2>2, <2>3
<1>5. QED
  BY <1>3, <1>4 DEF Tells, c

\* What a report makes of the status.
LEMMA EffectStatus ==
  ASSUME NEW e \in Entries, NEW r \in Report, r.k \in {"status", "activity", "started", "ended"},
         NEW d, d = Effect(e, r)
  PROVE  /\ ~Says(r) => d.conv = e.conv /\ d.pending = e.pending
         /\ Says(r) /\ r.s # "none" => Known(d) = r.s /\ (e.conv # "none" => d.conv = r.s)
<1>1. CASE r.k = "status"
  <2>1. d.conv = WithStatus(e, r.s).conv /\ d.pending = WithStatus(e, r.s).pending
    <3>1. PICK w : w = WithStatus(e, r.s)
      OBVIOUS
    <3>0. r.s \in Status
      BY DEF Report
    <3>2. PICK c, p \in Status : WithStatus(e, r.s) = [e EXCEPT !.conv = c, !.pending = p]
      BY <3>0, WithStatusFacts
    <3>3. w \in Entries
      BY <3>1, <3>2 DEF Entries
    <3>4. d.conv = w.conv /\ d.pending = w.pending
      BY <1>1, <3>1, <3>3 DEF Effect, Entries
    <3>5. QED
      BY <3>1, <3>4
  <2>2. QED
    BY <1>1, <2>1 DEF Says, WithStatus, Known, Entries
<1>2. CASE r.k = "activity"
  BY <1>2 DEF Effect, Says, WithStatus, Known, Entries
<1>3. CASE r.k = "started"
  BY <1>3 DEF Effect, Says, Entries
<1>4. CASE r.k = "ended"
  BY <1>4 DEF Effect, Says, Entries
<1>5. QED
  BY <1>1, <1>2, <1>3, <1>4

LEMMA ReportedWaiting ==
  ASSUME Types, NEW rs \in Seq(Report), chan' = Reported(rs), LinkSame
  PROVE  /\ chan \in [Generations -> Seq(Report)] /\ link.conn \in Generations
         /\ link.watched => Waiting' = Waiting \o rs
                            /\ \A g \in Generations : g # link.conn => chan'[g] = chan[g]
         /\ ~link.watched => chan' = chan
BY DEF Types, ChanType, AgentType, Links, LinkSame, Reported, Waiting

LEMMA SameLink ==
  ASSUME Types
  PROVE  /\ link' = link => LinkSame
         /\ LinkSame => link'.conn = link.conn /\ link'.watched = link.watched /\ link'.up = link.up
                        /\ (Clean' <=> Clean)
BY DEF LinkSame, Clean, Types, AgentType

\* Reports are added, or none; the entry keeps its status and the lock its holder.
LEMMA SpokenSettled ==
  ASSUME Types, Inv, Settled, kind' = kind, LinkSame, HeadSame,
         entry'.life = entry.life, entry'.gen = entry.gen,
         entry'.conv = entry.conv, entry'.pending = entry.pending,
         op.pc # "idle" => (Told' <=> Told) /\ moved["op"] \subseteq moved'["op"],
         NEW rs \in Seq(Report), chan' = Reported(rs), NEW b, b = Doing', Tells(rs, b), Mute(rs) => b = Doing,
         \A r \in In(rs) : Says(r) => r.s # "none" /\ (kind = "codex" => r.k = "status")
  PROVE  Settled'
<1>0. /\ op' = op /\ (Opening' <=> Opening) /\ (Opening => op.pc # "idle")
      /\ link'.conn = link.conn /\ link'.watched = link.watched /\ (Clean' <=> Clean)
      /\ "reports" \in link'.late <=> "reports" \in link.late
  BY HolderSame, SameLink DEF HeadSame, Opening, LinkSame
<1>1. /\ chan \in [Generations -> Seq(Report)] /\ link.conn \in Generations
      /\ link.watched => Waiting' = Waiting \o rs
                         /\ \A g \in Generations : g # link.conn => chan'[g] = chan[g]
      /\ ~link.watched => chan' = chan
  BY ReportedWaiting
<1>2. Waiting \in Seq(Report) /\ Waiting' = chan'[link.conn]
  BY <1>0, <1>1 DEF Waiting
<1>3. link.watched => Mute(Waiting') = (Mute(Waiting) /\ Mute(rs)) /\ In(Waiting') = In(Waiting) \cup In(rs)
                      /\ (Clean => Tells(Waiting', b))
  <2> SUFFICES ASSUME link.watched
               PROVE  /\ Mute(Waiting') = (Mute(Waiting) /\ Mute(rs)) /\ In(Waiting') = In(Waiting) \cup In(rs)
                      /\ (Clean => Tells(Waiting', b))
    OBVIOUS
  <2>1. In(Waiting \o rs) = In(Waiting) \cup In(rs)
    BY <1>2, InConcat
  <2>2. Clean => Tells(Waiting \o rs, b)
    BY <1>2, TellsConcat DEF Settled, SaidInv
  <2>3. Mute(Waiting \o rs) = (Mute(Waiting) /\ Mute(rs))
    BY <2>1 DEF Mute
  <2>4. QED
    BY <1>1, <2>1, <2>2, <2>3
<1>4. Mute(Waiting)' /\ link.watched => Mute(Waiting) /\ b = Doing
  BY <1>3 DEF Mute
<1>5. SaidInv'
  <2>1. \A g \in Generations : g > link.conn => chan'[g] = <<>>
    BY <1>1, Numbers DEF Settled, SaidInv
  <2>2. \A g \in Generations : \A r \in In(chan'[g]) : Says(r) => r.s # "none" /\ (kind = "codex" => r.k = "status")
    BY <1>1, <1>2, <1>3 DEF Settled, SaidInv, Waiting
  <2>3. Clean => (link.watched \/ Waiting' = <<>>)
    BY <1>1, <1>2 DEF Settled, SaidInv, Waiting
  <2>4. Clean => Tells(Waiting', b)
    <3>1. CASE link.watched
      BY <1>3, <3>1
    <3>2. CASE ~link.watched
      BY <2>3, <3>2 DEF Tells, Last
    <3>3. QED
      BY <3>1, <3>2
  <2>5. kind' = "claude" => "reports" \notin link'.late /\ (link'.watched => entry'.gen # 0)
    BY <1>0 DEF Settled, SaidInv
  <2>6. (Tells(Waiting, Doing))' = Tells(Waiting', b)
    BY DEF Tells
  <2>7. QED
    BY <1>0, <2>1, <2>2, <2>3, <2>4, <2>5, <2>6 DEF SaidInv
<1>6. Known(entry)' = Known(entry) /\ (Watching' <=> Watching) /\ (Opened' <=> Opened)
      /\ (op.pc # "idle" => Newer(entry, op.snap, moved["op"])' = Newer(entry, op.snap, moved["op"]))
  BY <1>0 DEF Known, Watching, Subscribed, Opened, Newer, Told
<1>7. ToldInv'
  BY <1>0, <1>4, <1>6 DEF Settled, ToldInv, Agrees
<1>8. OpenInv'
  <2>1. In(Waiting) \subseteq In(Waiting')
    BY <1>1, <1>2, <1>3 DEF Waiting
  <2>2. Corrected => Corrected'
    BY <1>0, <1>6, <2>1 DEF Corrected, Corrects
  <2>3. Clean' /\ Opened' => /\ link'.watched /\ op'.snap # "none"
                            /\ Agrees(Newer(entry, op.snap, moved["op"]))'
    BY <1>0, <1>4, <1>6 DEF Settled, OpenInv, Agrees, Opened
  <2>4. kind' = "claude" /\ Opened' /\ ~Told' => Corrected'
    BY <1>0, <1>6, <2>2 DEF Settled, OpenInv, Opened
  <2>5. QED
    BY <2>3, <2>4 DEF OpenInv
<1>9. KnownInv'
  BY <1>0, <1>4, <1>6 DEF Settled, KnownInv, Agrees
<1>10. QED
  BY <1>5, <1>7, <1>8, <1>9 DEF Settled

LEMMA TellsShort ==
  /\ Mute(<<>>) /\ \A b : Tells(<<>>, b)
  /\ \A a : Says(a) => Tells(<<a>>, a.s) /\ ~Mute(<<a>>)
  /\ \A a, b : ~Says(a) => Mute(<<a>>) /\ Tells(<<a>>, b)
  /\ \A a, c : Says(a) /\ ~Says(c) => Tells(<<a, c>>, a.s) /\ ~Mute(<<a, c>>)
  /\ \A a, c : ~Says(a) /\ Says(c) => Tells(<<a, c>>, c.s) /\ ~Mute(<<a, c>>)
<1>1. Mute(<<>>) /\ \A b : Tells(<<>>, b)
  BY InShort DEF Mute, Tells, Last
<1>2. ASSUME NEW a PROVE DOMAIN <<a>> = {1} /\ <<a>>[1] = a
  OBVIOUS
<1>3. ASSUME NEW a, NEW c PROVE DOMAIN <<a, c>> = {1, 2} /\ <<a, c>>[1] = a /\ <<a, c>>[2] = c
  OBVIOUS
<1>4. \A a : Says(a) => Tells(<<a>>, a.s) /\ ~Mute(<<a>>)
  BY <1>2, InShort DEF Mute, Tells, Last
<1>5. \A a, b : ~Says(a) => Mute(<<a>>) /\ Tells(<<a>>, b)
  BY <1>2, InShort DEF Mute, Tells, Last
<1>6. \A a, c : Says(a) /\ ~Says(c) => Tells(<<a, c>>, a.s) /\ ~Mute(<<a, c>>)
  BY <1>3, InShort DEF Mute, Tells, Last
<1>7. ASSUME NEW a, NEW c, ~Says(a), Says(c) PROVE Tells(<<a, c>>, c.s) /\ ~Mute(<<a, c>>)
  BY <1>3, <1>7, InShort, 1 < 2 DEF Mute, Tells, Last
<1>8. QED
  BY <1>1, <1>4, <1>5, <1>6, <1>7

\* What the agent says of itself.
SaidOf(rs, b) ==
  /\ rs \in Seq(Report) /\ Tells(rs, b) /\ (Mute(rs) => b = Doing)
  /\ \A r \in In(rs) : Says(r) => r.s # "none" /\ (kind = "codex" => r.k = "status")

LEMMA BusyFacts ==
  ASSUME Types
  PROVE  /\ agent.begun < MaxTurns /\ agent' = Begun => Doing' = "active"
         /\ agent' = agent => Doing' = Doing
         /\ \A w \in BOOLEAN : Busy(w) \in {"active", "idle"}
         /\ \A w \in BOOLEAN : agent'.busy = w => Doing' = Busy(w)
<1>0. agent \in Agents
  BY DEF Types, AgentType
<1>1. agent.begun < MaxTurns /\ agent' = Begun => Doing' = "active"
  BY <1>0 DEF Begun, Doing, Busy, Agents
<1>2. QED
  BY <1>1 DEF Doing, Busy

\* A report that says nothing of the status and then one that does.
LEMMA EndSaid ==
  ASSUME NEW a \in Report, NEW c \in Report, ~Says(a), Says(c), c.s # "none", kind # "codex"
  PROVE  SaidOf(<<a>> \o <<c>>, c.s)
<1>1. PICK x : x = <<a>>
  OBVIOUS
<1>2. PICK y : y = <<c>>
  OBVIOUS
<1>0. x \in Seq(Report) /\ y \in Seq(Report)
  BY <1>1, <1>2
<1>3. In(y) = {c} /\ In(x) = {a} /\ Tells(y, c.s) /\ ~Mute(y)
  BY <1>1, <1>2, TellsShort, InShort
<1>4. In(x \o y) = {a} \cup {c} /\ x \o y \in Seq(Report)
  BY <1>0, <1>3, InConcat
<1>5. Tells(x \o y, c.s) /\ ~Mute(x \o y)
  BY <1>0, <1>3, TellsConcat
<1>6. SaidOf(x \o y, c.s)
  BY <1>4, <1>5 DEF SaidOf
<1>7. QED
  BY <1>1, <1>2, <1>6

LEMMA TurnSaid ==
  ASSUME Types, NEW k \in {"status", Activity}
  PROVE  /\ agent.begun < MaxTurns =>
              SaidOf(<<Say(k, 0, "active"), Say("started", agent.begun + 1, "none")>>, "active")
         /\ \A w \in BOOLEAN : agent.doing # 0 /\ (kind = "codex" => w = agent.busy) => SaidOf(TurnEnded(w), Busy(w))
         /\ \A s \in {"active", "idle"} : SaidOf(<<Say(Activity, 0, s)>>, s)
         /\ SaidOf(<<>>, Doing)
         /\ kind = "claude" => \A s \in {"active", "idle"} : SaidOf(<<Say("activity", 0, s)>>, s)
         /\ SaidOf(<<Say("retold", 0, "none")>>, Doing)
<1> USE SayFacts, InShort
<1>0. k \in {"status", "activity"} /\ (kind = "codex" => k = "status" /\ Activity = "status")
      /\ kind \in {"codex", "claude"}
  BY Constants DEF Activity, Types, AgentType
<1>1. \A x \in {"status", "activity"}, s \in {"active", "idle"} :
         Says(Say(x, 0, s)) /\ Say(x, 0, s).s = s /\ Say(x, 0, s).k = x /\ Say(x, 0, s) \in Report
  BY DEF Says, Say, Status
<1>2. \A t : ~Says(Say("started", t, "none")) /\ ~Says(Say("ended", t, "none")) /\ ~Says(Say("retold", t, "none"))
  BY DEF Says, Say
<1>3. ASSUME agent.begun < MaxTurns
      PROVE  SaidOf(<<Say(k, 0, "active"), Say("started", agent.begun + 1, "none")>>, "active")
  <2>1. PICK a \in Report : a = Say(k, 0, "active")
    BY <1>0, <1>1
  <2>2. PICK c \in Report : c = Say("started", agent.begun + 1, "none")
    BY <1>3
  <2>3. Says(a) /\ ~Says(c) /\ a.s = "active" /\ a.k = k
    BY <1>0, <1>1, <1>2, <2>1, <2>2
  <2>4. <<a, c>> \in Seq(Report) /\ Tells(<<a, c>>, a.s) /\ ~Mute(<<a, c>>) /\ In(<<a, c>>) = {a, c}
    BY <2>3, TellsShort
  <2>5. SaidOf(<<a, c>>, "active")
    BY <1>0, <2>3, <2>4 DEF SaidOf
  <2>6. QED
    BY <2>1, <2>2, <2>5
<1>4. ASSUME NEW w \in BOOLEAN, agent.doing # 0, kind = "codex" => w = agent.busy
      PROVE  SaidOf(TurnEnded(w), Busy(w))
  <2>1. PICK a \in Report : a = Say("ended", agent.doing, "none")
    BY <1>4
  <2>2. PICK c \in Report : c = Say("activity", 0, Busy(w))
    BY <1>1, BusyFacts
  <2>3. ~Says(a) /\ Says(c) /\ c.s = Busy(w) /\ c.k = "activity" /\ Busy(w) # "none"
    BY <1>1, <1>2, <2>1, <2>2, BusyFacts
  <2>4. CASE kind = "codex"
    <3>1. TurnEnded(w) = <<a>> \o <<>>
      BY <2>1, <2>4 DEF TurnEnded
    <3>2. <<a>> \o <<>> = <<a>>
      OBVIOUS
    <3>3. <<a>> \in Seq(Report) /\ Mute(<<a>>) /\ Tells(<<a>>, Busy(w)) /\ In(<<a>>) = {a}
      BY <2>3, TellsShort
    <3>4. SaidOf(<<a>>, Busy(w))
      BY <1>4, <2>3, <2>4, <3>3 DEF SaidOf, Doing
    <3>5. QED
      BY <3>1, <3>2, <3>4
  <2>5. CASE kind = "claude"
    <3>1. TurnEnded(w) = <<a>> \o <<c>>
      BY <2>1, <2>2, <2>5 DEF TurnEnded
    <3>2. SaidOf(<<a>> \o <<c>>, Busy(w))
      BY <2>3, <2>5, EndSaid
    <3>3. QED
      BY <3>1, <3>2
  <2>6. QED
    BY <1>0, <2>4, <2>5
<1>5. ASSUME NEW x \in {"status", "activity"}, kind = "codex" => x = "status", NEW s \in {"active", "idle"}
      PROVE  SaidOf(<<Say(x, 0, s)>>, s)
  <2>1. PICK a \in Report : a = Say(x, 0, s)
    BY <1>1
  <2>2. Says(a) /\ a.s = s /\ a.k = x
    BY <1>1, <2>1
  <2>3. <<a>> \in Seq(Report) /\ Tells(<<a>>, a.s) /\ ~Mute(<<a>>) /\ In(<<a>>) = {a}
    BY <2>2, TellsShort
  <2>4. SaidOf(<<a>>, s)
    BY <1>5, <2>2, <2>3 DEF SaidOf
  <2>5. QED
    BY <2>1, <2>4
<1>6. SaidOf(<<>>, Doing)
  BY TellsShort DEF SaidOf
<1>7. SaidOf(<<Say("retold", 0, "none")>>, Doing)
  <2>1. PICK a \in Report : a = Say("retold", 0, "none")
    BY DEF Status
  <2>2. <<a>> \in Seq(Report) /\ Tells(<<a>>, Doing) /\ In(<<a>>) = {a} /\ ~Says(a)
    BY <1>2, <2>1, TellsShort
  <2>3. QED
    BY <2>1, <2>2 DEF SaidOf
<1>8. /\ \A s \in {"active", "idle"} : SaidOf(<<Say(Activity, 0, s)>>, s)
      /\ kind = "claude" => \A s \in {"active", "idle"} : SaidOf(<<Say("activity", 0, s)>>, s)
  BY <1>0, <1>5
<1>9. QED
  BY <1>3, <1>4, <1>6, <1>7, <1>8

\* Every step of the agent tells whoever watches, and nobody else.
AgentSaid == \E rs, b : chan' = Reported(rs) /\ b = Doing' /\ SaidOf(rs, b)

LEMMA AgentSays ==
  ASSUME Types, AgentNext \/ Start
  PROVE  AgentSaid
<1>0. agent \in Agents
  BY DEF Types, AgentType
<1>1. CASE TurnBegins
  BY <1>1, TurnSaid, BusyFacts DEF TurnBegins, MayBegin, AgentSaid
<1>2. CASE TurnEnds
  <2>1. PICK w \in {agent.busy, agent.busy /\ kind = "codex"} :
          agent' = [agent EXCEPT !.doing = 0, !.busy = w] /\ chan' = Reported(TurnEnded(w))
    BY <1>2 DEF TurnEnds, TurnEnded
  <2>2. w \in BOOLEAN /\ agent'.busy = w /\ agent.doing # 0
    BY <1>0, <1>2, <2>1 DEF TurnEnds, Agents
  <2>3. kind = "codex" => w = agent.busy
    BY <1>0, <2>1 DEF Agents
  <2>4. SaidOf(TurnEnded(w), Busy(w)) /\ Doing' = Busy(w)
    BY <2>2, <2>3, TurnSaid, BusyFacts
  <2>5. QED
    BY <2>1, <2>4 DEF AgentSaid
<1>3. CASE GoesIdle
  <2>1. Doing' = "idle"
    BY <1>0, <1>3 DEF GoesIdle, Agents, Doing, Busy
  <2>2. QED
    BY <1>3, <2>1, TurnSaid DEF GoesIdle, AgentSaid
<1>4. CASE WorkBegins
  <2>1. Doing' = "active"
    BY <1>0, <1>4 DEF WorkBegins, Agents, Doing, Busy
  <2>2. QED
    BY <1>4, <2>1, TurnSaid DEF WorkBegins, AgentSaid
<1>5. CASE TranscriptChanges
  BY <1>5, TurnSaid, BusyFacts DEF TranscriptChanges, AgentSaid
<1>6. CASE Start
  BY <1>6, TurnSaid, BusyFacts DEF Start, MayBegin, AgentSaid
<1>7. QED
  BY <1>1, <1>2, <1>3, <1>4, <1>5, <1>6 DEF AgentNext

LEMMA SilentSays ==
  ASSUME Types, UNCHANGED <<agent, chan>>
  PROVE  AgentSaid
<1>1. Reported(<<>>) = chan
  <2>1. \A s \in Seq(Report) : s \o <<>> = s
    OBVIOUS
  <2>2. chan \in [Generations -> Seq(Report)] /\ link.conn \in Generations
    BY DEF Types, ChanType, AgentType, Links
  <2>3. QED
    BY <2>1, <2>2 DEF Reported
<1>2. QED
  BY <1>1, TurnSaid, BusyFacts DEF AgentSaid

LEMMA QuietSettled ==
  ASSUME Types, Inv, Settled, kind' = kind, LinkSame, HeadSame, AgentSaid,
         entry'.life = entry.life, entry'.gen = entry.gen,
         entry'.conv = entry.conv, entry'.pending = entry.pending,
         op.pc # "idle" => (Told' <=> Told) /\ moved["op"] \subseteq moved'["op"]
  PROVE  Settled'
<1>1. PICK rs, b : chan' = Reported(rs) /\ b = Doing' /\ SaidOf(rs, b)
  BY DEF AgentSaid
<1>2. QED
  BY <1>1, SpokenSettled DEF SaidOf

LEMMA AgentSettled ==
  ASSUME Types, Inv, Settled, AgentNext
  PROVE  Settled'
<1>1. UNCHANGED <<kind, link, entry, line, op, moved>> /\ HeadSame
  BY SameHead DEF AgentNext, TurnBegins, TurnEnds, GoesIdle, WorkBegins, TranscriptChanges
<1>2. QED
  BY <1>1, AgentSays, SameLink, QuietSettled DEF Told

LEMMA ViewSettled ==
  ASSUME Types, Inv, Settled, Viewing
  PROVE  Settled'
BY ViewFacts, SilentSays, SameLink, QuietSettled DEF Told, HeadSame, LineStep, agentVars

LEMMA CommandSettled ==
  ASSUME Types, Inv, Settled, Commanding
  PROVE  Settled'
<1>1. kind' = kind /\ op' = op /\ LinkSame /\ CommandStep
  BY CommandFrame, CommandLink, CommandSteps
<1>2. HeadSame /\ entry'.life = entry.life /\ entry'.gen = entry.gen
      /\ entry'.conv = entry.conv /\ entry'.pending = entry.pending
      /\ (op.pc # "idle" => (Told' <=> Told) /\ moved["op"] \subseteq moved'["op"])
  BY <1>1 DEF HeadSame, CommandStep, LineStep, EntryStep, MovedStep, Told
<1>3. AgentSaid
  BY CommandFrame, AgentSays, SilentSays
<1>4. QED
  BY <1>1, <1>2, <1>3, QuietSettled

LEMMA FaultFree ==
  ASSUME Types, faults' = <<>>, NEW f \in {"exit", "call", "lag"}
  PROVE  ~(faults' = Append(faults, f))
<1>1. faults \in Seq({"exit", "call", "lag"})
  BY DEF Types, FaultType
<1>2. Len(Append(faults, f)) # 0
  BY <1>1
<1>3. QED
  BY <1>2

LEMMA LinkSettled ==
  ASSUME Types, Inv, Settled, faults' = <<>>, LinkNext
  PROVE  Settled'
<1>1. CASE ConnectionLost
  <2>1. UNCHANGED <<kind, entry, line, op, moved>> /\ kind = "codex" /\ ~link'.up /\ link'.conn = link.conn
        /\ ~Clean'
        /\ chan' = [chan EXCEPT ![link.conn] = Append(@, Say("lost", 0, "none"))]
    BY <1>1 DEF ConnectionLost, Types, AgentType, Links, Clean
  <2>2. PICK x \in Report : x = Say("lost", 0, "none") /\ ~Says(x)
    BY SayFacts DEF Status, Says, Say
  <2>3. link.conn \in Generations /\ \A g \in Generations : chan[g] \in Seq(Report)
    BY DEF Types, ChanType, AgentType, Links
  <2>4. \A g \in Generations : chan'[g] = IF g = link.conn THEN Append(chan[g], x) ELSE chan[g]
    BY <2>1, <2>2 DEF Types, ChanType
  <2>5. \A g \in Generations : In(chan'[g]) \subseteq In(chan[g]) \cup {x}
    BY <2>2, <2>3, <2>4, InAppend
  <2>6. SaidInv'
    <3>1. \A g \in Generations : g > link.conn => chan'[g] = <<>>
      BY <2>4, Numbers DEF Settled, SaidInv
    <3>2. \A g \in Generations : \A r \in In(chan'[g]) : Says(r) => r.s # "none" /\ (kind = "codex" => r.k = "status")
      BY <2>2, <2>5 DEF Settled, SaidInv
    <3>3. QED
      BY <2>1, <3>1, <3>2 DEF SaidInv
  <2>7. ToldInv'
    BY <2>1 DEF Settled, ToldInv, Told
  <2>8. OpenInv' /\ KnownInv'
    BY <2>1 DEF OpenInv, KnownInv
  <2>9. QED
    BY <2>6, <2>7, <2>8 DEF Settled
<1>2. CASE Connected
  <2>1. UNCHANGED <<kind, entry, line, op, moved, chan>> /\ ~link.up
        /\ link' = [up |-> TRUE, conn |-> link.conn + 1, watched |-> FALSE, late |-> {}]
    BY <1>2 DEF Connected
  <2>2. kind = "codex"
    BY <2>1, Constants DEF Inv, LineInv, Types, AgentType
  <2>3. link'.conn = link.conn + 1 /\ link'.conn \in Generations /\ link.conn < link'.conn /\ ~link'.watched
    BY <2>1, Constants DEF Types, AgentType, Links, Generations
  <2>4. chan[link'.conn] = <<>>
    BY <2>3 DEF Settled, SaidInv
  <2>5. entry.gen # link'.conn /\ op.gen # link'.conn
    BY <2>3, Numbers DEF Inv, LineInv
  <2>6. SaidInv'
    <3>1. \A g \in Generations : g > link'.conn => chan[g] = <<>>
      <4>1. \A g \in Generations : g > link'.conn => g > link.conn
        BY <2>3, Numbers, Constants
      <4>2. QED
        BY <4>1 DEF Settled, SaidInv
    <3>2. Waiting' = <<>> /\ (Tells(Waiting, Doing))'
      BY <2>1, <2>4, TellsShort DEF Waiting, Tells, Last
    <3>3. QED
      BY <2>1, <2>2, <3>1, <3>2 DEF Settled, SaidInv
  <2>7. ToldInv'
    BY <2>1, <2>5 DEF Settled, ToldInv, Told
  <2>8. OpenInv' /\ KnownInv'
    BY <2>1, <2>2, <2>5 DEF OpenInv, KnownInv, Opened, Watching, Subscribed
  <2>9. QED
    BY <2>6, <2>7, <2>8 DEF Settled
<1>3. CASE SessionEnds \/ \E n \in 0..MaxReports : Lag(n)
  BY <1>3, FaultFree DEF SessionEnds, Lag
<1>4. QED
  BY <1>1, <1>2, <1>3 DEF LinkNext

\* A report that says nothing of the status, or is not for this connection; or the observer.
LEMMA DeafSettled ==
  ASSUME Types, Inv, Settled, UNCHANGED <<kind, agent, link>>, HeadSame,
         \A g \in Generations : chan'[g] = chan[g] \/ (chan[g] # <<>> /\ chan'[g] = Tail(chan[g])),
         Waiting' = Waiting \/ ~Says(Head(Waiting)) \/ (entry.gen # link.conn /\ kind = "codex"),
         entry'.life = entry.life \/ entry'.life # "Subscribed", entry'.gen = entry.gen,
         entry'.conv = entry.conv, entry'.pending = entry.pending,
         op.pc # "idle" => (Told' <=> Told) /\ moved["op"] \subseteq moved'["op"]
  PROVE  Settled'
<1>0. op' = op /\ (Opening' <=> Opening) /\ (Opening => op.pc # "idle") /\ (Opening => entry.gen = op.gen)
  BY HolderSame DEF HeadSame, Opening, Inv, LineInv
<1>1. link.conn \in Generations /\ \A g \in Generations : chan[g] \in Seq(Report)
  BY DEF Types, ChanType, AgentType, Links
<1>2. Waiting \in Seq(Report) /\ (Waiting' = Waiting \/ (Waiting # <<>> /\ Waiting' = Tail(Waiting)))
  BY <1>1 DEF Waiting
<1>3. Doing' = Doing /\ (Clean' <=> Clean)
  BY DEF Doing, Clean
<1>4. Waiting' = Waiting \/ ~Says(Head(Waiting)) => (Mute(Waiting)' => Mute(Waiting))
  <2>1. CASE Waiting' = Waiting
    BY <2>1 DEF Mute
  <2>2. CASE Waiting # <<>> /\ Waiting' = Tail(Waiting) /\ ~Says(Head(Waiting))
    <3>1. Mute(Tail(Waiting)) => Mute(Waiting)
      BY <1>2, <2>2, InTail DEF Mute
    <3>2. Mute(Waiting)' <=> Mute(Tail(Waiting))
      BY <2>2 DEF Mute
    <3>3. QED
      BY <3>1, <3>2
  <2>3. QED
    BY <1>2, <2>1, <2>2
<1>5. SaidInv'
  <2>1. \A g \in Generations : In(chan'[g]) \subseteq In(chan[g])
    BY <1>1, InTail
  <2>2. Clean => Tells(Waiting', Doing)
    BY <1>2, TellsTail DEF Settled, SaidInv
  <2>3. (Tells(Waiting, Doing))' = Tells(Waiting', Doing)
    BY <1>3 DEF Tells
  <2>4. QED
    BY <1>1, <1>2, <1>3, <2>1, <2>2, <2>3 DEF Settled, SaidInv
<1>6. /\ Known(entry)' = Known(entry) /\ (Watching' => Watching) /\ (Opened' <=> Opened)
      /\ (op.pc # "idle" => Newer(entry, op.snap, moved["op"])' = Newer(entry, op.snap, moved["op"]))
      /\ Watching => entry.gen = link.conn
  BY <1>0 DEF Known, Watching, Subscribed, Opened, Newer, Told
<1>7. CASE Waiting' = Waiting \/ ~Says(Head(Waiting))
  <2>1. ToldInv'
    BY <1>0, <1>3, <1>4, <1>6, <1>7 DEF Settled, ToldInv, Agrees
  <2>2. OpenInv'
    <3>1. ASSUME NEW x \in In(Waiting), Corrects(x) PROVE x \in In(Waiting')
      <4>1. CASE Waiting' = Waiting
        BY <3>1, <4>1
      <4>2. CASE ~(Waiting' = Waiting)
        <5>1. Waiting # <<>> /\ Waiting' = Tail(Waiting) /\ ~Says(Head(Waiting)) /\ Says(x)
          BY <1>2, <1>7, <3>1, <4>2 DEF Corrects
        <5>2. In(Waiting) = {Head(Waiting)} \cup In(Tail(Waiting))
          BY <1>2, <5>1, InTail
        <5>3. QED
          BY <5>1, <5>2
      <4>3. QED
        BY <4>1, <4>2
    <3>2. Corrected => Corrected'
      BY <1>0, <1>6, <3>1 DEF Corrected, Corrects
    <3>3. Clean' /\ Opened' => /\ link'.watched /\ op'.snap # "none"
                              /\ Agrees(Newer(entry, op.snap, moved["op"]))'
      BY <1>0, <1>3, <1>4, <1>6, <1>7 DEF Settled, OpenInv, Agrees, Opened
    <3>4. kind' = "claude" /\ Opened' /\ ~Told' => Corrected'
      BY <1>0, <1>6, <3>2 DEF Settled, OpenInv, Opened
    <3>5. QED
      BY <3>3, <3>4 DEF OpenInv
  <2>3. KnownInv'
    BY <1>3, <1>4, <1>6, <1>7 DEF Settled, KnownInv, Agrees
  <2>4. QED
    BY <1>5, <2>1, <2>2, <2>3 DEF Settled
<1>8. CASE entry.gen # link.conn /\ kind = "codex"
  <2>1. ToldInv'
    BY <1>0, <1>3, <1>6, <1>8 DEF Settled, ToldInv
  <2>2. OpenInv'
    BY <1>0, <1>3, <1>6, <1>8 DEF Settled, OpenInv, Opened
  <2>3. KnownInv'
    BY <1>3, <1>6, <1>8 DEF Settled, KnownInv
  <2>4. QED
    BY <1>5, <2>1, <2>2, <2>3 DEF Settled
<1>9. QED
  BY <1>7, <1>8

\* A status reaches the session it is about.
LEMMA SessionStatus ==
  ASSUME Types, NEW g \in Generations, NEW r \in Report, SessionReport(g, r), Says(r), r.s # "none"
  PROVE  /\ entry'.life = entry.life /\ entry'.gen = entry.gen
         /\ Known(entry)' = r.s /\ (entry.conv # "none" => entry'.conv = r.s)
         /\ \/ UNCHANGED <<entry, moved>> /\ r.k = "activity"
            \/ op.pc # "idle" => Told' /\ "revision" \in moved'["op"]
<1>0. entry \in Entries
  BY EntryFacts
<1>1. CASE Ignored(entry, r)
  <2>1. UNCHANGED <<entry, moved>> /\ r.k = "activity" /\ Known(entry) = r.s
    BY <1>1 DEF SessionReport, Ignored, Says
  <2>2. QED
    BY <2>1 DEF Known
<1>2. CASE ~Ignored(entry, r)
  <2>1. PICK d : d = Effect(entry, r)
    OBVIOUS
  <2>2. d \in Entries /\ d.life = entry.life /\ d.gen = entry.gen
    BY <1>0, <2>1, EffectFacts DEF SessionReport
  <2>3. Known(d) = r.s /\ (entry.conv # "none" => d.conv = r.s)
    BY <1>0, <2>1, EffectStatus DEF SessionReport
  <2>4. PICK b : entry' = [d EXCEPT !.retained = b]
    BY <1>2, <2>1 DEF SessionReport
  <2>5. entry'.life = d.life /\ entry'.gen = d.gen /\ entry'.conv = d.conv /\ entry'.pending = d.pending
    BY <2>2, <2>4 DEF Entries
  <2>6. Known(entry)' = r.s
    BY <2>3, <2>5 DEF Known
  <2>7. op.pc # "idle" => moved'["op"] = moved["op"] \cup {"revision", "status"}
    <3>1. Mark(Touches(r)) /\ Touches(r) = {"revision", "status"} /\ {"revision", "status"} \in SUBSET Marks
      BY <1>2 DEF SessionReport, Touches, Says, Marks
    <3>2. QED
      BY <3>1, MarkAdds
  <2>8. QED
    BY <2>2, <2>3, <2>5, <2>6, <2>7 DEF Told
<1>3. QED
  BY <1>1, <1>2

\* A report that carries no status leaves it, and is not taken for one.
LEMMA OtherReport ==
  ASSUME Types, NEW g \in Generations, NEW r \in Report, ~Says(r),
         SessionReport(g, r) \/ ClosedReport(r) \/ RetoldReport(r) \/ LoseConnection(g)
  PROVE  /\ entry'.life = entry.life \/ entry'.life # "Subscribed"
         /\ entry'.gen = entry.gen /\ entry'.conv = entry.conv /\ entry'.pending = entry.pending
         /\ op.pc # "idle" => (Told' <=> Told) /\ moved["op"] \subseteq moved'["op"]
<1>0. entry \in Entries
  BY EntryFacts
<1>1. \A S \in SUBSET Marks : Mark(S) /\ "status" \notin S /\ op.pc # "idle" =>
         (Told' <=> Told) /\ moved["op"] \subseteq moved'["op"]
  BY MarkAdds DEF Told
<1>2. CASE SessionReport(g, r) /\ ~Ignored(entry, r)
  <2>1. PICK d : d = Effect(entry, r)
    OBVIOUS
  <2>2. d \in Entries /\ d.life = entry.life /\ d.gen = entry.gen
    BY <1>0, <1>2, <2>1, EffectFacts DEF SessionReport
  <2>3. d.conv = entry.conv /\ d.pending = entry.pending
    BY <1>0, <1>2, <2>1, EffectStatus DEF SessionReport
  <2>4. PICK b : entry' = [d EXCEPT !.retained = b]
    BY <1>2, <2>1 DEF SessionReport
  <2>5. entry'.life = d.life /\ entry'.gen = d.gen /\ entry'.conv = d.conv /\ entry'.pending = d.pending
    BY <2>2, <2>4 DEF Entries
  <2>6. Mark({"revision"}) /\ {"revision"} \in SUBSET Marks
    BY <1>2 DEF SessionReport, Touches, Says, Marks
  <2>7. QED
    BY <1>1, <2>2, <2>3, <2>5, <2>6
<1>3. CASE SessionReport(g, r) /\ Ignored(entry, r)
  BY <1>3 DEF SessionReport, Told
<1>4. CASE ClosedReport(r)
  BY <1>0, <1>1, <1>4 DEF ClosedReport, NeedsOpening, Entries, Marks
<1>5. CASE RetoldReport(r)
  BY <1>5 DEF RetoldReport, Told
<1>6. CASE LoseConnection(g)
  BY <1>0, <1>1, <1>6 DEF LoseConnection, Lost, Entries, Marks, Told
<1>7. QED
  BY <1>2, <1>3, <1>4, <1>5, <1>6

LEMMA StatusSettled ==
  ASSUME Types, Inv, Settled, NEW g \in Generations, NEW r \in Report, UNCHANGED <<kind, agent, link>>, HeadSame,
         chan[g] # <<>>, r = Head(chan[g]), \A h \in Generations : chan'[h] = IF h = g THEN Tail(chan[h]) ELSE chan[h],
         entry.gen = g, SessionReport(g, r), Says(r)
  PROVE  Settled'
<1>0. op' = op /\ (Opening' <=> Opening) /\ (Opening => op.pc # "idle") /\ (Opening => entry.gen = op.gen)
  BY HolderSame DEF HeadSame, Opening, Inv, LineInv
<1>1. link.conn \in Generations /\ \A h \in Generations : chan[h] \in Seq(Report)
  BY DEF Types, ChanType, AgentType, Links
<1>2. r \in In(chan[g]) /\ r.s # "none" /\ (kind = "codex" => r.k = "status")
  BY <1>1, InTail DEF Settled, SaidInv
<1>3. /\ entry'.life = entry.life /\ entry'.gen = entry.gen
      /\ Known(entry)' = r.s /\ (entry.conv # "none" => entry'.conv = r.s)
      /\ \/ UNCHANGED <<entry, moved>> /\ kind # "codex"
         \/ op.pc # "idle" => Told' /\ "revision" \in moved'["op"]
  BY <1>2, SessionStatus
<1>4. kind = "claude" => g = link.conn /\ Clean
  BY Numbers, Constants DEF Inv, LineInv, Settled, SaidInv, Clean
<1>5. Waiting \in Seq(Report) /\ Waiting' = (IF g = link.conn THEN Tail(Waiting) ELSE Waiting)
      /\ (g = link.conn => Waiting # <<>> /\ r = Head(Waiting))
  BY <1>1 DEF Waiting
<1>6. Doing' = Doing /\ kind \in {"codex", "claude"} /\ (Clean' <=> Clean)
  BY Constants DEF Doing, Clean, Types, AgentType
<1>7. g = link.conn /\ Clean => link.watched /\ (Mute(Waiting)' => r.s = Doing)
  <2> SUFFICES ASSUME g = link.conn, Clean PROVE link.watched /\ (Mute(Waiting)' => r.s = Doing)
    OBVIOUS
  <2>1. Tells(Waiting, Doing) /\ link.watched
    BY <1>5 DEF Settled, SaidInv
  <2>2. Mute(Tail(Waiting)) => r.s = Doing
    BY <1>5, <2>1, TellsTail
  <2>3. Mute(Waiting)' <=> Mute(Tail(Waiting))
    BY <1>5 DEF Mute
  <2>4. QED
    BY <2>1, <2>2, <2>3
<1>8. SaidInv'
  <2>1. \A h \in Generations : In(chan'[h]) \subseteq In(chan[h])
    BY <1>1, InTail
  <2>2. Clean => Tells(Waiting', Doing)
    BY <1>5, TellsTail DEF Settled, SaidInv
  <2>3. (Tells(Waiting, Doing))' = Tells(Waiting', Doing)
    BY <1>6 DEF Tells
  <2>4. Clean => link.watched \/ Waiting' = <<>>
    BY <1>5, <1>7 DEF Settled, SaidInv
  <2>5. \A h \in Generations : h > link.conn => chan'[h] = <<>>
    BY DEF Settled, SaidInv
  <2>6. QED
    BY <1>3, <1>6, <2>1, <2>2, <2>3, <2>4, <2>5 DEF Settled, SaidInv
<1>9. ToldInv'
  BY <1>0, <1>2, <1>3, <1>6, <1>7 DEF Settled, ToldInv, Told, Agrees
<1>10. OpenInv'
  <2>1. CASE op.pc # "idle" => Told'
    <3>1. Opened' => Told' /\ Opened /\ Newer(entry, op.snap, moved["op"])' = r.s
      BY <1>0, <1>2, <1>3, <2>1 DEF Newer, Told, Opened
    <3>2. QED
      BY <1>0, <1>6, <1>7, <3>1 DEF Settled, OpenInv, Opened, Agrees
  <2>2. CASE UNCHANGED <<entry, moved>> /\ kind # "codex"
    <3>1. Known(entry) = r.s /\ (Told' <=> Told) /\ (Opened' <=> Opened) /\ kind = "claude"
          /\ g = link.conn /\ Clean /\ (\A x : Corrects(x)' <=> Corrects(x))
      BY <1>0, <1>3, <1>4, <1>6, <2>2 DEF Known, Told, Opened, Corrects
    <3>2. ASSUME NEW x \in In(Waiting), Corrects(x) PROVE x \in In(Waiting')
      BY <1>5, <3>1, <3>2, InTail DEF Corrects
    <3>3. Corrected => Corrected'
      BY <1>0, <1>3, <3>1, <3>2 DEF Corrected
    <3>4. Opened /\ ~Told => Corrected'
      BY <3>1, <3>3 DEF Settled, OpenInv
    <3>5. Corrected' /\ Mute(Waiting)' => Known(entry)' \in {"none", op'.snap}
      BY MuteThen
    <3>6. Opened /\ Mute(Waiting)' => Newer(entry, op.snap, moved["op"])' = r.s
      BY <1>0, <1>2, <1>3, <3>1, <3>4, <3>5 DEF Newer, Told
    <3>7. Clean' /\ Opened' => /\ link'.watched /\ op'.snap # "none"
                              /\ Agrees(Newer(entry, op.snap, moved["op"]))'
      BY <1>0, <1>6, <1>7, <3>1, <3>6 DEF Settled, OpenInv, Agrees
    <3>8. QED
      BY <3>1, <3>4, <3>7 DEF OpenInv
  <2>3. QED
    BY <1>3, <2>1, <2>2
<1>11. KnownInv'
  <2>1. Clean /\ Watching' => link.watched /\ entry'.conv # "none" /\ (Mute(Waiting)' => entry'.conv = Doing)
    BY <1>2, <1>3, <1>7 DEF Settled, KnownInv, Watching, Subscribed
  <2>2. kind = "claude" => link.watched /\ (Mute(Waiting)' => Known(entry)' = Doing)
    BY <1>3, <1>4, <1>7
  <2>3. QED
    BY <1>6, <2>1, <2>2 DEF KnownInv, Agrees
<1>12. QED
  BY <1>8, <1>9, <1>10, <1>11 DEF Settled

LEMMA DeliverSettled ==
  ASSUME Types, Inv, Settled, NEW g \in Generations, Deliver(g)
  PROVE  Settled'
<1>1. UNCHANGED <<kind, agent, link, op, cmd, faults>> /\ HeadSame
  BY DeliverStep DEF ReportStep
<1>2. link.conn \in Generations /\ \A h \in Generations : chan[h] \in Seq(Report)
  BY DEF Types, ChanType, AgentType, Links
<1>3. chan[g] # <<>> /\ \A h \in Generations : chan'[h] = IF h = g THEN Tail(chan[h]) ELSE chan[h]
  BY DEF Deliver, Types, ChanType
<1>4. PICK r \in Report : r = Head(chan[g])
  BY <1>2, <1>3, InTail
<1>5. kind = "claude" => entry.gen = link.conn
  <2> SUFFICES ASSUME kind = "claude" PROVE entry.gen = link.conn
    OBVIOUS
  <2>1. link.up /\ link.conn = 1
    BY DEF Inv, LineInv
  <2>2. g <= link.conn
    BY <1>3, Numbers, Constants DEF Settled, SaidInv
  <2>3. g = link.conn
    BY <2>1, <2>2, Constants DEF Generations
  <2>4. entry.gen # 0
    BY <1>3, <2>1, <2>3 DEF Settled, SaidInv, Waiting, Clean
  <2>5. QED
    BY <2>1, <2>4, Numbers DEF Inv, LineInv
<1>6. CASE entry.gen = g /\ SessionReport(g, r) /\ Says(r)
  BY <1>1, <1>3, <1>4, <1>6, StatusSettled
<1>7. CASE ~(entry.gen = g /\ SessionReport(g, r) /\ Says(r))
  <2>1. Waiting' = Waiting \/ (link.conn = g /\ Head(Waiting) = r)
    BY <1>1, <1>2, <1>3, <1>4 DEF Waiting
  <2>2. CASE entry.gen # g /\ UNCHANGED <<entry, line, moved>>
    <3>1. link.conn = g => entry.gen # link.conn /\ kind = "codex"
      BY <1>5, <2>2, Constants DEF Types, AgentType
    <3>2. QED
      BY <1>1, <1>3, <2>1, <2>2, <3>1, DeafSettled DEF Told
  <2>3. CASE ~Says(r) /\ (SessionReport(g, r) \/ ClosedReport(r) \/ RetoldReport(r) \/ LoseConnection(g))
    BY <1>1, <1>3, <2>1, <2>3, OtherReport, DeafSettled
  <2>4. ClosedReport(r) \/ RetoldReport(r) \/ r.k = "lost" => ~Says(r)
    BY DEF ClosedReport, RetoldReport, Says
  <2>5. \/ entry.gen # g /\ UNCHANGED <<entry, line, moved>>
        \/ entry.gen = g /\ SessionReport(g, r)
        \/ ClosedReport(r)
        \/ RetoldReport(r)
        \/ r.k = "lost" /\ LoseConnection(g)
    BY <1>4 DEF Deliver
  <2>6. QED
    BY <1>7, <2>2, <2>3, <2>4, <2>5
<1>8. QED
  BY <1>6, <1>7

LEMMA ReportSettled ==
  ASSUME Types, Inv, Settled, ReportNext
  PROVE  Settled'
<1>1. ASSUME NEW g \in Generations, ObserverTells(g) PROVE Settled'
  <2>1. UNCHANGED <<kind, agent, link, chan>> /\ HeadSame /\ LoseConnection(g)
    BY <1>1, SameHead DEF ObserverTells
  <2>2. PICK r \in Report : ~Says(r)
    <3>1. Say("lost", 0, "none") \in Report /\ ~Says(Say("lost", 0, "none"))
      BY SayFacts DEF Status, Says, Say
    <3>2. QED
      BY <3>1
  <2>3. Waiting' = Waiting
    BY <2>1 DEF Waiting
  <2>4. QED
    BY <2>1, <2>2, <2>3, OtherReport, DeafSettled
<1>2. QED
  BY <1>1, DeliverSettled DEF ReportNext

\* A call is taken or refused; what the holder of the lock knows is what the agent does.
LEMMA ProviderSettled ==
  ASSUME Types, Inv, Settled, ProviderNext
  PROVE  Settled'
<1>1. UNCHANGED <<entry, line, cmd, moved, chan, agent, kind>>
  BY ProviderTypes DEF ProviderNext
<1>2. op.pc # "idle" /\ op'.pc # "idle" /\ op'.gen = op.gen /\ link'.conn = link.conn /\ link'.up = link.up
  BY ProviderFacts DEF ProviderNext, Inv
<1>3. /\ (Opening' <=> Opening) /\ (Told' <=> Told) /\ Known(entry)' = Known(entry) /\ (Watching' <=> Watching)
      /\ Waiting' = Waiting /\ Doing' = Doing /\ (Mute(Waiting)' <=> Mute(Waiting))
  BY <1>1, <1>2 DEF Opening, req, Told, Known, Watching, Subscribed, Waiting, Doing, Mute
<1>4. op \in Ops /\ link \in Links /\ kind \in {"codex", "claude"}
  BY EntryFacts, Constants DEF Types, AgentType
<1>0. (Tells(Waiting, Doing))' <=> Tells(Waiting, Doing)
  BY <1>3 DEF Tells
<1>5. CASE ProviderOpens
  <2>1. /\ req.kind \in Opens /\ link'.watched /\ op'.snap = Doing /\ link.up /\ op.gen = link.conn /\ Opening
        /\ link'.late = link.late /\ (Clean' <=> Clean)
    BY <1>2, <1>4, <1>5 DEF ProviderOpens, Live, Doing, Opening, Ops, Links, Clean
  <2>2. SaidInv'
    <3>1. kind = "claude" => entry.gen # 0
      BY <2>1, Numbers, Constants, <1>4 DEF Inv, LineInv, Ops
    <3>2. QED
      BY <1>0, <1>1, <1>2, <1>3, <2>1, <3>1 DEF Settled, SaidInv
  <2>3. ToldInv'
    BY <1>1, <1>2, <1>3, <2>1 DEF Settled, ToldInv, Agrees
  <2>4. Told => Newer(entry, op.snap, moved["op"])' = Known(entry)
    BY <1>1, <1>2, <1>3 DEF Settled, ToldInv, Newer, Told
  <2>5. ~Told => Newer(entry, op.snap, moved["op"])' = Doing
    BY <1>1, <1>3, <2>1 DEF Newer, Told
  <2>6. Doing # "none"
    BY DEF Doing, Busy
  <2>7. Clean' /\ Opened' => /\ link'.watched /\ op'.snap # "none"
                            /\ Agrees(Newer(entry, op.snap, moved["op"]))'
    BY <1>3, <2>1, <2>4, <2>5, <2>6 DEF Settled, ToldInv, Agrees
  <2>8. kind' = "claude" => Corrected'
    <3>1. SUFFICES ASSUME kind = "claude", Known(entry) # "none", Known(entry) # Doing
                   PROVE  \E r \in In(Waiting) : Corrects(r)
      BY <1>1, <1>3, <2>1 DEF Corrected, Corrects
    <3>2. ~Mute(Waiting) /\ Clean
      BY <2>1, <3>1 DEF Settled, KnownInv, SaidInv, Agrees, Clean
    <3>3. Waiting \in Seq(Report)
      BY <1>4 DEF Waiting, Types, ChanType, Links
    <3>4. PICK i : Last(Waiting, i)
      BY <3>2, <3>3, LastSays
    <3>5. Waiting[i].s = Doing /\ Waiting[i] \in In(Waiting) /\ Says(Waiting[i])
      BY <3>2, <3>4 DEF Settled, SaidInv, Tells, Last, In
    <3>6. QED
      BY <3>1, <3>5 DEF Corrects
  <2>9. OpenInv'
    BY <2>7, <2>8 DEF OpenInv
  <2>10. KnownInv'
    BY <1>1, <1>2, <1>3, <2>1 DEF Settled, KnownInv, Agrees
  <2>11. QED
    BY <2>2, <2>3, <2>9, <2>10 DEF Settled
<1>6. CASE link' = link /\ (Opened' => Opened /\ op'.snap = op.snap)
  <2>1. Clean' <=> Clean
    BY <1>6 DEF Clean
  <2>2. SaidInv'
    BY <1>0, <1>1, <1>3, <1>6, <2>1 DEF Settled, SaidInv
  <2>3. ToldInv'
    BY <1>1, <1>2, <1>3, <1>6, <2>1 DEF Settled, ToldInv, Agrees
  <2>4. Opened' => Newer(entry, op.snap, moved["op"])' = Newer(entry, op.snap, moved["op"])
    BY <1>1, <1>6 DEF Newer, Known
  <2>5. Opened' /\ Corrected => Corrected'
    BY <1>3, <1>6 DEF Corrected, Corrects
  <2>6. OpenInv'
    BY <1>1, <1>3, <1>6, <2>1, <2>4, <2>5 DEF Settled, OpenInv, Agrees
  <2>7. KnownInv'
    BY <1>1, <1>3, <1>6, <2>1 DEF Settled, KnownInv, Agrees
  <2>8. QED
    BY <2>2, <2>3, <2>6, <2>7 DEF Settled
<1>7. CASE ProviderReads
  <2>1. link' = link /\ op' = [op EXCEPT !.pc = "answered", !.page = History]
        /\ (op.pc = "reading" \/ req.kind = "Latest")
    BY <1>7 DEF ProviderReads, agentVars
  <2>2. op'.snap = op.snap
    BY <1>4, <2>1 DEF Ops
  <2>3. Opened' => Opened
    BY <1>2, <1>3, <2>1 DEF Opened, Opening, Opens
  <2>4. QED
    BY <1>6, <2>1, <2>2, <2>3
<1>8. CASE ProviderCloses
  <2>1. Closing /\ ~Opening /\ ~Watching /\ link.up /\ op.gen = link.conn /\ ~Opened'
    BY <1>2, <1>3, <1>4, <1>8 DEF ProviderCloses, Live, Closing, Opening, Opens, Inv, LineInv, Watching,
      Subscribed, Links, Opened
  <2>2. CASE kind = "claude"
    <3>1. link' = link
      BY <1>8, <2>2 DEF ProviderCloses
    <3>2. QED
      BY <1>6, <2>1, <3>1
  <2>3. CASE kind = "codex"
    <3>1. Clean' => Clean /\ Waiting = <<>>
      <4>1. link'.late = link.late \cup IF chan[op.gen] = <<>> THEN {} ELSE {"reports"}
        BY <1>4, <1>8, <2>3 DEF ProviderCloses, Links
      <4>2. QED
        BY <1>2, <2>1, <4>1 DEF Clean, Waiting
    <3>2. SaidInv'
      BY <1>0, <1>1, <1>2, <1>3, <2>3, <3>1 DEF Settled, SaidInv
    <3>3. ToldInv'
      BY <1>1, <1>2, <1>3, <2>1 DEF Settled, ToldInv
    <3>4. OpenInv' /\ KnownInv'
      BY <1>1, <1>3, <2>1, <2>3 DEF OpenInv, KnownInv
    <3>5. QED
      BY <3>2, <3>3, <3>4 DEF Settled
  <2>4. QED
    BY <1>4, <2>2, <2>3
<1>9. CASE CallFails
  <2>1. link' = link /\ op'.pc = "refused"
    BY <1>4, <1>9 DEF CallFails, agentVars, Ops
  <2>2. QED
    BY <1>6, <2>1 DEF Opened
<1>10. QED
  BY <1>5, <1>7, <1>8, <1>9 DEF ProviderNext

\* The lock's holder makes its call: it has been told nothing, and the session is not yet subscribed.
LEMMA CallSettled ==
  ASSUME Types, Inv, Settled, UNCHANGED <<kind, agent, link, chan>>, ~Told', op'.pc = "calling",
         entry'.conv = entry.conv, entry'.pending = entry.pending,
         Watching' => Watching, kind = "claude" /\ entry.gen # 0 => entry'.gen # 0
  PROVE  Settled'
<1>1. ~Opened' /\ Doing' = Doing /\ Waiting' = Waiting /\ Known(entry)' = Known(entry)
      /\ (Mute(Waiting)' <=> Mute(Waiting)) /\ (Clean' <=> Clean)
  BY DEF Opened, Doing, Waiting, Known, Mute, Clean
<1>2. SaidInv'
  <2>1. (Tells(Waiting, Doing))' <=> Tells(Waiting, Doing)
    BY <1>1 DEF Tells
  <2>2. QED
    BY <1>1, <2>1 DEF Settled, SaidInv
<1>3. ToldInv' /\ OpenInv'
  BY <1>1 DEF ToldInv, OpenInv
<1>4. KnownInv'
  BY <1>1 DEF Settled, KnownInv, Agrees
<1>5. QED
  BY <1>2, <1>3, <1>4 DEF Settled

LEMMA BeginSettled ==
  ASSUME Types, Inv, Settled, BeginOpen \/ BeginClose \/ (BeginLatest /\ Subscribed(entry, req.gen))
  PROVE  Settled'
<1>1. UNCHANGED <<kind, agent, link, chan>> /\ line # <<>> /\ entry \in Entries
  BY EntryFacts DEF BeginOpen, BeginClose, BeginLatest, agentVars
<1>2. moved'["op"] = {} /\ ~Told'
  BY DEF BeginOpen, BeginClose, BeginLatest, MarkFrom, Types, MovedType, Tasks, Told
<1>3. op'.pc = "calling"
  BY DEF BeginOpen, BeginClose, BeginLatest, Calling, Idle
<1>4. req.gen # 0
  BY <1>1, HeadFacts, Constants
<1>5. /\ entry'.conv = entry.conv /\ entry'.pending = entry.pending
      /\ (Watching' => Watching) /\ (entry.gen # 0 => entry'.gen # 0)
  <2>1. CASE entry' = entry
    BY <1>1, <2>1 DEF Watching, Subscribed
  <2>2. CASE entry' = [entry EXCEPT !.life = "Subscribing", !.gen = req.gen, !.cand = 0]
    BY <1>1, <1>4, <2>2 DEF Watching, Subscribed, Entries
  <2>3. CASE entry' = [entry EXCEPT !.life = "Unsubscribing"]
    BY <1>1, <2>3 DEF Watching, Subscribed, Entries
  <2>4. QED
    BY <2>1, <2>2, <2>3 DEF BeginOpen, BeginClose, BeginLatest
<1>6. QED
  BY <1>1, <1>2, <1>3, <1>5, CallSettled

\* The lock is let go.
LEMMA ReleaseSettled ==
  ASSUME Types, Inv, Settled, UNCHANGED <<kind, agent, link, chan>>, op' = Idle, entry'.gen = entry.gen,
         \/ entry'.conv = entry.conv /\ entry'.pending = entry.pending /\ (Watching' => Watching)
         \/ Opened /\ Known(entry)' = entry'.conv /\ entry'.conv = Newer(entry, op.snap, moved["op"])
         \/ ~Watching' /\ kind # "claude"
  PROVE  Settled'
<1>1. op'.pc = "idle" /\ ~Opened' /\ ~Opening'
  BY DEF Opened, Opening, Idle
<1>2. Doing' = Doing /\ Waiting' = Waiting /\ (Mute(Waiting)' <=> Mute(Waiting)) /\ (Clean' <=> Clean)
  BY DEF Doing, Waiting, Mute, Clean
<1>3. SaidInv'
  <2>1. (Tells(Waiting, Doing))' <=> Tells(Waiting, Doing)
    BY <1>2 DEF Tells
  <2>2. QED
    BY <1>2, <2>1 DEF Settled, SaidInv
<1>4. ToldInv' /\ OpenInv'
  BY <1>1 DEF ToldInv, OpenInv
<1>5. KnownInv'
  <2>1. CASE entry'.conv = entry.conv /\ entry'.pending = entry.pending /\ (Watching' => Watching)
    BY <1>2, <2>1 DEF Settled, KnownInv, Agrees, Known
  <2>2. CASE Opened /\ Known(entry)' = entry'.conv /\ entry'.conv = Newer(entry, op.snap, moved["op"])
    <3>1. kind = "claude" => Clean
      BY DEF Inv, LineInv, Settled, SaidInv, Clean
    <3>2. Clean => link.watched /\ entry'.conv # "none" /\ (Mute(Waiting) => entry'.conv = Doing)
      BY <2>2 DEF Settled, OpenInv, Agrees, Newer
    <3>3. QED
      BY <1>2, <2>2, <3>1, <3>2 DEF KnownInv, Agrees
  <2>3. CASE ~Watching' /\ kind # "claude"
    BY <2>3 DEF KnownInv
  <2>4. QED
    BY <2>1, <2>2, <2>3
<1>6. QED
  BY <1>3, <1>4, <1>5 DEF Settled

\* An open settles on the newer of what it was told and what was reported.
LEMMA CompletedStatus ==
  ASSUME Types, Settled, OpenCompletes
  PROVE  Known(entry)' = entry'.conv /\ entry'.conv = Newer(entry, op.snap, moved["op"])
<1>1. entry \in Entries /\ op.pc # "idle" /\ entry' \in Entries
  BY EntryFacts, CompletedFacts DEF OpenCompletes
<1>2. CASE req.kind = "Prompt"
  <2>1. entry' = AppliedResume(entry, op.snap, moved["op"])
    BY <1>2 DEF OpenCompletes
  <2>2. QED
    BY <1>1, <2>1 DEF AppliedResume, Known, Entries
<1>3. CASE req.kind # "Prompt" /\ "revision" \notin moved["op"]
  <2>1. PICK b \in BOOLEAN : b = (req.kind = "Refresh")
    OBVIOUS
  <2>2. entry' = Applied(entry, op.snap, op.page, b)
    BY <1>3, <2>1 DEF OpenCompletes
  <2>3. entry'.conv = op.snap /\ entry'.pending = "none"
    BY <1>1, <2>2 DEF Applied, Entries
  <2>4. ~Told
    BY <1>1, <1>3 DEF Settled, ToldInv
  <2>5. QED
    BY <2>3, <2>4 DEF Newer, Told, Known
<1>4. CASE req.kind # "Prompt" /\ "revision" \in moved["op"]
  <2>1. entry' = AppliedStale(entry, op.snap, op.page, moved["op"])
    BY <1>4 DEF OpenCompletes
  <2>2. QED
    BY <1>1, <2>1 DEF AppliedStale, Known, Entries
<1>5. QED
  BY <1>2, <1>3, <1>4

LEMMA EndsSettled ==
  ASSUME Types, Inv, Settled, OperationNext, ~(BeginOpen \/ BeginClose \/ (BeginLatest /\ Subscribed(entry, req.gen)))
  PROVE  Settled'
<1>1. CASE OpenCompletes
  <2>1. UNCHANGED <<kind, agent, link, chan>> /\ op' = Idle /\ Opening /\ op.pc = "answered"
    BY <1>1 DEF OpenCompletes, Return, Opening, agentVars
  <2>2. entry'.gen = entry.gen /\ entry.gen = op.gen
    BY <1>1, <2>1, CompletedFacts DEF Inv, LineInv
  <2>3. CASE op.gen = link.conn
    BY <1>1, <2>1, <2>2, <2>3, CompletedStatus, ReleaseSettled DEF Opened
  <2>4. CASE op.gen # link.conn
    <3>1. ~Watching'
      BY <2>1, <2>2, <2>4 DEF Watching, Subscribed
    <3>2. kind # "claude"
      BY <2>2, <2>4, Numbers, EntryFacts, <2>1 DEF Inv, LineInv
    <3>3. QED
      BY <2>1, <2>2, <3>1, <3>2, ReleaseSettled
  <2>5. QED
    BY <2>3, <2>4
<1>2. CASE OpenInterrupted \/ OpenFails \/ CloseEnds \/ LatestEnds
  <2>1. UNCHANGED <<kind, agent, link, chan>> /\ op' = Idle
    BY <1>2 DEF OpenInterrupted, OpenFails, CloseEnds, LatestEnds, Return, agentVars
  <2>2. entry'.gen = entry.gen /\ entry'.life \in {entry.life, "Error", "Unloaded"} /\ entry \in Entries
    BY <1>2, EndedFacts, EntryFacts
  <2>3. entry'.conv = entry.conv /\ entry'.pending = entry.pending
    BY <1>2, <2>2 DEF OpenInterrupted, OpenFails, CloseEnds, LatestEnds, Entries
  <2>4. Watching' => Watching
    BY <2>1, <2>2 DEF Watching, Subscribed
  <2>5. QED
    BY <2>1, <2>2, <2>3, <2>4, ReleaseSettled
<1>3. CASE OpenAlready \/ OpenPanics \/ CloseRefrains \/ (BeginLatest /\ ~Subscribed(entry, req.gen))
  <2>1. UNCHANGED <<kind, agent, link, chan, entry>> /\ op' = Idle
    BY <1>3 DEF OpenAlready, OpenPanics, CloseRefrains, BeginLatest, Return, agentVars
  <2>2. QED
    BY <2>1, ReleaseSettled DEF Watching
<1>4. QED
  BY <1>1, <1>2, <1>3 DEF OperationNext

LEMMA NextSettled ==
  ASSUME Types, Inv, Settled, faults' = <<>>, [Next]_vars
  PROVE  Settled'
<1>1. CASE OperationNext
  BY <1>1, BeginSettled, EndsSettled
<1>2. CASE UNCHANGED vars
  BY <1>2 DEF vars, agentVars, Settled, SaidInv, ToldInv, OpenInv, KnownInv, Opened, Opening, req, Told, Known, Newer,
    Watching, Subscribed, Waiting, Agrees, Doing, Busy, Mute, Tells, Clean, Corrected, Corrects
<1>3. QED
  BY <1>1, <1>2, AgentSettled, LinkSettled, ReportSettled, ProviderSettled, ViewSettled, CommandSettled
    DEF Next, Viewing, Commanding

\* Without faults, none was met before.
LEMMA FaultsStay ==
  ASSUME Types, [Next]_vars, faults' = <<>>
  PROVE  faults = <<>>
<1>1. CASE SessionEnds \/ (\E n \in 0..MaxReports : Lag(n)) \/ CallFails
  BY <1>1, FaultFree DEF SessionEnds, Lag, CallFails
<1>2. CASE Viewing \/ Commanding
  BY <1>2, ViewFacts, CommandFrame
<1>3. CASE AgentNext \/ ConnectionLost \/ Connected \/ ReportNext \/ UNCHANGED vars
  BY <1>3 DEF AgentNext, TurnBegins, TurnEnds, GoesIdle, WorkBegins, TranscriptChanges, ConnectionLost, Connected,
    ReportNext, Deliver, ObserverTells, vars
<1>4. CASE ProviderOpens \/ ProviderReads \/ ProviderCloses \/ OperationNext
  BY <1>4 DEF ProviderOpens, ProviderReads, ProviderCloses, OperationNext, OpenAlready, BeginOpen, OpenPanics,
    OpenCompletes, OpenInterrupted, OpenFails, CloseRefrains, BeginClose, CloseEnds, BeginLatest, LatestEnds
<1>5. QED
  BY <1>1, <1>2, <1>3, <1>4 DEF Next, Viewing, Commanding, LinkNext, ProviderNext

LEMMA InitSettled == Init => Settled
<1> SUFFICES ASSUME Init PROVE Settled
  OBVIOUS
<1>1. /\ link = [up |-> TRUE, conn |-> 1, watched |-> FALSE, late |-> {}] /\ op = Idle
      /\ \A g \in Generations : chan[g] = <<>>
      /\ Known(entry) = "none" /\ entry.life = "Unloaded"
  BY DEF Init, Known
<1>2. SaidInv
  BY <1>1, InShort, TellsShort, Constants DEF SaidInv, Waiting
<1>3. ToldInv /\ OpenInv /\ KnownInv
  BY <1>1 DEF ToldInv, OpenInv, KnownInv, Opened, Opening, Idle, Watching, Subscribed, Clean
<1>4. QED
  BY <1>2, <1>3 DEF Settled
-----------------------------------------------------------------------------
(* Results.                                                                *)

\* Every field keeps to its domain, and no history grows past its bound.
\* (app/tasks/sessions.rs SessionState, SessionEntry)
THEOREM TypesHold == Spec => []TypeOK
<1>1. Types => TypeOK
  BY DEF Types, AgentType, ChanType, ViewType, EntryType, LineType, MovedType, FaultType, TypeOK,
    Agents, Links, Entries, Lives, Ops, Cmds, Tasks
<1>2. QED
  BY <1>1, Invariant, PTL

\* Subscribing and Unsubscribing end with the lock that began them: whatever the
\* call answers, and whoever reported meanwhile, the next open finds a state that
\* transition() leaves.  (subscription.rs ensure_subscribed, unsubscribe_if_unused)
THEOREM EffectsHaveEnded == Spec => []EffectsEnd
<1>1. Types /\ Inv => EffectsEnd
  <2> SUFFICES ASSUME Types, Inv, line = <<>>, ~Met("lag")
               PROVE  entry.life \notin {"Subscribing", "Unsubscribing"}
    BY DEF EffectsEnd
  <2>1. ~Opening /\ ~Closing
    BY DEF Opening, Closing, Types, LineType
  <2>2. QED
    BY <2>1 DEF Inv, EffectInv
<1>2. QED
  BY <1>1, Invariant, PTL

\* No close, exit or lost connection that crosses an open leaves the session
\* Subscribed and unreported.  (subscription.rs ensure_subscribed: observation_epoch)
THEOREM SubscribedAreWatched == Spec => []SubscribedIsWatched
<1>1. Inv => SubscribedIsWatched
  <2> SUFFICES ASSUME Inv, Quiet, Watching, ~(Met("exit") /\ Met("lag"))
               PROVE  link.watched
    BY DEF SubscribedIsWatched
  <2>1. ~CloseTold
    BY Constants DEF Quiet, CloseTold, In
  <2>2. QED
    BY <2>1 DEF Quiet, Inv, WatchInv, Heard
<1>2. QED
  BY <1>1, Invariant, PTL

\* A turn the session saw end is not reopened by a page read before, by a start
\* reported after, or by a command that recorded it.  (turns.rs upsert_turn,
\* merge_stale_turns_page, merge_latest_turns_page)
THEOREM EndedTurnsStay == Spec => EndedStaysEnded
<1>1. ASSUME Types, Inv, [Next]_vars, NEW t \in Turns, entry.page[t] = "done"
      PROVE  entry'.page[t] # "running"
  <2> USE <1>1, EntryFacts, PageFacts
  <2> SUFFICES KeepsDone(entry.page, entry'.page) \/ entry'.page = NoPage
               \/ (entry'.page = op.page /\ "revision" \notin moved["op"])
    BY DEF KeepsDone, Inv, EndInv
  <2>1. KeepsDone(entry.page, entry.page)
    BY DEF KeepsDone
  <2>2. KeepsDone(entry.page, Merge(entry.page, op.page))
    BY MergeFacts DEF Entries, Ops
  <2>3. CASE AgentNext \/ LinkNext \/ ProviderNext \/ UNCHANGED vars
    <3>1. entry' = entry
      BY <2>3, ProviderTypes DEF AgentNext, TurnBegins, TurnEnds, GoesIdle, WorkBegins, TranscriptChanges, LinkNext,
        ConnectionLost, Connected, SessionEnds, Lag, ProviderNext, vars
    <3>2. QED
      BY <2>1, <3>1
  <2>4. CASE ReportNext
    BY <2>4, DeliverStep, ObserverStep DEF ReportNext, ReportStep
  <2>5. CASE OperationNext
    <3>1. CASE OpenCompletes
      BY <2>1, <2>2, <3>1, CompletedFacts
    <3>2. CASE OpenInterrupted \/ OpenFails \/ CloseEnds \/ LatestEnds
      BY <2>1, <2>2, <3>2, EndedFacts
    <3>3. CASE OpenAlready \/ OpenPanics \/ CloseRefrains \/ BeginOpen \/ BeginClose \/ BeginLatest
      <4>1. entry'.page = entry.page
        BY <3>3 DEF OpenAlready, OpenPanics, CloseRefrains, BeginOpen, BeginClose, BeginLatest, Entries
      <4>2. QED
        BY <2>1, <4>1
    <3>4. QED
      BY <2>5, <3>1, <3>2, <3>3 DEF OperationNext
  <2>6. CASE Viewing
    BY <2>1, <2>6, ViewFacts
  <2>7. CASE Commanding
    BY <2>7, CommandSteps DEF CommandStep, EntryStep
  <2>8. QED
    BY <2>3, <2>4, <2>5, <2>6, <2>7 DEF Next, Viewing, Commanding
<1>2. Types /\ Inv /\ [Next]_vars => [\A t \in Turns : entry.page[t] = "done" => entry'.page[t] # "running"]_vars
  BY <1>1
<1>3. QED
  BY <1>2, Invariant, PTL DEF Spec, EndedStaysEnded

\* Where nothing was lost, and no subscription closed on this connection left its
\* reports waiting, the status of a subscribed session is the agent's once nothing
\* is in flight: whatever crossed an open, a refresh or a prompt's resume was settled
\* for the newer of the two, however far behind the bridge was.
\* (status.rs newer_thread_status; bridge.rs, claude_bridge.rs)
THEOREM StatusHasSettled == Spec => []StatusSettles
<1> DEFINE SInv == faults = <<>> => Settled
<1>1. Init => SInv
  BY InitSettled
<1>2. Types /\ Inv /\ SInv /\ [Next]_vars => SInv'
  BY NextSettled, FaultsStay
<1>3. Types /\ SInv => StatusSettles
  <2> SUFFICES ASSUME Types, Settled, Quiet, Watching, "reports" \notin link.late PROVE entry.conv = Doing
    BY DEF StatusSettles, Doing
  <2>1. Mute(Waiting)
    BY InShort DEF Quiet, Waiting, Mute, Types, AgentType, Links
  <2>2. QED
    BY <2>1 DEF Quiet, Settled, KnownInv, Agrees, Clean
<1>4. QED
  <2> HIDE DEF SInv
  <2>1. QED
    BY <1>1, <1>2, <1>3, Invariant, PTL DEF Spec
=============================================================================
