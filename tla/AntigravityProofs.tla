------------------------- MODULE AntigravityProofs -------------------------
(***************************************************************************)
(* Proofs about AntigravitySession, for every value of its constants: any  *)
(* number of callers, questions, identifiers, frames and faults.           *)
(***************************************************************************)
EXTENDS AntigravitySession, TLAPS

\* A reply and an error both answer a request.
USE DEF Answer

-----------------------------------------------------------------------------
(* Types.                                                                  *)

Marks == 0..MaxRpc \cup Asks
Frames == [kind : {"reply", "error", "work", "ask", "done", "call", "exit"}, id : Marks]
Orders == [kind : {"prompt", "setup", "cancel", "answer", "respond"}, id : Marks]
GoodInputs == {in \in Inputs : in.acc \subseteq in.reqs}
Good == {c \in Checkpoints : c.input \in GoodInputs /\ (~c.loaded \/ c.setup # 0 => c.pending = {})}
CommitRecords == [who : Callers \cup {"reader", "opener"},
             kind : {"prompt", "setup", "cancel", "answer", "respond", "ack", "fence"},
             id : Marks, through : Nat, cp : Good,
             status : {"sent", "gone", "ok", "refused", "full", "unknown"}]

\* A commit carries a place in the child's output and an identifier of its kind.
CommitTyped(r) ==
  r # NoCommit =>
    /\ r \in CommitRecords /\ r.through <= Len(output)
    /\ r.kind \in {"prompt", "setup"} => r.id \in Rpcs
    /\ r.kind \in {"prompt", "answer"} => r.who \in Callers
    /\ r.kind = "cancel" => r.who \in Callers \cup {"reader"}
    /\ r.kind = "respond" => r.id \in Asks

FrameType ==
  /\ output \in Seq(Frames) /\ Len(output) <= MaxOutput /\ stdin \in Seq(Orders)
  /\ \A i \in DOMAIN output :
       /\ output[i].kind \in Answer => output[i].id \in Rpcs
       /\ output[i].kind \in {"ask", "done", "call"} => output[i].id \in Asks

RunnerType ==
  /\ node \in {"none", "Detached", "Replaying", "Live"} /\ fence \in 0..Len(output)
  /\ saved \in [through : 0..Len(output), cp : Good]

CommitType == CommitTyped(commit) /\ CommitTyped(orphan)

StateType ==
  /\ wire \in {"up", "down"} /\ sink \in BOOLEAN /\ slot \in {"empty", "held"}
  /\ opener \in {"idle", "replaying", "preparing", "asking", "sending", "waiting", "closing", "retiring"}
  /\ phase \in {"Absent", "Starting", "Restoring", "Ready", "Closing", "Unavailable"}
  /\ cp \in Good /\ replayed \in BOOLEAN

ReaderType ==
  /\ reader \in {"off", "idle", "applied", "counted", "acking", "acked", "flushing", "cancelling"}
  /\ through \in 0..Len(output) /\ (reader = "applied" => through < Len(output))

CallerType ==
  caller \in [Callers -> [pc : {"idle", "reserved", "steering", "stale", "sending", "cancelling"},
                          rpc : 0..MaxRpc, told : {"nothing", "accepted", "rejected", "unknown"}]]

TypeInv == FrameType /\ RunnerType /\ CommitType /\ StateType /\ ReaderType /\ CallerType

\* What each transition of the input makes of a well-formed one.
LEMMA InputFacts ==
  ASSUME NEW in \in GoodInputs
  PROVE  /\ IdleInput \in GoodInputs /\ Started(in) \in GoodInputs /\ Stopped(in) \in GoodInputs
         /\ \A a : CancelAccepted(in, a) \in GoodInputs /\ CancelRefused(in, a) \in GoodInputs
<1>1. IdleInput \in GoodInputs
  BY BoundsAssumption DEF GoodInputs, Inputs, Rpcs, IdleInput
<1>2. Started(in) \in GoodInputs /\ Stopped(in) \in GoodInputs
  BY DEF GoodInputs, Inputs, Started, Stopped
<1>3. \A a : CancelAccepted(in, a) \in GoodInputs
  BY DEF GoodInputs, Inputs, CancelAccepted
<1>4. \A a : CancelRefused(in, a) \in GoodInputs
  BY DEF GoodInputs, Inputs, CancelRefused
<1>5. QED
  BY <1>1, <1>2, <1>3, <1>4

LEMMA RequestFacts ==
  ASSUME NEW in \in GoodInputs, NEW id \in Rpcs
  PROVE  /\ Begun(id) \in GoodInputs /\ Steered(in, id) \in GoodInputs
         /\ Accepted(in, id) \in GoodInputs /\ Finished(in, id) \in GoodInputs
<1>1. Begun(id) \in GoodInputs
  <2> DEFINE x == [IdleInput EXCEPT !.st = "pending"]
             y == [x EXCEPT !.anchor = id]
  <2>1. IdleInput \in Inputs /\ IdleInput.acc = {}
    BY BoundsAssumption DEF Inputs, Rpcs, IdleInput
  <2>2. x \in Inputs /\ x.acc = {}
    BY <2>1 DEF Inputs
  <2>3. y \in Inputs /\ y.acc = {}
    <3> HIDE DEF x
    <3> QED BY <2>2, BoundsAssumption DEF Inputs, Rpcs
  <2>4. [y EXCEPT !.reqs = {id}] \in GoodInputs
    <3> HIDE DEF y
    <3> QED BY <2>3 DEF Inputs, GoodInputs
  <2>5. QED
    BY <2>4 DEF Begun
<1>2. Steered(in, id) \in GoodInputs /\ Accepted(in, id) \in GoodInputs
  BY DEF GoodInputs, Inputs, Steered, Accepted
<1>3. Finished(in, id) \in GoodInputs
  <2>1. CASE id \in in.reqs /\ in.reqs # {id}
    BY <2>1 DEF GoodInputs, Inputs, Finished
  <2>2. CASE ~(id \in in.reqs /\ in.reqs # {id})
    BY <2>2, InputFacts DEF Finished
  <2>3. QED
    BY <2>1, <2>2
<1>4. QED
  BY <1>1, <1>2, <1>3

\* A checkpoint changed in some fields only.
LEMMA CheckpointFacts ==
  ASSUME NEW c \in Good
  PROVE  /\ \A in \in GoodInputs : [c EXCEPT !.input = in] \in Good
         /\ \A S \in SUBSET Rpcs : (c.loaded /\ c.setup = 0) \/ S = {} => [c EXCEPT !.pending = S] \in Good
         /\ \A S \in SUBSET Asks : [c EXCEPT !.asks = S] \in Good /\ [c EXCEPT !.responses = S] \in Good
         /\ [c EXCEPT !.setup = 0] \in Good
         /\ [c EXCEPT !.setup = 0, !.loaded = TRUE] \in Good
         /\ c.next \in Rpcs /\ c.pending = {} => WithSetup(c) \in Good
         /\ c.input \in GoodInputs /\ c.pending \in SUBSET Rpcs /\ c.asks \in SUBSET Asks /\ c.responses \in SUBSET Asks
         /\ c.next \in Nat \ {0} /\ c.setup \in 0..MaxRpc /\ c.loaded \in BOOLEAN
         /\ ~c.loaded \/ c.setup # 0 => c.pending = {}
<1>1. \A in \in GoodInputs : [c EXCEPT !.input = in] \in Good
  <2>1. \A in \in GoodInputs : in \in Inputs
    BY DEF GoodInputs
  <2>2. QED
    BY <2>1 DEF Good, Checkpoints
<1>2. \A S \in SUBSET Rpcs : (c.loaded /\ c.setup = 0) \/ S = {} => [c EXCEPT !.pending = S] \in Good
  BY DEF Good, Checkpoints
<1>3. \A S \in SUBSET Asks : [c EXCEPT !.asks = S] \in Good /\ [c EXCEPT !.responses = S] \in Good
  BY DEF Good, Checkpoints
<1>4. [c EXCEPT !.setup = 0] \in Good
  BY BoundsAssumption DEF Good, Checkpoints
<1>5. [c EXCEPT !.setup = 0, !.loaded = TRUE] \in Good
  <2> DEFINE d == [c EXCEPT !.setup = 0]
  <2>1. d \in Good
    BY <1>4
  <2>2. [d EXCEPT !.loaded = TRUE] \in Good
    BY <2>1 DEF Good, Checkpoints
  <2>3. QED
    BY <2>2
<1>6. c.next \in Rpcs /\ c.pending = {} => WithSetup(c) \in Good
  <2> DEFINE d == [c EXCEPT !.next = @ + 1]
  <2>1. c.next \in Rpcs => d \in Good /\ d.pending = c.pending
    BY BoundsAssumption DEF Good, Checkpoints, Rpcs
  <2>2. c.next \in Rpcs /\ c.pending = {} => [d EXCEPT !.setup = c.next] \in Good
    <3> HIDE DEF d
    <3> QED BY <2>1, BoundsAssumption DEF Good, Checkpoints, Rpcs
  <2>3. QED
    BY <2>2 DEF WithSetup
<1>7. /\ c.input \in GoodInputs /\ c.pending \in SUBSET Rpcs /\ c.asks \in SUBSET Asks /\ c.responses \in SUBSET Asks
      /\ c.next \in Nat \ {0} /\ c.setup \in 0..MaxRpc /\ c.loaded \in BOOLEAN
      /\ ~c.loaded \/ c.setup # 0 => c.pending = {}
  <2>1. c \in Checkpoints /\ c.input \in GoodInputs /\ (~c.loaded \/ c.setup # 0 => c.pending = {})
    BY DEF Good
  <2>2. c.next \in 1..(MaxRpc + 1)
    BY <2>1 DEF Checkpoints
  <2>3. /\ c.pending \in SUBSET Rpcs /\ c.asks \in SUBSET Asks /\ c.responses \in SUBSET Asks
        /\ c.setup \in 0..MaxRpc /\ c.loaded \in BOOLEAN
    BY <2>1 DEF Checkpoints
  <2>4. QED
    BY <2>1, <2>2, <2>3, BoundsAssumption
<1>8. QED
  BY <1>1, <1>2, <1>3, <1>4, <1>5, <1>6, <1>7

LEMMA NextFacts == \A c \in Good : c.next \in Nat /\ c.next <= c.next
BY DEF Good, Checkpoints

LEMMA FreshGood == Fresh \in Good
<1>1. IdleInput \in Inputs
  BY BoundsAssumption DEF IdleInput, Inputs, Rpcs
<1>2. Fresh \in Checkpoints
  BY <1>1, BoundsAssumption DEF Checkpoints, Fresh, Rpcs
<1>3. Fresh.input = IdleInput /\ IdleInput \in GoodInputs /\ ~Fresh.loaded /\ Fresh.pending = {}
  BY <1>1 DEF Fresh, IdleInput, GoodInputs
<1>4. QED
  BY <1>2, <1>3 DEF Good
\* A frame of the child applied to a checkpoint.
LEMMA AppliedGood ==
  ASSUME NEW c \in Good, NEW f \in Frames,
         f.kind \in Answer => f.id \in Rpcs, f.kind \in {"ask", "done", "call"} => f.id \in Asks
  PROVE  Applied(c, f) \in Good
<1> USE CheckpointFacts
<1>0. CASE f.kind = "reply" /\ f.id = c.setup
  <2>1. Applied(c, f) = [c EXCEPT !.setup = 0, !.loaded = TRUE]
    BY <1>0 DEF Applied
  <2>2. QED
    BY <2>1
<1>1. CASE f.kind = "error" /\ f.id = c.setup
  BY <1>1 DEF Applied
<1>2. CASE f.kind \in Answer /\ f.id # c.setup
  <2>1. c.pending \ {f.id} \in SUBSET Rpcs /\ ((c.loaded /\ c.setup = 0) \/ c.pending \ {f.id} = {}) /\ Finished(c.input, f.id) \in GoodInputs
    BY <1>2, RequestFacts
  <2> DEFINE d == [c EXCEPT !.pending = @ \ {f.id}]
  <2>2. d \in Good /\ d.input = c.input
    BY <2>1 DEF Good, Checkpoints
  <2>3. [d EXCEPT !.input = Finished(d.input, f.id)] \in Good
    <3> HIDE DEF d
    <3> QED BY <2>1, <2>2
  <2>4. QED
    BY <1>2, <2>3 DEF Applied, Replied
<1>3. CASE f.kind = "work"
  <2>1. Started(c.input) \in GoodInputs
    BY InputFacts
  <2>2. Applied(c, f) = [c EXCEPT !.input = Started(c.input)]
    BY <1>3 DEF Applied
  <2>3. QED
    BY <2>1, <2>2
<1>4. CASE f.kind = "ask"
  <2> DEFINE d == [c EXCEPT !.input = Started(@)]
  <2>1. Started(c.input) \in GoodInputs /\ c.asks \cup {f.id} \in SUBSET Asks
    BY <1>4, InputFacts
  <2>2. d \in Good /\ d.asks = c.asks
    <3>1. d \in Good
      BY <2>1
    <3>2. QED
      BY <3>1 DEF Good, Checkpoints
  <2>3. [d EXCEPT !.asks = d.asks \cup {f.id}] \in Good
    <3> HIDE DEF d
    <3> QED BY <2>1, <2>2
  <2>4. QED
    BY <1>4, <2>3 DEF Applied
<1>5. CASE f.kind = "done"
  BY <1>5, c.asks \ {f.id} \in SUBSET Asks DEF Applied
<1>6. CASE f.kind = "call"
  BY <1>6, c.responses \cup {f.id} \in SUBSET Asks DEF Applied
<1>7. CASE f.kind = "exit"
  BY <1>7 DEF Applied
<1>8. QED
  BY <1>0, <1>1, <1>2, <1>3, <1>4, <1>5, <1>6, <1>7 DEF Frames

-----------------------------------------------------------------------------
(* The inductive invariant.                                                *)

\* The slot, its opener and the connection: an absent session holds nothing, and
\* what still waits on the wire has a runner's session to go to.
CallersRest == \A c \in Callers :
  caller[c].pc \in {"idle", "stale"} /\ caller[c].rpc = 0 /\ caller[c].told = "nothing"
Preparing == opener \in {"preparing", "asking", "sending", "waiting"}
USE DEF Preparing
OpenInv ==
  /\ opener = "replaying" => slot = "empty"
  /\ Preparing \/ opener \in {"closing", "retiring"} => slot = "held"
  /\ slot = "empty" /\ opener = "idle" => reader = "off" /\ commit = NoCommit
  /\ slot = "empty" \/ Preparing \/ phase \in {"Starting", "Restoring"} => CallersRest
  /\ phase = "Absent" <=> (slot = "empty" /\ opener = "idle") \/ opener = "retiring"
  /\ phase # "Absent" => node # "none"
  /\ phase = "Ready" => cp.loaded /\ cp.setup = 0
  /\ opener = "retiring" => node = "none"
  /\ Preparing \/ opener = "replaying" => phase # "Ready"
  /\ opener = "asking" => cp.pending = {}
  /\ wire = "up" => node # "Detached"
  /\ wire = "down" => node \in {"none", "Detached"} /\ orphan = NoCommit
  /\ node = "none" => orphan = NoCommit
  /\ commit # NoCommit =>
      /\ commit.kind \in {"prompt", "answer"} => slot = "held" /\ ~Preparing
      /\ commit.kind = "setup" => opener = "sending"
      /\ commit.status = "sent" => wire = "up"
      /\ commit.kind = "prompt" => caller[commit.who].pc = "sending" /\ caller[commit.who].rpc = commit.id

\* The runner's checkpoint, the commits on their way to it and the driver's own
\* state are four ages of one checkpoint.
Later(c, d) == c.next <= d.next
OrderInv ==
  /\ phase # "Absent" => Later(saved.cp, cp)
  /\ orphan # NoCommit =>
       /\ Later(saved.cp, orphan.cp)
       /\ phase # "Absent" => Later(orphan.cp, cp)
  /\ commit # NoCommit /\ phase # "Absent" =>
       /\ Later(saved.cp, commit.cp) /\ Later(commit.cp, cp)
       /\ orphan # NoCommit => Later(orphan.cp, commit.cp)

\* An identifier the child has is behind the runner's counter; one on its way is
\* new to the child, and in one commit only.
Taken(id) == Given("prompt", id) \/ Given("setup", id)
Carries(r, id) == r # NoCommit /\ r.kind \in {"prompt", "setup"} /\ r.id = id
Undecided == commit.status \in {"sent", "gone", "refused", "full"}
FreshInv ==
  /\ \A id \in Rpcs : Taken(id) => id < saved.cp.next
  /\ \A id \in Rpcs : Carries(orphan, id) => id < orphan.cp.next /\ ~Taken(id)
  /\ \A id \in Rpcs : Carries(commit, id) /\ phase # "Absent" => id < commit.cp.next
  /\ \A id \in Rpcs : Carries(commit, id) /\ Undecided => ~Taken(id) /\ ~Carries(orphan, id)

\* What the driver has read.
Seen == IF reader = "applied" THEN through + 1 ELSE through

\* A set-up the child was given and did not answer is waited for, and so is one
\* on its way.
AwaitsSetup(c) == \A id \in Rpcs : Given("setup", id) /\ ~Answered(id) => c.setup = id
SetsUp(r) == r # NoCommit /\ r.kind = "setup"
SetupInv ==
  /\ AwaitsSetup(saved.cp)
  /\ phase # "Absent" => AwaitsSetup(cp)
  /\ commit # NoCommit /\ phase # "Absent" => AwaitsSetup(commit.cp)
  /\ orphan # NoCommit => AwaitsSetup(orphan.cp)
  /\ SetsUp(commit) =>
       commit.cp.setup = commit.id /\ (Undecided /\ phase # "Absent" => cp.setup = commit.id)
  /\ SetsUp(orphan) =>
       /\ orphan.cp.setup = orphan.id
       /\ phase # "Absent" => cp.setup = orphan.id
       /\ phase # "Absent" /\ commit # NoCommit => commit.cp.setup = orphan.id

\* The child answers what it was given.
OutInv == \A id \in Rpcs : Answered(id) => Taken(id)

\* Nothing that waits for a reply waits for one that came before it.
Owes(c) == c.pending \cup ({c.setup} \ {0})
Clear(c, n) == \A i \in 1..n : output[i].kind \in Answer => output[i].id \notin Owes(c)
ClearInv ==
  /\ Clear(saved.cp, saved.through) /\ Clear(cp, Seen)
  /\ commit # NoCommit => Clear(commit.cp, commit.through)
  /\ orphan # NoCommit => Clear(orphan.cp, orphan.through)

\* A question read by n and neither settled nor answered is remembered, and so
\* is a call that was not responded to.
Heard(kind, n, k) == \E i \in 1..n : output[i] = [kind |-> kind, id |-> k]
Waits(k) == ~Wrote("done", k) /\ ~Given("answer", k)
Answers(r, k) == r.kind = "answer" /\ r.id = k
Unmet(k) == ~Given("respond", k)
Responds(r, k) == r.kind = "respond" /\ r.id = k
AskInv == \A k \in Asks : Waits(k) =>
  /\ Heard("ask", saved.through, k) => k \in saved.cp.asks
  /\ phase # "Absent" /\ Heard("ask", Seen, k) => k \in cp.asks
  /\ commit # NoCommit /\ phase # "Absent" /\ ~Answers(commit, k) /\ Heard("ask", commit.through, k) =>
       k \in commit.cp.asks
  /\ orphan # NoCommit /\ ~Answers(orphan, k) /\ Heard("ask", orphan.through, k) => k \in orphan.cp.asks
RespondInv == \A k \in Asks : Unmet(k) =>
  /\ Heard("call", saved.through, k) => k \in saved.cp.responses
  /\ phase # "Absent" /\ Heard("call", Seen, k) => k \in cp.responses
  /\ commit # NoCommit /\ phase # "Absent" /\ ~Responds(commit, k) /\ Heard("call", commit.through, k) =>
       k \in commit.cp.responses
  /\ orphan # NoCommit /\ ~Responds(orphan, k) /\ Heard("call", orphan.through, k) =>
       k \in orphan.cp.responses

BookInv == OrderInv /\ FreshInv /\ SetupInv /\ OutInv /\ ClearInv /\ AskInv /\ RespondInv

\* An identifier handed to a call belongs to it until it is told what became of
\* it, and what it is told is true.
InFlight(c) == \/ caller[c].pc \in {"reserved", "steering"}
               \/ commit # NoCommit /\ commit.kind = "prompt" /\ commit.who = c
Never(id) == ~Given("prompt", id) /\ ~Carries(orphan, id) /\ ~Carries(commit, id)
CallInv ==
  /\ \A c \in Callers : caller[c].rpc < cp.next
  /\ \A c, d \in Callers : InFlight(c) /\ c # d => caller[d].rpc # caller[c].rpc
  /\ \A c \in Callers :
       /\ InFlight(c) => caller[c].told = "nothing" /\ caller[c].rpc \in Rpcs
       /\ caller[c].pc \in {"reserved", "steering"} =>
            Never(caller[c].rpc) /\ ~Taken(caller[c].rpc)
       /\ caller[c].told = "rejected" => Never(caller[c].rpc)
       /\ caller[c].told = "accepted" => Given("prompt", caller[c].rpc)
  /\ commit # NoCommit /\ commit.kind \in {"prompt", "answer", "respond"} /\ commit.status = "ok" =>
       Given(commit.kind, commit.id)

Inv == OpenInv /\ BookInv /\ CallInv

-----------------------------------------------------------------------------
(* What keeps the checkpoints in order.                                    *)

\* No commit is an order without a kind.
LEMMA NoCommitApart == \A r \in CommitRecords : r # NoCommit
<1>1. \A r \in CommitRecords : "kind" \in DOMAIN r
  BY DEF CommitRecords
<1>2. "kind" \notin DOMAIN NoCommit
  BY DEF NoCommit
<1>3. QED
  BY <1>1, <1>2

LEMMA LaterTransitive ==
  \A b, c, d \in Good : Later(b, b) /\ (Later(b, c) /\ Later(c, d) => Later(b, d))
<1>1. \A c \in Good : c.next \in Nat
  BY CheckpointFacts
<1>2. QED
  BY <1>1 DEF Later

\* Same commit, or none: only its outcome may have become known.
Same(r, s) ==
  s # NoCommit =>
    /\ r # NoCommit /\ s.who = r.who /\ s.kind = r.kind /\ s.id = r.id
    /\ s.through = r.through /\ s.cp = r.cp

\* A step of the driver that sends nothing.  It may lose the session, and what
\* waits in the checkpoint may get less.
LEMMA QuietBook ==
  ASSUME TypeInv, OpenInv, BookInv,
         UNCHANGED <<output, stdin, saved>>,
         Same(commit, commit'), commit' # NoCommit /\ Undecided' => Undecided,
         orphan' \in {orphan, NoCommit},
         phase' # "Absent" => phase # "Absent" /\ Later(cp, cp') /\ cp.asks \subseteq cp'.asks
                               /\ cp.responses \subseteq cp'.responses /\ cp'.setup = cp.setup,
         cp' \in Good, Owes(cp') \subseteq Owes(cp), Seen' \in Nat, Seen' <= Seen
  PROVE  BookInv'
<1>1. /\ saved.cp \in Good /\ cp \in Good
      /\ commit # NoCommit => commit.cp \in Good
      /\ orphan # NoCommit => orphan.cp \in Good
  BY DEF TypeInv, RunnerType, StateType, CommitType, CommitTyped, CommitRecords
<1>0. Seen \in Nat
  BY DEF TypeInv, ReaderType, FrameType, Seen
<1>2. \A kind, id : (Given(kind, id)' <=> Given(kind, id)) /\ (Wrote(kind, id)' <=> Wrote(kind, id))
  BY DEF Given, Wrote
<1>3. \A id : /\ Taken(id)' <=> Taken(id)
              /\ Carries(commit, id)' => Carries(commit, id)
              /\ Carries(orphan, id)' => Carries(orphan, id)
  BY <1>2 DEF Taken, Carries, Same
<1>4. OrderInv'
  BY <1>1, LaterTransitive DEF BookInv, OrderInv, Same
<1>5. FreshInv'
  BY <1>1, <1>3 DEF BookInv, FreshInv, Same, Undecided, Carries
<1>6. SetupInv'
  <2>1. \A c : AwaitsSetup(c)' <=> AwaitsSetup(c)
    BY <1>2 DEF AwaitsSetup, Answered
  <2>2. /\ phase' # "Absent" => AwaitsSetup(cp)'
        /\ (SetsUp(commit) =>
              commit.cp.setup = commit.id /\ (Undecided /\ phase # "Absent" => cp.setup = commit.id))'
    BY <1>2 DEF BookInv, SetupInv, AwaitsSetup, Answered, SetsUp, Same
  <2>3. QED
    BY <2>1, <2>2 DEF BookInv, SetupInv, SetsUp, Same
<1>7. OutInv'
  BY <1>2, <1>3 DEF BookInv, OutInv, Answered
<1>8. ClearInv'
  BY <1>0 DEF BookInv, ClearInv, Clear, Same
<1>9. AskInv'
  BY <1>0, <1>2 DEF BookInv, AskInv, Heard, Waits, Answers, Same
<1>10. RespondInv'
  <2>1. \A k : Unmet(k)' <=> Unmet(k)
    BY <1>2 DEF Unmet
  <2>2. /\ \A n, k : Heard("call", n, k)' <=> Heard("call", n, k)
        /\ \A k : Heard("call", Seen', k) => Heard("call", Seen, k)
    BY <1>0 DEF Heard
  <2>3. \A k : (Heard("call", Seen, k)' <=> Heard("call", Seen', k)) /\ (Responds(commit, k)' <=> Responds(commit', k))
    BY DEF Heard, Responds
  <2>4. QED
    BY <2>1, <2>2, <2>3 DEF BookInv, RespondInv, Responds, Same
<1>11. QED
  BY <1>4, <1>5, <1>6, <1>7, <1>8, <1>9, <1>10 DEF BookInv

\* A reply in the output answers what the child was given.
LEMMA RepliesTaken ==
  ASSUME TypeInv, OutInv
  PROVE  \A i \in 1..Len(output) : output[i].kind \in Answer => output[i].id \in Rpcs /\ Taken(output[i].id)
<1> SUFFICES ASSUME NEW i \in 1..Len(output), output[i].kind \in Answer
             PROVE  output[i].id \in Rpcs /\ Taken(output[i].id)
  OBVIOUS
<1>1. output[i] \in Frames /\ output[i].id \in Rpcs /\ i \in DOMAIN output
  BY DEF TypeInv, FrameType
<1>2. output[i] = [kind |-> output[i].kind, id |-> output[i].id]
  BY <1>1 DEF Frames
<1>3. Answered(output[i].id)
  BY <1>1, <1>2 DEF Answered, Wrote, GivenTo
<1>4. QED
  BY <1>1, <1>3 DEF OutInv

\* A commit is handed over: it says what the driver's state says, except for
\* the question it answers; what it newly waits for the child has never seen.
LEMMA SendBook ==
  ASSUME TypeInv, OpenInv, BookInv,
         UNCHANGED <<output, stdin, saved, orphan, phase>>, Seen' = Seen,
         commit = NoCommit, commit' \in CommitRecords, commit'.through = through, cp' \in Good,
         phase # "Absent" => Later(cp, cp'),
         Later(cp', commit'.cp), Later(commit'.cp, cp'), cp'.asks = cp.asks, cp'.responses = cp.responses,
         \A k \in cp.asks : k \in commit'.cp.asks \/ Answers(commit', k),
         \A k \in cp.responses : k \in commit'.cp.responses \/ Responds(commit', k),
         \A id \in Owes(cp') \cup Owes(commit'.cp) : id \in Owes(cp) \/ ~Taken(id),
         \A id \in Rpcs : Carries(commit', id) =>
            id < commit'.cp.next /\ ~Taken(id) /\ ~Carries(orphan, id),
         commit'.cp.setup = cp'.setup,
         IF commit'.kind = "setup" THEN cp.setup = 0 /\ cp'.setup = commit'.id ELSE cp'.setup = cp.setup
  PROVE  BookInv'
<1>1. /\ saved.cp \in Good /\ cp \in Good /\ commit'.cp \in Good
      /\ orphan # NoCommit => orphan.cp \in Good
  BY DEF TypeInv, RunnerType, StateType, CommitType, CommitTyped, CommitRecords
<1>2. through \in Nat /\ through <= Seen /\ Seen \in Nat /\ Seen <= Len(output) /\ Len(output) \in Nat
  BY DEF TypeInv, ReaderType, FrameType, Seen
<1>3. \A kind, id : (Given(kind, id)' <=> Given(kind, id)) /\ (Wrote(kind, id)' <=> Wrote(kind, id))
  BY DEF Given, Wrote
<1>4. \A id : (Taken(id)' <=> Taken(id)) /\ (Carries(orphan, id)' <=> Carries(orphan, id))
  BY <1>3 DEF Taken, Carries
<1>5. OrderInv'
  BY <1>1, LaterTransitive DEF BookInv, OrderInv
<1>6. FreshInv'
  BY <1>4 DEF BookInv, FreshInv
<1>7. SetupInv'
  <2>1. \A c : AwaitsSetup(c)' <=> AwaitsSetup(c)
    BY <1>3 DEF AwaitsSetup, Answered
  <2>2. phase # "Absent" => AwaitsSetup(cp')
    <3>1. 0 \notin Rpcs
      BY DEF Rpcs
    <3>2. QED
      BY <3>1 DEF BookInv, SetupInv, AwaitsSetup
  <2>3. AwaitsSetup(cp') => AwaitsSetup(commit'.cp)
    BY DEF AwaitsSetup
  <2>4. SetsUp(orphan) => orphan.id # 0
    BY DEF SetsUp, TypeInv, CommitType, CommitTyped, Rpcs
  <2>5. QED
    BY <2>1, <2>2, <2>3, <2>4 DEF BookInv, SetupInv, SetsUp
<1>8. OutInv'
  BY <1>3, <1>4 DEF BookInv, OutInv, Answered
<1>9. ClearInv'
  <2>1. \A n \in 0..Len(output) : Clear(cp, n) => Clear(cp, n)' /\ Clear(commit.cp, n)'
    BY <1>2, RepliesTaken DEF BookInv, Clear
  <2>2. \A n \in 0..Seen : Clear(cp, Seen) => Clear(cp, n)
    BY <1>2 DEF Clear
  <2>3. Clear(cp, Seen)' /\ Clear(commit.cp, commit.through)'
    BY <1>2, <2>1, <2>2 DEF BookInv, ClearInv
  <2>4. Clear(saved.cp, saved.through)' /\ (orphan # NoCommit => Clear(orphan.cp, orphan.through))'
    BY DEF BookInv, ClearInv, Clear
  <2>5. QED
    BY <2>3, <2>4 DEF ClearInv
<1>10. AskInv'
  <2>1. \A k \in Asks : Heard("ask", through, k) => Heard("ask", Seen, k)
    BY <1>2 DEF Heard
  <2>2. \A n, k : Heard("ask", n, k)' <=> Heard("ask", n, k)
    BY DEF Heard
  <2>3. QED
    BY <1>3, <2>1, <2>2 DEF BookInv, AskInv, Waits
<1>11. RespondInv'
  <2>1. \A k \in Asks : Heard("call", through, k) => Heard("call", Seen, k)
    BY <1>2 DEF Heard
  <2>2. \A n, k : Heard("call", n, k)' <=> Heard("call", n, k)
    BY DEF Heard
  <2>3. QED
    BY <1>3, <2>1, <2>2 DEF BookInv, RespondInv, Unmet
<1>12. QED
  BY <1>5, <1>6, <1>7, <1>8, <1>9, <1>10, <1>11 DEF BookInv

\* One more order for the child.
LEMMA AppendGiven ==
  ASSUME NEW s \in Seq(Orders), NEW kind0, NEW id0
  PROVE  \A kind, id : GivenTo(Append(s, [kind |-> kind0, id |-> id0]), kind, id) <=>
           GivenTo(s, kind, id) \/ (kind = kind0 /\ id = id0)
<1> DEFINE t == Append(s, [kind |-> kind0, id |-> id0])
<1>1. /\ DOMAIN t = 1..(Len(s) + 1) /\ DOMAIN s = 1..Len(s) /\ Len(s) \in Nat
      /\ t[Len(s) + 1] = [kind |-> kind0, id |-> id0]
      /\ \A i \in 1..Len(s) : t[i] = s[i]
  OBVIOUS
<1>2. \A kind, id : [kind |-> kind0, id |-> id0] = [kind |-> kind, id |-> id] <=> kind = kind0 /\ id = id0
  OBVIOUS
<1> HIDE DEF t
<1>3. \A kind, id : GivenTo(s, kind, id) => GivenTo(t, kind, id)
  BY <1>1 DEF GivenTo
<1>4. \A kind, id : kind = kind0 /\ id = id0 => GivenTo(t, kind, id)
  BY <1>1 DEF GivenTo
<1>5. \A kind, id : GivenTo(t, kind, id) => GivenTo(s, kind, id) \/ (kind = kind0 /\ id = id0)
  BY <1>1, <1>2 DEF GivenTo
<1>6. QED
  BY <1>3, <1>4, <1>5 DEF t

\* The runner takes a commit: what it hands to the child and what it keeps.
LEMMA HandsOver ==
  ASSUME TypeInv, NEW r, r # NoCommit, CommitTyped(r), Commits(r), UNCHANGED output
  PROVE  /\ stdin' \in Seq(Orders) /\ saved' \in [through : 0..Len(output), cp : Good]
         /\ \A kind, id : Given(kind, id)' <=> Given(kind, id) \/ (IsInput(r) /\ kind = r.kind /\ id = r.id)
         /\ \A kind, id : Wrote(kind, id)' <=> Wrote(kind, id)
         /\ \A id : Taken(id)' <=> Taken(id) \/ Carries(r, id)
<1>1. r \in CommitRecords /\ r.through \in 0..Len(output)
  BY DEF CommitTyped, CommitRecords, TypeInv, FrameType
<1>2. saved' \in [through : 0..Len(output), cp : Good]
  BY <1>1 DEF Commits, CommitRecords
<1>3. \A kind, id : Given(kind, id)' <=> Given(kind, id) \/ (IsInput(r) /\ kind = r.kind /\ id = r.id)
  BY AppendGiven DEF Commits, Given, TypeInv, FrameType
<1>4. stdin' \in Seq(Orders)
  <2>1. IsInput(r) => [kind |-> r.kind, id |-> r.id] \in Orders
    BY <1>1 DEF IsInput, Orders, CommitRecords
  <2>2. QED
    BY <2>1 DEF Commits, TypeInv, FrameType
<1>5. \A kind, id : Wrote(kind, id)' <=> Wrote(kind, id)
  BY DEF Wrote
<1>6. \A id : Taken(id)' <=> Taken(id) \/ Carries(r, id)
  BY <1>3 DEF Taken, Carries, IsInput
<1>7. QED
  BY <1>2, <1>3, <1>4, <1>5, <1>6

\* The driver's commit is taken.
LEMMA RunnerTakesBook ==
  ASSUME TypeInv, OpenInv, BookInv, UNCHANGED <<output, orphan, phase, cp, through, reader>>,
         commit # NoCommit, commit.status = "sent", orphan = NoCommit,
         node # "none", Commits(commit), commit' = [commit EXCEPT !.status = "ok"]
  PROVE  BookInv'
<1>1. /\ commit \in CommitRecords /\ CommitTyped(commit) /\ commit.cp \in Good /\ cp \in Good
      /\ commit' # NoCommit /\ Same(commit, commit') /\ commit'.status = "ok"
      /\ phase # "Absent"
  BY NoCommitApart DEF TypeInv, StateType, CommitType, CommitTyped, CommitRecords, Same, OpenInv
<1>2. /\ saved' = [through |-> commit.through, cp |-> commit.cp] /\ Seen' = Seen
  BY DEF Commits, Seen
<1>3. /\ \A kind, id : Given(kind, id)' <=> Given(kind, id) \/ (IsInput(commit) /\ kind = commit.kind /\ id = commit.id)
      /\ \A kind, id : Wrote(kind, id)' <=> Wrote(kind, id)
      /\ \A id : Taken(id)' <=> Taken(id) \/ Carries(commit, id)
  BY <1>1, HandsOver
<1>4. OrderInv'
  BY <1>1, <1>2, LaterTransitive DEF BookInv, OrderInv, Same
<1>5. FreshInv'
  <2>1. commit.cp.next \in Nat /\ saved.cp.next \in Nat /\ saved.cp.next <= commit.cp.next
    BY <1>1, CheckpointFacts DEF BookInv, OrderInv, Later, TypeInv, RunnerType
  <2>2. \A id \in Rpcs : id \in Nat
    BY BoundsAssumption DEF Rpcs
  <2>3. QED
    BY <1>1, <1>2, <1>3, <2>1, <2>2 DEF BookInv, FreshInv, Carries, Undecided, Same
<1>6. SetupInv'
  <2>1. \A c : AwaitsSetup(c)' <=> AwaitsSetup(c) /\ (SetsUp(commit) /\ commit.id \in Rpcs /\ ~Answered(commit.id)
                                                     => c.setup = commit.id)
    BY <1>1, <1>3 DEF AwaitsSetup, Answered, SetsUp, IsInput
  <2>2. QED
    BY <1>1, <1>2, <2>1 DEF BookInv, SetupInv, SetsUp, Same, Undecided
<1>7. OutInv'
  BY <1>3 DEF BookInv, OutInv, Answered
<1>8. ClearInv'
  BY <1>1, <1>2 DEF BookInv, ClearInv, Clear, Same
<1>9. AskInv'
  BY <1>1, <1>2, <1>3 DEF BookInv, AskInv, Heard, Waits, Answers, Same, IsInput
<1>10. RespondInv'
  BY <1>1, <1>2, <1>3 DEF BookInv, RespondInv, Unmet, Heard, Responds, Same, IsInput
<1>11. QED
  BY <1>4, <1>5, <1>6, <1>7, <1>8, <1>9, <1>10 DEF BookInv

\* A commit its sender gave up on is taken.
LEMMA OrphanTakenBook ==
  ASSUME TypeInv, OpenInv, BookInv, UNCHANGED <<output, phase, cp, through, reader, commit>>,
         orphan # NoCommit, orphan' = NoCommit, Commits(orphan)
  PROVE  BookInv'
<1>1. CommitTyped(orphan) /\ orphan.cp \in Good /\ cp \in Good /\ (commit # NoCommit => commit.cp \in Good)
  BY DEF TypeInv, StateType, CommitType, CommitTyped, CommitRecords
<1>2. saved' = [through |-> orphan.through, cp |-> orphan.cp] /\ Seen' = Seen
  BY DEF Commits, Seen
<1>3. /\ \A kind, id : Given(kind, id)' <=> Given(kind, id) \/ (IsInput(orphan) /\ kind = orphan.kind /\ id = orphan.id)
      /\ \A kind, id : Wrote(kind, id)' <=> Wrote(kind, id)
      /\ \A id : Taken(id)' <=> Taken(id) \/ Carries(orphan, id)
  BY <1>1, HandsOver
<1>4. OrderInv'
  BY <1>2 DEF BookInv, OrderInv, Later
<1>5. FreshInv'
  <2>1. orphan.cp.next \in Nat /\ saved.cp.next \in Nat /\ saved.cp.next <= orphan.cp.next
    BY <1>1, CheckpointFacts DEF BookInv, OrderInv, Later, TypeInv, RunnerType
  <2>2. \A id \in Rpcs : id \in Nat
    BY BoundsAssumption DEF Rpcs
  <2>3. QED
    BY <1>2, <1>3, <2>1, <2>2 DEF BookInv, FreshInv, Carries, Undecided
<1>6. SetupInv'
  <2>1. \A c : AwaitsSetup(c)' <=> AwaitsSetup(c) /\ (SetsUp(orphan) /\ orphan.id \in Rpcs /\ ~Answered(orphan.id)
                                                     => c.setup = orphan.id)
    BY <1>3 DEF AwaitsSetup, Answered, SetsUp, IsInput
  <2>2. QED
    BY <1>2, <2>1 DEF BookInv, SetupInv, SetsUp, Undecided
<1>7. OutInv'
  BY <1>3 DEF BookInv, OutInv, Answered
<1>8. ClearInv'
  BY <1>2 DEF BookInv, ClearInv, Clear
<1>9. AskInv'
  BY <1>2, <1>3 DEF BookInv, AskInv, Heard, Waits, Answers, IsInput
<1>10. RespondInv'
  BY <1>2, <1>3 DEF BookInv, RespondInv, Unmet, Heard, Responds, IsInput
<1>11. QED
  BY <1>4, <1>5, <1>6, <1>7, <1>8, <1>9, <1>10 DEF BookInv

\* A commit is given up on and may still be taken.
LEMMA AbandonedBook ==
  ASSUME TypeInv, OpenInv, BookInv, UNCHANGED <<output, stdin, saved, phase, cp, through, reader>>,
         commit # NoCommit, commit.status = "sent", orphan = NoCommit,
         orphan' = commit, node # "none", commit' = [commit EXCEPT !.status = "unknown"]
  PROVE  BookInv'
<1>1. /\ commit \in CommitRecords /\ commit.cp \in Good /\ cp \in Good
      /\ commit' # NoCommit /\ Same(commit, commit') /\ commit'.status = "unknown" /\ phase # "Absent"
  BY NoCommitApart DEF TypeInv, StateType, CommitType, CommitTyped, CommitRecords, Same, OpenInv
<1>2. \A kind, id : (Given(kind, id)' <=> Given(kind, id)) /\ (Wrote(kind, id)' <=> Wrote(kind, id))
  BY DEF Given, Wrote
<1>3. \A id : Taken(id)' <=> Taken(id)
  BY <1>2 DEF Taken
<1>4. OrderInv'
  BY <1>1, LaterTransitive DEF BookInv, OrderInv, Same, TypeInv, RunnerType
<1>5. FreshInv'
  BY <1>1, <1>3 DEF BookInv, FreshInv, Carries, Undecided, Same
<1>6. SetupInv'
  <2>1. \A c : AwaitsSetup(c)' <=> AwaitsSetup(c)
    BY <1>2 DEF AwaitsSetup, Answered
  <2>2. QED
    BY <1>1, <2>1 DEF BookInv, SetupInv, SetsUp, Same, Undecided
<1>7. OutInv'
  BY <1>2, <1>3 DEF BookInv, OutInv, Answered
<1>8. ClearInv'
  BY <1>1 DEF BookInv, ClearInv, Clear, Same, Seen
<1>9. AskInv'
  BY <1>1, <1>2 DEF BookInv, AskInv, Heard, Waits, Answers, Same, Seen
<1>10. RespondInv'
  BY <1>1, <1>2 DEF BookInv, RespondInv, Unmet, Heard, Responds, Same, Seen
<1>11. QED
  BY <1>4, <1>5, <1>6, <1>7, <1>8, <1>9, <1>10 DEF BookInv

\* What a frame does to what the checkpoint waits for.
LEMMA AppliedFacts ==
  ASSUME NEW c \in Good, NEW f \in Frames,
         f.kind \in Answer => f.id \in Rpcs, f.kind \in {"ask", "done", "call"} => f.id \in Asks
  PROVE  /\ Later(c, Applied(c, f)) /\ Owes(Applied(c, f)) \subseteq Owes(c)
         /\ c.loaded => Applied(c, f).loaded
         /\ Applied(c, f).pending \subseteq c.pending
         /\ Applied(c, f).setup = IF f.kind \in Answer /\ f.id = c.setup THEN 0 ELSE c.setup
         /\ f.kind \in Answer => f.id \notin Owes(Applied(c, f))
         /\ f.kind = "ask" => f.id \in Applied(c, f).asks
         /\ f.kind = "call" => f.id \in Applied(c, f).responses
         /\ \A k \in c.asks : k \in Applied(c, f).asks \/ (f.kind = "done" /\ f.id = k)
         /\ c.responses \subseteq Applied(c, f).responses
<1> DEFINE a == Applied(c, f)
<1>0. /\ c.next \in Nat /\ c.setup \in 0..MaxRpc /\ c.pending \in SUBSET Rpcs /\ 0 \notin Rpcs
      /\ ~c.loaded \/ c.setup # 0 => c.pending = {}
      /\ c \in [next : 1..(MaxRpc + 1), loaded : BOOLEAN, setup : 0..MaxRpc,
                pending : SUBSET Rpcs, asks : SUBSET Asks, responses : SUBSET Asks, input : Inputs]
  <2>1. 0 \notin Rpcs
    BY DEF Rpcs
  <2>2. c \in Checkpoints
    BY DEF Good
  <2>3. QED
    BY <2>1, <2>2, CheckpointFacts DEF Checkpoints
<1>1. /\ a.next = c.next /\ (c.loaded => a.loaded)
      /\ a.setup = IF f.kind \in Answer /\ f.id = c.setup THEN 0 ELSE c.setup
      /\ a.pending = IF f.kind \in Answer /\ f.id # c.setup THEN c.pending \ {f.id} ELSE c.pending
      /\ a.asks = IF f.kind = "ask" THEN c.asks \cup {f.id}
                  ELSE IF f.kind = "done" THEN c.asks \ {f.id} ELSE c.asks
      /\ a.responses = IF f.kind = "call" THEN c.responses \cup {f.id} ELSE c.responses
  <2>1. CASE f.kind = "reply" /\ f.id = c.setup
    BY <1>0, <2>1 DEF Applied
  <2>2. CASE f.kind = "error" /\ f.id = c.setup
    BY <1>0, <2>2 DEF Applied
  <2>3. CASE f.kind \in Answer /\ f.id # c.setup
    BY <1>0, <2>3 DEF Applied, Replied
  <2>4. CASE f.kind = "work"
    BY <1>0, <2>4 DEF Applied
  <2>5. CASE f.kind = "ask"
    BY <1>0, <2>5 DEF Applied
  <2>6. CASE f.kind = "done"
    BY <1>0, <2>6 DEF Applied
  <2>7. CASE f.kind = "call"
    BY <1>0, <2>7 DEF Applied
  <2>8. CASE f.kind = "exit"
    BY <2>8 DEF Applied
  <2>9. QED
    BY <2>1, <2>2, <2>3, <2>4, <2>5, <2>6, <2>7, <2>8 DEF Frames
<1> HIDE DEF a
<1>2. Later(c, a)
  BY <1>0, <1>1 DEF Later
<1>3. Owes(a) \subseteq Owes(c) /\ (f.kind \in Answer => f.id \notin Owes(a))
  BY <1>0, <1>1 DEF Owes
<1>4. QED
  BY <1>1, <1>2, <1>3 DEF a

\* The reader applies the next frame.
LEMMA AppliesBook ==
  ASSUME TypeInv, OpenInv, BookInv,
         UNCHANGED <<output, stdin, saved, orphan, commit, phase, through>>,
         through < Len(output), reader = "idle", reader' = "applied",
         cp' = Applied(cp, output[through + 1])
  PROVE  /\ BookInv' /\ cp' \in Good /\ Later(cp, cp') /\ (cp.loaded => cp'.loaded)
         /\ (cp.setup = 0 => cp'.setup = 0) /\ cp'.pending \subseteq cp.pending
<1> DEFINE f == output[through + 1]
<1>1. /\ cp \in Good /\ saved.cp \in Good /\ through \in Nat /\ Len(output) \in Nat
      /\ through + 1 \in DOMAIN output /\ f \in Frames
      /\ f.kind \in Answer => f.id \in Rpcs
      /\ f.kind \in {"ask", "done", "call"} => f.id \in Asks
      /\ commit # NoCommit => commit.cp \in Good
      /\ orphan # NoCommit => orphan.cp \in Good
  BY DEF TypeInv, StateType, RunnerType, ReaderType, FrameType, CommitType, CommitTyped, CommitRecords
<1>2. cp' \in Good
  BY <1>1, AppliedGood
<1>3. /\ Later(cp, cp') /\ Owes(cp') \subseteq Owes(cp)
      /\ (cp.loaded => cp'.loaded) /\ cp'.pending \subseteq cp.pending
      /\ f.kind \in Answer => f.id \notin Owes(cp')
      /\ cp'.setup = IF f.kind \in Answer /\ f.id = cp.setup THEN 0 ELSE cp.setup
      /\ f.kind = "ask" => f.id \in cp'.asks
      /\ f.kind = "call" => f.id \in cp'.responses
      /\ cp.responses \subseteq cp'.responses
      /\ \A k \in cp.asks : k \in cp'.asks \/ (f.kind = "done" /\ f.id = k)
  BY <1>1, AppliedFacts
<1>4. Seen = through /\ Seen' = through + 1
  BY DEF Seen
<1>5. \A kind, id : (Given(kind, id)' <=> Given(kind, id)) /\ (Wrote(kind, id)' <=> Wrote(kind, id))
  BY DEF Given, Wrote
<1>6. \A id : Taken(id)' <=> Taken(id)
  BY <1>5 DEF Taken
<1>7. OrderInv'
  BY <1>1, <1>2, <1>3, LaterTransitive DEF BookInv, OrderInv
<1>8. FreshInv'
  BY <1>6 DEF BookInv, FreshInv, Carries, Undecided
<1>9. SetupInv'
  <2>1. \A c : AwaitsSetup(c)' <=> AwaitsSetup(c)
    BY <1>5 DEF AwaitsSetup, Answered
  <2>2. f.kind \in Answer => Answered(f.id) /\ f.id \in Rpcs /\ Taken(f.id)
    <3>1. f = [kind |-> f.kind, id |-> f.id]
      BY <1>1 DEF Frames
    <3>2. f.kind \in Answer => Answered(f.id)
      BY <3>1, <1>1 DEF Answered, Wrote, GivenTo
    <3>3. QED
      BY <3>2, <1>1 DEF BookInv, OutInv
  <2>3. AwaitsSetup(cp) => AwaitsSetup(cp')
    BY <1>3, <2>2 DEF AwaitsSetup
  <2>4. SetsUp(commit) /\ Undecided /\ cp.setup = commit.id => cp'.setup = commit.id
    <3>1. SetsUp(commit) => commit.id \in Rpcs /\ Carries(commit, commit.id)
      BY DEF SetsUp, Carries, TypeInv, CommitType, CommitTyped
    <3>2. QED
      BY <3>1, <1>3, <2>2 DEF BookInv, FreshInv
  <2>5. SetsUp(orphan) /\ cp.setup = orphan.id => cp'.setup = orphan.id
    <3>1. SetsUp(orphan) => orphan.id \in Rpcs /\ Carries(orphan, orphan.id)
      BY DEF SetsUp, Carries, TypeInv, CommitType, CommitTyped
    <3>2. QED
      BY <3>1, <1>3, <2>2 DEF BookInv, FreshInv
  <2>6. (Undecided' <=> Undecided) /\ (SetsUp(commit)' <=> SetsUp(commit)) /\ (SetsUp(orphan)' <=> SetsUp(orphan))
    BY DEF Undecided, SetsUp
  <2>7. QED
    BY <2>1, <2>3, <2>4, <2>5, <2>6 DEF BookInv, SetupInv
<1>10. OutInv'
  BY <1>5, <1>6 DEF BookInv, OutInv, Answered
<1>11. ClearInv'
  <2>1. Clear(cp, Seen)'
    BY <1>1, <1>3, <1>4 DEF BookInv, ClearInv, Clear
  <2>2. QED
    BY <2>1 DEF BookInv, ClearInv, Clear
<1>12. AskInv'
  <2> SUFFICES ASSUME NEW k \in Asks, Waits(k), phase # "Absent", Heard("ask", Seen, k)'
               PROVE  k \in cp'.asks
    BY <1>5 DEF BookInv, AskInv, Heard, Waits
  <2>1. ~(f.kind = "done" /\ f.id = k)
    <3>1. f.kind = "done" /\ f.id = k => f = [kind |-> "done", id |-> k]
      BY <1>1 DEF Frames
    <3>2. QED
      BY <3>1, <1>1 DEF Waits, Wrote, GivenTo
  <2>2. CASE Heard("ask", Seen, k)
    BY <2>1, <2>2, <1>3 DEF BookInv, AskInv
  <2>3. CASE ~Heard("ask", Seen, k)
    <3>1. f = [kind |-> "ask", id |-> k]
      BY <2>3, <1>1, <1>4 DEF Heard
    <3>2. QED
      BY <3>1, <1>3
  <2>4. QED
    BY <2>2, <2>3
<1>13. RespondInv'
  <2> SUFFICES ASSUME NEW k \in Asks, Unmet(k), phase # "Absent", Heard("call", Seen, k)'
               PROVE  k \in cp'.responses
    BY <1>5 DEF BookInv, RespondInv, Unmet, Heard
  <2>1. CASE Heard("call", Seen, k)
    BY <2>1, <1>3 DEF BookInv, RespondInv, Unmet
  <2>2. CASE ~Heard("call", Seen, k)
    <3>1. f = [kind |-> "call", id |-> k]
      BY <2>2, <1>1, <1>4 DEF Heard
    <3>2. QED
      BY <3>1, <1>3
  <2>3. QED
    BY <2>1, <2>2
<1>14. QED
  BY <1>2, <1>3, <1>7, <1>8, <1>9, <1>10, <1>11, <1>12, <1>13 DEF BookInv

\* The child writes a frame; a reply answers something it was given.
LEMMA WritesBook ==
  ASSUME TypeInv, OpenInv, BookInv, UNCHANGED <<stdin, saved, orphan, commit, phase, cp, through, reader>>,
         NEW kind0 \in {"reply", "error", "work", "ask", "done", "call", "exit"}, NEW id0, Writes(kind0, id0),
         kind0 \in Answer => Taken(id0)
  PROVE  BookInv'
<1> DEFINE f == [kind |-> kind0, id |-> id0]
<1>1. /\ Len(output) \in Nat /\ DOMAIN output = 1..Len(output) /\ Len(output') = Len(output) + 1
      /\ DOMAIN output' = 1..(Len(output) + 1) /\ output'[Len(output) + 1] = f
      /\ \A i \in 1..Len(output) : output'[i] = output[i]
  BY DEF TypeInv, FrameType, Writes
<1>2. /\ saved.through \in 0..Len(output) /\ Seen \in 0..Len(output) /\ Seen' = Seen
      /\ commit # NoCommit => commit.through \in 0..Len(output)
      /\ orphan # NoCommit => orphan.through \in 0..Len(output)
  BY <1>1 DEF TypeInv, RunnerType, ReaderType, CommitType, CommitTyped, CommitRecords, Seen
<1>3. \A kind, id : f = [kind |-> kind, id |-> id] <=> kind = kind0 /\ id = id0
  OBVIOUS
<1>4. /\ \A kind, id : Given(kind, id)' <=> Given(kind, id)
      /\ \A kind, id : Wrote(kind, id)' <=> Wrote(kind, id) \/ (kind = kind0 /\ id = id0)
  <2> HIDE DEF f
  <2>1. \A kind, id : Given(kind, id)' <=> Given(kind, id)
    BY DEF Given
  <2>2. \A kind, id : Wrote(kind, id) => Wrote(kind, id)'
    BY <1>1 DEF Wrote, GivenTo
  <2>3. \A kind, id : Wrote(kind, id)' => Wrote(kind, id) \/ (kind = kind0 /\ id = id0)
    BY <1>1, <1>3 DEF Wrote, GivenTo
  <2>4. \A kind, id : kind = kind0 /\ id = id0 => Wrote(kind, id)'
    BY <1>1, <1>3 DEF Wrote, GivenTo
  <2>5. QED
    BY <2>1, <2>2, <2>3, <2>4
<1>5. \A id : Taken(id)' <=> Taken(id)
  BY <1>4 DEF Taken
<1>6. \A n \in 0..Len(output) : \A kind, k : Heard(kind, n, k)' <=> Heard(kind, n, k)
  BY <1>1 DEF Heard
<1>7. OrderInv'
  BY DEF BookInv, OrderInv
<1>8. FreshInv'
  BY <1>5 DEF BookInv, FreshInv, Carries, Undecided
<1>9. SetupInv'
  <2>1. \A c : AwaitsSetup(c) => AwaitsSetup(c)'
    BY <1>4 DEF AwaitsSetup, Answered
  <2>2. QED
    BY <2>1 DEF BookInv, SetupInv, SetsUp, Undecided
<1>10. OutInv'
  BY <1>4, <1>5 DEF BookInv, OutInv, Answered
<1>11. ClearInv'
  BY <1>1, <1>2 DEF BookInv, ClearInv, Clear
<1>12. AskInv'
  BY <1>1, <1>2, <1>4 DEF BookInv, AskInv, Heard, Waits
<1>13. RespondInv'
  <2>1. \A k : Unmet(k)' <=> Unmet(k)
    BY <1>4 DEF Unmet
  <2>2. \A k : (Heard("call", Seen, k)' <=> Heard("call", Seen, k))
    BY <1>1, <1>2 DEF Heard
  <2>3. QED
    BY <1>2, <1>6, <2>1, <2>2 DEF BookInv, RespondInv, Responds
<1>14. QED
  BY <1>7, <1>8, <1>9, <1>10, <1>11, <1>12, <1>13 DEF BookInv

\* What a new driver makes of the runner's checkpoint.
LEMMA RestoredFacts ==
  ASSUME NEW c \in Good
  PROVE  /\ Restored(c) \in Good /\ Later(c, Restored(c)) /\ Owes(Restored(c)) \subseteq Owes(c)
         /\ Restored(c).asks = c.asks /\ Restored(c).responses = c.responses
         /\ Restored(c).setup = c.setup
<1> DEFINE S == c.pending \ Unaccepted(c.input)
           in == IF c.input.acc = {} THEN IdleInput ELSE [c.input EXCEPT !.reqs = c.input.acc]
           d == [c EXCEPT !.pending = S]
<1>1. in \in GoodInputs
  BY CheckpointFacts, InputFacts DEF GoodInputs, Inputs
<1>2. S \in SUBSET Rpcs /\ ((c.loaded /\ c.setup = 0) \/ S = {})
  BY CheckpointFacts
<1>3. /\ d \in Good /\ d.next = c.next /\ d.loaded = c.loaded /\ d.setup = c.setup
      /\ d.pending = S /\ d.asks = c.asks /\ d.responses = c.responses /\ d.input = c.input
  <2>1. d \in Good
    BY <1>2, CheckpointFacts
  <2>2. QED
    BY <2>1 DEF Good, Checkpoints
<1>4. Restored(c) = [d EXCEPT !.input = in]
  BY DEF Restored
<1>5. /\ Restored(c) \in Good /\ Restored(c).next = c.next /\ Restored(c).loaded = c.loaded
      /\ Restored(c).setup = c.setup /\ Restored(c).pending = S /\ Restored(c).asks = c.asks
      /\ Restored(c).responses = c.responses
  <2> HIDE DEF d, S, in
  <2>0. \A i \in GoodInputs : [d EXCEPT !.input = i] \in Good
    BY <1>3, CheckpointFacts
  <2>1. Restored(c) \in Good
    BY <1>1, <1>4, <2>0
  <2>2. QED
    BY <1>3, <1>4, <2>1 DEF Good, Checkpoints
<1>6. Later(c, Restored(c))
  <2>1. Later(c, c)
    BY LaterTransitive
  <2>2. QED
    BY <1>5, <2>1 DEF Later
<1>7. Owes(Restored(c)) \subseteq Owes(c)
  BY <1>5 DEF Owes
<1>8. QED
  BY <1>5, <1>6, <1>7

\* A session is attached to: to a new child, or as the runner's checkpoint tells.
LEMMA AttachBook ==
  ASSUME TypeInv, OpenInv, BookInv, Attach
  PROVE  BookInv' /\ cp' \in Good
<1>1. commit = NoCommit /\ commit' = NoCommit /\ orphan = NoCommit /\ orphan' = NoCommit
  BY DEF Attach, OpenInv, TypeInv, StateType, RunnerType, AlreadyAttached, Attached
<1>2. CASE node = "none"
  <2>1. /\ output' = <<>> /\ stdin' = <<>> /\ saved' = NothingSaved /\ cp' = Fresh
        /\ through' = 0 /\ reader' = "idle"
    BY <1>2 DEF Attach
  <2>2. /\ Fresh.next = 1 /\ Owes(Fresh) = {} /\ Seen' = 0
        /\ saved'.cp = Fresh /\ saved'.through = 0 /\ Later(Fresh, Fresh)
    BY <2>1, FreshGood, LaterTransitive DEF Fresh, Owes, NothingSaved, Seen
  <2>3. \A kind, id : ~Given(kind, id)' /\ ~Wrote(kind, id)' /\ ~Taken(id)'
    BY <2>1 DEF Given, Wrote, Taken, GivenTo
  <2>4. OrderInv' /\ FreshInv' /\ SetupInv' /\ OutInv'
    BY <1>1, <2>2, <2>1, <2>3 DEF OrderInv, FreshInv, SetupInv, AwaitsSetup, SetsUp, OutInv, Answered, Carries
  <2>5. ClearInv' /\ AskInv' /\ RespondInv'
    BY <1>1, <2>2, <2>1 DEF ClearInv, Clear, AskInv, RespondInv, Heard
  <2>6. QED
    BY <2>1, <2>4, <2>5, FreshGood DEF BookInv
<1>3. CASE node # "none"
  <2>1. /\ UNCHANGED <<output, stdin, saved>> /\ cp' = Restored(saved.cp)
        /\ through' = saved.through /\ reader' = "idle" /\ saved.cp \in Good
    BY <1>3 DEF Attach, childVars, TypeInv, RunnerType
  <2>2. /\ cp' \in Good /\ Later(saved.cp, cp') /\ Owes(cp') \subseteq Owes(saved.cp)
        /\ cp'.asks = saved.cp.asks /\ cp'.responses = saved.cp.responses
        /\ cp'.setup = saved.cp.setup /\ Seen' = saved.through
    BY <2>1, RestoredFacts DEF Seen
  <2>3. \A kind, id : (Given(kind, id)' <=> Given(kind, id)) /\ (Wrote(kind, id)' <=> Wrote(kind, id))
    BY <2>1 DEF Given, Wrote
  <2>4. \A id : Taken(id)' <=> Taken(id)
    BY <2>3 DEF Taken
  <2>5. OrderInv' /\ FreshInv' /\ SetupInv' /\ OutInv'
    BY <1>1, <2>1, <2>2, <2>3, <2>4 DEF BookInv, OrderInv, FreshInv, SetupInv, AwaitsSetup, SetsUp,
                                        OutInv, Answered, Carries
  <2>6. ClearInv'
    BY <1>1, <2>1, <2>2 DEF BookInv, ClearInv, Clear
  <2>7. AskInv'
    BY <1>1, <2>1, <2>2, <2>3 DEF BookInv, AskInv, Heard, Waits
  <2>8. RespondInv'
    BY <1>1, <2>1, <2>2, <2>3 DEF BookInv, RespondInv, Unmet, Heard
  <2>9. QED
    BY <2>2, <2>5, <2>6, <2>7, <2>8 DEF BookInv
<1>4. QED
  BY <1>2, <1>3

\* A session/new or session/load that was refused may be asked for again.
LEMMA RefusedSetupBook ==
  ASSUME TypeInv, OpenInv, BookInv, UNCHANGED <<output, stdin, saved, orphan, through, reader>>,
         commit # NoCommit, commit.kind = "setup", Undecided, commit' = NoCommit,
         phase' = "Absent" => phase = "Absent", phase' # "Absent" => phase # "Absent",
         cp' = [cp EXCEPT !.setup = 0]
  PROVE  BookInv' /\ cp' \in Good
<1>1. /\ cp \in Good /\ cp' \in Good /\ saved.cp \in Good /\ (orphan # NoCommit => orphan.cp \in Good)
      /\ cp'.next = cp.next /\ Owes(cp') \subseteq Owes(cp) /\ cp'.asks = cp.asks
      /\ cp'.responses = cp.responses /\ Seen' = Seen
  <2>1. cp \in Good /\ cp' \in Good /\ saved.cp \in Good /\ (orphan # NoCommit => orphan.cp \in Good)
    BY CheckpointFacts DEF TypeInv, StateType, RunnerType, CommitType, CommitTyped, CommitRecords
  <2>2. /\ cp'.next = cp.next /\ cp'.asks = cp.asks /\ cp'.responses = cp.responses
        /\ cp'.pending = cp.pending /\ cp'.setup = 0
    BY <2>1 DEF Good, Checkpoints
  <2>3. QED
    BY <2>1, <2>2 DEF Owes, Seen
<1>2. /\ commit.id \in Rpcs /\ ~Taken(commit.id) /\ ~Carries(orphan, commit.id)
      /\ phase # "Absent" => cp.setup = commit.id
  BY DEF BookInv, SetupInv, FreshInv, SetsUp, Carries, TypeInv, CommitType, CommitTyped
<1>3. \A kind, id : (Given(kind, id)' <=> Given(kind, id)) /\ (Wrote(kind, id)' <=> Wrote(kind, id))
  BY DEF Given, Wrote
<1>4. \A id : Taken(id)' <=> Taken(id)
  BY <1>3 DEF Taken
<1>5. OrderInv'
  BY <1>1, <1>2 DEF BookInv, OrderInv, Later
<1>6. FreshInv' /\ OutInv'
  BY <1>3, <1>4 DEF BookInv, FreshInv, OutInv, Answered, Carries
<1>7. SetupInv'
  <2>1. \A c : AwaitsSetup(c)' <=> AwaitsSetup(c)
    BY <1>3 DEF AwaitsSetup, Answered
  <2>2. phase # "Absent" => AwaitsSetup(cp')
    BY <1>2 DEF BookInv, SetupInv, AwaitsSetup, Taken
  <2>3. SetsUp(orphan) => phase = "Absent"
    BY <1>2 DEF BookInv, SetupInv, SetsUp, Carries
  <2>4. QED
    BY <2>1, <2>2, <2>3 DEF BookInv, SetupInv, SetsUp
<1>8. ClearInv'
  BY <1>1 DEF BookInv, ClearInv, Clear
<1>9. AskInv'
  BY <1>1, <1>3 DEF BookInv, AskInv, Heard, Waits
<1>10. RespondInv'
  BY <1>1, <1>3 DEF BookInv, RespondInv, Unmet, Heard
<1>11. QED
  BY <1>1, <1>5, <1>6, <1>7, <1>8, <1>9, <1>10 DEF BookInv

\* An answer or a response the child has is forgotten.
LEMMA AnsweredBook ==
  ASSUME TypeInv, OpenInv, BookInv, UNCHANGED <<output, stdin, saved, orphan, through, reader, phase>>,
         NEW k0, Given("answer", k0), commit' = NoCommit, cp' = [cp EXCEPT !.asks = @ \ {k0}]
  PROVE  BookInv' /\ cp' \in Good
<1>1. cp \in Good /\ cp' \in Good
  BY CheckpointFacts DEF TypeInv, StateType
<1>2. /\ cp'.next = cp.next /\ cp'.asks = cp.asks \ {k0} /\ cp'.pending = cp.pending
      /\ cp'.responses = cp.responses /\ cp'.setup = cp.setup /\ Seen' = Seen
  BY <1>1 DEF Good, Checkpoints, Seen
<1>3. \A kind, id : (Given(kind, id)' <=> Given(kind, id)) /\ (Wrote(kind, id)' <=> Wrote(kind, id))
  BY DEF Given, Wrote
<1>4. \A id : Taken(id)' <=> Taken(id)
  BY <1>3 DEF Taken
<1>5. OrderInv' /\ FreshInv' /\ SetupInv' /\ OutInv'
  BY <1>2, <1>3, <1>4 DEF BookInv, OrderInv, Later, FreshInv, SetupInv, AwaitsSetup, SetsUp, OutInv,
                          Answered, Carries
<1>6. ClearInv'
  BY <1>2 DEF BookInv, ClearInv, Clear, Owes
<1>7. AskInv'
  BY <1>2, <1>3 DEF BookInv, AskInv, Heard, Waits
<1>8. RespondInv'
  BY <1>2, <1>3 DEF BookInv, RespondInv, Unmet, Heard
<1>9. QED
  BY <1>1, <1>5, <1>6, <1>7, <1>8 DEF BookInv

LEMMA RespondedBook ==
  ASSUME TypeInv, OpenInv, BookInv, UNCHANGED <<output, stdin, saved, orphan, through, phase>>,
         Seen' \in Nat, Seen' <= Seen, NEW k0, Given("respond", k0), commit' = NoCommit, cp' = [cp EXCEPT !.responses = @ \ {k0}]
  PROVE  BookInv' /\ cp' \in Good
<1>1. cp \in Good /\ cp' \in Good
  BY CheckpointFacts DEF TypeInv, StateType
<1>2. /\ cp'.next = cp.next /\ cp'.responses = cp.responses \ {k0} /\ cp'.pending = cp.pending
      /\ cp'.asks = cp.asks /\ cp'.setup = cp.setup
  BY <1>1 DEF Good, Checkpoints
<1>3. \A kind, id : (Given(kind, id)' <=> Given(kind, id)) /\ (Wrote(kind, id)' <=> Wrote(kind, id))
  BY DEF Given, Wrote
<1>4. \A id : Taken(id)' <=> Taken(id)
  BY <1>3 DEF Taken
<1>5. OrderInv' /\ FreshInv' /\ SetupInv' /\ OutInv'
  BY <1>2, <1>3, <1>4 DEF BookInv, OrderInv, Later, FreshInv, SetupInv, AwaitsSetup, SetsUp, OutInv,
                          Answered, Carries
<1>6. Seen \in Nat
  BY DEF TypeInv, ReaderType, FrameType, Seen
<1>7. ClearInv'
  BY <1>2, <1>6 DEF BookInv, ClearInv, Clear, Owes
<1>8. /\ \A kind, n, k : Heard(kind, n, k)' <=> Heard(kind, n, k)
      /\ \A kind, k : Heard(kind, Seen', k) => Heard(kind, Seen, k)
      /\ \A kind, k : Heard(kind, Seen, k)' <=> Heard(kind, Seen', k)
  BY <1>6 DEF Heard
<1>9. AskInv'
  BY <1>2, <1>3, <1>8 DEF BookInv, AskInv, Waits, Answers
<1>10. RespondInv'
  <2>1. \A k : Unmet(k)' => Unmet(k) /\ k # k0
    BY <1>3 DEF Unmet
  <2>2. QED
    BY <1>2, <1>8, <2>1 DEF BookInv, RespondInv, Responds
<1>11. QED
  BY <1>1, <1>5, <1>7, <1>9, <1>10 DEF BookInv

-----------------------------------------------------------------------------
(* What keeps the callers apart.                                           *)

\* A step that leaves a group of variables alone keeps that group typed.
LEMMA SameTypes ==
  ASSUME TypeInv
  PROVE  /\ UNCHANGED childVars => FrameType'
         /\ UNCHANGED <<output, runnerVars>> => RunnerType'
         /\ UNCHANGED output /\ commit' \in {commit, NoCommit} /\ orphan' \in {orphan, NoCommit} => CommitType'
         /\ UNCHANGED <<wire, sink, slot, opener, phase, cp, replayed>> => StateType'
         /\ UNCHANGED <<output, reader, through>> => ReaderType'
         /\ UNCHANGED caller => CallerType'
<1>1. UNCHANGED childVars => FrameType'
  BY DEF TypeInv, FrameType, childVars
<1>2. UNCHANGED <<output, runnerVars>> => RunnerType'
  BY DEF TypeInv, RunnerType, runnerVars
<1>3. UNCHANGED output /\ commit' \in {commit, NoCommit} /\ orphan' \in {orphan, NoCommit} => CommitType'
  BY DEF TypeInv, CommitType, CommitTyped
<1>4. UNCHANGED <<wire, sink, slot, opener, phase, cp, replayed>> => StateType'
  BY DEF TypeInv, StateType
<1>5. UNCHANGED <<output, reader, through>> => ReaderType'
  BY DEF TypeInv, ReaderType
<1>6. UNCHANGED caller => CallerType'
  BY DEF TypeInv, CallerType
<1>7. QED
  BY <1>1, <1>2, <1>3, <1>4, <1>5, <1>6

\* Nothing reaches the child, and no caller moves.
LEMMA CallsStay ==
  ASSUME TypeInv, CallInv, UNCHANGED <<stdin, caller>>, orphan' \in {orphan, NoCommit},
         cp' \in Good, cp.next <= cp'.next,
         \/ commit' = NoCommit
         \/ commit'.kind \notin {"prompt", "setup"} /\ commit'.status # "ok"
         \/ Same(commit, commit') /\ (commit'.status = "ok" => commit.status = "ok")
  PROVE  CallInv'
<1>1. \A c \in Callers : caller[c].rpc \in Nat
  BY BoundsAssumption DEF TypeInv, CallerType
<1>2. cp.next \in Nat /\ cp'.next \in Nat
  BY CheckpointFacts DEF TypeInv, StateType
<1>3. \A kind, id : Given(kind, id)' <=> Given(kind, id)
  BY DEF Given
<1>4. \A c \in Callers : InFlight(c)' => InFlight(c)
  BY DEF InFlight, Same
<1>5. \A id : Never(id) => Never(id)'
  BY <1>3 DEF Never, Carries, Same
<1>6. \A id : Taken(id)' <=> Taken(id)
  BY <1>3 DEF Taken
<1>7. \A c \in Callers : caller'[c].rpc < cp'.next
  BY <1>1, <1>2 DEF CallInv
<1>8. QED
  BY <1>3, <1>4, <1>5, <1>6, <1>7 DEF CallInv, Same

\* Nobody is in a call.
LEMMA CallersAtRest ==
  ASSUME CallersRest', cp' \in Good, commit' # NoCommit => commit'.kind \notin {"prompt", "answer", "respond"}
  PROVE  CallInv'
<1>1. cp'.next \in Nat \ {0}
  BY CheckpointFacts
<1>2. QED
  BY <1>1 DEF CallInv, CallersRest, InFlight

\* One caller is told the outcome, or goes on without an identifier of its own.
LEMMA CallerMoves ==
  ASSUME TypeInv, CallInv, UNCHANGED stdin, orphan' \in {orphan, NoCommit},
         cp' \in Good, cp.next <= cp'.next, NEW c \in Callers, NEW x,
         caller' = [caller EXCEPT ![c] = x],
         x.pc \notin {"reserved", "steering"}, x.rpc \in {0, caller[c].rpc},
         x.told = "rejected" => Never(x.rpc) \/ Never(x.rpc)', x.told = "accepted" => Given("prompt", x.rpc),
         \/ commit' = NoCommit
         \/ commit'.kind \notin {"prompt", "setup"} /\ commit'.status # "ok"
         \/ commit' = commit /\ (commit # NoCommit => ~(commit.kind = "prompt" /\ commit.who = c))
  PROVE  CallInv'
<1>1. /\ caller'[c] = x /\ \A d \in Callers : d # c => caller'[d] = caller[d]
      /\ \A d \in Callers : caller[d].rpc \in Nat
      /\ \A id \in Rpcs : id # 0
  BY BoundsAssumption DEF TypeInv, CallerType, Rpcs
<1>2. cp.next \in Nat \ {0} /\ cp'.next \in Nat \ {0}
  BY CheckpointFacts DEF TypeInv, StateType
<1>3. \A kind, id : Given(kind, id)' <=> Given(kind, id)
  BY DEF Given
<1>4. /\ ~InFlight(c)'
      /\ \A d \in Callers : d # c /\ InFlight(d)' => InFlight(d)
  BY <1>1 DEF InFlight
<1>5. \A id : Never(id) => Never(id)'
  BY <1>3 DEF Never, Carries
<1>6. \A id : Taken(id)' <=> Taken(id)
  BY <1>3 DEF Taken
<1>7. \A d \in Callers : caller'[d].rpc < cp'.next
  BY <1>1, <1>2 DEF CallInv
<1>8. \A d, e \in Callers : InFlight(d)' /\ d # e => caller'[e].rpc # caller'[d].rpc
  BY <1>1, <1>4 DEF CallInv
<1>9. \A d \in Callers :
        /\ InFlight(d)' => caller'[d].told = "nothing" /\ caller'[d].rpc \in Rpcs
        /\ caller'[d].pc \in {"reserved", "steering"} => Never(caller[d].rpc)' /\ ~Taken(caller[d].rpc)'
        /\ caller'[d].told = "rejected" => Never(caller[d].rpc)'
        /\ caller'[d].told = "accepted" => Given("prompt", caller[d].rpc)'
  <2>1. TAKE d \in Callers
  <2>2. CASE d = c
    BY <2>2, <1>1, <1>3, <1>4, <1>5
  <2>3. CASE d # c
    BY <2>3, <1>1, <1>3, <1>4, <1>5, <1>6 DEF CallInv
  <2>4. QED
    BY <2>2, <2>3
<1>10. commit' # NoCommit /\ commit'.kind \in {"prompt", "answer", "respond"} /\ commit'.status = "ok" =>
         Given(commit.kind, commit.id)'
  BY <1>3 DEF CallInv
<1>11. QED
  BY <1>3, <1>7, <1>8, <1>9, <1>10 DEF CallInv

-----------------------------------------------------------------------------
(* Every step keeps the invariant: the child and the runner.               *)

LEMMA ChildStep ==
  ASSUME TypeInv, Inv, Child
  PROVE  TypeInv' /\ Inv'
<1>1. PICK kind0 \in {"reply", "error", "work", "ask", "done", "call", "exit"}, id0 \in Marks :
        /\ Writes(kind0, id0) /\ Len(output) < MaxOutput
        /\ kind0 \in Answer => id0 \in Rpcs /\ Taken(id0)
        /\ kind0 \in {"ask", "done", "call"} => id0 \in Asks
  <2>1. CASE \E id \in Rpcs : ChildReplies(id) \/ ChildRefuses(id)
    BY <2>1, BoundsAssumption DEF ChildReplies, ChildRefuses, Alive, Marks, Rpcs, Taken
  <2>2. CASE \E k \in Asks : ChildAsks(k) \/ ChildSettles(k) \/ ChildCalls(k)
    BY <2>2 DEF ChildAsks, ChildSettles, ChildCalls, Alive, Marks
  <2>3. CASE ChildWorks \/ ChildExits
    BY <2>3, BoundsAssumption DEF ChildWorks, ChildExits, Alive, Marks
  <2>4. QED
    BY <2>1, <2>2, <2>3 DEF Child
<1>2. UNCHANGED <<stdin, runnerVars, wireVars, sessionVars, caller, faults>>
  BY DEF Child
<1> DEFINE f == [kind |-> kind0, id |-> id0]
<1>3. /\ output' = Append(output, f) /\ f \in Frames /\ output \in Seq(Frames) /\ Len(output) \in Nat
      /\ f.kind = kind0 /\ f.id = id0
  BY <1>1 DEF Writes, Frames, TypeInv, FrameType
<1> HIDE DEF f
<1>4. /\ output' \in Seq(Frames) /\ Len(output') = Len(output) + 1
      /\ DOMAIN output' = 1..(Len(output) + 1) /\ output'[Len(output) + 1] = f
      /\ \A i \in 1..Len(output) : output'[i] = output[i]
  BY <1>3
<1>5. TypeInv'
  <2>1. FrameType'
    <3>1. \A i \in DOMAIN output' :
            /\ output'[i].kind \in Answer => output'[i].id \in Rpcs
            /\ output'[i].kind \in {"ask", "done", "call"} => output'[i].id \in Asks
      <4>1. TAKE i \in DOMAIN output'
      <4>2. CASE i = Len(output) + 1
        BY <4>2, <1>1, <1>3, <1>4
      <4>3. CASE i \in 1..Len(output)
        BY <4>3, <1>3, <1>4 DEF TypeInv, FrameType
      <4>4. QED
        BY <4>2, <4>3, <1>3, <1>4
    <3>2. QED
      BY <3>1, <1>1, <1>2, <1>3, <1>4, BoundsAssumption DEF TypeInv, FrameType
  <2>2. RunnerType' /\ StateType' /\ ReaderType' /\ CallerType'
    BY <1>2, <1>3, <1>4 DEF TypeInv, RunnerType, StateType, ReaderType, CallerType, runnerVars,
                            wireVars, sessionVars, stateVars
  <2>3. CommitType'
    BY <1>2, <1>3, <1>4 DEF TypeInv, CommitType, CommitTyped, CommitRecords, wireVars, sessionVars
  <2>4. QED
    BY <2>1, <2>2, <2>3 DEF TypeInv
<1>6. BookInv'
  <2>1. UNCHANGED <<stdin, saved, orphan, commit, phase, cp, through, reader>>
    BY <1>2 DEF runnerVars, wireVars, sessionVars, stateVars
  <2>2. QED
    BY <1>1, <2>1, WritesBook DEF Inv
<1>7. OpenInv'
  BY <1>2 DEF Inv, OpenInv, CallersRest, runnerVars, wireVars, sessionVars, stateVars
<1>8. CallInv'
  BY <1>2 DEF Inv, CallInv, InFlight, Never, Taken, Carries, Given, wireVars, sessionVars, stateVars
<1>9. QED
  BY <1>5, <1>6, <1>7, <1>8 DEF Inv

LEMMA RunnerAnswersStep ==
  ASSUME TypeInv, Inv, RunnerAnswers
  PROVE  TypeInv' /\ Inv'
<1>1. /\ UNCHANGED <<output, fence, wire, sink, orphan, phase, failure, cp, through, replayed,
                     reader, slot, opener, caller, faults>>
      /\ commit # NoCommit /\ commit.status = "sent" /\ orphan = NoCommit
      /\ commit \in CommitRecords /\ CommitTyped(commit)
  BY DEF RunnerAnswers, wireVars, stateVars, TypeInv, CommitType, CommitTyped
<1>2. PICK s \in {"ok", "refused", "full"} :
        /\ commit' = [commit EXCEPT !.status = s]
        /\ IF s = "ok" THEN Acceptable(commit) /\ Commits(commit) ELSE UNCHANGED <<saved, stdin, node>>
  BY DEF RunnerAnswers
<1>3. /\ commit' \in CommitRecords /\ commit' # NoCommit /\ commit'.status = s /\ Same(commit, commit')
  <2>1. commit' \in CommitRecords /\ commit'.status = s
    BY <1>1, <1>2 DEF CommitRecords
  <2>2. QED
    BY <1>1, <1>2, <2>1, NoCommitApart DEF CommitRecords, Same
<1>4. CommitType'
  BY <1>1, <1>3 DEF TypeInv, CommitType, CommitTyped, Same
<1>5. StateType' /\ ReaderType' /\ CallerType'
  BY <1>1, SameTypes
<1>6. CASE s = "ok"
  <2>1. Attached /\ Commits(commit)
    BY <1>2, <1>6 DEF Acceptable
  <2>2. /\ stdin' \in Seq(Orders) /\ saved' \in [through : 0..Len(output), cp : Good]
        /\ \A kind, id : Given(kind, id)' <=> Given(kind, id) \/ (IsInput(commit) /\ kind = commit.kind /\ id = commit.id)
        /\ \A id : Taken(id)' <=> Taken(id) \/ Carries(commit, id)
    BY <1>1, <2>1, HandsOver
  <2>3. TypeInv'
    BY <1>1, <1>4, <1>5, <2>1, <2>2 DEF TypeInv, FrameType, RunnerType, Commits
  <2>4. BookInv'
    BY <1>1, <1>2, <1>6, <2>1, RunnerTakesBook DEF Inv, Attached
  <2>5. OpenInv'
    BY <1>1, <1>3, <2>1 DEF Inv, OpenInv, CallersRest, Commits, Attached, Same
  <2>6. CallInv'
    <3>1. \A c \in Callers : InFlight(c)' <=> InFlight(c)
      BY <1>1, <1>3 DEF InFlight, Same
    <3>2. \A id : Carries(commit, id)' <=> Carries(commit, id)
      BY <1>1, <1>3 DEF Carries, Same
    <3>3. \A id : Never(id) => Never(id)'
      BY <1>1, <2>2, <3>2 DEF Never, IsInput, Carries
    <3>4. commit'.kind \in {"prompt", "answer", "respond"} => Given(commit.kind, commit.id)'
      BY <1>1, <1>3, <2>2 DEF IsInput, Same
    <3>5. \A c \in Callers : caller[c].pc \in {"reserved", "steering"} => ~Taken(caller[c].rpc)'
      BY <1>1, <2>2 DEF Inv, CallInv, Never
    <3>6. QED
      BY <1>1, <1>3, <2>2, <3>1, <3>3, <3>4, <3>5 DEF Inv, CallInv, Same
  <2>7. QED
    BY <2>3, <2>4, <2>5, <2>6 DEF Inv
<1>7. CASE s # "ok"
  <2>1. UNCHANGED <<saved, stdin, node>>
    BY <1>2, <1>7
  <2>2. TypeInv'
    BY <1>1, <1>4, <1>5, <2>1, SameTypes DEF TypeInv, childVars, runnerVars
  <2>3. BookInv'
    <3>1. Undecided' => Undecided
      BY <1>1 DEF Undecided
    <3>2. /\ Seen' \in Nat /\ Seen' <= Seen /\ cp' \in Good /\ Later(cp, cp')
      BY <1>1, LaterTransitive DEF TypeInv, ReaderType, StateType, FrameType, Seen
    <3>3. QED
      BY <1>1, <1>3, <2>1, <3>1, <3>2, QuietBook DEF Inv
  <2>4. OpenInv'
    BY <1>1, <1>3, <2>1 DEF Inv, OpenInv, CallersRest, Same
  <2>5. CallInv'
    <3>1. cp \in Good /\ cp' \in Good
      BY <1>1 DEF TypeInv, StateType
    <3>2. cp.next <= cp'.next
      BY <1>1, <3>1, NextFacts
    <3>3. QED
      BY <1>1, <1>3, <1>7, <2>1, <3>1, <3>2, CallsStay DEF Inv
  <2>6. QED
    BY <2>2, <2>3, <2>4, <2>5 DEF Inv
<1>8. QED
  BY <1>6, <1>7

LEMMA OrphanRunsStep ==
  ASSUME TypeInv, Inv, OrphanRuns
  PROVE  TypeInv' /\ Inv'
<1>1. /\ UNCHANGED <<output, fence, wire, sink, phase, failure, cp, through, replayed,
                     reader, commit, slot, opener, caller, faults>>
      /\ orphan # NoCommit /\ orphan' = NoCommit /\ orphan \in CommitRecords /\ CommitTyped(orphan)
  BY DEF OrphanRuns, sessionVars, stateVars, TypeInv, CommitType, CommitTyped
<1>2. CommitType' /\ StateType' /\ ReaderType' /\ CallerType'
  BY <1>1, SameTypes
<1>3. CASE Acceptable(orphan)
  <2>1. Attached /\ Commits(orphan)
    BY <1>3 DEF Acceptable, OrphanRuns
  <2>2. /\ stdin' \in Seq(Orders) /\ saved' \in [through : 0..Len(output), cp : Good]
        /\ \A kind, id : Given(kind, id)' <=> Given(kind, id) \/ (IsInput(orphan) /\ kind = orphan.kind /\ id = orphan.id)
        /\ \A id : Taken(id)' <=> Taken(id) \/ Carries(orphan, id)
    BY <1>1, <2>1, HandsOver
  <2>3. TypeInv'
    BY <1>1, <1>2, <2>1, <2>2 DEF TypeInv, FrameType, RunnerType, Commits
  <2>4. BookInv'
    BY <1>1, <2>1, OrphanTakenBook DEF Inv
  <2>5. OpenInv'
    BY <1>1, <2>1 DEF Inv, OpenInv, CallersRest, Commits, Attached
  <2>6. CallInv'
    <3>1. \A id : Never(id) => Never(id)'
      BY <1>1, <2>2 DEF Never, IsInput, Carries
    <3>2. \A c \in Callers : caller[c].pc \in {"reserved", "steering"} => ~Taken(caller[c].rpc)'
      BY <1>1, <2>2 DEF Inv, CallInv, Never
    <3>3. QED
      BY <1>1, <2>2, <3>1, <3>2 DEF Inv, CallInv, InFlight
  <2>7. QED
    BY <2>3, <2>4, <2>5, <2>6 DEF Inv
<1>4. CASE ~Acceptable(orphan)
  <2>1. UNCHANGED <<saved, stdin, node>>
    BY <1>4 DEF OrphanRuns
  <2>2. TypeInv'
    BY <1>1, <1>2, <2>1, SameTypes DEF TypeInv, childVars, runnerVars
  <2>3. BookInv'
    <3>1. /\ Seen' \in Nat /\ Seen' <= Seen /\ cp' \in Good /\ Later(cp, cp')
      BY <1>1, LaterTransitive DEF TypeInv, ReaderType, StateType, FrameType, Seen
    <3>2. QED
      BY <1>1, <2>1, <3>1, QuietBook DEF Inv, Same, Undecided
  <2>4. OpenInv'
    BY <1>1, <2>1 DEF Inv, OpenInv, CallersRest
  <2>5. CallInv'
    BY <1>1, <2>1 DEF Inv, CallInv, InFlight, Never, Taken, Carries, Given
  <2>6. QED
    BY <2>2, <2>3, <2>4, <2>5 DEF Inv
<1>5. QED
  BY <1>3, <1>4

-----------------------------------------------------------------------------
(* Every step keeps the invariant: the callers.                            *)

\* A call touches the checkpoint, the commit and its caller.
LEMMA CallTypes ==
  ASSUME TypeInv, Unsent, phase' = phase, cp' \in Good, CommitTyped(commit'), CallerType'
  PROVE  /\ TypeInv' /\ Seen' = Seen
         /\ UNCHANGED <<output, stdin, saved, node, fence, wire, sink, orphan, through, replayed,
                        reader, slot, opener, phase>>
<1>1. UNCHANGED <<output, stdin, saved, node, fence, wire, sink, orphan, through, replayed,
                  reader, slot, opener, phase>>
  BY DEF Unsent, childVars, runnerVars, wireVars
<1>2. FrameType' /\ RunnerType' /\ ReaderType'
  BY <1>1, SameTypes DEF childVars, runnerVars
<1>3. CommitType' /\ StateType'
  BY <1>1 DEF TypeInv, CommitType, CommitTyped, StateType
<1>4. QED
  BY <1>1, <1>2, <1>3 DEF TypeInv, Seen

\* What is handed to the runner.
LEMMA SendsFacts ==
  ASSUME TypeInv, NEW who \in Callers \cup {"reader", "opener"},
         NEW kind \in {"prompt", "setup", "cancel", "answer", "respond", "ack", "fence"}, NEW id \in Marks,
         NEW c \in Good, Sends(who, kind, id, c),
         kind \in {"prompt", "setup"} => id \in Rpcs,
         kind \in {"prompt", "answer"} => who \in Callers,
         kind = "cancel" => who \in Callers \cup {"reader"},
         kind = "respond" => id \in Asks
  PROVE  /\ commit = NoCommit /\ commit' \in CommitRecords /\ CommitTyped(commit') /\ commit' # NoCommit
         /\ commit'.who = who /\ commit'.kind = kind /\ commit'.id = id
         /\ commit'.through = through /\ commit'.cp = c /\ commit'.status = (IF wire = "up" THEN "sent" ELSE "gone")
<1>1. commit = NoCommit
  BY DEF Sends, OutboundFree
<1>2. /\ commit'.who = who /\ commit'.kind = kind /\ commit'.id = id
      /\ commit'.through = through /\ commit'.cp = c
      /\ commit'.status = (IF wire = "up" THEN "sent" ELSE "gone")
  BY DEF Sends
<1>3. commit' \in CommitRecords
  <2>1. through \in Nat
    BY DEF TypeInv, ReaderType, FrameType
  <2>2. QED
    BY <2>1 DEF Sends, CommitRecords
<1>4. CommitTyped(commit')
  BY <1>2, <1>3 DEF CommitTyped, TypeInv, ReaderType, FrameType
<1>5. QED
  BY <1>1, <1>2, <1>3, <1>4, NoCommitApart

\* A request takes the next identifier.
LEMMA NumberedFacts ==
  ASSUME NEW c \in Good, c.next \in Rpcs, NEW in \in GoodInputs,
         NEW d, d = [c EXCEPT !.next = @ + 1, !.input = in]
  PROVE  /\ d \in Good /\ d.next = c.next + 1 /\ Later(c, d) /\ Owes(d) = Owes(c) /\ d.asks = c.asks
         /\ d.responses = c.responses /\ d.loaded = c.loaded /\ d.setup = c.setup
<1> DEFINE b == [c EXCEPT !.next = @ + 1]
<1>1. b \in Good /\ b.next = c.next + 1 /\ b.loaded = c.loaded /\ b.setup = c.setup
      /\ b.pending = c.pending /\ b.asks = c.asks /\ b.responses = c.responses
  BY BoundsAssumption DEF Good, Checkpoints, Rpcs
<1>2. d = [b EXCEPT !.input = in]
  OBVIOUS
<1> HIDE DEF b
<1>3. \A i \in GoodInputs : [b EXCEPT !.input = i] \in Good
  BY <1>1, CheckpointFacts
<1>4. d \in Good
  BY <1>2, <1>3
<1>5. /\ d.next = c.next + 1 /\ d.loaded = c.loaded /\ d.setup = c.setup /\ d.pending = c.pending
      /\ d.asks = c.asks /\ d.responses = c.responses
  BY <1>1, <1>2, <1>4 DEF Good, Checkpoints
<1>6. c.next <= d.next
  BY <1>5, NextFacts
<1>7. QED
  BY <1>4, <1>5, <1>6 DEF Later, Owes

\* A checkpoint whose input changed says the same about everything else.
LEMMA InputOnly ==
  ASSUME NEW c \in Good, NEW in \in GoodInputs, NEW d, d = [c EXCEPT !.input = in]
  PROVE  /\ d \in Good /\ d.next = c.next /\ Later(c, d) /\ Later(d, c) /\ Owes(d) = Owes(c)
         /\ d.asks = c.asks /\ d.responses = c.responses /\ d.loaded = c.loaded
         /\ d.setup = c.setup /\ d.pending = c.pending
<1>1. d \in Good
  BY CheckpointFacts
<1>2. /\ d.next = c.next /\ d.loaded = c.loaded /\ d.setup = c.setup /\ d.pending = c.pending
      /\ d.asks = c.asks /\ d.responses = c.responses
  BY <1>1 DEF Good, Checkpoints
<1>3. QED
  BY <1>1, <1>2, NextFacts DEF Later, Owes

\* The next identifier is new to everyone.
LEMMA NextIsNew ==
  ASSUME TypeInv, Inv, phase # "Absent", cp.next \in Rpcs
  PROVE  Never(cp.next) /\ ~Taken(cp.next)
<1>1. /\ cp \in Good /\ saved.cp \in Good
      /\ commit # NoCommit => commit.cp \in Good
      /\ orphan # NoCommit => orphan.cp \in Good
  BY DEF TypeInv, RunnerType, StateType, CommitType, CommitTyped, CommitRecords
<1>2. /\ cp.next \in Nat /\ saved.cp.next \in Nat
      /\ commit # NoCommit => commit.cp.next \in Nat
      /\ orphan # NoCommit => orphan.cp.next \in Nat
  BY <1>1, NextFacts
<1>3. /\ saved.cp.next <= cp.next
      /\ commit # NoCommit => commit.cp.next <= cp.next
      /\ orphan # NoCommit => orphan.cp.next <= cp.next
  BY DEF Inv, BookInv, OrderInv, Later
<1>4. ~Taken(cp.next)
  BY <1>2, <1>3 DEF Inv, BookInv, FreshInv
<1>5. ~Carries(commit, cp.next) /\ ~Carries(orphan, cp.next)
  BY <1>2, <1>3 DEF Inv, BookInv, FreshInv, Carries
<1>6. QED
  BY <1>4, <1>5 DEF Never, Taken

\* A caller is given the next identifier.
LEMMA CallerNumbered ==
  ASSUME TypeInv, Inv, phase # "Absent", UNCHANGED <<stdin, orphan, commit>>,
         cp.next \in Rpcs, cp'.next = cp.next + 1, NEW c \in Callers, caller[c].pc = "idle",
         NEW pc \in {"reserved", "steering"}, Sets(c, pc, cp.next, "nothing")
  PROVE  CallInv' /\ CallerType'
<1>1. /\ caller'[c] = [pc |-> pc, rpc |-> cp.next, told |-> "nothing"]
      /\ \A d \in Callers : d # c => caller'[d] = caller[d]
      /\ \A d \in Callers : caller[d].rpc \in Nat
      /\ cp.next \in Nat
  BY BoundsAssumption DEF TypeInv, CallerType, Sets, Rpcs
<1>2. CallerType'
  BY BoundsAssumption DEF TypeInv, CallerType, Sets, Rpcs
<1>3. Never(cp.next) /\ ~Taken(cp.next)
  BY NextIsNew
<1>4. \A d \in Callers : caller[d].rpc < cp.next
  BY DEF Inv, CallInv
<1>5. /\ \A kind, id : Given(kind, id)' <=> Given(kind, id)
      /\ \A id : (Never(id)' <=> Never(id)) /\ (Taken(id)' <=> Taken(id))
  BY DEF Given, Never, Carries, Taken
<1>6. \A d \in Callers : d # c /\ InFlight(d)' => InFlight(d)
  BY <1>1 DEF InFlight
<1>7. \A d \in Callers : caller'[d].rpc < cp'.next
  BY <1>1, <1>4
<1>8. \A d, e \in Callers : InFlight(d)' /\ d # e => caller'[e].rpc # caller'[d].rpc
  <2>1. TAKE d, e \in Callers
  <2>2. CASE d = c
    BY <2>2, <1>1, <1>4
  <2>3. CASE d # c /\ e = c
    BY <2>3, <1>1, <1>4
  <2>4. CASE d # c /\ e # c
    BY <2>4, <1>1, <1>6 DEF Inv, CallInv
  <2>5. QED
    BY <2>2, <2>3, <2>4
<1>9. \A d \in Callers :
        /\ InFlight(d)' => caller'[d].told = "nothing" /\ caller'[d].rpc \in Rpcs
        /\ caller'[d].pc \in {"reserved", "steering"} => Never(caller[d].rpc)' /\ ~Taken(caller[d].rpc)'
        /\ caller'[d].told = "rejected" => Never(caller[d].rpc)'
        /\ caller'[d].told = "accepted" => Given("prompt", caller[d].rpc)'
  <2>1. TAKE d \in Callers
  <2>2. CASE d = c
    BY <2>2, <1>1, <1>3, <1>5
  <2>3. CASE d # c
    BY <2>3, <1>1, <1>5, <1>6 DEF Inv, CallInv
  <2>4. QED
    BY <2>2, <2>3
<1>10. commit' # NoCommit /\ commit'.kind \in {"prompt", "answer", "respond"} /\ commit'.status = "ok" =>
         Given(commit.kind, commit.id)'
  BY <1>5 DEF Inv, CallInv
<1>11. QED
  BY <1>2, <1>7, <1>8, <1>9, <1>10 DEF CallInv

LEMMA NumberedStep ==
  ASSUME TypeInv, Inv, NEW c \in Callers, Reserve(c) \/ Steer(c)
  PROVE  TypeInv' /\ Inv'
<1>1. /\ phase = "Ready" /\ cp.next \in Rpcs /\ caller[c].pc = "idle"
      /\ Unsent /\ phase' = phase /\ commit' = commit /\ cp \in Good
  BY DEF Reserve, Steer, TypeInv, StateType
<1>2. PICK in \in GoodInputs : cp' = [cp EXCEPT !.next = @ + 1, !.input = in]
  BY <1>1, RequestFacts, CheckpointFacts DEF Reserve, Steer
<1>3. PICK pc \in {"reserved", "steering"} : Sets(c, pc, cp.next, "nothing")
  BY DEF Reserve, Steer
<1>4. cp' \in Good /\ cp'.next = cp.next + 1 /\ Later(cp, cp') /\ Owes(cp') = Owes(cp) /\ cp'.asks = cp.asks
      /\ cp'.responses = cp.responses /\ cp'.loaded = cp.loaded /\ cp'.setup = cp.setup
  BY <1>1, <1>2, NumberedFacts
<1>5. UNCHANGED <<stdin, orphan, commit>>
  BY <1>1 DEF Unsent, childVars, wireVars
<1>6. CallInv' /\ CallerType'
  BY <1>1, <1>3, <1>4, <1>5, CallerNumbered
<1>7. CommitTyped(commit')
  BY <1>1 DEF TypeInv, CommitType, CommitTyped
<1>8. /\ TypeInv' /\ Seen' = Seen
      /\ UNCHANGED <<output, stdin, saved, node, fence, wire, sink, orphan, through, replayed,
                     reader, slot, opener, phase>>
  BY <1>1, <1>4, <1>6, <1>7, CallTypes
<1>9. BookInv'
  <2>1. Seen \in Nat
    BY DEF TypeInv, ReaderType, FrameType, Seen
  <2>2. QED
    BY <1>1, <1>4, <1>8, <2>1, QuietBook DEF Inv, Same, Undecided
<1>10. OpenInv'
  <2>1. /\ \A d \in Callers : d # c => caller'[d] = caller[d]
        /\ commit # NoCommit /\ commit.kind = "prompt" => commit.who \in Callers
    BY <1>3 DEF Sets, TypeInv, CallerType, CommitType, CommitTyped
  <2>2. slot = "held" /\ ~Preparing
    BY <1>1 DEF Inv, OpenInv, TypeInv, StateType
  <2>3. QED
    BY <1>1, <1>4, <1>8, <2>1, <2>2 DEF Inv, OpenInv
<1>11. QED
  BY <1>6, <1>8, <1>9, <1>10 DEF Inv

\* One caller goes on, and nothing is sent.
LEMMA CallerGoesOn ==
  ASSUME TypeInv, Inv, Unsent, phase' = phase, commit' = commit, NEW in \in GoodInputs,
         cp' \in {cp, [cp EXCEPT !.input = in]}, NEW c \in Callers, caller[c].pc # "sending", NEW x,
         caller' = [caller EXCEPT ![c] = x], x.pc \in {"idle", "cancelling", "sending"},
         x \in [pc : {"idle", "reserved", "steering", "stale", "sending", "cancelling"},
                rpc : 0..MaxRpc, told : {"nothing", "accepted", "rejected", "unknown"}],
         x.rpc \in {0, caller[c].rpc},
         x.told = "rejected" => Never(x.rpc), x.told = "accepted" => Given("prompt", x.rpc),
         CallersRest => CallersRest' \/ phase = "Ready"
  PROVE  TypeInv' /\ Inv'
<1>1. cp \in Good /\ CommitTyped(commit') /\ CallerType'
  BY DEF TypeInv, StateType, CommitType, CommitTyped, CallerType
<1>2. /\ cp' \in Good /\ cp'.next = cp.next /\ Later(cp, cp') /\ Owes(cp') = Owes(cp)
      /\ cp'.asks = cp.asks /\ cp'.responses = cp.responses /\ cp'.loaded = cp.loaded
      /\ cp'.setup = cp.setup /\ cp'.pending = cp.pending
  BY <1>1, InputOnly, LaterTransitive
<1>3. /\ TypeInv' /\ Seen' = Seen
      /\ UNCHANGED <<output, stdin, saved, node, fence, wire, sink, orphan, through, replayed,
                     reader, slot, opener, phase>>
  BY <1>1, <1>2, CallTypes
<1>4. BookInv'
  <2>1. Seen \in Nat
    BY DEF TypeInv, ReaderType, FrameType, Seen
  <2>2. QED
    BY <1>1, <1>2, <1>3, <2>1, QuietBook DEF Inv, Same, Undecided
<1>5. commit # NoCommit /\ commit.kind = "prompt" => commit.who \in Callers /\ commit.who # c
  BY DEF TypeInv, CommitType, CommitTyped, Inv, OpenInv
<1>6. OpenInv'
  <2>1. \A d \in Callers : d # c => caller'[d] = caller[d]
    OBVIOUS
  <2>2. phase = "Ready" => slot = "held" /\ ~Preparing
    BY DEF Inv, OpenInv, TypeInv, StateType
  <2>3. QED
    BY <1>2, <1>3, <1>5, <2>1, <2>2 DEF Inv, OpenInv
<1>7. CallInv'
  <2>1. cp.next <= cp'.next
    BY <1>1, <1>2, NextFacts
  <2>2. QED
    BY <1>2, <1>3, <1>5, <2>1, CallerMoves DEF Inv
<1>8. QED
  BY <1>3, <1>4, <1>6, <1>7 DEF Inv

\* What a caller record may hold.
LEMMA CallerFacts ==
  ASSUME TypeInv, NEW c \in Callers
  PROVE  /\ caller[c] \in [pc : {"idle", "reserved", "steering", "stale", "sending", "cancelling"},
                           rpc : 0..MaxRpc, told : {"nothing", "accepted", "rejected", "unknown"}]
         /\ \A pc : [caller EXCEPT ![c].pc = pc] =
                      [caller EXCEPT ![c] = [pc |-> pc, rpc |-> caller[c].rpc, told |-> caller[c].told]]
BY DEF TypeInv, CallerType

LEMMA ReleaseReservationStep ==
  ASSUME TypeInv, Inv, NEW c \in Callers, ReleaseReservation(c)
  PROVE  TypeInv' /\ Inv'
<1> DEFINE x == [pc |-> "idle", rpc |-> caller[c].rpc, told |-> "rejected"]
<1>1. Unsent /\ phase' = phase /\ commit' = commit /\ caller[c].pc = "reserved" /\ caller' = [caller EXCEPT ![c] = x]
  BY DEF ReleaseReservation, Sets
<1>2. caller[c].rpc \in Rpcs /\ Never(caller[c].rpc) /\ ~CallersRest
  BY <1>1 DEF Inv, CallInv, InFlight, CallersRest
<1>3. PICK in \in GoodInputs : cp' \in {cp, [cp EXCEPT !.input = in]}
  <2>1. cp.input \in GoodInputs
    BY CheckpointFacts DEF TypeInv, StateType
  <2>2. Finished(cp.input, caller[c].rpc) \in GoodInputs
    BY <1>2, <2>1, RequestFacts
  <2>3. QED
    BY <2>2 DEF ReleaseReservation
<1>4. x.pc = "idle" /\ x.told = "rejected" /\ x.rpc = caller[c].rpc /\
      x \in [pc : {"idle", "reserved", "steering", "stale", "sending", "cancelling"},
             rpc : 0..MaxRpc, told : {"nothing", "accepted", "rejected", "unknown"}]
  BY CallerFacts
<1> HIDE DEF x
<1>5. QED
  BY <1>1, <1>2, <1>3, <1>4, CallerGoesOn

LEMMA DispatchStaleStep ==
  ASSUME TypeInv, Inv, NEW c \in Callers, DispatchStale(c)
  PROVE  TypeInv' /\ Inv'
<1> DEFINE x == [pc |-> "idle", rpc |-> 0, told |-> "nothing"]
<1>1. /\ Unsent /\ phase' = phase /\ commit' = commit /\ cp' = cp /\ caller[c].pc = "stale"
      /\ caller' = [caller EXCEPT ![c] = x]
  BY DEF DispatchStale, Sets
<1>2. cp.input \in GoodInputs
  BY CheckpointFacts DEF TypeInv, StateType
<1>3. x.pc = "idle" /\ x.told = "nothing" /\ x.rpc = 0 /\
      x \in [pc : {"idle", "reserved", "steering", "stale", "sending", "cancelling"},
             rpc : 0..MaxRpc, told : {"nothing", "accepted", "rejected", "unknown"}]
  BY BoundsAssumption
<1> HIDE DEF x
<1>4. CallersRest => CallersRest'
  BY <1>1, <1>3 DEF CallersRest, TypeInv, CallerType
<1>5. QED
  BY <1>1, <1>2, <1>3, <1>4, CallerGoesOn

LEMMA StopStep ==
  ASSUME TypeInv, Inv, NEW c \in Callers, Stop(c)
  PROVE  TypeInv' /\ Inv'
<1> DEFINE x == [pc |-> "cancelling", rpc |-> 0, told |-> "nothing"]
<1>1. /\ Unsent /\ phase' = phase /\ phase = "Ready" /\ commit' = commit /\ caller[c].pc = "idle"
      /\ cp' = [cp EXCEPT !.input = Stopped(cp.input)] /\ caller' = [caller EXCEPT ![c] = x]
  BY DEF Stop, Sets
<1>2. Stopped(cp.input) \in GoodInputs
  BY CheckpointFacts, InputFacts DEF TypeInv, StateType
<1>3. x.pc = "cancelling" /\ x.told = "nothing" /\ x.rpc = 0 /\
      x \in [pc : {"idle", "reserved", "steering", "stale", "sending", "cancelling"},
             rpc : 0..MaxRpc, told : {"nothing", "accepted", "rejected", "unknown"}]
  BY BoundsAssumption
<1> HIDE DEF x
<1>4. QED
  BY <1>1, <1>2, <1>3, CallerGoesOn

\* A cancel is encoded: the checkpoint already holds it as accepted.
LEMMA CancelFacts ==
  ASSUME TypeInv
  PROVE  LET d == EncodedCancel(cp) IN
         /\ d \in Good /\ d.next = cp.next /\ Later(cp, d) /\ Later(d, cp) /\ Owes(d) = Owes(cp)
         /\ d.asks = cp.asks /\ d.responses = cp.responses /\ d.setup = cp.setup
         /\ cp.input.anchor \in Marks
<1>1. cp \in Good /\ cp.input \in GoodInputs
  BY CheckpointFacts DEF TypeInv, StateType
<1>2. CancelAccepted(cp.input, cp.input.anchor) \in GoodInputs
  BY <1>1, InputFacts
<1>3. EncodedCancel(cp) = [cp EXCEPT !.input = CancelAccepted(cp.input, cp.input.anchor)]
  BY DEF EncodedCancel
<1>4. cp.input.anchor \in Marks
  BY <1>1 DEF GoodInputs, Inputs, Marks
<1>5. QED
  BY <1>1, <1>2, <1>3, <1>4, InputOnly

\* What is sent asks nothing of the child's next identifier.
LEMMA OtherSentBook ==
  ASSUME TypeInv, Inv, UNCHANGED <<output, stdin, saved, orphan, phase, cp>>, Seen' = Seen,
         commit = NoCommit, commit' \in CommitRecords, commit'.through = through,
         commit'.kind \notin {"prompt", "setup"},
         Later(cp, commit'.cp), Later(commit'.cp, cp), Owes(commit'.cp) \subseteq Owes(cp),
         commit'.cp.setup = cp.setup,
         \A k \in cp.asks : k \in commit'.cp.asks \/ Answers(commit', k),
         \A k \in cp.responses : k \in commit'.cp.responses \/ Responds(commit', k)
  PROVE  BookInv'
<1>1. cp \in Good /\ Later(cp, cp)
  BY LaterTransitive DEF TypeInv, StateType
<1>2. \A id \in Rpcs : ~Carries(commit', id)
  BY DEF Carries
<1>3. QED
  BY <1>1, <1>2, SendBook DEF Inv

\* A caller's cancel or answer is sent.
LEMMA CallerSends ==
  ASSUME TypeInv, Inv, Unsent, phase' = phase, cp' = cp, NEW c \in Callers,
         caller[c].pc = "cancelling" \/ phase = "Ready", caller[c].pc # "sending",
         NEW kind \in {"cancel", "answer"}, kind = "answer" => phase = "Ready",
         NEW id \in Marks, NEW d \in Good, Sends(c, kind, id, d),
         Later(cp, d), Later(d, cp), Owes(d) \subseteq Owes(cp),
         d.setup = cp.setup, cp.responses \subseteq d.responses,
         \A k \in cp.asks : k \in d.asks \/ (kind = "answer" /\ k = id),
         NEW x, caller' = [caller EXCEPT ![c] = x], x.pc = "sending",
         x \in [pc : {"idle", "reserved", "steering", "stale", "sending", "cancelling"},
                rpc : 0..MaxRpc, told : {"nothing", "accepted", "rejected", "unknown"}],
         x.rpc \in {0, caller[c].rpc},
         x.told = "rejected" => Never(x.rpc), x.told = "accepted" => Given("prompt", x.rpc)
  PROVE  TypeInv' /\ Inv'
<1>1. /\ commit = NoCommit /\ commit' \in CommitRecords /\ CommitTyped(commit') /\ commit' # NoCommit
      /\ commit'.who = c /\ commit'.kind = kind /\ commit'.id = id
      /\ commit'.through = through /\ commit'.cp = d /\ commit'.status # "ok"
      /\ commit'.status = "sent" => wire = "up"
  BY SendsFacts
<1>2. cp \in Good /\ cp' \in Good /\ cp.next <= cp'.next /\ CallerType'
  BY NextFacts DEF TypeInv, StateType, CallerType
<1>3. /\ TypeInv' /\ Seen' = Seen
      /\ UNCHANGED <<output, stdin, saved, node, fence, wire, sink, orphan, through, replayed,
                     reader, slot, opener, phase>>
  BY <1>1, <1>2, CallTypes
<1>4. BookInv'
  BY <1>1, <1>3, OtherSentBook DEF Answers
<1>5. slot = "held" /\ ~Preparing /\ phase \notin {"Starting", "Restoring"}
  BY DEF Inv, OpenInv, CallersRest, TypeInv, StateType
<1>6. OpenInv'
  BY <1>1, <1>3, <1>5 DEF Inv, OpenInv
<1>7. CallInv'
  BY <1>1, <1>2, <1>3, CallerMoves DEF Inv
<1>8. QED
  BY <1>3, <1>4, <1>6, <1>7 DEF Inv

LEMMA CancelIfDueStep ==
  ASSUME TypeInv, Inv, NEW c \in Callers, CancelIfDue(c)
  PROVE  TypeInv' /\ Inv'
<1>1. /\ Unsent /\ phase' = phase /\ cp' = cp /\ caller[c].pc = "cancelling" /\ commit = NoCommit
  BY DEF CancelIfDue, OutboundFree
<1>2. /\ caller[c] \in [pc : {"idle", "reserved", "steering", "stale", "sending", "cancelling"},
                        rpc : 0..MaxRpc, told : {"nothing", "accepted", "rejected", "unknown"}]
      /\ caller[c].told = "rejected" => Never(caller[c].rpc)
      /\ caller[c].told = "accepted" => Given("prompt", caller[c].rpc)
  BY CallerFacts DEF Inv, CallInv
<1>3. ~CallersRest
  BY <1>1 DEF CallersRest
<1>4. CASE CancelDue(cp.input)
  <2> DEFINE x == [pc |-> "sending", rpc |-> caller[c].rpc, told |-> caller[c].told]
  <2>1. Sends(c, "cancel", cp.input.anchor, EncodedCancel(cp)) /\ caller' = [caller EXCEPT ![c] = x]
    BY <1>4, CallerFacts DEF CancelIfDue
  <2>2. x.pc = "sending" /\ x.rpc = caller[c].rpc /\ x.told = caller[c].told /\
        x \in [pc : {"idle", "reserved", "steering", "stale", "sending", "cancelling"},
               rpc : 0..MaxRpc, told : {"nothing", "accepted", "rejected", "unknown"}]
    BY <1>2
  <2> HIDE DEF x
  <2> DEFINE d == EncodedCancel(cp)
  <2>3. /\ d \in Good /\ Later(cp, d) /\ Later(d, cp) /\ Owes(d) = Owes(cp)
        /\ d.asks = cp.asks /\ d.responses = cp.responses /\ d.setup = cp.setup
        /\ cp.input.anchor \in Marks
    BY CancelFacts
  <2> HIDE DEF d
  <2>4. Sends(c, "cancel", cp.input.anchor, d)
    BY <2>1 DEF d
  <2>5. QED
    BY <1>1, <1>2, <2>1, <2>2, <2>3, <2>4, CallerSends
<1>5. CASE ~CancelDue(cp.input)
  <2> DEFINE x == [pc |-> "idle", rpc |-> caller[c].rpc, told |-> caller[c].told]
  <2>1. commit' = commit /\ caller' = [caller EXCEPT ![c] = x]
    BY <1>5, CallerFacts DEF CancelIfDue
  <2>2. x.pc = "idle" /\ x.rpc = caller[c].rpc /\ x.told = caller[c].told /\
        x \in [pc : {"idle", "reserved", "steering", "stale", "sending", "cancelling"},
               rpc : 0..MaxRpc, told : {"nothing", "accepted", "rejected", "unknown"}]
    BY <1>2
  <2>3. cp.input \in GoodInputs
    BY CheckpointFacts DEF TypeInv, StateType
  <2> HIDE DEF x
  <2>4. QED
    BY <1>1, <1>2, <1>3, <2>1, <2>2, <2>3, CallerGoesOn
<1>6. QED
  BY <1>4, <1>5

LEMMA ResolveStep ==
  ASSUME TypeInv, Inv, NEW c \in Callers, NEW k \in Asks, Resolve(c, k)
  PROVE  TypeInv' /\ Inv'
<1> DEFINE x == [pc |-> "sending", rpc |-> 0, told |-> "nothing"]
           d == [cp EXCEPT !.asks = @ \ {k}]
<1>1. /\ Unsent /\ phase' = phase /\ cp' = cp /\ caller[c].pc = "idle" /\ phase = "Ready"
      /\ Sends(c, "answer", k, d) /\ caller' = [caller EXCEPT ![c] = x]
  BY DEF Resolve, Sets
<1>2. d \in Good /\ Later(cp, d) /\ Later(d, cp) /\ Owes(d) = Owes(cp) /\ d.asks = cp.asks \ {k}
      /\ d.responses = cp.responses /\ d.setup = cp.setup
  <2>1. cp \in Good /\ d \in Good
    BY CheckpointFacts DEF TypeInv, StateType
  <2>2. /\ d.next = cp.next /\ d.setup = cp.setup /\ d.pending = cp.pending
        /\ d.asks = cp.asks \ {k} /\ d.responses = cp.responses
    BY <2>1 DEF Good, Checkpoints
  <2> HIDE DEF d
  <2>3. QED
    BY <2>1, <2>2, NextFacts DEF Later, Owes
<1>3. x.pc = "sending" /\ x.rpc = 0 /\ x.told = "nothing" /\
      x \in [pc : {"idle", "reserved", "steering", "stale", "sending", "cancelling"},
             rpc : 0..MaxRpc, told : {"nothing", "accepted", "rejected", "unknown"}]
  BY BoundsAssumption
<1>4. k \in Marks
  BY DEF Marks
<1> HIDE DEF x, d
<1>5. QED
  BY <1>1, <1>2, <1>3, <1>4, CallerSends

\* A prompt is handed to the runner.
LEMMA PromptFacts ==
  ASSUME NEW c \in Good, NEW id \in Rpcs, c.loaded, c.setup = 0
  PROVE  LET d == WithPrompt(c, id)   e == EncodedPrompt(c, id) IN
         /\ d \in Good /\ d.next = c.next /\ Later(c, d) /\ d.asks = c.asks /\ d.loaded
         /\ e \in Good /\ e.next = c.next /\ Later(d, e) /\ Later(e, d) /\ e.asks = c.asks
         /\ Owes(d) = Owes(c) \cup {id} /\ Owes(e) = Owes(d)
         /\ d.responses = c.responses /\ e.responses = c.responses /\ d.setup = 0 /\ e.setup = 0
<1> DEFINE d == WithPrompt(c, id)
           e == EncodedPrompt(c, id)
<1>1. d \in Good
  BY CheckpointFacts DEF WithPrompt
<1>2. /\ d.next = c.next /\ d.loaded = c.loaded /\ d.setup = c.setup /\ d.asks = c.asks
      /\ d.responses = c.responses /\ d.pending = c.pending \cup {id}
  BY <1>1 DEF WithPrompt, Good, Checkpoints
<1>3. e = [d EXCEPT !.input = Accepted(d.input, id)] /\ Accepted(d.input, id) \in GoodInputs
  BY <1>1, CheckpointFacts, RequestFacts DEF EncodedPrompt
<1> HIDE DEF d, e
<1>4. /\ e \in Good /\ e.next = d.next /\ Later(d, e) /\ Later(e, d) /\ Owes(e) = Owes(d) /\ e.asks = d.asks
      /\ e.responses = d.responses /\ e.setup = d.setup
  BY <1>1, <1>3, InputOnly
<1>5. Later(c, d)
  BY <1>1, <1>2, NextFacts DEF Later
<1>6. Owes(d) = Owes(c) \cup {id}
  BY <1>2 DEF Owes
<1>7. QED
  BY <1>1, <1>2, <1>4, <1>5, <1>6 DEF d, e

LEMMA DispatchStep ==
  ASSUME TypeInv, Inv, NEW c \in Callers, Dispatch(c)
  PROVE  TypeInv' /\ Inv'
<1> DEFINE id == caller[c].rpc
<1>1. Unsent /\ phase' = phase /\ caller[c].pc \in {"reserved", "steering"} /\ commit = NoCommit /\ InFlight(c)
  BY DEF Dispatch, OutboundFree, InFlight
<1>2. /\ id \in Rpcs /\ Never(id) /\ ~Taken(id) /\ ~CallersRest /\ caller[c].told = "nothing"
      /\ id < cp.next /\ cp \in Good
  BY <1>1 DEF Inv, CallInv, CallersRest, TypeInv, StateType
<1>3. CASE phase \in {"Closing", "Absent", "Unavailable"} \/ id \notin cp.input.reqs
  <2> DEFINE x == [pc |-> "idle", rpc |-> id, told |-> "rejected"]
  <2>1. cp' = cp /\ commit' = commit /\ caller' = [caller EXCEPT ![c] = x]
    BY <1>3 DEF Dispatch, Sets
  <2>2. x.pc = "idle" /\ x.told = "rejected" /\ x.rpc = id /\
        x \in [pc : {"idle", "reserved", "steering", "stale", "sending", "cancelling"},
               rpc : 0..MaxRpc, told : {"nothing", "accepted", "rejected", "unknown"}]
    BY CallerFacts
  <2>3. cp.input \in GoodInputs
    BY CheckpointFacts DEF TypeInv, StateType
  <2> HIDE DEF x
  <2>4. QED
    BY <1>1, <1>2, <2>1, <2>2, <2>3, CallerGoesOn
<1>4. CASE ~(phase \in {"Closing", "Absent", "Unavailable"} \/ id \notin cp.input.reqs)
  <2> DEFINE e == EncodedPrompt(cp, id)
  <2>1. Sends(c, "prompt", id, e) /\ cp' = WithPrompt(cp, id) /\ Sets(c, "sending", id, "nothing")
    BY <1>4 DEF Dispatch
  <2>2. phase = "Ready" /\ cp.loaded /\ cp.setup = 0 /\ slot = "held" /\ ~Preparing
    BY <1>2, <1>4 DEF Inv, OpenInv, TypeInv, StateType
  <2>3. /\ cp' \in Good /\ cp'.next = cp.next /\ Later(cp, cp') /\ cp'.asks = cp.asks /\ cp'.loaded
        /\ e \in Good /\ e.next = cp.next /\ Later(cp', e) /\ Later(e, cp') /\ e.asks = cp.asks
        /\ Owes(cp') = Owes(cp) \cup {id} /\ Owes(e) = Owes(cp')
        /\ cp'.responses = cp.responses /\ e.responses = cp.responses /\ cp'.setup = 0 /\ e.setup = 0
    BY <1>2, <2>1, <2>2, PromptFacts
  <2>4. id \in Marks
    BY <1>2, BoundsAssumption DEF Marks, Rpcs
  <2> HIDE DEF e
  <2>5. /\ commit' \in CommitRecords /\ CommitTyped(commit') /\ commit' # NoCommit
        /\ commit'.who = c /\ commit'.kind = "prompt" /\ commit'.id = id
        /\ commit'.through = through /\ commit'.cp = e /\ commit'.status \in {"sent", "gone"}
        /\ commit'.status = "sent" => wire = "up"
    BY <1>2, <2>1, <2>3, <2>4, SendsFacts
  <2>6. /\ caller'[c] = [pc |-> "sending", rpc |-> id, told |-> "nothing"] /\ CallerType'
        /\ \A d \in Callers : d # c => caller'[d] = caller[d]
    BY <2>1, CallerFacts DEF TypeInv, CallerType, Sets
  <2>7. /\ TypeInv' /\ Seen' = Seen
        /\ UNCHANGED <<output, stdin, saved, node, fence, wire, sink, orphan, through, replayed,
                       reader, slot, opener, phase>>
    BY <1>1, <2>3, <2>5, <2>6, CallTypes
  <2>8. BookInv'
    <3>1. \A i \in Rpcs : Carries(commit', i) => i < commit'.cp.next /\ ~Taken(i) /\ ~Carries(orphan, i)
      BY <1>2, <2>3, <2>5 DEF Carries, Never
    <3>2. \A i \in Owes(cp') \cup Owes(commit'.cp) : i \in Owes(cp) \/ ~Taken(i)
      BY <1>2, <2>3, <2>5
    <3>3. QED
      BY <1>1, <2>2, <2>3, <2>5, <2>7, <3>1, <3>2, SendBook DEF Inv
  <2>9. OpenInv'
    BY <2>2, <2>3, <2>5, <2>6, <2>7 DEF Inv, OpenInv
  <2>10. CallInv'
    <3>1. \A i : (Given("prompt", i)' <=> Given("prompt", i)) /\ (Taken(i)' <=> Taken(i))
      BY <2>7 DEF Given, Taken
    <3>2. \A i : i # id /\ Never(i) => Never(i)'
      BY <2>5, <2>7 DEF Never, Given, Carries
    <3>3. \A d \in Callers : d # c => caller[d].rpc # id /\ (InFlight(d)' => InFlight(d))
      BY <1>1, <2>5, <2>6 DEF Inv, CallInv, InFlight
    <3>4. \A d \in Callers : caller'[d].rpc = caller[d].rpc
      BY <2>6
    <3>5. \A d \in Callers : caller'[d].rpc < cp'.next
      BY <2>3, <3>4 DEF Inv, CallInv
    <3>6. \A d, f \in Callers : InFlight(d)' /\ d # f => caller'[f].rpc # caller'[d].rpc
      BY <1>1, <3>3, <3>4 DEF Inv, CallInv
    <3>7. \A d \in Callers :
            /\ InFlight(d)' => caller'[d].told = "nothing" /\ caller'[d].rpc \in Rpcs
            /\ caller'[d].pc \in {"reserved", "steering"} => Never(caller[d].rpc)' /\ ~Taken(caller[d].rpc)'
            /\ caller'[d].told = "rejected" => Never(caller[d].rpc)'
            /\ caller'[d].told = "accepted" => Given("prompt", caller[d].rpc)'
      <4>1. TAKE d \in Callers
      <4>2. CASE d = c
        BY <4>2, <1>2, <2>6
      <4>3. CASE d # c
        BY <4>3, <2>6, <3>1, <3>2, <3>3 DEF Inv, CallInv
      <4>4. QED
        BY <4>2, <4>3
    <3>8. QED
      BY <2>5, <3>5, <3>6, <3>7 DEF CallInv
  <2>11. QED
    BY <2>7, <2>8, <2>9, <2>10 DEF Inv
<1>5. QED
  BY <1>3, <1>4

LEMMA CallsStep ==
  ASSUME TypeInv, Inv, Calls
  PROVE  TypeInv' /\ Inv'
<1>1. PICK c \in Callers :
        \/ Reserve(c) \/ Steer(c) \/ ReleaseReservation(c) \/ Dispatch(c) \/ DispatchStale(c)
        \/ Stop(c) \/ CancelIfDue(c) \/ \E k \in Asks : Resolve(c, k)
  BY DEF Calls
<1>2. QED
  BY <1>1, NumberedStep, ReleaseReservationStep, DispatchStep, DispatchStaleStep, StopStep,
     CancelIfDueStep, ResolveStep

-----------------------------------------------------------------------------
(* Every step keeps the invariant: what becomes of a commit.               *)

LEMMA LostFacts ==
  ASSUME NEW why, Lost(why)
  PROVE  phase' = phase \/ (phase # "Absent" /\ phase' = "Unavailable")
BY DEF Lost

LEMMA SettleTypes ==
  ASSUME TypeInv, AfterSettling, commit' = NoCommit, cp' \in Good, CallerType', replayed' \in BOOLEAN,
         phase' = phase \/ (phase # "Absent" /\ phase' = "Unavailable"),
         opener' \in {opener, "waiting", "idle"}, reader' \in {reader, "off", "idle", "acked"}
  PROVE  /\ TypeInv' /\ Seen' \in Nat /\ Seen' <= Seen
         /\ UNCHANGED <<output, stdin, saved, node, fence, wire, sink, orphan, through, slot>>
<1>1. UNCHANGED <<output, stdin, saved, node, fence, wire, sink, orphan, through, slot>>
  BY DEF AfterSettling, childVars, runnerVars, wireVars
<1>2. FrameType' /\ RunnerType' /\ CommitType'
  BY <1>1, SameTypes DEF childVars, runnerVars
<1>3. StateType' /\ ReaderType'
  BY <1>1 DEF TypeInv, StateType, ReaderType
<1>4. Seen' \in Nat /\ Seen' <= Seen
  BY <1>1 DEF TypeInv, ReaderType, FrameType, Seen
<1>5. QED
  BY <1>1, <1>2, <1>3, <1>4 DEF TypeInv

LEMMA SettleOpens ==
  ASSUME TypeInv, Inv, UNCHANGED <<slot, node, wire, orphan, opener>>, commit # NoCommit, commit' = NoCommit,
         phase' = phase \/ (phase # "Absent" /\ phase' = "Unavailable"),
         cp'.loaded = cp.loaded, cp'.setup = cp.setup, cp'.pending \subseteq cp.pending,
         CallersRest => CallersRest'
  PROVE  OpenInv'
BY DEF TypeInv, StateType, Inv, OpenInv

\* A prompt that was not accepted is forgotten.
LEMMA RepliedFacts ==
  ASSUME NEW c \in Good, NEW id \in Rpcs, NEW d, d = Replied(c, id)
  PROVE  /\ d \in Good /\ d.next = c.next /\ Later(c, d) /\ Owes(d) \subseteq Owes(c)
         /\ d.asks = c.asks /\ d.responses = c.responses /\ d.loaded = c.loaded
         /\ d.setup = c.setup /\ d.pending \subseteq c.pending
<1> DEFINE b == [c EXCEPT !.pending = @ \ {id}]
<1>1. b \in Good
  <2>1. c.pending \ {id} \in SUBSET Rpcs /\ ((c.loaded /\ c.setup = 0) \/ c.pending \ {id} = {})
    BY CheckpointFacts
  <2>2. QED
    BY <2>1, CheckpointFacts
<1>2. /\ b.next = c.next /\ b.loaded = c.loaded /\ b.setup = c.setup /\ b.pending = c.pending \ {id}
      /\ b.asks = c.asks /\ b.responses = c.responses
  BY <1>1 DEF Good, Checkpoints
<1>3. d = [b EXCEPT !.input = Finished(b.input, id)] /\ Finished(b.input, id) \in GoodInputs
  BY <1>1, CheckpointFacts, RequestFacts DEF Replied
<1> HIDE DEF b
<1>4. /\ d \in Good /\ d.next = b.next /\ Owes(d) = Owes(b) /\ d.asks = b.asks
      /\ d.responses = b.responses /\ d.loaded = b.loaded /\ d.setup = b.setup /\ d.pending = b.pending
  BY <1>1, <1>3, InputOnly
<1>5. QED
  BY <1>2, <1>4, NextFacts DEF Later, Owes

LEMMA SettlePromptStep ==
  ASSUME TypeInv, Inv, SettlePrompt
  PROVE  TypeInv' /\ Inv'
<1>1. PICK c, id : c = commit.who /\ id = commit.id
  OBVIOUS
<1>2. /\ commit # NoCommit /\ commit.kind = "prompt" /\ commit.status # "sent" /\ commit' = NoCommit
      /\ AfterSettling /\ UNCHANGED <<replayed, reader, opener>>
      /\ commit \in CommitRecords /\ c \in Callers /\ id \in Rpcs
      /\ caller[c].pc = "sending" /\ caller[c].rpc = id /\ ~CallersRest /\ cp \in Good
  BY <1>1 DEF SettlePrompt, Settled, TypeInv, StateType, CommitType, CommitTyped, Inv, OpenInv, CallersRest
<1>3. phase' = phase \/ (phase # "Absent" /\ phase' = "Unavailable")
  BY LostFacts DEF SettlePrompt
<1>4. /\ cp' \in Good /\ cp'.next = cp.next /\ Later(cp, cp') /\ Owes(cp') \subseteq Owes(cp)
      /\ cp'.asks = cp.asks /\ cp'.responses = cp.responses /\ cp'.loaded = cp.loaded
      /\ cp'.setup = cp.setup /\ cp'.pending \subseteq cp.pending
  <2>1. CASE commit.status = "ok"
    <3>1. cp' = [cp EXCEPT !.input = Accepted(cp.input, id)] /\ Accepted(cp.input, id) \in GoodInputs
      BY <1>1, <1>2, <2>1, CheckpointFacts, RequestFacts DEF SettlePrompt
    <3>2. QED
      BY <1>2, <3>1, InputOnly
  <2>2. CASE commit.status = "unknown"
    BY <1>2, <2>2, LaterTransitive DEF SettlePrompt, Unknown
  <2>3. CASE commit.status \notin {"ok", "unknown"}
    <3>1. cp' = Replied(cp, id)
      BY <1>1, <2>3 DEF SettlePrompt, Unknown, Replied
    <3>2. QED
      BY <1>2, <3>1, RepliedFacts
  <2>4. QED
    BY <2>1, <2>2, <2>3
<1>5. PICK pc \in {"cancelling", "idle"}, told \in {"accepted", "unknown", "rejected"} :
        /\ Sets(c, pc, id, told)
        /\ told = "accepted" => commit.status = "ok"
        /\ told = "rejected" => commit.status \notin {"ok", "unknown"}
  BY <1>1 DEF SettlePrompt, Verdict, Unknown
<1> DEFINE x == [pc |-> pc, rpc |-> id, told |-> told]
<1>6. caller' = [caller EXCEPT ![c] = x] /\ CallerType'
  BY <1>2, <1>5, BoundsAssumption DEF Sets, TypeInv, CallerType, Rpcs
<1>7. x.pc = pc /\ x.rpc = id /\ x.told = told
  OBVIOUS
<1> HIDE DEF x
<1>8. /\ TypeInv' /\ Seen' \in Nat /\ Seen' <= Seen
      /\ UNCHANGED <<output, stdin, saved, node, fence, wire, sink, orphan, through, slot>>
  BY <1>2, <1>3, <1>4, <1>6, SettleTypes DEF TypeInv, StateType
<1>9. BookInv'
  BY <1>2, <1>3, <1>4, <1>8, QuietBook DEF Inv, Same
<1>10. OpenInv'
  BY <1>2, <1>3, <1>4, <1>8, SettleOpens
<1>11. CallInv'
  <2>1. told = "accepted" => Given("prompt", id)
    BY <1>1, <1>2, <1>5 DEF Inv, CallInv
  <2>2. told = "rejected" => Never(id)'
    <3>1. told = "rejected" => ~Taken(id) /\ ~Carries(orphan, id)
      BY <1>1, <1>2, <1>5 DEF Inv, BookInv, FreshInv, Undecided, Carries, CommitRecords
    <3>2. QED
      BY <1>2, <1>8, <3>1 DEF Never, Taken, Given, Carries
  <2>3. cp.next <= cp'.next
    BY <1>2, <1>4, NextFacts
  <2>4. QED
    BY <1>2, <1>4, <1>5, <1>6, <1>7, <1>8, <2>1, <2>2, <2>3, CallerMoves DEF Inv
<1>12. QED
  BY <1>8, <1>9, <1>10, <1>11 DEF Inv

LEMMA SettleSetupStep ==
  ASSUME TypeInv, Inv, SettleSetup
  PROVE  TypeInv' /\ Inv'
<1>1. /\ commit # NoCommit /\ commit.kind = "setup" /\ commit.status # "sent" /\ commit' = NoCommit
      /\ AfterSettling /\ UNCHANGED <<replayed, reader, caller>>
      /\ commit \in CommitRecords /\ opener = "sending" /\ slot = "held" /\ cp \in Good
      /\ phase # "Absent" /\ phase # "Ready"
  BY DEF SettleSetup, Settled, TypeInv, StateType, CommitType, CommitTyped, Inv, OpenInv
<1>2. phase' = phase \/ (phase # "Absent" /\ phase' = "Unavailable")
  BY LostFacts DEF SettleSetup
<1>3. cp' = cp \/ (commit.status \notin {"ok", "unknown"} /\ cp' = [cp EXCEPT !.setup = 0])
  BY DEF SettleSetup, Unknown
<1>4. cp' \in Good /\ cp'.loaded = cp.loaded /\ cp.next <= cp'.next
  <2>1. cp' \in Good
    BY <1>1, <1>3, CheckpointFacts
  <2>2. cp'.loaded = cp.loaded /\ cp'.next = cp.next
    BY <1>1, <1>3, <2>1 DEF Good, Checkpoints
  <2>3. QED
    BY <1>1, <2>1, <2>2, NextFacts
<1>5. opener' \in {"waiting", "idle"} /\ CallerType'
  BY <1>1 DEF SettleSetup, TypeInv, CallerType
<1>6. /\ TypeInv' /\ Seen' \in Nat /\ Seen' <= Seen
      /\ UNCHANGED <<output, stdin, saved, node, fence, wire, sink, orphan, through, slot>>
  BY <1>1, <1>2, <1>4, <1>5, SettleTypes DEF TypeInv, StateType
<1>7. BookInv'
  <2>1. CASE cp' = cp
    BY <1>1, <1>2, <1>4, <1>6, <2>1, LaterTransitive, QuietBook DEF Inv, Same
  <2>2. CASE cp' # cp
    BY <1>1, <1>2, <1>3, <1>6, <2>2, RefusedSetupBook DEF Inv, Undecided, CommitRecords
  <2>3. QED
    BY <2>1, <2>2
<1>8. OpenInv'
  BY <1>1, <1>2, <1>4, <1>5, <1>6 DEF Inv, OpenInv, CallersRest
<1>9. CallInv'
  BY <1>1, <1>4, <1>6, CallsStay DEF Inv
<1>10. QED
  BY <1>6, <1>7, <1>8, <1>9 DEF Inv

LEMMA SettleCancelStep ==
  ASSUME TypeInv, Inv, SettleCancel
  PROVE  TypeInv' /\ Inv'
<1>1. PICK who, id : who = commit.who /\ id = commit.id
  OBVIOUS
<1>2. /\ commit # NoCommit /\ commit.kind = "cancel" /\ commit.status # "sent" /\ commit' = NoCommit
      /\ AfterSettling /\ UNCHANGED <<replayed, opener>>
      /\ commit \in CommitRecords /\ who \in Callers \cup {"reader"} /\ cp \in Good
  BY <1>1 DEF SettleCancel, Settled, TypeInv, StateType, CommitType, CommitTyped
<1>3. phase' = phase \/ (phase # "Absent" /\ phase' = "Unavailable")
  BY LostFacts DEF SettleCancel
<1>4. PICK in \in GoodInputs : cp' \in {cp, [cp EXCEPT !.input = in]}
  <2>1. cp.input \in GoodInputs
    BY <1>2, CheckpointFacts
  <2>2. CancelAccepted(cp.input, id) \in GoodInputs /\ CancelRefused(cp.input, id) \in GoodInputs
    BY <2>1, InputFacts
  <2>3. cp' \in {cp, [cp EXCEPT !.input = CancelAccepted(cp.input, id)], [cp EXCEPT !.input = CancelRefused(cp.input, id)]}
    BY <1>1 DEF SettleCancel
  <2>4. QED
    BY <2>1, <2>2, <2>3
<1>5. /\ cp' \in Good /\ cp'.next = cp.next /\ Later(cp, cp') /\ Owes(cp') = Owes(cp)
      /\ cp'.asks = cp.asks /\ cp'.responses = cp.responses /\ cp'.loaded = cp.loaded
      /\ cp'.setup = cp.setup /\ cp'.pending \subseteq cp.pending
  BY <1>2, <1>4, InputOnly, LaterTransitive
<1>6. cp.next <= cp'.next
  BY <1>2, <1>5, NextFacts
<1>7. reader' \in {reader, "off", "idle", "acked"}
  BY DEF SettleCancel
<1>8. CASE who = "reader"
  <2>1. caller' = caller
    BY <1>1, <1>8 DEF SettleCancel
  <2>2. CallerType' /\ (CallersRest => CallersRest')
    BY <2>1 DEF TypeInv, CallerType, CallersRest
  <2>3. /\ TypeInv' /\ Seen' \in Nat /\ Seen' <= Seen
        /\ UNCHANGED <<output, stdin, saved, node, fence, wire, sink, orphan, through, slot>>
    BY <1>2, <1>3, <1>5, <1>7, <2>2, SettleTypes DEF TypeInv, StateType
  <2>4. BookInv'
    BY <1>2, <1>3, <1>5, <2>3, QuietBook DEF Inv, Same
  <2>5. OpenInv'
    BY <1>2, <1>3, <1>5, <2>2, <2>3, SettleOpens
  <2>6. CallInv'
    BY <1>2, <1>5, <1>6, <2>1, <2>3, CallsStay DEF Inv
  <2>7. QED
    BY <2>3, <2>4, <2>5, <2>6 DEF Inv
<1>9. CASE who # "reader"
  <2> DEFINE x == [pc |-> "idle", rpc |-> caller[who].rpc, told |-> caller[who].told]
  <2>0. who \in Callers
    BY <1>2, <1>9
  <2>1. caller' = [caller EXCEPT ![who] = x]
    BY <1>1, <1>9, <2>0, CallerFacts DEF SettleCancel
  <2>2. x.pc = "idle" /\ x.rpc = caller[who].rpc /\ x.told = caller[who].told /\
        x \in [pc : {"idle", "reserved", "steering", "stale", "sending", "cancelling"},
               rpc : 0..MaxRpc, told : {"nothing", "accepted", "rejected", "unknown"}]
    BY <2>0, CallerFacts
  <2> HIDE DEF x
  <2>3. CallerType'
    BY <2>1, <2>2 DEF TypeInv, CallerType
  <2>4. CallersRest => CallersRest'
    BY <2>0, <2>1, <2>2 DEF TypeInv, CallerType, CallersRest
  <2>5. /\ TypeInv' /\ Seen' \in Nat /\ Seen' <= Seen
        /\ UNCHANGED <<output, stdin, saved, node, fence, wire, sink, orphan, through, slot>>
    BY <1>2, <1>3, <1>5, <1>7, <2>3, SettleTypes DEF TypeInv, StateType
  <2>6. BookInv'
    BY <1>2, <1>3, <1>5, <2>5, QuietBook DEF Inv, Same
  <2>7. OpenInv'
    BY <1>2, <1>3, <1>5, <2>4, <2>5, SettleOpens
  <2>8. CallInv'
    <3>1. (x.told = "rejected" => Never(x.rpc)) /\ (x.told = "accepted" => Given("prompt", x.rpc))
      BY <2>0, <2>2 DEF Inv, CallInv
    <3>2. QED
      BY <1>2, <1>5, <1>6, <2>0, <2>1, <2>2, <2>5, <3>1, CallerMoves DEF Inv
  <2>9. QED
    BY <2>5, <2>6, <2>7, <2>8 DEF Inv
<1>10. QED
  BY <1>8, <1>9

LEMMA SettleAnswerStep ==
  ASSUME TypeInv, Inv, SettleAnswer
  PROVE  TypeInv' /\ Inv'
<1>1. PICK who, k : who = commit.who /\ k = commit.id
  OBVIOUS
<1>2. /\ commit # NoCommit /\ commit.kind = "answer" /\ commit.status # "sent" /\ commit' = NoCommit
      /\ AfterSettling /\ UNCHANGED <<replayed, reader, opener>>
      /\ commit \in CommitRecords /\ who \in Callers /\ cp \in Good
  BY <1>1 DEF SettleAnswer, Settled, TypeInv, StateType, CommitType, CommitTyped
<1>3. phase' = phase \/ (phase # "Absent" /\ phase' = "Unavailable")
  BY LostFacts DEF SettleAnswer
<1> DEFINE x == [pc |-> "idle", rpc |-> 0, told |-> "nothing"]
<1>4. caller' = [caller EXCEPT ![who] = x]
  BY <1>1 DEF SettleAnswer, Sets
<1>5. x.pc = "idle" /\ x.rpc = 0 /\ x.told = "nothing" /\
      x \in [pc : {"idle", "reserved", "steering", "stale", "sending", "cancelling"},
             rpc : 0..MaxRpc, told : {"nothing", "accepted", "rejected", "unknown"}]
  BY BoundsAssumption
<1> HIDE DEF x
<1>6. CallerType' /\ (CallersRest => CallersRest')
  BY <1>2, <1>4, <1>5 DEF TypeInv, CallerType, CallersRest
<1>7. /\ cp' \in Good /\ cp'.loaded = cp.loaded /\ cp.next <= cp'.next
      /\ cp'.setup = cp.setup /\ cp'.pending \subseteq cp.pending
      /\ commit.status # "ok" => cp' = cp
      /\ commit.status = "ok" => cp' = [cp EXCEPT !.asks = @ \ {k}] /\ phase' = phase
  <2>1. /\ commit.status # "ok" => cp' = cp
        /\ commit.status = "ok" => cp' = [cp EXCEPT !.asks = @ \ {k}] /\ phase' = phase
    BY <1>1 DEF SettleAnswer, Unknown
  <2>2. cp' \in Good
    <3>1. cp.asks \ {k} \in SUBSET Asks
      BY <1>2, CheckpointFacts
    <3>2. [cp EXCEPT !.asks = @ \ {k}] \in Good
      BY <1>2, <3>1, CheckpointFacts
    <3>3. QED
      BY <1>2, <2>1, <3>2
  <2>3. cp'.next = cp.next /\ cp'.loaded = cp.loaded /\ cp'.setup = cp.setup /\ cp'.pending \subseteq cp.pending
    BY <1>2, <2>1, <2>2 DEF Good, Checkpoints
  <2>4. QED
    BY <1>2, <2>1, <2>2, <2>3, NextFacts
<1>8. /\ TypeInv' /\ Seen' \in Nat /\ Seen' <= Seen
      /\ UNCHANGED <<output, stdin, saved, node, fence, wire, sink, orphan, through, slot>>
  BY <1>2, <1>3, <1>6, <1>7, SettleTypes DEF TypeInv, StateType
<1>9. BookInv'
  <2>1. CASE commit.status = "ok"
    <3>1. Given("answer", k)
      BY <1>1, <1>2, <2>1 DEF Inv, CallInv
    <3>2. QED
      BY <1>2, <1>7, <1>8, <2>1, <3>1, AnsweredBook DEF Inv
  <2>2. CASE commit.status # "ok"
    BY <1>2, <1>3, <1>7, <1>8, <2>2, LaterTransitive, QuietBook DEF Inv, Same
  <2>3. QED
    BY <2>1, <2>2
<1>10. OpenInv'
  BY <1>2, <1>3, <1>6, <1>7, <1>8, SettleOpens
<1>11. CallInv'
  BY <1>2, <1>4, <1>5, <1>7, <1>8, CallerMoves DEF Inv
<1>12. QED
  BY <1>8, <1>9, <1>10, <1>11 DEF Inv

LEMMA SettleAckStep ==
  ASSUME TypeInv, Inv, SettleAck
  PROVE  TypeInv' /\ Inv'
<1>1. /\ commit # NoCommit /\ commit' = NoCommit /\ commit.kind \in {"ack", "fence"}
      /\ AfterSettling /\ UNCHANGED <<cp, opener, caller>> /\ cp' \in Good
      /\ reader' \in {"acked", "off"} /\ replayed' \in BOOLEAN
  BY DEF SettleAck, Settled, TypeInv, StateType
<1>2. phase' = phase \/ (phase # "Absent" /\ phase' = "Unavailable")
  BY LostFacts DEF SettleAck
<1>3. CallerType' /\ (CallersRest => CallersRest') /\ Later(cp, cp') /\ cp.next <= cp'.next
  BY <1>1, LaterTransitive, NextFacts DEF TypeInv, CallerType, CallersRest
<1>4. /\ TypeInv' /\ Seen' \in Nat /\ Seen' <= Seen
      /\ UNCHANGED <<output, stdin, saved, node, fence, wire, sink, orphan, through, slot>>
  BY <1>1, <1>2, <1>3, SettleTypes
<1>5. BookInv'
  BY <1>1, <1>2, <1>3, <1>4, QuietBook DEF Inv, Same
<1>6. OpenInv'
  BY <1>1, <1>2, <1>3, <1>4, SettleOpens
<1>7. CallInv'
  BY <1>1, <1>3, <1>4, CallsStay DEF Inv
<1>8. QED
  BY <1>4, <1>5, <1>6, <1>7 DEF Inv

LEMMA SettleResponseStep ==
  ASSUME TypeInv, Inv, SettleResponse
  PROVE  TypeInv' /\ Inv'
<1>1. PICK k : k = commit.id
  OBVIOUS
<1>2. /\ commit # NoCommit /\ commit.kind = "respond" /\ commit' = NoCommit
      /\ AfterSettling /\ UNCHANGED <<replayed, opener, caller>> /\ reader' \in {"acked", "off"}
      /\ commit \in CommitRecords /\ k \in Asks /\ cp \in Good
  BY <1>1 DEF SettleResponse, Settled, TypeInv, StateType, CommitType, CommitTyped
<1>3. phase' = phase \/ (phase # "Absent" /\ phase' = "Unavailable")
  BY LostFacts DEF SettleResponse
<1>4. CallerType' /\ (CallersRest => CallersRest')
  BY <1>2 DEF TypeInv, CallerType, CallersRest
<1>5. /\ cp' \in Good /\ cp'.loaded = cp.loaded /\ cp.next <= cp'.next
      /\ cp'.setup = cp.setup /\ cp'.pending \subseteq cp.pending
      /\ commit.status # "ok" => cp' = cp
      /\ commit.status = "ok" => cp' = [cp EXCEPT !.responses = @ \ {k}] /\ phase' = phase
  <2>1. /\ commit.status # "ok" => cp' = cp
        /\ commit.status = "ok" => cp' = [cp EXCEPT !.responses = @ \ {k}] /\ phase' = phase
    BY <1>1 DEF SettleResponse
  <2>2. cp' \in Good
    <3>1. cp.responses \ {k} \in SUBSET Asks
      BY <1>2, CheckpointFacts
    <3>2. [cp EXCEPT !.responses = @ \ {k}] \in Good
      BY <1>2, <3>1, CheckpointFacts
    <3>3. QED
      BY <1>2, <2>1, <3>2
  <2>3. cp'.next = cp.next /\ cp'.loaded = cp.loaded /\ cp'.setup = cp.setup /\ cp'.pending \subseteq cp.pending
    BY <1>2, <2>1, <2>2 DEF Good, Checkpoints
  <2>4. QED
    BY <1>2, <2>1, <2>2, <2>3, NextFacts
<1>6. /\ TypeInv' /\ Seen' \in Nat /\ Seen' <= Seen
      /\ UNCHANGED <<output, stdin, saved, node, fence, wire, sink, orphan, through, slot>>
  BY <1>2, <1>3, <1>4, <1>5, SettleTypes DEF TypeInv, StateType
<1>7. BookInv'
  <2>1. CASE commit.status = "ok"
    <3>1. Given("respond", k)
      BY <1>1, <1>2, <2>1 DEF Inv, CallInv
    <3>2. QED
      BY <1>2, <1>5, <1>6, <2>1, <3>1, RespondedBook DEF Inv
  <2>2. CASE commit.status # "ok"
    BY <1>2, <1>3, <1>5, <1>6, <2>2, LaterTransitive, QuietBook DEF Inv, Same
  <2>3. QED
    BY <2>1, <2>2
<1>8. OpenInv'
  BY <1>2, <1>3, <1>4, <1>5, <1>6, SettleOpens
<1>9. CallInv'
  BY <1>2, <1>5, <1>6, CallsStay DEF Inv
<1>10. QED
  BY <1>6, <1>7, <1>8, <1>9 DEF Inv

-----------------------------------------------------------------------------
(* Every step keeps the invariant: the reader.                             *)

\* A step of the reader that sends nothing and counts nothing.
LEMMA ReaderSteps ==
  ASSUME TypeInv, Inv, ReaderFrame, UNCHANGED <<cp, through, commit>>,
         reader # "off", reader' \in {"off", "idle"},
         phase' = phase \/ (phase # "Absent" /\ phase' = "Unavailable")
  PROVE  TypeInv' /\ Inv'
<1>1. UNCHANGED <<output, stdin, saved, node, fence, wire, sink, orphan, replayed, slot, opener, caller>>
  BY DEF ReaderFrame, childVars, runnerVars, wireVars
<1>2. TypeInv'
  <2>1. FrameType' /\ RunnerType' /\ CommitType' /\ CallerType'
    BY <1>1, SameTypes DEF childVars, runnerVars
  <2>2. StateType' /\ ReaderType'
    BY <1>1 DEF TypeInv, StateType, ReaderType
  <2>3. QED
    BY <2>1, <2>2 DEF TypeInv
<1>3. /\ Seen' \in Nat /\ Seen' <= Seen /\ cp \in Good /\ cp' \in Good
  BY DEF TypeInv, ReaderType, StateType, FrameType, Seen
<1>4. Later(cp, cp') /\ cp.next <= cp'.next
  BY <1>3, LaterTransitive, NextFacts
<1>5. BookInv'
  BY <1>1, <1>3, <1>4, QuietBook DEF Inv, Same, Undecided
<1>6. OpenInv'
  BY <1>1 DEF TypeInv, StateType, Inv, OpenInv, CallersRest
<1>7. CallInv'
  BY <1>1, <1>3, <1>4, CallsStay DEF Inv, Same
<1>8. QED
  BY <1>2, <1>5, <1>6, <1>7 DEF Inv

LEMMA ApplyFrameStep ==
  ASSUME TypeInv, Inv, ApplyFrame
  PROVE  TypeInv' /\ Inv'
<1> DEFINE frame == output[through + 1]
<1>1. /\ reader = "idle" /\ wire = "up" /\ Attached /\ UNCHANGED <<through, commit>> /\ ReaderFrame
      /\ through < Len(output)
  BY DEF ApplyFrame, Listening, Limit, TypeInv, RunnerType, ReaderType, FrameType
<1>2. CASE Ending \/ frame.kind = "exit" \/ ~Known(cp, frame)
  <2>1. reader' = "off" /\ cp' = cp
    BY <1>2 DEF ApplyFrame
  <2>2. phase' = phase \/ (phase # "Absent" /\ phase' = "Unavailable")
    BY <1>2, LostFacts DEF ApplyFrame
  <2>3. QED
    BY <1>1, <2>1, <2>2, ReaderSteps
<1>3. CASE ~(Ending \/ frame.kind = "exit" \/ ~Known(cp, frame))
  <2>1. reader' = "applied" /\ cp' = Applied(cp, frame) /\ phase' = phase
    BY <1>3 DEF ApplyFrame
  <2>2. UNCHANGED <<output, stdin, saved, node, fence, wire, sink, orphan, replayed, slot, opener, caller>>
    BY <1>1 DEF ReaderFrame, childVars, runnerVars, wireVars
  <2>3. /\ BookInv' /\ cp' \in Good /\ Later(cp, cp') /\ (cp.loaded => cp'.loaded)
        /\ (cp.setup = 0 => cp'.setup = 0) /\ cp'.pending \subseteq cp.pending
    BY <1>1, <2>1, <2>2, AppliesBook DEF Inv
  <2>4. TypeInv'
    <3>1. FrameType' /\ RunnerType' /\ CommitType' /\ CallerType'
      BY <1>1, <2>2, SameTypes DEF childVars, runnerVars
    <3>2. StateType' /\ ReaderType'
      BY <1>1, <2>1, <2>2, <2>3 DEF TypeInv, StateType, ReaderType
    <3>3. QED
      BY <3>1, <3>2 DEF TypeInv
  <2>5. OpenInv'
    <3>1. /\ phase = "Ready" => cp'.loaded /\ cp'.setup = 0
          /\ opener = "asking" => cp'.pending = {}
      BY <2>3 DEF Inv, OpenInv
    <3>2. QED
      BY <1>1, <2>1, <2>2, <3>1 DEF Inv, OpenInv, CallersRest
  <2>6. CallInv'
    <3>1. cp.next <= cp'.next
      BY <2>3 DEF Later
    <3>2. QED
      BY <1>1, <2>2, <2>3, <3>1, CallsStay DEF Inv, Same
  <2>7. QED
    BY <2>3, <2>4, <2>5, <2>6 DEF Inv
<1>4. QED
  BY <1>2, <1>3

LEMMA CountFrameStep ==
  ASSUME TypeInv, Inv, CountFrame
  PROVE  TypeInv' /\ Inv'
<1>1. /\ reader = "applied" /\ reader' = "counted" /\ through' = through + 1
      /\ UNCHANGED <<output, stdin, saved, node, fence, wire, sink, orphan, replayed, slot, opener,
                     caller, cp, phase, commit>>
  BY DEF CountFrame, ReaderFrame, childVars, runnerVars, wireVars
<1>2. TypeInv'
  <2>1. FrameType' /\ RunnerType' /\ CommitType' /\ CallerType' /\ StateType'
    BY <1>1, SameTypes DEF childVars, runnerVars
  <2>2. ReaderType'
    BY <1>1 DEF TypeInv, ReaderType, FrameType
  <2>3. QED
    BY <2>1, <2>2 DEF TypeInv
<1>3. /\ Seen' = Seen /\ Seen \in Nat /\ cp' \in Good /\ cp \in Good
  BY <1>1 DEF TypeInv, ReaderType, StateType, FrameType, Seen
<1>4. Later(cp, cp') /\ cp.next <= cp'.next
  BY <1>1, <1>3, LaterTransitive, NextFacts
<1>5. BookInv'
  BY <1>1, <1>3, <1>4, QuietBook DEF Inv, Same, Undecided
<1>6. OpenInv'
  BY <1>1 DEF Inv, OpenInv, CallersRest
<1>7. CallInv'
  BY <1>1, <1>3, <1>4, CallsStay DEF Inv, Same
<1>8. QED
  BY <1>2, <1>5, <1>6, <1>7 DEF Inv

\* The reader hands over what it counted, or a cancel.
LEMMA ReaderSends ==
  ASSUME TypeInv, Inv, ReaderFrame, UNCHANGED <<cp, phase, through>>,
         reader \notin {"off", "applied"}, reader' \in {"acking", "flushing", "cancelling"},
         NEW kind \in {"ack", "fence", "cancel", "respond"}, NEW id \in Marks, kind = "respond" => id \in Asks,
         NEW d \in Good, Sends("reader", kind, id, d), Later(cp, d), Later(d, cp), Owes(d) = Owes(cp),
         d.asks = cp.asks, d.setup = cp.setup,
         \A k \in cp.responses : k \in d.responses \/ (kind = "respond" /\ id = k)
  PROVE  TypeInv' /\ Inv'
<1>1. UNCHANGED <<output, stdin, saved, node, fence, wire, sink, orphan, replayed, slot, opener, caller>>
  BY DEF ReaderFrame, childVars, runnerVars, wireVars
<1>2. /\ commit = NoCommit /\ commit' \in CommitRecords /\ CommitTyped(commit') /\ commit'.kind = kind
      /\ commit'.id = id /\ commit'.through = through /\ commit'.cp = d /\ commit'.status # "ok"
      /\ commit'.status = "sent" => wire = "up"
  BY SendsFacts
<1>3. TypeInv'
  <2>1. FrameType' /\ RunnerType' /\ CallerType' /\ StateType'
    BY <1>1, SameTypes DEF childVars, runnerVars
  <2>2. ReaderType' /\ CommitType'
    BY <1>1, <1>2 DEF TypeInv, ReaderType, CommitType, CommitTyped
  <2>3. QED
    BY <2>1, <2>2 DEF TypeInv
<1>4. Seen' = Seen /\ cp' \in Good /\ cp.next <= cp'.next
  BY NextFacts DEF TypeInv, StateType, Seen
<1>5. BookInv'
  BY <1>1, <1>2, <1>4, OtherSentBook DEF Responds
<1>6. OpenInv'
  BY <1>1, <1>2 DEF Inv, OpenInv, CallersRest
<1>7. CallInv'
  BY <1>1, <1>2, <1>4, CallsStay DEF Inv
<1>8. QED
  BY <1>3, <1>5, <1>6, <1>7 DEF Inv

LEMMA ReadStep ==
  ASSUME TypeInv, Inv, Read
  PROVE  TypeInv' /\ Inv'
<1>1. cp \in Good /\ Later(cp, cp) /\ 0 \in Marks
  BY LaterTransitive, BoundsAssumption DEF TypeInv, StateType, Marks
<1>2. CASE ApplyFrame
  BY <1>2, ApplyFrameStep
<1>3. CASE CountFrame
  BY <1>3, CountFrameStep
<1>4. CASE Acknowledge
  <2>1. /\ reader = "counted" /\ reader' = "acking" /\ Sends("reader", "ack", 0, cp)
        /\ ReaderFrame /\ UNCHANGED <<cp, phase, through>>
    BY <1>4 DEF Acknowledge
  <2>2. QED
    BY <1>1, <2>1, ReaderSends
<1>5. CASE FinishReplay
  <2>1. /\ reader = "idle" /\ reader' = "acking" /\ Sends("reader", "fence", 0, cp)
        /\ ReaderFrame /\ UNCHANGED <<cp, phase, through>>
    BY <1>5 DEF FinishReplay, Listening
  <2>2. QED
    BY <1>1, <2>1, ReaderSends
<1>6. CASE ReaderCancelsIfDue
  <2>1. CASE CancelDue(cp.input)
    <3> DEFINE d == EncodedCancel(cp)
    <3>1. /\ reader = "acked" /\ reader' = "cancelling" /\ Sends("reader", "cancel", cp.input.anchor, d)
          /\ ReaderFrame /\ UNCHANGED <<cp, phase, through>>
      BY <1>6, <2>1 DEF ReaderCancelsIfDue
    <3>2. /\ d \in Good /\ Later(cp, d) /\ Later(d, cp) /\ Owes(d) = Owes(cp)
          /\ d.asks = cp.asks /\ d.responses = cp.responses /\ d.setup = cp.setup
          /\ cp.input.anchor \in Marks
      BY CancelFacts
    <3> HIDE DEF d
    <3>3. QED
      BY <3>1, <3>2, ReaderSends
  <2>2. CASE ~CancelDue(cp.input)
    <3>1. /\ reader = "acked" /\ reader' = "idle" /\ ReaderFrame /\ UNCHANGED <<cp, phase, through, commit>>
      BY <1>6, <2>2 DEF ReaderCancelsIfDue
    <3>2. QED
      BY <3>1, ReaderSteps
  <2>3. QED
    BY <2>1, <2>2
<1>7. CASE ReaderEnds
  <2>1. reader = "idle" /\ reader' = "off" /\ ReaderFrame /\ UNCHANGED <<cp, through, commit>>
    BY <1>7 DEF ReaderEnds
  <2>2. phase' = phase \/ (phase # "Absent" /\ phase' = "Unavailable")
    BY <1>7, LostFacts DEF ReaderEnds
  <2>3. QED
    BY <2>1, <2>2, ReaderSteps
<1>8. CASE FlushResponse
  <2>1. PICK k \in cp.responses :
          /\ reader = "acked" /\ reader' = "flushing" /\ ReaderFrame /\ UNCHANGED <<cp, phase, through>>
          /\ Sends("reader", "respond", k, [cp EXCEPT !.responses = @ \ {k}])
    BY <1>8 DEF FlushResponse
  <2> DEFINE d == [cp EXCEPT !.responses = @ \ {k}]
  <2>2. k \in Asks /\ k \in Marks /\ d \in Good
    BY <1>1, CheckpointFacts DEF Marks
  <2>3. /\ d.next = cp.next /\ d.setup = cp.setup /\ d.pending = cp.pending /\ d.asks = cp.asks
        /\ d.responses = cp.responses \ {k}
    BY <1>1, <2>2 DEF Good, Checkpoints
  <2>4. Sends("reader", "respond", k, d)
    BY <2>1
  <2> HIDE DEF d
  <2>5. Later(cp, d) /\ Later(d, cp) /\ Owes(d) = Owes(cp)
    BY <1>1, <2>3 DEF Later, Owes
  <2>6. QED
    BY <2>1, <2>2, <2>3, <2>4, <2>5, ReaderSends
<1>9. QED
  BY <1>2, <1>3, <1>4, <1>5, <1>6, <1>7, <1>8 DEF Read

-----------------------------------------------------------------------------
(* Every step keeps the invariant: opening and closing.                    *)

\* A session is dropped.  What the runner holds stays.
LEMMA ForgetsStep ==
  ASSUME TypeInv, Inv, Forget, UNCHANGED <<output, stdin, saved, fence>>, commit' = NoCommit,
         orphan' \in {orphan, NoCommit}, CallersRest', CallerType',
         node' \in {"none", "Detached", "Replaying", "Live"}, wire' \in {"up", "down"}, sink' \in BOOLEAN,
         slot' \in {"empty", "held"}, opener' = "idle"
  PROVE  TypeInv' /\ BookInv' /\ CallInv'
<1>1. phase' = "Absent" /\ cp' = Fresh /\ through' = 0 /\ replayed' = FALSE /\ reader' = "off"
  BY DEF Forget
<1>2. cp' \in Good /\ Owes(cp') = {}
  BY <1>1, FreshGood DEF Owes, Fresh
<1>3. TypeInv'
  <2>1. FrameType' /\ CommitType'
    BY SameTypes DEF childVars
  <2>2. RunnerType' /\ StateType'
    BY <1>1, <1>2 DEF TypeInv, RunnerType, StateType
  <2>3. ReaderType'
    BY <1>1 DEF TypeInv, ReaderType, FrameType
  <2>4. QED
    BY <2>1, <2>2, <2>3 DEF TypeInv
<1>4. Seen' = 0 /\ Seen \in Nat
  BY <1>1 DEF Seen, TypeInv, ReaderType, FrameType
<1>5. BookInv'
  BY <1>1, <1>2, <1>4, QuietBook DEF Inv, Same
<1>6. CallInv'
  BY <1>2, CallersAtRest
<1>7. QED
  BY <1>3, <1>5, <1>6

LEMMA RetireStep ==
  ASSUME TypeInv, Inv, Retire
  PROVE  TypeInv' /\ Inv'
<1>1. /\ Forget /\ UNCHANGED <<output, stdin, saved, fence, node, wire, orphan>> /\ commit = NoCommit
      /\ commit' = NoCommit /\ slot' = "empty" /\ opener' = "idle" /\ sink' = FALSE
      /\ phase' = "Absent" /\ reader' = "off"
  BY DEF Retire, OutboundFree, Forget, childVars, runnerVars
<1>2. CallersRest' /\ CallerType'
  BY BoundsAssumption DEF Retire, Abandoned, Quiet, CallersRest, CallerType
<1>3. TypeInv' /\ BookInv' /\ CallInv'
  BY <1>1, <1>2, ForgetsStep DEF TypeInv, StateType, RunnerType
<1>4. OpenInv'
  BY <1>1, <1>2 DEF Inv, OpenInv
<1>5. QED
  BY <1>3, <1>4 DEF Inv

LEMMA AttachFailsStep ==
  ASSUME TypeInv, Inv, AttachFails
  PROVE  TypeInv' /\ Inv'
<1>1. /\ Forget /\ UNCHANGED <<output, stdin, saved, fence, wire, slot, caller>> /\ commit = NoCommit
      /\ commit' = NoCommit /\ slot = "empty" /\ opener' = "idle"
      /\ phase' = "Absent" /\ reader' = "off"
      /\ \/ node' = node /\ sink' = sink /\ orphan' = orphan
         \/ node' = "none" /\ sink' = FALSE /\ orphan' = NoCommit
  BY DEF AttachFails, NoChild, OutboundFree, Forget, childVars, Inv, OpenInv
<1>2. CallersRest' /\ CallerType'
  BY <1>1 DEF Inv, OpenInv, CallersRest, TypeInv, CallerType
<1>3. TypeInv' /\ BookInv' /\ CallInv'
  BY <1>1, <1>2, ForgetsStep DEF TypeInv, StateType, RunnerType
<1>4. OpenInv'
  BY <1>1, <1>2 DEF Inv, OpenInv
<1>5. QED
  BY <1>3, <1>4 DEF Inv

LEMMA BackendRestartsStep ==
  ASSUME TypeInv, Inv, BackendRestarts
  PROVE  TypeInv' /\ Inv'
<1>1. /\ Forget /\ UNCHANGED <<output, stdin, saved, fence>> /\ commit' = NoCommit /\ orphan' = NoCommit
      /\ slot' = "empty" /\ opener' = "idle" /\ wire' = "down" /\ sink' = FALSE
      /\ phase' = "Absent" /\ reader' = "off" /\ node' \in {"none", "Detached"}
  BY DEF BackendRestarts, Forget, childVars, Detaches, Attached, TypeInv, RunnerType
<1>2. CallersRest' /\ CallerType'
  BY BoundsAssumption DEF BackendRestarts, Quiet, CallersRest, CallerType
<1>3. TypeInv' /\ BookInv' /\ CallInv'
  BY <1>1, <1>2, ForgetsStep
<1>4. OpenInv'
  BY <1>1, <1>2 DEF OpenInv
<1>5. QED
  BY <1>3, <1>4 DEF Inv

LEMMA AttachStep ==
  ASSUME TypeInv, Inv, Attach
  PROVE  TypeInv' /\ Inv'
<1>1. /\ slot = "empty" /\ opener = "idle" /\ wire' = "up" /\ sink' = TRUE /\ opener' = "replaying"
      /\ node' = "Replaying" /\ replayed' = FALSE /\ reader' = "idle"
      /\ phase' \in {"Starting", "Restoring"} /\ UNCHANGED <<orphan, commit, slot, caller>>
  BY DEF Attach
<1>2. BookInv' /\ cp' \in Good
  BY AttachBook DEF Inv
<1>3. commit' = NoCommit /\ orphan' = NoCommit
  BY <1>1 DEF Attach, Inv, OpenInv, TypeInv, StateType, RunnerType, AlreadyAttached, Attached
<1>4. CallersRest' /\ CallerType'
  BY <1>1 DEF Inv, OpenInv, CallersRest, TypeInv, CallerType
<1>5. TypeInv'
  <2>1. CommitType' /\ StateType'
    BY <1>1, <1>2, <1>3 DEF CommitType, CommitTyped, TypeInv, StateType
  <2>2. CASE node = "none"
    <3>1. /\ output' = <<>> /\ stdin' = <<>> /\ saved' = NothingSaved /\ fence' = 0 /\ through' = 0
      BY <2>2 DEF Attach
    <3>2. FrameType' /\ ReaderType'
      BY <1>1, <3>1, BoundsAssumption DEF FrameType, ReaderType
    <3>3. RunnerType'
      BY <1>1, <3>1, FreshGood DEF RunnerType, NothingSaved
    <3>4. QED
      BY <1>4, <2>1, <3>2, <3>3 DEF TypeInv
  <2>3. CASE node # "none"
    <3>1. UNCHANGED <<output, stdin, saved>> /\ fence' = Len(output) /\ through' = saved.through
      BY <2>3 DEF Attach, childVars
    <3>2. FrameType'
      BY <3>1, SameTypes DEF childVars
    <3>3. RunnerType' /\ ReaderType'
      BY <1>1, <3>1 DEF TypeInv, RunnerType, ReaderType, FrameType
    <3>4. QED
      BY <1>4, <2>1, <3>2, <3>3 DEF TypeInv
  <2>4. QED
    BY <2>2, <2>3
<1>6. OpenInv'
  BY <1>1, <1>3, <1>4 DEF OpenInv
<1>7. CallInv'
  BY <1>2, <1>3, <1>4, CallersAtRest
<1>8. QED
  BY <1>2, <1>5, <1>6, <1>7 DEF Inv

\* A step under the slot's lock that moves the opener and the phase only.
LEMMA OpenerMoves ==
  ASSUME TypeInv, Inv, UNCHANGED <<output, stdin, saved, fence, node, wire, sink, orphan, commit, cp, through,
                                   replayed, reader, caller>>,
         slot' = "held", opener' \in {"idle", "preparing", "asking", "waiting", "closing"}, phase # "Absent",
         phase' \in {"Starting", "Restoring", "Ready", "Closing", "Unavailable"}
  PROVE  TypeInv' /\ BookInv' /\ CallInv'
<1>1. TypeInv'
  <2>1. FrameType' /\ RunnerType' /\ CommitType' /\ ReaderType' /\ CallerType'
    BY SameTypes DEF childVars, runnerVars
  <2>2. StateType'
    BY DEF TypeInv, StateType
  <2>3. QED
    BY <2>1, <2>2 DEF TypeInv
<1>2. /\ cp \in Good /\ cp' \in Good /\ Seen' = Seen /\ Seen \in Nat
  BY DEF TypeInv, StateType, ReaderType, FrameType, Seen
<1>3. Later(cp, cp') /\ cp.next <= cp'.next
  BY <1>2, LaterTransitive, NextFacts
<1>4. BookInv'
  BY <1>2, <1>3, QuietBook DEF Inv, Same, Undecided
<1>5. CallInv'
  BY <1>2, <1>3, CallsStay DEF Inv, Same
<1>6. QED
  BY <1>1, <1>4, <1>5

LEMMA OpenerStep ==
  ASSUME TypeInv, Inv,
         \/ Opened \/ FindUnloaded \/ JoinSetup \/ Prepared \/ PrepareFails \/ PrepareTimesOut
         \/ Close \/ CloseUnanswered
  PROVE  TypeInv' /\ Inv'
<1>1. /\ UNCHANGED <<output, stdin, saved, fence, node, wire, sink, orphan, commit, cp, through,
                     replayed, reader, caller>>
      /\ slot' = "held" /\ phase # "Absent"
  BY DEF Opened, FindUnloaded, JoinSetup, Prepared, PrepareFails, PrepareTimesOut, OpenerOnly, Close,
         CloseUnanswered, childVars, runnerVars, wireVars, stateVars, Inv, OpenInv
<1>2. /\ opener' \in {"idle", "preparing", "asking", "waiting", "closing"}
      /\ phase' \in {phase, "Ready", "Closing", "Unavailable"}
  BY LostFacts DEF Opened, FindUnloaded, JoinSetup, Prepared, PrepareFails, PrepareTimesOut, Close,
         CloseUnanswered, stateVars
<1>3. phase' \in {"Starting", "Restoring", "Ready", "Closing", "Unavailable"}
  BY <1>1, <1>2 DEF TypeInv, StateType
<1>4. TypeInv' /\ BookInv' /\ CallInv'
  BY <1>1, <1>2, <1>3, OpenerMoves
<1>5. OpenInv'
  <2>1. CASE Opened
    <3>1. opener = "replaying" /\ opener' = "preparing" /\ phase' = phase
      BY <2>1 DEF Opened, stateVars
    <3>2. QED
      BY <1>1, <3>1 DEF Inv, OpenInv, CallersRest
  <2>2. CASE Prepared
    <3>1. /\ opener \in {"preparing", "waiting"} /\ opener' = "idle" /\ cp.loaded /\ cp.setup = 0 /\ slot = "held"
          /\ phase' = IF phase \in {"Starting", "Restoring"} THEN "Ready" ELSE phase
      BY <2>2 DEF Prepared, Inv, OpenInv
    <3>2. QED
      BY <1>1, <1>3, <3>1 DEF Inv, OpenInv, CallersRest
  <2>3. CASE PrepareFails
    <3>1. opener \in {"preparing", "waiting"} /\ opener' = "idle" /\ phase' = phase /\ slot = "held"
      BY <2>3 DEF PrepareFails, Inv, OpenInv
    <3>2. QED
      BY <1>1, <3>1 DEF Inv, OpenInv, CallersRest
  <2>4. CASE Close
    <3>1. opener = "idle" /\ opener' = "closing" /\ phase' = "Closing" /\ slot = "held"
      BY <2>4 DEF Close
    <3>2. QED
      BY <1>1, <3>1 DEF Inv, OpenInv, CallersRest
  <2>5. CASE CloseUnanswered \/ PrepareTimesOut
    <3>1. opener \in {"closing", "waiting"} /\ opener' = "idle" /\ phase' = "Unavailable" /\ slot = "held"
      BY <1>1, <2>5 DEF CloseUnanswered, PrepareTimesOut, Lost, Inv, OpenInv
    <3>2. QED
      BY <1>1, <3>1 DEF Inv, OpenInv, CallersRest
  <2>6. CASE FindUnloaded
    <3>1. opener = "preparing" /\ opener' = "asking" /\ phase' = phase /\ cp.pending = {}
      BY <2>6 DEF FindUnloaded, TypeInv, StateType, Good
    <3>2. QED
      BY <1>1, <3>1 DEF Inv, OpenInv, CallersRest
  <2>7. CASE JoinSetup
    <3>1. opener = "asking" /\ opener' = "waiting" /\ phase' = phase
      BY <2>7 DEF JoinSetup
    <3>2. QED
      BY <1>1, <3>1 DEF Inv, OpenInv, CallersRest
  <2>8. QED
    BY <2>1, <2>2, <2>3, <2>4, <2>5, <2>6, <2>7
<1>6. QED
  BY <1>4, <1>5 DEF Inv

\* The one session/new or session/load: the checkpoint waits for its reply.
LEMMA SetupFacts ==
  ASSUME NEW c \in Good, c.pending = {}, c.setup = 0, c.next \in Rpcs, NEW d, d = WithSetup(c)
  PROVE  /\ d \in Good /\ d.next = c.next + 1 /\ d.asks = c.asks /\ d.responses = c.responses
         /\ d.loaded = c.loaded /\ d.pending = {} /\ d.setup = c.next
         /\ Owes(d) = Owes(c) \cup {c.next} /\ Later(c, d) /\ Later(d, d)
<1>1. d \in Good
  BY CheckpointFacts
<1> DEFINE b == [c EXCEPT !.next = @ + 1]
<1>2. /\ b \in Checkpoints /\ b.next = c.next + 1 /\ b.asks = c.asks /\ b.responses = c.responses
      /\ b.loaded = c.loaded /\ b.pending = c.pending
  BY BoundsAssumption DEF Good, Checkpoints, Rpcs
<1>3. d = [b EXCEPT !.setup = c.next]
  BY DEF WithSetup
<1> HIDE DEF b
<1>4. /\ d.next = c.next + 1 /\ d.asks = c.asks /\ d.responses = c.responses /\ d.loaded = c.loaded
      /\ d.setup = c.next /\ d.pending = c.pending
  BY <1>2, <1>3 DEF Checkpoints
<1>5. c.next # 0 /\ c.next \in Nat
  BY CheckpointFacts
<1>6. Owes(d) = Owes(c) \cup {c.next}
  BY <1>4, <1>5 DEF Owes
<1>7. QED
  BY <1>1, <1>4, <1>5, <1>6 DEF Later

LEMMA PrepareStep ==
  ASSUME TypeInv, Inv, Prepare
  PROVE  TypeInv' /\ Inv'
<1>0. CASE phase \in {"Closing", "Absent", "Unavailable"}
  <2>1. /\ UNCHANGED <<output, stdin, saved, fence, node, wire, sink, orphan, commit, cp, phase, through,
                       replayed, reader, slot, caller>>
        /\ opener = "asking" /\ opener' = "idle" /\ slot = "held" /\ slot' = "held" /\ phase # "Absent"
    BY <1>0 DEF Prepare, childVars, runnerVars, wireVars, Inv, OpenInv
  <2>2. phase' \in {"Starting", "Restoring", "Ready", "Closing", "Unavailable"}
    BY <1>0, <2>1
  <2>3. TypeInv' /\ BookInv' /\ CallInv'
    BY <2>1, <2>2, OpenerMoves
  <2>4. OpenInv'
    BY <1>0, <2>1 DEF Inv, OpenInv, CallersRest
  <2>5. QED
    BY <2>3, <2>4 DEF Inv
<1> SUFFICES ASSUME phase \notin {"Closing", "Absent", "Unavailable"}
             PROVE  TypeInv' /\ Inv'
  BY <1>0
<1>1. /\ UNCHANGED <<output, stdin, saved, fence, node, wire, sink, orphan, phase, through,
                     replayed, reader, slot, caller>>
      /\ opener = "asking" /\ opener' = "sending" /\ cp.setup = 0 /\ cp.pending = {} /\ cp.next \in Rpcs
      /\ Sends("opener", "setup", cp.next, WithSetup(cp)) /\ cp' = WithSetup(cp)
      /\ cp \in Good /\ phase # "Absent" /\ CallersRest
  BY DEF Prepare, childVars, runnerVars, wireVars, TypeInv, StateType, Inv, OpenInv
<1>2. /\ cp' \in Good /\ cp'.next = cp.next + 1 /\ cp'.asks = cp.asks /\ cp'.responses = cp.responses
      /\ cp'.loaded = cp.loaded /\ cp'.pending = {} /\ cp'.setup = cp.next
      /\ Owes(cp') = Owes(cp) \cup {cp.next} /\ Later(cp, cp') /\ Later(cp', cp')
  BY <1>1, SetupFacts
<1>3. cp.next \in Marks /\ Never(cp.next) /\ ~Taken(cp.next)
  BY <1>1, NextIsNew DEF Marks, Rpcs
<1>4. /\ commit = NoCommit /\ commit' \in CommitRecords /\ CommitTyped(commit') /\ commit'.kind = "setup"
      /\ commit'.id = cp.next /\ commit'.through = through /\ commit'.cp = cp'
      /\ commit'.status = "sent" => wire = "up"
  BY <1>1, <1>2, <1>3, SendsFacts
<1>5. TypeInv'
  <2>1. FrameType' /\ RunnerType' /\ ReaderType' /\ CallerType'
    BY <1>1, SameTypes DEF childVars, runnerVars
  <2>2. CommitType' /\ StateType'
    BY <1>1, <1>2, <1>4 DEF TypeInv, CommitType, CommitTyped, StateType
  <2>3. QED
    BY <2>1, <2>2 DEF TypeInv
<1>6. BookInv'
  <2>1. Seen' = Seen /\ cp.next \in Nat
    BY <1>1, NextFacts DEF Seen
  <2>2. \A i \in Rpcs : Carries(commit', i) => i < commit'.cp.next /\ ~Taken(i) /\ ~Carries(orphan, i)
    BY <1>2, <1>3, <1>4, <2>1 DEF Carries, Never
  <2>3. QED
    BY <1>1, <1>2, <1>3, <1>4, <2>1, <2>2, SendBook DEF Inv
<1>7. OpenInv'
  BY <1>1, <1>2, <1>4 DEF Inv, OpenInv, CallersRest
<1>8. CallInv'
  <2>1. CallersRest'
    BY <1>1 DEF CallersRest
  <2>2. QED
    BY <1>2, <1>4, <2>1, CallersAtRest
<1>9. QED
  BY <1>5, <1>6, <1>7, <1>8 DEF Inv

\* A close leaves nothing to wait for.
LEMMA ExpiredFacts ==
  ASSUME NEW c \in Good, NEW d, d = Expired(c)
  PROVE  d \in Good /\ d.next = c.next /\ d.loaded = c.loaded /\ Owes(d) = {}
<1>1. /\ d.next = c.next /\ d.loaded = c.loaded /\ d.setup = 0 /\ d.pending = {} /\ d.asks = {}
      /\ d.input = IdleInput
      /\ d = [next |-> c.next, loaded |-> c.loaded, setup |-> 0, pending |-> {}, asks |-> {},
              responses |-> c.responses, input |-> IdleInput]
  BY DEF Expired, Good, Checkpoints
<1>2. IdleInput \in GoodInputs /\ IdleInput \in Inputs
  BY InputFacts, CheckpointFacts DEF GoodInputs
<1>3. d \in Checkpoints
  BY <1>1, <1>2, BoundsAssumption DEF Good, Checkpoints
<1>4. d \in Good
  BY <1>1, <1>2, <1>3 DEF Good
<1>5. QED
  BY <1>1, <1>4 DEF Owes

LEMMA ClosedStep ==
  ASSUME TypeInv, Inv, Closed
  PROVE  TypeInv' /\ Inv'
<1>1. /\ UNCHANGED <<output, stdin, saved, fence, wire, through, replayed, reader, slot, commit, caller>>
      /\ opener = "closing" /\ opener' = "retiring" /\ node' = "none" /\ sink' = FALSE
      /\ orphan' = NoCommit /\ phase' = "Absent" /\ cp' = Expired(cp) /\ slot = "held" /\ cp \in Good
  BY DEF Closed, NoChild, childVars, TypeInv, StateType, Inv, OpenInv
<1>2. cp' \in Good /\ cp'.next = cp.next /\ cp'.loaded = cp.loaded /\ Owes(cp') = {} /\ cp.next <= cp'.next
  BY <1>1, ExpiredFacts, NextFacts
<1>3. TypeInv'
  <2>1. FrameType' /\ ReaderType' /\ CallerType' /\ CommitType'
    BY <1>1, SameTypes DEF childVars
  <2>2. StateType' /\ RunnerType'
    BY <1>1, <1>2 DEF TypeInv, StateType, RunnerType
  <2>3. QED
    BY <2>1, <2>2 DEF TypeInv
<1>4. BookInv'
  <2>1. Seen' = Seen /\ Seen \in Nat
    BY <1>1 DEF TypeInv, ReaderType, FrameType, Seen
  <2>2. QED
    BY <1>1, <1>2, <2>1, QuietBook DEF Inv, Same, Undecided
<1>5. OpenInv'
  BY <1>1, <1>2 DEF Inv, OpenInv
<1>6. CallInv'
  BY <1>1, <1>2, CallsStay DEF Inv, Same
<1>7. QED
  BY <1>3, <1>4, <1>5, <1>6 DEF Inv

LEMMA OpenStep ==
  ASSUME TypeInv, Inv, Open
  PROVE  TypeInv' /\ Inv'
BY RetireStep, AttachStep, AttachFailsStep, OpenerStep, PrepareStep, ClosedStep DEF Open

-----------------------------------------------------------------------------
(* Every step keeps the invariant: faults.                                 *)

\* A commit whose outcome nobody will learn.
LEMMA UnknownFacts ==
  ASSUME TypeInv, commit # NoCommit, commit' = [commit EXCEPT !.status = "unknown"]
  PROVE  /\ commit' \in CommitRecords /\ commit' # NoCommit /\ commit'.status = "unknown" /\ Same(commit, commit')
         /\ CommitTyped(commit')
<1>1. commit \in CommitRecords /\ CommitTyped(commit)
  BY DEF TypeInv, CommitType, CommitTyped
<1>2. commit' \in CommitRecords /\ commit'.status = "unknown"
  BY <1>1 DEF CommitRecords
<1>3. Same(commit, commit') /\ commit' # NoCommit
  BY <1>1, <1>2, NoCommitApart DEF CommitRecords, Same
<1>4. QED
  BY <1>1, <1>2, <1>3 DEF CommitTyped, Same

LEMMA WireDiesStep ==
  ASSUME TypeInv, Inv, WireDies
  PROVE  TypeInv' /\ Inv'
<1>1. /\ UNCHANGED <<output, stdin, saved, fence, phase, cp, through, replayed, reader, slot, opener, caller>>
      /\ wire = "up" /\ wire' = "down" /\ sink' = FALSE /\ orphan' = NoCommit
      /\ node' = IF Attached THEN "Detached" ELSE node
      /\ cp \in Good
  BY DEF WireDies, Detaches, childVars, stateVars, TypeInv, StateType
<1>2. /\ CommitTyped(commit') /\ Same(commit, commit') /\ (commit' # NoCommit <=> commit # NoCommit)
      /\ commit' # NoCommit => commit'.status # "sent" /\ commit'.status \in {commit.status, "unknown"}
  <2>1. CASE commit' = commit /\ (commit = NoCommit \/ commit.status # "sent")
    BY <2>1 DEF Same, TypeInv, CommitType, CommitTyped
  <2>2. CASE commit # NoCommit /\ commit' = [commit EXCEPT !.status = "unknown"]
    BY <2>2, UnknownFacts
  <2>3. QED
    BY <2>1, <2>2 DEF WireDies, OutboundFree
<1>3. TypeInv'
  <2>1. FrameType' /\ ReaderType' /\ CallerType'
    BY <1>1, SameTypes DEF childVars
  <2>2. StateType' /\ RunnerType' /\ CommitType'
    BY <1>1, <1>2 DEF TypeInv, StateType, RunnerType, CommitType, CommitTyped
  <2>3. QED
    BY <2>1, <2>2 DEF TypeInv
<1>4. /\ Seen' = Seen /\ Seen \in Nat /\ cp' \in Good /\ Later(cp, cp') /\ cp.next <= cp'.next
  BY <1>1, LaterTransitive, NextFacts DEF TypeInv, ReaderType, FrameType, Seen
<1>5. BookInv'
  <2>1. commit' # NoCommit /\ Undecided' => Undecided
    BY <1>2 DEF Undecided
  <2>2. QED
    BY <1>1, <1>2, <1>4, <2>1, QuietBook DEF Inv
<1>6. OpenInv'
  BY <1>1, <1>2 DEF Inv, OpenInv, CallersRest, Attached, Same, TypeInv, RunnerType
<1>7. CallInv'
  <2>1. commit' = NoCommit \/ (Same(commit, commit') /\ (commit'.status = "ok" => commit.status = "ok"))
    BY <1>2
  <2>2. QED
    BY <1>1, <1>4, <2>1, CallsStay DEF Inv
<1>8. QED
  BY <1>3, <1>5, <1>6, <1>7 DEF Inv

LEMMA CommitTimesOutStep ==
  ASSUME TypeInv, Inv, CommitTimesOut
  PROVE  TypeInv' /\ Inv'
<1>1. /\ UNCHANGED <<output, stdin, saved, fence, node, wire, sink, phase, cp, through, replayed, reader,
                     slot, opener, caller>>
      /\ commit # NoCommit /\ commit.status = "sent" /\ orphan = NoCommit
      /\ orphan' = (IF node = "none" THEN NoCommit ELSE commit)
      /\ commit' = [commit EXCEPT !.status = "unknown"] /\ cp \in Good /\ CommitTyped(commit)
  BY DEF CommitTimesOut, childVars, runnerVars, stateVars, TypeInv, StateType, CommitType
<1>2. /\ commit' \in CommitRecords /\ commit' # NoCommit /\ commit'.status = "unknown" /\ Same(commit, commit')
      /\ CommitTyped(commit')
  BY <1>1, UnknownFacts
<1>3. TypeInv'
  <2>1. FrameType' /\ RunnerType' /\ StateType' /\ ReaderType' /\ CallerType'
    BY <1>1, SameTypes DEF childVars, runnerVars
  <2>2. CommitType'
    BY <1>1, <1>2 DEF CommitType, CommitTyped
  <2>3. QED
    BY <2>1, <2>2 DEF TypeInv
<1>4. BookInv'
  <2>1. CASE node # "none"
    BY <1>1, <2>1, AbandonedBook DEF Inv
  <2>2. CASE node = "none"
    <3>1. /\ Seen' = Seen /\ Seen \in Nat /\ cp' \in Good /\ Later(cp, cp')
      BY <1>1, LaterTransitive DEF TypeInv, ReaderType, FrameType, Seen
    <3>2. ~Undecided'
      BY <1>2 DEF Undecided
    <3>3. QED
      BY <1>1, <1>2, <2>2, <3>1, <3>2, QuietBook DEF Inv
  <2>3. QED
    BY <2>1, <2>2
<1>5. OpenInv'
  BY <1>1, <1>2 DEF Inv, OpenInv, CallersRest, Same
<1>6. CallInv'
  <2>1. \A c \in Callers : InFlight(c)' <=> InFlight(c)
    BY <1>1, <1>2 DEF InFlight, Same
  <2>2. \A id : Never(id) => Never(id)'
    BY <1>1, <1>2 DEF Never, Given, Carries, Same
  <2>3. \A kind, id : (Given(kind, id)' <=> Given(kind, id)) /\ (Taken(id)' <=> Taken(id))
    BY <1>1 DEF Given, Taken
  <2>4. QED
    BY <1>1, <1>2, <2>1, <2>2, <2>3 DEF Inv, CallInv
<1>7. QED
  BY <1>3, <1>4, <1>5, <1>6 DEF Inv

-----------------------------------------------------------------------------
(* The invariant holds.                                                    *)

LEMMA Initially == Init => TypeInv /\ Inv
<1> SUFFICES ASSUME Init PROVE TypeInv /\ Inv
  OBVIOUS
<1>1. /\ output = <<>> /\ stdin = <<>> /\ saved = NothingSaved
      /\ node = "none" /\ fence = 0 /\ wire = "down" /\ sink = FALSE /\ orphan = NoCommit
      /\ slot = "empty" /\ opener = "idle" /\ phase = "Absent" /\ cp = Fresh /\ through = 0 /\ replayed = FALSE
      /\ reader = "off" /\ commit = NoCommit /\ caller = [c \in Callers |-> Quiet]
  BY DEF Init
<1>2. /\ Fresh.next = 1 /\ Owes(Fresh) = {} /\ Seen = 0
      /\ saved.cp = Fresh /\ saved.through = 0
  BY <1>1 DEF Fresh, Owes, NothingSaved, Seen
<1>3. \A kind, id : ~Given(kind, id) /\ ~Wrote(kind, id) /\ ~Taken(id)
  BY <1>1 DEF Given, Wrote, Taken, GivenTo
<1>4. CallersRest
  BY <1>1 DEF CallersRest, Quiet
<1>5. TypeInv
  <2>1. FrameType /\ ReaderType /\ CommitType
    BY <1>1, BoundsAssumption DEF FrameType, ReaderType, CommitType, CommitTyped
  <2>2. StateType
    BY <1>1, FreshGood DEF StateType
  <2>3. RunnerType
    <3>1. 0 \in 0..Len(output)
      BY <1>1
    <3>2. QED
      BY <1>1, <3>1, FreshGood DEF RunnerType, NothingSaved
  <2>4. CallerType
    BY <1>1, BoundsAssumption DEF CallerType, Quiet
  <2>5. QED
    BY <2>1, <2>2, <2>3, <2>4 DEF TypeInv
<1>6. OrderInv /\ FreshInv /\ SetupInv /\ OutInv
  BY <1>1, <1>2, <1>3 DEF OrderInv, FreshInv, SetupInv, OutInv, Carries, AwaitsSetup, SetsUp, Answered
<1>7. ClearInv /\ AskInv /\ RespondInv
  BY <1>1, <1>2 DEF ClearInv, Clear, AskInv, RespondInv, Heard
<1>8. OpenInv
  BY <1>1, <1>4 DEF OpenInv
<1>9. CallInv
  BY <1>1, <1>2, <1>4 DEF CallInv, CallersRest, InFlight
<1>10. QED
  BY <1>5, <1>6, <1>7, <1>8, <1>9 DEF Inv, BookInv

LEMMA Stutters ==
  ASSUME TypeInv, Inv, UNCHANGED vars
  PROVE  TypeInv' /\ Inv'
<1>1. /\ UNCHANGED <<output, stdin, saved, node, fence, wire, sink, orphan, phase, cp, through, replayed,
                     reader, commit, slot, opener, caller>>
  BY DEF vars, childVars, runnerVars, wireVars, sessionVars, stateVars
<1>2. TypeInv'
  BY <1>1, SameTypes DEF TypeInv, childVars, runnerVars
<1>3. OpenInv' /\ CallInv'
  BY <1>1 DEF Inv, OpenInv, CallersRest, CallInv, InFlight, Never, Taken, Carries, Given
<1>4. BookInv'
  <2>1. /\ Seen' = Seen /\ Seen \in Nat /\ cp' \in Good /\ Later(cp, cp')
    BY <1>1, LaterTransitive DEF TypeInv, StateType, ReaderType, FrameType, Seen
  <2>2. QED
    BY <1>1, <2>1, QuietBook DEF Inv, Same, Undecided
<1>5. QED
  BY <1>2, <1>3, <1>4 DEF Inv

LEMMA EveryStep == TypeInv /\ Inv /\ [Next]_vars => TypeInv' /\ Inv'
<1> SUFFICES ASSUME TypeInv, Inv, [Next]_vars PROVE TypeInv' /\ Inv'
  OBVIOUS
<1>1. CASE Settle
  BY <1>1, SettlePromptStep, SettleSetupStep, SettleCancelStep, SettleAnswerStep, SettleAckStep,
     SettleResponseStep DEF Settle
<1>2. CASE UNCHANGED vars
  BY <1>2, Stutters
<1>3. CASE Next /\ ~Settle
  BY <1>3, ChildStep, RunnerAnswersStep, OrphanRunsStep, CallsStep, ReadStep, OpenStep, WireDiesStep,
     CommitTimesOutStep, BackendRestartsStep DEF Next
<1>4. QED
  BY <1>1, <1>2, <1>3

LEMMA Invariant == Spec => [](TypeInv /\ Inv)
<1>1. Init => TypeInv /\ Inv
  BY Initially
<1>2. TypeInv /\ Inv /\ [Next]_vars => (TypeInv /\ Inv)'
  BY EveryStep
<1>3. QED
  BY <1>1, <1>2, PTL DEF Spec

-----------------------------------------------------------------------------
(* What is handed to the child.                                            *)

\* A prompt, a session/new or a session/load carries the identifier of a request.
RequestsNumbered == \A i \in DOMAIN stdin : stdin[i].kind \in {"prompt", "setup"} => stdin[i].id \in Rpcs

\* The child's input grows by a commit, goes with its child, or stays.
LEMMA InputGrows ==
  ASSUME TypeInv, Inv, [Next]_vars
  PROVE  \/ stdin' = stdin
         \/ stdin' = <<>>
         \/ \E r \in CommitRecords :
              /\ r \in {commit, orphan} /\ r # NoCommit /\ CommitTyped(r) /\ IsInput(r)
              /\ stdin' = Append(stdin, [kind |-> r.kind, id |-> r.id])
              /\ r.kind \in {"prompt", "setup"} => ~Taken(r.id)
              /\ r.kind = "setup" => \A id \in Rpcs : Given("setup", id) => Answered(id)
<1>1. CASE RunnerAnswers
  <2>1. commit # NoCommit /\ commit.status = "sent" /\ commit \in CommitRecords /\ CommitTyped(commit)
    BY <1>1 DEF RunnerAnswers, TypeInv, CommitType, CommitTyped
  <2>2. stdin' = stdin \/ (IsInput(commit) /\ stdin' = Append(stdin, [kind |-> commit.kind, id |-> commit.id]))
    BY <1>1 DEF RunnerAnswers, Commits
  <2>3. commit.kind \in {"prompt", "setup"} => ~Taken(commit.id)
    BY <2>1 DEF Inv, BookInv, FreshInv, Carries, Undecided, CommitTyped
  <2>4. commit.kind = "setup" => \A id \in Rpcs : Given("setup", id) => Answered(id)
    BY <2>1, <2>3 DEF Inv, OpenInv, BookInv, SetupInv, SetsUp, AwaitsSetup, Taken
  <2>5. QED
    BY <2>1, <2>2, <2>3, <2>4
<1>2. CASE OrphanRuns
  <2>1. orphan # NoCommit /\ orphan \in CommitRecords /\ CommitTyped(orphan)
    BY <1>2 DEF OrphanRuns, TypeInv, CommitType, CommitTyped
  <2>2. stdin' = stdin \/ (IsInput(orphan) /\ stdin' = Append(stdin, [kind |-> orphan.kind, id |-> orphan.id]))
    BY <1>2 DEF OrphanRuns, Commits
  <2>3. orphan.kind \in {"prompt", "setup"} => ~Taken(orphan.id)
    BY <2>1 DEF Inv, BookInv, FreshInv, Carries, CommitTyped
  <2>4. orphan.kind = "setup" => \A id \in Rpcs : Given("setup", id) => Answered(id)
    BY <2>1, <2>3 DEF Inv, BookInv, SetupInv, SetsUp, AwaitsSetup, Taken
  <2>5. QED
    BY <2>1, <2>2, <2>3, <2>4
<1>3. CASE Child \/ Calls \/ UNCHANGED vars
  BY <1>3 DEF Child, Calls, Unsent, Reserve, Steer, ReleaseReservation, Dispatch, DispatchStale, Stop,
              CancelIfDue, Resolve, vars, childVars
<1>4. CASE Settle \/ Read
  BY <1>4 DEF Settle, SettlePrompt, SettleSetup, SettleCancel, SettleAnswer, SettleAck, SettleResponse,
              AfterSettling, FlushResponse,
              Read, ApplyFrame, CountFrame, Acknowledge, FinishReplay, ReaderCancelsIfDue, ReaderEnds,
              ReaderFrame, childVars
<1>5. CASE Open \/ WireDies \/ CommitTimesOut \/ BackendRestarts
  BY <1>5 DEF Open, Retire, Attach, AttachFails, Opened, FindUnloaded, JoinSetup, Prepare, Prepared, PrepareFails,
              PrepareTimesOut, OpenerOnly, Close, Closed, CloseUnanswered, WireDies, CommitTimesOut, BackendRestarts, childVars
<1>6. QED
  BY <1>1, <1>2, <1>3, <1>4, <1>5 DEF Next

\* What the child wrote stays, unless the child goes.
LEMMA OutputStays ==
  ASSUME TypeInv, [Next]_vars, stdin' # <<>>
  PROVE  /\ \A i \in DOMAIN output : i \in DOMAIN output' /\ output'[i] = output[i]
         /\ \A id : Answered(id) => Answered(id)'
<1>1. \A i \in DOMAIN output : i \in DOMAIN output' /\ output'[i] = output[i]
  <2>1. CASE Child
    <3>1. \E x : output' = Append(output, x)
      BY <2>1 DEF Child, ChildReplies, ChildRefuses, ChildAsks, ChildSettles, ChildCalls, ChildWorks, ChildExits,
                  Writes
    <3>2. output \in Seq(Frames)
      BY DEF TypeInv, FrameType
    <3>3. QED
      BY <3>1, <3>2
  <2>2. CASE RunnerAnswers \/ OrphanRuns \/ Calls \/ Settle \/ Read \/ UNCHANGED vars
    BY <2>2 DEF RunnerAnswers, OrphanRuns, Calls, Unsent, Reserve, Steer, ReleaseReservation, Dispatch,
        DispatchStale, Stop, CancelIfDue, Resolve, Settle, SettlePrompt, SettleSetup, SettleCancel, SettleAnswer,
        SettleAck, SettleResponse, AfterSettling, Read, ApplyFrame, CountFrame, Acknowledge, FinishReplay,
        FlushResponse, ReaderCancelsIfDue, ReaderEnds, ReaderFrame, vars, childVars
  <2>3. CASE Open \/ WireDies \/ CommitTimesOut \/ BackendRestarts
    BY <2>3 DEF Open, Retire, Attach, AttachFails, Opened, FindUnloaded, JoinSetup, Prepare, Prepared, PrepareFails,
        PrepareTimesOut, OpenerOnly, Close, Closed, CloseUnanswered, WireDies, CommitTimesOut, BackendRestarts,
        childVars
  <2>4. QED
    BY <2>1, <2>2, <2>3 DEF Next
<1>2. QED
  BY <1>1 DEF Answered, Wrote, GivenTo

LEMMA OnceStep ==
  ASSUME TypeInv, Inv, RequestsNumbered, NoInputTwice, [Next]_vars
  PROVE  RequestsNumbered' /\ NoInputTwice'
<1>1. CASE stdin' = <<>>
  BY <1>1 DEF RequestsNumbered, NoInputTwice
<1>2. CASE stdin' = stdin /\ stdin' # <<>>
  BY <1>2, OutputStays DEF RequestsNumbered, NoInputTwice
<1>3. CASE stdin' # stdin /\ stdin' # <<>>
  <2>1. PICK r \in CommitRecords :
          /\ r # NoCommit /\ CommitTyped(r) /\ IsInput(r)
          /\ stdin' = Append(stdin, [kind |-> r.kind, id |-> r.id])
          /\ r.kind \in {"prompt", "setup"} => ~Taken(r.id)
          /\ r.kind = "setup" => \A id \in Rpcs : Given("setup", id) => Answered(id)
    BY <1>3, InputGrows
  <2> DEFINE o == [kind |-> r.kind, id |-> r.id]
  <2>2. o.kind = r.kind /\ o.id = r.id
    OBVIOUS
  <2>3. \A i \in DOMAIN stdin : stdin[i] = [kind |-> stdin[i].kind, id |-> stdin[i].id]
    <3>1. \A i \in DOMAIN stdin : stdin[i] \in Orders
      BY DEF TypeInv, FrameType
    <3>2. QED
      BY <3>1 DEF Orders
  <2> HIDE DEF o
  <2>4. /\ DOMAIN stdin = 1..Len(stdin) /\ DOMAIN stdin' = 1..(Len(stdin) + 1) /\ Len(stdin) \in Nat
        /\ stdin'[Len(stdin) + 1] = o /\ \A i \in DOMAIN stdin : stdin'[i] = stdin[i]
    BY <2>1 DEF TypeInv, FrameType, o
  <2>5. RequestsNumbered'
    BY <2>1, <2>2, <2>4 DEF RequestsNumbered, CommitTyped
  <2>6. \A id : Answered(id) => Answered(id)'
    BY <1>3, OutputStays
  <2>7. ASSUME NEW i \in DOMAIN stdin
        PROVE  /\ stdin[i].kind = "prompt" => stdin[i] # o
               /\ stdin[i].kind = "setup" /\ o.kind = "setup" => Answered(stdin[i].id)
    <3>1. stdin[i].kind \in {"prompt", "setup"} => Given(stdin[i].kind, stdin[i].id) /\ stdin[i].id \in Rpcs
      BY <2>3 DEF Given, GivenTo, RequestsNumbered
    <3>2. stdin[i].kind = "prompt" => stdin[i] # o
      BY <2>1, <2>2, <3>1 DEF Taken
    <3>3. stdin[i].kind = "setup" /\ o.kind = "setup" => Answered(stdin[i].id)
      BY <2>1, <2>2, <3>1
    <3>4. QED
      BY <3>2, <3>3
  <2>8. NoInputTwice'
    <3>0. \A id : Answered(id) => \E kind \in Answer, n \in DOMAIN output' : output'[n] = [kind |-> kind, id |-> id]
      BY <2>6 DEF Answered, Wrote, GivenTo
    <3>1. ASSUME NEW i \in DOMAIN stdin', NEW j \in DOMAIN stdin', i < j
          PROVE  /\ stdin'[i].kind = "prompt" => stdin'[i] # stdin'[j]
                 /\ stdin'[i].kind = "setup" /\ stdin'[j].kind = "setup" => Answered(stdin[i].id)
                 /\ stdin'[i] = stdin[i]
      <4>1. i \in DOMAIN stdin /\ stdin'[i] = stdin[i]
        BY <2>4, <3>1
      <4>2. CASE j \in DOMAIN stdin
        BY <4>1, <4>2, <2>4, <3>1 DEF NoInputTwice
      <4>3. CASE j \notin DOMAIN stdin
        <5>1. stdin'[j] = o
          BY <4>3, <2>4, <3>1
        <5>2. QED
          BY <4>1, <5>1, <2>7
      <4>4. QED
        BY <4>2, <4>3
    <3>2. QED
      BY <3>0, <3>1 DEF NoInputTwice, Answered, Wrote, GivenTo
  <2>9. QED
    BY <2>5, <2>8
<1>4. QED
  BY <1>1, <1>2, <1>3

-----------------------------------------------------------------------------
(* When a cancel is written.                                               *)

\* What the first n frames answered, and the frame that shows the run of prompt a
\* had begun: no prompt of P from before that run was still unanswered.
Over(out, id, n) == \E j \in DOMAIN out : j <= n /\ out[j].kind \in Answer /\ out[j].id = id
Begins(out, w, a, P) ==
  /\ w \in DOMAIN out /\ out[w].kind \in {"work", "ask"}
  /\ \A id \in P : id < a => Over(out, id, w)
Began(out, a, P) == \E w \in DOMAIN out : Begins(out, w, a, P)

\* The prompts and cancels the child was given, and those it may yet be given.
Going(r, kind, id) == r # NoCommit /\ r.kind = kind /\ r.id = id /\ r.status = "sent"
Put(kind, id) == Given(kind, id) \/ Going(commit, kind, id) \/ Going(orphan, kind, id)
Told == {id \in Rpcs : Given("prompt", id)}
Due  == {id \in Rpcs : Put("prompt", id)}
Cancelled == {a \in 0..MaxRpc : Given("cancel", a)}
Cancels   == {a \in 0..MaxRpc : Put("cancel", a)}

\* A checkpoint of the first n frames knows of no run before its own anchor.
Fits(out, c, n, P, K) ==
  /\ c.input.st = "idle" => c.input = IdleInput
  /\ c.input.anchor < c.next /\ \A id \in c.input.reqs : c.input.anchor <= id
  /\ c.input.started => \E w \in DOMAIN out : w <= n + 1 /\ Begins(out, w, c.input.anchor, P)
  /\ \A a \in K : a < c.next /\ (c.input.st # "idle" => a <= c.input.anchor)
Accounts(out, ids, n, P) == \A id \in P : id \in ids \/ Over(out, id, n + 1)
JustTaken == {id \in Rpcs : commit # NoCommit /\ commit.kind = "prompt" /\ commit.id = id /\ commit.status = "ok"}

\* Two frames that answer one request.
SameAnswer(f, g) == f.kind \in Answer /\ g.kind \in Answer /\ f.id = g.id

AnchorType ==
  /\ faults \in Nat
  /\ \A i \in DOMAIN stdin : stdin[i].kind = "cancel" => stdin[i].id \in 0..MaxRpc
  /\ commit # NoCommit /\ commit.kind = "cancel" => commit.id \in 0..MaxRpc
  /\ orphan # NoCommit => orphan.status = "sent" /\ (orphan.kind = "cancel" => orphan.id \in 0..MaxRpc)
  /\ \A i, j \in DOMAIN output : SameAnswer(output[i], output[j]) => i = j
  /\ phase = "Absent" => cp.input = IdleInput

HeldInv == phase # "Absent" =>
  Fits(output, cp, through, Due, Cancels) /\ Accounts(output, cp.input.reqs, through, Due)
TakenInv == faults = 0 /\ phase # "Absent" =>
  Accounts(output, cp.input.acc \cup JustTaken, through, Told)
SentInv == faults = 0 =>
  /\ orphan = NoCommit
  /\ commit # NoCommit /\ commit.status = "sent" /\ node # "none" =>
       /\ Fits(output, commit.cp, commit.through, Due, Cancels)
       /\ Accounts(output, commit.cp.input.acc, commit.through, Due)
SavedInv == node # "none" /\ (faults = 0 \/ wire = "down") =>
  /\ Fits(output, saved.cp, saved.through, Told, Cancelled)
  /\ Accounts(output, saved.cp.input.acc, saved.through, Told)
BegunInv == \A a \in Cancels : Began(output, a, Due)
StartInv == HeldInv /\ TakenInv /\ SentInv /\ SavedInv /\ BegunInv
Base == TypeInv /\ Inv /\ AnchorType

Grows(out, more) == \A j \in DOMAIN out : j \in DOMAIN more /\ more[j] = out[j]

LEMMA FitsStay ==
  ASSUME NEW out, NEW more, Grows(out, more), DOMAIN out \subseteq Nat, DOMAIN more \subseteq Nat,
         NEW n \in Nat, NEW m \in Nat, n <= m, NEW P, NEW Q, Q \subseteq P, NEW K, NEW L, L \subseteq K
  PROVE  /\ \A c : Fits(out, c, n, P, K) => Fits(more, c, m, Q, L)
         /\ \A ids : Accounts(out, ids, n, P) => Accounts(more, ids, m, Q)
         /\ \A a : Began(out, a, P) => Began(more, a, Q)
<1>1. \A id, i, k : i \in Nat /\ k \in Nat /\ i <= k /\ Over(out, id, i) => Over(more, id, k)
  BY DEF Over, Grows
<1>2. \A w, a : Begins(out, w, a, P) => Begins(more, w, a, Q) /\ w \in DOMAIN more
  BY <1>1 DEF Begins, Grows
<1>3. ASSUME NEW c, Fits(out, c, n, P, K) PROVE Fits(more, c, m, Q, L)
  <2>1. c.input.started => \E w \in DOMAIN more : w <= m + 1 /\ Begins(more, w, c.input.anchor, Q)
    BY <1>2, <1>3 DEF Fits
  <2>2. QED
    BY <1>3, <2>1 DEF Fits
<1>4. \A ids : Accounts(out, ids, n, P) => Accounts(more, ids, m, Q)
  BY <1>1 DEF Accounts
<1>5. \A a : Began(out, a, P) => Began(more, a, Q)
  BY <1>2 DEF Began
<1>6. QED
  BY <1>3, <1>4, <1>5

\* An input that lost requests, or was idle all along.
Within(in, jn) ==
  \/ jn \in {in, IdleInput}
  \/ /\ in.st # "idle" /\ jn.st # "idle" /\ jn.anchor = in.anchor /\ jn.started = in.started
     /\ jn.reqs \subseteq in.reqs

LEMMA FitsWithin ==
  ASSUME NEW out, NEW n, NEW P, NEW K, NEW c \in Good, NEW d \in Good, Fits(out, c, n, P, K),
         c.next <= d.next, Within(c.input, d.input), K \subseteq Nat
  PROVE  Fits(out, d, n, P, K)
<1>1. c.next \in Nat /\ d.next \in Nat /\ d.next # 0 /\ c.input.anchor \in Nat
  <2>1. c.next \in Nat \ {0} /\ d.next \in Nat \ {0} /\ c.input \in GoodInputs
    BY CheckpointFacts
  <2>2. QED
    BY <2>1, BoundsAssumption DEF GoodInputs, Inputs
<1>2. \A a \in Nat : a < c.next => a < d.next
  BY <1>1
<1>3. /\ c.input.st = "idle" => c.input = IdleInput
      /\ c.input.anchor < c.next /\ \A id \in c.input.reqs : c.input.anchor <= id
      /\ c.input.started => \E w \in DOMAIN out : w <= n + 1 /\ Begins(out, w, c.input.anchor, P)
      /\ \A a \in K : a < c.next /\ (c.input.st # "idle" => a <= c.input.anchor)
  BY DEF Fits
<1>4. \A a \in K : a < d.next
  BY <1>2, <1>3
<1>5. CASE d.input = c.input
  BY <1>1, <1>2, <1>3, <1>4, <1>5 DEF Fits
<1>6. CASE d.input = IdleInput
  <2>1. IdleInput.st = "idle" /\ IdleInput.anchor = 0 /\ IdleInput.reqs = {} /\ IdleInput.started = FALSE
    BY DEF IdleInput
  <2>2. 0 < d.next
    BY <1>1
  <2>3. QED
    BY <1>4, <1>6, <2>1, <2>2 DEF Fits
<1>7. CASE d.input \notin {c.input, IdleInput}
  BY <1>1, <1>2, <1>3, <1>4, <1>7 DEF Fits, Within
<1>8. QED
  BY <1>5, <1>6, <1>7

\* What the transitions that end or confirm requests make of an input.
LEMMA InputWithin ==
  ASSUME NEW in \in GoodInputs, in.st = "idle" => in = IdleInput
  PROVE  /\ Within(in, in) /\ Within(in, Stopped(in))
         /\ Stopped(in).reqs = in.reqs /\ Stopped(in).acc = in.acc
         /\ \A a : /\ Within(in, CancelAccepted(in, a)) /\ Within(in, CancelRefused(in, a))
                   /\ CancelAccepted(in, a).reqs = in.reqs /\ CancelAccepted(in, a).acc = in.acc
                   /\ CancelRefused(in, a).reqs = in.reqs /\ CancelRefused(in, a).acc = in.acc
         /\ \A id \in Rpcs :
              /\ Within(in, Accepted(in, id)) /\ Within(in, Finished(in, id))
              /\ Accepted(in, id).reqs = in.reqs
              /\ Accepted(in, id).acc = in.acc \cup (in.reqs \cap {id})
              /\ Finished(in, id).reqs = in.reqs \ {id} /\ Finished(in, id).acc = in.acc \ {id}
<1>1. /\ in \in [st : {"idle", "pending", "stopping", "cancelled"}, anchor : 0..MaxRpc,
                 reqs : SUBSET Rpcs, acc : SUBSET Rpcs, started : BOOLEAN]
      /\ in.acc \subseteq in.reqs
      /\ IdleInput.st = "idle" /\ IdleInput.reqs = {} /\ IdleInput.acc = {}
  BY DEF GoodInputs, Inputs, IdleInput
<1>2. Within(in, in)
  BY DEF Within
<1>3. Within(in, Stopped(in)) /\ Stopped(in).reqs = in.reqs /\ Stopped(in).acc = in.acc
  BY <1>1 DEF Within, Stopped
<1>4. \A a : /\ Within(in, CancelAccepted(in, a))
             /\ CancelAccepted(in, a).reqs = in.reqs /\ CancelAccepted(in, a).acc = in.acc
  BY <1>1 DEF Within, CancelAccepted
<1>5. \A a : /\ Within(in, CancelRefused(in, a))
             /\ CancelRefused(in, a).reqs = in.reqs /\ CancelRefused(in, a).acc = in.acc
  BY <1>1 DEF Within, CancelRefused
<1>6. \A id \in Rpcs : /\ Within(in, Accepted(in, id)) /\ Accepted(in, id).reqs = in.reqs
                       /\ Accepted(in, id).acc = in.acc \cup (in.reqs \cap {id})
  <2>1. TAKE id \in Rpcs
  <2>2. CASE id \in in.reqs
    BY <1>1, <2>2 DEF Within, Accepted
  <2>3. CASE id \notin in.reqs
    BY <1>1, <2>3 DEF Within, Accepted
  <2>4. QED
    BY <2>2, <2>3
<1>7. \A id \in Rpcs : /\ Within(in, Finished(in, id)) /\ Finished(in, id).reqs = in.reqs \ {id}
                       /\ Finished(in, id).acc = in.acc \ {id}
  <2>1. TAKE id \in Rpcs
  <2>2. CASE id \notin in.reqs
    BY <1>1, <2>2 DEF Within, Finished
  <2>3. CASE in.reqs = {id}
    <3>1. Finished(in, id) = IdleInput
      BY <2>3 DEF Finished
    <3>2. in.acc \ {id} = {} /\ in.reqs \ {id} = {}
      BY <1>1, <2>3
    <3>3. QED
      BY <1>1, <3>1, <3>2 DEF Within
  <2>4. CASE id \in in.reqs /\ in.reqs # {id}
    <3> DEFINE x == [in EXCEPT !.reqs = @ \ {id}]
    <3>1. Finished(in, id) = [x EXCEPT !.acc = @ \ {id}]
      BY <2>4 DEF Finished
    <3>2. x \in [st : {"idle", "pending", "stopping", "cancelled"}, anchor : 0..MaxRpc,
                 reqs : SUBSET Rpcs, acc : SUBSET Rpcs, started : BOOLEAN]
          /\ x.reqs = in.reqs \ {id} /\ x.acc = in.acc /\ x.st = in.st /\ x.anchor = in.anchor
          /\ x.started = in.started
      BY <1>1
    <3> HIDE DEF x
    <3>3. in.st # "idle"
      BY <1>1, <2>4
    <3>4. QED
      BY <3>1, <3>2, <3>3 DEF Within
  <2>5. QED
    BY <2>2, <2>3, <2>4
<1>8. QED
  BY <1>2, <1>3, <1>4, <1>5, <1>6, <1>7

-----------------------------------------------------------------------------
(* What a step that sends nothing keeps.                                   *)

\* Nothing is sent: a commit may be decided, given up on or gone.
SendsNothing ==
  /\ stdin' = stdin /\ saved' = saved /\ orphan' \in {orphan, NoCommit}
  /\ \/ commit' \in {commit, NoCommit}
     \/ commit'.status # "sent"
     \/ commit'.kind \notin {"prompt", "cancel"} /\ node' = "none"

LEMMA SameSets ==
  ASSUME SendsNothing
  PROVE  Due' \subseteq Due /\ Cancels' \subseteq Cancels /\ Told' = Told /\ Cancelled' = Cancelled
<1>1. \A kind, id : Given(kind, id)' <=> Given(kind, id)
  BY DEF SendsNothing, Given
<1>2. \A kind, id : kind \in {"prompt", "cancel"} /\ Going(commit, kind, id)' => Going(commit, kind, id)
  BY DEF SendsNothing, Going
<1>3. \A kind, id : Going(orphan, kind, id)' => Going(orphan, kind, id)
  BY DEF SendsNothing, Going
<1>4. \A kind, id : kind \in {"prompt", "cancel"} /\ Put(kind, id)' => Put(kind, id)
  BY <1>1, <1>2, <1>3 DEF Put
<1>5. QED
  BY <1>1, <1>4 DEF Due, Cancels, Told, Cancelled

LEMMA Places ==
  ASSUME TypeInv
  PROVE  /\ DOMAIN output \subseteq Nat /\ through \in Nat /\ saved.through \in Nat
         /\ commit # NoCommit => commit.through \in Nat /\ commit.cp \in Good
         /\ cp \in Good /\ saved.cp \in Good
<1>1. DOMAIN output = 1..Len(output) /\ Len(output) \in Nat
  BY DEF TypeInv, FrameType
<1>2. QED
  BY <1>1 DEF TypeInv, StateType, ReaderType, RunnerType, CommitType, CommitTyped, CommitRecords

LEMMA PlacesNext == TypeInv' => DOMAIN output' \subseteq Nat /\ through' \in Nat /\ cp' \in Good
<1> SUFFICES ASSUME TypeInv' PROVE DOMAIN output' \subseteq Nat /\ through' \in Nat /\ cp' \in Good
  OBVIOUS
<1>1. DOMAIN output' = 1..Len(output') /\ Len(output') \in Nat
  BY DEF TypeInv, FrameType
<1>2. QED
  BY <1>1 DEF TypeInv, StateType, ReaderType

LEMMA QuietStart ==
  ASSUME TypeInv, TypeInv', StartInv, Grows(output, output'), SendsNothing,
         node' # "none" => node # "none" /\ (faults' = 0 \/ wire' = "down" => faults = 0 \/ wire = "down"),
         faults' = 0 => faults = 0,
         HeldInv', TakenInv'
  PROVE  StartInv'
<1> USE Places, PlacesNext
<1>1. Due' \subseteq Due /\ Cancels' \subseteq Cancels /\ Told' = Told /\ Cancelled' = Cancelled
  BY SameSets
<1>2. DOMAIN output \subseteq Nat /\ DOMAIN output' \subseteq Nat
  OBVIOUS
<1>3. \A n \in Nat :
        /\ \A c : Fits(output, c, n, Due, Cancels) => Fits(output', c, n, Due', Cancels')
        /\ \A ids : Accounts(output, ids, n, Due) => Accounts(output', ids, n, Due')
        /\ \A c : Fits(output, c, n, Told, Cancelled) => Fits(output', c, n, Told', Cancelled')
        /\ \A ids : Accounts(output, ids, n, Told) => Accounts(output', ids, n, Told')
  <2>1. TAKE n \in Nat
  <2>2. n <= n
    OBVIOUS
  <2>3. /\ \A c : Fits(output, c, n, Due, Cancels) => Fits(output', c, n, Due', Cancels')
        /\ \A ids : Accounts(output, ids, n, Due) => Accounts(output', ids, n, Due')
    BY <1>1, <1>2, <2>2, FitsStay
  <2>4. /\ \A c : Fits(output, c, n, Told, Cancelled) => Fits(output', c, n, Told', Cancelled')
        /\ \A ids : Accounts(output, ids, n, Told) => Accounts(output', ids, n, Told')
    <3>1. Told' \subseteq Told /\ Cancelled' \subseteq Cancelled
      BY <1>1
    <3>2. QED
      BY <1>2, <2>2, <3>1, FitsStay
  <2>5. QED
    BY <2>3, <2>4
<1>4. BegunInv'
  <2>1. \A a : Began(output, a, Due) => Began(output', a, Due')
    BY <1>1, <1>2, FitsStay
  <2>2. QED
    BY <1>1, <2>1 DEF StartInv, BegunInv
<1>5. SavedInv'
  BY <1>3 DEF StartInv, SavedInv, SendsNothing
<1>6. SentInv'
  <2> SUFFICES ASSUME faults' = 0 PROVE SentInv'
    BY DEF SentInv
  <2>1. orphan' = NoCommit
    BY DEF StartInv, SentInv, SendsNothing
  <2>2. ASSUME commit' # NoCommit, commit'.status = "sent", node' # "none"
        PROVE  /\ Fits(output', commit'.cp, commit'.through, Due', Cancels')
               /\ Accounts(output', commit'.cp.input.acc, commit'.through, Due')
    <3>1. commit' = commit
      BY <2>2 DEF SendsNothing
    <3>2. commit.through \in Nat
      BY <2>2, <3>1
    <3>3. Fits(output, commit.cp, commit.through, Due, Cancels) /\ Accounts(output, commit.cp.input.acc, commit.through, Due)
      BY <2>2, <3>1 DEF StartInv, SentInv
    <3>4. QED
      BY <1>3, <3>1, <3>2, <3>3
  <2>3. QED
    BY <2>1, <2>2 DEF SentInv
<1>7. QED
  BY <1>4, <1>5, <1>6 DEF StartInv

\* The driver's own account stays when its checkpoint does.
LEMMA SameHeld ==
  ASSUME TypeInv, TypeInv', StartInv, Grows(output, output'), SendsNothing,
         faults' = 0 => faults = 0,
         phase' # "Absent" => phase # "Absent" /\ cp' = cp /\ through <= through',
         phase' # "Absent" /\ faults' = 0 => JustTaken' = JustTaken
  PROVE  HeldInv' /\ TakenInv'
<1> USE Places, PlacesNext
<1>1. Due' \subseteq Due /\ Cancels' \subseteq Cancels /\ Told' = Told
  BY SameSets
<1>2. DOMAIN output \subseteq Nat /\ DOMAIN output' \subseteq Nat
  OBVIOUS
<1>3. through <= through' =>
        /\ \A c : Fits(output, c, through, Due, Cancels) => Fits(output', c, through', Due', Cancels')
        /\ \A ids : Accounts(output, ids, through, Due) => Accounts(output', ids, through', Due')
        /\ \A ids : Accounts(output, ids, through, Told) => Accounts(output', ids, through', Told')
  BY <1>1, <1>2, FitsStay
<1>4. QED
  BY <1>3 DEF StartInv, HeldInv, TakenInv

\* Its checkpoint changes: the input loses or confirms requests.
LEMMA InputHeld ==
  ASSUME TypeInv, TypeInv', StartInv, output' = output, through' = through, SendsNothing,
         faults' = 0 => faults = 0,
         phase' # "Absent" =>
           /\ phase # "Absent" /\ cp.next <= cp'.next /\ Within(cp.input, cp'.input)
           /\ \A id \in Due' : id \in cp.input.reqs => id \in cp'.input.reqs \/ Over(output, id, through + 1)
           /\ \A id \in Told : id \in cp.input.acc \cup JustTaken =>
                id \in cp'.input.acc \cup JustTaken' \/ Over(output, id, through + 1)
  PROVE  HeldInv' /\ TakenInv'
<1> USE Places, PlacesNext
<1>1. Due' \subseteq Due /\ Cancels' \subseteq Cancels /\ Told' = Told /\ Cancels \subseteq Nat
  BY SameSets, BoundsAssumption DEF Cancels
<1>2. phase' # "Absent" => Fits(output, cp', through, Due, Cancels)
  BY <1>1, FitsWithin DEF StartInv, HeldInv
<1>3. phase' # "Absent" => Fits(output', cp', through', Due', Cancels')
  <2>1. Grows(output, output')
    BY DEF Grows
  <2>2. through <= through /\ DOMAIN output \subseteq Nat /\ DOMAIN output' \subseteq Nat
    OBVIOUS
  <2>3. \A c : Fits(output, c, through, Due, Cancels) => Fits(output', c, through, Due', Cancels')
    BY <1>1, <2>1, <2>2, FitsStay
  <2>4. QED
    BY <1>2, <2>3
<1>4. phase' # "Absent" => Accounts(output', cp'.input.reqs, through', Due')
  BY <1>1 DEF StartInv, HeldInv, Accounts
<1>5. TakenInv'
  BY <1>1 DEF StartInv, TakenInv, Accounts
<1>6. QED
  BY <1>3, <1>4, <1>5 DEF HeldInv

-----------------------------------------------------------------------------
(* What is sent, and what the child is handed.                             *)

LEMMA SendsStart ==
  ASSUME TypeInv, TypeInv', StartInv,
         UNCHANGED <<output, stdin, saved, orphan, node, wire, phase, through, faults>>,
         phase # "Absent", commit = NoCommit, commit' # NoCommit, commit'.through = through,
         commit'.cp \in Good, cp.next <= cp'.next, cp.next <= commit'.cp.next, cp'.input = cp.input,
         Within(cp.input, commit'.cp.input), commit'.cp.input.anchor = cp.input.anchor,
         cp.input.acc \subseteq commit'.cp.input.acc,
         commit'.kind = "prompt" => commit'.id \in cp.input.reqs \cap commit'.cp.input.acc,
         commit'.kind = "cancel" => commit'.id = cp.input.anchor /\ cp.input.started /\ cp.input.st # "idle"
  PROVE  StartInv'
<1> USE Places, PlacesNext
<1>1. /\ \A id \in Due' : id \in Due \/ (commit'.kind = "prompt" /\ commit'.id = id)
      /\ \A a \in Cancels' : a \in Cancels \/ (commit'.kind = "cancel" /\ commit'.id = a)
      /\ Told' = Told /\ Cancelled' = Cancelled
  BY DEF Due, Cancels, Told, Cancelled, Put, Given, Going
<1>2. /\ Fits(output, cp, through, Due, Cancels) /\ Accounts(output, cp.input.reqs, through, Due)
      /\ cp \in Good /\ cp' \in Good /\ Cancels \subseteq Nat
  BY BoundsAssumption DEF StartInv, HeldInv, Cancels
<1>3. /\ cp.input \in GoodInputs /\ cp.input.anchor \in Nat /\ cp.input.reqs \subseteq Nat
      /\ cp.input.st = "idle" => cp.input.reqs = {}
      /\ cp.next \in Nat
  <2>1. cp.input \in GoodInputs /\ cp.next \in Nat
    BY <1>2, CheckpointFacts
  <2>2. IdleInput.reqs = {}
    BY DEF IdleInput
  <2>3. QED
    BY <1>2, <2>1, <2>2, BoundsAssumption DEF GoodInputs, Inputs, Rpcs, Fits
<1>4. \A id \in Due' : id \in Nat /\ (id \in Due \/ (cp.input.anchor <= id /\ cp.input.st # "idle"))
  <2>1. Due' \subseteq Nat
    BY BoundsAssumption DEF Due, Rpcs
  <2>2. QED
    BY <1>1, <1>2, <1>3, <2>1 DEF Fits
<1>5. \A w : Begins(output, w, cp.input.anchor, Due) => Begins(output, w, cp.input.anchor, Due')
  BY <1>3, <1>4 DEF Begins
<1>6. ASSUME NEW d \in Good, cp.next <= d.next, Within(cp.input, d.input),
             d.input.anchor = cp.input.anchor
      PROVE  Fits(output, d, through, Due', Cancels')
  <2>1. Fits(output, d, through, Due, Cancels)
    BY <1>2, <1>6, FitsWithin
  <2>2. \A a \in Cancels' : a \in Cancels \/ a = d.input.anchor
    BY <1>1, <1>6
  <2>3. d.input.anchor <= d.input.anchor
    BY <1>3, <1>6
  <2>4. QED
    BY <1>5, <1>6, <2>1, <2>2, <2>3 DEF Fits
<1>7. HeldInv'
  <2>1. cp'.next \in Nat /\ Within(cp.input, cp'.input) /\ cp'.input.anchor = cp.input.anchor
    BY <1>2, CheckpointFacts DEF Within
  <2>2. Fits(output, cp', through, Due', Cancels')
    BY <1>2, <1>6, <2>1
  <2>3. Accounts(output, cp.input.reqs, through, Due')
    BY <1>1, <1>2 DEF Accounts
  <2>4. QED
    BY <2>2, <2>3 DEF HeldInv
<1>8. TakenInv'
  <2>1. JustTaken = {}
    BY DEF JustTaken
  <2>2. QED
    BY <1>1, <2>1 DEF StartInv, TakenInv, Accounts
<1>9. SentInv'
  <2>1. JustTaken = {}
    BY DEF JustTaken
  <2>2. Fits(output, commit'.cp, through, Due', Cancels')
    BY <1>6
  <2>3. faults = 0 => Accounts(output, commit'.cp.input.acc, through, Due')
    <3> SUFFICES ASSUME faults = 0, NEW id \in Due'
                 PROVE  id \in commit'.cp.input.acc \/ Over(output, id, through + 1)
      BY DEF Accounts
    <3>1. CASE commit'.kind = "prompt" /\ commit'.id = id
      BY <3>1
    <3>2. CASE id \in Told
      BY <3>2, <2>1 DEF StartInv, TakenInv, Accounts
    <3>3. id \in Told \/ (commit'.kind = "prompt" /\ commit'.id = id)
      BY DEF StartInv, SentInv, Due, Told, Put, Going, Given
    <3>4. QED
      BY <3>1, <3>2, <3>3
  <2>4. QED
    BY <2>2, <2>3 DEF SentInv, StartInv
<1>10. SavedInv'
  BY <1>1 DEF StartInv, SavedInv
<1>11. BegunInv'
  <2> SUFFICES ASSUME NEW a \in Cancels' PROVE Began(output, a, Due')
    BY DEF BegunInv
  <2>1. CASE a \in Cancels
    <3>1. PICK w \in DOMAIN output : Begins(output, w, a, Due)
      BY <2>1 DEF StartInv, BegunInv, Began
    <3>2. a \in Nat /\ (cp.input.st # "idle" => a <= cp.input.anchor)
      BY <1>2, <2>1 DEF Fits
    <3>3. Begins(output, w, a, Due')
      BY <1>3, <1>4, <3>1, <3>2 DEF Begins
    <3>4. QED
      BY <3>3 DEF Began
  <2>2. CASE a \notin Cancels
    BY <1>1, <1>2, <1>5, <2>2 DEF Fits, Began
  <2>3. QED
    BY <2>1, <2>2
<1>12. QED
  BY <1>7, <1>8, <1>9, <1>10, <1>11 DEF StartInv

\* What is handed over was on its way.
LEMMA TakesSets ==
  ASSUME TypeInv, NEW r, r \in {commit, orphan}, r # NoCommit, CommitTyped(r), r.status = "sent", Commits(r),
         UNCHANGED output, orphan' \in {orphan, NoCommit},
         commit' = commit \/ commit'.status # "sent"
  PROVE  /\ Due' \subseteq Due /\ Told' \subseteq Due /\ Cancels' \subseteq Cancels /\ Cancelled' \subseteq Cancels
         /\ \A id \in Told' : id \in Told \/ (r.kind = "prompt" /\ r.id = id)
<1>1. \A kind, id : Given(kind, id)' <=> Given(kind, id) \/ (IsInput(r) /\ kind = r.kind /\ id = r.id)
  BY HandsOver
<1>2. \A kind, id : Going(commit, kind, id)' => Going(commit, kind, id)
  BY DEF Going
<1>3. \A kind, id : Going(orphan, kind, id)' => Going(orphan, kind, id)
  BY DEF Going
<1>4. \A kind, id : Given(kind, id)' => Put(kind, id)
  BY <1>1 DEF Put, Going
<1>5. \A kind, id : Put(kind, id)' => Put(kind, id)
  BY <1>2, <1>3, <1>4 DEF Put
<1>6. QED
  BY <1>1, <1>4, <1>5 DEF Due, Told, Cancels, Cancelled

LEMMA FewerDue ==
  ASSUME TypeInv, TypeInv', StartInv, UNCHANGED <<output, phase, cp, through>>,
         Due' \subseteq Due, Cancels' \subseteq Cancels
  PROVE  HeldInv' /\ BegunInv'
<1> USE Places
<1>1. Grows(output, output) /\ through <= through
  BY DEF Grows
<1>2. /\ \A c : Fits(output, c, through, Due, Cancels) => Fits(output, c, through, Due', Cancels')
      /\ \A ids : Accounts(output, ids, through, Due) => Accounts(output, ids, through, Due')
      /\ \A a : Began(output, a, Due) => Began(output, a, Due')
  BY <1>1, FitsStay
<1>3. QED
  BY <1>2 DEF StartInv, HeldInv, BegunInv

LEMMA RunnerAnswersStart ==
  ASSUME Base, TypeInv', StartInv, RunnerAnswers
  PROVE  StartInv'
<1> USE Places
<1>0. /\ TypeInv /\ commit # NoCommit /\ commit.status = "sent" /\ orphan = NoCommit /\ orphan' = orphan
      /\ UNCHANGED <<output, phase, cp, through, faults, wire>>
      /\ JustTaken = {} /\ wire = "up"
  BY DEF Base, Inv, OpenInv, RunnerAnswers, wireVars, stateVars, JustTaken
<1>1. CASE Acceptable(commit) /\ Commits(commit) /\ commit' = [commit EXCEPT !.status = "ok"]
  <2>1. /\ commit' # NoCommit /\ commit'.status = "ok" /\ commit'.kind = commit.kind /\ commit'.id = commit.id
        /\ CommitTyped(commit) /\ commit \in CommitRecords /\ node # "none"
    <3>1. CommitTyped(commit) /\ commit \in CommitRecords
      BY <1>0 DEF TypeInv, CommitType, CommitTyped
    <3>2. commit' \in CommitRecords /\ commit'.status = "ok" /\ commit'.kind = commit.kind /\ commit'.id = commit.id
      BY <1>1, <3>1 DEF CommitRecords
    <3>3. QED
      BY <1>1, <3>1, <3>2, NoCommitApart DEF Acceptable, Attached
  <2>2. /\ Due' \subseteq Due /\ Told' \subseteq Due /\ Cancels' \subseteq Cancels /\ Cancelled' \subseteq Cancels
        /\ \A id \in Told' : id \in Told \/ (commit.kind = "prompt" /\ commit.id = id)
    BY <1>0, <1>1, <2>1, TakesSets
  <2>3. HeldInv' /\ BegunInv'
    BY <1>0, <2>2, FewerDue
  <2>4. TakenInv'
    <3>1. Told' \subseteq Rpcs
      BY DEF Told
    <3>2. QED
      BY <1>0, <2>1, <2>2, <3>1 DEF StartInv, TakenInv, Accounts, JustTaken
  <2>5. SentInv'
    BY <1>0, <2>1 DEF SentInv
  <2>6. SavedInv'
    <3> SUFFICES ASSUME faults = 0 PROVE SavedInv'
      BY <1>0 DEF SavedInv
    <3>1. saved' = [through |-> commit.through, cp |-> commit.cp]
      BY <1>1 DEF Commits
    <3>2. Fits(output, commit.cp, commit.through, Due, Cancels) /\ Accounts(output, commit.cp.input.acc, commit.through, Due)
      BY <1>0, <2>1 DEF StartInv, SentInv
    <3>3. Grows(output, output) /\ commit.through \in Nat /\ commit.through <= commit.through
      BY <1>0 DEF Grows
    <3>4. DOMAIN output \subseteq Nat
      BY <1>0
    <3>5. /\ \A c : Fits(output, c, commit.through, Due, Cancels) => Fits(output, c, commit.through, Told', Cancelled')
          /\ \A ids : Accounts(output, ids, commit.through, Due) => Accounts(output, ids, commit.through, Told')
      BY <2>2, <3>3, <3>4, FitsStay
    <3>6. QED
      BY <1>0, <3>1, <3>2, <3>5 DEF SavedInv
  <2>7. QED
    BY <2>3, <2>4, <2>5, <2>6 DEF StartInv
<1>2. CASE ~(Acceptable(commit) /\ Commits(commit) /\ commit' = [commit EXCEPT !.status = "ok"])
  <2>1. /\ UNCHANGED <<saved, stdin, node>>
        /\ \/ commit' = [commit EXCEPT !.status = "refused"]
           \/ commit' = [commit EXCEPT !.status = "full"]
    BY <1>2 DEF RunnerAnswers
  <2>2. commit'.status \in {"refused", "full"}
    <3>1. commit \in CommitRecords
      BY <1>0 DEF TypeInv, CommitType, CommitTyped
    <3>2. QED
      BY <2>1, <3>1 DEF CommitRecords
  <2>3. SendsNothing /\ Grows(output, output') /\ JustTaken' = JustTaken
    BY <1>0, <2>1, <2>2 DEF SendsNothing, Grows, JustTaken
  <2>4. HeldInv' /\ TakenInv'
    BY <1>0, <2>3, SameHeld
  <2>5. QED
    BY <1>0, <2>1, <2>3, <2>4, QuietStart
<1>3. QED
  BY <1>1, <1>2

LEMMA OrphanRunsStart ==
  ASSUME Base, TypeInv', StartInv, OrphanRuns
  PROVE  StartInv'
<1>0. /\ TypeInv /\ orphan # NoCommit /\ orphan' = NoCommit /\ orphan.status = "sent" /\ commit' = commit
      /\ UNCHANGED <<output, phase, cp, through, faults, wire>>
      /\ wire = "up"
  BY DEF Base, AnchorType, Inv, OpenInv, OrphanRuns, sessionVars, stateVars, TypeInv, StateType
<1>1. faults # 0
  BY <1>0 DEF StartInv, SentInv
<1>2. CASE Acceptable(orphan)
  <2>1. Commits(orphan) /\ CommitTyped(orphan)
    BY <1>0, <1>2 DEF OrphanRuns, TypeInv, CommitType
  <2>2. Due' \subseteq Due /\ Cancels' \subseteq Cancels
    BY <1>0, <2>1, TakesSets
  <2>3. HeldInv' /\ BegunInv'
    BY <1>0, <2>2, FewerDue
  <2>4. QED
    BY <1>0, <1>1, <2>3 DEF StartInv, TakenInv, SentInv, SavedInv
<1>3. CASE ~Acceptable(orphan)
  <2>1. SendsNothing /\ Grows(output, output') /\ JustTaken' = JustTaken /\ node' = node
    BY <1>0, <1>3 DEF SendsNothing, Grows, JustTaken, OrphanRuns
  <2>2. HeldInv' /\ TakenInv'
    BY <1>0, <2>1, Places, SameHeld
  <2>3. QED
    BY <1>0, <2>1, <2>2, QuietStart
<1>4. QED
  BY <1>2, <1>3

LEMMA CommitTimesOutStart ==
  ASSUME Base, TypeInv', StartInv, CommitTimesOut
  PROVE  StartInv'
<1>0. /\ TypeInv /\ commit # NoCommit /\ commit.status = "sent" /\ orphan = NoCommit /\ wire = "up"
      /\ UNCHANGED <<output, stdin, phase, cp, through, wire>>
      /\ orphan' \in {commit, NoCommit} /\ commit' = [commit EXCEPT !.status = "unknown"]
      /\ faults \in Nat /\ faults' = faults + 1
  BY DEF Base, AnchorType, Inv, OpenInv, CommitTimesOut, Fault, stateVars, childVars
<1>1. faults' # 0
  BY <1>0
<1>2. commit \in CommitRecords
  BY <1>0 DEF TypeInv, CommitType, CommitTyped
<1>3. commit'.status = "unknown"
  BY <1>0, <1>2 DEF CommitRecords
<1>4. \A kind, id : Put(kind, id)' => Put(kind, id)
  BY <1>0, <1>3 DEF Put, Given, Going
<1>5. Due' \subseteq Due /\ Cancels' \subseteq Cancels
  BY <1>4 DEF Due, Cancels
<1>6. HeldInv' /\ BegunInv'
  BY <1>0, <1>5, FewerDue
<1>7. QED
  BY <1>0, <1>1, <1>6 DEF StartInv, TakenInv, SentInv, SavedInv

-----------------------------------------------------------------------------
(* The steps that leave the driver's checkpoint alone, or forget it.       *)

LEMMA QuietStep ==
  ASSUME TypeInv, TypeInv', StartInv, Grows(output, output'), SendsNothing,
         node' # "none" => node # "none" /\ (faults' = 0 \/ wire' = "down" => faults = 0 \/ wire = "down"),
         faults' = 0 => faults = 0,
         phase' # "Absent" => phase # "Absent" /\ cp' = cp /\ through <= through',
         phase' # "Absent" /\ faults' = 0 => JustTaken' = JustTaken
  PROVE  StartInv'
<1>1. HeldInv' /\ TakenInv'
  BY SameHeld
<1>2. QED
  BY <1>1, QuietStart

LEMMA LostKeeps == ASSUME NEW why, Lost(why) PROVE phase' # "Absent" => phase # "Absent"
  BY DEF Lost

LEMMA ChildStart ==
  ASSUME Base, TypeInv', StartInv, Child
  PROVE  StartInv'
<1>1. /\ TypeInv /\ UNCHANGED <<stdin, saved, orphan, commit, node, wire, phase, cp, through, faults>>
  BY DEF Base, Child, runnerVars, wireVars, sessionVars, stateVars
<1>2. \E x : output' = Append(output, x)
  BY DEF Child, ChildReplies, ChildRefuses, ChildAsks, ChildSettles, ChildCalls, ChildWorks, ChildExits, Writes
<1>3. Grows(output, output')
  <2>1. output \in Seq(Frames)
    BY <1>1 DEF TypeInv, FrameType
  <2>2. QED
    BY <1>2, <2>1 DEF Grows
<1>4. SendsNothing /\ JustTaken' = JustTaken
  BY <1>1 DEF SendsNothing, JustTaken
<1>5. through <= through
  BY <1>1, Places
<1>6. QED
  BY <1>1, <1>3, <1>4, <1>5, QuietStep

LEMMA FaultStart ==
  ASSUME Base, TypeInv', StartInv, faults' <= 1, WireDies \/ BackendRestarts \/ CloseUnanswered
  PROVE  StartInv'
<1>1. /\ TypeInv /\ faults \in Nat /\ faults' = faults + 1
      /\ UNCHANGED <<output, stdin, saved>> /\ orphan' \in {orphan, NoCommit}
      /\ node' # "none" => node # "none"
      /\ phase' # "Absent" => phase # "Absent" /\ cp' = cp /\ through' = through
  BY LostKeeps DEF Base, AnchorType, Fault, Detaches, WireDies, BackendRestarts, CloseUnanswered, Forget,
                   childVars, runnerVars, wireVars, stateVars, Attached
<1>2. faults = 0 /\ faults' # 0
  BY <1>1
<1>3. commit' \in {commit, NoCommit} \/ commit'.status # "sent"
  <2>1. CASE WireDies /\ commit' = [commit EXCEPT !.status = "unknown"]
    <3>1. commit \in CommitRecords \/ commit = NoCommit
      BY <1>1 DEF TypeInv, CommitType, CommitTyped
    <3>2. commit = NoCommit => commit' = NoCommit
      BY <2>1 DEF WireDies, OutboundFree
    <3>3. commit \in CommitRecords => commit'.status = "unknown"
      BY <2>1 DEF CommitRecords
    <3>4. QED
      BY <3>1, <3>2, <3>3
  <2>2. CASE ~(WireDies /\ commit' = [commit EXCEPT !.status = "unknown"])
    BY <2>2 DEF WireDies, BackendRestarts, CloseUnanswered
  <2>3. QED
    BY <2>1, <2>2
<1>4. SendsNothing /\ Grows(output, output')
  BY <1>1, <1>3 DEF SendsNothing, Grows
<1>5. through <= through
  BY <1>1, Places
<1>6. QED
  BY <1>1, <1>2, <1>4, <1>5, QuietStep

LEMMA OpensStart ==
  ASSUME Base, TypeInv', StartInv,
         \/ Retire \/ AttachFails \/ Opened \/ FindUnloaded \/ JoinSetup
         \/ Prepared \/ PrepareFails \/ PrepareTimesOut \/ Close \/ Closed
  PROVE  StartInv'
<1>1. /\ TypeInv /\ UNCHANGED <<output, stdin, saved, commit, wire, faults>> /\ orphan' \in {orphan, NoCommit}
      /\ node' \in {node, "none"}
      /\ phase' # "Absent" => phase # "Absent" /\ cp' = cp /\ through' = through
  BY LostKeeps DEF Base, Inv, OpenInv, Retire, AttachFails, Opened, FindUnloaded, JoinSetup, Prepared, PrepareFails,
         PrepareTimesOut, OpenerOnly, Close, Closed, Forget, NoChild, childVars, runnerVars, wireVars, stateVars
<1>2. SendsNothing /\ Grows(output, output') /\ JustTaken' = JustTaken
  BY <1>1 DEF SendsNothing, Grows, JustTaken
<1>3. through <= through
  BY <1>1, Places
<1>4. QED
  BY <1>1, <1>2, <1>3, QuietStep

LEMMA ReadsStart ==
  ASSUME Base, TypeInv', StartInv, CountFrame \/ ReaderEnds \/ \E c \in Callers : DispatchStale(c)
  PROVE  StartInv'
<1>1. /\ TypeInv /\ UNCHANGED <<output, stdin, saved, commit, orphan, node, wire, faults>>
      /\ cp' = cp /\ through' \in {through, through + 1} /\ (phase' # "Absent" => phase # "Absent")
  BY LostKeeps DEF Base, CountFrame, ReaderEnds, ReaderFrame, DispatchStale, Unsent,
         childVars, runnerVars, wireVars
<1>2. SendsNothing /\ Grows(output, output') /\ JustTaken' = JustTaken
  BY <1>1 DEF SendsNothing, Grows, JustTaken
<1>3. through <= through /\ through <= through + 1
  BY <1>1, Places
<1>4. QED
  BY <1>1, <1>2, <1>3, QuietStep

-----------------------------------------------------------------------------
(* The steps that change the input and send nothing.                       *)

LEMMA InputStep ==
  ASSUME TypeInv, TypeInv', StartInv, SendsNothing,
         UNCHANGED <<output, through, node, wire, faults>>,
         phase' # "Absent" =>
           /\ phase # "Absent" /\ cp.next <= cp'.next /\ Within(cp.input, cp'.input)
           /\ \A id \in Due' : id \in cp.input.reqs => id \in cp'.input.reqs \/ Over(output, id, through + 1)
           /\ \A id \in Told : id \in cp.input.acc \cup JustTaken =>
                id \in cp'.input.acc \cup JustTaken' \/ Over(output, id, through + 1)
  PROVE  StartInv'
<1>1. HeldInv' /\ TakenInv'
  BY InputHeld
<1>2. Grows(output, output')
  BY DEF Grows
<1>3. QED
  BY <1>1, <1>2, QuietStart

\* What an input is before a step, and what its checkpoint becomes.
LEMMA HeldFacts ==
  ASSUME TypeInv, StartInv, phase # "Absent"
  PROVE  /\ cp.input \in GoodInputs /\ cp \in Good /\ cp.next \in Nat /\ cp.next <= cp.next
         /\ cp.input.st = "idle" => cp.input = IdleInput /\ cp.input.reqs = {} /\ cp.input.acc = {}
         /\ \A in : LET d == [cp EXCEPT !.input = in] IN d.next = cp.next /\ d.input = in
<1>1. cp \in Good /\ cp.input \in GoodInputs /\ cp.next \in Nat
  BY CheckpointFacts DEF TypeInv, StateType
<1>2. cp \in [next : 1..(MaxRpc + 1), loaded : BOOLEAN, setup : 0..MaxRpc,
              pending : SUBSET Rpcs, asks : SUBSET Asks, responses : SUBSET Asks, input : Inputs]
  BY <1>1 DEF Good, Checkpoints
<1>3. IdleInput.reqs = {} /\ IdleInput.acc = {}
  BY DEF IdleInput
<1>4. cp.input.st = "idle" => cp.input = IdleInput
  BY DEF StartInv, HeldInv, Fits
<1>5. QED
  BY <1>1, <1>2, <1>3, <1>4

LEMMA StopStart ==
  ASSUME Base, TypeInv', StartInv, NEW c \in Callers, Stop(c)
  PROVE  StartInv'
<1>1. /\ TypeInv /\ UNCHANGED <<output, stdin, saved, commit, orphan, node, wire, faults, through, phase>>
      /\ phase = "Ready" /\ cp' = [cp EXCEPT !.input = Stopped(cp.input)]
  BY DEF Base, Stop, Unsent, childVars, runnerVars, wireVars
<1>2. cp'.input = Stopped(cp.input) /\ cp'.next = cp.next /\ cp.next <= cp.next
  BY <1>1, HeldFacts
<1>3. Within(cp.input, cp'.input) /\ cp'.input.reqs = cp.input.reqs /\ cp'.input.acc = cp.input.acc
  BY <1>1, <1>2, HeldFacts, InputWithin
<1>4. SendsNothing /\ JustTaken' = JustTaken
  BY <1>1 DEF SendsNothing, JustTaken
<1>5. QED
  BY <1>1, <1>2, <1>3, <1>4, InputStep

LEMMA ReleaseStart ==
  ASSUME Base, TypeInv', StartInv, NEW c \in Callers, ReleaseReservation(c)
  PROVE  StartInv'
<1> DEFINE id == caller[c].rpc
<1>1. /\ TypeInv /\ UNCHANGED <<output, stdin, saved, commit, orphan, node, wire, faults, through, phase>>
      /\ cp' = IF phase = "Ready" THEN [cp EXCEPT !.input = Finished(cp.input, id)] ELSE cp
      /\ id \in Rpcs /\ Never(id)
  BY DEF Base, Inv, CallInv, InFlight, ReleaseReservation, Unsent, childVars, runnerVars, wireVars
<1>2. SendsNothing /\ JustTaken' = JustTaken
  BY <1>1 DEF SendsNothing, JustTaken
<1>3. Due' \subseteq Due /\ id \notin Due /\ id \notin Told
  BY <1>1, <1>2, SameSets DEF Due, Told, Put, Never, Carries, Going
<1>4. CASE phase = "Ready"
  <2>1. cp'.input = Finished(cp.input, id) /\ cp'.next = cp.next /\ cp.next <= cp.next
    BY <1>1, <1>4, HeldFacts
  <2>2. /\ Within(cp.input, cp'.input) /\ cp'.input.reqs = cp.input.reqs \ {id}
        /\ cp'.input.acc = cp.input.acc \ {id}
    BY <1>1, <1>4, <2>1, HeldFacts, InputWithin
  <2>3. QED
    BY <1>1, <1>2, <1>3, <1>4, <2>1, <2>2, InputStep
<1>5. CASE phase # "Ready"
  <2>1. Grows(output, output') /\ through <= through
    BY <1>1, Places DEF Grows
  <2>2. QED
    BY <1>1, <1>2, <1>5, <2>1, QuietStep
<1>6. QED
  BY <1>4, <1>5

\* A step that changes the account itself.
LEMMA HeldStep ==
  ASSUME TypeInv, TypeInv', StartInv, SendsNothing,
         UNCHANGED <<output, through, node, wire, faults, phase, commit>>, phase # "Absent",
         Fits(output, cp', through, Due, Cancels),
         \A id \in Due : id \in cp.input.reqs => id \in cp'.input.reqs \/ Over(output, id, through + 1),
         \A id \in Told : id \in cp.input.acc => id \in cp'.input.acc \/ Over(output, id, through + 1)
  PROVE  StartInv'
<1>1. /\ Due' \subseteq Due /\ Cancels' \subseteq Cancels /\ Told' = Told /\ JustTaken' = JustTaken
      /\ Grows(output, output) /\ through <= through
  BY SameSets, Places DEF JustTaken, Grows
<1>2. \A c : Fits(output, c, through, Due, Cancels) => Fits(output, c, through, Due', Cancels')
  BY <1>1, Places, FitsStay
<1>3. HeldInv'
  BY <1>1, <1>2 DEF StartInv, HeldInv, Accounts
<1>4. TakenInv'
  BY <1>1 DEF StartInv, TakenInv, Accounts
<1>5. QED
  BY <1>1, <1>3, <1>4, QuietStart

LEMMA NumberedInput ==
  ASSUME NEW c \in Good, NEW in, NEW d, d = [c EXCEPT !.next = @ + 1, !.input = in]
  PROVE  d.next = c.next + 1 /\ d.input = in
<1>1. c \in [next : 1..(MaxRpc + 1), loaded : BOOLEAN, setup : 0..MaxRpc,
             pending : SUBSET Rpcs, asks : SUBSET Asks, responses : SUBSET Asks, input : Inputs]
  BY DEF Good, Checkpoints
<1>2. QED
  BY <1>1

LEMMA NumberedStart ==
  ASSUME Base, TypeInv', StartInv, NEW c \in Callers, Reserve(c) \/ Steer(c)
  PROVE  StartInv'
<1>1. /\ TypeInv /\ UNCHANGED <<output, stdin, saved, commit, orphan, node, wire, faults, through, phase>>
      /\ phase = "Ready"
  BY DEF Base, Reserve, Steer, Unsent, childVars, runnerVars, wireVars
<1>2. SendsNothing
  BY <1>1 DEF SendsNothing
<1>3. /\ Fits(output, cp, through, Due, Cancels) /\ Accounts(output, cp.input.reqs, through, Due)
      /\ Cancels \subseteq Nat
  BY <1>1, BoundsAssumption DEF StartInv, HeldInv, Cancels
<1>4. CASE Reserve(c)
  <2>1. cp'.next = cp.next + 1 /\ cp'.input = Begun(cp.next)
    BY <1>1, <1>4, HeldFacts, NumberedInput DEF Reserve
  <2>2. /\ Begun(cp.next).st = "pending" /\ Begun(cp.next).anchor = cp.next /\ Begun(cp.next).reqs = {cp.next}
        /\ Begun(cp.next).started = FALSE
    BY DEF Begun, IdleInput
  <2>3. cp.input.reqs = {} /\ cp.input.acc = {} /\ cp.next \in Nat
    BY <1>1, <1>4, HeldFacts DEF Reserve
  <2>4. Fits(output, cp', through, Due, Cancels)
    BY <1>3, <2>1, <2>2, <2>3 DEF Fits
  <2>5. QED
    BY <1>1, <1>2, <2>3, <2>4, HeldStep
<1>5. CASE Steer(c)
  <2>1. cp'.next = cp.next + 1 /\ cp'.input = Steered(cp.input, cp.next) /\ cp.input.st = "pending"
    <3>1. cp.input.st = "pending" /\ cp' = [cp EXCEPT !.next = @ + 1, !.input = Steered(@, cp.next)]
      BY <1>5 DEF Steer
    <3> DEFINE in == Steered(cp.input, cp.next)
    <3>2. /\ cp' = [cp EXCEPT !.next = @ + 1, !.input = in]
          /\ cp \in [next : 1..(MaxRpc + 1), loaded : BOOLEAN, setup : 0..MaxRpc,
                    pending : SUBSET Rpcs, asks : SUBSET Asks, responses : SUBSET Asks, input : Inputs]
      BY <1>1, <3>1, HeldFacts DEF Good, Checkpoints
    <3> HIDE DEF in
    <3>3. cp'.next = cp.next + 1 /\ cp'.input = in
      BY <3>2
    <3>4. QED
      BY <3>1, <3>3 DEF in
  <2>2. cp.input \in Inputs /\ cp.next \in Nat /\ cp.input.anchor \in Nat
    BY <1>1, HeldFacts, BoundsAssumption DEF GoodInputs, Inputs
  <2>3. /\ cp'.input.st = "pending" /\ cp'.input.anchor = cp.input.anchor
        /\ cp'.input.reqs = cp.input.reqs \cup {cp.next} /\ cp'.input.started = cp.input.started
        /\ cp'.input.acc = cp.input.acc
    BY <2>1, <2>2 DEF Steered, Inputs
  <2>4. Fits(output, cp', through, Due, Cancels)
    BY <1>3, <2>1, <2>2, <2>3 DEF Fits
  <2>5. QED
    BY <1>1, <1>2, <2>3, <2>4, HeldStep
<1>6. QED
  BY <1>4, <1>5

LEMMA ApplyFrameStart ==
  ASSUME Base, TypeInv', StartInv, ApplyFrame
  PROVE  StartInv'
<1> DEFINE frame == output[through + 1]
<1>1. /\ TypeInv /\ UNCHANGED <<output, stdin, saved, commit, orphan, node, wire, faults, through>>
      /\ phase' # "Absent" => phase # "Absent"
  BY LostKeeps DEF Base, ApplyFrame, ReaderFrame, childVars, runnerVars, wireVars
<1>2. SendsNothing /\ JustTaken' = JustTaken /\ Grows(output, output') /\ through <= through
  BY <1>1, Places DEF SendsNothing, JustTaken, Grows
<1>3. CASE cp' = cp
  BY <1>1, <1>2, <1>3, QuietStep
<1>4. CASE cp' # cp
  <2>0. through + 1 \in DOMAIN output /\ frame \in Frames /\ (frame.kind \in Answer => frame.id \in Rpcs)
    <3>1. through < Limit /\ Limit <= Len(output) /\ through \in Nat /\ Len(output) \in Nat /\ Limit \in Nat
      BY <1>1 DEF ApplyFrame, Limit, TypeInv, RunnerType, FrameType, ReaderType
    <3>2. through + 1 \in DOMAIN output
      BY <1>1, <3>1 DEF TypeInv, FrameType
    <3>3. QED
      BY <1>1, <3>2 DEF TypeInv, FrameType
  <2>1. cp' = Applied(cp, frame) /\ phase' = phase /\ ~Ending
    BY <1>4 DEF ApplyFrame
  <2>2. phase # "Absent" /\ cp \in Good /\ cp.next <= cp.next
    BY <1>1, <2>1, HeldFacts DEF Ending
  <2>3. cp \in [next : 1..(MaxRpc + 1), loaded : BOOLEAN, setup : 0..MaxRpc,
             pending : SUBSET Rpcs, asks : SUBSET Asks, responses : SUBSET Asks, input : Inputs]
    BY <2>2 DEF Good, Checkpoints
  <2>4. CASE frame.kind \in Answer /\ frame.id # cp.setup
    <3>1. cp'.next = cp.next /\ cp'.input = Finished(cp.input, frame.id)
      BY <2>1, <2>3, <2>4 DEF Applied, Replied
    <3>2. /\ Within(cp.input, cp'.input) /\ cp'.input.reqs = cp.input.reqs \ {frame.id}
          /\ cp'.input.acc = cp.input.acc \ {frame.id}
      BY <1>1, <2>0, <2>2, <2>4, <3>1, HeldFacts, InputWithin
    <3>3. Over(output, frame.id, through + 1)
      <4>1. through + 1 <= through + 1
        BY Places, <1>1
      <4>2. QED
        BY <2>0, <2>4, <4>1 DEF Over
    <3>4. QED
      BY <1>1, <1>2, <2>1, <2>2, <3>1, <3>2, <3>3, InputStep
  <2>5. CASE frame.kind \in {"work", "ask"}
    <3>1. cp'.next = cp.next /\ cp'.input = Started(cp.input)
      BY <2>1, <2>3, <2>5 DEF Applied
    <3>2. CASE cp.input.st = "idle"
      <4>1. cp'.input = cp.input
        BY <3>1, <3>2 DEF Started
      <4>2. QED
        BY <1>1, <1>2, <2>1, <2>2, <3>1, <4>1, InputStep DEF Within
    <3>3. CASE cp.input.st # "idle"
      <4>1. /\ cp'.input.st = cp.input.st /\ cp'.input.anchor = cp.input.anchor /\ cp'.input.reqs = cp.input.reqs
            /\ cp'.input.acc = cp.input.acc
        BY <2>3, <3>1, <3>3 DEF Started, Inputs
      <4>2. /\ Fits(output, cp, through, Due, Cancels) /\ Accounts(output, cp.input.reqs, through, Due)
        BY <2>2 DEF StartInv, HeldInv
      <4>3. \A id \in Due : id < cp.input.anchor => Over(output, id, through + 1)
        <5>1. Due \subseteq Nat /\ cp.input.anchor \in Nat
          BY <2>3, BoundsAssumption DEF Due, Rpcs, Inputs
        <5>2. \A id \in cp.input.reqs : cp.input.anchor <= id
          BY <4>2 DEF Fits
        <5>3. \A id \in Due : id \in cp.input.reqs \/ Over(output, id, through + 1)
          BY <4>2 DEF Accounts
        <5>4. QED
          BY <5>1, <5>2, <5>3
      <4>4. Begins(output, through + 1, cp.input.anchor, Due) /\ through + 1 <= through + 1
        BY <1>1, <2>0, <2>5, <4>3, Places DEF Begins
      <4>5. Fits(output, cp', through, Due, Cancels)
        BY <2>0, <3>1, <3>3, <4>1, <4>2, <4>4 DEF Fits
      <4>6. QED
        BY <1>1, <1>2, <2>1, <2>2, <4>1, <4>5, HeldStep
    <3>4. QED
      BY <3>2, <3>3
  <2>6. CASE (frame.kind \in Answer /\ frame.id = cp.setup) \/ frame.kind \in {"done", "call", "exit"}
    <3>1. cp'.next = cp.next /\ cp'.input = cp.input
      BY <2>1, <2>3, <2>6 DEF Applied
    <3>2. QED
      BY <1>1, <1>2, <2>1, <2>2, <3>1, InputStep DEF Within
  <2>7. QED
    BY <2>0, <2>4, <2>5, <2>6 DEF Frames
<1>5. QED
  BY <1>3, <1>4

-----------------------------------------------------------------------------
(* The runner's answers as the driver takes them.                          *)

LEMMA SettleStart ==
  ASSUME Base, TypeInv', StartInv, Settle
  PROVE  StartInv'
<1>1. /\ TypeInv /\ UNCHANGED <<output, stdin, saved, orphan, node, wire, faults, through>>
      /\ phase' # "Absent" => phase # "Absent"
      /\ commit # NoCommit /\ commit.status # "sent" /\ commit' = NoCommit /\ commit \in CommitRecords
      /\ CommitTyped(commit)
  BY LostKeeps DEF Base, Settle, SettlePrompt, SettleSetup, SettleCancel, SettleAnswer, SettleAck,
       SettleResponse, Settled, AfterSettling, childVars, runnerVars, wireVars, TypeInv, CommitType, CommitTyped
<1>2. SendsNothing /\ Grows(output, output') /\ through <= through /\ JustTaken' = {}
  BY <1>1, Places DEF SendsNothing, Grows, JustTaken
<1>3. Due' \subseteq Due /\ Told' = Told
  BY <1>2, SameSets
<1>4. cp \in [next : 1..(MaxRpc + 1), loaded : BOOLEAN, setup : 0..MaxRpc,
             pending : SUBSET Rpcs, asks : SUBSET Asks, responses : SUBSET Asks, input : Inputs] /\ cp.next <= cp.next
  BY <1>1, NextFacts DEF TypeInv, StateType, Good, Checkpoints
<1>5. CASE SettlePrompt
  <2> DEFINE id == commit.id
  <2>1. commit.kind = "prompt" /\ id \in Rpcs
    BY <1>1, <1>5 DEF SettlePrompt, Settled, CommitTyped
  <2>2. CASE commit.status = "ok"
    <3>1. cp'.input = Accepted(cp.input, id) /\ cp'.next = cp.next
      BY <1>4, <1>5, <2>2 DEF SettlePrompt
    <3>2. phase # "Absent" =>
            /\ Within(cp.input, cp'.input) /\ cp'.input.reqs = cp.input.reqs
            /\ cp'.input.acc = cp.input.acc \cup (cp.input.reqs \cap {id})
      BY <1>1, <2>1, <3>1, HeldFacts, InputWithin
    <3>3. phase # "Absent" /\ id \in Told => id \in cp.input.reqs \/ Over(output, id, through + 1)
      BY DEF Told, Due, Put, StartInv, HeldInv, Accounts
    <3>4. JustTaken = {id}
      BY <1>1, <2>1, <2>2 DEF JustTaken
    <3>5. QED
      BY <1>1, <1>2, <1>4, <3>1, <3>2, <3>3, <3>4, InputStep
  <2>3. CASE commit.status # "ok" /\ ~Unknown
    <3>1. cp'.input = Finished(cp.input, id) /\ cp'.next = cp.next
      BY <1>4, <1>5, <2>3 DEF SettlePrompt
    <3>2. phase # "Absent" =>
            /\ Within(cp.input, cp'.input) /\ cp'.input.reqs = cp.input.reqs \ {id}
            /\ cp'.input.acc = cp.input.acc \ {id}
      BY <1>1, <2>1, <3>1, HeldFacts, InputWithin
    <3>3. Undecided /\ Carries(commit, id)
      BY <1>1, <2>1, <2>3 DEF Unknown, Undecided, CommitRecords, Carries
    <3>4. ~Taken(id) /\ ~Carries(orphan, id)
      BY <2>1, <3>3 DEF Base, Inv, BookInv, FreshInv
    <3>5. id \notin Due' /\ id \notin Told
      BY <1>1, <1>3, <3>4 DEF Due, Told, Put, Taken, Carries, Going, Given
    <3>6. JustTaken = {}
      BY <2>3 DEF JustTaken
    <3>7. QED
      BY <1>1, <1>2, <1>4, <3>1, <3>2, <3>5, <3>6, InputStep
  <2>4. CASE Unknown
    <3>1. cp' = cp /\ JustTaken = {}
      BY <1>5, <2>4 DEF SettlePrompt, Unknown, JustTaken
    <3>2. QED
      BY <1>1, <1>2, <3>1, QuietStep
  <2>5. QED
    BY <2>2, <2>3, <2>4
<1>6. CASE SettleCancel
  <2>1. JustTaken = {} /\ commit.kind = "cancel"
    BY <1>6 DEF SettleCancel, Settled, JustTaken
  <2>2. /\ cp'.next = cp.next
        /\ \E a : cp'.input \in {cp.input, CancelAccepted(cp.input, a), CancelRefused(cp.input, a)}
    BY <1>4, <1>6 DEF SettleCancel
  <2>3. phase # "Absent" =>
          Within(cp.input, cp'.input) /\ cp'.input.reqs = cp.input.reqs /\ cp'.input.acc = cp.input.acc
    BY <1>1, <2>2, HeldFacts, InputWithin
  <2>4. QED
    BY <1>1, <1>2, <1>4, <2>1, <2>2, <2>3, InputStep
<1>7. CASE SettleSetup \/ SettleAnswer \/ SettleAck \/ SettleResponse
  <2>1. JustTaken = {}
    BY <1>7 DEF SettleSetup, SettleAnswer, SettleAck, SettleResponse, Settled, JustTaken
  <2>2. cp'.next = cp.next /\ cp'.input = cp.input
    BY <1>4, <1>7 DEF SettleSetup, SettleAnswer, SettleAck, SettleResponse
  <2>3. QED
    BY <1>1, <1>2, <1>4, <2>1, <2>2, InputStep DEF Within
<1>8. QED
  BY <1>5, <1>6, <1>7 DEF Settle

-----------------------------------------------------------------------------
(* The requests the driver sends.                                          *)

LEMMA SendsReal ==
  ASSUME NEW who, NEW kind, NEW id, NEW c, Sends(who, kind, id, c)
  PROVE  /\ commit = NoCommit /\ commit' # NoCommit
         /\ commit'.kind = kind /\ commit'.id = id /\ commit'.through = through /\ commit'.cp = c
<1>1. commit' = [who |-> who, kind |-> kind, id |-> id, through |-> through, cp |-> c,
                 status |-> IF wire = "up" THEN "sent" ELSE "gone"]
  BY DEF Sends
<1>2. "kind" \in DOMAIN commit'
  BY <1>1
<1>3. "kind" \notin DOMAIN NoCommit
  BY DEF NoCommit
<1>4. QED
  BY <1>1, <1>2, <1>3 DEF Sends, OutboundFree

LEMMA SentGood == TypeInv' /\ commit' # NoCommit => commit'.cp \in Good
  BY DEF TypeInv, CommitType, CommitTyped, CommitRecords

\* A frame that carries no prompt and no cancel, with the driver's own account.
LEMMA PlainSends ==
  ASSUME Base, TypeInv', StartInv, NEW who, NEW kind, NEW id, NEW c, Sends(who, kind, id, c),
         UNCHANGED <<output, stdin, saved, orphan, node, wire, phase, through, faults>>,
         phase # "Absent", kind \notin {"prompt", "cancel"},
         cp'.input = cp.input, c.input = cp.input, cp.next <= cp'.next, cp.next <= c.next
  PROVE  StartInv'
<1>1. commit = NoCommit /\ commit' # NoCommit /\ commit'.kind = kind /\ commit'.through = through /\ commit'.cp = c
  BY SendsReal
<1>2. commit'.cp \in Good
  BY <1>1, SentGood
<1>3. QED
  BY <1>1, <1>2, SendsStart DEF Base, Within

LEMMA CancelSends ==
  ASSUME Base, TypeInv', StartInv, NEW who, CancelDue(cp.input),
         Sends(who, "cancel", cp.input.anchor, EncodedCancel(cp)),
         UNCHANGED <<output, stdin, saved, orphan, node, wire, phase, through, faults, cp>>
  PROVE  StartInv'
<1> DEFINE c == EncodedCancel(cp)
           a == cp.input.anchor
<1>0. phase # "Absent"
  <2>1. IdleInput.acc = {}
    BY DEF IdleInput
  <2>2. QED
    BY <2>1 DEF Base, AnchorType, CancelDue
<1>1. commit = NoCommit /\ commit' # NoCommit /\ commit'.kind = "cancel" /\ commit'.id = a /\ commit'.through = through
      /\ commit'.cp = c
  BY SendsReal
<1>2. commit'.cp \in Good
  BY <1>1, SentGood
<1>3. cp.input.st = "stopping" /\ cp.input.started
  BY DEF CancelDue
<1>4. c.next = cp.next /\ c.input = CancelAccepted(cp.input, a) /\ cp.next <= cp.next
  BY <1>0, HeldFacts DEF EncodedCancel, Base
<1>5. Within(cp.input, c.input) /\ c.input.reqs = cp.input.reqs /\ c.input.acc = cp.input.acc
  BY <1>0, <1>4, HeldFacts, InputWithin DEF Base
<1>6. c.input.anchor = a
  <2>1. CancelAccepted(cp.input, a) = [cp.input EXCEPT !.st = "cancelled"]
    BY <1>3 DEF CancelAccepted
  <2>2. cp.input \in Inputs
    BY <1>0, HeldFacts DEF GoodInputs, Base
  <2>3. QED
    BY <1>4, <2>1, <2>2 DEF Inputs
<1> HIDE DEF c, a
<1>7. QED
  BY <1>0, <1>1, <1>2, <1>3, <1>4, <1>5, <1>6, SendsStart DEF Base, a

LEMMA DispatchStart ==
  ASSUME Base, TypeInv', StartInv, NEW c \in Callers, Dispatch(c)
  PROVE  StartInv'
<1> DEFINE id == caller[c].rpc
<1>1. /\ TypeInv /\ UNCHANGED <<output, stdin, saved, orphan, node, wire, faults, through, phase>>
      /\ id \in Rpcs
  BY DEF Base, Inv, CallInv, InFlight, Dispatch, Unsent, childVars, runnerVars, wireVars
<1>2. CASE cp' = cp /\ commit' = commit
  <2>1. SendsNothing /\ JustTaken' = JustTaken /\ Grows(output, output') /\ through <= through
    BY <1>1, <1>2, Places DEF SendsNothing, JustTaken, Grows
  <2>2. QED
    BY <1>1, <1>2, <2>1, QuietStep
<1>3. CASE ~(cp' = cp /\ commit' = commit)
  <2>1. /\ phase # "Absent" /\ id \in cp.input.reqs
        /\ Sends(c, "prompt", id, EncodedPrompt(cp, id)) /\ cp' = WithPrompt(cp, id)
    BY <1>3 DEF Dispatch
  <2> DEFINE e == EncodedPrompt(cp, id)
  <2>2. cp \in [next : 1..(MaxRpc + 1), loaded : BOOLEAN, setup : 0..MaxRpc,
             pending : SUBSET Rpcs, asks : SUBSET Asks, responses : SUBSET Asks, input : Inputs] /\ cp.next <= cp.next
    BY <1>1, <2>1, HeldFacts DEF Good, Checkpoints
  <2>3. cp'.next = cp.next /\ cp'.input = cp.input
    BY <2>1, <2>2 DEF WithPrompt
  <2>4. e.next = cp.next /\ e.input = Accepted(cp.input, id)
    BY <2>2 DEF EncodedPrompt, WithPrompt
  <2>5. /\ Within(cp.input, e.input) /\ e.input.acc = cp.input.acc \cup {id}
    BY <1>1, <2>1, <2>4, HeldFacts, InputWithin
  <2>6. e.input.anchor = cp.input.anchor
    BY <2>1, <2>2, <2>4 DEF Accepted, Inputs
  <2> HIDE DEF e
  <2>7. commit = NoCommit /\ commit' # NoCommit /\ commit'.kind = "prompt" /\ commit'.id = id
        /\ commit'.through = through /\ commit'.cp = e
    BY <2>1, SendsReal DEF e
  <2>8. commit'.cp \in Good
    BY <2>7, SentGood
  <2>9. QED
    BY <1>1, <2>1, <2>2, <2>3, <2>4, <2>5, <2>6, <2>7, <2>8, SendsStart
<1>4. QED
  BY <1>2, <1>3

LEMMA CallsStart ==
  ASSUME Base, TypeInv', StartInv, Calls
  PROVE  StartInv'
<1>1. ASSUME NEW c \in Callers, CancelIfDue(c) PROVE StartInv'
  <2>1. TypeInv /\ UNCHANGED <<output, stdin, saved, orphan, node, wire, faults, through, phase, cp>>
    BY <1>1 DEF Base, CancelIfDue, Unsent, childVars, runnerVars, wireVars
  <2>2. CASE CancelDue(cp.input)
    BY <1>1, <2>1, <2>2, CancelSends DEF CancelIfDue
  <2>3. CASE ~CancelDue(cp.input)
    <3>1. commit' = commit
      BY <1>1, <2>3 DEF CancelIfDue
    <3>2. SendsNothing /\ JustTaken' = JustTaken /\ Grows(output, output') /\ through <= through
      BY <2>1, <3>1, Places DEF SendsNothing, JustTaken, Grows
    <3>3. QED
      BY <2>1, <3>2, QuietStep
  <2>4. QED
    BY <2>2, <2>3
<1>2. ASSUME NEW c \in Callers, NEW k \in Asks, Resolve(c, k) PROVE StartInv'
  <2>1. /\ TypeInv /\ UNCHANGED <<output, stdin, saved, orphan, node, wire, faults, through, phase, cp>>
        /\ phase # "Absent"
    BY <1>2 DEF Base, Resolve, Unsent, childVars, runnerVars, wireVars
  <2>2. cp \in [next : 1..(MaxRpc + 1), loaded : BOOLEAN, setup : 0..MaxRpc,
             pending : SUBSET Rpcs, asks : SUBSET Asks, responses : SUBSET Asks, input : Inputs] /\ cp.next <= cp.next
    BY <2>1, HeldFacts DEF Good, Checkpoints
  <2> DEFINE d == [cp EXCEPT !.asks = @ \ {k}]
  <2>3. d.next = cp.next /\ d.input = cp.input
    BY <2>2
  <2>4. Sends(c, "answer", k, d)
    BY <1>2 DEF Resolve
  <2> HIDE DEF d
  <2>5. QED
    BY <2>1, <2>2, <2>3, <2>4, PlainSends
<1>3. ASSUME NEW c \in Callers, DispatchStale(c) PROVE StartInv'
  BY <1>3, ReadsStart
<1>4. QED
  BY <1>1, <1>2, <1>3, StopStart, ReleaseStart, NumberedStart, DispatchStart DEF Calls

LEMMA ReadStart ==
  ASSUME Base, TypeInv', StartInv, Read
  PROVE  StartInv'
<1>1. CASE Acknowledge \/ FinishReplay \/ FlushResponse
  <2>1. /\ TypeInv /\ UNCHANGED <<output, stdin, saved, orphan, node, wire, faults, through, phase, cp>>
        /\ reader # "off" /\ cp \in Good
    BY <1>1 DEF Base, Acknowledge, FinishReplay, FlushResponse, Listening, ReaderFrame, childVars, runnerVars, wireVars,
                TypeInv, StateType
  <2>2. PICK kind, id0, d : /\ kind \in {"ack", "fence", "respond"}
                            /\ Sends("reader", kind, id0, d)
                            /\ d.input = cp.input /\ d.next = cp.next
    <3>1. CASE Acknowledge \/ FinishReplay
      BY <3>1 DEF Acknowledge, FinishReplay
    <3>2. CASE FlushResponse
      <4>1. PICK k \in cp.responses : Sends("reader", "respond", k, [cp EXCEPT !.responses = @ \ {k}])
        BY <3>2 DEF FlushResponse
      <4> DEFINE e == [cp EXCEPT !.responses = @ \ {k}]
      <4>2. e.input = cp.input /\ e.next = cp.next
        BY <2>1 DEF Good, Checkpoints
      <4>3. Sends("reader", "respond", k, e)
        BY <4>1
      <4> HIDE DEF e
      <4>4. QED
        BY <4>2, <4>3
    <3>3. QED
      BY <1>1, <3>1, <3>2
  <2>3. CASE phase # "Absent"
    <3>1. cp.next <= cp.next /\ cp.next <= d.next
      BY <2>1, <2>2, <2>3, HeldFacts
    <3>2. QED
      BY <2>1, <2>2, <2>3, <3>1, PlainSends
  <2>4. CASE phase = "Absent"
    <3>1. node = "none"
      BY <2>1, <2>4 DEF Base, Inv, OpenInv
    <3>2. commit'.kind \notin {"prompt", "cancel"}
      <4>1. commit'.kind = kind
        BY <2>2, SendsReal
      <4>2. QED
        BY <2>2, <4>1
    <3>3. SendsNothing /\ Grows(output, output')
      BY <2>1, <3>1, <3>2 DEF SendsNothing, Grows
    <3>4. QED
      BY <2>1, <2>4, <3>3, QuietStep
  <2>5. QED
    BY <2>3, <2>4
<1>2. CASE ReaderCancelsIfDue
  <2>1. TypeInv /\ UNCHANGED <<output, stdin, saved, orphan, node, wire, faults, through, phase, cp>>
    BY <1>2 DEF Base, ReaderCancelsIfDue, ReaderFrame, childVars, runnerVars, wireVars
  <2>2. CASE CancelDue(cp.input)
    BY <1>2, <2>1, <2>2, CancelSends DEF ReaderCancelsIfDue
  <2>3. CASE ~CancelDue(cp.input)
    <3>1. commit' = commit
      BY <1>2, <2>3 DEF ReaderCancelsIfDue
    <3>2. SendsNothing /\ JustTaken' = JustTaken /\ Grows(output, output') /\ through <= through
      BY <2>1, <3>1, Places DEF SendsNothing, JustTaken, Grows
    <3>3. QED
      BY <2>1, <3>2, QuietStep
  <2>4. QED
    BY <2>2, <2>3
<1>3. QED
  BY <1>1, <1>2, ApplyFrameStart, ReadsStart DEF Read

LEMMA PrepareStart ==
  ASSUME Base, TypeInv', StartInv, Prepare
  PROVE  StartInv'
<1>0. CASE phase \in {"Closing", "Absent", "Unavailable"}
  <2>1. /\ TypeInv
        /\ UNCHANGED <<output, stdin, saved, commit, orphan, node, wire, faults, through, phase, cp>>
    BY <1>0 DEF Base, Prepare, childVars, runnerVars, wireVars
  <2>2. SendsNothing /\ JustTaken' = JustTaken /\ Grows(output, output') /\ through <= through
    BY <2>1, Places DEF SendsNothing, JustTaken, Grows
  <2>3. QED
    BY <2>1, <2>2, QuietStep
<1> SUFFICES ASSUME phase \notin {"Closing", "Absent", "Unavailable"}
             PROVE  StartInv'
  BY <1>0
<1>1. /\ TypeInv /\ UNCHANGED <<output, stdin, saved, orphan, node, wire, faults, through, phase>>
      /\ cp' = WithSetup(cp) /\ Sends("opener", "setup", cp.next, WithSetup(cp))
      /\ phase # "Absent"
  BY DEF Base, Inv, OpenInv, Prepare, childVars, runnerVars, wireVars
<1>2. WithSetup(cp).input = cp.input /\ WithSetup(cp).next = cp.next + 1 /\ cp.next <= cp.next + 1
  <2>1. cp \in [next : 1..(MaxRpc + 1), loaded : BOOLEAN, setup : 0..MaxRpc,
             pending : SUBSET Rpcs, asks : SUBSET Asks, responses : SUBSET Asks, input : Inputs] /\ cp.next \in Nat
    BY <1>1, HeldFacts DEF Good, Checkpoints
  <2>2. QED
    BY <2>1 DEF WithSetup
<1>3. QED
  BY <1>1, <1>2, PlainSends

\* A new session: over a new child, or over what the runner kept of this one.
LEMMA AttachStart ==
  ASSUME Base, TypeInv', StartInv, Attach
  PROVE  StartInv'
<1>1. /\ TypeInv /\ commit = NoCommit /\ commit' = NoCommit /\ orphan = NoCommit /\ orphan' = NoCommit
      /\ faults' = faults /\ node' = "Replaying" /\ (node # "none" => wire = "down")
  BY DEF Base, Inv, OpenInv, Attach, AlreadyAttached, Attached, TypeInv, RunnerType, StateType
<1>2. /\ Due = Told /\ Cancels = Cancelled /\ Due' = Told' /\ Cancels' = Cancelled'
  BY <1>1 DEF Due, Cancels, Told, Cancelled, Put, Going
<1>3. JustTaken' = {} /\ SentInv'
  BY <1>1 DEF JustTaken, SentInv
<1>4. CASE node = "none"
  <2>1. /\ output' = <<>> /\ stdin' = <<>> /\ saved' = NothingSaved /\ cp' = Fresh /\ through' = 0
    BY <1>4 DEF Attach
  <2>2. Told' = {} /\ Cancelled' = {}
    BY <2>1 DEF Told, Cancelled, Given, GivenTo
  <2>3. Fits(output', Fresh, 0, {}, {}) /\ \A ids : Accounts(output', ids, 0, {})
    <3>1. /\ Fresh.input = IdleInput /\ Fresh.next = 1 /\ IdleInput.anchor = 0 /\ IdleInput.reqs = {}
          /\ IdleInput.started = FALSE
      BY DEF Fresh, IdleInput
    <3>2. QED
      BY <3>1 DEF Fits, Accounts
  <2>4. QED
    BY <1>2, <1>3, <2>1, <2>2, <2>3 DEF StartInv, HeldInv, TakenInv, SavedInv, BegunInv, NothingSaved
<1>5. CASE node # "none"
  <2>1. /\ UNCHANGED <<output, stdin, saved>> /\ cp' = Restored(saved.cp) /\ through' = saved.through
    BY <1>5 DEF Attach, childVars
  <2>2. Told' = Told /\ Cancelled' = Cancelled
    BY <2>1 DEF Told, Cancelled, Given
  <2> DEFINE in == saved.cp.input
             jn == IF in.acc = {} THEN IdleInput ELSE [in EXCEPT !.reqs = in.acc]
  <2>3. /\ Fits(output, saved.cp, saved.through, Told, Cancelled) /\ Accounts(output, in.acc, saved.through, Told)
    BY <1>1, <1>5 DEF StartInv, SavedInv
  <2>4. /\ saved.cp \in Good /\ in \in GoodInputs /\ IdleInput.acc = {} /\ IdleInput.reqs = {}
        /\ saved.cp \in [next : 1..(MaxRpc + 1), loaded : BOOLEAN, setup : 0..MaxRpc,
             pending : SUBSET Rpcs, asks : SUBSET Asks, responses : SUBSET Asks, input : Inputs]
    BY <1>1, Places, CheckpointFacts DEF IdleInput, Good, Checkpoints
  <2>5. Restored(saved.cp).input = jn /\ Restored(saved.cp).next = saved.cp.next
    <3>0. Restored(saved.cp) = [saved.cp EXCEPT !.pending = @ \ Unaccepted(in), !.input = jn]
      BY DEF Restored
    <3> HIDE DEF jn
    <3>1. QED
      BY <2>4, <3>0
  <2>6. Within(in, jn) /\ jn.reqs = in.acc /\ jn.acc = in.acc
    <3>1. CASE in.acc = {}
      BY <2>4, <3>1 DEF Within
    <3>2. CASE in.acc # {}
      <4>1. in.st # "idle" /\ in.acc \subseteq in.reqs
        BY <2>3, <2>4, <3>2 DEF Fits, GoodInputs
      <4>2. jn = [in EXCEPT !.reqs = in.acc] /\ in \in Inputs
        BY <2>4, <3>2 DEF GoodInputs
      <4>3. QED
        BY <4>1, <4>2 DEF Within, Inputs
    <3>3. QED
      BY <3>1, <3>2
  <2>7. cp' \in Good /\ cp'.next \in Nat /\ saved.cp.next \in Nat
    BY <2>4, PlacesNext, CheckpointFacts
  <2>8. Fits(output, cp', saved.through, Told, Cancelled)
    <3>1. Cancelled \subseteq Nat /\ saved.cp.next <= cp'.next /\ Within(in, cp'.input)
      BY <2>1, <2>5, <2>6, <2>7, BoundsAssumption DEF Cancelled
    <3>2. QED
      BY <2>3, <2>4, <2>7, <3>1, FitsWithin
  <2>9. HeldInv' /\ TakenInv'
    BY <1>2, <1>3, <2>1, <2>2, <2>3, <2>5, <2>6, <2>8 DEF HeldInv, TakenInv
  <2>10. SavedInv' /\ BegunInv'
    BY <1>1, <1>2, <1>5, <2>1, <2>2 DEF StartInv, SavedInv, BegunInv
  <2>11. QED
    BY <1>3, <2>9, <2>10 DEF StartInv
<1>6. QED
  BY <1>4, <1>5

LEMMA StartStep ==
  ASSUME Base, TypeInv', StartInv, [Next]_vars, faults' <= 1
  PROVE  StartInv'
<1>1. CASE Open
  BY <1>1, OpensStart, AttachStart, PrepareStart, FaultStart DEF Open
<1>2. CASE Child \/ RunnerAnswers \/ OrphanRuns \/ Calls \/ Settle \/ Read
  BY <1>2, ChildStart, RunnerAnswersStart, OrphanRunsStart, CallsStart, SettleStart, ReadStart
<1>3. CASE WireDies \/ CommitTimesOut \/ BackendRestarts
  BY <1>3, FaultStart, CommitTimesOutStart
<1>4. CASE UNCHANGED vars
  <2>1. /\ TypeInv /\ UNCHANGED <<output, stdin, saved, commit, orphan, node, wire, faults, phase, cp, through>>
    BY <1>4 DEF Base, vars, childVars, runnerVars, wireVars, sessionVars, stateVars
  <2>2. SendsNothing /\ JustTaken' = JustTaken /\ Grows(output, output') /\ through <= through
    BY <2>1, Places DEF SendsNothing, JustTaken, Grows
  <2>3. QED
    BY <2>1, <2>2, QuietStep
<1>5. QED
  BY <1>1, <1>2, <1>3, <1>4 DEF Next

-----------------------------------------------------------------------------
(* The shape of cancels and replies.                                       *)

LEMMA CancelsNumbered ==
  ASSUME Base, [Next]_vars
  PROVE  \A i \in DOMAIN stdin' : stdin'[i].kind = "cancel" => stdin'[i].id \in 0..MaxRpc
<1>0. TypeInv /\ Inv /\ \A i \in DOMAIN stdin : stdin[i].kind = "cancel" => stdin[i].id \in 0..MaxRpc
  BY DEF Base, AnchorType
<1>1. CASE stdin' \in {stdin, <<>>}
  BY <1>0, <1>1
<1>2. CASE stdin' \notin {stdin, <<>>}
  <2>1. PICK r \in {commit, orphan} : r # NoCommit /\ stdin' = Append(stdin, [kind |-> r.kind, id |-> r.id])
    BY <1>0, <1>2, InputGrows
  <2> DEFINE o == [kind |-> r.kind, id |-> r.id]
  <2>2. o.kind = "cancel" => o.id \in 0..MaxRpc
    BY <2>1 DEF Base, AnchorType
  <2> HIDE DEF o
  <2>3. /\ DOMAIN stdin' = 1..(Len(stdin) + 1) /\ DOMAIN stdin = 1..Len(stdin) /\ Len(stdin) \in Nat
        /\ stdin'[Len(stdin) + 1] = o /\ \A i \in DOMAIN stdin : stdin'[i] = stdin[i]
    BY <1>0, <2>1 DEF TypeInv, FrameType, o
  <2>4. \A i \in DOMAIN stdin' : i \in DOMAIN stdin \/ i = Len(stdin) + 1
    BY <2>3
  <2>5. QED
    BY <1>0, <2>2, <2>3, <2>4
<1>3. QED
  BY <1>1, <1>2

\* What becomes of the commit: decided or given up on, gone, or newly sent.
LEMMA CommitMoves ==
  ASSUME TypeInv, [Next]_vars
  PROVE  /\ \/ commit' \in {commit, NoCommit}
            \/ commit # NoCommit /\ \E s : commit' = [commit EXCEPT !.status = s]
            \/ /\ commit'.kind = "cancel" => commit'.id = cp.input.anchor
         /\ orphan' \in {orphan, NoCommit} \/ (orphan' = commit /\ commit.status = "sent")
         /\ faults' \in {faults, faults + 1}
<1>1. CASE Child \/ OrphanRuns \/ Settle \/ UNCHANGED vars
  BY <1>1 DEF Child, OrphanRuns, Settle, SettlePrompt, SettleSetup, SettleCancel, SettleAnswer, SettleAck,
       SettleResponse, Settled, AfterSettling, vars, wireVars, sessionVars
<1>2. CASE RunnerAnswers \/ WireDies \/ CommitTimesOut \/ BackendRestarts
  BY <1>2 DEF RunnerAnswers, WireDies, CommitTimesOut, BackendRestarts, Fault, OutboundFree, wireVars
<1>3. ASSUME NEW c \in Callers, NEW k \in Asks,
             \/ Reserve(c) \/ Steer(c) \/ ReleaseReservation(c) \/ DispatchStale(c) \/ Stop(c) \/ Resolve(c, k)
      PROVE  /\ commit' = commit \/ commit'.kind = "answer"
             /\ orphan' = orphan /\ faults' = faults
  BY <1>3, SendsReal DEF Reserve, Steer, ReleaseReservation, DispatchStale, Stop, Resolve, Unsent, wireVars
<1>4. ASSUME NEW c \in Callers, Dispatch(c)
      PROVE  /\ commit' = commit \/ commit'.kind = "prompt"
             /\ orphan' = orphan /\ faults' = faults
  BY <1>4, SendsReal DEF Dispatch, Unsent, wireVars
<1>5. ASSUME NEW c \in Callers, CancelIfDue(c)
      PROVE  /\ commit' = commit \/ commit'.id = cp.input.anchor
             /\ orphan' = orphan /\ faults' = faults
  BY <1>5, SendsReal DEF CancelIfDue, Unsent, wireVars
<1>6. ASSUME NEW c \in Callers,
             \/ Reserve(c) \/ Steer(c) \/ ReleaseReservation(c) \/ DispatchStale(c) \/ Stop(c)
      PROVE  commit' = commit /\ orphan' = orphan /\ faults' = faults
  BY <1>6 DEF Reserve, Steer, ReleaseReservation, DispatchStale, Stop, Unsent, wireVars
<1>7. CASE Calls
  BY <1>3, <1>4, <1>5, <1>6, <1>7 DEF Calls
<1>8. CASE Read
  <2>1. orphan' = orphan /\ faults' = faults
    BY <1>8 DEF Read, ApplyFrame, CountFrame, Acknowledge, FinishReplay, FlushResponse, ReaderCancelsIfDue,
                ReaderEnds, ReaderFrame, wireVars
  <2>2. commit' = commit \/ commit'.kind \in {"ack", "fence", "respond"} \/ commit'.id = cp.input.anchor
    BY <1>8, SendsReal DEF Read, ApplyFrame, CountFrame, Acknowledge, FinishReplay, FlushResponse,
                           ReaderCancelsIfDue, ReaderEnds
  <2>3. QED
    BY <2>1, <2>2
<1>9. CASE Open
  <2>1. orphan' \in {orphan, NoCommit} /\ faults' \in {faults, faults + 1}
    BY <1>9 DEF Open, Retire, Attach, AttachFails, Opened, FindUnloaded, JoinSetup, Prepare, Prepared,
                PrepareFails, PrepareTimesOut, OpenerOnly, Close, Closed, CloseUnanswered, NoChild, wireVars
  <2>2. commit' = commit \/ commit'.kind = "setup"
    BY <1>9, SendsReal DEF Open, Retire, Attach, AttachFails, Opened, FindUnloaded, JoinSetup, Prepare, Prepared,
                PrepareFails, PrepareTimesOut, OpenerOnly, Close, Closed, CloseUnanswered
  <2>3. QED
    BY <2>1, <2>2
<1>10. QED
  BY <1>1, <1>2, <1>7, <1>8, <1>9 DEF Next

\* A request is answered once.
LEMMA RepliesOnce ==
  ASSUME Base, [Next]_vars
  PROVE  \A i, j \in DOMAIN output' : SameAnswer(output'[i], output'[j]) => i = j
<1>0. TypeInv /\ \A i, j \in DOMAIN output : SameAnswer(output[i], output[j]) => i = j
  BY DEF Base, AnchorType
<1>1. CASE output' \in {output, <<>>}
  BY <1>0, <1>1
<1>2. CASE Child
  <2>1. PICK x : output' = Append(output, x) /\ \A i \in DOMAIN output : ~SameAnswer(output[i], x)
    <3>1. ASSUME NEW kind, NEW id, Writes(kind, id), kind \in Answer => ~Answered(id)
          PROVE  \E x : output' = Append(output, x) /\ \A i \in DOMAIN output : ~SameAnswer(output[i], x)
      <4> DEFINE x == [kind |-> kind, id |-> id]
      <4>1. output' = Append(output, x) /\ x.kind = kind /\ x.id = id
        BY <3>1 DEF Writes
      <4> HIDE DEF x
      <4>2. ASSUME NEW i \in DOMAIN output, SameAnswer(output[i], x) PROVE FALSE
        <5>1. output[i] \in Frames
          BY <1>0 DEF TypeInv, FrameType
        <5>2. output[i] = [kind |-> output[i].kind, id |-> id] /\ output[i].kind \in Answer /\ kind \in Answer
          BY <4>1, <4>2, <5>1 DEF SameAnswer, Frames
        <5>3. QED
          BY <3>1, <5>2 DEF Answered, Wrote, GivenTo
      <4>3. QED
        BY <4>1, <4>2
    <3>2. \E kind, id : Writes(kind, id) /\ (kind \in Answer => ~Answered(id))
      <4>1. CASE \E id \in Rpcs : ChildReplies(id) \/ ChildRefuses(id)
        BY <4>1 DEF ChildReplies, ChildRefuses
      <4>2. CASE ChildWorks \/ ChildExits \/ \E k \in Asks : ChildAsks(k) \/ ChildSettles(k) \/ ChildCalls(k)
        BY <4>2 DEF ChildAsks, ChildSettles, ChildCalls, ChildWorks, ChildExits
      <4>3. QED
        BY <1>2, <4>1, <4>2 DEF Child
    <3>3. QED
      BY <3>1, <3>2
  <2>2. /\ DOMAIN output' = 1..(Len(output) + 1) /\ DOMAIN output = 1..Len(output) /\ Len(output) \in Nat
        /\ output'[Len(output) + 1] = x /\ \A i \in DOMAIN output : output'[i] = output[i]
    BY <1>0, <2>1 DEF TypeInv, FrameType
  <2>3. \A i \in DOMAIN output' : i \in DOMAIN output \/ i = Len(output) + 1
    BY <2>2
  <2>4. \A f, g : SameAnswer(f, g) <=> SameAnswer(g, f)
    BY DEF SameAnswer
  <2>5. QED
    BY <1>0, <2>1, <2>2, <2>3, <2>4
<1>3. CASE (Next /\ ~Child) \/ UNCHANGED vars
  <2>1. output' \in {output, <<>>}
    <3>1. CASE RunnerAnswers \/ OrphanRuns \/ Calls \/ Settle \/ Read \/ UNCHANGED vars
      BY <3>1 DEF RunnerAnswers, OrphanRuns, Calls, Unsent, Reserve, Steer, ReleaseReservation, Dispatch,
        DispatchStale, Stop, CancelIfDue, Resolve, Settle, SettlePrompt, SettleSetup, SettleCancel, SettleAnswer,
        SettleAck, SettleResponse, AfterSettling, Read, ApplyFrame, CountFrame, Acknowledge, FinishReplay,
        FlushResponse, ReaderCancelsIfDue, ReaderEnds, ReaderFrame, vars, childVars
    <3>2. CASE Open \/ WireDies \/ CommitTimesOut \/ BackendRestarts
      BY <3>2 DEF Open, Retire, Attach, AttachFails, Opened, FindUnloaded, JoinSetup, Prepare, Prepared, PrepareFails,
        PrepareTimesOut, OpenerOnly, Close, Closed, CloseUnanswered, WireDies, CommitTimesOut, BackendRestarts,
        childVars
    <3>3. QED
      BY <1>3, <3>1, <3>2 DEF Next
  <2>2. QED
    BY <1>1, <2>1
<1>4. QED
  BY <1>2, <1>3

\* An absent session has no input.
LEMMA AbsentIdle ==
  ASSUME Base, [Next]_vars, phase' = "Absent"
  PROVE  cp'.input = IdleInput
<1>0. /\ TypeInv /\ (phase = "Absent" => cp.input = IdleInput) /\ Fresh.input = IdleInput
      /\ cp \in [next : 1..(MaxRpc + 1), loaded : BOOLEAN, setup : 0..MaxRpc,
             pending : SUBSET Rpcs, asks : SUBSET Asks, responses : SUBSET Asks, input : Inputs]
      /\ IdleInput.st = "idle" /\ IdleInput.reqs = {}
  BY DEF Base, AnchorType, TypeInv, StateType, Good, Checkpoints, Fresh, IdleInput
<1>1. CASE cp' = cp /\ (phase' = "Absent" => phase = "Absent")
  BY <1>0, <1>1
<1>2. CASE Child \/ RunnerAnswers \/ OrphanRuns \/ WireDies \/ CommitTimesOut \/ UNCHANGED vars
  <2>1. cp' = cp /\ phase' = phase
    BY <1>2 DEF Child, RunnerAnswers, OrphanRuns, WireDies, CommitTimesOut, vars, sessionVars, stateVars
  <2>2. QED
    BY <1>1, <2>1
<1>3. CASE BackendRestarts \/ Open
  <2>1. CASE Retire \/ AttachFails \/ BackendRestarts
    BY <1>0, <2>1 DEF Retire, AttachFails, BackendRestarts, Forget
  <2>2. CASE Closed
    <3>1. cp' = Expired(cp)
      BY <2>2 DEF Closed
    <3>2. QED
      BY <1>0, <3>1 DEF Expired
  <2>3. CASE Attach \/ Prepare
    BY <2>3 DEF Attach, Prepare, Base, Inv, OpenInv
  <2>4. CASE \/ Opened \/ FindUnloaded \/ JoinSetup \/ Prepared \/ PrepareFails \/ PrepareTimesOut
             \/ Close \/ CloseUnanswered
    <3>1. cp' = cp /\ (phase' = "Absent" => phase = "Absent")
      BY <2>4 DEF Opened, FindUnloaded, JoinSetup, Prepared, PrepareFails, PrepareTimesOut, OpenerOnly, Close,
                  CloseUnanswered, stateVars, Lost
    <3>2. QED
      BY <1>1, <3>1
  <2>5. QED
    BY <1>3, <2>1, <2>2, <2>3, <2>4 DEF Open
<1>4. CASE Calls
  <2>1. phase = "Absent"
    BY <1>4 DEF Calls, Reserve, Steer, ReleaseReservation, Dispatch, DispatchStale, Stop, CancelIfDue, Resolve
  <2>2. cp' = cp
    BY <1>0, <1>4, <2>1 DEF Calls, Reserve, Steer, ReleaseReservation, Dispatch, DispatchStale, Stop,
                            CancelIfDue, Resolve
  <2>3. QED
    BY <1>1, <2>1, <2>2
<1>5. CASE Read
  <2>1. phase = "Absent"
    BY <1>5 DEF Read, ApplyFrame, CountFrame, Acknowledge, FinishReplay, FlushResponse,
                ReaderCancelsIfDue, ReaderEnds, Lost
  <2>2. cp' = cp
    BY <1>5, <2>1 DEF Read, ApplyFrame, CountFrame, Acknowledge, FinishReplay, FlushResponse,
                       ReaderCancelsIfDue, ReaderEnds, Ending
  <2>3. QED
    BY <1>1, <2>1, <2>2
<1>6. CASE Settle
  <2>1. phase = "Absent"
    BY <1>6 DEF Settle, SettlePrompt, SettleSetup, SettleCancel, SettleAnswer, SettleAck, SettleResponse, Lost
  <2>2. \A x : /\ Accepted(IdleInput, x) = IdleInput /\ Finished(IdleInput, x) = IdleInput
               /\ CancelAccepted(IdleInput, x) = IdleInput /\ CancelRefused(IdleInput, x) = IdleInput
    BY <1>0 DEF Accepted, Finished, CancelAccepted, CancelRefused
  <2>3. cp.input = IdleInput
    BY <1>0, <2>1
  <2>4. CASE SettlePrompt
    <3>1. \E x : cp'.input \in {cp.input, Accepted(cp.input, x), Finished(cp.input, x)}
      BY <1>0, <2>4 DEF SettlePrompt
    <3>2. QED
      BY <2>2, <2>3, <3>1
  <2>5. CASE SettleCancel
    <3>1. \E x : cp'.input \in {cp.input, CancelAccepted(cp.input, x), CancelRefused(cp.input, x)}
      BY <1>0, <2>5 DEF SettleCancel
    <3>2. QED
      BY <2>2, <2>3, <3>1
  <2>6. CASE SettleSetup \/ SettleAnswer \/ SettleAck \/ SettleResponse
    <3>1. cp'.input = cp.input
      BY <1>0, <2>6 DEF SettleSetup, SettleAnswer, SettleAck, SettleResponse
    <3>2. QED
      BY <2>3, <3>1
  <2>7. QED
    BY <1>6, <2>4, <2>5, <2>6 DEF Settle
<1>7. QED
  BY <1>2, <1>3, <1>4, <1>5, <1>6 DEF Next

LEMMA AnchorStep ==
  ASSUME Base, [Next]_vars
  PROVE  AnchorType'
<1>1. TypeInv /\ AnchorType /\ cp.input.anchor \in 0..MaxRpc
  BY CheckpointFacts DEF Base, TypeInv, StateType, GoodInputs, Inputs
<1>2. commit' # NoCommit /\ commit'.kind = "cancel" => commit'.id \in 0..MaxRpc
  <2>1. CASE commit # NoCommit /\ \E s : commit' = [commit EXCEPT !.status = s]
    <3>1. commit'.kind = commit.kind /\ commit'.id = commit.id
      BY <1>1, <2>1 DEF TypeInv, CommitType, CommitTyped, CommitRecords
    <3>2. QED
      BY <1>1, <2>1, <3>1 DEF AnchorType
  <2>2. CASE ~(commit # NoCommit /\ \E s : commit' = [commit EXCEPT !.status = s])
    BY <1>1, <2>2, CommitMoves DEF AnchorType
  <2>3. QED
    BY <2>1, <2>2
<1>3. orphan' # NoCommit => orphan'.status = "sent" /\ (orphan'.kind = "cancel" => orphan'.id \in 0..MaxRpc)
  BY <1>1, CommitMoves DEF AnchorType
<1>4. faults' \in Nat
  BY <1>1, CommitMoves DEF AnchorType
<1>5. QED
  BY <1>2, <1>3, <1>4, CancelsNumbered, RepliesOnce, AbsentIdle DEF AnchorType

LEMMA InitStart == Init => AnchorType /\ StartInv
<1> SUFFICES ASSUME Init PROVE AnchorType /\ StartInv
  OBVIOUS
<1>1. /\ output = <<>> /\ stdin = <<>> /\ node = "none" /\ commit = NoCommit /\ orphan = NoCommit
      /\ phase = "Absent" /\ cp = Fresh /\ faults = 0
  BY DEF Init
<1>2. Cancels = {}
  BY <1>1 DEF Cancels, Put, Given, GivenTo, Going
<1>3. QED
  BY <1>1, <1>2 DEF AnchorType, StartInv, HeldInv, TakenInv, SentInv, SavedInv, BegunInv, Fresh

-----------------------------------------------------------------------------
(* The theorems.                                                           *)

\* Every reachable state has the shape TypeOK gives it (session/state.rs State, Checkpoint).
THEOREM TypesHold == Spec => []TypeOK
<1>1. TypeInv => TypeOK
  BY BoundsAssumption DEF TypeInv, FrameType, RunnerType, StateType, ReaderType, CallerType, TypeOK, Good, GoodInputs
<1>2. QED
  BY <1>1, Invariant, PTL

\* prompt() and steer() report what became of their input (session.rs:480-618):
\* "started" only what the child was handed, "rejected" only what it never will be.
THEOREM VerdictsAreTrue == Spec => []TruthfulVerdicts
<1>1. Inv => TruthfulVerdicts
  BY DEF Inv, CallInv, Never, Carries, TruthfulVerdicts
<1>2. QED
  BY <1>1, Invariant, PTL

\* No prompt is handed to one child twice, and no session/new or session/load while
\* another waits for its reply (session.rs:274-334 prepare).
THEOREM InputsAreSentOnce == Spec => []NoInputTwice
<1>1. Init => RequestsNumbered /\ NoInputTwice
  BY DEF Init, RequestsNumbered, NoInputTwice
<1>2. TypeInv /\ Inv /\ RequestsNumbered /\ NoInputTwice /\ [Next]_vars => (RequestsNumbered /\ NoInputTwice)'
  BY OnceStep
<1>3. QED
  BY <1>1, <1>2, Invariant, PTL DEF Spec

\* The checkpoint the runner keeps waits for no reply that was acknowledged.
THEOREM RepliesAreKept == Spec => []NoReplyLost
<1>1. TypeInv /\ Inv => NoReplyLost
  <2> SUFFICES ASSUME TypeInv, Inv, NEW i \in 1..saved.through, output[i].kind \in Answer
               PROVE  output[i].id \notin saved.cp.pending \cup {saved.cp.setup}
    BY DEF NoReplyLost
  <2>1. output[i].id \notin Owes(saved.cp)
    BY DEF Inv, BookInv, ClearInv, Clear
  <2>2. i \in 1..Len(output)
    BY DEF TypeInv, RunnerType, FrameType
  <2>3. output[i].id \in Rpcs
    BY <2>2, RepliesTaken DEF Inv, BookInv
  <2>4. QED
    BY <2>1, <2>3, BoundsAssumption DEF Owes, Rpcs
<1>2. QED
  BY <1>1, Invariant, PTL

\* A question the driver acknowledged is shown again until it is answered or settled,
\* and a call it has no method for is refused (permission.rs:95-122).
THEOREM QuestionsAreKept == Spec => []NoQuestionForgotten
<1>1. Inv => NoQuestionForgotten
  BY DEF Inv, BookInv, AskInv, RespondInv, Heard, Waits, Unmet, NoQuestionForgotten
<1>2. QED
  BY <1>1, Invariant, PTL

\* state.rs:228: a cancel is written once the child has begun the run it cancels.
THEOREM CancelsFollowStarts == Spec => []CancelAfterStart
<1> DEFINE S == AnchorType /\ (faults <= 1 => StartInv)
<1>1. Init => S
  BY InitStart
<1>2. TypeInv /\ Inv /\ S /\ [Next]_vars => S'
  <2> SUFFICES ASSUME Base, faults <= 1 => StartInv, [Next]_vars PROVE S'
    BY DEF Base
  <2>1. AnchorType' /\ TypeInv'
    BY AnchorStep, EveryStep DEF Base
  <2>2. ASSUME faults' <= 1 PROVE faults <= 1
    BY <2>2, CommitMoves DEF Base, AnchorType
  <2>3. QED
    BY <2>1, <2>2, StartStep
<1>3. TypeInv /\ S => CancelAfterStart
  <2> SUFFICES ASSUME TypeInv, S, NEW i \in DOMAIN stdin, stdin[i].kind = "cancel", faults <= 1
               PROVE  \E w \in DOMAIN output :
                        /\ output[w].kind \in {"work", "ask"}
                        /\ \A j \in w..Len(output) : output[j].kind \in Answer =>
                             ~(output[j].id < stdin[i].id /\ Given("prompt", output[j].id))
    BY DEF CancelAfterStart
  <2> DEFINE a == stdin[i].id
  <2>1. a \in 0..MaxRpc /\ StartInv
    BY DEF AnchorType
  <2>2. Given("cancel", a)
    <3>1. stdin[i] \in Orders
      BY DEF TypeInv, FrameType
    <3>2. stdin[i] = [kind |-> "cancel", id |-> a]
      BY <3>1 DEF Orders
    <3>3. QED
      BY <3>2 DEF Given, GivenTo
  <2>3. PICK w \in DOMAIN output : Begins(output, w, a, Due)
    BY <2>1, <2>2 DEF StartInv, BegunInv, Began, Cancels, Put
  <2> HIDE DEF a
  <2>4. ASSUME NEW j \in w..Len(output), output[j].kind \in Answer, output[j].id < a, Given("prompt", output[j].id)
        PROVE  FALSE
    <3>1. j \in DOMAIN output /\ output[j] \in Frames /\ output[j].id \in Rpcs /\ w \in Nat /\ j \in Nat /\ w <= j
      <4>1. DOMAIN output = 1..Len(output) /\ Len(output) \in Nat
        BY DEF TypeInv, FrameType
      <4>2. j \in DOMAIN output
        BY <4>1
      <4>3. QED
        BY <2>4, <4>1, <4>2 DEF TypeInv, FrameType
    <3>2. output[j].id \in Due
      BY <2>4, <3>1 DEF Due, Put
    <3>3. PICK k \in DOMAIN output : k <= w /\ output[k].kind \in Answer /\ output[k].id = output[j].id
      BY <2>3, <2>4, <3>2 DEF Begins, Over
    <3>4. SameAnswer(output[k], output[j])
      BY <2>4, <3>3 DEF SameAnswer
    <3>5. k = j
      BY <3>1, <3>4 DEF AnchorType
    <3>6. k = w
      <4>1. k \in Nat
        BY <3>1, <3>5
      <4>2. QED
        BY <3>1, <3>3, <3>5, <4>1
    <3>7. QED
      BY <2>3, <2>4, <3>5, <3>6 DEF Begins
  <2>5. QED
    BY <2>3, <2>4 DEF Begins, a
<1>4. QED
  BY <1>1, <1>2, <1>3, Invariant, PTL DEF Spec
=============================================================================
