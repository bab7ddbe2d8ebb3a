---------------------------- MODULE TaskSessions ----------------------------
(***************************************************************************)
(* How the backend watches one conversation: who needs the subscription,   *)
(* what the provider reports, and what a slow read may still say once the  *)
(* stream has moved on.                                                    *)
(*                                                                         *)
(*   app/tasks/sessions.rs and sessions/*.rs   the session's entry         *)
(*   app/tasks/runtime/bridge.rs               Codex connections, recovery *)
(*   app/tasks/runtime/claude_bridge.rs        Claude reports              *)
(*   app/tasks/routes/commands.rs              prompts and stops           *)
(*   app/tasks/detail.rs                       viewers and their bootstrap *)
(*                                                                         *)
(* The entry keeps counters (revision, status_revision, observation_epoch) *)
(* that are only ever compared with a value read earlier.  `moved` keeps,  *)
(* for each task that read them, which of them moved since.                *)
(***************************************************************************)
EXTENDS Naturals, Sequences, FiniteSets

CONSTANTS
  Roles,         \* commands considered, of those CommandBegins starts
  Kinds,         \* agents considered: a subset of {"codex", "claude"}
  MaxViewers,    \* bound: open views of the Task
  MaxTurns,      \* bound: turns the agent begins
  MaxGeneration, \* bound: Codex connections
  MaxWork,       \* bound: times Claude's own work starts or stops without a turn
  MaxReports,    \* bound: the agent acts while fewer reports wait
  MaxFaults      \* bound: exits, refused calls and lags

ASSUME InstanceAssumption ==
  /\ Kinds \subseteq {"codex", "claude"} /\ Kinds # {}
  /\ Roles \subseteq {"bootstrap", "prompt", "stop", "recover"}
  /\ {MaxViewers, MaxTurns, MaxWork, MaxReports, MaxFaults} \subseteq Nat
  /\ MaxGeneration \in Nat \ {0}

VARIABLES
  kind,     \* SessionState.agent, once opened
  agent,    \* the agent's own account: turns begun, the one running, busy
  link,     \* the provider's connection: generation, up, reporting this thread;
            \* history: what of a subscription it closed could still come in late
  chan,     \* reports of each connection not yet taken by its bridge
  observer, \* connections whose loss CodexConnectionObserver has yet to tell
  restore,  \* restore_connection_state on the newest connection
  entry,    \* SessionState
  viewers,  \* SessionState.viewer_leases
  boots,    \* views whose bootstrap has not begun
  line,     \* SessionEntry.operation: its holder first, then those waiting
  op,       \* where the holder stands
  cmd,      \* the holder of SessionEntry.mutation
  moved,    \* what moved since the operation, and the command, read it
  faults    \* history: the faults so far

agentVars == <<agent, link, chan, observer>>
vars == <<kind, agentVars, restore, entry, viewers, boots, line, op, cmd, moved, faults>>

Turns == 1..MaxTurns
TurnOrNone == 0..MaxTurns
Generations == 1..MaxGeneration
Status == {"none", "active", "idle"}
Marks == {"epoch", "revision", "status"}
Pages == [Turns -> {"none", "running", "done"}]
NoPage == [t \in Turns |-> "none"]
Report == [k : {"status", "activity", "started", "ended", "lost", "closed", "retold"},
           t : TurnOrNone, s : Status]
Request == [by : {"cmd", "restore", "timer", "bridge", "retold"},
            kind : {"History", "Refresh", "Prompt", "Close", "Latest"}, gen : Generations]
Idle == [pc |-> "idle", gen |-> 1, snap |-> "none", page |-> NoPage, kept |-> FALSE]
NoCommand == [role |-> "none", pc |-> "idle", gen |-> 1, ret |-> "none", seen |-> "none",
              turn |-> 0, page |-> NoPage, tried |-> FALSE]

TypeOK ==
  /\ kind \in Kinds
  /\ agent \in [begun : TurnOrNone, doing : TurnOrNone, busy : BOOLEAN, work : 0..MaxWork]
  /\ link \in [up : BOOLEAN, conn : Generations, watched : BOOLEAN,
               late : SUBSET {"reports", "turns"}]
  /\ chan \in [Generations -> Seq(Report)]
  /\ observer \subseteq Generations
  /\ restore \in {"none", "listing", "opening", "loaded"}
  /\ entry \in [life : {"Unloaded", "Subscribing", "Subscribed", "Unsubscribing", "Error"},
                gen : 0..MaxGeneration, conv : Status, pending : Status, page : Pages,
                active : TurnOrNone, cand : TurnOrNone, runtime : BOOLEAN, retained : BOOLEAN]
  /\ viewers \in 0..MaxViewers /\ boots \in 0..MaxViewers
  /\ line \in Seq(Request)
  /\ op \in [pc : {"idle", "calling", "reading", "answered", "refused"},
             gen : Generations, snap : Status, page : Pages, kept : BOOLEAN]
  /\ cmd \in [role : {"none", "bootstrap", "prompt", "stop", "recover"},
              pc : {"idle", "ensuring", "prepare", "resuming", "refreshing", "locate", "seek",
                    "sought", "steer", "start", "record", "accept", "interrupt", "reading"},
              gen : Generations, ret : {"none", "ok", "failed"},
              seen : Status, turn : TurnOrNone, page : Pages, tried : BOOLEAN]
  /\ moved \in [{"op", "cmd"} -> SUBSET Marks]
  /\ faults \in Seq({"exit", "call", "lag"}) /\ Len(faults) <= MaxFaults

-----------------------------------------------------------------------------
(* The session's state: each operator is one function of the source.       *)

Subscribed(e, g) == e.life = "Subscribed" /\ e.gen = g
Demand(e, v, c) == v > 0 \/ c.role \in {"prompt", "recover"} \/ e.runtime
Known(e) == IF e.conv # "none" THEN e.conv ELSE e.pending

Newest(S) == IF S = {} THEN 0 ELSE CHOOSE t \in S : \A u \in S : u <= t
RunningIn(page) == Newest({t \in Turns : page[t] = "running"})
ActiveOf(status, page) == IF status = "active" THEN RunningIn(page) ELSE 0
Is(page, t, s) == t # 0 /\ page[t] = s
FirstRunning(page, a, b) == IF Is(page, a, "running") THEN a ELSE IF Is(page, b, "running") THEN b ELSE 0

Upsert(page, t, s) ==
  [page EXCEPT ![t] = IF @ \in {"none", "running"} \/ s # "running" THEN s ELSE @]
\* (MergeAsRead: a mutant that lets an older page reopen a turn.)
MergeAsRead(page, read) == [t \in Turns |-> IF read[t] = "none" THEN page[t] ELSE read[t]]
Merge(page, read) ==
  [t \in Turns |-> IF read[t] = "none" THEN page[t]
                   ELSE IF page[t] = "done" /\ read[t] = "running" THEN page[t] ELSE read[t]]

Applied(e, snap, read, refresh) ==
  LET active == ActiveOf(snap, read)
      page == IF refresh THEN Merge(e.page, read) ELSE read
      cand == FirstRunning(page, active, IF refresh THEN e.cand ELSE 0)
  IN [e EXCEPT !.life = "Subscribed", !.conv = snap, !.pending = "none", !.page = page,
               !.active = active, !.cand = cand,
               !.runtime = @ /\ (snap = "active" \/ cand # 0)]

\* newer_thread_status.  (SnapshotWins: a mutant without the status revision.)
SnapshotWins(e, snap, since) == snap
Newer(e, snap, since) == IF "status" \in since /\ Known(e) # "none" THEN Known(e) ELSE snap

AppliedStale(e, snap, read, since) ==
  LET status == Newer(e, snap, since)
      page == Merge(e.page, read)
      held == IF Is(page, e.active, "running") THEN e.active ELSE 0
      cand == IF held # 0 THEN held ELSE FirstRunning(page, e.cand, ActiveOf(snap, read))
  IN [e EXCEPT !.life = "Subscribed", !.conv = status, !.pending = "none", !.page = page,
               !.active = IF held # 0 THEN held ELSE ActiveOf(status, page), !.cand = cand,
               !.runtime = @ /\ (status = "active" \/ cand # 0)]

AppliedResume(e, snap, since) ==
  LET status == Newer(e, snap, since)
      held == IF "revision" \in since /\ Is(e.page, e.active, "running") THEN e.active ELSE 0
      active == IF held # 0 THEN held ELSE ActiveOf(status, e.page)
  IN [e EXCEPT !.life = "Subscribed", !.conv = status, !.pending = "none", !.active = active,
               !.cand = active, !.runtime = active # 0 \/ status = "active"]

Lost(e) == [e EXCEPT !.life = "Error", !.cand = 0]
NeedsOpening(e) == [e EXCEPT !.life = "Unloaded", !.cand = 0]
WithStatus(e, s) == IF e.conv # "none" THEN [e EXCEPT !.conv = s] ELSE [e EXCEPT !.pending = s]

(* apply_session_event_state: whether a report is ignored, and its effect. *)
Ignored(e, r) ==
  \/ r.k = "activity" /\ Known(e) = r.s
  \/ r.k = "started" /\ e.page[r.t] = "done"

Effect(e, r) ==
  CASE r.k = "status" ->
         LET over == r.s # "active" IN
         [WithStatus(e, r.s) EXCEPT !.active = IF over THEN 0 ELSE @,
                                    !.runtime = @ /\ ~(over /\ e.cand = 0)]
    [] r.k = "activity" -> WithStatus(e, r.s)
    [] r.k = "started" ->
         [e EXCEPT !.active = r.t, !.cand = IF e.life = "Subscribed" THEN r.t ELSE @,
                   !.runtime = TRUE, !.page = Upsert(@, r.t, "running")]
    [] r.k = "ended" ->
         [e EXCEPT !.active = IF @ = r.t THEN 0 ELSE @, !.cand = IF @ = r.t THEN 0 ELSE @,
                   !.runtime = @ /\ r.t \notin {e.active, e.cand},
                   !.page = Upsert(@, r.t, "done")]

Touches(r) == IF r.k \in {"status", "activity"} THEN {"revision", "status"} ELSE {"revision"}

\* Whoever has read and is still to compare: nobody else needs to know what moved.
Compares(x) == IF x = "op" THEN op.pc # "idle"
               ELSE cmd.pc \in {"seek", "sought"} \/ (cmd.role = "stop" /\ cmd.ret = "ok")
Marked(x, S) == IF Compares(x) THEN moved[x] \cup S ELSE {}
Mark(S) == moved' = [x \in {"op", "cmd"} |-> Marked(x, S)]
MarkFrom(x, S) == moved' = [y \in {"op", "cmd"} |-> IF y = x THEN {} ELSE Marked(y, S)]
Queue(by, k, g) == Append(line, [by |-> by, kind |-> k, gen |-> g])

Init ==
  /\ kind \in Kinds
  /\ agent = [begun |-> 0, doing |-> 0, busy |-> FALSE, work |-> 0]
  /\ link = [up |-> TRUE, conn |-> 1, watched |-> FALSE, late |-> {}]
  /\ chan = [g \in Generations |-> <<>>]
  /\ observer = {} /\ restore = "none"
  /\ entry = [life |-> "Unloaded", gen |-> 0, conv |-> "none", pending |-> "none",
              page |-> NoPage, active |-> 0, cand |-> 0, runtime |-> FALSE, retained |-> FALSE]
  /\ viewers = 0 /\ boots = 0
  /\ line = <<>> /\ op = Idle /\ cmd = NoCommand
  /\ moved = [x \in {"op", "cmd"} |-> {}]
  /\ faults = <<>>

-----------------------------------------------------------------------------
(* The agent and its connection.  Reports reach only a connection that      *)
(* watches the thread.                                                      *)

History == [t \in Turns |-> IF t > agent.begun THEN "none"
                            ELSE IF t = agent.doing THEN "running" ELSE "done"]
Live(g) == link.up /\ link.conn = g
Say(k, t, s) == [k |-> k, t |-> t, s |-> s]
Reported(reports) ==
  IF link.watched THEN [chan EXCEPT ![link.conn] = @ \o reports] ELSE chan
Room == Len(chan[link.conn]) < MaxReports
Activity == IF kind = "codex" THEN "status" ELSE "activity"

Begun == [agent EXCEPT !.begun = @ + 1, !.doing = agent.begun + 1, !.busy = TRUE]
\* Codex tells a turn begun and ended as its thread turns active and idle; Claude's
\* activity is its session's own.
MayBegin == agent.doing = 0 /\ agent.begun < MaxTurns /\ (kind = "codex" => ~agent.busy) /\ Room
Busy(working) == IF working THEN "active" ELSE "idle"

TurnBegins ==
  /\ MayBegin
  /\ agent' = Begun
  /\ chan' = Reported(<<Say(Activity, 0, "active"), Say("started", agent.begun + 1, "none")>>)
  /\ UNCHANGED <<kind, link, observer, restore, entry, viewers, boots, line, op, cmd, moved, faults>>

TurnEnds ==
  /\ agent.doing # 0 /\ Room
  /\ \E working \in {agent.busy, agent.busy /\ kind = "codex"} :
       /\ agent' = [agent EXCEPT !.doing = 0, !.busy = working]
       /\ chan' = Reported(<<Say("ended", agent.doing, "none")>>
                           \o IF kind = "claude" THEN <<Say("activity", 0, Busy(working))>> ELSE <<>>)
  /\ UNCHANGED <<kind, link, observer, restore, entry, viewers, boots, line, op, cmd, moved, faults>>

(* The status goes idle before the turn is said to have ended, or after. *)
GoesIdle ==
  /\ agent.busy /\ Room
  /\ agent' = [agent EXCEPT !.busy = FALSE]
  /\ chan' = Reported(<<Say(Activity, 0, "idle")>>)
  /\ UNCHANGED <<kind, link, observer, restore, entry, viewers, boots, line, op, cmd, moved, faults>>

(* Claude works without a turn: a subagent it sent to the background. *)
WorkBegins ==
  /\ kind = "claude" /\ ~agent.busy /\ agent.work < MaxWork /\ Room
  /\ agent' = [agent EXCEPT !.busy = TRUE, !.work = @ + 1]
  /\ chan' = Reported(<<Say("activity", 0, "active")>>)
  /\ UNCHANGED <<kind, link, observer, restore, entry, viewers, boots, line, op, cmd, moved, faults>>

(* A result with no turn open asks for the transcript to be read again.     *)
(* Bound: one such request outstanding.                                     *)
TranscriptChanges ==
  /\ kind = "claude" /\ link.watched /\ Room
  /\ \A i \in DOMAIN chan[1] : chan[1][i].k # "retold"
  /\ \A i \in DOMAIN line : line[i].by # "retold"
  /\ chan' = Reported(<<Say("retold", 0, "none")>>)
  /\ UNCHANGED <<kind, agent, link, observer, restore, entry, viewers, boots, line, op, cmd,
                 moved, faults>>

(* The Codex connection ends; its threads may go on running. *)
ConnectionLost ==
  /\ kind = "codex" /\ link.up /\ link.conn < MaxGeneration
  /\ link' = [link EXCEPT !.up = FALSE, !.watched = FALSE]
  /\ chan' = [chan EXCEPT ![link.conn] = Append(@, Say("lost", 0, "none"))]
  /\ observer' = observer \cup {link.conn}
  /\ UNCHANGED <<kind, agent, restore, entry, viewers, boots, line, op, cmd, moved, faults>>

Connected ==
  /\ ~link.up
  /\ link' = [up |-> TRUE, conn |-> link.conn + 1, watched |-> FALSE, late |-> {}]
  /\ restore' = "listing"
  /\ UNCHANGED <<kind, agent, chan, observer, entry, viewers, boots, line, op, cmd, moved, faults>>

Gone == [agent EXCEPT !.doing = 0, !.busy = FALSE]

(* The Claude child exits, or its runner goes away under it. *)
SessionEnds ==
  /\ kind = "claude" /\ link.watched /\ Len(faults) < MaxFaults
  /\ link' = [link EXCEPT !.watched = FALSE]
  /\ \/ /\ agent' = Gone
        /\ chan' = Reported((IF agent.doing # 0 THEN <<Say("ended", agent.doing, "none")>> ELSE <<>>)
                            \o <<Say("status", 0, "idle"), Say("closed", 0, "none")>>)
     \/ /\ agent' \in {agent, Gone}
        /\ chan' = Reported(<<Say("closed", 0, "none")>>)
  /\ faults' = Append(faults, "exit")
  /\ UNCHANGED <<kind, observer, restore, entry, viewers, boots, line, op, cmd, moved>>

-----------------------------------------------------------------------------
(* Reports applied to the entry.                                            *)

Blocked(g) == \E i \in DOMAIN line : line[i].by = "bridge" /\ line[i].gen = g

SessionReport(g, r) ==
  LET e == Effect(entry, r)
      had == Demand(entry, viewers, cmd)
      has == Demand(e, viewers, cmd)
  IN /\ r.k \in {"status", "activity", "started", "ended"}
     /\ \/ /\ Ignored(entry, r)
           /\ UNCHANGED <<entry, line, moved>>
        \/ /\ ~Ignored(entry, r)
           /\ Mark(Touches(r))
           /\ entry' = [e EXCEPT !.retained = @ \/ (had /\ ~has)]
           /\ line' = IF had \/ has THEN line ELSE Queue("bridge", "Close", g)

ClosedReport(r) ==
  /\ r.k = "closed"
  /\ entry' = NeedsOpening(entry)
  /\ Mark({"epoch", "revision"})
  /\ UNCHANGED line

RetoldReport(r) ==
  /\ r.k = "retold"
  /\ line' = Queue("retold", "Latest", 1)
  /\ UNCHANGED <<entry, moved>>

LoseConnection(g) ==
  IF entry.gen = g
  THEN entry' = Lost(entry) /\ Mark({"epoch", "revision"})
  ELSE UNCHANGED <<entry, moved>>

Deliver(g) ==
  /\ chan[g] # <<>> /\ ~Blocked(g)
  /\ chan' = [chan EXCEPT ![g] = Tail(@)]
  /\ LET r == Head(chan[g]) IN
       \/ r.k \notin {"lost", "closed", "retold"} /\ entry.gen # g /\ UNCHANGED <<entry, line, moved>>
       \/ entry.gen = g /\ SessionReport(g, r)
       \/ ClosedReport(r)
       \/ RetoldReport(r)
       \/ r.k = "lost" /\ LoseConnection(g) /\ UNCHANGED line
  /\ UNCHANGED <<kind, agent, link, observer, restore, viewers, boots, op, cmd, faults>>

ObserverTells(g) ==
  /\ g \in observer
  /\ observer' = observer \ {g}
  /\ LoseConnection(g)
  /\ UNCHANGED <<kind, agent, link, chan, restore, viewers, boots, line, op, cmd, faults>>

(* The broadcast channel overwrote reports the Claude bridge had not taken. *)
Lag(n) ==
  /\ kind = "claude" /\ Len(faults) < MaxFaults /\ ~Blocked(1) /\ n <= Len(chan[1])
  /\ chan' = [chan EXCEPT ![1] = SubSeq(@, n + 1, Len(@))]
  /\ IF entry.gen # 0 THEN Mark({"epoch"}) ELSE UNCHANGED moved
  /\ faults' = Append(faults, "lag")
  /\ UNCHANGED <<kind, agent, link, observer, restore, entry, viewers, boots, line, op, cmd>>

-----------------------------------------------------------------------------
(* The operation lock: opening, closing and reading the latest turns.       *)

req == Head(line)
Opens == {"History", "Refresh", "Prompt"}
Calling(g, kept) == [Idle EXCEPT !.pc = "calling", !.gen = g, !.kept = kept]

Return(how, e) ==
  /\ line' = Tail(line) /\ op' = Idle
  /\ cmd' = IF req.by = "cmd" THEN [cmd EXCEPT !.ret = how, !.seen = e.conv, !.turn = e.active]
            ELSE cmd
  /\ restore' = IF req.by = "restore" /\ req.gen = link.conn THEN "loaded" ELSE restore

OpenAlready ==
  /\ line # <<>> /\ op.pc = "idle" /\ req.kind \in {"History", "Prompt"}
  /\ Subscribed(entry, req.gen)
  /\ Return("ok", entry)
  /\ moved' = [moved EXCEPT !["cmd"] = IF req.by = "cmd" THEN {} ELSE @]
  /\ UNCHANGED <<kind, agentVars, entry, viewers, boots, faults>>

BeginOpen ==
  /\ line # <<>> /\ op.pc = "idle" /\ req.kind \in Opens
  /\ \/ /\ Subscribed(entry, req.gen) /\ req.kind = "Refresh"
        /\ op' = Calling(req.gen, TRUE)
        /\ moved' = [moved EXCEPT !["op"] = {}]
        /\ UNCHANGED entry
     \/ /\ ~Subscribed(entry, req.gen)
        /\ entry.life \in {"Unloaded", "Error", "Subscribed"}
        /\ entry' = [entry EXCEPT !.life = "Subscribing", !.gen = req.gen, !.cand = 0]
        /\ op' = Calling(req.gen, FALSE)
        /\ MarkFrom("op", {"epoch"})
  /\ UNCHANGED <<kind, agentVars, restore, viewers, boots, line, cmd, faults>>

(* transition() panics: the task ends and its caller is told so. *)
OpenPanics ==
  /\ line # <<>> /\ op.pc = "idle" /\ req.kind \in Opens
  /\ ~Subscribed(entry, req.gen) /\ entry.life \in {"Subscribing", "Unsubscribing"}
  /\ Return("failed", entry)
  /\ UNCHANGED <<kind, agentVars, entry, viewers, boots, moved, faults>>

(* The provider takes the call: a Claude open tells the status before it reads the turns. *)
ProviderOpens ==
  /\ op.pc = "calling" /\ req.kind \in Opens /\ Live(op.gen)
  /\ link' = [link EXCEPT !.watched = TRUE]
  /\ op' = [op EXCEPT !.snap = Busy(agent.busy),
                      !.pc = IF kind = "claude" /\ req.kind # "Prompt" THEN "reading" ELSE "answered",
                      !.page = IF kind = "claude" \/ req.kind = "Prompt" THEN NoPage ELSE History]
  /\ UNCHANGED <<kind, agent, chan, observer, restore, entry, viewers, boots, line, cmd, moved, faults>>

ProviderReads ==
  /\ op.pc = "reading" \/ (op.pc = "calling" /\ req.kind = "Latest")
  /\ Live(op.gen)
  /\ op' = [op EXCEPT !.pc = "answered", !.page = History]
  /\ UNCHANGED <<kind, agentVars, restore, entry, viewers, boots, line, cmd, moved, faults>>

ProviderCloses ==
  /\ op.pc = "calling" /\ req.kind = "Close" /\ Live(op.gen)
  /\ link' = IF kind # "codex" THEN link
              ELSE [link EXCEPT !.watched = FALSE,
                                !.late = @ \cup IF chan[op.gen] = <<>> THEN {} ELSE {"reports"}]
  /\ op' = [op EXCEPT !.pc = "answered"]
  /\ UNCHANGED <<kind, agent, chan, observer, restore, entry, viewers, boots, line, cmd, moved, faults>>

(* Refused, or its answer lost after the provider took it.  Claude's close only *)
(* ends the watching on this side and cannot fail.                              *)
CallFails ==
  /\ op.pc \in {"calling", "reading", "answered"}
  /\ \/ ~Live(op.gen) /\ UNCHANGED faults
     \/ /\ kind = "codex" \/ req.kind # "Close"
        /\ Live(op.gen) /\ Len(faults) < MaxFaults
        /\ faults' = Append(faults, "call")
  /\ op' = [op EXCEPT !.pc = "refused"]
  /\ UNCHANGED <<kind, agentVars, restore, entry, viewers, boots, line, cmd, moved>>

\* (AnyObservation: a mutant that never compares the epoch.)
AnyObservation == TRUE
SameObservation == "epoch" \notin moved["op"]

OpenCompletes ==
  /\ op.pc = "answered" /\ req.kind \in Opens /\ SameObservation
  /\ LET since == moved["op"] IN
       entry' = CASE req.kind = "Prompt" -> AppliedResume(entry, op.snap, since)
                  [] req.kind # "Prompt" /\ "revision" \notin since ->
                       Applied(entry, op.snap, op.page, req.kind = "Refresh")
                  [] OTHER -> AppliedStale(entry, op.snap, op.page, since)
  /\ Return("ok", entry')
  /\ moved' = [x \in {"op", "cmd"} |-> IF x = "cmd" /\ req.by # "cmd"
                                       THEN Marked(x, {"revision"}) ELSE {}]
  /\ UNCHANGED <<kind, agentVars, viewers, boots, faults>>

OpenInterrupted ==
  /\ op.pc \in {"answered", "refused"} /\ req.kind \in Opens /\ ~SameObservation
  /\ Return("failed", entry) /\ MarkFrom("op", {})
  /\ UNCHANGED <<kind, agentVars, entry, viewers, boots, faults>>

\* (OpenFailsQuietly: a mutant that leaves the state as the call found it.)
OpenFailsQuietly ==
  /\ op.pc = "refused" /\ req.kind \in Opens /\ SameObservation
  /\ Return("failed", entry) /\ MarkFrom("op", {})
  /\ UNCHANGED <<kind, agentVars, entry, viewers, boots, faults>>

OpenFails ==
  /\ op.pc = "refused" /\ req.kind \in Opens /\ SameObservation
  /\ entry' = IF op.kept THEN entry ELSE [entry EXCEPT !.life = "Error"]
  /\ Return("failed", entry) /\ MarkFrom("op", {})
  /\ UNCHANGED <<kind, agentVars, viewers, boots, faults>>

(* unsubscribe_if_unused *)
CloseRefrains ==
  /\ line # <<>> /\ op.pc = "idle" /\ req.kind = "Close"
  /\ entry.life # "Subscribed" \/ Demand(entry, viewers, cmd) \/ entry.retained
  /\ Return("ok", entry)
  /\ UNCHANGED <<kind, agentVars, entry, viewers, boots, moved, faults>>

BeginClose ==
  /\ line # <<>> /\ op.pc = "idle" /\ req.kind = "Close"
  /\ entry.life = "Subscribed" /\ ~Demand(entry, viewers, cmd) /\ ~entry.retained
  /\ entry' = [entry EXCEPT !.life = "Unsubscribing"]
  /\ op' = Calling(entry.gen, FALSE)
  /\ moved' = [moved EXCEPT !["op"] = {}]
  /\ UNCHANGED <<kind, agentVars, restore, viewers, boots, line, cmd, faults>>

CloseEnds ==
  /\ op.pc \in {"answered", "refused"} /\ req.kind = "Close"
  /\ entry' = IF ~SameObservation \/ entry.life # "Unsubscribing" THEN entry
              ELSE IF op.pc = "refused" THEN [entry EXCEPT !.life = "Error"]
              ELSE [entry EXCEPT !.life = "Unloaded", !.cand = 0, !.page = NoPage]
  /\ Return("ok", entry) /\ MarkFrom("op", {})
  /\ UNCHANGED <<kind, agentVars, viewers, boots, faults>>

(* refresh_latest_turns *)
BeginLatest ==
  /\ line # <<>> /\ op.pc = "idle" /\ req.kind = "Latest"
  /\ IF Subscribed(entry, req.gen)
     THEN /\ op' = Calling(req.gen, FALSE)
          /\ moved' = [moved EXCEPT !["op"] = {}]
          /\ UNCHANGED <<line, cmd, restore>>
     ELSE Return("ok", entry) /\ UNCHANGED moved
  /\ UNCHANGED <<kind, agentVars, entry, viewers, boots, faults>>

LatestEnds ==
  /\ op.pc \in {"answered", "refused"} /\ req.kind = "Latest"
  /\ IF SameObservation /\ entry.life = "Subscribed"
     THEN \/ /\ op.pc = "answered"
             /\ entry' = [entry EXCEPT !.page = Merge(@, op.page)] /\ MarkFrom("op", {"revision"})
          \/ /\ op.pc = "refused"
             /\ UNCHANGED entry /\ \E S \in {{}, {"revision"}} : MarkFrom("op", S)
     ELSE UNCHANGED entry /\ MarkFrom("op", {})
  /\ Return("ok", entry)
  /\ UNCHANGED <<kind, agentVars, viewers, boots, faults>>

-----------------------------------------------------------------------------
(* Viewers, and the retention that outlasts the last of them.               *)

ViewerComes ==
  /\ viewers < MaxViewers /\ boots < MaxViewers
  /\ viewers' = viewers + 1 /\ boots' = boots + 1
  /\ UNCHANGED <<kind, agentVars, restore, entry, line, op, cmd, moved, faults>>

\* ViewerLease::drop.  (ViewerLeavesTwice: a mutant, released by hand and dropped.)
ViewerLeavesTwice ==
  /\ viewers > 0
  /\ viewers' = viewers - 2
  /\ entry' = [entry EXCEPT !.retained = TRUE]
  /\ UNCHANGED <<kind, agentVars, restore, boots, line, op, cmd, moved, faults>>

ViewerLeaves ==
  /\ viewers > 0
  /\ viewers' = viewers - 1
  /\ entry' = [entry EXCEPT !.retained = TRUE]
  /\ UNCHANGED <<kind, agentVars, restore, boots, line, op, cmd, moved, faults>>

(* UNUSED_SUBSCRIPTION_RETENTION is half an hour: longer than any call in flight. *)
\* (RetentionForgets: a mutant that ends the retention and closes nothing.)
RetentionForgets ==
  /\ entry.retained /\ line = <<>> /\ cmd.role = "none" /\ boots = 0
  /\ entry' = [entry EXCEPT !.retained = FALSE]
  /\ UNCHANGED <<kind, agentVars, restore, viewers, boots, line, op, cmd, moved, faults>>

RetentionLapses ==
  /\ entry.retained /\ line = <<>> /\ cmd.role = "none" /\ boots = 0
  /\ restore \in {"none", "loaded"}
  /\ entry' = [entry EXCEPT !.retained = FALSE]
  /\ line' = Queue("timer", "Close", 1)
  /\ UNCHANGED <<kind, agentVars, restore, viewers, boots, op, cmd, moved, faults>>

(* restore_connection_state: every leased Codex thread is opened again, then *)
(* the loaded ones are recovered.                                            *)
\* (ResubscribeUnleased: a mutant that asks for the viewers of a lost session.)
ResubscribeUnleased ==
  /\ restore = "listing"
  /\ restore' = "loaded"
  /\ UNCHANGED <<kind, agentVars, entry, viewers, boots, line, op, cmd, moved, faults>>

Resubscribe ==
  /\ restore = "listing"
  /\ IF entry.gen # 0 /\ Demand(entry, viewers, cmd)
     THEN line' = Queue("restore", "History", link.conn) /\ restore' = "opening"
     ELSE restore' = "loaded" /\ UNCHANGED line
  /\ UNCHANGED <<kind, agentVars, entry, viewers, boots, op, cmd, moved, faults>>

NotLoaded ==
  /\ restore = "loaded"
  /\ restore' = "none"
  /\ UNCHANGED <<kind, agentVars, entry, viewers, boots, line, op, cmd, moved, faults>>

-----------------------------------------------------------------------------
(* Commands, one at a time under the mutation lock.                         *)

Command(role) == [NoCommand EXCEPT !.role = role, !.gen = link.conn]
Free == cmd.role = "none" /\ link.up
Ask(k) == line' = Queue("cmd", k, cmd.gen)
Leased == cmd.role \in {"prompt", "recover"}

(* The command returns; a request lease dropped with it defers the close. *)
Leave ==
  /\ cmd' = NoCommand
  /\ moved' = [moved EXCEPT !["cmd"] = {}]
  /\ entry' = [entry EXCEPT !.retained = @ \/ Leased]

CommandBegins(role) ==
  /\ Free
  /\ role = "recover" => restore = "loaded"
  /\ role = "bootstrap" => boots > 0
  /\ boots' = IF role = "bootstrap" THEN boots - 1 ELSE boots
  /\ restore' = IF role = "recover" THEN "none" ELSE restore
  /\ IF role = "prompt"
     THEN cmd' = [Command(role) EXCEPT !.pc = "prepare"] /\ UNCHANGED line
     ELSE cmd' = [Command(role) EXCEPT !.pc = "ensuring"]
          /\ line' = Queue("cmd", "History", link.conn)
  /\ UNCHANGED <<kind, agentVars, entry, viewers, op, moved, faults>>

CallReturnsFailed ==
  /\ cmd.ret = "failed"
  /\ Leave
  /\ UNCHANGED <<kind, agentVars, restore, viewers, boots, line, op, faults>>

BootstrapEnds ==
  /\ cmd.role = "bootstrap" /\ cmd.ret = "ok"
  /\ Leave
  /\ UNCHANGED <<kind, agentVars, restore, viewers, boots, line, op, faults>>

(* recover_loaded_thread *)
Recovered ==
  /\ cmd.role = "recover" /\ cmd.ret = "ok"
  /\ cmd' = NoCommand
  /\ moved' = [moved EXCEPT !["cmd"] = {}]
  /\ entry' = [entry EXCEPT !.retained = TRUE,
                            !.runtime = @ \/ (entry.gen = cmd.gen /\ entry.conv = "active")]
  /\ UNCHANGED <<kind, agentVars, restore, viewers, boots, line, op, faults>>

(* prepare_prompt: what a prompt does with the conversation it was told of. *)
Target(status, turn) ==
  [cmd EXCEPT !.ret = "none", !.seen = status, !.turn = turn,
              !.pc = IF status # "active" THEN "start" ELSE IF turn # 0 THEN "steer" ELSE "locate"]

Prepare ==
  /\ cmd.pc = "prepare"
  /\ IF Subscribed(entry, cmd.gen) /\ entry.conv # "none"
     THEN cmd' = Target(entry.conv, entry.active) /\ UNCHANGED line
     ELSE cmd' = [cmd EXCEPT !.pc = "resuming"] /\ Ask("Prompt")
  /\ UNCHANGED <<kind, agentVars, restore, entry, viewers, boots, op, moved, faults>>

Resumed ==
  /\ cmd.pc = "resuming" /\ cmd.ret = "ok"
  /\ cmd' = Target(cmd.seen, cmd.turn)
  /\ UNCHANGED <<kind, agentVars, restore, entry, viewers, boots, line, op, moved, faults>>

Refreshed ==
  /\ cmd.pc = "refreshing" /\ cmd.ret = "ok"
  /\ cmd' = [cmd EXCEPT !.pc = "prepare", !.ret = "none", !.turn = 0]
  /\ UNCHANGED <<kind, agentVars, restore, entry, viewers, boots, line, op, moved, faults>>

Locate ==
  /\ cmd.pc = "locate"
  /\ IF Subscribed(entry, cmd.gen)
     THEN /\ cmd' = [cmd EXCEPT !.pc = "seek"]
          /\ moved' = [moved EXCEPT !["cmd"] = {}]
          /\ UNCHANGED entry
     ELSE Leave
  /\ UNCHANGED <<kind, agentVars, restore, viewers, boots, line, op, faults>>

(* read_turns, for a prompt or a stop that found the conversation active    *)
(* with no turn.                                                            *)
Seek ==
  /\ cmd.pc = "seek" /\ Live(cmd.gen)
  /\ cmd' = [cmd EXCEPT !.pc = "sought", !.page = History, !.turn = agent.doing]
  /\ UNCHANGED <<kind, agentVars, restore, entry, viewers, boots, line, op, moved, faults>>

Located(e) == [e EXCEPT !.active = cmd.turn, !.cand = cmd.turn]

PromptSought ==
  /\ cmd.pc = "sought" /\ cmd.role = "prompt"
  /\ \/ /\ cmd.turn = 0
        /\ cmd' = [cmd EXCEPT !.pc = "start", !.page = NoPage]
        /\ UNCHANGED entry /\ MarkFrom("cmd", {})
     \/ /\ cmd.turn # 0 /\ "epoch" \in moved["cmd"]
        /\ Leave
     \/ /\ cmd.turn # 0 /\ "epoch" \notin moved["cmd"]
        /\ entry' = [Located(entry) EXCEPT !.page = Merge(@, cmd.page)]
        /\ cmd' = [cmd EXCEPT !.pc = "steer", !.page = NoPage]
        /\ MarkFrom("cmd", {"revision"})
  /\ UNCHANGED <<kind, agentVars, restore, viewers, boots, line, op, faults>>

(* active_turn_id writes what it read before it looks at the revision, into *)
(* a session that may have been closed since.                               *)
StopSought ==
  /\ cmd.pc = "sought" /\ cmd.role = "stop"
  /\ IF entry.gen # cmd.gen \/ "revision" \in moved["cmd"]
     THEN entry' = Located(entry) /\ MarkFrom("cmd", {})
     ELSE entry' = [Located(entry) EXCEPT !.page = Merge(@, cmd.page)] /\ MarkFrom("cmd", {"revision"})
  /\ cmd' = [cmd EXCEPT !.pc = "interrupt", !.page = NoPage]
  /\ link' = [link EXCEPT !.late = @ \cup IF entry.life = "Subscribed" THEN {} ELSE {"turns"}]
  /\ UNCHANGED <<kind, agent, chan, observer, restore, viewers, boots, line, op, faults>>

(* The turn the choice was made against is gone, or one is in the way: once, *)
(* the prompt chooses again from a fresh read.                               *)
Retry(error) ==
  /\ error /\ Live(cmd.gen) /\ ~cmd.tried
  /\ cmd' = [cmd EXCEPT !.pc = "refreshing", !.tried = TRUE]
  /\ Ask("Refresh")
  /\ UNCHANGED <<kind, agentVars, restore, entry, viewers, boots, op, moved, faults>>

Steer ==
  /\ cmd.pc = "steer" /\ Live(cmd.gen) /\ agent.doing = cmd.turn
  /\ cmd' = [cmd EXCEPT !.pc = "accept"]
  /\ UNCHANGED <<kind, agentVars, restore, entry, viewers, boots, line, op, moved, faults>>

SteerRefused == cmd.pc = "steer" /\ Retry(kind = "codex" /\ agent.doing # cmd.turn)

Reachable == Live(cmd.gen) /\ (kind = "codex" \/ link.watched)

Start ==
  /\ cmd.pc = "start" /\ Reachable /\ MayBegin
  /\ agent' = Begun
  /\ chan' = Reported(<<Say("status", 0, "active"), Say("started", agent.begun + 1, "none")>>)
  /\ cmd' = [cmd EXCEPT !.pc = "record", !.turn = agent.begun + 1]
  /\ UNCHANGED <<kind, link, observer, restore, entry, viewers, boots, line, op, moved, faults>>

StartRefused == cmd.pc = "start" /\ Retry(kind = "claude" /\ link.watched /\ agent.doing # 0)

(* record_turn_started and record_prompt_accepted *)
Record ==
  /\ cmd.pc \in {"record", "accept"}
  /\ LET t == cmd.turn
         over == entry.page[t] = "done"
         ours == entry.gen = cmd.gen
         begun == [entry EXCEPT !.active = t, !.cand = t, !.runtime = TRUE,
                                !.page = Upsert(@, t, "running")]
         kept == [entry EXCEPT !.runtime = @ \/ (~over /\ t \in {entry.active, entry.cand})]
         e == IF ~ours \/ (over /\ cmd.pc = "record") THEN entry
              ELSE IF cmd.pc = "record" THEN begun ELSE kept
     IN /\ entry' = [e EXCEPT !.retained = TRUE]
        /\ MarkFrom("cmd", IF ours THEN {"revision"} ELSE {})
  /\ cmd' = NoCommand
  /\ UNCHANGED <<kind, agentVars, restore, viewers, boots, line, op, faults>>

StopEnsured ==
  /\ cmd.role = "stop" /\ cmd.pc = "ensuring" /\ cmd.ret = "ok"
  /\ \/ /\ cmd.turn # 0
        /\ cmd' = [cmd EXCEPT !.pc = "interrupt", !.ret = "none"]
        /\ UNCHANGED <<entry, moved>>
     \/ /\ cmd.turn = 0 /\ cmd.seen = "active"
        /\ cmd' = [cmd EXCEPT !.pc = "seek", !.ret = "none"]
        /\ UNCHANGED <<entry, moved>>
     \/ /\ cmd.turn = 0 /\ cmd.seen # "active" /\ entry.conv # "active"
        /\ Leave
     \/ /\ cmd.turn = 0 /\ cmd.seen # "active" /\ entry.conv = "active"
        /\ cmd' = [cmd EXCEPT !.pc = "interrupt", !.ret = "none"]
        /\ UNCHANGED <<entry, moved>>
  /\ UNCHANGED <<kind, agentVars, restore, viewers, boots, line, op, faults>>

(* Codex stops a turn by its name, Claude whatever its session is doing. *)
Stops == IF kind = "codex" THEN cmd.turn # 0 /\ agent.doing = cmd.turn ELSE link.watched

\* The answer is one message; that the work stopped comes with the agent's reports.
Interrupt ==
  /\ cmd.pc = "interrupt" /\ Live(cmd.gen) /\ Stops
  /\ cmd.turn # 0 \/ entry.conv = "active"
  /\ cmd' = [cmd EXCEPT !.pc = "reading", !.ret = "none"]
  /\ Ask("History")
  /\ UNCHANGED <<kind, agentVars, restore, entry, viewers, boots, op, moved, faults>>

(* A command returns an error, from the agent or of its own: a prompt that may *)
(* not write here, an unreadable image, options refused, a stop with no turn.  *)
(* An answer lost after the agent took the prompt ends it the same way.        *)
CommandFails ==
  /\ cmd.pc \in {"seek", "steer", "start", "record", "accept", "interrupt"}
  /\ Leave
  /\ UNCHANGED <<kind, agentVars, restore, viewers, boots, line, op, faults>>

StopReads ==
  /\ cmd.pc = "reading" /\ cmd.ret = "ok"
  /\ Leave
  /\ UNCHANGED <<kind, agentVars, restore, viewers, boots, line, op, faults>>

-----------------------------------------------------------------------------
AgentNext == TurnBegins \/ TurnEnds \/ GoesIdle \/ WorkBegins \/ TranscriptChanges
LinkNext == ConnectionLost \/ Connected \/ SessionEnds \/ (\E n \in 0..MaxReports : Lag(n))
ReportNext == \E g \in Generations : Deliver(g) \/ ObserverTells(g)
ProviderNext == ProviderOpens \/ ProviderReads \/ ProviderCloses \/ CallFails
OperationNext == OpenAlready \/ BeginOpen \/ OpenPanics \/ OpenCompletes \/ OpenInterrupted
                 \/ OpenFails \/ CloseRefrains \/ BeginClose \/ CloseEnds \/ BeginLatest \/ LatestEnds
ViewerNext == ViewerComes \/ ViewerLeaves
RestoreNext == Resubscribe \/ NotLoaded
CommandNext == CallReturnsFailed \/ BootstrapEnds \/ Recovered \/ Prepare \/ Resumed \/ Refreshed
               \/ Locate \/ Seek \/ PromptSought \/ StopSought \/ Steer \/ SteerRefused
               \/ Start \/ StartRefused
               \/ Record \/ StopEnsured \/ Interrupt \/ StopReads \/ CommandFails
Requests == \E role \in Roles : CommandBegins(role)

Next == AgentNext \/ LinkNext \/ ReportNext \/ ProviderNext \/ OperationNext \/ ViewerNext
        \/ RetentionLapses \/ RestoreNext \/ CommandNext \/ Requests

Spec == Init /\ [][Next]_vars
FairSpec == Spec /\ WF_vars(ReportNext) /\ WF_vars(ProviderNext) /\ WF_vars(OperationNext)
                 /\ SF_vars(RetentionLapses) /\ WF_vars(RestoreNext) /\ WF_vars(CommandNext)
                 /\ WF_vars(CommandBegins("bootstrap")) /\ WF_vars(CommandBegins("recover")) /\ WF_vars(Connected)
-----------------------------------------------------------------------------

Quiet ==
  /\ link.up /\ line = <<>> /\ cmd.role = "none" /\ restore = "none" /\ observer = {}
  /\ \A g \in Generations : chan[g] = <<>>
Watching == Subscribed(entry, link.conn)
Met(k) == \E i \in DOMAIN faults : faults[i] = k

(* Once nothing is in flight, the status a subscribed session holds is what *)
(* the agent is doing: whatever crossed an open, a refresh or a prompt's    *)
(* resume was settled for the newer of the two, however far behind the      *)
(* bridge was.  Excepted: reports that a subscription closed on this        *)
(* connection had left waiting, for nothing tells them from the next one's. *)
StatusSettles ==
  Quiet /\ Watching /\ faults = <<>> /\ "reports" \notin link.late => entry.conv = Busy(agent.busy)

(* On a connection that was never lost, once nothing is in flight, no turn  *)
(* the agent finished is left running in the session's page.  Excepted: as  *)
(* above, and turns that a stop wrote into a session closed under it.       *)
TurnsSettle == Quiet /\ Watching /\ faults = <<>> /\ link.conn = 1 /\ link.late = {} =>
  \A t \in Turns : entry.page[t] = "running" => agent.doing = t

(* Once nothing is in flight, the session's active turn is the agent's.     *)
(* `active_turn_id` writes what it read before it looks at the revision.    *)
ActiveSettles == Quiet /\ Watching /\ faults = <<>> => entry.active \in {0, agent.doing}

(* A session that says Subscribed is one the provider reports: no close,    *)
(* exit or lost connection that crossed an open leaves it deaf.  Only an    *)
(* exit among the reports that a lag of the Claude bridge dropped does.     *)
SubscribedIsWatched == Quiet /\ Watching /\ ~(Met("exit") /\ Met("lag")) => link.watched

(* Subscribing and Unsubscribing belong to whoever holds the operation lock *)
(* and end with it, however the call ends: the next open finds a state it   *)
(* can leave.  A lag of the Claude bridge breaks this.                      *)
EffectsEnd == line = <<>> /\ ~Met("lag") => entry.life \notin {"Subscribing", "Unsubscribing"}

(* A turn the session has seen end never runs again while the session keeps *)
(* it, whatever older page of turns or start report arrives after.          *)
EndedStaysEnded == [][\A t \in Turns : entry.page[t] = "done" => entry'.page[t] # "running"]_vars

(* A connection that comes back watches again every session in demand.      *)
(* Excepted: a call the provider refuses from then on.  The bridge prints   *)
(* the error and asks no second time; the session says Error.               *)
ComesBack == \A n \in 0..MaxFaults :
  (restore = "listing" /\ entry.gen # 0 /\ Demand(entry, viewers, cmd) /\ Len(faults) = n) ~>
    (Watching \/ ~link.up \/ ~Demand(entry, viewers, cmd) \/ Len(faults) > n)

(* A subscription kept for a handoff ends unless somebody needs it.         *)
LeftIsLetGo == (entry.retained /\ entry.life = "Subscribed") ~>
                 (entry.life # "Subscribed" \/ Demand(entry, viewers, cmd))
=============================================================================
