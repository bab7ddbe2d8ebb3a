# Caffold in TLA+

A verification development kept beside the sources of Caffold: TLA+ models of
its concurrent parts, TLC runs over small instances, and TLAPS proofs for every
size. Paths below are relative to the repository.

Caffold is a self-hosted workspace for coding agents. A Rust backend
(`caffold/src`) serves a browser application (`frontend`) and drives agents:
Codex and Grok through servers of their own, Claude Code and Antigravity as
child processes. Those children belong to a separate process, the runner
(`runners/caffold`), so that a backend restart does not end an agent's turn.

The development starts where a mistake costs most: in the runner, whose promise
is that a backend may come and go at any moment without an agent's output being
lost, repeated or mixed up, without an input being sent twice, and without a
second agent being started on a conversation that has one. From there it follows
the calls upwards: the two drivers that hold sessions at a runner (Antigravity's
recoverable one and Claude's relays, over the one shared connection), and the
Task sessions that turn what every agent reports into the state a browser sees.

## Inventory

| Part | State it keeps | Operations | Hard about it | What makes it correct |
|---|---|---|---|---|
| Runner, recoverable session (`session/recovery.rs`, `session.rs`) | journal, acknowledged prefix, checkpoint, one subscriber with a lease, child and pipe tasks | attach, start, commit, append, deliver, detach, close, supervise | five kinds of task share one lock and one `Notify`; stale tasks after a reattach; backpressure | each entry read once and in order, checkpoint and input atomic, replay exact, no lost wakeup, Exit last |
| Runner, daemon (`daemon.rs`, `daemon/leftovers.rs`, `main.rs`) | socket file, registry of sessions, subscription, book of children, stop flag, idle clock | bind, clear, create, close, attach, stop, idle end, crash | a create races a close or the stop; a crash between any two steps; two starters | one agent per conversation, children reachable and written down, a stop closes all |
| Backend, runner client (`agent/runner.rs`) | one wire, pending replies, sinks by session | ensure running, open, send, disconnect, restart | a reply lost with the wire, observers released before the runner knows | an outcome is reported known only when it is |
| Backend, Antigravity (`agent/antigravity*`) | a reduced session state, checkpoints of it | replay, apply, send, permissions | the driver restarts in the middle of a turn | the state after a replay is the state before the restart |
| Backend, Claude, Codex, Grok (`agent/claude*`, `codex*`, `grok*`) | start gate, request tables, transcripts | start, send, interrupt, resume | correlation of requests with notifications | spaced starts, one answer per request |
| Task sessions (`app/tasks/sessions*`, `runtime*`) | subscription generation, turn state, metadata | subscribe, apply an event, reconcile, prompt | events of an older generation; a turn that ends while it is being read | state follows the newest subscription, no turn stays open |
| Task events (`app/tasks/events*`, `detail.rs`, `sync.rs`, `live.rs`) | event cache, revisions, listeners | append, read, resynchronise | snapshot read against concurrent appends | a reader that resynchronises misses and repeats nothing |
| Live updates (`app/live_updates.rs`) | subscriptions of a socket, generations, queues | subscribe, unsubscribe, forward, drop | late events of a cancelled subscription | only the current generation is delivered |
| Worktrees and lifecycle (`app/tasks/worktrees*`, `lifecycle*`) | rows of tasks and worktrees, directories | create, archive, restore, delete | database, Git and processes fail separately | no directory without a row, archive can be retried |
| Terminals, watches (`app/terminal*`, `watch.rs`) | registries shared by connections | open, attach, last release | a release races a new attach | one process or watcher per key |
| Task store (`task_store*`) | SQLite tables | transactions, migrations | - | atomicity is SQLite's |
| Update (`update*`, `app/update.rs`) | installed version, staging directory | download, swap, roll back | a crash between two renames | one complete version is always installed |
| Frontend recovery (`frontend/pages/foreground-recovery`, `live-updates.ts`) | page visibility, generation of the stream | resume, probe, resynchronise | timers race late answers | a visible page ends up current |
| Files, Git, GitHub, notes, voice, Tailscale, previews, push | none that outlives a request | request handlers | external programs | outside the model's reach |
| macOS wrapper (`desktop/macos`) | the server's process | start, stop | platform UI | not modelled |

The backend is one client of a runner instance: one connection holds the
subscription, every attached session delivers into its lane, and a pump task
writes the lane to the socket. A request is answered on the connection it came
on; within a connection requests are answered one after the other.

## Modules

| Module | Role |
|---|---|
| `RecoverySession` | one recoverable session with its connections, tasks and child |
| `OutputStream` | what such a session promises: the abstract specification it implements |
| `RunnerDaemon` | the runner as a process: socket, registry, book of children, the ways of leaving |
| `AntigravitySession` | the Antigravity driver on such a session: checkpoint, prompts, Stop, questions |
| `ClaudeSessions` | the Claude driver and the runner client: relay sessions over the shared connection |
| `TaskSessions` | one Task's session in the backend: leases, subscription, reports against reads |
| `RecoverySessionProofs` | type lemmas and `TypeCorrect` |
| `RecoveryInvariants` | the inductive invariant, the safety theorems, and `Refinement`: the session implements `OutputStream` |
| `RunnerDaemonProofs` | type lemmas of the daemon, its inductive invariants; the book and the registry, and across runners one listener, one agent, a stop that closes all |
| `ClaudeSessionsTypes` | type lemmas of the relay sessions and `TypesAreKept` |
| `ClaudeSessionsProofs` | answers, owners of streams, closes that leave nothing running, and spaced starts |
| `ClaudeSessionsStreams` | what a stream is about: sessions that are alive, children that are heard, stops that are no failures |
| `AntigravityProofs` | the driver's types and inductive invariant: verdicts, inputs, replies, questions |
| `TaskSessionsProofs` | the Task session's types and inductive invariants: effects, subscriptions, ended turns, the settled status |
| `MCRecoverySession`, `MCRunnerDaemon`, `MCAntigravitySession`, `MCClaudeSessions`, `MCTaskSessions` | instances and symmetry for TLC |

How they fit. A backend's `TaskSessions` asks a driver to open, read and close a
conversation. For Claude that is `ClaudeSessions`, for Antigravity
`AntigravitySession`; both speak to a runner, which `RunnerDaemon` models as a
process and `RecoverySession` as one session. Each upper module has the lower
one's promise in place of its detail: `AntigravitySession` has the runner's
commit, attach and detach as single steps, which is what `ImplementsStream` and
`InputsMatchCheckpoint` justify; `ClaudeSessions` has a runner that ends what the
last one left before it answers, which is `NoSecondAgent`; `TaskSessions` has
providers that answer or fail every call, which is `AskedIsAnswered` and
`CallsReturn`.

### RecoverySession

One action is one critical section under `Recovery.state`, or one step of a task
between two awaits.

- `node`, `sub`, `replay` are `enum Node` with its `Subscriber`; `journal`,
  `bytes`, `produced`, `acknowledged`, `checkpoint` are `State`. An entry is its
  kind and encoded size: sizes decide backpressure, contents decide nothing. A
  checkpoint is an opaque string to the runner; what the model keeps of it is
  what a driver must be able to rely on, the prefix it covers and how many
  inputs the driver had accepted.
- `deliveries[l]` is the `deliver()` task spawned for lease `l`. A task lives on
  after its lease is lost until the abort lands at an await (`Aborted`), so stale
  tasks really compete with current ones.
- `asleep` is who awaits `changed`. The code enables its `Notified` before it
  takes the lock, so registration and check are one step; only
  `notify_waiters()` (`NotifyWaiters`) empties the set.
- `subscription`, `lane`, `conn` are the connection side: `lane_for`, the pump,
  `serve_requests` and the two halves of `release_subscription_of`, between
  which another connection may come.
- `view` is the client: its lease and what it has read. It is history for the
  properties, and bounds what a client asks: any lease ever handed out, up to one
  entry past what it has read. Requests the runner refuses on their first look
  change nothing and are no step.
- `reader`, `writer`, `supervisor`, `pending`, `kill`, `stdin`, `child` are
  `read_stdout`, `write_stdin`, `supervise`, the event each of them is
  appending, and the child. `Close` is `Session::close` up to its wait.

Left out: stderr diagnostics (never journaled), overflow of the 64-bit sequence,
requests refused for a wrong incarnation or an oversized checkpoint. A
connection that lost its pump is not given a second lane, because its next reply
fails and ends it.

### RunnerDaemon

One action is one step of a runner process or of a request handler between two
awaits. `phase` follows `run_foreground`: `bind` in its three steps (test the
file, remove it, bind), `clear()`, the accept loop, collection of the sessions,
the closers, removal of the file and the end of the process. `path` is the socket
file, by the runner whose listener was bound there; a connection succeeds while
that runner listens. `book` is the directory of child records. `lock` is the
registry's mutex where it is held across an await. A `handler` is a connection
and the request it is in: create as spawn, record, insert; close as wait, forget,
unlist; stop as answered, then asked for. `Crash` is a runner killed outright:
its children go on, its file and its records stay. `AcceptFails` is the early
return of the accept loop. `restart` is the command line's `daemon restart`.

A child is its pid with its start time, the identity `leftovers.rs` compares, so
a reused number is another child. Its record keeps one piece of history, `late`:
it was created by a runner that had left its loop without being asked to, which
only the idle clock does. A record is assumed to be written when
`remember()` writes it. `clear()` reads the directory at once and ends a child
and removes its record in one step; a crash between those two leaves a record of
a dead process, which the model has from other crashes.

### AntigravitySession

One action is one critical section under `Session.state` or one step between two
awaits, the commit in flight being the one thing under `outbound`.

- `output`, `stdin` are what the child wrote and was handed; `saved`, `node`,
  `fence` the runner's side; `cp`, `through`, `replayed`, `phase` the driver's
  `State`. A checkpoint has the next RPC identifier, whether the conversation is
  loaded, the pending requests, the questions, the child's other calls that are
  owed a response, and the `Input` with its run.
- `reader` is where `Session::read` stands: a frame is applied in one critical
  section (`applied`), counted in the next (`counted`), acknowledged in a
  commit of its own, and followed by what it made due: a remembered Stop
  (`cancel_if_due`) and the responses owed (`flush_responses`, one commit each). `commit` is the request awaited, and `orphan` one its sender
  gave up on that the runner may still execute.
- `caller` is a call of the application (`start_turn`, `steer_turn`,
  `interrupt`, an answer to a question) between its steps, and `told` what it was
  told of its prompt: accepted, rejected or unknown.
- `opener` is `open_for` and `close_session` under the slot's lock, with replay,
  prepare, retire and close. `prepare()` finds the conversation loaded or not,
  joins a set-up that is pending or sends one, and waits: for the reply, for an
  error reply, which leaves the conversation to be set up by the next open, or
  for 120 seconds, after which the connection is given up (`PrepareTimesOut`).
- `WireDies`, `CommitTimesOut`, `BackendRestarts` are the faults; a restart
  keeps only what the runner and the child have.

Left out: model and mode configuration, transcripts, the text of frames and of
responses, the child's exit (a closed slot opens a new one).

### ClaudeSessions

One action is one step of `open_conversation`, `close_conversation` or
`restart_runtime`, of a connection's route task, of a session's reader or of the
runner, between two awaits. Opening and closing one conversation is serialised
by the Task's operation lock, so each conversation has one `op`.

- `wire[w]` is a connection: what it was asked, the answers and the lane of
  events on their way, and whether it is `up`, `closed` (the runner's end is
  gone, the route task has not seen it) or `over`. `slot` is the shared one,
  `sink[w][n]` its `sessions` table.
- `session[s]` is a stream handed to a `Session` with its channel and reader;
  `held` is `ClaudeClient.sessions`. The marks are `closing` (`closed` for a
  person's close) and `unmarked`, a ghost for a session that began in a restart.
- `child` has every process, the session it was spawned for, the lane its output
  goes to, and whether it was told to end; `registry`, `sub` and `runner` are the
  runner's. A child whose runner was killed is an `orphan` until it ends or the
  next runner ends it.
- `door` is `StartGate`; its two seconds are the state `spacing` of a door no
  start may pass, left by the one action `DoorOpens`.
- Faults are a dropped connection, a killed runner, a restart, and a request
  given up on (`GivesUp`, `CloseGivesUp`: the thirty and five seconds ran out).

A relay event carries the name of its session and no more, which is what makes
the module: the exceptions its properties name are where that is not enough.
`history.crossed` has the names whose old exit was routed to a later stream,
`history.overdue` the names with an open or close given up on that the runner may
still carry out, and the mark `unmarked` a session a restart did not count.

Left out: control requests and `take_up`, turns and frames, approvals, fresh and
forked starts, a backend restart, and the recoverable opens, which are
`AntigravitySession`'s.

### TaskSessions

One action is one critical section of `SessionEntry.state`, or one step of a
task that awaits a provider. `entry` is `SessionState`: lifecycle, generation,
the conversation's status with a pending one, the page of turns, the active turn
and the candidate for a terminal one, the runtime lease and retention. `line` is
the operation lock with those waiting for it, `cmd` the command that holds the
mutation lock, `viewers` and `boots` the browsers' leases.

The code settles stale reads by counters (`revision`, `status_revision`,
`observation_epoch`) that are compared only with a value read earlier. `moved`
keeps, for the operation and for the command, which of them moved since they were
read: the same comparison without a counter to bound.

`agent` is the agent's own account of its turns, `link` its connection, `chan`
the reports on their way to the bridge, in order. A Codex server tells its
thread's status and its turns apart; so does Claude's client, whose own steps are
modelled as it takes them: a turn named from the transcript (`TurnBegins`) or
ended (`TurnEnds`), work without a turn, an exit, a transcript to be read again
(`agent/claude/reading.rs`, `turn.rs`). The idle status may come before the turn's
end or after it. `Deliver` is one turn of the bridge loop with everything
`session_events.rs` does for that report. An answer to a call or a read is taken
whenever it comes: nothing orders it after the reports sent before it, because
the one bridge loop awaits a session's operation lock (`bridge.rs:190`) while
every other session's reports wait. `ConnectionLost`, `Connected`, `SessionEnds`,
`Lag` are what the bridges handle; `CallFails` is a call refused, on a connection
that stands or ended, or its answer lost; `CommandFails` is every
error `prompt` and `stop` return between two of their steps, on which they leave
the session as the resume or the read before it made it.

`link.late` and `faults` are history, recorded and never read by an action, but
for the bound on faults. `late` has `"reports"` once a Codex subscription was closed
on this connection with reports of it still waiting, and `"turns"` once a stop wrote
what it had read into a session closed under it: the two ways an old subscription
speaks in the next one's name, which two properties except.

The recovery of loaded threads after a connection came back goes through every
thread the server lists and skips what the Task may not write; for one
conversation that is either `CommandBegins("recover")` or `NotLoaded`, at any time.
A Claude refresh of the latest turns moves the revision in the model whenever it
was answered, in the code only when it changed something: one more reader that
settles for the newer of two accounts.

Left out: listing and metadata, titles, settings, items and diffs, background
work, `NotLoaded` and `SystemError`, older history pages and
`recover_live_claude_session`; and a conversation that is replaced under its
session (`session_events.rs:152`), which moves the epoch as a lag does.

## Runs

| Run | Instance | Shows |
|---|---|---|
| `recovery_races` | 2 connections, 2 leases, 1 line, 1 input | `SubscriberPosition`, `ReplayIsExact`, `SubscriberKeepsItsStream`, and that the session implements `OutputStream` |
| `recovery_journal` | 1 connection, 2 leases, 1 line, 2 inputs, a journal of 2 and frames of 1 and 3, of which the second never fits | `BytesAccounted`, `NoLostWakeup`, `ExitIsLast`; with fairness `LiveReadsEverything`, `CloseFinishes`, `ReplayReachesFence` |
| `daemon_registry` | 2 runners in turn, 2 handlers, 1 relay session, 2 children, idle clock on | `NoSecondAgent`, `RegistryReaches`, `StopClosesAll` |
| `daemon_idle` | 2 runners in turn, 1 handler, 1 recoverable session whose child may never end, idle clock on | `RecordKept`, `ClearSparesServed`, `StopEnds` |
| `daemon_two_starters` | 3 runners, two of them starting at once | a violation, see Findings |
| `antigravity_calls` | 2 callers, 3 RPCs, 3 frames, 1 fault | `TypeOK`, `TruthfulVerdicts`, `NoInputTwice`, `NoReplyLost`, `CancelAfterStart` |
| `antigravity_liveness` | 1 caller, 1 question, 2 RPCs, 3 frames, 1 fault, with fairness | `NoQuestionForgotten`, `StopReachesChild`, `CallsReturn` |
| `antigravity_prefix` | 2 callers, 3 RPCs, 4 frames | a violation, see Findings |
| `claude_sessions` | 2 conversations, 2 connections, 2 streams, 2 children, 1 fault | `AttachedIsHeard`, `StreamIsOwned`, `StopIsNoFailure`, `OneYoungStart`, `HeldIsAlive`, `AskedIsAnswered`, `CloseEndsChild` |
| `sessions_settle` | a Codex or a Claude session on its first connection, bootstrap, prompt and stop, 2 turns, up to 3 reports waiting, no fault | `StatusSettles`, `TurnsSettle`, `EndedStaysEnded` |
| `sessions_watch` | a Codex or a Claude session over 2 connections with bootstrap, prompt and recovery, 1 fault, no turn, with fairness | `TypeOK`, `EffectsEnd`, `SubscribedIsWatched`, `ComesBack`, `LeftIsLetGo` |
| `sessions_stop` | one stop, one turn | a violation, see Findings |

The type invariants of the runner's two modules and of `ClaudeSessions`, `InputsMatchCheckpoint` and
`ReadsInOrder` (which `ImplementsStream` implies), `JournalIsUnacknowledged` and
`ListenerKeepsPath` are not properties of a run: they are proved for every
instance, below.

Why the bounds are enough. A race over a session is between an older and a newer
owner, so two connections and two leases give every pairing of a stale and a
current task; a third adds another stale task that is refused by the same
comparison. Position, replay and input are per entry, and one line, a failure
report and Exit already make three entries. Backpressure needs two producers
that do not fit together: the run has two frames of size 1 at a full journal and one
of size 3 that never fits, and two accepted frames of different sizes are left to
the proof of `BytesAccounted`, which has any sizes. In
the daemon a hazard is between one runner and its successor, and between two
handlers of one session; two children are one that exited or was left behind, and
its replacement or the successor's. The proofs remove the bounds for what they state. For
Antigravity, a verdict is about one prompt against one other that steers, stops
or waits for `outbound`, and one fault already splits a commit from its answer;
three RPCs are the setup and the two prompts. For Claude, every hazard is between
a session and its successor under one name (two streams, two children, two
connections), or between two names at the one door and the one connection. For
Task sessions, a stale read is one read against one report that overtakes it, and
a generation against its successor; a turn can be begun, seen, ended and read
at any of these moments, and a second one followed by the first's late reports.
What a replaced connection, a fault or an exit leaves behind does not depend on
which turns ran, so `sessions_watch` has status reports and no turn.

@@LARGER@@

Deadlock is not checked: a closed session whose connections ended, a set of
runners that are all gone, and a Task nobody uses have really stopped.

Fairness. Spawned tasks run (Tokio polls what is woken), the pump writes or finds
its socket dead, a reply is written, a runner that is not killed goes through its
own steps, and a process sent SIGKILL ends and its stdout with it. Nothing is
assumed of a client, of the child's output, or of a child that was not killed.
A descendant of the agent that keeps the pipe open breaks the last assumption;
the code answers it with `CloseFailed`, which `RunnerDaemon` has as the branch of
`CloseSettles` that gives up, and `StopEnds` holds with it.
For Antigravity, the runner answers what it was sent, a commit is answered or
given up on after its timeout, the reader and each call go on, and strong
fairness for those two stands for `outbound` being Tokio's fair mutex: a waiter
gets it however often others take it. Nothing is assumed of the child or of a
person. For Task sessions, the bridge and the provider's answers, the holder of
the operation lock, the command, and the restore after a connection came back
run; bootstrap and recovery begin because tasks of the backend, not a person,
begin them, and a lost Codex connection is replaced. `RetentionLapses` has strong
fairness: its thirty-minute timer outlasts the calls that disable it in between.
`claude_sessions` states no fairness and claims no liveness.

The daemon's runs and theorems have one starter at a time: with two,
`ClearSparesServed` fails, which `daemon_two_starters` shows. The idle clock is on, as
by default (`main.rs:65`), and `NoSecondAgent` and `StopClosesAll` name what it costs:
a child created after the clock ended its runner's loop (`late`).

## Findings

- `daemon_two_starters`: `bind()` tests a leftover file and removes it later. Of
  two runners started on a crashed one's file, the slower removes the socket the
  faster already serves, and ends its children as leftovers.
- `antigravity_prefix`: a frame is applied in one critical section and counted in
  the next. A request encoded between the two saves a checkpoint that contains
  the frame's effect under a `through` before it; replayed onto it, a reply is to
  an unknown request, and the session cannot be restored.
- `sessions_stop`: `active_turn_id()` writes the active turn it read before it
  compares revisions, so a turn that ended during the read becomes active again.

## Observed while modelling

What the models show besides, without a run of its own: where a property has to
name an exception, this is why.

Runner. The idle end does not refuse creates as a stop does (`stopping` is not
set), so on a connection that is still open a child can be handed out after the
sessions were collected. It is in the book and ends with the process or by the
successor's `clear()`, but until then the conversation may have two. `daemon
restart` starts when the stop was answered (`main.rs:145`), can meet the runner
that is still leaving, prints `alreadyRunning` and leaves none. Replacing an
exited relay session drops the old child's pid without crossing it out of the
book. A runner killed between starting a child and writing it down leaves a child
nobody ends, and a write of the record that fails (`leftovers.rs:92`) says nothing,
so the same child is handed out unrecorded.

Runner client. A relay event names only its session. The supervisor frees the
name (`State::Exited`) before it publishes Exit, so a conversation closed and
opened again in between has the old exit routed to its new stream
(`runner.rs:836`): the new session ends, its child runs on attached, and the next
open is refused with `AlreadyAttached`. `close()` answers Ok when no runner
listens (`runner.rs:581`), although a killed runner's child may still be writing;
`close_recoverable` starts a runner first. An observer of a recoverable session is
released at the backend only (`runner.rs:390`): while the abandoned lane is open
the runner refuses the next attach. Connecting to a runner that is stopping
succeeds and is never served.

Claude. `restart_runtime` marks the sessions it is going to end and takes the
marks back when it fails (`claude.rs:619`), also from sessions a person closed
meanwhile and when `ensure_running` failed after the sessions had ended; a
session whose open was in flight has no mark at all. Either is told as a failure
of the agent. The reader of a replaced registration reports `Unreachable` for a
session that was not lost.

Antigravity. `cancel_if_due` (`session.rs:668`) has no guard for a replay, so a
remembered Stop can be sent while the runner takes no input, and is refused. An
acknowledgement that waited behind a commit gone unanswered (`reading.rs:94`)
replaces the runner's checkpoint by one in which that prompt was not accepted. A
steering prompt reserved before a Stop is dispatched after its cancel
(`session.rs:342`) and runs uncancelled. After an unanswered commit and a restart
the driver may have forgotten a prompt the child was given; the child's work for
it counts as the start of a later one, and a cancel can come too early:
`CancelAfterStart` is claimed for one fault. `prepare()` reads whether the conversation is
loaded and looks for a pending set-up at two moments (`session.rs:179`, `278`); when the reply
comes between them it sends a second set-up, so `NoInputTwice` says that no set-up is
written while another is unanswered.

Task sessions. Reports left waiting by a Codex subscription that was closed are
taken for the next one's when the session is opened again on the same connection:
nothing in them tells the two apart, they count as newer than the reopened
snapshot, and the status of the older may stay. `StatusSettles` and `TurnsSettle`
except it (`"reports"`). A start report that is delivered while the session is being
closed, or after, leaves a runtime lease on a session nobody watches. A stop can write
the turn it read into a session closed under it (`"turns"`), and a prompt that
resumed on the page of an earlier connection takes a lease for the turn it finds
running there; if it then returns an error (`commands.rs:135`, `167`), no refused steer
refreshes the page and the lease stays. So does one taken by the active turn a stop
writes back (see `sessions_stop`), with no candidate left whose end would drop it.
That a lease is always earned is therefore claimed of nothing. A lag of the Claude bridge
(`claude_bridge.rs:102`) moves the epoch of a session in the middle of an open,
whose call then leaves it in `Subscribing`, and each later open panics in
`transition()` (`control.rs`). A lag that drops the report of an exit leaves the
session subscribed to nothing, the one exception `SubscribedIsWatched` names. A
restore that the provider refuses is printed and not tried again (`bridge.rs:94`): the
session in demand says Error, the exception `ComesBack` names. `TurnsSettle` is claimed
for a connection never lost, because `apply_prompt_resume` keeps the old page after
one was.

## What is proved

`RecoverySessionProofs` and `RecoveryInvariants` hold, for any sets of connections and frame sizes and any bounds, from the assumptions
`ConnectionsAssumption`, `BoundsAssumption` and `SizesAssumption`:

| Theorem | Property |
|---|---|
| `TypeCorrect` | `TypeOK` |
| `JournalCorrect` | `JournalIsUnacknowledged` |
| `PositionCorrect` | `SubscriberPosition` |
| `InputsCorrect` | `InputsMatchCheckpoint` |
| `ReplayCorrect` | `ReplayIsExact` |
| `ReadsCorrect` | `ReadsInOrder` |
| `KeepsCorrect` | `SubscriberKeepsItsStream` |
| `ExitCorrect` | `ExitIsLast` |
| `WakeupsCorrect` | `NoLostWakeup` |
| `BytesCorrect` | `BytesAccounted` |
| `Refinement` | `ImplementsStream` |

The argument. A subscriber's position is kept in four places: what the runner
counts as delivered, the frame it believes in flight, the item the delivery task
of the current lease carries, and what the client has read. None of the stated
invariants is inductive, because a write may have happened that the runner has
not recorded. `Inv` ties the four together by where the current task stands
(`PositionInv`, `FenceInv`), says that a lease belongs to one connection and at
most one task (`LeaseInv`), that the journal is the unacknowledged interval and
the checkpoint what was accepted. Stale tasks need no clause: every action of
theirs is shown to leave the current lease's four places alone, because it
compares the lease under the lock. `ClosedInv` and `ChildInv` say what is left
of a closed session and which producers can still append in each phase of the
supervisor (for Exit), and `WakeInv` what each sleeper waits for. Every invariant
is preserved action by action; the temporal theorems follow with PTL, and the
refinement maps each action to one of `OutputStream` or to a stutter.

`BytesCorrect` is about a sum over a set, a recursive function of the community
modules. What it gives is proved by induction on the number of elements, said of a
set of naturals and not of a predicate (`Counts`, from the least element that the
library's `WFMin` gives): there is one way to add up a finite set (`AddsExists`,
`AddsUnique`), whichever element is taken last adds its size (`AddsOne`), so a part
and its complement make up the whole (`SizedSplit`). An append then adds one size
and a commit takes off those of the prefix it drops.

For `RunnerDaemon`, with any number of runners, clients, sessions and children,
from the assumptions on its constants:

| Theorem | Property | On terms |
|---|---|---|
| `TypeCorrect` | `TypeOK` | - |
| `RecordCorrect` | `RecordKept` | - |
| `ReachesCorrect` | `RegistryReaches` | - |
| `ListenerCorrect` | `ListenerKeepsPath` | one starter at a time |
| `ClearCorrect` | `ClearSparesServed` | one starter at a time |
| `OneAgentCorrect` | `NoSecondAgent` | one starter at a time |
| `StopCorrect` | `StopClosesAll` | one starter at a time |

The argument. A handler loses control at every await, so the invariant is what it
may still rely on when it goes on (`Knows`): a child being started has its place
in the registry kept free, because the lock is held and an exited child stays
exited; it is in the book before it is handed out; a child being forgotten has
ended. With `ServedInv`, that children and connections belong to a runner that
answers or is gone, this gives the book and the registry for any scheduling,
crashes and idle ends included. What relates two runners needs `StarterInv`: the
runner that found a leftover still finds one when it removes it, which is true
only when nobody else starts (`MaxStarting = 1`, the term `OneStarter`), and
`daemon_two_starters` shows what happens otherwise. `AgentInv` then says that
while a runner clears, every child in use is still on its list, so that when it
serves only its own children are in use; and that a runner that leaves because it
was asked to lets nobody take its lock after it collected its sessions. One that
leaves by its idle clock does let them, and each child created so is marked `late`
when it is recorded; all others were in the registry when it was collected. Both
theorems hold with the clock on or off, for every child that is not late.

For `ClaudeSessions`, with any conversations and any bounds, from
`InstanceAssumption` (there is a conversation, none is called `"none"`, `"open"` or
`"spacing"`, and the bounds are natural numbers):

| Theorem | Property |
|---|---|
| `TypesAreKept` | `TypeOK` |
| `AskedAreAnswered` | `AskedIsAnswered` |
| `StreamsAreOwned` | `StreamIsOwned` |
| `ClosesEndChildren` | `CloseEndsChild` |
| `StartsAreSpaced` | `OneYoungStart` |
| `HeldSessionsAreAlive` | `HeldIsAlive` |
| `AttachedAreHeard` | `AttachedIsHeard` |
| `StopsAreNoFailures` | `StopIsNoFailure` |

The argument. `TypeInv` goes by groups of variables, because they lean on each
other: an open that has a connection names a real one, a child with a lane has a
name. Three invariants follow, each beside the types. `AskInv`: connections are
made in order, so a new one is never one somebody waits on, and an open that waits
has its request or its answer on its connection; the route task cannot end a
connection without failing those. `OwnInv`: streams are opened in order and carry
the name they are routed, opened or held under, and a conversation being opened is
held by nobody; so what a reader lets go of by identity is its own. `CloseInv`: a
running child is the one its runner knows under that name (`Known`), each
conversation has at most one request or answer under way and only while its open
waits there (`Lone`, unless one was given up on), and a close waits for the only
child of its conversation that runs (`Kills`). `Lone` is what makes the close
final: no start the backend has forgotten can be served after it. `DoorInv`: the
door is shut while an open is past it, and until that open has begun a start
nothing young runs; by `Lone` the request a runner serves is that of the open past
the door, so a child is young only while the door is shut for it.

The last three theorems ask whom an event belongs to, although it names its
session only. `PlaceInv` gives every request, answer, exit, route and relayed
child a stream of its own name and connection. `LiveInv` says of a session that
is read what `HeldIsAlive` says of a settled one: its child speaks to it, or its
end is on the way, and names the five ways (the connection closes or is over, the
stream is routed elsewhere, an exit is in the lane or in the inbox). It has to
say so from the answer on, while the open still waits, because the child may exit
in between. `OnceInv` says that a stream is asked for once: until then nobody
knows of it, and from then on one child attends to it, until that child's exit is
said; so an exit said on a stream is that of the child its session knows. With it
`HeardInv` proves `AttachedIsHeard`. That property alone is not inductive: a
failing open unroutes by name, so somebody must be shown to stand in the way of a
second open while the child runs (`Promised`: it is held, or its open is answered
or going to be, or it is being closed). `StopInv` follows the order of events in
`close_conversation` and `restart_runtime`: whoever asks for an end lets go of the
session or marks it before the runner hears of it, so a session that is read
without a mark has a child without an order, and is still the one its
conversation holds; by `OnceInv` an exit that arrives there is that child's, and
a child that is gone takes no orders.

For `AntigravitySession`, with any number of callers, questions, identifiers,
frames and faults, from `BoundsAssumption` (the bounds are natural numbers):

| Theorem | Property |
|---|---|
| `TypesHold` | `TypeOK` |
| `VerdictsAreTrue` | `TruthfulVerdicts` |
| `InputsAreSentOnce` | `NoInputTwice` |
| `RepliesAreKept` | `NoReplyLost` |
| `QuestionsAreKept` | `NoQuestionForgotten` |
| `CancelsFollowStarts` | `CancelAfterStart` |

The argument. The driver's checkpoint exists at four ages: what the runner saved,
a commit its sender gave up on (`orphan`), the commit awaited, and the driver's
own. What the properties say of the saved one is not inductive, because a commit
may replace it at any moment, so each clause is stated of all four. `OpenInv`
says which of them exist in each phase of the opener and the connection.
`OrderInv` orders them: counters only grow.
`FreshInv` and `SetupInv` follow an identifier from the counter that made it to
the child's input: it is new to the child for as long as a commit carries it, and
one commit carries it, so nothing is sent twice whatever is retried; while a
set-up the child was given is unanswered, every one of the four awaits it
(`AwaitsSetup`), so no second is sent beside it. `ClearInv`, `AskInv` and `RespondInv`
follow a frame the other way: no checkpoint that covers a reply
still waits for it, and each that covers an open question or an unanswered call remembers it, also when
an older checkpoint replaces a newer one. `CallInv` joins an identifier to the
call it was handed to, and says of what the call is told that it is so: accepted
once the child was handed it, rejected when no commit carries it any more.

`CancelsFollowStarts` speaks of at most one fault, as `CancelAfterStart` does, and
needs an account of the runs of the child. A run is named by its anchor, its first
prompt. `Begins(w, a)` says frame `w` is work and every prompt below `a` that the
child was given, or may yet be, was answered before it; `BegunInv` says there is
such a frame for every cancel given or on its way. `HeldInv` is what makes the frame
that sets `started` one: a prompt given, or on its way, is in the input's requests
or its reply is among the frames the driver has read, and no request is below the
anchor. `TakenInv`, `SentInv` and `SavedInv` say the same of the accepted requests
of the checkpoint, of the commit awaited and of what the runner saved, since these
are all that a restored driver keeps. Those hold as long as nothing was left
unanswered, which is enough because a driver is only restored after its connection
was lost: that and an unanswered commit are two faults.

For `TaskSessions`, for either kind of session, any roles and any bounds, from
`InstanceAssumption`, however far the bridge is behind:

| Theorem | Property |
|---|---|
| `TypesHold` | `TypeOK` |
| `EffectsHaveEnded` | `EffectsEnd` |
| `SubscribedAreWatched` | `SubscribedIsWatched` |
| `EndedTurnsStay` | `EndedStaysEnded` (an action property) |
| `StatusHasSettled` | `StatusSettles` |

The argument. A session is awaited outside its lock of state, so the invariant
says what the task that awaits may rely on. `LineInv`: whose operation holds the
lock, and that no generation is ahead of the connection. `EffectInv`: a session
half subscribed or half unsubscribed belongs to that operation, and its epoch has
not moved since it began; so however the call answers, it takes the state out of
there. `WatchInv`: a session that is subscribed, or whose open was answered on a
connection that still stands, is reported by the provider, or a loss is on its
way to it; this is where the epoch earns its keep, because an answer that crossed
a close is recognised by it. `EndInv`: every place that says a turn ended (the
page, the pages being read, the reports in the channel) is right, and a page that
still has it running was read before the session's revision moved, so that merging
it cannot reopen the turn.

`StatusHasSettled` is about quiet states, so its invariant, `Settled`, accounts for
all that may still be under way while nothing was lost (`faults` is empty) and no
closed subscription left reports behind (`Clean`). The measure is `Agrees(s)`: status
`s` is what the agent does, unless a report that says a status still waits.

- `SaidInv`: the last waiting report that says a status says what the agent does,
  and a session nobody watches has none waiting. So the bridge may be as far behind
  as it likes: what it has yet to deliver ends on the truth.
- `ToldInv`: a status reported while an open is under way moved the session's
  revision, and what the session knows by it agrees.
- `OpenInv`: what an answered open would settle on (its snapshot, or the known status if
  that was reported since) agrees. A Claude session ignores a status it already
  has and so leaves the revision alone; then the session knows nothing else, or a
  report that will correct it is still waiting (`Corrected`).
- `KnownInv`: the status a subscribed session holds agrees.

When no report waits, to agree is to be equal, which is the theorem.

Only model-checked: `TurnsSettle`, which needs an account of every turn from the
prompt that begins it to the report of its end, and the
liveness properties (`LiveReadsEverything`, `CloseFinishes`, `ReplayReachesFence`,
`StopEnds`, `StopReachesChild`, `CallsReturn`, `ComesBack`, `LeftIsLetGo`), which are
out of the prover's reach, as is ENABLED.

## Not modelled

The Codex and Grok clients (request correlation over a server of their own; what
they promise a Task is the provider of `TaskSessions`), task events and their
cache, the live updates gateway, worktrees and the task lifecycle, terminals and
file watches, the update procedure and the frontend's recovery have state machines
worth modelling and have none yet. The task store is SQLite's transactions. Files,
Git, GitHub, notes, voice, Tailscale and previews are request handlers over
external programs, and the macOS wrapper is platform UI: there is nothing in them
for a model checker. Most of the repository by lines is of these last kinds,
parsing and encoding of transcripts and protocols, user interface and tests.

## Plan

1. The remaining proof: `TurnsSettle` of `TaskSessions`.
2. `TaskEvents`: the event cache and resynchronising readers, over `TaskSessions`.
3. `LiveUpdates`, `WatchRegistry`, `TerminalRegistry`: generations and last
   releases.
4. `TaskLifecycle`: archive, restore and delete with a failure at every step.
5. `Update`, `ForegroundRecovery`: small machines with timers.

Each comes with an abstract statement where one is worth having, a run with its
mutants, and its safety invariants proved once TLC agrees.
