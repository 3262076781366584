# A TLA+ model of the ShellFleet agent

The ShellFleet agent runs on a managed host as an unprivileged daemon. It keeps
one WebSocket to a control plane, reads JSON messages from it and answers them:
services, logs, terminals, package upgrades, backups, probes. Root operations
are not the agent's: a second daemon, the *approval gate*, runs as root, listens
on a Unix socket, and executes an operation only after an enrolled approver has
signed the exact manifest it issued. The agent relays bytes between the two.

This directory models the parts of the program whose correctness depends on the
order of things: what runs in parallel, what can fail half way, what survives a
restart. Paths below are relative to the repository; line numbers are those of
the commit the model was written from.

## 1. The system

### Processes and tasks

* `src/main.rs`, one process. `main` pairs or reads its token, connects, and runs
  one `select!` loop: read a message, write a queued message, heartbeat (20 s),
  watchdog (15 s, limit 75 s). A message's handler is either awaited in the loop
  or spawned on Tokio's multi-threaded runtime. That choice decides which
  interleavings exist, and it differs from handler to handler.
* `src/bin/shellfleet-approval-gate.rs`, one process, one task per connection.
* Children: `journalctl`, `docker logs`, `systemd-run` units, shells in PTYs.

Everything the agent sends goes through `Outgoing` (`src/lib.rs`), a bounded
queue with a non-blocking `try_send`. A full queue refuses the message, and most
callers ignore that.

### Components

| component | state it keeps | operations | hard part |
|---|---|---|---|
| approval gate (`approval.rs`, gate binary) | SQLite table `trusted_requests`, keyring file, host keys | challenge, approve, enroll, spawn, reap | concurrent handlers, crashes between commit and spawn, expiry, key replacement |
| root PTY (`run_pty`, `framing.rs`, `crypto.rs`) | counters of the transport, PTY child, output channel | read frame, write frame, encrypt, decrypt | a `select!` that drops a half-read frame, replay and reordering by the relay, order of output and exit |
| trusted relay (`main.rs:768`, `client.rs`) | map request id to session, two tasks per connection | start, frame, close, gate's frames | reuse of ids, ends that arrive from both sides |
| stream registries (`logs.rs`, `journal.rs`, `journal_stream.rs`, `k8s_logs.rs`) | map key to JoinHandle | start, stop | spawned handlers interleave; abort only asks |
| journal stream (`journal_stream.rs`) | pipes, line channel, chunk buffer | pump, batch, flush, supervise, abort | order of chunks and End, refused sends |
| Kubernetes log stream (`k8s_logs.rs`) | chunk buffer | read, flush, end | a full queue looks like a closed one |
| package upgrade (`apt.rs`) | journal file, script, log, result, transient unit | start, watch, resume, clean up | survives the agent's restart; several watchers of one run; files read while they are written |
| main loop and connection (`main.rs`, `lib.rs`) | queue, last_read, capabilities | dispatch, write, ping, watchdog, probe the host | a blocked write stalls everything; a proxy keeps a dead session warm |
| pairing and credentials (`main.rs:300-545`) | three token files | pair, rotate, connect, restart | files written one after the other; a rotation whose answer is lost |
| health probes (`health.rs`) | map id to (spec, task) | sync, probe, report | syncs applied out of order, reports refused |
| command execution (`exec.rs`) | process group, shared budget, flags | run | two readers, exit, timeout and limit race |
| terminals (`terminal.rs`), Kubernetes exec (`k8s_exec.rs`) | session maps, threads, pumps | start, data, resize, stop | who ends which task, and in which order it speaks |
| backup and restore (`backup.rs`) | archive, upload id, parts, pipe into tar | back up, list, restore | partial failure of a multipart upload; names of one second; a full pipe |
| docker (`docker.rs`) | none of its own | prune preview, prune; one command per other request | the host changes between preview and prune |
| Kubernetes resources (`k8s.rs`) | none of its own | apply; one call per other request | a manifest of which a part was applied |
| configuration editor (`config.rs`) | none | check, read, write | path normalisation and symlinks |
| stack deployment, systemd, statistics | none | one command or read per request | |

What makes each correct, in a sentence:

* gate: an id starts at most one root operation, exactly the one that was
  signed, in time, with a key that was enrolled;
* root PTY: what is typed reaches the shell once and in order, output precedes
  the exit, the session ends with its peer unless its loop hangs in the terminal;
* relay: a connection carries one session of one id, and its end is the last thing
  it reports;
* registries: one stream per key, and every running stream can be stopped;
* streams: chunks in order, End last, and no End without an error after lines that
  were lost, unless the queue refused something (a journal pump that cannot read
  its pipe is the exception: nothing tells);
* upgrade: a verdict is true, comes after dpkg, and comes at all;
* credentials: the process connects with a token of its own pairing, and gets
  back online by itself unless a rotation was cut short;
* loop: while it is back in its `select!`, a dropped session is noticed in time, and
  a healthy one is never ended while the queue takes its Pings;
* requests: an answer tells the truth about what was done, nothing the server was
  told goes out of date in silence unless the queue refused the news, and a task
  ends when what it waits for does.

PROJECT.json lists every component with its status and every hazard with the
line where it bites.

## 2. Modules

### `ApprovalGate` (with `SingleUseApproval` and `MCApprovalGate`)

State: the table's columns `rowStatus`, `rowManifest`, `consumedAt`; `keyring` for
`approvers.json`; `clock`; and for each connection the `phase` of its handler,
the challenge it issued, the manifest, key and time of the approval it read, its
read snapshot (`fresh`) and its `child`. `signed`, `execs` and `seen` are history.

`approve()` is split where another handler, an enrolment, the clock or a crash
may come in between: `ReadApprove` (frame and clock), `CheckApprover` (keyring
and signature), `SelectRow` (transaction and SELECT), `ConsumeRow` (UPDATE and
COMMIT), `Spawn`. SQLite in WAL mode gives a transaction the snapshot of its
first read and refuses its write if another transaction has committed since
(`fresh`, `Committed`, `RollBack`). A PTY handler's blocking write to its terminal
is a phase of its own, "typing", entered by `PtyInput` and left by `PtyInputTaken` when
a program reads, if one ever does. `Crash` takes all handlers and open
transactions; `Restart` may come with another policy version.

A nonce is 32 random bytes, so the connection that drew it stands for it.
Signatures are the set of pairs an owner of a key has signed. A peer may present
any manifest ever issued, and any with its operation replaced.

`SingleUseApproval` is the abstract ledger: ids are registered with an operation,
vouched for, authorised, executed, each at most once. `ApprovalGate` implements it
under the mapping at the end of that module.

### `RootPty`

One PTY session: client, relay, socket, `run_pty`. `write_frame` writes a length
and then a body, so the wire is a sequence of such parts; `PollLength` is the
`read_frame` future that has consumed a length only. `TakeOutput` is the other
branch of `select!` and drops that future. `PollGarbage` is what follows when a
body is taken for a length. `pty_writer.write_all` blocks the thread inside
`select!` (gate binary, line 361): a data frame takes the loop to "typing", where it
polls nothing until the terminal takes the bytes (`TypingDone`) or nobody has it
open any more (`TypingFails`). The relay may repeat, drop and reorder frames unless
`Faithful`. The counters end at `CounterMax`, for `u64::MAX`.

### `TrustedRelay`

The main loop's handler (one action per outcome), `sessions` for
`trusted_sessions`, and per connection the channel to the writer task, both
directions of the socket, and the reader task. Messages are named by the
position at which the loop read them, so that properties can speak of order. The
gate reads, answers and closes as it likes, and while it is "typing" into a PTY does
none of these. What a reader task reports goes to the bounded queue: `sent` is what
the queue accepted, and `missed` the connections whose report of completion it
refused, which `client.rs:54` and `69` ignore. A payload that decodes is taken to
be within the size limit that `RelaySession::send` checks.

### `LogStreams` (with `OneStreamPerKey`)

The registry of the four stream modules and its two ways of being called: the
Kubernetes handlers (`InlineKeys`) are awaited in the loop (`main.rs:1269`), the
others are spawned (`main.rs:1486-1541`). `overlapped` records the requests whose
handlers shared a key and a moment. A handler's steps are those between
which the mutex is released: stop the previous stream, spawn, insert. `abort` only
marks a task. `OneStreamPerKey` is the comment on `LogStreams` as a specification.

### `RequestTasks` (with `MCRequestTasks`) and its ten kinds of task

The main loop spawns a task for most requests, and all of them send into one
bounded queue that the loop drains (`Outgoing`: `Send`, `Deliver`, and `OtherSend`
for the messages of everybody else). `RequestTasks` composes that queue with each
kind of task. Requests of two kinds share nothing but the queue, so a behaviour
follows one kind (`running`), with as many tasks of it as its module has, and
what the rest of the agent puts into the queue is `OtherSend`.

* `JournalStream`: one stream of `journal_stream.rs`: the child and its two pipes,
  the pumps, the line channel, the batcher with its buffer and ticker, the
  supervisor. A pump also ends on a read error, with lines unread and without a word
  (`PumpFails`). An abort kills the child and the supervisor and leaves pumps and
  batcher running.
* `K8sLogStream`: one stream of `k8s_logs.rs`: a single task that reads, buffers,
  flushes and ends, at the end of the log (`LogOver`) or at a read error with lines
  unread (`ReadFails`), whose End carries the error.
* `ExecRun`: the shell, what it leaves behind (in its process group or out of it,
  holding the pipes or not), the two readers with their budget, and the caller's
  `select!` of exit, timeout and limit, grace period included. A read and the
  `compare_exchange` loop that reserves its share of the budget are one step: the
  loop retries until it reserves from the value it read.
* `HealthProbes`: each sync is a task that takes the lock and reconciles the map
  with its set; each probe task samples and reports flips. An aborted task may
  still deliver the report it holds.
* `Capabilities`: `Register`, and the task that probes again and announces what
  differs. Its cadence is abstracted: a probe may happen at any time.
* `Backups`: tasks that archive into a file named after the backup and the second,
  or into a temporary file that is put into a bucket whole or in parts. A request
  to the bucket fails before or after it has taken effect.
* `Restore`: the body of an object piped chunk by chunk into tar, whose own output
  nobody reads until its input is closed.
* `K8sApply`: the documents of a manifest, each checked and patched before the
  next.
* `Sessions`: host terminals, container exec and pod exec in their two maps and
  one slot. A stop or a replacement drops a session's input; its reader and
  supervisor end when what runs in it does. A shell at its prompt sees the end of
  its input; a "busy" one runs a program that does not read (`Occupied`), and may
  go on for good after a stop, pumped and sent.
* `SystemPrune`: preview, changes by others, and the prune in docker's order:
  stopped containers, then what nothing uses any more of networks, volumes (if
  asked for), images and build cache. docker may fail, or say what does not parse:
  the preview is then empty.

### `Agent`, composing `Credentials` and `AgentLoop`

`Credentials` is the process from its start to a connection, step by step: pairing,
the three files (`disk` names the triple each was last written from), the
proactive rotation before connecting, the single reactive one after a failed
handshake, each exit, each crash, and systemd starting it again. The server hands
out triples, takes each refresh token once, ages access tokens and may be one
that knows no rotation; the operator may revoke the host or pair it anew.

`AgentLoop` is the connected loop on a clock of 5 s: the branches of its `select!`,
the write it awaits inline, the handlers it awaits inline ("handling", `Handled`), the
heartbeat's Ping, which a queue full of anybody's messages refuses, the watchdog.
Within a tick a loop that is not stuck takes every ready branch in any
order. The network may stall, the server may drop the session while a proxy goes
on sending Ping frames. The loop touches no credential and ends only by `GiveUp`,
so a behaviour of `Agent` follows the process or the loop.

### `AptRun`

The state on disk (`journal`, `script`, `log`, `result`), the transient unit step
by step (queued, apt, finished, result opened, result written, over), and the
tasks of the agent: one per request and one that resumes a run after a restart.
`write_state` truncates and then writes (`Torn` in between); the script's redirect
creates the result before `printf` fills it ("empty"). Of the log's text the model keeps
whether `truncate_log` would cut it inside a character ("split") and panic: `TickPanics`
then ends the watcher without a word and leaves the journal. An answer that is
given may still be refused by the queue; `reports` has the answers given. A run id is a second and a
pid, so two starts in one second share it. `systemd` unloads a unit
that succeeded and keeps a failed one. `contested` records the runs that a second
request joined before their unit was started: of these alone a verdict may come
before dpkg is done, because the second watcher finds no unit yet.

## 3. Runs

Every run ends within three minutes with two workers. Deadlock is not checked:
every one of these systems may stop (a handler that waits for a human, a stream
that follows a quiet log, a bound that is reached).

| run | configuration | shows |
|---|---|---|
| `gate_safety` | 2 connections, a good and a malformed id, command, PTY and a refused operation, 2 keys for 1 approver, 2 policies, clock to 2, symmetry of connections | only what was signed runs, with an enrolled key, in time (`ExecutedWasApproved`); children are reaped (`ChildrenAccountedFor`) |
| `gate_refines` | 2 connections, 2 ids, command and PTY, fairness | one operation per challenge, rows only advance, approvals end (with the same exception as `pty_session`), refinement of `SingleUseApproval` |
| `pty_session` | 3 frames, 2 outputs, counters to 1, relay not faithful, fairness | a prefix of what was typed, distinct nonces, output before Exit; end with the peer, unless the loop waits for good in its write to a terminal nobody reads |
| `pty_framing` | faithful relay, 2 frames, 1 output | **violated**: see findings |
| `relay` | 3 messages, 2 ids, 1 answer of the gate, fairness | sessions do not mix, a connection's completion comes once and last, a connection given up is reported unless the queue refused the report or the gate hangs in its PTY |
| `log_registry` | 4 requests, an awaited, a spawned and a malformed key, fairness | the running streams are those of the last requests unless handlers overlapped, superseded streams end, refinement of `OneStreamPerKey` |
| `logs_spawned` | 2 requests, 1 spawned key | **violated**: see findings |
| `request_tasks` | each kind of task in turn; queue of 2 with other producers; sizes as in the cfg; fairness | ten safety properties, one or two per kind of task, and that what was read is told and that tasks end |
| `apt_run` | 2 requests that may overlap, 2 runs, 1 restart, fairness | verdicts are real and come after dpkg, every watcher of a run that is over answers unless the log makes it panic |
| `apt_outcome` | 1 request, no restart | **violated**: see findings |
| `apt_resume` | 1 request, 1 restart | **violated**: see findings |
| `agent` | 3 triples, 2 pairings, 3 faults; periods of 20, 15 and 75 s in ticks of 5 s, answers within 10 s, 3 events; fairness | files agree unless a rotation was cut short, the pairing in use is the one started for, the watchdog is right about a loop that is not stuck, the agent returns |

What the properties of `request_tasks` say: `LogsAreWhole` (chunks in order, End
last; complete as to what was read and, when no read failed, as to the source),
`CommandIsAccounted` (no output lost in silence, no survivor
of the process group), `ProbesMatch` (the running probes are the last set's unless
syncs overlapped), `ToldIsRemembered` (what the server heard last of a probe or of
the host is what the agent believes it told, refusals apart), `BackupIsStored`,
`RestoredIsWhole`, `AppliedIsPrefix`, `BannerIsLast`, `MissesOnlyFreed` (with nothing
changed since, a prune removes beyond its preview only what nothing but stopped
containers used, and the unused networks and build cache no preview lists),
`ReadIsTold` (refusals apart) and `TasksEnd` (a program that ignores its input and a tar
blocked by its warnings apart).

Some hazards are only delimited: the code goes wrong there, and a property excepts
exactly that case and shows that nothing else leads to it. They are a refused
capability or probe report, a late report of a superseded probe, overlapping
syncs, backups of one name in one second, a restore whose tar blocks, a rotation
that was cut short, runs joined before they started, and a loop that is stuck.
PROJECT.json says so at each.

Why these bounds are enough: every property speaks of at most two actors of a
kind (two executions of one id, two streams of one key, two watchers of one run,
two syncs, two backups of one name, two sessions). In the gate a third party's
interfering commit is supplied by the second id. Two keys for one approver make a
replacement; the clock passes the expiry of a PTY's approval in `gate_safety`.
Chunks of two lines from two pipes of two leave a remainder to flush. A queue of
two is full with one foreign message and one own. A counter that ends at one is
exhausted after two frames, before the frame bound. Three relay messages are a
session, its close and a second session of the same id, or a session with a frame
of another id in between. Four registry requests are two overlapping pairs. One
restart splits every pair of steps of an upgrade, and the resumed watcher then
meets a second request. Two units written to each of two pipes exceed an output
budget of two. A body of three chunks exceeds the limit of two and the pipe of
one. Two containers share an image and a network and have a volume each; another
image, volume and network are unused from the start, and there is a piece of build
cache. Three triples are a pairing and two rotations, and three faults can interrupt
every one of them. The loop runs with the real ratios of its periods; a stall, a
death and a proxy's Ping are its three events. Liveness is stated as what holds
from some moment on (`<>[]`), because sources print and targets change boundedly
often here, and a behaviour that goes on changing has nothing to settle.

Every property has a mutant in PROJECT.json: a plausible error in one mapped
definition under which the same run finds the property violated. The mutants
stand next to the definitions they replace, named `<definition>_<what>`.

### Findings

* `pty_framing`: `read_frame` in `select!` (gate binary, line 356) is not
  cancellation safe. Output that becomes ready between a frame's length and its
  body makes the loop take the body for a length.
* `logs_spawned`: two spawned starts for one container leave two streams, the
  first without a handle in the registry (`logs.rs:64-71`), against the comment at
  `logs.rs:34`. The same code is in `journal.rs` and `journal_stream.rs`.
* `apt_outcome`: a successful upgrade is reported as failed if its result file is
  read while it is being written, or is written between the check and the query
  of the unit (`apt.rs:375-409`).
* `apt_resume`: the journal is truncated and rewritten in place at every tick; an
  agent that dies in between does not resume (`apt.rs:46-54`, against line 73).

Disagreements that are not runs of their own:

* `k8s_logs.rs:6-9` says that the sender is unbounded and a stream ends silently
  only if the dashboard goes away. The sender is the bounded `Outgoing`, so a full
  queue ends it silently too (`k8s_logs.rs:116`). `LogsAreWhole` states what holds.
* A pod's log whose reading fails with lines unread ends with an End that carries
  the error (`k8s_logs.rs:120`). A journal pump that cannot read a line, because it is no
  UTF-8, stops without a word (`journal_stream.rs:187, 198`); journalctl may still
  exit well, and the End has no error.
* The write to a PTY blocks inside the gate's `select!` loop (gate binary, line 361):
  with a program that does not read its terminal the loop sees neither its deadline
  nor Close nor the end of the connection. `ApprovalEnds`, `PeerGoneEndsSession` and
  `ClosedIsReported` except it by name.
* The main loop answers frames for a dead session with complete replies of its own
  (`main.rs:834-843`), so a request may be told complete more than once;
  `CompleteIsLast` speaks of what a connection's reader task reports. And a report
  that the full queue refuses is not repeated (`client.rs:54, 69`).
* A heartbeat is refused by a queue full of other tasks' messages (`main.rs:2035`), so
  the watchdog may find a healthy server silent; and handlers that are awaited in
  the loop (`main.rs:1313`, requests to the API server without a timeout of their own)
  keep the watchdog from running. `WatchdogIsRight` states what holds.
* A stopped terminal ends only if what runs in it reads its input: dropping the
  writer sends a newline and ^D, and the reader thread keeps the master open, so
  there is no hangup (`terminal.rs:141-162`). `TasksEnd` promises nothing of a program
  that does not read.
* `truncate_log` slices a string at a byte that may be inside a character
  (`apt.rs:170`): the watcher of a run with such a log panics at its next tick, and
  so does each later one. `WatchersReport` excepts it.
* A request that joins another's run answers with the package it was asked for
  (`main.rs:1684-1687`), whatever was upgraded. `VerdictsAreReal` speaks of runs.
* `docker.rs:1200-1201` calls the preview of a prune an upper bound. Images and
  volumes that only stopped containers use count as used in the preview and are
  freed when the prune removes these first; and `docker system prune -af` removes
  unused networks and the build cache (`docker.rs:1193, 1343`), which the preview does
  not list. `MissesOnlyFreed` states what holds. A `docker system df` whose output does
  not parse gives an empty preview that is a success.
* The comment at `main.rs:378-381` says that a rotation whose answer carries no
  refresh token returns None, so that the caller can force a new pairing. The code
  returns the new access token and keeps the spent refresh token on disk; and what
  the caller does on None is exit and be restarted.
* A failure of CompleteMultipartUpload leaves the upload open, while a failure of
  a part aborts it (`backup.rs:224`). `BackupIsStored` allows exactly that.
* Nothing reads tar's output while a restore writes to it (`backup.rs:733`): a tar
  that warns enough stops reading and the restore never ends. `TasksEnd` excepts
  it. Outside the model: GNU tar 1.34 does not know `--no-absolute-names`, which a
  restore passes, so with that version every restore fails.

## 4. Fairness

Each `Fairness` is stated with its reason in the module. In short: a Tokio task
or a thread that can step eventually does (weak fairness of its step), and the
main loop goes on draining the queue (`DeliverOne`). `select!` polls its branches
in random order, so a branch that is ready again and again is taken (strong
fairness of the PTY's read and deadline branches; the batchers' tickers stay
ready and need weak fairness only). Timeouts fire, and the HTTP clients give up
on a server that does not answer. A systemctl query that is repeated succeeds now
and then (strong fairness of `QueryUnit`). systemd restarts the agent: every
exit of the process has a failing status, the unit says Restart=on-failure, and
the 5 s it waits between starts keep the start limit from being reached. Nothing
is assumed of people, of the control plane but in `AgentReturns`, where it
answers, of apt-get, of commands, of logs that may stay quiet, of the clock, or of
crashes. Nothing is assumed of what may block a loop for good either: the write to
a PTY (`PtyInputTaken`, `TypingDone` and `GateTyped` have no fairness), the write to the
websocket and an awaited handler (`Handled`). A shell at its prompt ends when its input
does (`EndsAtEof`); a program that is busy with something else need not. A task is never assumed to be requested: all
fairness is of steps of tasks that were started, so that a kind of task that does
not run in a behaviour asks nothing of it.

## 5. Proofs

Every invariant, action property and refinement that a passing run checks is also
a theorem; `ApprovalGateProofs` proves, for all values of the constants that
satisfy `SetsAssumption`, `TimeAssumption` and `ManifestAssumption`:

* `TypeCorrect`: `TypeOK` is an invariant;
* `SingleUse`: an id starts at most one root operation (`AtMostOnce`);
* `OnlyApproved`: what runs was signed, by a key enrolled while it was verified,
  on the connection that was challenged, and redeemed in time;
* `ChildrenReaped`, `RowHistory`: the children and the history of rows;
* `Refinement`: the gate implements `SingleUseApproval`.

None of the safety properties is inductive. `AtMostOnce` compares two executions,
and nothing in it says why a second handler cannot get that far. The invariant
`IInv` adds what the code relies on: a handler past its commit holds an id whose
row is consumed with the very manifest the handler holds; the manifest's nonce is
the handler's own connection, so two handlers with one consumed row would be one
handler; a handler that has selected on a snapshot that is still current sees a
row that is pending (the snapshot rule); a handler past the keyring check has a
signed manifest and a key that it saw enrolled; an execution belongs to a handler
in a spent phase. The step of each action is a lemma, with one proof step per
conjunct that the action can disturb; actions that touch none of it share
`QuietStep`. Refinement is proved from the same invariant: `challenge` registers,
`Sign` vouches, `ConsumeRow` authorises, `Spawn` executes, everything else stutters.

The other proof modules assume what their modules' assumptions say of the
constants, sizes in Nat and the like, and no bound is small.

`LogStreamsProofs`: `Types`, `Following` (`StreamsFollowRequests`) and `Implements`
(the refinement of `OneStreamPerKey`, for the awaited keys). The invariant says
what a handler between two of its lock holds has done, that a stream which is
running and not condemned is in the registry or in the hands of its handler, and
that handlers of awaited keys never overlap.

`RootPtyProofs`: `Types`, `Typing` (`TypedIsPrefix`), `FreshNonces`
(`NoncesDistinct`), `ExitIsLast` (`OutputBeforeExit`). The invariant ties the
receiving counter to what has reached the shell, numbers the frames a relay may
hold by the counter they were sealed with, and places every output and the Exit
in the one channel they share.

`AgentProofs`: `Types`, `OneRotation` (`FilesAgree`), `OnePairing`
(`PairingSupersedes`), `Watching` (`WatchdogIsRight`). For the loop, `AnswersCome`
bounds the silence a healthy server can cause by the age of the heartbeat, of the
queued Ping and of its answer; `SilenceGrows` bounds below the silence since a
session was dropped; with the watchdog's phase they give both halves of the
property for any periods with HeartbeatPeriod + ReplyTime <= IdleTimeout. Both count
only ticks in which the loop was in its select, and the first starts over when a
Ping is refused. For the
process, `AnswerHeld` says which triple is being persisted at each step, `Whole`
that the files on disk and the token in use come from the newest triple unless a
rotation was cut, and `BareUntilUpgrade` that a server without rotation has handed
out nothing to rotate.

`RequestTasksProofs`: `Commands` (`CommandIsAccounted`), `Restores`
(`RestoredIsWhole`), `BackupsStored` (`BackupIsStored`), `Applies`
(`AppliedIsPrefix`), `Prunes` (`MissesOnlyFreed`), each from an invariant of its
kind of task that the steps of the others leave alone: what a reader that ended
by itself has read (`PipesKept`) and what the answer says at each stage of the
caller (`StagesKept`); that tar has extracted everything when it ends well; that a
backup without a namesake still owns its archive (`BackupAt`); that the list of
results counts the documents seen; that an image or volume nobody referred to was
in the preview, and that with no change since a container is as it was then, or was
exited then and is removed. `Types` (`TypeOK`) closes the module: `TypesInv` adds to these invariants
what each component may put into the queue (`Messages`), since the queue's type is
the work of all of them, and the bounds of counters that follow each other.

`MessagesProofs` is about what the server sees: `LogsWhole` (`LogsAreWhole`),
`ProbesMapped` (`ProbesMatch`), `ToldRemembered` (`ToldIsRemembered`), `BannersLast`
(`BannerIsLast`). All speak of `Messaged`, what was delivered followed by what is the
task's own in the queue, and the first fact is that delivering a message and the
sends of other producers leave it alone (`MessagedRests`), while a send of the
task appends to it or is refused (`MessagedSend`). The invariants then relate
`Messaged` to the state of the task:

* `JournalInv`: while the batcher runs, the lines sent, the buffer and the channel
  put together (`Passing`) hold of each pipe exactly the lines its pump has read, in
  order; a pump that ended at the end of its pipe, and not at a read error, has read
  all of it. `LogsAreWhole` alone is not
  inductive: nothing in it says what comes next.
* `PodInv`: the lines sent and the lines held are the lines taken, and a stream that
  ends without an error has taken and sent the whole log or has been refused.
* `ProbeInv`: as `ProbesMatch`, with the syncs still to be applied, and for each id the
  last report of it against the state its task remembers.
* `SessionInv`: a session's words are as many as its pump has sent, one more when
  its supervisor is done, and only the last is a banner; a pump that ended
  without a refusal has sent everything of a program that has ended.
* `VoiceInv`: chunks, log messages and End come from the stream that is followed, so
  that the properties of the other kinds hold of an empty sequence.

What `Flatten` and `Select` make of a sequence that grows at its end is
shown by induction: a set of naturals, or of lengths at which a lemma fails, has
a least element (`LeastOf`, from the well-foundedness of < on Nat), and at that one
the recursive function unfolds once (`JoinsExist`, `JoinsAgree`, `SeqInduct`). The
library's induction theorems, which take an operator as a parameter, are not
needed. `Outgoing` has these two of its own: `SelectSeq` is primitive to the prover,
and SequencesExt, carried into each of eleven instances of the queue, made every
proof step four times as slow.

`TrustedRelayProofs`: `Types`, `OneSessionEach` (`SessionsDoNotMix`),
`NothingAfterComplete` (`CompleteIsLast`). The gate's reads alone are not inductive:
the invariant speaks of the whole `Pipe` of a connection, what the gate has read,
what is in the socket and what waits for the writer. A step of a task or of the
gate moves messages along the pipe or cuts its end off (`SocketStep`); a message
that is passed on follows the last one in it (`PipesAwait`); a connection leaves the
map only when its id is closed (`SessionOrClosed`).

`AptRunProofs`: `Types`, `TrueVerdicts` (`VerdictsAreReal`). The invariant says that
a result or an outcome shows what the unit has done (`UnitShown`), that tasks which
prepare and watch one run have contested it (`PreparedAlone`), and that a verdict
which waits to be reported is already true (`VerdictsHeld`), so that no unit starts
under a verdict (`ReportedOver`). A crash ends every task that prepares a run, so
the task that resumes finds nobody preparing one.

Only model-checked: liveness (`ApprovalEnds`, `PeerGoneEndsSession`,
`ClosedIsReported`, `SupersededEnds`, `WatchersReport`, `AgentReturns`, `ReadIsTold`,
`TasksEnd`), since fairness and ENABLED are out of the prover's reach, and the
runs that find a violation.

## 6. What is not modelled

* Cryptography, SQLite, systemd, Tokio and the kernel are modelled by what the
  code relies on, and marked external in the map where they act.
* Formats, wording and logging; parsing of the output of docker, systemctl, df;
  the allow-lists of commands, paths and hosts, which are refusals that may happen.
* `config.rs`: one request is one read or one replace through a directory
  descriptor. What is hard in it is path resolution, which would take a model of
  the file system.
* `deploy.rs`, `systemd.rs`, `stats.rs`, and the requests of `docker.rs` and `k8s.rs`
  other than prune and apply: one command or call per request and no state between
  requests, so no interleaving to check.
* `AptRun` leaves out a journal without a result path (left by an older agent),
  the kill of a unit between the end of apt-get and its result, the length of the
  log, and the package name in an answer.
* `LogStreams` leaves out the line readers that `logs.rs`, `journal.rs` and
  `journal_stream.rs` spawn: they outlive an aborted stream until their pipes close.
  `SupersededEnds` speaks of the stream's own task. `JournalStream` has the readers.
* `Credentials` has one process at a time: the service and a manual `--pair` are
  not run beside each other. A server that answers a rotation without a new
  refresh token is not modelled.
* Input and resize of terminals and pod exec, which are forwarded over unbounded
  channels and leave no trace in the state; the listing of backups.
* `shutdown` of the registries, which nothing calls.
* Not stated as properties: that a correct approval may be refused because another
  commit made its snapshot stale (no document promises otherwise), and that two
  enrolments at once may lose one (an operator's tool, run by hand). Nothing
  bounds a write that blocks for good or a handler that is awaited in the loop;
  `WatchdogIsRight` counts from its return.

## 7. Plan

In place: the gate, its session and its relay, the streams and the upgrade, the
tasks of requests, the process and its loop, and the proofs listed above. Left:

1. The argument checks of the privileged policy and the path checks of `config.rs`
   as operators against a reference definition.
2. The listing of `apt.rs`.
