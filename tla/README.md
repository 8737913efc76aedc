# Willie: a TLA+ verification project

Willie runs coding agents on a Windows desktop inside a WSL distribution. This
directory models the parts of it where threads, processes, files and people must
agree (`*.tla`), model-checks them on small instances (`MC*.tla`, `*.cfg`) and
proves the safety of eight of them for every instance (`*Proofs.tla`).
`PROJECT.json` maps every definition to the lines it models and lists runs,
seeded faults, hazards, findings and theorems. Source files are named without
their directory where that is unambiguous; `PROJECT.json` has the full paths.

## 1. Inventory

| Component | State | Operations | Talks to |
| --- | --- | --- | --- |
| Job runner (`jobs.rs`, `outbound.rs`) | pool count, busy projects, global slot, cancel flags, one thread per job | submit, submit_global, cancel, shutdown; a worker's acquire, work, Cleanup, publish | handlers submit; results go to the state index and, through `Outbound`, to stdout |
| Session log (`willie-core/src/session.rs`) | the append-only `events.jsonl` | `apply_event`, `from_log` | written by the supervisor (and by the daemon's rename); folded by everyone |
| Session supervisor (`willie-sess`) | phase, client list and queues, screen ring, denial tally, stop ladder | accept, hello, replay, register, resize, status, stop, leave, broadcast, finish | terminals and the daemon over `<id>.sock`; the harness over the PTY |
| Supervisor start and sandbox (`willie-sess/src/main.rs`, `detach.rs`, `pty.rs`, `sandbox/`, `willie-linux/src/sandbox/`, `willie-core/src/sandbox.rs`) | the readiness pipe, the mount plan, the report socket, the filter's listener | double fork, prepare, spawn, the stage inside the namespace, report, serve, ready/fail | the daemon's `create`; bubblewrap and the kernel (external) |
| Daemon session index (`sessions.rs`, `control.rs`, `session_store.rs`) | `State.sessions` in memory; specs and logs on disk | create, watch, rename, stop, scan, finalise | the supervisor's socket and log, `project.remove` |
| Projects (`projects.rs`, `git.rs`, `store.rs`) | `State.projects`, `projects/<id>.toml`, workspaces | add, sync, update, remove, relocate, rename, set_sandbox, presence refresh | jobs, git, the session index |
| Engine and application (`willie-engine`, `src-tauri`) | the engine's mutex, the daemon process, pending calls, the pump thread, the distribution | commands, start, stop, call, install, subscribe | the daemon over stdio, `wsl.exe` |
| Daemon server (`main.rs`, `server.rs`, `handlers.rs`) | hello state, the inbound channel, the socket | bind, dispatch from stdin and `willied.sock`, shutdown | everything in the daemon |
| Plugin host and profiles (`plugins.rs`, `willie-plugins/profiles`) | `enabled.toml`, the profile's store and its repository, backups | enable, disable, create, write_fragment, check, apply, set_remote, push, pull | project files that people and agents edit |
| Terminals (`vt_filter.rs`, `wire.rs`, `attach.rs`, `hostterm.rs`, `embed.rs`) | parser and decoder state, raw mode, bridges | feed, frames, input and output loops, signals, bridges | the supervisor's socket, the user, the app |
| Harness logs (`session_title.rs`, the usage plugin) | titles, sessions given up | title scan, usage snapshot | files the harness writes |
| UI store, tools, shell, CLI commands, xtask | see `PROJECT.json` | | |

Hard behaviours, and what makes each part correct:

- **Jobs.** A thread per job on one condition variable; panics and cancels at
  every point; a shutdown over queued jobs. Correct: no slot leaked or handed out
  twice, one job per project and no project wedged, published results tell what
  happened, nothing starts after shutdown, every job ends.
- **Supervisor.** Threads sharing five separately locked structures with no
  critical section spanning two of them. Correct: byte budgets balance, a
  terminal's live output has no hole, the control client sees the log, denials are
  counted before the exit, a stop or an exit always ends the process although
  clients may never read.
- **Start.** Four processes and a kernel, any of which may die or be late, and a
  disk other sessions can change. Correct: a launcher told `ok` has a confined
  session, one told `fail` leaves nothing behind, the namespace holds what was
  checked, a refused call always finds somebody to take it.
- **Session index.** Two processes that share a log file, a socket path and a
  connection, either of which may be killed. Correct: the index never disagrees
  with the disk about an end, `supervisor_lost` is only said of a session that is
  over, no project is removed under an agent, an ended session ends in the index,
  and a restarted daemon finds out what happened.
- **Projects.** Records cloned, worked on for minutes and put back, next to
  repositories others commit to. Correct: what is shown ready was set up, what is
  shown preparing is being prepared, commits and hand-written tables survive.
- **Engine.** Calls that time out on a daemon that may or may not have acted.
  Correct: nothing is carried out twice, no process is orphaned, events are shown
  once, an image that fails a check costs nothing.
- **Plugins.** Several writes without a transaction over files people edit.
  Correct: nothing anybody wrote is lost, an apply converges, a sync keeps commits.
- **Terminals.** Byte streams cut anywhere, two threads and three signals.
  Correct: what is drawn is shown, what is typed arrives, the user is told the truth.
- **Harness logs.** Files attributed by their modified time. Correct: a session
  on its own is credited with its own.

## 2. Modules

| Module | What it is |
| --- | --- |
| `Jobs` | `jobs.rs`, and the exit of `main.rs` that waits for its threads |
| `JobBoard` | what the runner promises a submitter; `Jobs` implements it |
| `JobsProofs` | inductive invariant, theorems and the refinement proof |
| `SessionIndexProofs`, `SupervisorProofs` | inductive invariants and theorems, and what `from_log` computes for logs of every length |
| `ProjectsProofs`, `EngineProofs` | inductive invariants and theorems; the former also covers `HarnessLogs` |
| `StartProofs` | the confinement of an announced session, and the BPF program |
| `StreamProofs` | what byte streams mean, frames and their decoders, the filter's lemmas, the seam of replay and live output |
| `TerminalProofs` | the inductive invariant and theorems of `Terminal`; extends `StreamProofs` |
| `SessionLog` | the events and their fold; extended by both session modules |
| `Supervisor` | `willie-sess` from ready to exit |
| `SessionIndex` | the daemon's record of one session next to its supervisor |
| `Projects` | the project registry, its files, its jobs and the repositories |
| `Engine` | the engine, the app's commands and pump, the daemon's request loop |
| `Plugins` | the plugin host and the profiles plugin |
| `SandboxPolicy`, `SyscallFilter` | pure: policy, plan, vector, Landlock rules; the BPF program |
| `Start` | how a session is started; extends both |
| `OutputFilter` | pure: the terminal filter, a function of a byte and its state |
| `Terminal` | frames, attach clients, bridges; extends `OutputFilter` |
| `HarnessLogs` | titles and usage read from the harness's logs |
| `MC...` | constants for TLC |

Operators named `..._twice`, `..._skips` and so on, each under a comment
"Seeded fault", are wrong versions of the definition that follows them. No
specification uses them: they exist to show that each property fails when the
code is wrong in that way.

**Jobs.** Variables keep the fields' names (`running`, `busy`, `tool_busy`,
`cancels`, `jobs`); `tripped` is the set of set `Cancel` flags and `worker` the
program counter of each job's thread. Every lock region is an action: `acquire`
is one evaluation of the pool's loop, `release`/`notify_one` the two halves of
`Pool::release`, `clear_busy`/`clear_cancel` the rest of `Cleanup::drop`,
`emit_final` what follows `drop(cleanup)`. The work closure is a choice among its
outcomes, a panic included. `join_writer` is the end of `main`: the writer thread
ends when the last clone of its sender is dropped, so live workers and the watch
threads of sessions (`watching`) hold it up; a broken stdout (`writer_breaks`)
ends it at once. `ran` is history.

**JobBoard.** A job is absent, queued, started, settled, freed and over; owners,
the two histories and what is shown are all the rest. `Board` in `Jobs` maps
`worker` to the stage: a submit is seen when its worker is spawned, a slot and a
wakeup never are.

**SessionLog.** `apply_event` is the source's match, with the saturating client
count and the terminal state that ignores everything after it.

**Supervisor.** `pc` is a client's reader thread, `writer` and `chan` its writer
and channel, `queued` the byte counter, `todo`/`fan` a thread inside `log_event`
(append, then fan-out, two critical sections), `spc`/`ladder` the stop path,
`pump` the main thread from `serve` to the end of `finish`. Output is numbered
chunks of one frame; a frame costs one unit of the byte budget and the empty
CLOSE none. Timeouts (the rung's grace, the drain, the filter's settle, the hello
timeout) may expire at any time. `recorded`, `settled`, `joined` are history.

**SessionIndex.** One session, since sessions share only the dispatcher. The
supervisor is reduced to what is visible outside: log lines, the socket path, the
answer to a hello, the frames to the control client, and the order phase, exit
line, CLOSED, unlink. Its start may fail before its event log is open
(`sup_refuses`: the launcher is told and no line is written), at a step it logs
(`sup_fails`), or without a word (`sup_start_lost`). `disp` is the dispatcher inside create, rename or scan;
`final` the control reader and the finalise thread that joins it; `crash` kills
the daemon with its memory and connections at any step, `restart` scans the disk.
`gaveup` records that the daemon stopped waiting for a supervisor that was still
starting (readiness timeout, or a scan that got no answer from it): the
properties hold up to that event, and section 3 says what follows it.

**Projects.** The dispatcher runs one handler at a time (`op`); a job (`job`)
holds the clone it was submitted with and saves an edited copy of it. A history is
the set of commits reachable from a head, so "is an ancestor" is inclusion and
"diverged" is neither including the other. A job's every git command may fail and
every cancel check between them is a choice; a save and the notification after it
are two steps. `ghosts`, `skipped` and `stale` are history: they mark the records
that the lost updates listed in section 3 have touched, and the properties say
nothing of those.

**Engine.** `op` is the command that holds the engine's mutex with its program
counter; a spawn of the daemon is a generation. `relay` is `wsl.exe`, `willied`
the process behind it, `inbound` its channel fed by stdin and socket, `out` and
`reply` the way back through the reader thread, which keeps a reply that nobody
waits for any more. The app's commands differ only in what they do with the
engine, so `Class` sorts them. An image is refused when it is missing, empty or has another
hash than its sidecar says; one that has no sidecar is `unchecked` and passes.
`ensuring`, `subscribing` and `pumps` are the
threads that have released the mutex.

**Plugins.** `call` is the call under way: a list of steps, each of which may fail,
panic or die with the daemon, the write in progress torn. JSON is a tree and
`deep_merge` recursive on it; Markdown is a sequence of markers and pieces of text.

**Start.** `sup` is the supervisor's next step and `refusal` the code of the
refusal under way, `stage` the process in the namespace that becomes the harness,
`report`/`got` what it wrote and what was taken of it, `held` where the filter's
listener is open, `table` the mounts as made. A refused call is `notify` until the
filter's thread takes it; an answer the kernel does not accept leaves it `blocked`,
and `serve_notifications_ends` is the end of the thread, which closes the listener. `Machines` says what a kernel and a
disk offer. The program is laid out as blocks one after the other (`items`), with
`mark` where each label is placed and `offset` the resolved jumps; `execute` is one
step of the kernel's interpreter and `verdict` its run on the assembled program.

**Terminal.** `up` and `down` are bytes on the socket; every read takes at most as
many as `ReadSizes` allow. `cl` is an attach process: its main thread, its output
thread, its signal handlers, its terminal. Raw mode is set (`raw_mode`), its settings are
saved (`save`) and the handlers installed (`install`) in steps of their own. The
supervisor's part is the pump with its filter and one client's reader: `serve` pushes
a read to the ring, which keeps the last `RingCap` bytes (`snapshot`), and
`broadcast` sends it to the list (`fan` is what is between); `first_frame` replays
and `register` takes the place in the list. `due`, `from`, `upto` and `since` of
`srv` are history: which part of the output a client is sent. A token is one write of the harness: its
bytes and what they draw. `TokensAssumption` says that a write ends the sequences
it begins and that what it draws is what the filter, fresh, makes of it alone; TLC
evaluates it on the tokens of the run, whose drawings are written out by hand. What
is left to show is that nothing depends on where the reads cut.

**HarnessLogs.** A log is a modified time in seconds and a sequence of lines, one
of which may be half written. `title_begin`, `title_read` and `title_put` are the
scan's lock regions and the reads between them.

## 3. Runs

Passing runs. Every property has a seeded fault that breaks it under the same
configuration (`mutants` in `PROJECT.json`).

| Run | Instance | Shows |
| --- | --- | --- |
| `jobs` | 2 jobs, 2 projects, pool of 1 | `PoolSound`, `ExclusiveOwner`; the refinement `ImplementsBoard`; `EveryJobEnds`, `ShutdownCompletes` under fairness |
| `supervisor_terminal` | 1 terminal, ring 2, queue 2, 3 chunks, 1 resize | `QueueAccounted`, `LiveOutputComplete`; `ExitEndsSupervisor`, `WedgedTerminalLeaves` under fairness |
| `supervisor_control` | 1 control client, queue 2, 1 status request | `ControlSeesLog`; `StopEndsSession` under fairness |
| `supervisor_denials` | no client, 3 refusals per filter | `DenialsReachTheExit` |
| `session_index` | 1 rename, 1 attach, 1 daemon kill | `ShownEndIsLogged`, `RemoveNeverUnderAgent`, `LostMeansOver`, `RunningIsReachable`; `WatchedSessionEnds`, `ScanFinalises` under fairness |
| `projects` | 1 project, 2 checkouts, 2 commits, 4 requests, 1 move of a person or agent, 1 daemon death | `PresenceDescribesItsSource`, `ReadyWasSetUp`, `PreparingHasAWorker`; `HandTableKept`, `WorkspaceKeepsCommits` as action properties |
| `engine` | 2 spawns, 2 commands, 1 event from outside | `NoOrphanDaemon`, `OneEventPump`, `CarriedOutOnce`; `ReplacedOnlyWhenReady` as an action property |
| `plugins` | 2 calls, 1 edit, 1 fault | `NothingLostByApply`, `ApplyConverges`; `SyncKeepsCommits` as an action property |
| `start` | 8 machines, 7 profiles, 2 kinds, 1 fault, 1 re-pointed link, 27 system calls | `ReadyMeansConfined`, `VerdictAsIntended`, `NamespaceAsPlanned`; `FailureLeavesNothing`, `DeniedCallIsAnswered` under fairness |
| `terminal` | 2 sessions, 1 tab, 2 embedded terminals, 3 moves, reads of 7 bytes or all (5 of the keyboard), a ring of 3 bytes, payloads of 5 | `ScreenIsWhatWasDrawn`, `InputIsWhatWasGiven`, `LeaveIsHonest` |
| `harness_logs` | 2 sessions, 3 lines, 2 seconds, head and tail of 2 lines, 1 restart | `UsageIsOwn`, `LatestTitleIsOwn` |

One run shows the code doing otherwise than a comment of its own says
(`findings`): in `session_lingers` the harness ends before the watch connects, the
session stays `Running` and nobody finalises it, against sessions.rs:394, "so it
never lingers `Running`".

**Also true on these instances**, but in no run's list: `TypeOK` of `Jobs`,
`Supervisor`, `SessionIndex` and `Projects` and `EngineTypeOK` (all proved);
`OutcomeHonest` and `NoWorkAfterShutdown` of `Jobs` (both proved, and both part of
what `ImplementsBoard` says); `AttachBalance` (`MCSupervisorTerminal.cfg`),
`LabelWasLogged` (`MCSessionIndex.cfg`) and `TerminalGivenBack` (`MCTerminal.cfg`),
all three proved; `RefusedForACause` (`MCStart.cfg`), which is not. Adding the name
to the configuration's INVARIANT line repeats the check.

**Bounds.** With a pool of one, two jobs already contend for the slot, for the
project and for the wakeup, and a third could only repeat a role; the proofs
remove this bound altogether. Ring and queue of two frames make every
overflow case happen within three chunks. Three refusals per row give a first
report, a folded count and a flush. Each property speaks of one client, and clients
share only the list they are in, so a terminal and a control client are checked
apart to keep the runs short; a run with both at once is not made. One crash of the
daemon is enough to put the scan after any step; the model returns to the states
of a daemon that never crashed. Connections are made once: a reconnecting client
is another client. Four requests reach an add, a job on it, a rename or
`set_sandbox` that races the job, and what follows; with one id slugs never
collide, so their numbering is not exercised. Two spawns give a daemon that is
given up and the one after it; two commands give two callers who unlock and
look after the pump together. One fault per start or call, at every step, covers
each error path alone; two independent faults are not combined. The 27 calls take
every branch of the filter, including the last entry of the denied list, whose
jump is the longest. Reads of seven bytes and of
everything interleave, and a write of the harness, a frame and what is typed at once
are longer than that or joined: they are cut inside sequences, headers and payloads,
and what is typed before the detach key needs two reads and two frames. A ring of
three bytes loses the beginning of every write; three moves are a write, a client and
one more write between its replay and its place in the list, or the end of the
session. Every other cut is left to the proofs, which have no bound on reads.

**Fairness.** Weak fairness stands for the scheduler running a thread or process
that can go on, for bounded waits of the code ending, for the work of a job
returning, for a SIGKILLed harness dying and for bubblewrap's die-with-parent.
Nothing else is assumed: no client submits, reads, stops or leaves, no harness
ends by itself or makes a call, no wakeup comes without a notify, no session ends,
and the daemon that was killed need not come back.

**Deadlock** is checked in the runs of `Jobs`, `Supervisor` and `SessionIndex`;
the final states have an explicit stuttering step (`Exited`, `Gone`, `Rest`). In
the others a system at rest waits for a person, of whom the bounds allow only so
many moves, so the configurations allow it to stop.

**Where the code and its documents disagree.** The definitions named here are in
the modules, under "What the documentation says and the code does not do" where
they quote a document; checking one as the only property of the given
configuration shows the trace.

- `DaemonExits` (`MCJobs.cfg`): docs/PROTOCOL.md:50, "The daemon exits when its
  stdin reaches EOF." `main` joins the stdout writer, which ends when every
  `Outbound` clone is dropped, and the threads of a watched session each hold one
  (sessions.rs:376, 397): with a live session the daemon stays (main.rs:385).
- `ReplaySeamless` (`MCSupervisorTerminal.cfg`): server.rs:2, "Terminals get output
  (and a replay when they arrive late)". A chunk broadcast between the replay's
  snapshot (server.rs:650) and the registration (666) is in neither, and one pushed
  to the ring before and fanned out after is sent twice.
- `BadImageCostsNothing` (`MCEngine.cfg`): distro.rs:111, "a bad image never costs
  the developer their working install". `validate_image` compares the hash only when
  the sidecar is there (distro.rs:59): without it any image that is not empty passes,
  and the distribution is unregistered before the import fails.
- `TerminalIsFinal` (`MCSessionIndex.cfg`): session.rs:41, "Nothing more will happen
  to this session." A rename clones the record, writes its line outside the lock
  and puts the clone back (sessions.rs:558, 578) over an exit folded meanwhile.
- `NoAgentInRemovedProject` (`MCSessionIndex.cfg`): designs/sessions.md:260,
  "deleting the cwd under a working agent is never an option". On a readiness
  timeout the launcher is killed (sessions.rs:350), but the supervisor it detached
  may start its agent while the index shows the session failed.
- `ProjectStaysWritable` (`MCStart.cfg` with `Profiles <- ReadOnlyProject`):
  core/sandbox.rs:517, "`project.rw` is the session itself and cannot be taken
  away". An extra path that names the workspace with mode `ro` passes the guard and
  is mounted over it read-only (linux/sandbox/mod.rs:199).
- `TitleIsOwn` (`MCHarnessLogs.cfg`): docs/ARCHITECTURE.md:351, "for one session at
  a time that is exact". `pick_log_for` (session_title.rs:122) takes the newest log
  modified since the session started, with no end to the window, and titles are not
  in the log: after a restart every finished session is titled with the first
  prompt of the workspace's latest one.

Met while modelling and not stated as formulas:

- Projects: a rename that races a relocate puts the old source back, so a later
  sync looks at one checkout and pushes to another; one that races an add's end
  puts `Preparing` back, and one that races a remove brings the project back;
  `set_sandbox` is lost to a job's older clone. A cancelled sync, update or
  relocate leaves the project `Failed{interrupted}` and a later success does not
  make it `Ready` (PROTOCOL.md:522, sessions.rs:142). An add cancelled before it
  began leaves `Preparing` until the next start. A death between `set-url` and the
  save leaves remote and record apart.
- Engine: two daemons that start together may each remove the other's socket
  (main.rs:152); `engine_start_daemon` does not look after the pump although
  events.rs says every command that touches the daemon does; a refused second
  daemon that re-adopted live sessions in its scan waits for them before it exits;
  the comment at daemon.rs:223 promises a restart that `call` does not make.
- Plugins: plugins.rs:431 says a plugin "stays degraded until it is re-enabled",
  but a successful call clears it. A create that fails half-way leaves a name that
  can neither be created nor used. What an agent writes between an apply's plan and
  its write is lost (`Racing = TRUE`). A fragment that contains the markers never
  converges. A disable whose save failed is enabled again after a restart.
- Start: when `server::start` fails the log gets no terminal event (main.rs:324), nor
  does it when the specification or a log cannot be opened (main.rs:78): after a
  restart the scan says `supervisor_lost` of a session that was shown failed with its
  cause, or leaves it out when the specification does not parse. The answer to a
  refused call may fail to be delivered (seccomp.rs:165); its caller then stays
  blocked until the filter's thread or the supervisor ends.
- Terminal: a SIGWINCH between the test of `RESIZED` and the blocking read leaves
  the new size unsent until the next key (attach.rs:33). Two threads that end at
  once may leave the terminal raw, and so does a signal between `tcsetattr` and the
  installing of the handlers (attach.rs:106, 287), before anything was shown. A key typed as the session ends makes the
  process exit 1 before the reason is shown. The filter is checked on well-formed
  sequences; what an emulator makes of malformed ones is not stated.
- Harness logs: two sessions at once may read the same log (documented); a log's
  last write in the second the next session is created is credited to that one; a
  continued conversation takes its log out of the earlier session's window.
- A control client over its budget is dropped from the list but not closed
  (server.rs:229), unlike a terminal. A client that registers after `finish` took
  the list gets no CLOSED (server.rs:666, against designs/sessions.md:164).
- A watch whose reader thread cannot be started probes once, finds the supervisor
  alive and leaves the session unfollowed (control.rs:111, sessions.rs:402).
- `attached` is logged after the registration, so a broadcast that drops the
  terminal at once may log `detached` first (server.rs:666, 519).
- A supervisor on its way out may be recorded as `supervisor_lost` a moment before
  its log holds the exit (server.rs:320). The scan unlinks the socket of a
  supervisor that is still starting (sessions.rs:609). Attaches between the scan's
  status and its watch are missing in `clients` (sessions.rs:600).
- Renaming an ended session changes neither the record nor its fold
  (docs/PROTOCOL.md:141). events.rs:2 says only the supervisor writes the log; the
  daemon's rename does too.

## 4. Proofs

Each `...Proofs` module states an inductive invariant, shows that `Init` implies it
and that no action breaks it (one lemma or step per action, under it one step per
conjunct the action disturbs), and derives its theorems from it. Every such
invariant was first checked by TLC over the reachable states of an instance. The
bounds of the model (`Max...`) are constants like any other: the theorems hold
for all their values, and the assumptions are the ASSUMEs of the modules, which
TLC evaluates on every run. A run's property that has a theorem is listed with it
under `theorems` in `PROJECT.json`.

### Jobs

`JobsProofs` proves, for every finite set of jobs, every set of projects and every
positive limit (`JobsAssumption`), the safety of the job runner: `TypeCorrect`,
`PoolBounded`, `OneJobPerProject`, `PublishedIsTrue`, the action property
`NothingStartsAfterShutdown`, and `RunnerImplementsBoard`, that every behaviour of
`Jobs` is one of `JobBoard`. They all follow from `Invariance`, the inductiveness
of

    IInv == TypeOK, PoolSound, ExclusiveOwner, Registered, ToldToStop,
            OutcomeSettled, OutcomeTrue

The type invariant alone is not inductive: `release` keeps `running` a natural
number only because the counter equals the number of holders and the releasing
worker is one of them; `emit_final` publishes an outcome only because a worker
past its work has settled one (`OutcomeSettled`). `OutcomeHonest` speaks of
published jobs, so `OutcomeTrue` says the same of outcomes still in the worker's
hands. `NoWorkAfterShutdown` needs that a worker that has yet to test its flag is
still in `cancels` (`Registered`), so that shutdown tripped it (`ToldToStop`).
Each part has a lemma with one step per action; cardinalities go through two
lemmas about adding and removing one element of a finite set.

The refinement (`BoardStep`) takes each action to a step of the board. Steps of
the pool and of the condition variable are not seen. The four that need the
invariant are the interesting ones: `spawn_job` is an `Accept` because
`ExclusiveOwner` leaves no other claim; `check_cancel` is a `Start` because the
worker itself holds one of at most `Limit` slots (`PoolSound`) and because after a
shutdown it would have been told (`ToldToStop`); `cancel` is a `Tell` because the
map holds exactly the live jobs (`Registered`); `emit_final` publishes one of the
board's ends (`OutcomeTrue`).

### Session index

`EndsAreLogged`, `NoAgentLosesItsProject`, `LostIsOver` and `SocketStays` prove the
four safety properties of the run for any number of renames, attaches and daemon
kills. None is inductive. `LogFollows` says what the log means at each point of
the supervisor's life, `ThreadsInStep` when a thread may hold a copy of the record,
`EndsJustified` says of every such copy (the dispatcher's and the finalise
thread's) what `ShownEndIsLogged` says of the index, because each of them may be
put there later. An end that is not in the log is that of a start nobody survived
(`Unlogged`, `NoEnd`): no line follows it, so no fold ever contradicts it.
`IndexFollows` relates the index to the supervisor, so
that the guard of `project.remove`, which only reads the index, is enough.
`from_log` folds a file of any length, and the index applies lines one at a time:
that both agree needs induction over the length. The library's induction theorems
take the statement as an operator, which the installed provers cannot instantiate;
that a non-empty set of naturals has a least element (`WFMin`) is stated about sets,
and `Induction` here is derived from it. With it `FoldExists` shows that the recursive
function exists and `FromLogAppend` that one more line means one more `apply_event`;
`SupervisorProofs` does the same for the folds it needs.
`LabelsAreLogged` proves `LabelWasLogged`: a rename writes its line first and puts a
clone of the record back later, so `LabelInv` says of every copy (the index, the
dispatcher's, the finalise thread's) and of what the log means that its label is one
the log holds.

### Supervisor

For every finite set of terminals, every set of control clients and every ring and
queue with `RingCap <= QueueCap` (256 KiB and 1 MiB in the code; a replay must fit
the queue). `CountersAreExact`, `OutputHasNoHoles` and `EventsReachControls` follow
from `ConnInv`. It keeps, for each client, where its reader, its writer and its
place in the list can be at the same time (`ClientInStep`), that the counter is
what the channel holds (`Accounted`), and what the stream of a terminal (`Whole`) or
of a control client (`Told`) must be in every one of these places, the moment
between registration and list included. `OneFan` is needed because a line is
appended under one lock and fanned out under another: no two threads fan out the
same line. `ExitIsTheLastWord` follows from `DenialInv`, whose `Balance` says where
each recorded refusal is: in the tally, in a line on its way to the log, or in
what the log means.

`AttachesArePaired` proves `AttachBalance` from `AttachInv`. A terminal's attach is
logged by its own thread, its detach by that thread or by the broadcast that drops
it (`Hands`), each after it took or left the list under the lock, so the two lines
may reach the log in either order. `Paired` counts both, for each terminal, over the
log and over the lines that its thread and the pump have in hand: one attach more
than detaches while it is in the list, as many of each otherwise. The reader and the
broadcast never both log the detach, because only who finds the terminal in the list
takes it out. It is said until `finish` takes the whole list (`ListKept`), after
which a terminal that was still in it gets no detach.

### Projects

For any finite set of projects and sources and any commits, `FlagsDescribeTheirSource`,
`ReadyIsSetUp`, `PreparingIsWorkedOn` and the action properties `CommitsSurvive` and
`TablesSurvive`. What makes them inductive is a statement about every clone of a
record that a job or a command still holds (`Copies`), since each may be saved and
shown later: `PresenceInv`, `PreparingInv`, `ReadyInv` and `TableInv` say of the
clones what the properties say of the index and the files. `SlugInv` keeps two
projects from sharing a workspace; that `slug_for` always finds a free name is a
counting argument. `JobInv` keeps a job on a project the index knows and at a step
of its kind.

### Engine

For any number of spawns, commands and events, `ProcessesAreHeld`, `PumpIsAlone`,
`CommandsRunOnce` and the action property `InstallSpares`. `HoldInv` ties the
daemon held, the state shown and the command's program counter together; `PumpInv`
counts the one flag, the one subscription and the one thread; `OnceInv` says that a
command's request is unsent, or in exactly one queue of one daemon at one place,
or carried out once and nowhere: a timeout leaves it where it is, and no command
sends twice.

### Start

`AnnouncedIsConfined` for every machine, profile, harness and number of faults:
`SupInv` says what the log holds at each step of the supervisor, `StageInv` which
mechanisms bind the stage at each of its steps, and `ReportInv` that a report of
this build's stage was made when nothing more would be put in force and says
exactly what was, so that the supervisor's check of the report is a check of the
namespace, although either process may die and the report may come too late.

`ProgramIsRight`: for every architecture, number and arguments (natural numbers;
the code's are 32-bit words, a subset), the kernel's run of the assembled program
ends in the verdict of `Intended`. `Assembled` and `Marks` compute the 55
instructions and the labels from the blocks, `Lands` shows that every resolved
offset leads to its label, and `Good` says for each instruction what is known of a
call when the run is there. `Judges` shows that each instruction keeps that and
moves forward, so a run ends within the program's length. `CallsAreJudged` takes it
to the harness's calls: the 27 of the run stand for all of them.

### Terminal

For any sessions, tabs, embedded terminals, harness writes, keys, window sizes,
read sizes, ring size, payload limit and number of moves, `ScreenIsDrawn`, `InputIsGiven` and
`LeavesHonestly` prove the three properties of the run, all from
`TerminalInvariant`, the inductiveness of

    TerminalIInv == TerminalTypeOk
                    every client : Stages, Honest, InputOk, OutputOk, SeamOk
                    every session : FilterOk, EndOf, BridgeOk

Bytes are what travels and frames are what is promised, and a read may end within
a header. So the invariant needs to say of bytes still under way what they mean:
`Carries` is the least relation between bytes, the sequence of things they stand
for and whether the stream ends there, closed under one more frame at the end.
What is taken, a frame at a time, is at the front: `Carries` is unique, splits at
every frame, and a decoder that holds less than a frame takes nothing (the lemmas
about `pop` and `decode_frame`, and induction by `WFMin`, since the statement is
about sets).

- `InputOk`: while the session reads, what it got, what the socket and the
  attach's own buffers carry and what is still to be typed make up what the user
  gave (`Flow`); a `detach` is under way only when all of it is (`Done`). After
  that what it got is a prefix, and all of it after a detach (`Over`).
- `OutputOk`: what a terminal shows, what is under way and what it will not get make
  up what is due to it (`Shows`); a reason is under way only behind all of it.
- `SeamOk`: what is due to a client is what the ring kept at its hello and what the
  ring was given since its place in the list, but for the chunk that is in the ring
  and not yet sent (`EndOf`). The two pieces may leave a gap or overlap, so nothing
  is said of how they meet; each of them is unbroken.
- `FilterOk`: what the ring was given and what the filter will make of the bytes of the
  PTY not read yet are what the harness's writes draw. It rests on
  `FeedJoins` (the filter, of two chunks in turn, is as of the two at once) and on
  a lemma that two filters alike in everything but the residue of ended sequences
  go on alike, so that a token draws the same whatever came before it.
- `Stages` and `Honest` tie the main thread, the output thread and the signal
  handlers to the supervisor's side: `lost` is said only where the session left
  first, which is where the order of `LEAVING` and the DETACH frame matters.

`TerminalIsGivenBack` proves `TerminalGivenBack`, in a second induction over
`TtyInv`. The settings are taken by one swap and put back by a later call, so while a
terminal is raw either they are still saved or a thread has them in hand
(`TtyHeld`), except between `tcsetattr` and the store of `SAVED`. `TtyMove` says what
any step may do to the end of an attach, and `TtyStep` that every action does one of
these things. Two cases leave a terminal raw. When two threads leave at once, the one
that lost the swap may exit before the other put the settings back. And a signal that
comes before the handlers are installed kills the process as it is: `Silent` says of
such a process, and of every one that has not said hello, that the session has heard
nothing of it, so that nothing was shown or typed when it happened (`SilentStep`).

### Harness logs

For any sessions, usage blocks, sizes of head and tail and number of seconds, lines
and restarts, `UsageIsCredited` and `LatestTitlesAreOwn` (in `ProjectsProofs`, with
which they share no state) prove the two properties of the run from `LogsInv`.
Neither is inductive: both speak of what a reader would conclude from a modified
time. `WritesInv` says what that time is worth: the last to write a log wrote at
its modified time, within its own window and to its own conversation, so a log
whose time falls into the window of a session that was alone is that session's.
`LinesInv` says where in a log the history's first prompt and last usage are, and
`TailRead`, `HeadRead`, `UsageFound` and `PromptFound` what of them is seen behind
the cut line. `ScanInv` says of the candidate a scan holds, whose log was read
without the lock, what `LatestTitleIsOwn` says of the index: it survives because
what was read of a session that is still alone can have grown but not changed hands
(`OwnStays`), and because whether the session was over was asked before the read.

### Only model-checked

- All liveness: the prover has no rules for fairness and ENABLED.
- `Plugins`: its merge of JSON trees is a RECURSIVE operator, from which the prover
  loses its SMT backend.
- `NamespaceAsPlanned` of `Start`: the plan is built with folds and higher-order
  operators over sequences of paths.
- `RefusedForACause` of `Start`: which mount fails depends on where the constants'
  machines put what is missing on the disk (`Mountable`, `Accepted`), so it is a
  fact about those machines and not one for all values of the constants.

## 5. Not modelled

- Within the modelled parts: window sizes in `Supervisor` (only the log lines of a
  resize), the choice of the process a signal is sent to, a failing write of the
  event log, a failed start of the ladder's thread, a status request that times out
  on a supervisor that runs, launch arguments and validation in `create`. The
  placeholder record of `watch` cannot arise: the session was inserted before.
- A crash of the daemon between writing a spec and spawning is the disk state of
  a failed spawn, which the scan meets in `session_index`.
- Of the sandbox, bubblewrap and the kernel are external: `Mounted` and `verdict`
  say what the code relies on. Only the last component of an extra path is a link
  that can be re-pointed, and HOME is always in the specification.
- That the harness writes its log only once its session has started is assumed in
  `HarnessLogs`: a prompt needs an attached user.
- The TypeScript store and views, tool downloads, the shell's launch vector,
  prerequisites, `explain`, file trees, request parsing, protocol types and build
  tooling, with the reason for each under `components`.

## 6. Plan

1. Done: `Jobs` with its proofs and its refinement of `JobBoard`, `SessionLog`,
   `Supervisor`, `SessionIndex`, `Projects`, `Engine`, `Plugins`, `Start` with
   `SandboxPolicy` and `SyscallFilter`, `Terminal` with `OutputFilter`,
   `HarnessLogs`.
2. Done: the safety of `SessionLog`, `SessionIndex`, `Supervisor`, `Projects`,
   `Engine`, `Terminal`, `HarnessLogs` and `Start` (but `NamespaceAsPlanned` and
   `RefusedForACause`, which stay with TLC).
3. A second refinement: the supervisor of `SessionIndex` as an abstract
   specification that `Supervisor` implements, under a mapping of `pump`, `phase`
   and `log`.
4. The UI store's order of snapshots and notifications, with the daemon's
   sequence numbers.
