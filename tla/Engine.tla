------------------------------- MODULE Engine -------------------------------
(***************************************************************************)
(* willie-engine (engine.rs, daemon.rs, rpc.rs, process.rs, distro.rs,     *)
(* wsl.rs), the commands and the event pump of the desktop application     *)
(* (src-tauri lib.rs, events.rs) and the request loop of the daemon they   *)
(* start (willied main.rs, server.rs).                                     *)
(*                                                                         *)
(* A command runs with the engine's mutex held from its first step to its  *)
(* status (`with_engine`), so at most one is under way; what it starts is  *)
(* not: the daemon, the thread that routes its output, the pump threads    *)
(* and the commands that have unlocked the engine and now look after the   *)
(* pump.  A spawn of the daemon is a generation: 1, 2, ... are the         *)
(* engine's; Other is a daemon somebody else started in the distribution.  *)
(*                                                                         *)
(* wsl.exe is the engine's child, willied the process in the distribution. *)
(* decisions/0010 measured that willied dies with a killed wsl.exe: Torn   *)
(* is that death, and comes before a later daemon reaches its socket.      *)
(***************************************************************************)
EXTENDS Naturals, Sequences, FiniteSets

CONSTANTS
    MaxSpawn,       \* bound: daemons the engine may start
    MaxCommands,    \* bound: commands the window sends
    MaxEvents       \* bound: what happens from outside: a daemon dies, a line
                    \* comes from a socket client, the distribution is
                    \* unregistered, somebody starts a daemon of his own

ASSUME EngineAssumption == {MaxSpawn, MaxCommands, MaxEvents} \subseteq Nat

VARIABLES
    op,         \* the command that holds the engine's mutex
    live,       \* DaemonSupervisor.live: the generation held, 0 for None
    dstate,     \* DaemonSupervisor.state
    relay,      \* the wsl.exe children
    willied,    \* the daemons
    inbound,    \* a daemon's Inbound channel, fed by its stdin and its socket
    stdinOpen,
    out,        \* lines on a daemon's stdout the router has not read
    inbox,      \* RpcClient's Inbox and next_id
    reply,      \* what the router sent down the waiting call's channel
    socket,     \* the daemon's socket path: the generation that bound it
    distro, disk,
    image,      \* the image the install under way has located
    alive, ensuring, subscribing, pumps,    \* EventPump and its threads
    spawned, commands, events,
    executed    \* history: how often a command's request was carried out

daemons == <<willied, inbound, out, socket, events, executed>>
client == <<live, dstate, relay, stdinOpen, inbox, reply, spawned>>
host == <<distro, disk, image>>
pump == <<alive, ensuring, subscribing, pumps>>
engineVars == <<op, client, daemons, host, pump, commands>>

Gen == 1..MaxSpawn
None == 0
Other == MaxSpawn + 1
Daemons == Gen \cup {Other}
Event == events < MaxEvents /\ events' = events + 1
Idle == [k |-> "none", pc |-> "idle", g |-> None, try |-> 0]

\* The commands the window may send, by what they do with the engine.  A
\* daemon command is one call forwarded by `daemon_command`.
ProjectCommands == {"project_list", "project_add", "project_remove",
    "project_sync_to_windows", "project_update_from_windows",
    "project_relocate", "project_rename", "project_set_sandbox",
    "project_tree", "project_read_file"}
SessionCommands == {"session_rename", "session_stop", "job_cancel", "state_snapshot"}
ToolCommands == {"tool_install", "tool_list", "tool_update", "plugin_list",
    "plugin_enable", "plugin_disable", "plugin_call", "usage_snapshot"}
OpenCommands == {"session_open", "session_resume"}
Forwarded == ProjectCommands \cup SessionCommands \cup ToolCommands

\* Commands of one class take the same steps: the model runs one of each.
Class(c) == IF c \in Forwarded THEN "call"
            ELSE IF c \in OpenCommands THEN "open" ELSE c
Classes == {Class(c) : c \in Forwarded \cup OpenCommands \cup
              {"session_attach", "engine_doctor", "engine_start_daemon",
               "engine_stop_daemon", "engine_install_distro", "engine_status"}}
\* The ones that end in EventPump::ensure.
DaemonCommand(k) == k \in {"call", "open", "session_attach"}

\* A result that does not decode ends a call as a timeout does: it is not told
\* from one.
Answers == {"ok", "rpc_error"}
RelayStates == {"unborn", "running", "exited", "reaped"}
WilliedStates == {"unborn", "booting", "stale", "clear", "refused", "serving",
                  "draining", "gone"}

Replies == Answers \cup {"none", "other_version"}
Requests == {"hello", "shutdown", "doctor", "list", "method"}
Messages == [origin: {"stdio", "socket"}, text: {"request", "blank", "invalid"},
             m: Requests, id: Nat, c: Nat]
Pcs == {"idle", "enter", "preflight", "stop", "stop_wait", "grace", "spawn",
        "hello", "call", "wait", "finish", "locate", "validate", "uninstall",
        "clean", "import"}
Commands == [k: Classes \cup {"none"}, g: Gen \cup {None}, try: 0..1, pc: Pcs]

\* The supervisor; the wire; the daemons; the distribution; the pump.
ClientTypes == /\ op \in Commands
               /\ live \in Gen \cup {None}
               /\ dstate \in {"stopped", "running", "failed"}
               /\ relay \in [Gen -> RelayStates]
               /\ stdinOpen \in [Gen -> BOOLEAN]
               /\ spawned \in 0..MaxSpawn /\ commands \in 0..MaxCommands
WireTypes == /\ inbound \in [Daemons -> Seq(Messages)]
             /\ out \in [Gen -> Seq([id: Nat, answer: Replies])]
             /\ inbox \in [Gen -> [next_id: Nat, waiters: SUBSET Nat,
                                   closed: BOOLEAN]]
             /\ reply \in Replies
DaemonTypes == /\ willied \in [Daemons -> WilliedStates]
               /\ socket \in Daemons \cup {None}
               /\ events \in 0..MaxEvents
               /\ executed \in [1..MaxCommands -> Nat]
HostTypes == /\ distro \in {"none", "registered"}
             /\ disk \in {"none", "used", "orphan"}
             /\ image \in {"none", "good", "bad", "unchecked"}
PumpTypes == /\ alive \in BOOLEAN /\ ensuring \in Nat /\ subscribing \in Nat
             /\ pumps \in [Gen -> Nat]

EngineTypeOK == ClientTypes /\ WireTypes /\ DaemonTypes /\ HostTypes /\ PumpTypes

EngineInit ==
    /\ op = Idle /\ live = None /\ dstate = "stopped"
    /\ relay = [g \in Gen |-> "unborn"]
    /\ willied = [g \in Daemons |-> "unborn"]
    /\ inbound = [g \in Daemons |-> <<>>]
    /\ stdinOpen = [g \in Gen |-> FALSE]
    /\ out = [g \in Gen |-> <<>>]
    /\ inbox = [g \in Gen |-> [next_id |-> 1, waiters |-> {}, closed |-> FALSE]]
    /\ reply = "none" /\ socket = None
    /\ distro = "registered" /\ disk = "used" /\ image = "none"
    /\ alive = FALSE /\ ensuring = 0 /\ subscribing = 0
    /\ pumps = [g \in Gen |-> 0]
    /\ spawned = 0 /\ commands = 0 /\ events = 0
    /\ executed = [c \in 1..MaxCommands |-> 0]

-----------------------------------------------------------------------------
(* rpc.rs and process.rs: the client of one generation.                     *)

\* A line for the dispatcher.  `c` is the command it was sent for.
Line(origin, text, m, id) ==
    [origin |-> origin, text |-> text, m |-> m, id |-> id, c |-> commands]

\* RpcClient::call up to its wait: the id is spent whatever happens; a closed
\* inbox ends the call there; the waiter is registered before the write, and
\* a failed write is left to the router's verdict.
send(g, m, up) ==
    /\ reply' = "none"
    /\ inbox' = [inbox EXCEPT ![g].next_id = @ + 1,
                  ![g].waiters = IF inbox[g].closed THEN @ ELSE @ \cup {inbox[g].next_id}]
    /\ inbound' = IF inbox[g].closed \/ ~up THEN inbound
                  ELSE [inbound EXCEPT ![g] =
                          Append(@, Line("stdio", "request", m, inbox[g].next_id))]

\* A waiting call that gives up, or is disconnected, takes its waiter away; the
\* timeout may strike at any time before the answer.
unregister(g) == inbox' = [inbox EXCEPT ![g].waiters = {}] /\ reply' = "none"
\* The client of a generation is dropped with its process.
dropped(g) == inbox' = [inbox EXCEPT ![g].waiters = {}, ![g].next_id = 1] /\ reply' = "none"

\* run_reader: an answer goes to the call that waits for its id; one that no
\* call waits for is dropped.
run_reader(g) ==
    /\ out[g] # <<>> /\ ~inbox[g].closed
    /\ out' = [out EXCEPT ![g] = Tail(@)]
    /\ LET r == Head(out[g]) IN
          IF r.id \in inbox[g].waiters
          THEN /\ reply' = r.answer
               /\ inbox' = [inbox EXCEPT ![g].waiters = @ \ {r.id}]
          ELSE UNCHANGED <<reply, inbox>>
    /\ UNCHANGED <<op, live, dstate, relay, stdinOpen, spawned, willied, inbound,
                   socket, events, executed, host, pump, commands>>

\* The end of run_reader: the peer's stdout is closed.
reader_ends(g) ==
    /\ ~inbox[g].closed /\ relay[g] # "unborn"
    /\ relay[g] = "reaped" \/ (willied[g] = "gone" /\ out[g] = <<>>)
    /\ inbox' = [inbox EXCEPT ![g].closed = TRUE, ![g].waiters = {}]
    /\ out' = [out EXCEPT ![g] = <<>>]
    /\ UNCHANGED <<op, live, dstate, relay, stdinOpen, reply, spawned, willied,
                   inbound, socket, events, executed, host, pump, commands>>

-----------------------------------------------------------------------------
(* daemon.rs: the supervisor of the daemon's process.                       *)

Go(pc) == op' = [op EXCEPT !.pc = pc]
Release(pc) == op' = [op EXCEPT !.pc = pc, !.g = None]
\* WslProcess::kill and wait; the pipes go with the process.
kill(g) == /\ relay' = [relay EXCEPT ![g] = "reaped"]
           /\ stdinOpen' = [stdinOpen EXCEPT ![g] = FALSE]

\* Seeded fault: a failure is recorded and its process left behind.
record_only == /\ live' = None /\ dstate' = "failed"
               /\ UNCHANGED <<relay, stdinOpen>>

\* DaemonSupervisor::record.
record == /\ IF live = None THEN UNCHANGED <<relay, stdinOpen>> ELSE kill(live)
          /\ live' = None /\ dstate' = "failed"

\* DaemonSupervisor::state: a child that exited is reaped and recorded.
state_check == IF live # None /\ relay[live] = "exited" THEN record
               ELSE UNCHANGED <<live, dstate, relay, stdinOpen>>

AfterStop == IF op.k = "engine_stop_daemon" THEN "finish"
             ELSE IF op.k = "engine_install_distro" THEN "validate" ELSE "spawn"
AfterStart == IF op.k = "engine_start_daemon" THEN "finish" ELSE "call"

\* stop: take the live daemon and ask it to shut down.
stop ==
    /\ op.pc = "stop"
    /\ live' = None
    /\ IF live = None
       THEN /\ dstate' = "stopped" /\ Go(AfterStop)
            /\ UNCHANGED <<reply, inbox, inbound>>
       ELSE /\ op' = [op EXCEPT !.pc = "stop_wait", !.g = live]
            /\ send(live, "shutdown", willied[live] # "gone") /\ UNCHANGED dstate
    /\ UNCHANGED <<relay, stdinOpen, spawned, willied, out, socket, events,
                   executed, host, pump, commands>>

\* stop: whatever the answer, or none in time, the daemon's stdin is closed.
stop_close ==
    /\ op.pc = "stop_wait"
    /\ unregister(op.g)
    /\ stdinOpen' = [stdinOpen EXCEPT ![op.g] = FALSE]
    /\ Go("grace")
    /\ UNCHANGED <<live, dstate, relay, spawned, daemons, host, pump, commands>>

\* stop: an exit within STOP_GRACE, or the kill after it.
stop_grace ==
    /\ op.pc = "grace"
    /\ kill(op.g) /\ dropped(op.g)
    /\ dstate' = "stopped" /\ Release(AfterStop)
    /\ UNCHANGED <<live, spawned, daemons, host, pump, commands>>

\* start_with, the spawn and the hello.  Without the distribution wsl.exe
\* prints its refusal and exits.
start_spawn ==
    /\ op.pc = "spawn" /\ spawned < MaxSpawn
    /\ LET g == spawned + 1 IN
       /\ spawned' = g
       /\ relay' = [relay EXCEPT ![g] = "running"]
       /\ stdinOpen' = [stdinOpen EXCEPT ![g] = TRUE]
       /\ willied' = [willied EXCEPT ![g] = IF distro = "none" THEN "gone" ELSE "booting"]
       /\ send(g, "hello", distro = "registered")
       /\ op' = [op EXCEPT !.pc = "hello", !.g = g]
    /\ UNCHANGED <<live, dstate, out, socket, events, executed, host,
                   pump, commands>>

\* start_with, a spawn or a transport that fails.
start_fails ==
    /\ op.pc = "spawn"
    /\ record /\ Go("finish")
    /\ UNCHANGED <<inbox, reply, spawned, daemons, host, pump, commands>>

\* start_with, the reply: the daemon is kept only if it is our version.
start_hello ==
    /\ op.pc = "hello" /\ reply = "ok"
    /\ live' = op.g /\ dstate' = "running" /\ Release(AfterStart)
    /\ unregister(op.g)
    /\ UNCHANGED <<relay, stdinOpen, spawned, daemons, host, pump, commands>>

\* start_with, any other outcome: EXIT_SETTLE for a better account of it, then
\* the process is killed and reaped.
start_refused ==
    /\ op.pc = "hello" /\ reply # "ok"
    /\ kill(op.g) /\ dropped(op.g)
    /\ live' = None /\ dstate' = "failed" /\ Release("finish")
    /\ UNCHANGED <<spawned, daemons, host, pump, commands>>

\* What a command asks the daemon for.
Request == IF op.k = "engine_doctor" THEN "doctor"
           ELSE IF op.k = "open" /\ op.try = 1 THEN "list" ELSE "method"

\* call, health and doctor: one request to the live client.
call ==
    /\ op.pc = "call"
    /\ send(live, Request, willied[live] # "gone")
    /\ Go("wait")
    /\ UNCHANGED <<live, dstate, relay, stdinOpen, spawned, willied, out, socket,
                   events, executed, host, pump, commands>>

\* session_open_impl: a created session's tab is named by a second call.
project_title == op.k = "open" /\ op.try = 0 /\ reply = "ok"

\* An answer, success or a well-formed error: the daemon is alive.
call_answered ==
    /\ op.pc = "wait" /\ reply \in {"ok", "rpc_error"}
    /\ op' = IF project_title THEN [op EXCEPT !.pc = "enter", !.try = 1]
             ELSE [op EXCEPT !.pc = "finish"]
    /\ unregister(live)
    /\ UNCHANGED <<live, dstate, relay, stdinOpen, spawned, daemons, host, pump, commands>>

\* Seeded fault: every command gets the doctor's second try.
after_lost_retries ==
    IF op.try = 0 THEN [op EXCEPT !.pc = "preflight", !.try = 1]
                  ELSE [op EXCEPT !.pc = "finish"]

\* run_doctor gets one restart; every other call is reported as it failed.
after_lost ==
    IF op.k = "engine_doctor" /\ op.try = 0
    THEN [op EXCEPT !.pc = "preflight", !.try = 1] ELSE [op EXCEPT !.pc = "finish"]

\* No answer in time, a closed stdout or a result that does not decode.
call_lost ==
    /\ op.pc = "wait" /\ reply = "none"
    /\ record /\ dropped(live) /\ op' = after_lost
    /\ UNCHANGED <<spawned, daemons, host, pump, commands>>

-----------------------------------------------------------------------------
(* engine.rs: the commands, between locking the engine and unlocking it.    *)

\* Where a command starts; status and a terminal tab only take the lock.
FirstStep == [call |-> "enter", open |-> "enter", engine_doctor |-> "enter",
              engine_start_daemon |-> "preflight",
              engine_stop_daemon |-> "stop",
              engine_install_distro |-> "locate",
              engine_status |-> "finish", session_attach |-> "finish"]

\* with_engine: the mutex is free.
begin(k) ==
    /\ op = Idle /\ commands < MaxCommands
    /\ op' = [k |-> k, pc |-> FirstStep[k], g |-> None, try |-> 0]
    /\ commands' = commands + 1
    /\ UNCHANGED <<client, daemons, host, pump>>

\* daemon_call and run_doctor: a running daemon is used as it is.
enter_daemon ==
    /\ op.pc = "enter"
    /\ state_check
    /\ Go(IF dstate' = "running" THEN "call" ELSE "preflight")
    /\ UNCHANGED <<inbox, reply, spawned, daemons, host, pump, commands>>

\* project_add's missing folder and plugin_call's foreign method, refused
\* before anything is sent.
enter_refused ==
    /\ op.pc = "enter" /\ op.k = "call"
    /\ Go("finish")
    /\ UNCHANGED <<client, daemons, host, pump, commands>>

\* ensure_distro_registered; wsl.exe may also fail to tell.
ensure_distro_registered ==
    /\ op.pc = "preflight"
    /\ \/ distro = "registered" /\ Go("stop")
       \/ Go("finish")
    /\ UNCHANGED <<client, daemons, host, pump, commands>>

\* Engine::status looks at the child before it answers.
status == state_check

\* mutate and daemon_command: the status is computed under the same lock, then
\* the engine is unlocked and a daemon command turns to the pump.
finish ==
    /\ op.pc = "finish"
    /\ status
    /\ op' = Idle
    /\ ensuring' = IF DaemonCommand(op.k) THEN ensuring + 1 ELSE ensuring
    /\ image' = "none"
    /\ UNCHANGED <<inbox, reply, spawned, daemons, distro, disk, alive,
                   subscribing, pumps, commands>>

-----------------------------------------------------------------------------
(* distro.rs and wsl.rs: install.                                           *)

\* install_distro: locate_image, then the daemon is stopped.  The image is
\* whatever file the build left, or none; without the sidecar that holds its
\* hash nobody can tell, and it is unchecked.
locate_image ==
    /\ op.pc = "locate"
    /\ image' \in {"none", "good", "bad", "unchecked"}
    /\ Go(IF image' = "none" THEN "finish" ELSE "stop")
    /\ UNCHANGED <<client, daemons, distro, disk, pump, commands>>

\* Seeded fault: the image is left to the import to judge.
validate_image_skipped ==
    /\ op.pc = "validate" /\ Go("uninstall")
    /\ UNCHANGED <<client, daemons, host, pump, commands>>

\* A missing or an empty image is refused, and one whose sidecar holds another
\* hash; an image that has no sidecar passes.
validate_image ==
    /\ op.pc = "validate"
    /\ Go(IF image \in {"good", "unchecked"} THEN "uninstall" ELSE "finish")
    /\ UNCHANGED <<client, daemons, host, pump, commands>>

\* wsl --terminate ends every process of the distribution.
terminate ==
    /\ willied' = [g \in Daemons |-> IF willied[g] = "unborn" THEN "unborn" ELSE "gone"]
    /\ inbound' = [g \in Daemons |-> <<>>]

\* uninstall: terminate, then unregister, which takes the disk along.
uninstall ==
    /\ op.pc = "uninstall"
    /\ \/ /\ distro = "registered" /\ distro' = "none" /\ disk' = "none"
          /\ terminate /\ Go("clean")
       \/ /\ distro = "registered" /\ terminate  \* unregister fails
          /\ Go("finish") /\ UNCHANGED <<distro, disk>>
       \/ /\ distro = "none" /\ Go("clean")
          /\ UNCHANGED <<distro, disk, willied, inbound>>
       \/ /\ Go("finish") /\ UNCHANGED <<distro, disk, willied, inbound>>  \* list fails
    /\ UNCHANGED <<client, out, socket, events, executed, image, pump, commands>>

remove_orphaned_disk ==
    /\ op.pc = "clean"
    /\ \/ disk' = "none" /\ Go("import")
       \/ disk # "none" /\ Go("finish") /\ UNCHANGED disk
    /\ UNCHANGED <<client, daemons, distro, image, pump, commands>>

\* wsl --import refuses a location in use; one that fails half way leaves its
\* disk behind.
import ==
    /\ op.pc = "import"
    /\ Go("finish")
    /\ \/ disk = "none" /\ disk' = "used" /\ distro' = "registered"
       \/ disk = "none" /\ disk' \in {"none", "orphan"} /\ UNCHANGED distro
       \/ disk # "none" /\ UNCHANGED <<disk, distro>>
    /\ UNCHANGED <<client, daemons, image, pump, commands>>

\* wsl --unregister is typed in another window.
user_unregisters ==
    /\ distro = "registered" /\ Event
    /\ op.pc \notin {"validate", "uninstall", "clean", "import"}
    /\ distro' = "none" /\ disk' = "none" /\ terminate
    /\ UNCHANGED <<op, client, out, socket, executed, image, pump, commands>>

-----------------------------------------------------------------------------
(* willied: main.rs bind and run_stdio, server.rs serve_inbound.            *)

Daemon(g, from, to) == willied[g] = from /\ willied' = [willied EXCEPT ![g] = to]
\* A daemon that left its loop, or died, takes its channel along.
Deaf(g) == inbound' = [inbound EXCEPT ![g] = <<>>]
Listening == socket # None /\ willied[socket] \in {"serving", "draining"}
Settled == \A h \in Gen : relay[h] = "reaped" => willied[h] = "gone"
DaemonOnly == UNCHANGED <<op, client, host, pump, commands>>

\* bind, the test: a socket somebody answers on is a second daemon.
bind_test(g) ==
    /\ Settled
    /\ Daemon(g, "booting", IF Listening THEN "refused"
                            ELSE IF socket # None THEN "stale" ELSE "clear")
    /\ UNCHANGED <<inbound, out, socket, events, executed>> /\ DaemonOnly

\* bind, remove_file: an error when somebody else removed it first.
bind_remove(g) ==
    /\ Daemon(g, "stale", IF socket = None THEN "refused" ELSE "clear")
    /\ socket' = None
    /\ UNCHANGED <<inbound, out, events, executed>> /\ DaemonOnly

\* bind, UnixListener::bind: refused when the path is there again.
bind_listen(g) ==
    /\ Daemon(g, "clear", IF socket = None THEN "serving" ELSE "refused")
    /\ socket' = IF socket = None THEN g ELSE socket
    /\ UNCHANGED <<inbound, out, events, executed>> /\ DaemonOnly

\* A daemon that cannot bind ends once its writer has; see Jobs for the join.
refused_exits(g) ==
    /\ Daemon(g, "refused", "gone") /\ Deaf(g)
    /\ UNCHANGED <<out, socket, events, executed>> /\ DaemonOnly

\* dispatch_from and dispatch: whether the request trips shutting_down.
dispatch_from(msg) ==
    msg.text = "request" /\ msg.m = "shutdown" /\ msg.origin = "stdio"

\* What dispatch answers: of a refused hello the engine keeps only that the
\* versions differ; the doctor and the list have no error of their own.
hello == {"ok", "other_version"}
doctor == {"ok"}
dispatch_answers(msg) ==
    CASE msg.text = "invalid" -> {"rpc_error"}
      [] msg.m = "hello" -> hello
      [] msg.m \in {"doctor", "list"} -> doctor
      [] msg.m = "shutdown" -> {IF msg.origin = "stdio" THEN "ok" ELSE "rpc_error"}
      [] OTHER -> Answers

\* serve_inbound, one line: a blank one is skipped; a stdio answer goes to
\* stdout, a socket's to its connection.
serve_inbound(g) ==
    /\ inbound[g] # <<>>
    /\ inbound' = [inbound EXCEPT ![g] = IF dispatch_from(Head(@)) THEN <<>> ELSE Tail(@)]
    /\ LET msg == Head(inbound[g])
           carried == msg.text = "request" /\ msg.m = "method" /\ msg.origin = "stdio"
       IN /\ Daemon(g, "serving", IF dispatch_from(msg) THEN "draining" ELSE "serving")
          /\ executed' = IF carried THEN [executed EXCEPT ![msg.c] = @ + 1] ELSE executed
          /\ IF msg.origin = "socket" \/ msg.text = "blank" THEN UNCHANGED out
             ELSE \E a \in dispatch_answers(msg) :
                     out' = [out EXCEPT ![g] = Append(@, [id |-> msg.id, answer |-> a])]
    /\ UNCHANGED <<socket, events>> /\ DaemonOnly

\* serve_inbound, StdinClosed: after every line the engine wrote.
serve_eof(g) ==
    /\ Daemon(g, "serving", "draining")
    /\ g \in Gen => ~stdinOpen[g]
    /\ \A i \in DOMAIN inbound[g] : inbound[g][i].origin = "socket"
    /\ Deaf(g)
    /\ UNCHANGED <<out, socket, events, executed>> /\ DaemonOnly

\* run_stdio, after the loop: the writer is joined and the path removed.
drain(g) ==
    /\ Daemon(g, "draining", "gone")
    /\ socket' = None
    /\ UNCHANGED <<inbound, out, events, executed>> /\ DaemonOnly

\* serve_connection: a local client sends a line, whatever it says.
serve_connection ==
    /\ Event
    /\ Listening /\ willied[socket] = "serving"
    /\ \E text \in {"request", "blank", "invalid"} :
          inbound' = [inbound EXCEPT ![socket] = Append(@, Line("socket", text, "shutdown", 1))]
    /\ UNCHANGED <<willied, out, socket, executed>> /\ DaemonOnly

\* The processes themselves: a daemon dies, is torn down with a killed
\* wsl.exe, and wsl.exe exits after its program.
crash(g) ==
    /\ willied[g] \notin {"unborn", "gone"} /\ Event
    /\ willied' = [willied EXCEPT ![g] = "gone"]
    /\ Deaf(g)
    /\ UNCHANGED <<out, socket, executed>> /\ DaemonOnly
torn(g) ==
    /\ relay[g] = "reaped" /\ willied[g] # "gone"
    /\ willied' = [willied EXCEPT ![g] = "gone"] /\ Deaf(g)
    /\ UNCHANGED <<out, socket, events, executed>> /\ DaemonOnly
relay_exits(g) ==
    /\ relay[g] = "running" /\ willied[g] = "gone"
    /\ relay' = [relay EXCEPT ![g] = "exited"]
    /\ UNCHANGED <<op, live, dstate, stdinOpen, inbox, reply, spawned, daemons,
                   host, pump, commands>>
foreign_starts ==
    /\ Event /\ distro = "registered" /\ Daemon(Other, "unborn", "booting")
    /\ UNCHANGED <<inbound, out, socket, executed>> /\ DaemonOnly

-----------------------------------------------------------------------------
(* events.rs: the pump, looked after once the engine is unlocked.           *)

\* Seeded fault: the flag is read here and set when the pump runs.
establish_test ==
    /\ ensuring > 0 /\ ensuring' = ensuring - 1
    /\ subscribing' = IF alive THEN subscribing ELSE subscribing + 1
    /\ UNCHANGED <<op, client, daemons, host, alive, pumps, commands>>

\* establish, the swap: one caller wins.
establish ==
    /\ ensuring > 0 /\ ensuring' = ensuring - 1
    /\ alive' = TRUE
    /\ subscribing' = IF alive THEN subscribing ELSE subscribing + 1
    /\ UNCHANGED <<op, client, daemons, host, pumps, commands>>

\* establish, the winner: a subscription under the engine's lock, then the
\* thread; without a daemon, or a thread, the flag is taken back.
subscribe ==
    /\ op = Idle /\ subscribing > 0 /\ subscribing' = subscribing - 1
    /\ \/ /\ live # None /\ alive' = TRUE
          /\ pumps' = [pumps EXCEPT ![live] = @ + 1]
       \/ /\ live = None /\ alive' = FALSE /\ UNCHANGED pumps
    /\ UNCHANGED <<op, client, daemons, host, ensuring, commands>>

\* pump_loop: the senders are gone when the client is dropped and its router
\* has ended.
pump_ends(g) ==
    /\ pumps[g] > 0 /\ g \notin {live, op.g} /\ inbox[g].closed
    /\ pumps' = [pumps EXCEPT ![g] = @ - 1] /\ alive' = FALSE
    /\ UNCHANGED <<op, client, daemons, host, ensuring, subscribing, commands>>

-----------------------------------------------------------------------------
EngineStep ==
    \/ stop \/ stop_close \/ stop_grace \/ start_spawn \/ start_fails \/ start_hello
    \/ start_refused \/ call \/ call_answered \/ call_lost
    \/ enter_daemon \/ enter_refused \/ ensure_distro_registered
    \/ finish \/ locate_image \/ validate_image \/ uninstall
    \/ remove_orphaned_disk \/ import
DaemonStep(g) ==
    \/ bind_test(g) \/ bind_remove(g) \/ bind_listen(g) \/ refused_exits(g)
    \/ serve_inbound(g) \/ serve_eof(g) \/ drain(g) \/ crash(g)
ClientStep(g) ==
    \/ run_reader(g) \/ reader_ends(g) \/ torn(g) \/ relay_exits(g)
    \/ pump_ends(g)
EngineNext ==
    \/ \E k \in Classes : begin(k)
    \/ EngineStep
    \/ \E g \in Daemons : DaemonStep(g)
    \/ \E g \in Gen : ClientStep(g)
    \/ establish \/ subscribe
    \/ user_unregisters \/ serve_connection \/ foreign_starts

EngineSpec == EngineInit /\ [][EngineNext]_engineVars

-----------------------------------------------------------------------------
(* Properties.                                                              *)

\* No daemon process is left behind: a running wsl.exe is the supervisor's or
\* the one the command under way is starting or stopping, and between
\* commands "running" is shown exactly while one is held (daemon.rs, record:
\* "an unresponsive daemon is never left orphaned").
NoOrphanDaemon ==
    /\ \A g \in Gen : relay[g] = "running" => g \in {live, op.g}
    /\ op = Idle => (dstate = "running" <=> live # None)

\* At most one pump thread runs, whatever commands end at the same time: a
\* second subscription would show every event twice (events.rs, establish).
OneEventPump ==
    /\ \A g \in Gen : pumps[g] <= 1
    /\ \A g, h \in Gen : pumps[g] > 0 /\ pumps[h] > 0 => g = h
    /\ (\E g \in Gen : pumps[g] > 0) => alive

\* A command the engine forwards is carried out at most once, however its
\* call ends: after a timeout the daemon may already have done it.
CarriedOutOnce == \A c \in 1..MaxCommands : executed[c] <= 1

\* The install gives up a registered distribution only when the image passed
\* every check there is of it, and only with no daemon of the engine's left in
\* it, neither held nor still running: what it unregisters nobody uses any
\* more (engine.rs, install_distro; distro.rs, install).
Replaces == op.pc = "uninstall" /\ distro = "registered" /\ distro' = "none"
ReplacedOnlyWhenReady ==
    [][Replaces => /\ image \in {"good", "unchecked"}
                   /\ live = None
                   /\ \A g \in Gen : relay[g] # "running"]_engineVars

-----------------------------------------------------------------------------
(* What the documentation says and the code does not do.                    *)

\* "a bad image never costs the developer their working install" (distro.rs,
\* install): an image without its sidecar is imported unchecked.
BadImageCostsNothing == [][Replaces => image = "good"]_engineVars

=============================================================================
