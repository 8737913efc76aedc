---------------------------- MODULE SessionIndex ----------------------------
(***************************************************************************)
(* willied/src/sessions.rs with control.rs, session_store.rs and the       *)
(* session part of state.rs: how the daemon's in-memory record of a        *)
(* session follows the supervisor that runs it, through create, watch,     *)
(* rename, stop, project.remove, the finalise thread, a killed daemon and  *)
(* the start-up scan.  Sessions share nothing but the dispatcher, so the   *)
(* module follows one of them.                                             *)
(*                                                                         *)
(* The supervisor is willie-sess seen from outside: what it writes to the  *)
(* log, when its socket answers and what it sends to the control client.   *)
(* Its exit is the one of Supervisor's finish: the phase turns ("ending"), *)
(* the exit is logged, the registered clients are told ("taken"), it goes. *)
(***************************************************************************)
EXTENDS SessionLog

CONSTANTS
    Label,          \* the label a rename sets
    MaxRenames,     \* bound: session.rename calls
    MaxAttaches,    \* bound: terminals that attach
    MaxCrashes      \* bound: times the daemon is killed

\* The codes of the failures a supervisor reports, logged or not ("harness"
\* stands for those of a refused start), and of the verdicts the daemon passes
\* on a supervisor that did not answer.
LogCodes == {"harness", "spec_invalid", "supervisor_spawn_failed"}
DaemonVerdicts == {"supervisor_timeout", "supervisor_lost"}

ASSUME SessionIndexAssumption ==
    /\ Label /= NoLabel
    /\ NoLabel \notin LogCodes \cup DaemonVerdicts
    /\ MaxRenames \in Nat /\ MaxAttaches \in Nat /\ MaxCrashes \in Nat

VARIABLES
    sup,        \* the supervisor process
    terms,      \* terminals attached to it
    reply,      \* the readiness line: "none", "ok" or the code of a failure
    log,        \* <state>/sessions/<id>/events.jsonl
    socket,     \* <run>/sessions/<id>.sock exists
    conn, wire, \* the watch connection and the frames in flight on it
    daemon,     \* "up" or "down"
    index,      \* State.sessions: the record, or Absent
    disp,       \* the dispatcher thread
    held,       \* the record the dispatcher works on outside the lock
    final,      \* the control reader and the finalise thread behind it
    loaded,     \* the record finalise_lost is about to publish
    removed,    \* the project was removed
    gaveup,     \* history: the daemon gave up on a supervisor that was starting
    renames, attaches, crashes   \* what the bounds count

supVars == <<sup, terms, reply, log>>
connVars == <<conn, wire>>
dispVars == <<disp, held>>
finalVars == <<final, loaded>>
projVars == <<removed, gaveup>>
countVars == <<renames, attaches, crashes>>
vars == <<supVars, socket, connVars, daemon, index, dispVars, finalVars,
          projVars, countVars>>

Absent == [Creating EXCEPT !.state = "absent"]
Records == [state : SessionStates \cup {"absent"},
            code : {NoLabel} \cup LogCodes \cup DaemonVerdicts,
            clients : Nat, label : {NoLabel, Label},
            denied : [Names -> Nat], degraded : BOOLEAN]

TypeOK ==
    /\ sup \in {"none", "starting", "bound", "running", "ending", "logged",
                "taken", "gone", "dead"}
    /\ terms \in 0..MaxAttaches
    /\ reply \in {"none", "ok"} \cup LogCodes
    /\ socket \in BOOLEAN /\ removed \in BOOLEAN /\ gaveup \in BOOLEAN
    /\ conn \in {"none", "hello", "admitted", "open", "over"}
    /\ daemon \in {"up", "down"}
    /\ index \in Records /\ held \in Records /\ loaded \in Records
    /\ disp \in {"idle", "await", "watch", "rename_append", "rename_upsert",
                 "scan", "scan_status", "down"}
    /\ final \in {"none", "reading", "check", "probe", "load", "emit", "done"}
    /\ renames \in 0..MaxRenames /\ attaches \in 0..MaxAttaches
    /\ crashes \in 0..MaxCrashes

Init ==
    /\ sup = "none" /\ terms = 0 /\ reply = "none" /\ log = <<>>
    /\ socket = FALSE /\ conn = "none" /\ wire = <<>>
    /\ daemon = "up" /\ index = Absent
    /\ disp = "idle" /\ held = Absent
    /\ final = "none" /\ loaded = Absent
    /\ removed = FALSE /\ gaveup = FALSE
    /\ renames = 0 /\ attaches = 0 /\ crashes = 0

Down == {"gone", "dead"}
Listening == sup \in {"bound", "running", "ending", "logged", "taken"}

\* The supervisor has written nothing to its event log.
Unlogged == Event("created", NoLabel) \notin ToSet(log)

-----------------------------------------------------------------------------
(* The supervisor.                                                          *)

\* A line goes to the log and to the registered control client.
Logs(e) == /\ log' = Append(log, e)
           /\ wire' = IF conn = "open" THEN Append(wire, e) ELSE wire

\* session_main: the specification cannot be read, or a log cannot be opened.
\* The launcher is told, the event log is not there to be written to.
sup_refuses ==
    /\ sup = "starting"
    /\ sup' = "gone" /\ reply' \in {"spec_invalid", "supervisor_spawn_failed"}
    /\ UNCHANGED <<terms, log, socket, connVars, daemon, index, dispVars,
                   finalVars, projVars, countVars>>

\* session_main: the event log is open, the socket is bound.
sup_binds ==
    /\ sup = "starting"
    /\ sup' = "bound" /\ socket' = TRUE
    /\ log' = Append(log, Event("created", NoLabel))
    /\ UNCHANGED <<terms, reply, connVars, daemon, index, dispVars, finalVars,
                   projVars, countVars>>

\* session_main: the sandbox is up, the harness runs, the launcher is told.
sup_starts ==
    /\ sup = "bound"
    /\ sup' = "running" /\ reply' = "ok"
    /\ log' = log \o << Event("applied", NoLabel), Event("started", NoLabel) >>
    /\ UNCHANGED <<terms, socket, connVars, daemon, index, dispVars, finalVars,
                   projVars, countVars>>

\* session_main: a step of the start fails, is logged and reported; the first
\* of them is the bind.
sup_fails ==
    /\ sup \in {"starting", "bound"}
    /\ sup' = "gone"
    /\ \/ sup = "bound" /\ \E code \in LogCodes :
             reply' = code /\ log' = Append(log, Event("failed", code))
       \/ /\ sup = "starting" /\ reply' = "supervisor_spawn_failed"
          /\ log' = log \o << Event("created", NoLabel),
                              Event("failed", "supervisor_spawn_failed") >>
    /\ UNCHANGED <<terms, socket, connVars, daemon, index, dispVars, finalVars,
                   projVars, countVars>>

\* It dies before it reports, or cannot start its server behind a harness it
\* has logged as started: the log has no end and the launcher reports
\* supervisor_spawn_failed.
sup_start_lost ==
    /\ sup \in {"starting", "bound"}
    /\ sup' = "dead" /\ reply' = "supervisor_spawn_failed"
    /\ \/ log' = log
       \/ sup = "bound" /\ log' = log \o << Event("applied", NoLabel),
                                            Event("started", NoLabel) >>
    /\ UNCHANGED <<terms, socket, connVars, daemon, index, dispVars, finalVars,
                   projVars, countVars>>

\* A terminal attaches or detaches.
sup_terminal ==
    /\ sup = "running"
    /\ \/ /\ attaches < MaxAttaches /\ attaches' = attaches + 1
          /\ terms' = terms + 1 /\ Logs(Event("attached", NoLabel))
       \/ /\ terms > 0 /\ attaches' = attaches
          /\ terms' = terms - 1 /\ Logs(Event("detached", NoLabel))
    /\ UNCHANGED <<sup, reply, socket, conn, daemon, index, dispVars,
                   finalVars, projVars, crashes, renames>>

\* client_thread, the control client's side: the hello is answered by a
\* CLOSED once the phase has turned, by a registration before that.
sup_hello ==
    /\ conn = "hello"
    /\ \/ sup = "running" /\ conn' = "admitted" /\ wire' = wire
       \/ /\ sup \in {"ending", "logged", "taken"}
          /\ conn' = "over" /\ wire' = << Event("closed", NoLabel) >>
    /\ UNCHANGED <<supVars, socket, daemon, index, dispVars, finalVars,
                   projVars, countVars>>

sup_registers ==
    /\ conn = "admitted" /\ sup \in {"running", "ending", "logged", "taken"}
    /\ conn' = "open"
    /\ UNCHANGED <<supVars, socket, wire, daemon, index, dispVars, finalVars,
                   projVars, countVars>>

\* finish: the harness is gone and the phase turns; a moment later the exit
\* is logged; then whoever is registered is told.
sup_ending ==
    /\ sup = "running"
    /\ sup' = "ending"
    /\ UNCHANGED <<terms, reply, log, socket, connVars, daemon, index,
                   dispVars, finalVars, projVars, countVars>>

\* Seeded fault: the exit is announced and never written down.
sup_logs_exit_unwritten ==
    /\ sup = "ending"
    /\ sup' = "logged"
    /\ wire' = IF conn = "open" THEN Append(wire, Event("exited", NoLabel))
               ELSE wire
    /\ UNCHANGED <<terms, reply, log, socket, conn, daemon, index, dispVars,
                   finalVars, projVars, countVars>>

sup_logs_exit ==
    /\ sup = "ending"
    /\ sup' = "logged"
    /\ Logs(Event("exited", NoLabel))
    /\ UNCHANGED <<terms, reply, socket, conn, daemon, index, dispVars,
                   finalVars, projVars, countVars>>

sup_closes ==
    /\ sup = "logged"
    /\ sup' = "taken"
    /\ IF conn = "open"
       THEN conn' = "over" /\ wire' = Append(wire, Event("closed", NoLabel))
       ELSE UNCHANGED connVars
    /\ UNCHANGED <<terms, reply, log, socket, daemon, index, dispVars,
                   finalVars, projVars, countVars>>

\* The socket is unlinked and the process exits: connections end.
sup_exits ==
    /\ sup = "taken"
    /\ sup' = "gone" /\ socket' = FALSE
    /\ conn' = IF conn = "none" THEN "none" ELSE "over"
    /\ UNCHANGED <<terms, reply, log, wire, daemon, index, dispVars, finalVars,
                   projVars, countVars>>

\* SIGKILL or wsl --shutdown: no terminal event, and the socket path stays.
sup_dies ==
    /\ sup \in {"running", "ending", "logged", "taken"}
    /\ sup' = "dead"
    /\ conn' = IF conn = "none" THEN "none" ELSE "over"
    /\ UNCHANGED <<terms, reply, log, socket, wire, daemon, index, dispVars,
                   finalVars, projVars, countVars>>

-----------------------------------------------------------------------------
(* The dispatcher thread.                                                   *)

\* connect: the path is there and somebody listens behind it.
Answers == socket /\ Listening

\* status: the supervisor serves clients and is not on its way out.
StatusAnswers == socket /\ sup = "running"

Failed(record, code) == apply_event(record, Event("failed", code))

\* SessionOps::create up to the wait: the spec is written, the session shown
\* as creating, the launcher spawned; a launcher that cannot start fails it.
create ==
    /\ disp = "idle" /\ sup = "none" /\ ~removed
    /\ held' = Creating
    /\ \/ sup' = "starting" /\ disp' = "await" /\ index' = Creating
       \/ sup' = "gone" /\ disp' = disp
          /\ index' = Failed(Creating, "supervisor_spawn_failed")
    /\ UNCHANGED <<terms, reply, log, socket, connVars, daemon, finalVars,
                   projVars, countVars>>

\* create, once the readiness line is in, or once it is given up.  Only the
\* launcher is killed then.
create_ready ==
    /\ disp = "await"
    /\ \/ /\ reply = "ok" /\ disp' = "watch" /\ gaveup' = gaveup
          /\ held' = apply_event(held, Event("started", NoLabel))
       \/ /\ reply \in LogCodes /\ disp' = "idle" /\ gaveup' = gaveup
          /\ held' = Failed(held, reply)
       \/ /\ reply = "none" /\ disp' = "idle" /\ gaveup' = TRUE
          /\ held' = Failed(held, "supervisor_timeout")
    /\ index' = held'
    /\ UNCHANGED <<supVars, socket, connVars, daemon, finalVars, removed,
                   countVars>>

\* watch: connect, say hello and start the reader; without a connection it
\* returns silently, without a reader the finalise thread judges at once.
watch ==
    /\ disp = "watch"
    /\ disp' = "idle"
    /\ \/ /\ Answers
          /\ conn' = "hello" /\ wire' = <<>> /\ final' = "reading"
       \/ Answers /\ final' = "check" /\ UNCHANGED connVars
       \/ ~Answers /\ UNCHANGED <<connVars, final>>
    /\ UNCHANGED <<supVars, socket, daemon, index, held, loaded, projVars,
                   countVars>>

\* rename clones the record under the lock ...
rename ==
    /\ disp = "idle" /\ index /= Absent /\ renames < MaxRenames
    /\ renames' = renames + 1
    /\ held' = index /\ disp' = "rename_append"
    /\ UNCHANGED <<supVars, socket, connVars, daemon, index, finalVars,
                   projVars, attaches, crashes>>

\* ... appends to the supervisor's log, or gives up if it cannot ...
rename_append ==
    /\ disp = "rename_append"
    /\ \/ /\ log' = Append(log, Event("renamed", Label))
          /\ disp' = "rename_upsert"
       \/ log' = log /\ disp' = "idle"
    /\ UNCHANGED <<sup, terms, reply, socket, connVars, daemon, index, held,
                   finalVars, projVars, countVars>>

\* ... and puts the clone back.
rename_upsert ==
    /\ disp = "rename_upsert"
    /\ held' = apply_event(held, Event("renamed", Label))
    /\ index' = held' /\ disp' = "idle"
    /\ UNCHANGED <<supVars, socket, connVars, daemon, finalVars, projVars,
                   countVars>>

\* stop: a second control connection carries the STOP frame; the supervisor
\* logs the request once.
stop ==
    /\ disp = "idle" /\ socket /\ sup = "running"
    /\ \A i \in DOMAIN log : log[i].kind /= "stop_requested"
    /\ Logs(Event("stop_requested", NoLabel))
    /\ UNCHANGED <<sup, terms, reply, socket, conn, daemon, index, dispVars,
                   finalVars, projVars, countVars>>

\* Seeded fault: a stopping session does not hold its project.
project_remove_while_stopping ==
    /\ disp = "idle" /\ ~removed /\ index /= Absent
    /\ index.state /= "running"
    /\ removed' = TRUE
    /\ UNCHANGED <<supVars, socket, connVars, daemon, index, dispVars,
                   finalVars, gaveup, countVars>>

\* Ops::remove: refused while the project has a live session.
project_remove ==
    /\ disp = "idle" /\ ~removed /\ index /= Absent
    /\ ~is_live(index.state)
    /\ removed' = TRUE
    /\ UNCHANGED <<supVars, socket, connVars, daemon, index, dispVars,
                   finalVars, gaveup, countVars>>

\* finalise_lost: the log's own end, or supervisor_lost.
Finalised == LET record == from_log(log)
             IN  IF is_terminal(record.state) THEN record
                 ELSE Failed(record, "supervisor_lost")

\* Seeded fault: a log that has no end yet is shown as it stands.
scan_without_probe ==
    /\ disp = "scan"
    /\ held' = from_log(log) /\ index' = held' /\ disp' = "idle"
    /\ UNCHANGED <<supVars, socket, connVars, daemon, finalVars, projVars,
                   countVars>>

\* scan: the record its log describes; a terminal one is done.
scan ==
    /\ disp = "scan"
    /\ held' = from_log(log)
    /\ IF is_terminal(held'.state)
       THEN index' = held' /\ disp' = "idle"
       ELSE index' = index /\ disp' = "scan_status"
    /\ UNCHANGED <<supVars, socket, connVars, daemon, finalVars, projVars,
                   countVars>>

\* Seeded fault: a session whose log holds no start is finalised unasked.
scan_status_unasked ==
    /\ disp = "scan_status"
    /\ index' = Finalised /\ disp' = "idle"
    /\ socket' = FALSE /\ held' = held
    /\ gaveup' = (gaveup \/ sup \in {"starting", "bound"})
    /\ UNCHANGED <<supVars, connVars, daemon, finalVars, removed, countVars>>

\* scan, a record without an end: a socket that answers status is adopted as
\* running, one that does not is unlinked and the session finalised.  A
\* supervisor that is still starting listens, but may not answer in time.
scan_status ==
    /\ disp = "scan_status"
    /\ \/ /\ StatusAnswers
          /\ held' = [held EXCEPT !.state = "running", !.clients = terms]
          /\ index' = held' /\ disp' = "watch"
          /\ UNCHANGED <<socket, gaveup>>
       \/ /\ ~StatusAnswers
          /\ index' = Finalised /\ disp' = "idle"
          /\ socket' = FALSE /\ held' = held
          /\ gaveup' = (gaveup \/ sup \in {"starting", "bound"})
    /\ UNCHANGED <<supVars, connVars, daemon, finalVars, removed, countVars>>

-----------------------------------------------------------------------------
(* The control reader and the finalise thread that joins it.                *)

\* One frame: an event is folded into the record, CLOSED ends the reader.
read_frame ==
    /\ final = "reading" /\ wire /= <<>>
    /\ wire' = Tail(wire)
    /\ IF Head(wire).kind = "closed"
       THEN final' = "check" /\ index' = index
       ELSE final' = final /\ index' = apply_event(index, Head(wire))
    /\ UNCHANGED <<supVars, socket, conn, daemon, dispVars, loaded, projVars,
                   countVars>>

\* End of file or a reset.
read_eof ==
    /\ final = "reading" /\ wire = <<>> /\ conn = "over"
    /\ final' = "check"
    /\ UNCHANGED <<supVars, socket, connVars, daemon, index, dispVars, loaded,
                   projVars, countVars>>

final_check ==
    /\ final = "check"
    /\ final' = IF is_terminal(index.state) THEN "done" ELSE "probe"
    /\ UNCHANGED <<supVars, socket, connVars, daemon, index, dispVars, loaded,
                   projVars, countVars>>

\* Seeded fault: an ended reader is taken for an ended session.
final_probe_skipped ==
    /\ final = "probe"
    /\ final' = "done"
    /\ UNCHANGED <<supVars, socket, connVars, daemon, index, dispVars, loaded,
                   projVars, countVars>>

\* Seeded fault: whatever ended the reader, the supervisor is lost.
final_probe_never ==
    /\ final = "probe"
    /\ final' = "load"
    /\ UNCHANGED <<supVars, socket, connVars, daemon, index, dispVars, loaded,
                   projVars, countVars>>

\* One more connection and status: a supervisor that answers is left alone.
final_probe ==
    /\ final = "probe"
    /\ final' = IF StatusAnswers THEN "done" ELSE "load"
    /\ UNCHANGED <<supVars, socket, connVars, daemon, index, dispVars, loaded,
                   projVars, countVars>>

\* finalise_lost reads the log, then publishes what it made of it.
final_load ==
    /\ final = "load"
    /\ loaded' = Finalised /\ final' = "emit"
    /\ UNCHANGED <<supVars, socket, connVars, daemon, index, dispVars,
                   projVars, countVars>>

final_emit ==
    /\ final = "emit"
    /\ index' = loaded /\ final' = "done"
    /\ UNCHANGED <<supVars, socket, connVars, daemon, dispVars, loaded,
                   projVars, countVars>>

-----------------------------------------------------------------------------
(* The daemon process.                                                      *)

\* The daemon is killed: memory, threads and connections go with it.
crash ==
    /\ daemon = "up" /\ crashes < MaxCrashes
    /\ crashes' = crashes + 1
    /\ daemon' = "down" /\ disp' = "down"
    /\ index' = Absent /\ held' = Absent /\ loaded' = Absent
    /\ final' = "none" /\ conn' = "none" /\ wire' = <<>>
    /\ UNCHANGED <<supVars, socket, projVars, renames, attaches>>

\* It starts again: a session directory there is on disk is scanned, unless
\* its specification is one that cannot be read.
restart ==
    /\ daemon = "down"
    /\ daemon' = "up"
    /\ \/ disp' = IF sup = "none" THEN "idle" ELSE "scan"
       \/ reply = "spec_invalid" /\ Unlogged /\ disp' = "idle"
    /\ UNCHANGED <<supVars, socket, connVars, index, held, finalVars, projVars,
                   countVars>>

Supervisor == \/ sup_refuses \/ sup_binds \/ sup_starts \/ sup_fails
              \/ sup_start_lost \/ sup_terminal \/ sup_hello \/ sup_registers
              \/ sup_ending \/ sup_logs_exit \/ sup_closes \/ sup_exits \/ sup_dies

Dispatcher == \/ create \/ create_ready \/ watch
              \/ rename \/ rename_append \/ rename_upsert
              \/ stop \/ project_remove \/ scan \/ scan_status

Finaliser == \/ read_frame \/ read_eof \/ final_check \/ final_probe
             \/ final_load \/ final_emit

\* The session is over and everybody has said so.
Rest == sup \in Down /\ disp = "idle" /\ UNCHANGED vars

Next == Supervisor \/ Dispatcher \/ Finaliser \/ crash \/ restart \/ Rest

Spec == Init /\ [][Next]_vars

\* A started operation is finished, a reader that has something to read reads
\* it, and an ending supervisor ends.  A harness may run for ever.
FairSpec ==
    /\ Spec
    /\ WF_vars(create_ready \/ watch \/ rename_append \/ rename_upsert
               \/ scan \/ scan_status)
    /\ WF_vars(Finaliser)
    /\ WF_vars(sup_refuses \/ sup_binds \/ sup_starts \/ sup_fails
               \/ sup_start_lost)
    /\ WF_vars(sup_hello \/ sup_registers)
    /\ WF_vars(sup_logs_exit \/ sup_closes \/ sup_exits)

-----------------------------------------------------------------------------
(* Properties.                                                              *)

\* An end the index shows is one the log holds, unless the daemon itself
\* passed the verdict: create, the live fold, the finalise thread and the
\* scan never disagree with the disk about how a session ended.  Two ends may
\* be shown that are not written down, both of a start that left no end in its
\* log and no supervisor behind: the specification could not be read (there is
\* no line at all then), or the supervisor ended before it could write or say
\* what failed.
ShownEndIsLogged ==
    is_terminal(index.state) /\ index.code \notin DaemonVerdicts =>
        \/ /\ from_log(log).state = index.state
           /\ from_log(log).code = index.code
        \/ /\ index.code \in {"spec_invalid", "supervisor_spawn_failed"}
           /\ sup \in Down /\ ~is_terminal(from_log(log).state)
           /\ index.code = "spec_invalid" => Unlogged

\* The guard of project.remove reads the index, and the agent runs behind the
\* supervisor: as long as the daemon waits for a start, the index follows it
\* and no project is removed under a working agent, across daemon crashes and
\* re-adoption.
RemoveNeverUnderAgent == removed /\ ~gaveup => sup /= "running"

\* The finalise thread and the scan pass the verdict `supervisor_lost` only
\* over a supervisor whose harness has ended, however the connection they
\* judge by was lost, refused or raced by the exit.
LostMeansOver ==
    index.code = "supervisor_lost" /\ ~gaveup
        => sup \notin {"starting", "bound", "running"}

\* The scan and the supervisor both unlink the socket path: none of them
\* takes it from a supervisor that still runs, so it can be attached,
\* stopped and adopted again.
RunningIsReachable == sup = "running" /\ ~gaveup => socket

\* rename's order, disk first: a label the index shows is one the log was
\* given, whatever crashes between the two steps.
LabelWasLogged ==
    index.label /= NoLabel => Event("renamed", index.label) \in ToSet(log)

\* A watched session whose supervisor ended, cleanly or not, ends in the index.
WatchedSessionEnds ==
    (final = "reading" /\ sup \in Down)
        ~> (is_terminal(index.state) \/ daemon = "down")

\* A daemon that starts over an ended supervisor shows the session ended.
ScanFinalises ==
    (disp = "scan" /\ sup \in Down)
        ~> (is_terminal(index.state) \/ daemon = "down")

-----------------------------------------------------------------------------
(* What the documentation says and the code does not do.                    *)

\* "fail it closed with `supervisor_lost` so it never lingers `Running`": with
\* every thread at rest, an ended supervisor's session is shown ended.
NeverLingersRunning ==
    (/\ daemon = "up" /\ disp = "idle" /\ final \in {"none", "done"}
     /\ sup \in Down) => is_terminal(index.state)

\* SessionState::is_terminal: "Nothing more will happen to this session."
TerminalIsFinal ==
    [][is_terminal(index.state) /\ daemon' = "up"
         => is_terminal(index'.state)]_vars

\* "deleting the cwd under a working agent is never an option".
NoAgentInRemovedProject == removed => sup /= "running"
=============================================================================
