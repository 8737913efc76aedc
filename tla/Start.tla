-------------------------------- MODULE Start --------------------------------
(***************************************************************************)
(* How a session is started (willie-sess: main.rs, detach.rs, pty.rs,      *)
(* sandbox/): the launcher that waits on a pipe, the supervisor that is    *)
(* detached from it, the namespace helper (bwrap, external), the stage     *)
(* that runs inside the namespace and becomes the harness, and the kernel  *)
(* that judges the harness's calls.  Any of them may die at any step, and  *)
(* the supervisor's wait for the stage's report may run out at any time.   *)
(* What the supervisor does once it serves is the module Supervisor.       *)
(***************************************************************************)
EXTENDS SandboxPolicy, SyscallFilter

CONSTANTS
    Profiles,       \* the sandbox profiles a project may have
    Machines,       \* the machines a session may be started on
    Kinds,          \* the kind and the harness a specification may name
    Calls,          \* the system calls a harness may make
    LinkPath,       \* an extra path that is a symbolic link
    LinkTargets,    \* where it may point; other sessions may re-point it
    FilePaths,      \* the extra paths that are files
    BinaryIsLink,   \* whether the harness binary is a symbolic link
    MaxFaults,      \* bound: failed calls, deaths and timeouts
    MaxMoves        \* bound: times the link is re-pointed

ASSUME StartAssumption == /\ {MaxFaults, MaxMoves} \subseteq Nat
                          /\ BinaryIsLink \in BOOLEAN
                          /\ Calls \subseteq SystemCalls

VARIABLES
    machine,    \* what the kernel and the disk offer
    spec,       \* spec.json
    sup,        \* the supervisor's next step
    refusal,    \* the code of the refusal under way
    log,        \* events.jsonl
    pipe,       \* what the supervisor wrote to the launcher
    launcher,   \* what the launcher reported
    prepared,   \* the plan's mounts, extra paths resolved
    helper, stage, harness,
    inForce,    \* the mechanisms that bind the stage and the harness
    request,    \* whether the request is in the report socket
    report,     \* what the stage wrote to it
    got,        \* the report as the supervisor took it
    held,       \* where the filter's listener is open
    table,      \* the namespace's mounts, in order
    link,       \* where LinkPath points
    call,       \* the harness's last intercepted call
    faults, moves

supVars == <<sup, refusal, log, pipe, prepared, got>>
nsVars == <<helper, stage, harness, inForce, request, report, table>>
startVars == <<machine, spec, launcher, supVars, nsVars, held, link, call, faults, moves>>

-----------------------------------------------------------------------------
REQUIRED == {"namespaces", "mounts", "rlimits", "seccomp"}
required_missing(mechanisms) == ~(REQUIRED \subseteq mechanisms)

None == [result |-> "none"]
NoReport == [result |-> "none", whole |-> FALSE]
Ok == [result |-> "ok"]
Fail(code) == [result |-> "fail", code |-> code]
Event(kind) == [kind |-> kind]
Failed(code) == [kind |-> "failed", code |-> code]

Applied(mechanisms, unavailable, fds) ==
    [result |-> "applied", whole |-> TRUE, mechanisms |-> mechanisms,
     unavailable |-> unavailable, fds |-> fds]
RefusedBy(code) == [result |-> "refused", whole |-> TRUE, code |-> code, fds |-> 0]
Unreadable == [result |-> "unreadable", whole |-> TRUE, fds |-> 0]

\* What a stage that is not this build's may say.
BrokenReports == {Applied(REQUIRED, {}, 0), Applied(REQUIRED, {}, 2),
                  Applied(REQUIRED \ {"rlimits"}, {}, 1), Unreadable}

Faulty == faults < MaxFaults /\ faults' = faults + 1
Sound == UNCHANGED faults
SocketOpen == sup # "gone"      \* the supervisor's end of the report socket

HasLink == LinkPath \in {x.path : x \in Range(spec.caps.extra_paths)}

StartInit ==
    /\ machine \in Machines
    /\ \E k \in Kinds, p \in Profiles :
          /\ resolve(default_capabilities, p).ok
          /\ spec = [kind |-> k[1], harness |-> k[2],
                     caps |-> resolve(default_capabilities, p)]
    /\ link \in IF HasLink THEN LinkTargets ELSE {Home}
    /\ sup = "detach" /\ refusal = "" /\ log = <<>> /\ pipe = None
    /\ launcher = None
    /\ prepared = <<>> /\ got = None
    /\ helper = "none" /\ stage = "none" /\ harness = "none"
    /\ inForce = {} /\ request = FALSE /\ report = NoReport /\ table = <<>>
    /\ held = {} /\ call = None
    /\ faults = 0 /\ moves = 0

-----------------------------------------------------------------------------
(* Preparing: the plan, and the checks the helper would answer with a bare  *)
(* exit.  The first check that fails gives the code.                        *)
Resolved(p) == IF p = LinkPath THEN link ELSE normalize_lexical(p)
Dangling(p) == Resolved(p) = <<>>

\* Seeded fault: the path is bound as it is written.
rebind_source_skipped(ops, dest, resolved) == ops
rebind_source(ops, dest, resolved) ==
    LET last == CHOOSE i \in DOMAIN ops :
                    /\ ops[i].op = "bind" /\ ops[i].dest = dest
                    /\ \A j \in DOMAIN ops : ops[j].dest = dest => j <= i
    IN  [ops EXCEPT ![last].src = resolved]
\* Every extra path's bind pointed at what it resolved to.
Rebound(ops, extras) ==
    FoldLeft(LAMBDA o, x : rebind_source(o, x.path, Resolved(x.path)), ops, extras)

\* The sources the plan binds that are not there, the caches just made.
missing_sources(ops, made) ==
    {o.src : o \in {o \in Range(ops) : o.op = "bind" /\ ~o.optional}}
        \cap (machine.missing \cup (machine.uncached \ made))

extra_refused(x) == \/ Dangling(x.path)
                    \/ /\ Resolved(x.path) # x.path
                       /\ guard_extra_path(Resolved(x.path))

\* A shell borrows the agent harness's plan, under its own name only.
KnownHarness == spec.harness = (IF spec.kind = "shell" THEN "shell" ELSE "claude-code")

prepare(caps) ==
    IF ~KnownHarness THEN "spec_invalid"
    ELSE IF ~machine.helper THEN "sandbox_backend_missing"
    ELSE IF {Binary, Workspace} \cap machine.missing # {} THEN "harness_exec_failed"
    ELSE IF \E x \in Range(caps.extra_paths) : extra_refused(x)
      THEN "sandbox_profile_invalid"
    ELSE IF missing_sources(plan(caps), ensure_dirs(caps)) # {}
      THEN "sandbox_apply_failed"
    ELSE ""
-----------------------------------------------------------------------------
(* The supervisor.  Until the event log is open a refusal is only told to   *)
(* the launcher; after that it is logged, then the child is killed if there *)
(* is one, then the launcher is told.                                       *)
supRest == <<machine, spec, launcher, link, moves>>

\* A step before the event log is open, and its refusal.
Early(step, next, code) ==
    /\ sup = step
    /\ \/ sup' = next /\ Sound /\ UNCHANGED refusal
       \/ sup' = "tell" /\ refusal' = code /\ Faulty
    /\ UNCHANGED <<supRest, log, pipe, prepared, got, nsVars, held, call>>

detach == Early("detach", "load", "supervisor_spawn_failed")
load == Early("load", "log", "spec_invalid")
open_log == Early("log", "redirect", "supervisor_spawn_failed")
redirect_std == Early("redirect", "events", "supervisor_spawn_failed")

open_events ==
    /\ sup = "events"
    /\ \/ /\ log' = Append(log, Event("created"))
          /\ sup' = "bind" /\ Sound /\ UNCHANGED refusal
       \/ sup' = "tell" /\ refusal' = "supervisor_spawn_failed" /\ Faulty /\ UNCHANGED log
    /\ UNCHANGED <<supRest, pipe, prepared, got, nsVars, held, call>>

\* events.append(Failed); the next step is the kill, or the answer.
Refuse(code, next) ==
    /\ refusal' = code
    /\ log' = Append(log, Failed(code))
    /\ sup' = next

\* A step of the supervisor after it, and its refusal.
Late(step, next) ==
    /\ sup = step
    /\ \/ sup' = next /\ Sound /\ UNCHANGED <<refusal, log>>
       \/ Refuse("supervisor_spawn_failed", "tell") /\ Faulty
    /\ UNCHANGED <<supRest, pipe, prepared, got, nsVars, held, call>>

bind_socket == Late("bind", "prepare")
report_socket == Late("socket", "pty")
open_pty == Late("pty", "spawn")

do_prepare ==
    /\ sup = "prepare"
    /\ LET code == prepare(spec.caps) IN
       \/ /\ code = ""
          /\ prepared' = Rebound(plan(spec.caps), spec.caps.extra_paths)
          /\ sup' = "socket"
          /\ Sound /\ UNCHANGED <<refusal, log>>
       \/ code # "" /\ Refuse(code, "tell") /\ Sound /\ UNCHANGED prepared
       \/ /\ code = "" /\ ensure_dirs(spec.caps) # {}    \* a cache is not made
          /\ Refuse("sandbox_apply_failed", "tell") /\ Faulty /\ UNCHANGED prepared
    /\ UNCHANGED <<supRest, pipe, got, nsVars, held, call>>

spawn_failure == [workspace |-> "harness_exec_failed", exec |-> "sandbox_apply_failed",
                  setup |-> "supervisor_spawn_failed"]
spawn ==
    /\ sup = "spawn"
    /\ \/ /\ helper' = "building" /\ sup' = "request"
          /\ Sound /\ UNCHANGED <<refusal, log>>
       \/ /\ \E step \in DOMAIN spawn_failure : Refuse(spawn_failure[step], "tell")
          /\ Faulty /\ UNCHANGED helper
    /\ UNCHANGED <<supRest, pipe, prepared, got, stage, harness, inForce, request,
                   report, table, held, call>>

\* The request is written and the shutdown signals are blocked.
write_request ==
    /\ sup = "request"
    /\ request' = (helper # "gone")
    /\ sup' = "report"
    /\ UNCHANGED <<supRest, refusal, log, pipe, prepared, got, helper, stage, harness,
                   inForce, report, table, held, call, faults>>

\* The control message holds two descriptors before the kernel cuts it.
recvmsg_with_fd == [fds |-> IF report.fds > 2 THEN 2 ELSE report.fds,
                    truncated |-> report.fds > 2]
\* At most one descriptor, and a line that parses.
TooMany == recvmsg_with_fd.fds > 1 \/ recvmsg_with_fd.truncated
read_whole ==
    /\ sup = "report" /\ report.whole
    /\ \/ /\ TooMany \/ report.result = "unreadable"
          /\ Refuse("sandbox_apply_failed", "kill")
          /\ UNCHANGED got
       \/ /\ report.result = "refused"
          /\ Refuse(report.code, "kill")
          /\ UNCHANGED got
       \/ /\ report.result = "applied" /\ ~TooMany
          /\ got' = report /\ sup' = "check"
          /\ UNCHANGED <<refusal, log>>
    /\ held' = (held \ {"wire"}) \cup (IF got' # got /\ "wire" \in held
                                        THEN {"supervisor"} ELSE {})
    /\ UNCHANGED <<supRest, pipe, prepared, nsVars, call, faults>>

\* End of file with no whole line: the words of the helper are drained.
read_gone ==
    /\ sup = "report"
    /\ ~report.whole
    /\ stage = "gone" \/ helper = "gone"
    /\ sup' = "drain" /\ held' = held \ {"wire"}
    /\ UNCHANGED <<supRest, refusal, log, pipe, prepared, got, nsVars, call, faults>>
drain ==
    /\ sup = "drain" /\ helper = "gone"
    /\ Refuse("sandbox_apply_failed", "tell")
    /\ UNCHANGED <<supRest, pipe, prepared, got, nsVars, held, call, faults>>

read_timed_out ==
    /\ sup = "report"
    /\ ~report.whole
    /\ Faulty
    /\ Refuse("sandbox_apply_failed", "kill")
    /\ held' = held \ {"wire"}
    /\ UNCHANGED <<supRest, pipe, prepared, got, nsVars, call>>

\* Seeded fault: a report that lacks a required mechanism starts the session.
check_report_trusting ==
    /\ sup = "check"
    /\ IF "seccomp" \in got.mechanisms /\ "supervisor" \notin held
         THEN Refuse("sandbox_apply_failed", "kill")
         ELSE sup' = "record" /\ UNCHANGED <<refusal, log>>
    /\ UNCHANGED <<supRest, pipe, prepared, got, nsVars, held, call, faults>>
\* A report that names the filter and carries no listener, or that lacks a
\* required mechanism, refuses the session.
check_report ==
    /\ sup = "check"
    /\ IF "seccomp" \in got.mechanisms /\ "supervisor" \notin held
         THEN Refuse("sandbox_apply_failed", "kill")
         ELSE IF required_missing(got.mechanisms)
           THEN Refuse("sandbox_backend_missing", "kill")
           ELSE sup' = "record" /\ UNCHANGED <<refusal, log>>
    /\ UNCHANGED <<supRest, pipe, prepared, got, nsVars, held, call, faults>>
record_started ==
    /\ sup = "record"
    /\ log' = log \o <<Event("sandbox_applied"), Event("started")>>
    /\ sup' = "filter"
    /\ UNCHANGED <<supRest, refusal, pipe, prepared, got, nsVars, held, call, faults>>

\* Seeded fault: the listener stays open when the thread does not start.
serve_filter_leaks ==
    /\ sup = "filter"
    /\ \/ held' = (held \ {"supervisor"}) \cup {"thread"} /\ Sound /\ UNCHANGED log
       \/ /\ Faulty /\ UNCHANGED held
          /\ log' = Append(log, Event("sandbox_degraded"))
    /\ sup' = "server"
    /\ UNCHANGED <<supRest, refusal, pipe, prepared, got, nsVars, call>>
serve_filter ==
    /\ sup = "filter"
    /\ \/ held' = (held \ {"supervisor"}) \cup {"thread"} /\ Sound /\ UNCHANGED log
       \/ /\ held' = held \ {"supervisor"} /\ Faulty
          /\ log' = Append(log, Event("sandbox_degraded"))
    /\ sup' = "server"
    /\ UNCHANGED <<supRest, refusal, pipe, prepared, got, nsVars, call>>

\* The one refusal after the log is open that the log does not keep.
start_server ==
    /\ sup = "server"
    /\ \/ sup' = "waiter" /\ Sound /\ UNCHANGED refusal
       \/ sup' = "tell" /\ refusal' = "supervisor_spawn_failed" /\ Faulty
    /\ UNCHANGED <<supRest, log, pipe, prepared, got, nsVars, held, call>>

\* The signal waiter; a thread that does not start is only said on stderr.
spawn_waiter ==
    /\ sup = "waiter" /\ sup' = "ready"
    /\ UNCHANGED <<supRest, refusal, log, pipe, prepared, got, nsVars, held, call, faults>>

reply_ok ==
    /\ sup = "ready" /\ sup' = "serving" /\ pipe' = Ok
    /\ UNCHANGED <<supRest, refusal, log, prepared, got, nsVars, held, call, faults>>

\* kill(-child, SIGKILL): the helper, and with it the namespace.
AllGone == helper' = "gone" /\ stage' = "gone" /\ harness' = "gone"
kill_child ==
    /\ sup = "kill" /\ sup' = "tell"
    /\ AllGone
    /\ held' = held \ {"stage"}
    /\ UNCHANGED <<supRest, refusal, log, pipe, prepared, got, inForce, request, report,
                   table, call, faults>>

reply_fail ==
    /\ sup = "tell" /\ sup' = "exit"
    /\ pipe' = Fail(refusal)
    /\ UNCHANGED <<supRest, refusal, log, prepared, got, nsVars, held, call, faults>>

\* The process ends and its descriptors close.
Closes == sup' = "gone" /\ held' = held \ {"supervisor", "thread", "wire"}
exit ==
    /\ sup = "exit" /\ Closes
    /\ UNCHANGED <<supRest, refusal, log, pipe, prepared, got, nsVars, call, faults>>

sup_dies ==
    /\ sup \notin {"exit", "gone"} /\ Faulty /\ Closes
    /\ UNCHANGED <<supRest, refusal, log, pipe, prepared, got, nsVars, call>>

SupStep == \/ detach \/ load \/ open_log \/ redirect_std \/ open_events
           \/ bind_socket \/ do_prepare \/ report_socket \/ open_pty \/ spawn
           \/ write_request \/ read_whole \/ read_gone \/ drain \/ check_report
           \/ record_started \/ serve_filter \/ start_server \/ spawn_waiter
           \/ reply_ok \/ kill_child \/ reply_fail \/ exit

\* The launcher reads to the end of the pipe; no line means a dead supervisor.
handshake_wait ==
    /\ launcher = None
    /\ sup \in {"serving", "gone"}
    /\ launcher' = IF pipe = None THEN Fail("supervisor_spawn_failed") ELSE pipe
    /\ UNCHANGED <<machine, spec, supVars, nsVars, held, link, call, faults, moves>>

-----------------------------------------------------------------------------
(* The helper (external).                                                   *)
Mounted(ops) ==
    Each(argv(ops), LAMBDA o : [o EXCEPT !.src = Resolved(o.src),
                                         !.dest = normalize_lexical(o.dest)])
\* The last mount that covers a path, zero when none does.
Cover(mounts, p) ==
    LET over == {i \in DOMAIN mounts : Under(p, mounts[i].dest)}
    IN  IF over = {} THEN 0 ELSE CHOOSE i \in over : \A j \in over : j <= i

\* It will not mount over a symbolic link an earlier bind put there.
Mountable(mounts) ==
    \A i \in DOMAIN mounts :
        mounts[i].op = "bind" /\ mounts[i].dest = Binary /\ BinaryIsLink
        => LET below == Cover(SubSeq(mounts, 1, i - 1), Binary)
           IN  below = 0 \/ mounts[below].op # "bind"

nsRest == <<machine, spec, launcher, supVars, link, call, moves>>

helper_builds ==
    /\ helper = "building"
    /\ IF Mountable(Mounted(prepared))
         THEN /\ table' = Mounted(prepared)
              /\ helper' = "monitor" /\ stage' = "request"
              /\ inForce' = IF machine.namespaced THEN {"namespaces", "mounts"} ELSE {}
         ELSE helper' = "gone" /\ UNCHANGED <<table, stage, inForce>>
    /\ UNCHANGED <<nsRest, harness, request, report, held, faults>>

helper_refuses ==
    /\ helper = "building" /\ Faulty
    /\ helper' = "gone"
    /\ UNCHANGED <<nsRest, stage, harness, inForce, request, report, table, held>>

\* The monitor ends with the process behind it.
helper_ends ==
    /\ helper = "monitor" /\ stage = "gone" /\ harness # "running"
    /\ helper' = "gone"
    /\ UNCHANGED <<nsRest, stage, harness, inForce, request, report, table, held, faults>>

\* --die-with-parent: the kernel kills the helper of a dead supervisor.
helper_orphaned ==
    /\ "--die-with-parent" \in helper_flags
    /\ sup = "gone" /\ helper \in {"building", "monitor"}
    /\ AllGone
    /\ held' = held \ {"stage"}
    /\ UNCHANGED <<nsRest, inForce, request, report, table, faults>>

-----------------------------------------------------------------------------
(* The stage inside the namespace.                                          *)
stageRest == <<nsRest, helper, request, table>>

stage_refuse(code) ==
    /\ report' = IF SocketOpen THEN RefusedBy(code) ELSE report
    /\ stage' = "gone" /\ held' = held \ {"stage"}
    /\ UNCHANGED <<stageRest, harness, inForce>>

stage_goes(next, mechanisms) ==
    /\ stage' = next /\ inForce' = inForce \cup mechanisms
    /\ UNCHANGED <<stageRest, harness, report>>

\* The request is read to its newline; end of file is a refusal.
read_request ==
    /\ stage = "request" /\ machine.ours
    /\ \/ request /\ stage_goes("namespace", {}) /\ UNCHANGED held
       \/ ~request /\ ~SocketOpen /\ stage_refuse("sandbox_apply_failed")
    /\ Sound

check_namespace ==
    /\ stage = "namespace"
    /\ \/ machine.namespaced /\ stage_goes("rlimits", {}) /\ UNCHANGED held
       \/ ~machine.namespaced /\ stage_refuse("sandbox_apply_failed")
    /\ Sound

apply_rlimits ==
    /\ stage = "rlimits"
    /\ \/ stage_goes("landlock", {"rlimits"}) /\ Sound /\ UNCHANGED held
       \/ stage_refuse("sandbox_apply_failed") /\ Faulty

\* The kernel refuses a rule that grants a file what only a directory has.
Accepted(handled) ==
    \A p \in rules(prepared) :
        LET is_dir == p \notin FilePaths
            rights == rule_rights(handled, handled, is_dir)
        IN  is_dir \/ rights \subseteq FileRights
landlock_apply ==
    /\ stage = "landlock"
    /\ LET handled == applicability(machine.abi) IN
       \/ handled = {} /\ stage_goes("seccomp", {}) /\ Sound /\ UNCHANGED held
       \/ /\ handled # {} /\ Accepted(handled)
          /\ stage_goes("seccomp", {"landlock"}) /\ Sound /\ UNCHANGED held
       \/ /\ handled # {} /\ ~Accepted(handled)
          /\ stage_refuse("sandbox_apply_failed") /\ Sound
       \/ handled # {} /\ stage_refuse("sandbox_apply_failed") /\ Faulty

install_filter ==
    /\ stage = "seccomp"
    /\ \/ /\ machine.notify /\ stage_goes("report", {"seccomp"})
          /\ held' = held \cup {"stage"} /\ Sound
       \/ ~machine.notify /\ stage_refuse("sandbox_backend_missing") /\ Sound
       \/ machine.notify /\ stage_refuse("sandbox_apply_failed") /\ Faulty

\* sendmsg: the listener travels with the first bytes, which may not be all.
write_applied ==
    /\ stage = "report"
    /\ \/ /\ SocketOpen
          /\ \E whole \in BOOLEAN :
                report' = [Applied(inForce, {"landlock"} \ inForce, 1)
                              EXCEPT !.whole = whole]
          /\ stage' = "written"
          /\ held' = held \cup {"wire"}
       \/ ~SocketOpen /\ stage' = "gone" /\ held' = held \ {"stage"} /\ UNCHANGED report
    /\ Sound
    /\ UNCHANGED <<stageRest, harness, inForce>>

\* The rest of the line, then the stage's own copy of the listener is closed.
drop_listener ==
    /\ stage = "written"
    /\ \/ /\ report.whole \/ SocketOpen
          /\ report' = [report EXCEPT !.whole = TRUE] /\ stage' = "exec"
       \/ ~report.whole /\ ~SocketOpen /\ stage' = "gone" /\ UNCHANGED report
    /\ held' = held \ {"stage"}
    /\ Sound
    /\ UNCHANGED <<stageRest, harness, inForce>>

exec_harness ==
    /\ stage = "exec"
    /\ stage' = "gone"
    /\ \/ harness' = "running" /\ Sound
       \/ harness' = "gone" /\ Faulty            \* exit 127
    /\ UNCHANGED <<stageRest, inForce, report, held>>

\* A stage of another build: it reports what it likes and runs the harness.
other_stage ==
    /\ stage = "request" /\ ~machine.ours /\ request /\ SocketOpen
    /\ \E r \in BrokenReports : /\ report' = r
                                /\ held' = IF r.fds > 0 THEN {"wire"} ELSE {}
    /\ stage' = "exec"
    /\ Sound
    /\ UNCHANGED <<stageRest, harness, inForce>>

stage_dies ==
    /\ stage \notin {"none", "gone"} /\ Faulty
    /\ stage' = "gone" /\ held' = held \ {"stage"}
    /\ UNCHANGED <<stageRest, harness, inForce, report>>

StageStep == \/ read_request \/ check_namespace \/ apply_rlimits \/ landlock_apply
             \/ install_filter \/ write_applied \/ drop_listener \/ exec_harness
             \/ other_stage

-----------------------------------------------------------------------------
(* The harness's calls, and who answers the ones the filter hands over.     *)
callRest == <<machine, spec, launcher, sup, refusal, pipe, prepared, got, helper, stage,
              inForce, request, report, table, link, moves>>

harness_calls ==
    /\ harness = "running" /\ call = None /\ "seccomp" \in inForce
    /\ \E c \in Calls :
          LET v == verdict(program, c) IN
          /\ call' = [result |-> v, of |-> c]
          /\ harness' = IF v = "kill" THEN "gone" ELSE harness
    /\ UNCHANGED <<callRest, held, faults, log>>

\* The thread answers EPERM.  An answer the kernel does not take is only said
\* on stderr: the call was received, nobody answers it again and its caller
\* stays blocked.  With the listener closed the kernel says ENOSYS, to the
\* call that waits for the thread and to the blocked one.
answer_one ==
    /\ \/ /\ call.result = "notify" /\ "thread" \in held
          /\ \E r \in {"EPERM", "blocked"} : call' = [call EXCEPT !.result = r]
       \/ /\ call.result \in {"notify", "blocked"} /\ held = {}
          /\ call' = [call EXCEPT !.result = "ENOSYS"]
    /\ UNCHANGED <<callRest, harness, held, faults, log>>

\* The thread's loop ends when no process is left under the filter, or by a
\* poll or a receive that fails, which the log keeps; it drops the listener.
serve_notifications_ends ==
    /\ "thread" \in held /\ held' = held \ {"thread"}
    /\ \/ stage = "gone" /\ harness = "gone" /\ Sound /\ UNCHANGED log
       \/ Faulty /\ log' = Append(log, Event("sandbox_degraded"))
    /\ UNCHANGED <<callRest, harness, call>>

harness_exits ==
    /\ harness = "running" /\ call # None /\ call.result \notin {"notify", "blocked"}
    /\ harness' = "gone"
    /\ UNCHANGED <<callRest, call, held, faults, log>>

\* Another session of the project re-points the link (external).
relink ==
    /\ moves < MaxMoves /\ moves' = moves + 1
    /\ HasLink
    /\ link' \in LinkTargets \ {link}
    /\ UNCHANGED <<machine, spec, launcher, supVars, nsVars, held, call, faults>>

-----------------------------------------------------------------------------
Started == \/ SupStep \/ read_timed_out \/ sup_dies \/ handshake_wait
HelperStep == helper_builds \/ helper_ends
StartNext == \/ Started \/ HelperStep \/ helper_refuses \/ helper_orphaned
             \/ StageStep \/ stage_dies
             \/ harness_calls \/ answer_one \/ serve_notifications_ends
             \/ harness_exits \/ relink

\* The processes keep running, and the kernel kills the orphaned helper.
StartFairness == /\ WF_startVars(SupStep) /\ WF_startVars(handshake_wait)
                 /\ WF_startVars(HelperStep) /\ WF_startVars(helper_orphaned)
                 /\ WF_startVars(StageStep) /\ WF_startVars(answer_one)
StartSpec == StartInit /\ [][StartNext]_startVars /\ StartFairness

-----------------------------------------------------------------------------
(* Properties.                                                              *)

\* What events.jsonl tells.
Logged == {log[i].kind : i \in DOMAIN log}

\* A launcher told `ok` has a session that is confined as its log says: the
\* log holds sandbox_applied and started and no failure, every required
\* mechanism was reported, and with this build's stage what was reported is
\* what binds the harness.  And that stage never runs a harness, not even one
\* whose report came too late, before every required mechanism binds it
\* (main.rs, the checks after the report; inner.rs, run_inner).
ReadyMeansConfined ==
    /\ harness = "running" /\ machine.ours => REQUIRED \subseteq inForce
    /\ launcher = Ok =>
        /\ REQUIRED \subseteq got.mechanisms
        /\ machine.ours => /\ got.mechanisms = inForce
                           /\ got.unavailable = {"landlock"} \ inForce
        /\ {"created", "sandbox_applied", "started"} \subseteq Logged
        /\ "failed" \notin Logged

\* The kernel's verdict on a call, after jumps are resolved to offsets, is the
\* one the filter's comments state (seccomp.rs, program).
VerdictAsIntended ==
    call # None /\ call.result \in {"allow", "notify", "kill"} =>
        call.result = Intended(call.of)

\* Extra paths never bring a guarded location into the session, nor change
\* what is mounted at one, whatever the link is re-pointed to between the
\* check and the mount (sandbox/mod.rs, prepare and rebind_source).  The
\* mounts are final once the stage runs.
ExtraPathsStayOut ==
    LET extras == {normalize_lexical(x.path) : x \in Range(spec.caps.extra_paths)} IN
    stage = "request" =>
    /\ \A i \in DOMAIN table : table[i].dest \in extras => ~guard_extra_path(table[i].src)
    /\ \A g \in guarded_locations :
          LET i == Cover(table, g) IN i = 0 \/ table[i].dest \notin extras

\* Whatever the policy, the session finds at their own paths the harness, the
\* supervisor's binary and the project (linux/sandbox/mod.rs, plan).
HarnessIsReachable ==
    stage = "request" =>
        \A p \in {Binary, InnerExe, Workspace} :
            LET m == table[Cover(table, p)]
            IN  m.op = "bind" /\ m.src = m.dest

\* The namespace is the one that was planned.
NamespaceAsPlanned == ExtraPathsStayOut /\ HarnessIsReachable

\* A launch is refused only for a cause: on a machine that lacks nothing,
\* with a specification that asks for nothing refused, something failed.
NothingMissing ==
    /\ machine.ours /\ machine.namespaced /\ machine.notify /\ machine.helper
    /\ machine.missing = {}
    /\ KnownHarness
    /\ HasLink => moves = 0 /\ link # <<>> /\ ~guard_extra_path(link)
RefusedForACause ==
    launcher.result = "fail" /\ NothingMissing => faults > 0

\* A launcher told that the start failed leaves no harness and no stage
\* behind for good, whichever step failed (main.rs; bwrap's die-with-parent).
FailureLeavesNothing ==
    launcher.result = "fail" ~> [](harness # "running" /\ stage \in {"none", "gone"})

\* A call the filter hands over never waits for ever for somebody to take it,
\* not even between the report and the thread, or behind a thread that did not
\* start or ended (main.rs, serve_filter): it is answered, EPERM by the thread
\* or ENOSYS by the kernel, or the thread took it and could not answer, or its
\* caller is gone.  The caller that the thread left blocked gets its answer
\* once the thread or the supervisor has ended (seccomp.rs, answer_one:
\* "closed, not open").
DeniedCallIsAnswered ==
    /\ call.result = "notify" ~> (call.result # "notify" \/ harness = "gone")
    /\ call.result = "blocked" /\ "thread" \notin held
         ~> (call.result = "ENOSYS" \/ harness = "gone")

-----------------------------------------------------------------------------
(* What the documentation says and the code does not do.                    *)

\* `project.rw` is the session itself and cannot be taken away (core
\* sandbox.rs, resolve): the project is mounted read-write.
ProjectStaysWritable ==
    stage = "request" => table[Cover(table, Workspace)].rw
=============================================================================
