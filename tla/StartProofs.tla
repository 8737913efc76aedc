----------------------------- MODULE StartProofs -----------------------------
(***************************************************************************)
(* A session that was announced is confined, for any number of faults, any *)
(* machine, any profile and any harness; and the kernel's verdict on every *)
(* system call is the one the filter is meant to give.                     *)
(***************************************************************************)
EXTENDS Start, SequenceTheorems, WellFoundedInduction, TLAPS

-----------------------------------------------------------------------------
(* The types that matter here.                                              *)
Mechanisms == REQUIRED \cup {"landlock"}
Codes == {"supervisor_spawn_failed", "spec_invalid", "sandbox_backend_missing",
          "harness_exec_failed", "sandbox_profile_invalid", "sandbox_apply_failed"}
Events == {Event(k) : k \in {"created", "sandbox_applied", "started", "sandbox_degraded"}}
          \cup {Failed(c) : c \in Codes}
AppliedReports == [result: {"applied"}, whole: BOOLEAN, mechanisms: SUBSET Mechanisms,
                   unavailable: SUBSET Mechanisms, fds: Nat]
Reports == {NoReport, Unreadable} \cup {RefusedBy(c) : c \in Codes} \cup AppliedReports

TypeInv == /\ log \in Seq(Events)
           /\ refusal \in Codes \cup {""}
           /\ report \in Reports
           /\ got \in {None} \cup AppliedReports
           /\ inForce \in SUBSET Mechanisms

-----------------------------------------------------------------------------
(* Where the supervisor is, and what the log and the pipe then hold.        *)
Before == {"detach", "load", "log", "redirect", "events"}
Unspawned == Before \cup {"bind", "prepare", "socket", "pty", "spawn"}
Opened == {"bind", "prepare", "socket", "pty", "spawn", "request", "report", "drain",
           "check", "record"}
Recorded == {"filter", "server", "waiter", "ready", "serving"}

Announced == /\ {"created", "sandbox_applied", "started"} \subseteq Logged
             /\ "failed" \notin Logged
             /\ got \in AppliedReports /\ REQUIRED \subseteq got.mechanisms

SupInv == /\ sup \in Before => log = <<>>
          /\ sup \in Opened => Logged = {"created"}
          /\ sup \in {"check", "record"} => got \in AppliedReports
          /\ sup = "record" => REQUIRED \subseteq got.mechanisms
          /\ sup \in Recorded => Announced
          /\ sup \in {"tell", "exit", "kill"} => refusal \in Codes
          /\ pipe = Ok => Announced /\ sup \in {"serving", "gone"}
          /\ launcher = Ok => pipe = Ok

-----------------------------------------------------------------------------
(* What binds the stage, by where it is.                                    *)
Namespaced == {"namespaces", "mounts"}
StageInv == /\ sup \in Unspawned => helper = "none"
            /\ helper \in {"none", "building"} =>
                  stage = "none" /\ harness = "none" /\ report = NoReport
            /\ stage \in {"request", "namespace"} /\ machine.namespaced =>
                  Namespaced \subseteq inForce
            /\ stage \in {"namespace", "rlimits", "landlock", "seccomp", "report", "written"}
                  => machine.ours
            /\ stage = "rlimits" => Namespaced \subseteq inForce
            /\ stage \in {"landlock", "seccomp"} => Namespaced \cup {"rlimits"} \subseteq inForce
            /\ stage \in {"report", "written"} => REQUIRED \subseteq inForce
            /\ stage = "written" => report \in AppliedReports
            /\ stage = "exec" /\ machine.ours => REQUIRED \subseteq inForce
            /\ harness = "running" /\ machine.ours => REQUIRED \subseteq inForce

\* A report was made when nothing more would be put in force, and says what was.
Says(r) == r.mechanisms = inForce /\ r.unavailable = {"landlock"} \ inForce
ReportInv == /\ report \in AppliedReports /\ machine.ours =>
                   stage \in {"written", "exec", "gone"} /\ Says(report)
             /\ got \in AppliedReports =>
                   /\ report # NoReport
                   /\ machine.ours =>
                         stage \in {"written", "exec", "gone"} /\ Says(got)

Inv == TypeInv /\ SupInv /\ StageInv /\ ReportInv

-----------------------------------------------------------------------------
(* Lemmas about the values.                                                 *)

\* The kinds of report are told apart by their result.
LEMMA ReportKinds ==
    /\ \A r \in AppliedReports : r.result = "applied"
    /\ \A r \in Reports : r.result = "applied" => r \in AppliedReports
    /\ \A r \in Reports : r.result = "refused" => r.code \in Codes
    /\ None \notin AppliedReports /\ NoReport \notin AppliedReports
    /\ NoReport.whole = FALSE
<1>1. \A c \in Codes : RefusedBy(c).result = "refused" /\ RefusedBy(c).code = c
  BY DEF RefusedBy
<1>2. NoReport.result = "none" /\ Unreadable.result = "unreadable" /\ None.result = "none"
      /\ NoReport.whole = FALSE
  BY DEF NoReport, Unreadable, None
<1>3. \A r \in AppliedReports : r.result = "applied"
  BY DEF AppliedReports
<1> QED BY <1>1, <1>2, <1>3 DEF Reports

\* What is told to the launcher.
LEMMA Answers == None # Ok /\ \A c : Fail(c) # Ok
<1>1. None.result = "none" /\ Ok.result = "ok" /\ \A c : Fail(c).result = "fail"
  BY DEF None, Ok, Fail
<1> QED BY <1>1

\* An event is appended...
LEMMA OneMore ==
    ASSUME NEW e \in Events, log \in Seq(Events), log' = Append(log, e)
    PROVE  log' \in Seq(Events) /\ Logged' = Logged \cup {e.kind}
<1>1. log' \in Seq(Events) /\ Len(log') = Len(log) + 1
      /\ DOMAIN log = 1..Len(log) /\ DOMAIN log' = 1..(Len(log) + 1)
      /\ Len(log) \in Nat
  OBVIOUS
<1>2. /\ \A i \in 1..Len(log) : log'[i] = log[i]
      /\ log'[Len(log) + 1] = e
  OBVIOUS
<1> QED BY <1>1, <1>2 DEF Logged

\* ...of these kinds.
LEMMA EventKinds ==
    /\ \A k \in {"created", "sandbox_applied", "started", "sandbox_degraded"} :
          Event(k) \in Events /\ Event(k).kind = k
    /\ \A c \in Codes : Failed(c) \in Events /\ Failed(c).kind = "failed"
BY DEF Events, Event, Failed

-----------------------------------------------------------------------------
(* Steps of one side.                                                       *)

\* The supervisor goes on and the namespace stays as it is.
LEMMA NsSame ==
    ASSUME Inv, UNCHANGED <<machine, helper, stage, harness, inForce, report, got>>,
           sup \in Unspawned \/ sup' \notin Unspawned
    PROVE  /\ StageInv' /\ ReportInv'
           /\ report' \in Reports /\ got' \in {None} \cup AppliedReports
           /\ inForce' \in SUBSET Mechanisms
<1>1. StageInv'
  BY DEF Inv, StageInv
<1>2. ReportInv'
  BY DEF Inv, ReportInv, Says
<1> QED BY <1>1, <1>2 DEF Inv, TypeInv

\* The namespace goes on and the supervisor stays as it is.
LEMMA SupSame ==
    ASSUME Inv, UNCHANGED <<sup, refusal, log, pipe, got, launcher>>
    PROVE  /\ SupInv' /\ log' \in Seq(Events) /\ refusal' \in Codes \cup {""}
           /\ got' \in {None} \cup AppliedReports
<1>1. Logged' = Logged
  BY DEF Logged
<1>2. Announced' = Announced
  BY <1>1 DEF Announced
<1>3. SupInv'
  BY <1>1, <1>2 DEF Inv, SupInv
<1> QED BY <1>3 DEF Inv, TypeInv

\* A refusal is logged.
LEMMA Refused ==
    ASSUME Inv, NEW code \in Codes, NEW next \in {"tell", "kill"}, Refuse(code, next),
           sup \notin {"serving", "gone"}, UNCHANGED <<pipe, launcher, got>>
    PROVE  /\ SupInv' /\ log' \in Seq(Events) /\ refusal' \in Codes \cup {""}
           /\ sup' \notin Unspawned
<1>1. /\ log' = Append(log, Failed(code)) /\ sup' = next /\ refusal' = code
      /\ log \in Seq(Events)
  BY DEF Refuse, Inv, TypeInv
<1>2. log' \in Seq(Events)
  BY <1>1, EventKinds, OneMore
<1>3. pipe # Ok /\ launcher # Ok
  BY DEF Inv, SupInv
<1>4. SupInv'
  BY <1>1, <1>3 DEF SupInv, Before, Opened, Recorded
<1> QED BY <1>1, <1>2, <1>4 DEF Unspawned, Before

\* A refusal that is not, or an end of the supervisor.
LEMMA GivesUp ==
    ASSUME Inv, sup' \in {"tell", "exit", "gone", "kill"}, sup # "serving" \/ sup' = "gone",
           sup # "gone",
           sup' # "gone" => refusal' \in Codes,
           refusal' \in Codes \cup {""}, UNCHANGED <<log, got, launcher>>,
           pipe' = pipe \/ (pipe' # Ok /\ launcher # Ok)
    PROVE  SupInv' /\ log' \in Seq(Events) /\ sup' \notin Unspawned
<1>1. Logged' = Logged
  BY DEF Logged
<1>2. Announced' = Announced
  BY <1>1 DEF Announced
<1>3. SupInv'
  BY <1>1, <1>2 DEF Inv, SupInv, Before, Opened, Recorded
<1> QED BY <1>3 DEF Inv, TypeInv, Unspawned, Before

\* A step that logs nothing, from one of two phases into the same one.
LEMMA GoesOn ==
    ASSUME Inv, UNCHANGED <<refusal, log, pipe, launcher, got>>,
           \/ sup \in Before /\ sup' \in Before
           \/ sup \in Opened /\ sup' \in Opened \ {"check", "record"}
           \/ sup \in Recorded \ {"serving"} /\ sup' \in Recorded \ {"serving"}
    PROVE  SupInv' /\ log' \in Seq(Events) /\ refusal' \in Codes \cup {""}
<1>1. Logged' = Logged
  BY DEF Logged
<1>2. Announced' = Announced
  BY <1>1 DEF Announced
<1>3. pipe # Ok /\ launcher # Ok
  BY DEF Inv, SupInv, Before, Opened, Recorded
<1>4. SupInv'
  BY <1>1, <1>2, <1>3 DEF Inv, SupInv, Before, Opened, Recorded
<1> QED BY <1>4 DEF Inv, TypeInv


-----------------------------------------------------------------------------
(* The supervisor's steps.                                                  *)

\* The invariant, part by part.
LEMMA FromParts ==
    ASSUME SupInv', log' \in Seq(Events), refusal' \in Codes \cup {""},
           StageInv', ReportInv', report' \in Reports,
           got' \in {None} \cup AppliedReports, inForce' \in SUBSET Mechanisms
    PROVE  Inv'
BY DEF Inv, TypeInv

\* Before the log is open...
LEMMA EarlySteps ==
    ASSUME Inv, detach \/ load \/ open_log \/ redirect_std \/ open_events
    PROVE  Inv'
<1>1. UNCHANGED <<machine, helper, stage, harness, inForce, report, got, pipe, launcher>>
  BY DEF detach, load, open_log, redirect_std, open_events, Early, nsVars, supRest
<1>2. sup \in Before /\ log = <<>>
  BY DEF detach, load, open_log, redirect_std, open_events, Early, Before, Inv, SupInv
<1>3. /\ StageInv' /\ ReportInv' /\ report' \in Reports
      /\ got' \in {None} \cup AppliedReports /\ inForce' \in SUBSET Mechanisms
  BY <1>1, <1>2, NsSame DEF Unspawned
<1>4. CASE sup' = "tell"
  <2>1. refusal' \in Codes /\ log' = log
    BY <1>4 DEF detach, load, open_log, redirect_std, open_events, Early, Codes
  <2> QED BY <1>1, <1>2, <1>3, <1>4, <2>1, GivesUp, FromParts DEF Before
<1>5. CASE sup' # "tell" /\ log' = log
  <2>1. sup' \in Before /\ refusal' = refusal
    <3>1. ~open_events
      <4>1. ASSUME open_events PROVE FALSE
        <5>1. log' = Append(log, Event("created"))
          BY <1>5, <4>1 DEF open_events
        <5>2. Event("created") \in Events
          BY EventKinds
        <5>3. Len(log') = Len(log) + 1
          BY <1>2, <5>1, <5>2
        <5> QED BY <1>2, <1>5, <5>3
      <4> QED BY <4>1
    <3> QED BY <1>5, <3>1 DEF detach, load, open_log, redirect_std, Early, Before
  <2> QED BY <1>1, <1>2, <1>3, <2>1, <1>5, GoesOn, FromParts
<1>6. CASE sup' # "tell" /\ log' # log
  <2>1. sup' = "bind" /\ log' = Append(log, Event("created")) /\ refusal' = refusal
    BY <1>6 DEF detach, load, open_log, redirect_std, open_events, Early
  <2>2. log \in Seq(Events) /\ refusal \in Codes \cup {""} /\ pipe # Ok /\ launcher # Ok
    BY <1>2 DEF Inv, TypeInv, SupInv, Before
  <2>3. log' \in Seq(Events) /\ Logged' = Logged \cup {"created"}
    BY <2>1, <2>2, EventKinds, OneMore
  <2>4. Logged = {}
    BY <1>2 DEF Logged
  <2>5. SupInv'
    BY <1>1, <2>1, <2>2, <2>3, <2>4 DEF SupInv, Before, Opened, Recorded
  <2> QED BY <1>3, <2>1, <2>2, <2>3, <2>5, FromParts
<1> QED BY <1>4, <1>5, <1>6

\* ...up to the report...
LEMMA LateSteps ==
    ASSUME Inv, \/ bind_socket \/ do_prepare \/ report_socket \/ open_pty
                \/ read_gone \/ drain \/ read_timed_out
                \/ write_request
    PROVE  Inv'
<1>1. UNCHANGED <<machine, helper, stage, harness, inForce, report, got, pipe, launcher>>
  BY DEF bind_socket, do_prepare, report_socket, open_pty, Late, write_request, read_gone,
         drain, read_timed_out, nsVars, supRest
<1>2. sup \in Opened /\ sup \notin {"serving", "gone"}
  BY DEF bind_socket, do_prepare, report_socket, open_pty, Late, write_request, read_gone,
         drain, read_timed_out, Opened
<1>3. \/ \E code \in Codes, next \in {"tell", "kill"} : Refuse(code, next)
      \/ UNCHANGED <<refusal, log>> /\ sup' \in Opened \ {"check", "record"}
  <2>1. prepare(spec.caps) \in Codes \cup {""}
    BY DEF prepare, Codes
  <2>2. "supervisor_spawn_failed" \in Codes /\ "sandbox_apply_failed" \in Codes
    BY DEF Codes
  <2>3. CASE bind_socket \/ report_socket \/ open_pty
    BY <2>2, <2>3 DEF bind_socket, report_socket, open_pty, Late, Opened
  <2>4. CASE do_prepare
    BY <2>1, <2>2, <2>4 DEF do_prepare, Opened
  <2>5. CASE write_request \/ read_gone
    BY <2>5 DEF write_request, read_gone, Opened
  <2>6. CASE drain \/ read_timed_out
    BY <2>2, <2>6 DEF drain, read_timed_out
  <2> QED BY <2>3, <2>4, <2>5, <2>6
<1>4. sup \in Unspawned \/ sup' \notin Unspawned
  BY DEF bind_socket, do_prepare, report_socket, open_pty, Late, write_request, read_gone,
         drain, read_timed_out, Refuse, Unspawned, Before
<1>5. /\ StageInv' /\ ReportInv' /\ report' \in Reports
      /\ got' \in {None} \cup AppliedReports /\ inForce' \in SUBSET Mechanisms
  BY <1>1, <1>4, NsSame
<1>6. CASE \E code \in Codes, next \in {"tell", "kill"} : Refuse(code, next)
  BY <1>1, <1>2, <1>5, <1>6, Refused, FromParts
<1>7. CASE UNCHANGED <<refusal, log>> /\ sup' \in Opened \ {"check", "record"}
  BY <1>1, <1>2, <1>5, <1>7, GoesOn, FromParts
<1> QED BY <1>3, <1>6, <1>7

\* ...the spawn, after which there is a helper...
LEMMA SpawnStep ==
    ASSUME Inv, spawn
    PROVE  Inv'
<1>1. /\ UNCHANGED <<machine, stage, harness, inForce, report, got, pipe, launcher>>
      /\ sup = "spawn"
  BY DEF spawn, supRest
<1>2. CASE helper' = "building" /\ sup' = "request" /\ UNCHANGED <<refusal, log>>
  <2>1. SupInv' /\ log' \in Seq(Events) /\ refusal' \in Codes \cup {""}
    BY <1>1, <1>2, GoesOn DEF Opened
  <2>2. helper = "none"
    BY <1>1 DEF Inv, StageInv, Unspawned
  <2>3. StageInv'
    BY <1>1, <1>2, <2>2 DEF Inv, StageInv, Unspawned, Before
  <2>4. ReportInv'
    BY <1>1 DEF Inv, ReportInv, Says
  <2> QED BY <1>1, <2>1, <2>3, <2>4, FromParts DEF Inv, TypeInv
<1>3. CASE helper' = helper /\ \E step \in DOMAIN spawn_failure : Refuse(spawn_failure[step], "tell")
  <2>1. PICK step \in DOMAIN spawn_failure : Refuse(spawn_failure[step], "tell")
    BY <1>3
  <2>2. spawn_failure[step] \in Codes
    BY DEF spawn_failure, Codes
  <2>3. /\ SupInv' /\ log' \in Seq(Events) /\ refusal' \in Codes \cup {""}
        /\ sup' \notin Unspawned
    BY <1>1, <2>1, <2>2, Refused
  <2> QED BY <1>1, <1>3, <2>3, NsSame, FromParts
<1> QED BY <1>2, <1>3 DEF spawn

\* ...the report and its checks...
LEMMA ReportSteps ==
    ASSUME Inv, read_whole \/ check_report
    PROVE  Inv'
<1>1. UNCHANGED <<machine, helper, stage, harness, inForce, report, pipe, launcher>>
  BY DEF read_whole, check_report, supRest, nsVars
<1>2. CASE read_whole
  <2>1. sup = "report" /\ report.whole /\ report \in Reports
    BY <1>2 DEF read_whole, Inv, TypeInv
  <2>2. CASE report.result = "applied" /\ got' = report /\ sup' = "check"
             /\ UNCHANGED <<refusal, log>>
    <3>1. report \in AppliedReports /\ report # NoReport
      BY <2>1, <2>2, ReportKinds
    <3>2. Logged' = Logged /\ Logged = {"created"} /\ pipe # Ok /\ launcher # Ok
      BY <2>1, <2>2 DEF Logged, Inv, SupInv, Opened
    <3>3. SupInv'
      BY <1>1, <2>2, <3>1, <3>2 DEF SupInv, Before, Opened, Recorded
    <3>4. StageInv'
      BY <1>1, <2>1, <2>2 DEF Inv, StageInv, Unspawned, Before
    <3>5. ReportInv'
      BY <1>1, <2>2, <3>1 DEF Inv, ReportInv, Says
    <3> QED BY <1>1, <2>2, <3>1, <3>3, <3>4, <3>5, FromParts DEF Inv, TypeInv
  <2>3. CASE got' = got /\ \E code \in Codes : Refuse(code, "kill")
    <3>1. /\ SupInv' /\ log' \in Seq(Events) /\ refusal' \in Codes \cup {""}
          /\ sup' \notin Unspawned
      BY <1>1, <2>1, <2>3, Refused
    <3> QED BY <1>1, <2>3, <3>1, NsSame, FromParts
  <2>4. report.result = "refused" => report.code \in Codes
    BY <2>1, ReportKinds
  <2>5. "sandbox_apply_failed" \in Codes
    BY DEF Codes
  <2> QED BY <1>2, <2>2, <2>3, <2>4, <2>5 DEF read_whole
<1>3. CASE check_report
  <2>1. sup = "check" /\ got' = got /\ got \in AppliedReports
    BY <1>3 DEF check_report, Inv, SupInv
  <2>2. CASE \E code \in Codes : Refuse(code, "kill")
    <3>1. /\ SupInv' /\ log' \in Seq(Events) /\ refusal' \in Codes \cup {""}
          /\ sup' \notin Unspawned
      BY <1>1, <2>1, <2>2, Refused
    <3> QED BY <1>1, <2>1, <3>1, NsSame, FromParts
  <2>3. CASE REQUIRED \subseteq got.mechanisms /\ sup' = "record" /\ UNCHANGED <<refusal, log>>
    <3>1. Logged' = Logged /\ Logged = {"created"} /\ pipe # Ok /\ launcher # Ok
      BY <2>1, <2>3 DEF Logged, Inv, SupInv, Opened
    <3>2. SupInv'
      BY <1>1, <2>1, <2>3, <3>1 DEF SupInv, Before, Opened, Recorded
    <3>3. sup' \notin Unspawned
      BY <2>3 DEF Unspawned, Before
    <3> QED BY <1>1, <2>1, <2>3, <3>2, <3>3, NsSame, FromParts DEF Inv, TypeInv
  <2>4. "sandbox_apply_failed" \in Codes /\ "sandbox_backend_missing" \in Codes
    BY DEF Codes
  <2> QED BY <1>3, <2>2, <2>3, <2>4 DEF check_report, required_missing
<1> QED BY <1>2, <1>3

\* ...the session is recorded, served and announced...
LEMMA ServeSteps ==
    ASSUME Inv, record_started \/ serve_filter \/ start_server \/ spawn_waiter \/ reply_ok
    PROVE  Inv'
<1>1. UNCHANGED <<machine, helper, stage, harness, inForce, report, got, launcher>>
  BY DEF record_started, serve_filter, start_server, spawn_waiter, reply_ok, supRest, nsVars
<1>2. sup' \notin Unspawned
  BY DEF record_started, serve_filter, start_server, spawn_waiter, reply_ok, Unspawned, Before
<1>3. /\ StageInv' /\ ReportInv' /\ report' \in Reports
      /\ got' \in {None} \cup AppliedReports /\ inForce' \in SUBSET Mechanisms
  BY <1>1, <1>2, NsSame
<1>4. log \in Seq(Events) /\ refusal \in Codes \cup {""}
  BY DEF Inv, TypeInv
<1>5. CASE record_started
  <2>1. /\ sup = "record" /\ sup' = "filter" /\ UNCHANGED <<refusal, pipe>>
        /\ log' = log \o <<Event("sandbox_applied"), Event("started")>>
    BY <1>5 DEF record_started
  <2>2. /\ Logged = {"created"} /\ got \in AppliedReports /\ REQUIRED \subseteq got.mechanisms
        /\ pipe # Ok /\ launcher # Ok
    BY <2>1 DEF Inv, SupInv, Opened
  <2>3. log' \in Seq(Events) /\ Logged' = Logged \cup {"sandbox_applied", "started"}
    <3> DEFINE a == Event("sandbox_applied")
               b == Event("started")
               n == Len(log)
    <3>1. a \in Events /\ b \in Events /\ a.kind = "sandbox_applied" /\ b.kind = "started"
      BY EventKinds
    <3> HIDE DEF a, b
    <3>2. log' = log \o <<a, b>>
      BY <2>1 DEF a, b
    <3> DEFINE t == <<a, b>>
    <3>3. /\ log' \in Seq(Events) /\ n \in Nat
          /\ DOMAIN log = 1..n /\ DOMAIN log' = 1..(n + 2)
          /\ \A i \in 1..n : log'[i] = log[i]
          /\ log'[n + 1] = a /\ log'[n + 2] = b
      <4>1. t \in Seq(Events) /\ Len(t) = 2 /\ t[1] = a /\ t[2] = b
        BY <3>1
      <4>2. log' = log \o t
        BY <3>2
      <4> HIDE DEF t
      <4>3. log \in Seq(Events) /\ t \in Seq(Events)
        BY <1>4, <4>1
      <4>4. /\ log \o t \in Seq(Events) /\ Len(log \o t) = Len(log) + Len(t)
            /\ \A i \in 1..(Len(log) + Len(t)) :
                  (log \o t)[i] = IF i <= Len(log) THEN log[i] ELSE t[i - Len(log)]
        BY ONLY <4>3, ConcatProperties
      <4>5. /\ log' \in Seq(Events) /\ Len(log') = n + 2
            /\ \A i \in 1..(n + 2) : log'[i] = IF i <= n THEN log[i] ELSE t[i - n]
        BY <4>1, <4>2, <4>4
      <4>6. n \in Nat /\ DOMAIN log = 1..n /\ DOMAIN log' = 1..(n + 2)
        <5>1. Len(log) \in Nat /\ DOMAIN log = 1..Len(log)
          BY ONLY <4>3, LenProperties
        <5>2. DOMAIN log' = 1..Len(log')
          BY <4>5
        <5> QED BY <4>5, <5>1, <5>2
      <4> HIDE DEF n
      <4>7. \A i \in 1..n : log'[i] = log[i]
        BY <4>5, <4>6
      <4>8. log'[n + 1] = t[(n + 1) - n] /\ log'[n + 2] = t[(n + 2) - n]
        BY <4>5, <4>6
      <4>9. (n + 1) - n = 1 /\ (n + 2) - n = 2
        BY <4>6
      <4> QED BY <4>1, <4>5, <4>6, <4>7, <4>8, <4>9
    <3> HIDE DEF n
    <3>5. \A i \in 1..(n + 2) : i \in 1..n \/ i = n + 1 \/ i = n + 2
      BY <3>3
    <3>6. n + 1 \in 1..(n + 2) /\ n + 2 \in 1..(n + 2) /\ 1..n \subseteq 1..(n + 2)
      BY <3>3
    <3> QED BY <3>1, <3>3, <3>5, <3>6 DEF Logged
  <2>4. Announced'
    BY <1>1, <2>2, <2>3 DEF Announced
  <2>5. SupInv'
    BY <1>1, <2>1, <2>2, <2>4 DEF SupInv, Before, Opened, Recorded
  <2> QED BY <1>3, <1>4, <2>1, <2>3, <2>5, FromParts
<1>6. CASE serve_filter
  <2>1. /\ sup = "filter" /\ sup' = "server" /\ UNCHANGED <<refusal, pipe>>
        /\ log' = log \/ log' = Append(log, Event("sandbox_degraded"))
    BY <1>6 DEF serve_filter
  <2>2. CASE log' = log
    BY <1>1, <1>3, <1>4, <2>1, <2>2, GoesOn, FromParts DEF Recorded
  <2>3. CASE log' = Append(log, Event("sandbox_degraded"))
    <3>1. log' \in Seq(Events) /\ Logged' = Logged \cup {"sandbox_degraded"}
      BY <1>4, <2>3, EventKinds, OneMore
    <3>2. Announced /\ pipe # Ok /\ launcher # Ok
      BY <2>1 DEF Inv, SupInv, Recorded
    <3>3. Announced'
      BY <1>1, <3>1, <3>2 DEF Announced
    <3>4. SupInv'
      BY <1>1, <2>1, <3>2, <3>3 DEF SupInv, Before, Opened, Recorded
    <3> QED BY <1>3, <1>4, <2>1, <3>1, <3>4, FromParts
  <2> QED BY <2>1, <2>2, <2>3
<1>7. CASE start_server
  <2>1. /\ sup = "server" /\ UNCHANGED <<log, pipe>>
        /\ \/ sup' = "waiter" /\ refusal' = refusal
           \/ sup' = "tell" /\ refusal' = "supervisor_spawn_failed"
    BY <1>7 DEF start_server
  <2>2. CASE sup' = "waiter" /\ refusal' = refusal
    BY <1>1, <1>3, <2>1, <2>2, GoesOn, FromParts DEF Recorded
  <2>3. CASE sup' = "tell" /\ refusal' = "supervisor_spawn_failed"
    <3>1. refusal' \in Codes
      BY <2>3 DEF Codes
    <3> QED BY <1>1, <1>3, <2>1, <2>3, <3>1, GivesUp, FromParts
  <2> QED BY <2>1, <2>2, <2>3
<1>8. CASE spawn_waiter
  <2>1. sup = "waiter" /\ sup' = "ready" /\ UNCHANGED <<refusal, log, pipe>>
    BY <1>8 DEF spawn_waiter
  <2> QED BY <1>1, <1>3, <2>1, GoesOn, FromParts DEF Recorded
<1>9. CASE reply_ok
  <2>1. sup = "ready" /\ sup' = "serving" /\ UNCHANGED <<refusal, log>> /\ pipe' = Ok
    BY <1>9 DEF reply_ok
  <2>2. Announced /\ launcher # Ok
    BY <2>1 DEF Inv, SupInv, Recorded
  <2>3. Announced'
    BY <1>1, <2>1, <2>2 DEF Announced, Logged
  <2>4. SupInv'
    BY <1>1, <2>1, <2>2, <2>3 DEF SupInv, Before, Opened, Recorded
  <2> QED BY <1>3, <1>4, <2>1, <2>4, FromParts
<1> QED BY <1>5, <1>6, <1>7, <1>8, <1>9

\* ...or it is given up.
LEMMA EndSteps ==
    ASSUME Inv, kill_child \/ reply_fail \/ exit \/ sup_dies
    PROVE  Inv'
<1>1. /\ UNCHANGED <<machine, inForce, report, got, launcher, log, refusal>>
      /\ log \in Seq(Events) /\ refusal \in Codes \cup {""}
  BY DEF kill_child, reply_fail, exit, sup_dies, supRest, nsVars, Inv, TypeInv
<1>2. SupInv' /\ log' \in Seq(Events) /\ sup' \notin Unspawned
  <2>1. CASE kill_child
    <3>1. sup = "kill" /\ sup' = "tell" /\ pipe' = pipe
      BY <2>1 DEF kill_child
    <3>2. refusal \in Codes
      BY <3>1 DEF Inv, SupInv
    <3> QED BY <1>1, <3>1, <3>2, GivesUp
  <2>2. CASE reply_fail
    <3>1. sup = "tell" /\ sup' = "exit" /\ pipe' = Fail(refusal)
      BY <2>2 DEF reply_fail
    <3>2. refusal \in Codes /\ launcher # Ok
      BY <3>1 DEF Inv, SupInv
    <3> QED BY <1>1, <3>1, <3>2, GivesUp, Answers
  <2>3. CASE exit \/ sup_dies
    <3>1. sup # "gone" /\ sup' = "gone" /\ pipe' = pipe
      BY <2>3 DEF exit, sup_dies, Closes
    <3> QED BY <1>1, <3>1, GivesUp
  <2> QED BY <2>1, <2>2, <2>3
<1>3. CASE UNCHANGED <<helper, stage, harness>>
  BY <1>1, <1>2, <1>3, NsSame, FromParts
<1>4. CASE helper' = "gone" /\ stage' = "gone" /\ harness' = "gone"
  <2>1. StageInv'
    BY <1>1, <1>2, <1>4 DEF StageInv
  <2>2. ReportInv'
    BY <1>1, <1>4 DEF Inv, ReportInv, Says
  <2> QED BY <1>1, <1>2, <2>1, <2>2, FromParts DEF Inv, TypeInv
<1> QED BY <1>3, <1>4 DEF kill_child, reply_fail, exit, sup_dies, nsVars, AllGone

-----------------------------------------------------------------------------
(* The helper, the stage and the harness.                                   *)

\* The filter's thread is there only once the start was recorded.
ThreadInv == "thread" \in held => sup \notin Before \cup Opened

\* The supervisor never goes back behind that, and no other step starts it.
LEMMA ThreadKeeps == ThreadInv /\ [StartNext]_startVars => ThreadInv'
<1> SUFFICES ASSUME ThreadInv, [StartNext]_startVars PROVE ThreadInv'
  OBVIOUS
<1>1. ASSUME sup' = sup \/ sup \in Before \cup Opened \/ sup' \notin Before \cup Opened,
             "thread" \in held' => "thread" \in held
      PROVE  ThreadInv'
  BY <1>1 DEF ThreadInv
<1>2. CASE UNCHANGED startVars
  BY <1>1, <1>2 DEF startVars, supVars
<1>3. CASE detach \/ load \/ open_log \/ redirect_std \/ open_events \/ bind_socket
           \/ do_prepare \/ report_socket \/ open_pty \/ spawn \/ write_request
  <2>1. sup \in Before \cup Opened /\ held' = held
    BY <1>3 DEF detach, load, open_log, redirect_std, open_events, bind_socket, do_prepare,
                report_socket, open_pty, spawn, write_request, Early, Late, Before, Opened
  <2> QED BY <1>1, <2>1
<1>4. CASE read_whole \/ read_gone \/ drain \/ read_timed_out \/ check_report \/ record_started
  <2>1. sup \in Opened
    BY <1>4 DEF read_whole, read_gone, drain, read_timed_out, check_report, record_started,
                Opened
  <2>2. "thread" \in held' => "thread" \in held
    BY <1>4 DEF read_whole, read_gone, drain, read_timed_out, check_report, record_started
  <2> QED BY <1>1, <2>1, <2>2
<1>5. CASE serve_filter \/ start_server \/ spawn_waiter \/ reply_ok \/ kill_child
           \/ reply_fail \/ exit \/ sup_dies
  <2>1. sup' \notin Before \cup Opened
    BY <1>5 DEF serve_filter, start_server, spawn_waiter, reply_ok, kill_child, reply_fail,
                exit, sup_dies, Closes, Before, Opened
  <2> QED BY <2>1 DEF ThreadInv
<1>6. CASE handshake_wait \/ relink \/ HelperStep \/ helper_refuses \/ helper_orphaned
  <2>1. sup' = sup /\ ("thread" \in held' => "thread" \in held)
    BY <1>6 DEF handshake_wait, relink, HelperStep, helper_builds, helper_ends,
                helper_refuses, helper_orphaned, nsRest, supVars
  <2> QED BY <1>1, <2>1
<1>7. CASE StageStep \/ stage_dies
  <2>1. sup' = sup
    BY <1>7 DEF StageStep, read_request, check_namespace, apply_rlimits, landlock_apply,
                install_filter, write_applied, drop_listener, exec_harness, other_stage,
                stage_dies, stage_goes, stage_refuse, stageRest, nsRest, supVars
  <2>2. "thread" \in held' => "thread" \in held
    BY <1>7 DEF StageStep, read_request, check_namespace, apply_rlimits, landlock_apply,
                install_filter, write_applied, drop_listener, exec_harness, other_stage,
                stage_dies, stage_refuse
  <2> QED BY <1>1, <2>1, <2>2
<1>8. CASE harness_calls \/ answer_one \/ serve_notifications_ends \/ harness_exits
  <2>1. sup' = sup /\ ("thread" \in held' => "thread" \in held)
    BY <1>8 DEF harness_calls, answer_one, serve_notifications_ends, harness_exits, callRest
  <2> QED BY <1>1, <2>1
<1> QED BY <1>2, <1>3, <1>4, <1>5, <1>6, <1>7, <1>8 DEF StartNext, Started, SupStep

\* The launcher's read, and what leaves both sides alone.
LEMMA OutsideSteps ==
    ASSUME Inv, handshake_wait \/ relink \/ answer_one
    PROVE  Inv'
<1>1. UNCHANGED <<machine, helper, stage, harness, inForce, report, got, sup, refusal, log, pipe>>
  BY DEF handshake_wait, relink, answer_one, supVars, nsVars, callRest
<1>2. /\ StageInv' /\ ReportInv' /\ report' \in Reports
      /\ got' \in {None} \cup AppliedReports /\ inForce' \in SUBSET Mechanisms
  BY <1>1, NsSame
<1>3. launcher' = Ok => pipe = Ok
  BY Answers DEF handshake_wait, relink, answer_one, callRest, Inv, SupInv
<1>4. Announced' = Announced /\ Logged' = Logged
  BY <1>1 DEF Announced, Logged
<1>5. SupInv'
  BY <1>1, <1>3, <1>4 DEF Inv, SupInv
<1> QED BY <1>1, <1>2, <1>5, FromParts DEF Inv, TypeInv

\* The helper builds the namespace, refuses, or goes.
LEMMA HelperSteps ==
    ASSUME Inv, helper_builds \/ helper_refuses \/ helper_ends \/ helper_orphaned
    PROVE  Inv'
<1>1. UNCHANGED <<machine, report, got, sup, refusal, log, pipe, launcher>>
  BY DEF helper_builds, helper_refuses, helper_ends, helper_orphaned, nsRest, supVars
<1>2. /\ SupInv' /\ log' \in Seq(Events) /\ refusal' \in Codes \cup {""}
      /\ got' \in {None} \cup AppliedReports /\ report' \in Reports
  BY <1>1, SupSame DEF Inv, TypeInv
<1>3. helper # "none"
  BY DEF helper_builds, helper_refuses, helper_ends, helper_orphaned
<1>4. CASE helper' = "monitor"
  <2>1. /\ helper = "building" /\ stage' = "request" /\ harness' = harness
        /\ inForce' = IF machine.namespaced THEN {"namespaces", "mounts"} ELSE {}
    BY <1>4 DEF helper_builds, helper_refuses, helper_ends, helper_orphaned, AllGone
  <2>2. /\ harness = "none" /\ report = NoReport /\ sup \notin Unspawned
        /\ report \notin AppliedReports /\ got \notin AppliedReports
    BY <2>1, ReportKinds DEF Inv, StageInv, ReportInv
  <2>3. inForce' \in SUBSET Mechanisms
    BY <2>1 DEF Mechanisms, REQUIRED
  <2>4. StageInv'
    BY <1>1, <1>4, <2>1, <2>2 DEF StageInv, Namespaced
  <2>5. ReportInv'
    BY <1>1, <2>2 DEF ReportInv
  <2> QED BY <1>2, <2>3, <2>4, <2>5, FromParts
<1>5. CASE /\ helper' = "gone" /\ inForce' = inForce
           /\ \/ UNCHANGED <<stage, harness>>
              \/ stage' = "gone" /\ harness' = "gone"
  <2>1. StageInv'
    BY <1>1, <1>3, <1>5 DEF Inv, StageInv
  <2>2. ReportInv'
    BY <1>1, <1>5 DEF Inv, ReportInv, Says
  <2> QED BY <1>2, <1>5, <2>1, <2>2, FromParts DEF Inv, TypeInv
<1> QED BY <1>4, <1>5 DEF helper_builds, helper_refuses, helper_ends, helper_orphaned, AllGone

\* The stage confines itself step by step, and says so when it has.
LEMMA StageSteps ==
    ASSUME Inv, StageStep \/ stage_dies
    PROVE  Inv'
<1>1. UNCHANGED <<machine, helper, got, sup, refusal, log, pipe, launcher>>
  BY DEF StageStep, stage_dies, read_request, check_namespace, apply_rlimits, landlock_apply,
         install_filter, write_applied, drop_listener, exec_harness, other_stage,
         stage_refuse, stage_goes, stageRest, nsRest, supVars
<1>2. /\ SupInv' /\ log' \in Seq(Events) /\ refusal' \in Codes \cup {""}
      /\ got' \in {None} \cup AppliedReports
  BY <1>1, SupSame
<1>3. stage \notin {"none", "gone"}
  BY DEF StageStep, stage_dies, read_request, check_namespace, apply_rlimits, landlock_apply,
         install_filter, write_applied, drop_listener, exec_harness, other_stage
<1>4. helper \notin {"none", "building"}
  BY <1>3 DEF Inv, StageInv
<1>5. report \in Reports /\ inForce \in SUBSET Mechanisms
  BY DEF Inv, TypeInv
<1>6. ASSUME stage' = "gone", UNCHANGED <<harness, inForce>>,
             report' = report \/ \E c \in Codes : report' = RefusedBy(c)
      PROVE  Inv'
  <2>1. /\ report' \in Reports
        /\ report' = report \/ (report' \notin AppliedReports /\ report' # NoReport)
    <3>1. \A c \in Codes : /\ RefusedBy(c) \in Reports /\ RefusedBy(c).result = "refused"
      BY DEF Reports, RefusedBy
    <3>2. NoReport.result = "none"
      BY DEF NoReport
    <3> QED BY <1>5, <1>6, <3>1, <3>2, ReportKinds
  <2>2. StageInv'
    BY <1>1, <1>4, <1>6 DEF Inv, StageInv
  <2>3. ReportInv'
    BY <1>1, <1>6, <2>1 DEF Inv, ReportInv, Says
  <2> QED BY <1>2, <1>5, <1>6, <2>1, <2>2, <2>3, FromParts
<1>7. ASSUME NEW next, NEW m \in SUBSET Mechanisms, stage_goes(next, m), machine.ours,
             stage \notin {"written", "exec"},
             next \in {"namespace", "rlimits", "landlock", "seccomp", "report"},
             next \in {"namespace", "rlimits", "landlock"} => m \subseteq {"rlimits"},
             next = "namespace" => stage = "request",
             next = "rlimits" => stage = "namespace" /\ machine.namespaced,
             next = "landlock" => stage = "rlimits" /\ "rlimits" \in m,
             next = "seccomp" => stage = "landlock",
             next = "report" => stage = "seccomp" /\ "seccomp" \in m
      PROVE  Inv'
  <2>1. stage' = next /\ inForce' = inForce \cup m /\ UNCHANGED <<harness, report>>
    BY <1>7 DEF stage_goes
  <2>2. inForce' \in SUBSET Mechanisms
    BY <1>5, <1>7, <2>1
  <2>3. report \notin AppliedReports /\ got \notin AppliedReports
    BY <1>3, <1>7 DEF Inv, ReportInv
  <2>4. StageInv'
    BY <1>1, <1>4, <1>7, <2>1 DEF Inv, StageInv, REQUIRED, Namespaced
  <2>5. ReportInv'
    BY <1>1, <2>1, <2>3 DEF ReportInv
  <2> QED BY <1>2, <1>5, <2>1, <2>2, <2>4, <2>5, FromParts
<1>8. ASSUME NEW code \in Codes, stage_refuse(code) PROVE Inv'
  BY <1>6, <1>8 DEF stage_refuse
<1>9. "sandbox_apply_failed" \in Codes /\ "sandbox_backend_missing" \in Codes
      /\ {} \in SUBSET Mechanisms /\ {"rlimits"} \in SUBSET Mechanisms
      /\ {"landlock"} \in SUBSET Mechanisms /\ {"seccomp"} \in SUBSET Mechanisms
  BY DEF Codes, Mechanisms, REQUIRED
<1>10. CASE read_request
  <2>1. stage = "request" /\ machine.ours
        /\ (stage_goes("namespace", {}) \/ stage_refuse("sandbox_apply_failed"))
    BY <1>10 DEF read_request
  <2> QED BY <1>7, <1>8, <1>9, <2>1
<1>11. CASE check_namespace
  <2>1. stage = "namespace" /\ machine.ours
        /\ ((machine.namespaced /\ stage_goes("rlimits", {}))
             \/ stage_refuse("sandbox_apply_failed"))
    BY <1>11 DEF check_namespace, Inv, StageInv
  <2> QED BY <1>7, <1>8, <1>9, <2>1
<1>12. CASE apply_rlimits
  <2>1. stage = "rlimits" /\ machine.ours
        /\ (stage_goes("landlock", {"rlimits"}) \/ stage_refuse("sandbox_apply_failed"))
    BY <1>12 DEF apply_rlimits, Inv, StageInv
  <2> QED BY <1>7, <1>8, <1>9, <2>1
<1>13. CASE landlock_apply
  <2>1. stage = "landlock" /\ machine.ours
        /\ (stage_goes("seccomp", {}) \/ stage_goes("seccomp", {"landlock"})
             \/ stage_refuse("sandbox_apply_failed"))
    BY <1>13 DEF landlock_apply, Inv, StageInv
  <2> QED BY <1>7, <1>8, <1>9, <2>1
<1>14. CASE install_filter
  <2>1. stage = "seccomp" /\ machine.ours
        /\ (stage_goes("report", {"seccomp"}) \/ stage_refuse("sandbox_backend_missing")
             \/ stage_refuse("sandbox_apply_failed"))
    BY <1>14 DEF install_filter, Inv, StageInv
  <2> QED BY <1>7, <1>8, <1>9, <2>1
<1>15. CASE write_applied
  <2>1. stage = "report" /\ machine.ours /\ UNCHANGED <<harness, inForce>>
        /\ REQUIRED \subseteq inForce
    BY <1>15 DEF write_applied, Inv, StageInv
  <2>2. CASE stage' = "gone" /\ report' = report
    BY <1>6, <2>1, <2>2
  <2>3. CASE /\ stage' = "written"
             /\ \E whole \in BOOLEAN :
                  report' = [Applied(inForce, {"landlock"} \ inForce, 1) EXCEPT !.whole = whole]
    <3>1. report' \in AppliedReports /\ Says(report)'
      <4>1. PICK whole \in BOOLEAN :
              report' = [Applied(inForce, {"landlock"} \ inForce, 1) EXCEPT !.whole = whole]
        BY <2>3
      <4>2. {"landlock"} \ inForce \in SUBSET Mechanisms
        BY DEF Mechanisms
      <4>3. report' = [result |-> "applied", whole |-> whole, mechanisms |-> inForce,
                       unavailable |-> {"landlock"} \ inForce, fds |-> 1]
        BY <4>1 DEF Applied
      <4> QED BY <1>5, <2>1, <4>2, <4>3 DEF AppliedReports, Says
    <3>2. got \notin AppliedReports
      BY <2>1 DEF Inv, ReportInv
    <3>3. StageInv'
      BY <1>1, <1>4, <2>1, <2>3, <3>1 DEF Inv, StageInv
    <3>4. ReportInv'
      BY <1>1, <2>3, <3>1, <3>2 DEF ReportInv
    <3> QED BY <1>2, <1>5, <2>1, <3>1, <3>3, <3>4, FromParts DEF Reports
  <2> QED BY <1>15, <2>2, <2>3 DEF write_applied
<1>16. CASE drop_listener
  <2>1. stage = "written" /\ machine.ours /\ UNCHANGED <<harness, inForce>>
        /\ REQUIRED \subseteq inForce /\ report \in AppliedReports
    BY <1>16 DEF drop_listener, Inv, StageInv
  <2>2. CASE stage' = "gone" /\ report' = report
    BY <1>6, <2>1, <2>2
  <2>3. CASE stage' = "exec" /\ report' = [report EXCEPT !.whole = TRUE]
    <3>1. /\ report' \in AppliedReports /\ report'.mechanisms = report.mechanisms
          /\ report'.unavailable = report.unavailable
      BY <2>1, <2>3 DEF AppliedReports
    <3>2. NoReport \notin AppliedReports
      BY ReportKinds
    <3>3. StageInv'
      BY <1>1, <1>4, <2>1, <2>3 DEF Inv, StageInv
    <3>4. ReportInv'
      BY <1>1, <2>1, <2>3, <3>1, <3>2 DEF Inv, ReportInv, Says
    <3> QED BY <1>2, <1>5, <2>1, <3>1, <3>3, <3>4, FromParts DEF Reports
  <2> QED BY <1>16, <2>2, <2>3 DEF drop_listener
<1>17. CASE exec_harness
  <2>1. /\ stage = "exec" /\ stage' = "gone" /\ harness' \in {"running", "gone"}
        /\ UNCHANGED <<inForce, report>>
    BY <1>17 DEF exec_harness
  <2>2. StageInv'
    BY <1>1, <1>4, <2>1 DEF Inv, StageInv
  <2>3. ReportInv'
    BY <1>1, <2>1 DEF Inv, ReportInv, Says
  <2> QED BY <1>2, <1>5, <2>1, <2>2, <2>3, FromParts
<1>18. CASE other_stage
  <2>1. /\ ~machine.ours /\ stage' = "exec" /\ UNCHANGED <<harness, inForce>>
        /\ report' \in BrokenReports
    BY <1>18 DEF other_stage
  <2>2. report' \in AppliedReports \cup {Unreadable}
    <3>1. /\ REQUIRED \in SUBSET Mechanisms /\ {} \in SUBSET Mechanisms
          /\ REQUIRED \ {"rlimits"} \in SUBSET Mechanisms
      BY DEF Mechanisms
    <3>2. \A m \in SUBSET Mechanisms, u \in SUBSET Mechanisms, f \in Nat :
             Applied(m, u, f) \in AppliedReports
      BY DEF Applied, AppliedReports
    <3> QED BY <2>1, <3>1, <3>2 DEF BrokenReports
  <2>3. report' # NoReport /\ report' \in Reports
    <3>1. Unreadable.result = "unreadable" /\ NoReport.result = "none"
      BY DEF Unreadable, NoReport
    <3> QED BY <2>2, <3>1, ReportKinds DEF Reports
  <2>4. StageInv'
    BY <1>1, <1>4, <2>1 DEF Inv, StageInv
  <2>5. ReportInv'
    BY <1>1, <2>1, <2>3 DEF ReportInv
  <2> QED BY <1>2, <1>5, <2>1, <2>3, <2>4, <2>5, FromParts
<1>19. CASE stage_dies
  BY <1>6, <1>19 DEF stage_dies
<1> QED BY <1>10, <1>11, <1>12, <1>13, <1>14, <1>15, <1>16, <1>17, <1>18, <1>19
        DEF StageStep

\* The harness makes its calls and ends.
LEMMA HarnessSteps ==
    ASSUME Inv, harness_calls \/ harness_exits
    PROVE  Inv'
<1>1. UNCHANGED <<machine, helper, stage, inForce, report, got, sup, refusal, log, pipe, launcher>>
  BY DEF harness_calls, harness_exits, supVars, callRest
<1>2. harness = "running" /\ harness' \in {"running", "gone"}
  BY DEF harness_calls, harness_exits
<1>3. SupInv' /\ log' \in Seq(Events) /\ refusal' \in Codes \cup {""}
  BY <1>1, SupSame
<1>4. StageInv'
  BY <1>1, <1>2 DEF Inv, StageInv
<1>5. ReportInv'
  BY <1>1 DEF Inv, ReportInv, Says
<1> QED BY <1>1, <1>3, <1>4, <1>5, FromParts DEF Inv, TypeInv

\* The filter's thread ends, which the log may keep.
LEMMA ThreadSteps ==
    ASSUME Inv, ThreadInv, serve_notifications_ends
    PROVE  Inv'
<1>1. /\ UNCHANGED <<machine, helper, stage, harness, inForce, report, got, sup, refusal,
                     pipe, launcher>>
      /\ log' = log \/ log' = Append(log, Event("sandbox_degraded"))
      /\ sup \notin Before \cup Opened
  BY DEF serve_notifications_ends, callRest, ThreadInv
<1>2. /\ StageInv' /\ ReportInv' /\ report' \in Reports
      /\ got' \in {None} \cup AppliedReports /\ inForce' \in SUBSET Mechanisms
  BY <1>1, NsSame
<1>3. log' \in Seq(Events) /\ (Logged' = Logged \/ Logged' = Logged \cup {"sandbox_degraded"})
  <2>1. CASE log' = log
    BY <2>1 DEF Logged, Inv, TypeInv
  <2>2. CASE log' = Append(log, Event("sandbox_degraded"))
    BY <2>2, EventKinds, OneMore DEF Inv, TypeInv
  <2> QED BY <1>1, <2>1, <2>2
<1>4. Announced => Announced'
  BY <1>1, <1>3 DEF Announced
<1>5. SupInv'
  BY <1>1, <1>4 DEF Inv, SupInv
<1> QED BY <1>1, <1>2, <1>3, <1>5, FromParts DEF Inv, TypeInv

-----------------------------------------------------------------------------
(* The invariant and what follows from it.                                  *)

\* It holds before the supervisor's first step...
LEMMA Initially == StartInit => Inv
<1> SUFFICES ASSUME StartInit PROVE Inv
  OBVIOUS
<1>1. /\ sup = "detach" /\ refusal = "" /\ log = <<>> /\ pipe = None /\ launcher = None
      /\ got = None /\ helper = "none" /\ stage = "none" /\ harness = "none"
      /\ inForce = {} /\ report = NoReport
  BY DEF StartInit
<1>2. <<>> \in Seq(Events)
  OBVIOUS
<1>3. TypeInv
  BY <1>1, <1>2 DEF TypeInv, Reports
<1>4. SupInv
  BY <1>1, Answers DEF SupInv, Before, Opened, Recorded
<1>5. StageInv
  BY <1>1 DEF StageInv
<1>6. ReportInv
  BY <1>1, ReportKinds DEF ReportInv
<1> QED BY <1>3, <1>4, <1>5, <1>6 DEF Inv

\* ...and no step, death or timeout breaks it.
LEMMA Inductive == Inv /\ ThreadInv /\ [StartNext]_startVars => Inv'
<1> SUFFICES ASSUME Inv, ThreadInv, [StartNext]_startVars PROVE Inv'
  OBVIOUS
<1>1. CASE UNCHANGED startVars
  <2>1. UNCHANGED <<machine, helper, stage, harness, inForce, report, got, sup, refusal, log, pipe, launcher>>
    BY <1>1 DEF startVars, supVars, nsVars
  <2> QED BY <2>1, SupSame, NsSame, FromParts
<1>2. CASE StartNext
  BY <1>2, EarlySteps, LateSteps, SpawnStep, ReportSteps, ServeSteps, EndSteps,
     OutsideSteps, HelperSteps, StageSteps, HarnessSteps, ThreadSteps
     DEF StartNext, Started, SupStep, HelperStep
<1> QED BY <1>1, <1>2

\* The inductive invariant holds always.
THEOREM Invariance == StartSpec => []Inv
<1>1. StartInit => ThreadInv
  BY DEF StartInit, ThreadInv
<1> QED BY <1>1, Initially, ThreadKeeps, Inductive, PTL DEF StartSpec

\* A session that was announced is confined as its log says, and this build's
\* stage runs no harness before every required mechanism binds it, whatever
\* dies, fails or answers too late on the way (main.rs, run_inner).
THEOREM AnnouncedIsConfined == StartSpec => []ReadyMeansConfined
<1>1. Inv => ReadyMeansConfined
  BY DEF Inv, SupInv, StageInv, ReportInv, Announced, Says, ReadyMeansConfined
<1> QED BY <1>1, Invariance, PTL

-----------------------------------------------------------------------------
(* The filter: what the kernel makes of the program, for every call.        *)

OpCodes == {"ld", "jeq", "jge", "and", "ret"}
Labels == {"next", "ioctl", "socket", "socket_type", "prctl", "allow", "notify", "kill"}
Operands == Nat \cup {"arch", "nr", "arg0", "arg1", "arg2", "allow", "notify", "kill"}
Items == [code: OpCodes, k: Operands, jt: Labels, jf: Labels]

\* The denied calls are 31 numbers.
LEMMA DeniedNumbers ==
    /\ DOMAIN DENIED = 1..31 /\ Len(DENIED) = 31
    /\ \A i \in 1..31 : DENIED[i] \in Nat
BY DEF DENIED

\* The instructions.
LEMMA Instructions ==
    /\ \A f \in {"arch", "nr", "arg0", "arg1", "arg2"} : Ld(f) \in Items
    /\ \A v \in {"allow", "notify", "kill"} : Ret(v) \in Items
    /\ \A k \in Nat, jt \in Labels, jf \in Labels :
          /\ Jeq(k, jt, jf) \in Items
          /\ Insn("jge", k, jt, jf) \in Items /\ Insn("and", k, jt, jf) \in Items
BY DEF Ld, Ret, Jeq, Insn, Items, OpCodes, Labels, Operands

\* The constants are words.
LEMMA Words ==
    {AUDIT_ARCH_X86_64, SYS_ioctl, SYS_socket, SYS_prctl, TIOCSTI,
     PR_SET_SECCOMP, AF_NETLINK, AF_PACKET, SOCK_RAW, SOCK_PACKET, SOCK_TYPE_MASK,
     NETLINK_ROUTE, X32_SYSCALL_BIT} \subseteq Nat
<1>1. X32_SYSCALL_BIT \in Nat
  BY DEF X32_SYSCALL_BIT
<1> QED BY <1>1 DEF AUDIT_ARCH_X86_64, SYS_ioctl, SYS_socket, SYS_prctl, TIOCSTI,
     PR_SET_SECCOMP, AF_NETLINK, AF_PACKET, SOCK_RAW, SOCK_PACKET, SOCK_TYPE_MASK,
     NETLINK_ROUTE

\* A sequence from 1 to n.
LEMMA Sequence ==
    ASSUME NEW n \in Nat, NEW d \in [1..n -> Items]
    PROVE  d \in Seq(Items) /\ Len(d) = n
<1>1. d \in Seq(Items)
  BY SeqDef
<1>2. Len(d) \in Nat /\ DOMAIN d = 1..Len(d) /\ DOMAIN d = 1..n
  BY <1>1
<1>3. Len(d) = n
  <2>1. CASE Len(d) > n
    <3>1. Len(d) \in 1..Len(d) /\ Len(d) \notin 1..n
      BY <1>2, <2>1
    <3> QED BY <1>2, <3>1
  <2>2. CASE n > Len(d)
    <3>1. n \in 1..n /\ n \notin 1..Len(d)
      BY <1>2, <2>2
    <3> QED BY <1>2, <3>1
  <2> QED BY <1>2, <2>1, <2>2
<1> QED BY <1>1, <1>3

\* What a sequence holds after its first k instructions, and how it splits.
Holds(w, v, k, n) == \A i \in 1..n : w[k + i] = v[i]
Splits(w, s, t, m, n) == /\ w \in Seq(Items) /\ Len(w) = m + n
                         /\ Holds(w, s, 0, m) /\ Holds(w, t, m, n)
\* Two stretches of code, one after the other.
LEMMA Joined ==
    ASSUME NEW s \in Seq(Items), NEW t \in Seq(Items), NEW m \in Nat, NEW n \in Nat,
           Len(s) = m, Len(t) = n
    PROVE  Splits(s \o t, s, t, m, n)
<1>1. /\ s \o t \in Seq(Items) /\ Len(s \o t) = m + n
      /\ \A i \in 1..(m + n) : (s \o t)[i] = IF i <= m THEN s[i] ELSE t[i - m]
  BY ConcatProperties
<1>2. ASSUME NEW i \in 1..n PROVE (s \o t)[m + i] = t[i]
  <2>1. m + i \in 1..(m + n) /\ ~(m + i <= m) /\ (m + i) - m = i
    OBVIOUS
  <2> QED BY <1>1, <2>1
<1>3. ASSUME NEW i \in 1..m PROVE (s \o t)[0 + i] = s[i]
  BY <1>1
<1> QED BY <1>1, <1>2, <1>3 DEF Splits, Holds

\* What the first of them holds, both do.
LEMMA Further ==
    ASSUME NEW w, NEW s, NEW t, NEW v, NEW m \in Nat, NEW n \in Nat, NEW k \in Nat,
           NEW l \in Nat, Splits(w, s, t, m, n), Holds(s, v, k, l), k + l <= m
    PROVE  Holds(w, v, k, l)
<1>1. ASSUME NEW i \in 1..l PROVE w[k + i] = v[i]
  <2>1. k + i \in 1..m /\ 0 + (k + i) = k + i
    OBVIOUS
  <2>2. w[0 + (k + i)] = s[k + i]
    BY <2>1 DEF Splits, Holds
  <2> QED BY <2>1, <2>2 DEF Holds
<1> QED BY <1>1 DEF Holds

\* The checks every call meets first.
LEMMA EntryBlock ==
    /\ entry_block \in Seq(Items) /\ Len(entry_block) = 39
    /\ entry_block[1] = Ld("arch") /\ entry_block[2] = Jeq(AUDIT_ARCH_X86_64, "next", "kill")
    /\ entry_block[3] = Ld("nr")
    /\ entry_block[4] = Insn("jge", X32_SYSCALL_BIT, "kill", "next")
    /\ \A i \in 1..31 : entry_block[4 + i] = Jeq(DENIED[i], "notify", "next")
    /\ entry_block[36] = Jeq(SYS_ioctl, "ioctl", "next")
    /\ entry_block[37] = Jeq(SYS_socket, "socket", "next")
    /\ entry_block[38] = Jeq(SYS_prctl, "prctl", "next")
    /\ entry_block[39] = Ret("allow")
<1> DEFINE a == <<Ld("arch"), Jeq(AUDIT_ARCH_X86_64, "next", "kill"), Ld("nr"),
                  Insn("jge", X32_SYSCALL_BIT, "kill", "next")>>
           d == [i \in DOMAIN DENIED |-> Jeq(DENIED[i], "notify", "next")]
           z == <<Jeq(SYS_ioctl, "ioctl", "next"), Jeq(SYS_socket, "socket", "next"),
                  Jeq(SYS_prctl, "prctl", "next"), Ret("allow")>>
<1>0. {"next", "kill", "notify", "ioctl", "socket", "prctl"} \subseteq Labels
  BY DEF Labels
<1>1. /\ a \in Seq(Items) /\ Len(a) = 4 /\ a[1] = Ld("arch")
      /\ a[2] = Jeq(AUDIT_ARCH_X86_64, "next", "kill") /\ a[3] = Ld("nr")
      /\ a[4] = Insn("jge", X32_SYSCALL_BIT, "kill", "next")
  <2>1. /\ Ld("arch") \in Items /\ Jeq(AUDIT_ARCH_X86_64, "next", "kill") \in Items
        /\ Ld("nr") \in Items /\ Insn("jge", X32_SYSCALL_BIT, "kill", "next") \in Items
    BY <1>0, Instructions, Words
  <2> QED BY <2>1
<1>2. /\ d \in Seq(Items) /\ Len(d) = 31
      /\ \A i \in 1..31 : d[i] = Jeq(DENIED[i], "notify", "next")
  <2>1. \A i \in 1..31 : Jeq(DENIED[i], "notify", "next") \in Items
    BY <1>0, DeniedNumbers, Instructions
  <2>2. d = [i \in 1..31 |-> Jeq(DENIED[i], "notify", "next")]
    BY DeniedNumbers
  <2>3. d \in [1..31 -> Items]
    BY <2>1, <2>2
  <2> HIDE DEF d
  <2>4. d \in Seq(Items) /\ Len(d) = 31
    <3>1. 31 \in Nat
      OBVIOUS
    <3> QED BY <2>3, <3>1, Sequence
  <2> QED BY <2>2, <2>4
<1>3. /\ z \in Seq(Items) /\ Len(z) = 4 /\ z[1] = Jeq(SYS_ioctl, "ioctl", "next")
      /\ z[2] = Jeq(SYS_socket, "socket", "next") /\ z[3] = Jeq(SYS_prctl, "prctl", "next")
      /\ z[4] = Ret("allow")
  <2>1. /\ Jeq(SYS_ioctl, "ioctl", "next") \in Items /\ Jeq(SYS_socket, "socket", "next") \in Items
        /\ Jeq(SYS_prctl, "prctl", "next") \in Items /\ Ret("allow") \in Items
    BY <1>0, Instructions, Words
  <2> QED BY <2>1
<1>4. entry_block = (a \o d) \o z
  BY DEF entry_block
<1> HIDE DEF a, d, z
<1> DEFINE b == a \o d
<1>5. b \in Seq(Items) /\ Len(b) = 35 /\ Splits(b, a, d, 4, 31)
  <2>1. 4 \in Nat /\ 31 \in Nat /\ 4 + 31 = 35
    OBVIOUS
  <2>2. Splits(b, a, d, 4, 31)
    BY <1>1, <1>2, <2>1, Joined
  <2> QED BY <2>1, <2>2 DEF Splits
<1>6. entry_block = b \o z
  BY <1>4
<1> HIDE DEF b
<1>7. entry_block \in Seq(Items) /\ Len(entry_block) = 39 /\ Splits(entry_block, b, z, 35, 4)
  <2>1. 35 \in Nat /\ 4 \in Nat /\ 35 + 4 = 39
    OBVIOUS
  <2>2. Splits(b \o z, b, z, 35, 4)
    BY <1>3, <1>5, <2>1, Joined
  <2> QED BY <2>1, <2>2, <1>6 DEF Splits
<1>8. /\ Holds(entry_block, a, 0, 4) /\ Holds(entry_block, d, 4, 31)
      /\ Holds(entry_block, z, 35, 4)
  <2>1. {0, 4, 31, 35} \subseteq Nat /\ 0 + 4 <= 35 /\ 4 + 31 <= 35
    OBVIOUS
  <2>2. Holds(b, a, 0, 4) /\ Holds(b, d, 4, 31) /\ Holds(entry_block, z, 35, 4)
    BY <1>5, <1>7 DEF Splits
  <2>3. Holds(entry_block, a, 0, 4)
    BY <1>7, <2>1, <2>2, Further
  <2>4. Holds(entry_block, d, 4, 31)
    BY <1>7, <2>1, <2>2, Further
  <2> QED BY <2>2, <2>3, <2>4
<1>9. \A i \in 1..31 : entry_block[4 + i] = Jeq(DENIED[i], "notify", "next")
  BY <1>2, <1>8 DEF Holds
<1>10. entry_block[1] = a[1] /\ entry_block[2] = a[2] /\ entry_block[3] = a[3]
       /\ entry_block[4] = a[4]
  <2>1. /\ 1 \in 1..4 /\ 2 \in 1..4 /\ 3 \in 1..4 /\ 4 \in 1..4
        /\ 0 + 1 = 1 /\ 0 + 2 = 2 /\ 0 + 3 = 3 /\ 0 + 4 = 4
    OBVIOUS
  <2> QED BY <1>8, <2>1 DEF Holds
<1>11. entry_block[36] = z[1] /\ entry_block[37] = z[2] /\ entry_block[38] = z[3]
       /\ entry_block[39] = z[4]
  <2>1. /\ 1 \in 1..4 /\ 2 \in 1..4 /\ 3 \in 1..4 /\ 4 \in 1..4
        /\ 35 + 1 = 36 /\ 35 + 2 = 37 /\ 35 + 3 = 38 /\ 35 + 4 = 39
    OBVIOUS
  <2> QED BY <1>8, <2>1 DEF Holds
<1> QED BY <1>1, <1>3, <1>7, <1>9, <1>10, <1>11

\* The blocks it jumps to, and the verdicts.
LEMMA OtherBlocks ==
    /\ ioctl_block \in Seq(Items) /\ Len(ioctl_block) = 2
    /\ ioctl_block[1] = Ld("arg1") /\ ioctl_block[2] = Jeq(TIOCSTI, "notify", "allow")
    /\ socket_block \in Seq(Items) /\ Len(socket_block) = 5
    /\ socket_block[1] = Ld("arg0") /\ socket_block[2] = Jeq(AF_PACKET, "notify", "next")
    /\ socket_block[3] = Jeq(AF_NETLINK, "next", "socket_type") /\ socket_block[4] = Ld("arg2")
    /\ socket_block[5] = Jeq(NETLINK_ROUTE, "allow", "notify")
    /\ socket_type_block \in Seq(Items) /\ Len(socket_type_block) = 4
    /\ socket_type_block[1] = Ld("arg1")
    /\ socket_type_block[2] = Insn("and", SOCK_TYPE_MASK, "next", "next")
    /\ socket_type_block[3] = Jeq(SOCK_RAW, "notify", "next")
    /\ socket_type_block[4] = Jeq(SOCK_PACKET, "notify", "allow")
    /\ prctl_block \in Seq(Items) /\ Len(prctl_block) = 2
    /\ prctl_block[1] = Ld("arg0") /\ prctl_block[2] = Jeq(PR_SET_SECCOMP, "notify", "allow")
    /\ verdict_block \in Seq(Items) /\ Len(verdict_block) = 3
    /\ verdict_block[1] = Ret("allow") /\ verdict_block[2] = Ret("notify")
    /\ verdict_block[3] = Ret("kill")
<1>0. Labels = {"next", "ioctl", "socket", "socket_type", "prctl", "allow", "notify", "kill"}
  BY DEF Labels
<1>1. /\ Ld("arg0") \in Items /\ Ld("arg1") \in Items /\ Ld("arg2") \in Items
      /\ Ret("allow") \in Items /\ Ret("notify") \in Items /\ Ret("kill") \in Items
      /\ Jeq(TIOCSTI, "notify", "allow") \in Items /\ Jeq(AF_PACKET, "notify", "next") \in Items
      /\ Jeq(AF_NETLINK, "next", "socket_type") \in Items
      /\ Jeq(NETLINK_ROUTE, "allow", "notify") \in Items
      /\ Insn("and", SOCK_TYPE_MASK, "next", "next") \in Items
      /\ Jeq(SOCK_RAW, "notify", "next") \in Items
      /\ Jeq(SOCK_PACKET, "notify", "allow") \in Items
      /\ Jeq(PR_SET_SECCOMP, "notify", "allow") \in Items
  BY <1>0, Instructions, Words
<1>2. /\ ioctl_block \in Seq(Items) /\ Len(ioctl_block) = 2
      /\ ioctl_block[1] = Ld("arg1") /\ ioctl_block[2] = Jeq(TIOCSTI, "notify", "allow")
  BY <1>1 DEF ioctl_block
<1>3. /\ socket_block \in Seq(Items) /\ Len(socket_block) = 5
      /\ socket_block[1] = Ld("arg0") /\ socket_block[2] = Jeq(AF_PACKET, "notify", "next")
      /\ socket_block[3] = Jeq(AF_NETLINK, "next", "socket_type") /\ socket_block[4] = Ld("arg2")
      /\ socket_block[5] = Jeq(NETLINK_ROUTE, "allow", "notify")
  BY <1>1 DEF socket_block
<1>4. /\ socket_type_block \in Seq(Items) /\ Len(socket_type_block) = 4
      /\ socket_type_block[1] = Ld("arg1")
      /\ socket_type_block[2] = Insn("and", SOCK_TYPE_MASK, "next", "next")
      /\ socket_type_block[3] = Jeq(SOCK_RAW, "notify", "next")
      /\ socket_type_block[4] = Jeq(SOCK_PACKET, "notify", "allow")
  BY <1>1 DEF socket_type_block
<1>5. /\ prctl_block \in Seq(Items) /\ Len(prctl_block) = 2
      /\ prctl_block[1] = Ld("arg0") /\ prctl_block[2] = Jeq(PR_SET_SECCOMP, "notify", "allow")
  BY <1>1 DEF prctl_block
<1>6. /\ verdict_block \in Seq(Items) /\ Len(verdict_block) = 3
      /\ verdict_block[1] = Ret("allow") /\ verdict_block[2] = Ret("notify")
      /\ verdict_block[3] = Ret("kill")
  BY <1>1 DEF verdict_block
<1> QED BY <1>2, <1>3, <1>4, <1>5, <1>6

\* The whole program, before its labels are resolved.
LEMMA Assembled ==
    /\ items \in Seq(Items) /\ Len(items) = 55 /\ DOMAIN items = 1..55
    /\ Holds(items, entry_block, 0, 39) /\ Holds(items, ioctl_block, 39, 2)
    /\ Holds(items, socket_block, 41, 5) /\ Holds(items, socket_type_block, 46, 4)
    /\ Holds(items, prctl_block, 50, 2) /\ Holds(items, verdict_block, 52, 3)
<1> DEFINE a == entry_block \o ioctl_block
           b == a \o socket_block
           c == b \o socket_type_block
           d == c \o prctl_block
<1>0. items = d \o verdict_block
  BY DEF items
<1>1. a \in Seq(Items) /\ Len(a) = 41 /\ Splits(a, entry_block, ioctl_block, 39, 2)
  <2>1. 39 \in Nat /\ 2 \in Nat /\ 39 + 2 = 41
    OBVIOUS
  <2>2. Splits(a, entry_block, ioctl_block, 39, 2)
    BY EntryBlock, OtherBlocks, <2>1, Joined
  <2> QED BY <2>1, <2>2 DEF Splits
<1> HIDE DEF a
<1>2. b \in Seq(Items) /\ Len(b) = 46 /\ Splits(b, a, socket_block, 41, 5)
  <2>1. 41 \in Nat /\ 5 \in Nat /\ 41 + 5 = 46
    OBVIOUS
  <2>2. Splits(b, a, socket_block, 41, 5)
    BY <1>1, OtherBlocks, <2>1, Joined
  <2> QED BY <2>1, <2>2 DEF Splits
<1> HIDE DEF b
<1>3. c \in Seq(Items) /\ Len(c) = 50 /\ Splits(c, b, socket_type_block, 46, 4)
  <2>1. 46 \in Nat /\ 4 \in Nat /\ 46 + 4 = 50
    OBVIOUS
  <2>2. Splits(c, b, socket_type_block, 46, 4)
    BY <1>2, OtherBlocks, <2>1, Joined
  <2> QED BY <2>1, <2>2 DEF Splits
<1> HIDE DEF c
<1>4. d \in Seq(Items) /\ Len(d) = 52 /\ Splits(d, c, prctl_block, 50, 2)
  <2>1. 50 \in Nat /\ 2 \in Nat /\ 50 + 2 = 52
    OBVIOUS
  <2>2. Splits(d, c, prctl_block, 50, 2)
    BY <1>3, OtherBlocks, <2>1, Joined
  <2> QED BY <2>1, <2>2 DEF Splits
<1> HIDE DEF d
<1>5. items \in Seq(Items) /\ Len(items) = 55 /\ Splits(items, d, verdict_block, 52, 3)
  <2>1. 52 \in Nat /\ 3 \in Nat /\ 52 + 3 = 55
    OBVIOUS
  <2>2. Splits(d \o verdict_block, d, verdict_block, 52, 3)
    BY <1>4, OtherBlocks, <2>1, Joined
  <2> QED BY <2>1, <2>2, <1>0 DEF Splits
<1>6. /\ {0, 2, 3, 4, 5, 39, 41, 46, 50, 52} \subseteq Nat
      /\ 0 + 39 <= 41 /\ 39 + 2 <= 41 /\ 0 + 39 <= 46 /\ 39 + 2 <= 46 /\ 41 + 5 <= 46
      /\ 0 + 39 <= 50 /\ 39 + 2 <= 50 /\ 41 + 5 <= 50 /\ 46 + 4 <= 50
      /\ 0 + 39 <= 52 /\ 39 + 2 <= 52 /\ 41 + 5 <= 52 /\ 46 + 4 <= 52 /\ 50 + 2 <= 52
  OBVIOUS
<1>7. Holds(a, entry_block, 0, 39) /\ Holds(a, ioctl_block, 39, 2)
  BY <1>1 DEF Splits
<1>8. Holds(items, entry_block, 0, 39)
  <2>1. Holds(b, entry_block, 0, 39)
    BY <1>2, <1>6, <1>7, Further
  <2>2. Holds(c, entry_block, 0, 39)
    BY <1>3, <1>6, <2>1, Further
  <2>3. Holds(d, entry_block, 0, 39)
    BY <1>4, <1>6, <2>2, Further
  <2> QED BY <1>5, <1>6, <2>3, Further
<1>9. Holds(items, ioctl_block, 39, 2)
  <2>1. Holds(b, ioctl_block, 39, 2)
    BY <1>2, <1>6, <1>7, Further
  <2>2. Holds(c, ioctl_block, 39, 2)
    BY <1>3, <1>6, <2>1, Further
  <2>3. Holds(d, ioctl_block, 39, 2)
    BY <1>4, <1>6, <2>2, Further
  <2> QED BY <1>5, <1>6, <2>3, Further
<1>10. Holds(items, socket_block, 41, 5)
  <2>1. Holds(b, socket_block, 41, 5)
    BY <1>2 DEF Splits
  <2>2. Holds(c, socket_block, 41, 5)
    BY <1>3, <1>6, <2>1, Further
  <2>3. Holds(d, socket_block, 41, 5)
    BY <1>4, <1>6, <2>2, Further
  <2> QED BY <1>5, <1>6, <2>3, Further
<1>11. Holds(items, socket_type_block, 46, 4)
  <2>1. Holds(c, socket_type_block, 46, 4)
    BY <1>3 DEF Splits
  <2>2. Holds(d, socket_type_block, 46, 4)
    BY <1>4, <1>6, <2>1, Further
  <2> QED BY <1>5, <1>6, <2>2, Further
<1>12. Holds(items, prctl_block, 50, 2)
  <2>1. Holds(d, prctl_block, 50, 2)
    BY <1>4 DEF Splits
  <2> QED BY <1>5, <1>6, <2>1, Further
<1>13. Holds(items, verdict_block, 52, 3)
  BY <1>5 DEF Splits
<1>14. DOMAIN items = 1..55
  BY <1>5
<1> QED BY <1>5, <1>8, <1>9, <1>10, <1>11, <1>12, <1>13, <1>14

\* Where the labels are.
LEMMA Marks ==
    /\ mark["ioctl"] = 39 /\ mark["socket"] = 41 /\ mark["socket_type"] = 46
    /\ mark["prctl"] = 50 /\ mark["allow"] = 52 /\ mark["notify"] = 53 /\ mark["kill"] = 54
<1>1. /\ Len(entry_block) = 39 /\ Len(ioctl_block) = 2 /\ Len(socket_block) = 5
      /\ Len(socket_type_block) = 4 /\ Len(prctl_block) = 2
  BY EntryBlock, OtherBlocks
<1>2. mark = [ioctl |-> 39, socket |-> 41, socket_type |-> 46, prctl |-> 50,
              allow |-> 52, notify |-> 53, kill |-> 54]
  BY <1>1 DEF mark
<1> QED BY <1>2

-----------------------------------------------------------------------------
(* One instruction of the program, in the kernel.                           *)
Verdicts == {"allow", "notify", "kill"}
States == [at: 1..55, acc: Nat, out: {"none"} \cup Verdicts]
Is(p, code, k, jt, jf) == items[p] = Insn(code, k, jt, jf)
Target(p, label) == IF label = "next" THEN p + 1 ELSE mark[label] + 1
\* A jump that has an encoding.
Reaches(p, label) == label = "next" \/ (label \in Labels /\ p <= mark[label])

\* The program has every instruction, with its labels resolved.
LEMMA Placed ==
    ASSUME NEW p \in 1..55, NEW code, NEW k, NEW jt, NEW jf, Is(p, code, k, jt, jf)
    PROVE  /\ Len(program) = 55
           /\ program[p].code = code /\ program[p].k = k
           /\ program[p].jt = offset(p - 1, jt) /\ program[p].jf = offset(p - 1, jf)
<1>1. DOMAIN items = 1..55
  BY Assembled
<1>2. program = [q \in 1..55 |-> [items[q] EXCEPT !.jt = offset(q - 1, items[q].jt),
                                                  !.jf = offset(q - 1, items[q].jf)]]
  BY <1>1 DEF program
<1>3. program[p] = [items[p] EXCEPT !.jt = offset(p - 1, items[p].jt),
                                    !.jf = offset(p - 1, items[p].jf)]
  BY <1>2
<1>4. items[p] = [code |-> code, k |-> k, jt |-> jt, jf |-> jf]
  BY DEF Is, Insn
<1>5. Len(program) = 55
  <2>1. DOMAIN program = 1..55
    BY <1>2
  <2>2. 55 \in Nat
    OBVIOUS
  <2> QED BY <2>1, <2>2
<1> QED BY <1>3, <1>4, <1>5

\* A jump leads to its label.
LEMMA Lands ==
    ASSUME NEW p \in 1..55, NEW label, Reaches(p, label)
    PROVE  p + 1 + offset(p - 1, label) = Target(p, label)
<1>1. CASE label = "next"
  BY <1>1 DEF offset, Target
<1>2. CASE label # "next"
  <2>1. label \in {"ioctl", "socket", "socket_type", "prctl", "allow", "notify", "kill"}
        /\ p <= mark[label]
    BY <1>2 DEF Reaches, Labels
  <2>2. mark[label] \in 0..54
    BY <2>1, Marks
  <2>3. mark[label] \in ((p - 1) + 1)..((p - 1) + 256)
    BY <2>1, <2>2
  <2>4. offset(p - 1, label) = mark[label] - ((p - 1) + 1)
    BY <1>2, <2>3 DEF offset
  <2> QED BY <1>2, <2>2, <2>4 DEF Target
<1> QED BY <1>1, <1>2

\* Two registers changed at once.
LEMMA Changed ==
    ASSUME NEW s \in [at: Nat, acc: Nat, out: {"none"} \cup Verdicts], NEW p \in Nat, NEW a \in Nat
    PROVE  [s EXCEPT !.at = p, !.acc = a] = [at |-> p, acc |-> a, out |-> s.out]
<1> DEFINE S == [at: Nat, acc: Nat, out: {"none"} \cup Verdicts]
           t == [s EXCEPT !.at = p, !.acc = a]
           u == [at |-> p, acc |-> a, out |-> s.out]
<1>1. t \in S /\ u \in S /\ t.at = u.at /\ t.acc = u.acc /\ t.out = u.out
  OBVIOUS
<1> HIDE DEF t, u
<1>2. t = u
  BY <1>1
<1> QED BY <1>2 DEF t, u

(* What each kind of instruction does: the run goes on, or stops.           *)
Steps(c, s, p, a) == execute(program, c, s) = [at |-> p, acc |-> a, out |-> "none"]
Stops(c, s, v) == execute(program, c, s) = [at |-> s.at, acc |-> s.acc, out |-> v]
\* A load puts a word of the call in the accumulator.
LEMMA Loads ==
    ASSUME NEW c, NEW s \in States, NEW p, s.at = p, s.out = "none", NEW f, c[f] \in Nat,
           Is(p, "ld", f, "next", "next")
    PROVE  Steps(c, s, p + 1, c[f])
<1>1. /\ p \in 1..55 /\ Len(program) = 55 /\ program[p].code = "ld" /\ program[p].k = f
  BY Placed DEF States
<1>2. s = [at |-> p, acc |-> s.acc, out |-> "none"]
  BY DEF States
<1>3. execute(program, c, s) = [s EXCEPT !.at = p + 1, !.acc = c[f]]
  BY <1>1 DEF execute
<1>4. p + 1 \in Nat /\ s \in [at: Nat, acc: Nat, out: {"none"} \cup Verdicts]
  BY <1>1 DEF States
<1>5. [s EXCEPT !.at = p + 1, !.acc = c[f]] = [at |-> p + 1, acc |-> c[f], out |-> s.out]
  BY <1>4, Changed
<1> QED BY <1>3, <1>5 DEF Steps

\* A mask keeps the low bits.
LEMMA Masks ==
    ASSUME NEW c, NEW s \in States, NEW p, s.at = p, s.out = "none", NEW k, s.acc % k \in Nat,
           Is(p, "and", k, "next", "next")
    PROVE  Steps(c, s, p + 1, s.acc % k)
<1>1. /\ p \in 1..55 /\ Len(program) = 55 /\ program[p].code = "and" /\ program[p].k = k
  BY Placed DEF States
<1>2. s = [at |-> p, acc |-> s.acc, out |-> "none"]
  BY DEF States
<1>3. execute(program, c, s) = [s EXCEPT !.at = p + 1, !.acc = s.acc % k]
  BY <1>1 DEF execute
<1>4. p + 1 \in Nat /\ s \in [at: Nat, acc: Nat, out: {"none"} \cup Verdicts]
  BY <1>1 DEF States
<1>5. [s EXCEPT !.at = p + 1, !.acc = s.acc % k] = [at |-> p + 1, acc |-> s.acc % k, out |-> s.out]
  BY <1>4, Changed
<1> QED BY <1>3, <1>5 DEF Steps

\* A return ends the run.
LEMMA Returns ==
    ASSUME NEW c, NEW s \in States, NEW p, s.at = p, s.out = "none", NEW v,
           Is(p, "ret", v, "next", "next")
    PROVE  Stops(c, s, v)
<1>1. /\ p \in 1..55 /\ Len(program) = 55 /\ program[p].code = "ret" /\ program[p].k = v
  BY Placed DEF States
<1>2. s = [at |-> p, acc |-> s.acc, out |-> "none"]
  BY DEF States
<1> QED BY <1>1, <1>2 DEF execute, Steps, Stops

\* An equality test jumps by its outcome.
LEMMA Tests ==
    ASSUME NEW c, NEW s \in States, NEW p, s.at = p, s.out = "none", NEW k, NEW jt, NEW jf,
           Is(p, "jeq", k, jt, jf), Reaches(p, jt), Reaches(p, jf)
    PROVE  /\ s.acc = k => Steps(c, s, Target(p, jt), s.acc)
           /\ s.acc # k => Steps(c, s, Target(p, jf), s.acc)
<1>1. /\ p \in 1..55 /\ Len(program) = 55 /\ program[p].code = "jeq" /\ program[p].k = k
      /\ program[p].jt = offset(p - 1, jt) /\ program[p].jf = offset(p - 1, jf)
  BY Placed DEF States
<1>2. s = [at |-> p, acc |-> s.acc, out |-> "none"]
  BY DEF States
<1>3. /\ p + 1 + offset(p - 1, jt) = Target(p, jt)
      /\ p + 1 + offset(p - 1, jf) = Target(p, jf)
  BY <1>1, Lands
<1> QED BY <1>1, <1>2, <1>3 DEF execute, Steps

\* So does a comparison.
LEMMA Compares ==
    ASSUME NEW c, NEW s \in States, NEW p, s.at = p, s.out = "none", NEW k, NEW jt, NEW jf,
           Is(p, "jge", k, jt, jf), Reaches(p, jt), Reaches(p, jf)
    PROVE  /\ s.acc >= k => Steps(c, s, Target(p, jt), s.acc)
           /\ ~(s.acc >= k) => Steps(c, s, Target(p, jf), s.acc)
<1>1. /\ p \in 1..55 /\ Len(program) = 55 /\ program[p].code = "jge" /\ program[p].k = k
      /\ program[p].jt = offset(p - 1, jt) /\ program[p].jf = offset(p - 1, jf)
  BY Placed DEF States
<1>2. s = [at |-> p, acc |-> s.acc, out |-> "none"]
  BY DEF States
<1>3. /\ p + 1 + offset(p - 1, jt) = Target(p, jt)
      /\ p + 1 + offset(p - 1, jf) = Target(p, jf)
  BY <1>1, Lands
<1> QED BY <1>1, <1>2, <1>3 DEF execute, Steps

\* The listing.
LEMMA Listing ==
    /\ Is(1, "ld", "arch", "next", "next") /\ Is(2, "jeq", AUDIT_ARCH_X86_64, "next", "kill")
    /\ Is(3, "ld", "nr", "next", "next") /\ Is(4, "jge", X32_SYSCALL_BIT, "kill", "next")
    /\ \A i \in 1..31 : Is(4 + i, "jeq", DENIED[i], "notify", "next")
    /\ Is(36, "jeq", SYS_ioctl, "ioctl", "next") /\ Is(37, "jeq", SYS_socket, "socket", "next")
    /\ Is(38, "jeq", SYS_prctl, "prctl", "next") /\ Is(39, "ret", "allow", "next", "next")
    /\ Is(40, "ld", "arg1", "next", "next") /\ Is(41, "jeq", TIOCSTI, "notify", "allow")
    /\ Is(42, "ld", "arg0", "next", "next") /\ Is(43, "jeq", AF_PACKET, "notify", "next")
    /\ Is(44, "jeq", AF_NETLINK, "next", "socket_type")
    /\ Is(45, "ld", "arg2", "next", "next") /\ Is(46, "jeq", NETLINK_ROUTE, "allow", "notify")
    /\ Is(47, "ld", "arg1", "next", "next") /\ Is(48, "and", SOCK_TYPE_MASK, "next", "next")
    /\ Is(49, "jeq", SOCK_RAW, "notify", "next") /\ Is(50, "jeq", SOCK_PACKET, "notify", "allow")
    /\ Is(51, "ld", "arg0", "next", "next") /\ Is(52, "jeq", PR_SET_SECCOMP, "notify", "allow")
    /\ Is(53, "ret", "allow", "next", "next") /\ Is(54, "ret", "notify", "next", "next")
    /\ Is(55, "ret", "kill", "next", "next")
<1>1. \A i \in 1..39 : items[i] = entry_block[i]
  <2>1. \A i \in 1..39 : items[0 + i] = entry_block[i]
    BY Assembled DEF Holds
  <2>2. \A i \in 1..39 : 0 + i = i
    OBVIOUS
  <2> QED BY <2>1, <2>2
<1>2. Is(1, "ld", "arch", "next", "next") /\ Is(2, "jeq", AUDIT_ARCH_X86_64, "next", "kill")
  <2>1. 1 \in 1..39 /\ 2 \in 1..39
    OBVIOUS
  <2> QED BY <1>1, <2>1, EntryBlock DEF Is, Ld, Jeq
<1>3. Is(3, "ld", "nr", "next", "next") /\ Is(4, "jge", X32_SYSCALL_BIT, "kill", "next")
  <2>1. 3 \in 1..39 /\ 4 \in 1..39
    OBVIOUS
  <2> QED BY <1>1, <2>1, EntryBlock DEF Is, Ld
<1>4. ASSUME NEW i \in 1..31 PROVE Is(4 + i, "jeq", DENIED[i], "notify", "next")
  <2>1. 4 + i \in 1..39
    OBVIOUS
  <2>2. entry_block[4 + i] = Jeq(DENIED[i], "notify", "next")
    BY EntryBlock
  <2> QED BY <1>1, <2>1, <2>2 DEF Is, Jeq
<1>5. /\ Is(36, "jeq", SYS_ioctl, "ioctl", "next") /\ Is(37, "jeq", SYS_socket, "socket", "next")
      /\ Is(38, "jeq", SYS_prctl, "prctl", "next") /\ Is(39, "ret", "allow", "next", "next")
  <2>1. 36 \in 1..39 /\ 37 \in 1..39 /\ 38 \in 1..39 /\ 39 \in 1..39
    OBVIOUS
  <2> QED BY <1>1, <2>1, EntryBlock DEF Is, Jeq, Ret
<1>6. Is(40, "ld", "arg1", "next", "next") /\ Is(41, "jeq", TIOCSTI, "notify", "allow")
  <2>1. 1 \in 1..2 /\ 2 \in 1..2 /\ 39 + 1 = 40 /\ 39 + 2 = 41
    OBVIOUS
  <2>2. items[40] = ioctl_block[1] /\ items[41] = ioctl_block[2]
    BY <2>1, Assembled DEF Holds
  <2> QED BY <2>2, OtherBlocks DEF Is, Ld, Jeq
<1>7. /\ Is(42, "ld", "arg0", "next", "next") /\ Is(43, "jeq", AF_PACKET, "notify", "next")
      /\ Is(44, "jeq", AF_NETLINK, "next", "socket_type")
      /\ Is(45, "ld", "arg2", "next", "next") /\ Is(46, "jeq", NETLINK_ROUTE, "allow", "notify")
  <2>1. /\ 1 \in 1..5 /\ 2 \in 1..5 /\ 3 \in 1..5 /\ 4 \in 1..5 /\ 5 \in 1..5
        /\ 41 + 1 = 42 /\ 41 + 2 = 43 /\ 41 + 3 = 44 /\ 41 + 4 = 45 /\ 41 + 5 = 46
    OBVIOUS
  <2>2. /\ items[42] = socket_block[1] /\ items[43] = socket_block[2]
        /\ items[44] = socket_block[3] /\ items[45] = socket_block[4]
        /\ items[46] = socket_block[5]
    BY <2>1, Assembled DEF Holds
  <2> QED BY <2>2, OtherBlocks DEF Is, Ld, Jeq
<1>8. /\ Is(47, "ld", "arg1", "next", "next") /\ Is(48, "and", SOCK_TYPE_MASK, "next", "next")
      /\ Is(49, "jeq", SOCK_RAW, "notify", "next") /\ Is(50, "jeq", SOCK_PACKET, "notify", "allow")
  <2>1. /\ 1 \in 1..4 /\ 2 \in 1..4 /\ 3 \in 1..4 /\ 4 \in 1..4
        /\ 46 + 1 = 47 /\ 46 + 2 = 48 /\ 46 + 3 = 49 /\ 46 + 4 = 50
    OBVIOUS
  <2>2. /\ items[47] = socket_type_block[1] /\ items[48] = socket_type_block[2]
        /\ items[49] = socket_type_block[3] /\ items[50] = socket_type_block[4]
    BY <2>1, Assembled DEF Holds
  <2> QED BY <2>2, OtherBlocks DEF Is, Ld, Jeq
<1>9. Is(51, "ld", "arg0", "next", "next") /\ Is(52, "jeq", PR_SET_SECCOMP, "notify", "allow")
  <2>1. 1 \in 1..2 /\ 2 \in 1..2 /\ 50 + 1 = 51 /\ 50 + 2 = 52
    OBVIOUS
  <2>2. items[51] = prctl_block[1] /\ items[52] = prctl_block[2]
    BY <2>1, Assembled DEF Holds
  <2> QED BY <2>2, OtherBlocks DEF Is, Ld, Jeq
<1>10. /\ Is(53, "ret", "allow", "next", "next") /\ Is(54, "ret", "notify", "next", "next")
       /\ Is(55, "ret", "kill", "next", "next")
  <2>1. /\ 1 \in 1..3 /\ 2 \in 1..3 /\ 3 \in 1..3
        /\ 52 + 1 = 53 /\ 52 + 2 = 54 /\ 52 + 3 = 55
    OBVIOUS
  <2>2. /\ items[53] = verdict_block[1] /\ items[54] = verdict_block[2]
        /\ items[55] = verdict_block[3]
    BY <2>1, Assembled DEF Holds
  <2> QED BY <2>2, OtherBlocks DEF Is, Ret
<1> QED BY <1>2, <1>3, <1>4, <1>5, <1>6, <1>7, <1>8, <1>9, <1>10

-----------------------------------------------------------------------------
(* A run of the program on a call.                                          *)
Native(c) == c.arch = AUDIT_ARCH_X86_64 /\ c.nr < X32_SYSCALL_BIT
Undenied(c) == Native(c) /\ \A i \in 1..31 : c.nr # DENIED[i]
Socket(c) == Undenied(c) /\ c.nr = SYS_socket
\* Neither of the families the program knows: the type decides.
Plain(c) == Socket(c) /\ c.arg0 # AF_PACKET /\ c.arg0 # AF_NETLINK

\* What is known of the call when the program is at an instruction.
Checks(c, p, acc) ==
    /\ p = 2 => acc = c.arch
    /\ p \in 3..4 => c.arch = AUDIT_ARCH_X86_64
    /\ p = 4 => acc = c.nr
    /\ p \in 5..39 => Native(c) /\ acc = c.nr
    /\ p \in 5..35 => \A i \in 1..31 : i <= p - 5 => c.nr # DENIED[i]
    /\ p \in 36..39 => Undenied(c)
    /\ p \in 37..39 => c.nr # SYS_ioctl
    /\ p \in 38..39 => c.nr # SYS_socket
    /\ p = 39 => c.nr # SYS_prctl
Jumps(c, p, acc) ==
    /\ p \in 40..41 => Undenied(c) /\ c.nr = SYS_ioctl
    /\ p = 41 => acc = c.arg1
    /\ p \in 42..46 => Socket(c)
    /\ p \in 43..44 => acc = c.arg0
    /\ p = 44 => c.arg0 # AF_PACKET
    /\ p \in 45..46 => c.arg0 = AF_NETLINK
    /\ p = 46 => acc = c.arg2
    /\ p \in 47..50 => Plain(c)
    /\ p = 48 => acc = c.arg1
    /\ p \in 49..50 => acc = c.arg1 % 256
    /\ p = 50 => acc # SOCK_RAW
    /\ p \in 51..52 => Undenied(c) /\ c.nr = SYS_prctl
    /\ p = 52 => acc = c.arg0
Ends(c, p) == /\ p = 53 => Intended(c) = "allow"
              /\ p = 54 => Intended(c) = "notify"
              /\ p = 55 => Intended(c) = "kill"
Good(c, s) == /\ s \in States
              /\ s.out = "none" => Checks(c, s.at, s.acc) /\ Jumps(c, s.at, s.acc)
                                   /\ Ends(c, s.at)
              /\ s.out # "none" => s.out = Intended(c)
\* A step: still right, and further on.
Advances(c, s) == LET t == execute(program, c, s)
                  IN  Good(c, t) /\ (t.out # "none" \/ t.at > s.at)

\* What the calls hold.
LEMMA CallWords ==
    ASSUME NEW c \in SystemCalls
    PROVE  /\ c.arch \in Nat /\ c.nr \in Nat /\ c.arg0 \in Nat /\ c.arg1 \in Nat /\ c.arg2 \in Nat
           /\ c["arch"] = c.arch /\ c["nr"] = c.nr /\ c["arg0"] = c.arg0
           /\ c["arg1"] = c.arg1 /\ c["arg2"] = c.arg2
BY DEF SystemCalls

\* Where the jumps lead.
LEMMA Targets ==
    /\ \A p : Target(p, "next") = p + 1
    /\ \A p : Target(p, "ioctl") = 40 /\ Target(p, "socket") = 42 /\ Target(p, "socket_type") = 47
              /\ Target(p, "prctl") = 51 /\ Target(p, "allow") = 53 /\ Target(p, "notify") = 54
              /\ Target(p, "kill") = 55
    /\ \A p : Reaches(p, "next")
    /\ \A p \in 1..52 : Reaches(p, "allow") /\ Reaches(p, "notify") /\ Reaches(p, "kill")
    /\ \A p \in 1..39 : Reaches(p, "ioctl") /\ Reaches(p, "socket") /\ Reaches(p, "prctl")
    /\ \A p \in 40..46 : Reaches(p, "socket_type")
<1>1. /\ \A p : Target(p, "next") = p + 1
      /\ \A p : Target(p, "ioctl") = 39 + 1 /\ Target(p, "socket") = 41 + 1
                /\ Target(p, "socket_type") = 46 + 1
                /\ Target(p, "prctl") = 50 + 1 /\ Target(p, "allow") = 52 + 1
                /\ Target(p, "notify") = 53 + 1 /\ Target(p, "kill") = 54 + 1
  BY Marks DEF Target
<1>2. /\ \A p : Reaches(p, "next")
      /\ \A p \in 1..52 : Reaches(p, "allow") /\ Reaches(p, "notify") /\ Reaches(p, "kill")
      /\ \A p \in 1..39 : Reaches(p, "ioctl") /\ Reaches(p, "socket") /\ Reaches(p, "prctl")
      /\ \A p \in 40..46 : Reaches(p, "socket_type")
  BY Marks DEF Reaches, Labels
<1> QED BY <1>1, <1>2

\* What is intended of a call, by what is known of it.
LEMMA Meant ==
    ASSUME NEW c \in SystemCalls
    PROVE  /\ ~Native(c) => Intended(c) = "kill"
           /\ \A i \in 1..31 : Native(c) /\ c.nr = DENIED[i] => Intended(c) = "notify"
           /\ Undenied(c) /\ c.nr \notin {SYS_ioctl, SYS_socket, SYS_prctl} =>
                 Intended(c) = "allow"
           /\ Undenied(c) /\ c.nr = SYS_ioctl =>
                 Intended(c) = IF c.arg1 = TIOCSTI THEN "notify" ELSE "allow"
           /\ Undenied(c) /\ c.nr = SYS_prctl =>
                 Intended(c) = IF c.arg0 = PR_SET_SECCOMP THEN "notify" ELSE "allow"
           /\ Socket(c) /\ c.arg0 = AF_PACKET => Intended(c) = "notify"
           /\ Socket(c) /\ c.arg0 = AF_NETLINK =>
                 Intended(c) = IF c.arg2 = NETLINK_ROUTE THEN "allow" ELSE "notify"
           /\ Plain(c) => Intended(c) = IF c.arg1 % 256 \in {SOCK_RAW, SOCK_PACKET}
                                          THEN "notify" ELSE "allow"
<1>0. X32_SYSCALL_BIT \in Nat /\ c.nr \in Nat
  BY Words, CallWords
<1>1. Native(c) <=> ~(c.arch # AUDIT_ARCH_X86_64 \/ c.nr >= X32_SYSCALL_BIT)
  BY <1>0 DEF Native
<1>2. /\ ~Native(c) => Intended(c) = "kill"
      /\ Native(c) => Intended(c) = IF Refuses(c) THEN "notify" ELSE "allow"
  BY <1>1 DEF Intended
<1>3. DOMAIN DENIED = 1..31
  BY DeniedNumbers
<1>4. SYS_ioctl = 16 /\ SYS_socket = 41 /\ SYS_prctl = 157 /\ AF_PACKET = 17 /\ AF_NETLINK = 16
  BY DEF SYS_ioctl, SYS_socket, SYS_prctl, AF_PACKET, AF_NETLINK
<1>5. \A i \in 1..31 : Native(c) /\ c.nr = DENIED[i] => Intended(c) = "notify"
  BY <1>2, <1>3 DEF Refuses
<1>6. Undenied(c) => Native(c) /\ ~\E i \in DOMAIN DENIED : c.nr = DENIED[i]
  BY <1>3 DEF Undenied
<1>7. Undenied(c) /\ c.nr \notin {SYS_ioctl, SYS_socket, SYS_prctl} => Intended(c) = "allow"
  BY <1>2, <1>6 DEF Refuses
<1>8. Undenied(c) /\ c.nr = SYS_ioctl =>
          Intended(c) = IF c.arg1 = TIOCSTI THEN "notify" ELSE "allow"
  BY <1>2, <1>4, <1>6 DEF Refuses
<1>9. Undenied(c) /\ c.nr = SYS_prctl =>
          Intended(c) = IF c.arg0 = PR_SET_SECCOMP THEN "notify" ELSE "allow"
  BY <1>2, <1>4, <1>6 DEF Refuses
<1>10. Socket(c) => (Refuses(c) <=> IF c.arg0 = AF_NETLINK
                                      THEN c.arg2 # NETLINK_ROUTE
                                      ELSE \/ c.arg0 = AF_PACKET
                                           \/ c.arg1 % 256 \in {SOCK_RAW, SOCK_PACKET})
  BY <1>4, <1>6 DEF Refuses, Socket
<1>11. Socket(c) => Native(c)
  BY <1>6 DEF Socket
<1>12. AF_PACKET # AF_NETLINK
  BY <1>4
<1>13. Socket(c) /\ c.arg0 = AF_PACKET => Intended(c) = "notify"
  BY <1>2, <1>10, <1>11, <1>12
<1>14. Socket(c) /\ c.arg0 = AF_NETLINK =>
           Intended(c) = IF c.arg2 = NETLINK_ROUTE THEN "allow" ELSE "notify"
  BY <1>2, <1>10, <1>11
<1>15. Plain(c) => Intended(c) = IF c.arg1 % 256 \in {SOCK_RAW, SOCK_PACKET}
                                   THEN "notify" ELSE "allow"
  BY <1>2, <1>10, <1>11 DEF Plain
<1> QED BY <1>2, <1>5, <1>7, <1>8, <1>9, <1>13, <1>14, <1>15

\* A step that goes on...
LEMMA Onward ==
    ASSUME NEW c, NEW s \in States, NEW p \in 1..55, NEW a \in Nat,
           Steps(c, s, p, a), p > s.at, Checks(c, p, a), Jumps(c, p, a), Ends(c, p)
    PROVE  Advances(c, s)
<1> DEFINE t == [at |-> p, acc |-> a, out |-> "none"]
<1>1. t \in States /\ t.at = p /\ t.acc = a /\ t.out = "none"
  BY DEF States
<1> HIDE DEF t
<1>2. execute(program, c, s) = t
  BY DEF t, Steps
<1> QED BY <1>1, <1>2 DEF Advances, Good
\* ...and one that ends the run.
LEMMA Ended ==
    ASSUME NEW c, NEW s \in States, NEW v \in Verdicts, Stops(c, s, v), v = Intended(c)
    PROVE  Advances(c, s)
<1> DEFINE t == [at |-> s.at, acc |-> s.acc, out |-> v]
<1>1. t \in States /\ t.out = v /\ v # "none"
  BY DEF States, Verdicts
<1> HIDE DEF t
<1>2. execute(program, c, s) = t
  BY DEF t, Stops
<1> QED BY <1>1, <1>2 DEF Advances, Good

\* Instruction 1: a load.
LEMMA At1 ==
    ASSUME NEW c \in SystemCalls, NEW s, Good(c, s), s.out = "none", s.at = 1
    PROVE  Advances(c, s)
<1>1. s \in States /\ Checks(c, 1, s.acc) /\ Jumps(c, 1, s.acc)
  BY DEF Good
<1>2. Steps(c, s, 2, c.arch)
  <2>1. Is(1, "ld", "arch", "next", "next")
    BY Listing
  <2>2. c["arch"] \in Nat /\ c["arch"] = c.arch
    BY CallWords
  <2>3. Steps(c, s, 1 + 1, c["arch"])
    BY <1>1, <2>1, <2>2, Loads
  <2> QED BY <2>2, <2>3
<1>3. Checks(c, 2, c.arch) /\ Jumps(c, 2, c.arch) /\ Ends(c, 2)
  BY <1>1 DEF Checks, Jumps, Ends
<1>4. c.arch \in Nat /\ 2 \in 1..55 /\ 2 > s.at
  BY CallWords
<1> QED BY <1>1, <1>2, <1>3, <1>4, Onward

\* Instruction 2: a jump.
LEMMA At2 ==
    ASSUME NEW c \in SystemCalls, NEW s, Good(c, s), s.out = "none", s.at = 2
    PROVE  Advances(c, s)
<1>1. s \in States /\ Checks(c, 2, s.acc) /\ Jumps(c, 2, s.acc)
  BY DEF Good
<1>2. /\ s.acc = AUDIT_ARCH_X86_64 => Steps(c, s, Target(2, "next"), s.acc)
      /\ ~(s.acc = AUDIT_ARCH_X86_64) => Steps(c, s, Target(2, "kill"), s.acc)
  <2>1. Is(2, "jeq", AUDIT_ARCH_X86_64, "next", "kill")
    BY Listing
  <2>2. Reaches(2, "next") /\ Reaches(2, "kill")
    BY Targets
  <2> QED BY <1>1, <2>1, <2>2, Tests
<1>3. 3 \in 1..55 /\ 55 \in 1..55 /\ 3 > s.at /\ 55 > s.at /\ s.acc \in Nat
  BY <1>1 DEF States
<1>4. CASE s.acc = AUDIT_ARCH_X86_64
  <2>1. Steps(c, s, 3, s.acc)
    BY <1>2, <1>4, Targets
  <2>2. Checks(c, 3, s.acc) /\ Jumps(c, 3, s.acc) /\ Ends(c, 3)
    BY <1>1, <1>4, Meant DEF Checks, Jumps, Ends, Native
  <2> QED BY <1>1, <1>3, <2>1, <2>2, Onward
<1>5. CASE ~(s.acc = AUDIT_ARCH_X86_64)
  <2>1. Steps(c, s, 55, s.acc)
    BY <1>2, <1>5, Targets
  <2>2. Checks(c, 55, s.acc) /\ Jumps(c, 55, s.acc) /\ Ends(c, 55)
    BY <1>1, <1>5, Meant DEF Checks, Jumps, Ends, Native
  <2> QED BY <1>1, <1>3, <2>1, <2>2, Onward
<1> QED BY <1>4, <1>5

\* Instruction 3: a load.
LEMMA At3 ==
    ASSUME NEW c \in SystemCalls, NEW s, Good(c, s), s.out = "none", s.at = 3
    PROVE  Advances(c, s)
<1>1. s \in States /\ Checks(c, 3, s.acc) /\ Jumps(c, 3, s.acc)
  BY DEF Good
<1>2. Steps(c, s, 4, c.nr)
  <2>1. Is(3, "ld", "nr", "next", "next")
    BY Listing
  <2>2. c["nr"] \in Nat /\ c["nr"] = c.nr
    BY CallWords
  <2>3. Steps(c, s, 3 + 1, c["nr"])
    BY <1>1, <2>1, <2>2, Loads
  <2> QED BY <2>2, <2>3
<1>3. Checks(c, 4, c.nr) /\ Jumps(c, 4, c.nr) /\ Ends(c, 4)
  BY <1>1 DEF Checks, Jumps, Ends
<1>4. c.nr \in Nat /\ 4 \in 1..55 /\ 4 > s.at
  BY CallWords
<1> QED BY <1>1, <1>2, <1>3, <1>4, Onward

\* Instruction 4: a jump.
LEMMA At4 ==
    ASSUME NEW c \in SystemCalls, NEW s, Good(c, s), s.out = "none", s.at = 4
    PROVE  Advances(c, s)
<1>1. s \in States /\ Checks(c, 4, s.acc) /\ Jumps(c, 4, s.acc)
  BY DEF Good
<1>2. /\ s.acc >= X32_SYSCALL_BIT => Steps(c, s, Target(4, "kill"), s.acc)
      /\ ~(s.acc >= X32_SYSCALL_BIT) => Steps(c, s, Target(4, "next"), s.acc)
  <2>1. Is(4, "jge", X32_SYSCALL_BIT, "kill", "next")
    BY Listing
  <2>2. Reaches(4, "kill") /\ Reaches(4, "next")
    BY Targets
  <2> QED BY <1>1, <2>1, <2>2, Compares
<1>3. 55 \in 1..55 /\ 5 \in 1..55 /\ 55 > s.at /\ 5 > s.at /\ s.acc \in Nat
  BY <1>1 DEF States
<1>4. CASE s.acc >= X32_SYSCALL_BIT
  <2>1. Steps(c, s, 55, s.acc)
    BY <1>2, <1>4, Targets
  <2>2. Checks(c, 55, s.acc) /\ Jumps(c, 55, s.acc) /\ Ends(c, 55)
    BY <1>1, <1>4, Meant, Words, CallWords DEF Checks, Jumps, Ends, Native
  <2> QED BY <1>1, <1>3, <2>1, <2>2, Onward
<1>5. CASE ~(s.acc >= X32_SYSCALL_BIT)
  <2>1. Steps(c, s, 5, s.acc)
    BY <1>2, <1>5, Targets
  <2>2. Checks(c, 5, s.acc) /\ Jumps(c, 5, s.acc) /\ Ends(c, 5)
    BY <1>1, <1>5, Meant, Words, CallWords DEF Checks, Jumps, Ends, Native
  <2> QED BY <1>1, <1>3, <2>1, <2>2, Onward
<1> QED BY <1>4, <1>5

\* Instruction 36: a jump.
LEMMA At36 ==
    ASSUME NEW c \in SystemCalls, NEW s, Good(c, s), s.out = "none", s.at = 36
    PROVE  Advances(c, s)
<1>1. s \in States /\ Checks(c, 36, s.acc) /\ Jumps(c, 36, s.acc)
  BY DEF Good
<1>2. /\ s.acc = SYS_ioctl => Steps(c, s, Target(36, "ioctl"), s.acc)
      /\ ~(s.acc = SYS_ioctl) => Steps(c, s, Target(36, "next"), s.acc)
  <2>1. Is(36, "jeq", SYS_ioctl, "ioctl", "next")
    BY Listing
  <2>2. Reaches(36, "ioctl") /\ Reaches(36, "next")
    BY Targets
  <2> QED BY <1>1, <2>1, <2>2, Tests
<1>3. 40 \in 1..55 /\ 37 \in 1..55 /\ 40 > s.at /\ 37 > s.at /\ s.acc \in Nat
  BY <1>1 DEF States
<1>4. CASE s.acc = SYS_ioctl
  <2>1. Steps(c, s, 40, s.acc)
    BY <1>2, <1>4, Targets
  <2>2. Checks(c, 40, s.acc) /\ Jumps(c, 40, s.acc) /\ Ends(c, 40)
    BY <1>1, <1>4, Meant DEF Checks, Jumps, Ends
  <2> QED BY <1>1, <1>3, <2>1, <2>2, Onward
<1>5. CASE ~(s.acc = SYS_ioctl)
  <2>1. Steps(c, s, 37, s.acc)
    BY <1>2, <1>5, Targets
  <2>2. Checks(c, 37, s.acc) /\ Jumps(c, 37, s.acc) /\ Ends(c, 37)
    BY <1>1, <1>5, Meant DEF Checks, Jumps, Ends
  <2> QED BY <1>1, <1>3, <2>1, <2>2, Onward
<1> QED BY <1>4, <1>5

\* Instruction 37: a jump.
LEMMA At37 ==
    ASSUME NEW c \in SystemCalls, NEW s, Good(c, s), s.out = "none", s.at = 37
    PROVE  Advances(c, s)
<1>1. s \in States /\ Checks(c, 37, s.acc) /\ Jumps(c, 37, s.acc)
  BY DEF Good
<1>2. /\ s.acc = SYS_socket => Steps(c, s, Target(37, "socket"), s.acc)
      /\ ~(s.acc = SYS_socket) => Steps(c, s, Target(37, "next"), s.acc)
  <2>1. Is(37, "jeq", SYS_socket, "socket", "next")
    BY Listing
  <2>2. Reaches(37, "socket") /\ Reaches(37, "next")
    BY Targets
  <2> QED BY <1>1, <2>1, <2>2, Tests
<1>3. 42 \in 1..55 /\ 38 \in 1..55 /\ 42 > s.at /\ 38 > s.at /\ s.acc \in Nat
  BY <1>1 DEF States
<1>4. CASE s.acc = SYS_socket
  <2>1. Steps(c, s, 42, s.acc)
    BY <1>2, <1>4, Targets
  <2>2. Checks(c, 42, s.acc) /\ Jumps(c, 42, s.acc) /\ Ends(c, 42)
    BY <1>1, <1>4, Meant DEF Checks, Jumps, Ends, Socket
  <2> QED BY <1>1, <1>3, <2>1, <2>2, Onward
<1>5. CASE ~(s.acc = SYS_socket)
  <2>1. Steps(c, s, 38, s.acc)
    BY <1>2, <1>5, Targets
  <2>2. Checks(c, 38, s.acc) /\ Jumps(c, 38, s.acc) /\ Ends(c, 38)
    BY <1>1, <1>5, Meant DEF Checks, Jumps, Ends, Socket
  <2> QED BY <1>1, <1>3, <2>1, <2>2, Onward
<1> QED BY <1>4, <1>5

\* Instruction 38: a jump.
LEMMA At38 ==
    ASSUME NEW c \in SystemCalls, NEW s, Good(c, s), s.out = "none", s.at = 38
    PROVE  Advances(c, s)
<1>1. s \in States /\ Checks(c, 38, s.acc) /\ Jumps(c, 38, s.acc)
  BY DEF Good
<1>2. /\ s.acc = SYS_prctl => Steps(c, s, Target(38, "prctl"), s.acc)
      /\ ~(s.acc = SYS_prctl) => Steps(c, s, Target(38, "next"), s.acc)
  <2>1. Is(38, "jeq", SYS_prctl, "prctl", "next")
    BY Listing
  <2>2. Reaches(38, "prctl") /\ Reaches(38, "next")
    BY Targets
  <2> QED BY <1>1, <2>1, <2>2, Tests
<1>3. 51 \in 1..55 /\ 39 \in 1..55 /\ 51 > s.at /\ 39 > s.at /\ s.acc \in Nat
  BY <1>1 DEF States
<1>4. CASE s.acc = SYS_prctl
  <2>1. Steps(c, s, 51, s.acc)
    BY <1>2, <1>4, Targets
  <2>2. Checks(c, 51, s.acc) /\ Jumps(c, 51, s.acc) /\ Ends(c, 51)
    BY <1>1, <1>4, Meant DEF Checks, Jumps, Ends
  <2> QED BY <1>1, <1>3, <2>1, <2>2, Onward
<1>5. CASE ~(s.acc = SYS_prctl)
  <2>1. Steps(c, s, 39, s.acc)
    BY <1>2, <1>5, Targets
  <2>2. Checks(c, 39, s.acc) /\ Jumps(c, 39, s.acc) /\ Ends(c, 39)
    BY <1>1, <1>5, Meant DEF Checks, Jumps, Ends
  <2> QED BY <1>1, <1>3, <2>1, <2>2, Onward
<1> QED BY <1>4, <1>5

\* Instruction 39: a verdict.
LEMMA At39 ==
    ASSUME NEW c \in SystemCalls, NEW s, Good(c, s), s.out = "none", s.at = 39
    PROVE  Advances(c, s)
<1>1. s \in States /\ Checks(c, 39, s.acc) /\ Ends(c, 39)
  BY DEF Good
<1>2. Intended(c) = "allow" /\ "allow" \in Verdicts
  BY <1>1, Meant DEF Checks, Ends, Verdicts
<1>3. Stops(c, s, "allow")
  BY <1>1, Listing, Returns
<1> QED BY <1>1, <1>2, <1>3, Ended

\* Instruction 40: a load.
LEMMA At40 ==
    ASSUME NEW c \in SystemCalls, NEW s, Good(c, s), s.out = "none", s.at = 40
    PROVE  Advances(c, s)
<1>1. s \in States /\ Checks(c, 40, s.acc) /\ Jumps(c, 40, s.acc)
  BY DEF Good
<1>2. Steps(c, s, 41, c.arg1)
  <2>1. Is(40, "ld", "arg1", "next", "next")
    BY Listing
  <2>2. c["arg1"] \in Nat /\ c["arg1"] = c.arg1
    BY CallWords
  <2>3. Steps(c, s, 40 + 1, c["arg1"])
    BY <1>1, <2>1, <2>2, Loads
  <2> QED BY <2>2, <2>3
<1>3. Checks(c, 41, c.arg1) /\ Jumps(c, 41, c.arg1) /\ Ends(c, 41)
  BY <1>1 DEF Checks, Jumps, Ends
<1>4. c.arg1 \in Nat /\ 41 \in 1..55 /\ 41 > s.at
  BY CallWords
<1> QED BY <1>1, <1>2, <1>3, <1>4, Onward

\* Instruction 41: a jump.
LEMMA At41 ==
    ASSUME NEW c \in SystemCalls, NEW s, Good(c, s), s.out = "none", s.at = 41
    PROVE  Advances(c, s)
<1>1. s \in States /\ Checks(c, 41, s.acc) /\ Jumps(c, 41, s.acc)
  BY DEF Good
<1>2. /\ s.acc = TIOCSTI => Steps(c, s, Target(41, "notify"), s.acc)
      /\ ~(s.acc = TIOCSTI) => Steps(c, s, Target(41, "allow"), s.acc)
  <2>1. Is(41, "jeq", TIOCSTI, "notify", "allow")
    BY Listing
  <2>2. Reaches(41, "notify") /\ Reaches(41, "allow")
    BY Targets
  <2> QED BY <1>1, <2>1, <2>2, Tests
<1>3. 54 \in 1..55 /\ 53 \in 1..55 /\ 54 > s.at /\ 53 > s.at /\ s.acc \in Nat
  BY <1>1 DEF States
<1>4. CASE s.acc = TIOCSTI
  <2>1. Steps(c, s, 54, s.acc)
    BY <1>2, <1>4, Targets
  <2>2. Checks(c, 54, s.acc) /\ Jumps(c, 54, s.acc) /\ Ends(c, 54)
    BY <1>1, <1>4, Meant DEF Checks, Jumps, Ends
  <2> QED BY <1>1, <1>3, <2>1, <2>2, Onward
<1>5. CASE ~(s.acc = TIOCSTI)
  <2>1. Steps(c, s, 53, s.acc)
    BY <1>2, <1>5, Targets
  <2>2. Checks(c, 53, s.acc) /\ Jumps(c, 53, s.acc) /\ Ends(c, 53)
    BY <1>1, <1>5, Meant DEF Checks, Jumps, Ends
  <2> QED BY <1>1, <1>3, <2>1, <2>2, Onward
<1> QED BY <1>4, <1>5

\* Instruction 42: a load.
LEMMA At42 ==
    ASSUME NEW c \in SystemCalls, NEW s, Good(c, s), s.out = "none", s.at = 42
    PROVE  Advances(c, s)
<1>1. s \in States /\ Checks(c, 42, s.acc) /\ Jumps(c, 42, s.acc)
  BY DEF Good
<1>2. Steps(c, s, 43, c.arg0)
  <2>1. Is(42, "ld", "arg0", "next", "next")
    BY Listing
  <2>2. c["arg0"] \in Nat /\ c["arg0"] = c.arg0
    BY CallWords
  <2>3. Steps(c, s, 42 + 1, c["arg0"])
    BY <1>1, <2>1, <2>2, Loads
  <2> QED BY <2>2, <2>3
<1>3. Checks(c, 43, c.arg0) /\ Jumps(c, 43, c.arg0) /\ Ends(c, 43)
  BY <1>1 DEF Checks, Jumps, Ends
<1>4. c.arg0 \in Nat /\ 43 \in 1..55 /\ 43 > s.at
  BY CallWords
<1> QED BY <1>1, <1>2, <1>3, <1>4, Onward

\* Instruction 43: a jump.
LEMMA At43 ==
    ASSUME NEW c \in SystemCalls, NEW s, Good(c, s), s.out = "none", s.at = 43
    PROVE  Advances(c, s)
<1>1. s \in States /\ Checks(c, 43, s.acc) /\ Jumps(c, 43, s.acc)
  BY DEF Good
<1>2. /\ s.acc = AF_PACKET => Steps(c, s, Target(43, "notify"), s.acc)
      /\ ~(s.acc = AF_PACKET) => Steps(c, s, Target(43, "next"), s.acc)
  <2>1. Is(43, "jeq", AF_PACKET, "notify", "next")
    BY Listing
  <2>2. Reaches(43, "notify") /\ Reaches(43, "next")
    BY Targets
  <2> QED BY <1>1, <2>1, <2>2, Tests
<1>3. 54 \in 1..55 /\ 44 \in 1..55 /\ 54 > s.at /\ 44 > s.at /\ s.acc \in Nat
  BY <1>1 DEF States
<1>4. CASE s.acc = AF_PACKET
  <2>1. Steps(c, s, 54, s.acc)
    BY <1>2, <1>4, Targets
  <2>2. Checks(c, 54, s.acc) /\ Jumps(c, 54, s.acc) /\ Ends(c, 54)
    BY <1>1, <1>4, Meant DEF Checks, Jumps, Ends
  <2> QED BY <1>1, <1>3, <2>1, <2>2, Onward
<1>5. CASE ~(s.acc = AF_PACKET)
  <2>1. Steps(c, s, 44, s.acc)
    BY <1>2, <1>5, Targets
  <2>2. Checks(c, 44, s.acc) /\ Jumps(c, 44, s.acc) /\ Ends(c, 44)
    BY <1>1, <1>5, Meant DEF Checks, Jumps, Ends
  <2> QED BY <1>1, <1>3, <2>1, <2>2, Onward
<1> QED BY <1>4, <1>5

\* Instruction 44: a jump.
LEMMA At44 ==
    ASSUME NEW c \in SystemCalls, NEW s, Good(c, s), s.out = "none", s.at = 44
    PROVE  Advances(c, s)
<1>1. s \in States /\ Checks(c, 44, s.acc) /\ Jumps(c, 44, s.acc)
  BY DEF Good
<1>2. /\ s.acc = AF_NETLINK => Steps(c, s, Target(44, "next"), s.acc)
      /\ ~(s.acc = AF_NETLINK) => Steps(c, s, Target(44, "socket_type"), s.acc)
  <2>1. Is(44, "jeq", AF_NETLINK, "next", "socket_type")
    BY Listing
  <2>2. Reaches(44, "next") /\ Reaches(44, "socket_type")
    BY Targets
  <2> QED BY <1>1, <2>1, <2>2, Tests
<1>3. 45 \in 1..55 /\ 47 \in 1..55 /\ 45 > s.at /\ 47 > s.at /\ s.acc \in Nat
  BY <1>1 DEF States
<1>4. CASE s.acc = AF_NETLINK
  <2>1. Steps(c, s, 45, s.acc)
    BY <1>2, <1>4, Targets
  <2>2. Checks(c, 45, s.acc) /\ Jumps(c, 45, s.acc) /\ Ends(c, 45)
    BY <1>1, <1>4, Meant DEF Checks, Jumps, Ends, Plain
  <2> QED BY <1>1, <1>3, <2>1, <2>2, Onward
<1>5. CASE ~(s.acc = AF_NETLINK)
  <2>1. Steps(c, s, 47, s.acc)
    BY <1>2, <1>5, Targets
  <2>2. Checks(c, 47, s.acc) /\ Jumps(c, 47, s.acc) /\ Ends(c, 47)
    BY <1>1, <1>5, Meant DEF Checks, Jumps, Ends, Plain
  <2> QED BY <1>1, <1>3, <2>1, <2>2, Onward
<1> QED BY <1>4, <1>5

\* Instruction 45: a load.
LEMMA At45 ==
    ASSUME NEW c \in SystemCalls, NEW s, Good(c, s), s.out = "none", s.at = 45
    PROVE  Advances(c, s)
<1>1. s \in States /\ Checks(c, 45, s.acc) /\ Jumps(c, 45, s.acc)
  BY DEF Good
<1>2. Steps(c, s, 46, c.arg2)
  <2>1. Is(45, "ld", "arg2", "next", "next")
    BY Listing
  <2>2. c["arg2"] \in Nat /\ c["arg2"] = c.arg2
    BY CallWords
  <2>3. Steps(c, s, 45 + 1, c["arg2"])
    BY <1>1, <2>1, <2>2, Loads
  <2> QED BY <2>2, <2>3
<1>3. Checks(c, 46, c.arg2) /\ Jumps(c, 46, c.arg2) /\ Ends(c, 46)
  BY <1>1 DEF Checks, Jumps, Ends
<1>4. c.arg2 \in Nat /\ 46 \in 1..55 /\ 46 > s.at
  BY CallWords
<1> QED BY <1>1, <1>2, <1>3, <1>4, Onward

\* Instruction 46: a jump.
LEMMA At46 ==
    ASSUME NEW c \in SystemCalls, NEW s, Good(c, s), s.out = "none", s.at = 46
    PROVE  Advances(c, s)
<1>1. s \in States /\ Checks(c, 46, s.acc) /\ Jumps(c, 46, s.acc)
  BY DEF Good
<1>2. /\ s.acc = NETLINK_ROUTE => Steps(c, s, Target(46, "allow"), s.acc)
      /\ ~(s.acc = NETLINK_ROUTE) => Steps(c, s, Target(46, "notify"), s.acc)
  <2>1. Is(46, "jeq", NETLINK_ROUTE, "allow", "notify")
    BY Listing
  <2>2. Reaches(46, "allow") /\ Reaches(46, "notify")
    BY Targets
  <2> QED BY <1>1, <2>1, <2>2, Tests
<1>3. 53 \in 1..55 /\ 54 \in 1..55 /\ 53 > s.at /\ 54 > s.at /\ s.acc \in Nat
  BY <1>1 DEF States
<1>4. CASE s.acc = NETLINK_ROUTE
  <2>1. Steps(c, s, 53, s.acc)
    BY <1>2, <1>4, Targets
  <2>2. Checks(c, 53, s.acc) /\ Jumps(c, 53, s.acc) /\ Ends(c, 53)
    BY <1>1, <1>4, Meant DEF Checks, Jumps, Ends
  <2> QED BY <1>1, <1>3, <2>1, <2>2, Onward
<1>5. CASE ~(s.acc = NETLINK_ROUTE)
  <2>1. Steps(c, s, 54, s.acc)
    BY <1>2, <1>5, Targets
  <2>2. Checks(c, 54, s.acc) /\ Jumps(c, 54, s.acc) /\ Ends(c, 54)
    BY <1>1, <1>5, Meant DEF Checks, Jumps, Ends
  <2> QED BY <1>1, <1>3, <2>1, <2>2, Onward
<1> QED BY <1>4, <1>5

\* Instruction 47: a load.
LEMMA At47 ==
    ASSUME NEW c \in SystemCalls, NEW s, Good(c, s), s.out = "none", s.at = 47
    PROVE  Advances(c, s)
<1>1. s \in States /\ Checks(c, 47, s.acc) /\ Jumps(c, 47, s.acc)
  BY DEF Good
<1>2. Steps(c, s, 48, c.arg1)
  <2>1. Is(47, "ld", "arg1", "next", "next")
    BY Listing
  <2>2. c["arg1"] \in Nat /\ c["arg1"] = c.arg1
    BY CallWords
  <2>3. Steps(c, s, 47 + 1, c["arg1"])
    BY <1>1, <2>1, <2>2, Loads
  <2> QED BY <2>2, <2>3
<1>3. Checks(c, 48, c.arg1) /\ Jumps(c, 48, c.arg1) /\ Ends(c, 48)
  BY <1>1 DEF Checks, Jumps, Ends
<1>4. c.arg1 \in Nat /\ 48 \in 1..55 /\ 48 > s.at
  BY CallWords
<1> QED BY <1>1, <1>2, <1>3, <1>4, Onward

\* Instruction 48: the flags of a type are masked off.
LEMMA At48 ==
    ASSUME NEW c \in SystemCalls, NEW s, Good(c, s), s.out = "none", s.at = 48
    PROVE  Advances(c, s)
<1>1. s \in States /\ Checks(c, 48, s.acc) /\ Jumps(c, 48, s.acc)
  BY DEF Good
<1>2. s.acc = c.arg1 /\ c.arg1 \in Nat /\ c.arg1 % 256 \in Nat /\ SOCK_TYPE_MASK = 256
  BY <1>1, CallWords DEF Jumps, SOCK_TYPE_MASK
<1>3. Steps(c, s, 49, c.arg1 % 256)
  <2>1. Is(48, "and", SOCK_TYPE_MASK, "next", "next")
    BY Listing
  <2>2. s.acc % SOCK_TYPE_MASK \in Nat
    BY <1>2
  <2>3. Steps(c, s, 48 + 1, s.acc % SOCK_TYPE_MASK)
    BY <1>1, <2>1, <2>2, Masks
  <2> QED BY <1>2, <2>3
<1>4. Checks(c, 49, c.arg1 % 256) /\ Jumps(c, 49, c.arg1 % 256) /\ Ends(c, 49)
  BY <1>1 DEF Checks, Jumps, Ends
<1>5. 49 \in 1..55 /\ 49 > s.at
  OBVIOUS
<1> QED BY <1>1, <1>2, <1>3, <1>4, <1>5, Onward

\* Instruction 49: a jump.
LEMMA At49 ==
    ASSUME NEW c \in SystemCalls, NEW s, Good(c, s), s.out = "none", s.at = 49
    PROVE  Advances(c, s)
<1>1. s \in States /\ Checks(c, 49, s.acc) /\ Jumps(c, 49, s.acc)
  BY DEF Good
<1>2. /\ s.acc = SOCK_RAW => Steps(c, s, Target(49, "notify"), s.acc)
      /\ ~(s.acc = SOCK_RAW) => Steps(c, s, Target(49, "next"), s.acc)
  <2>1. Is(49, "jeq", SOCK_RAW, "notify", "next")
    BY Listing
  <2>2. Reaches(49, "notify") /\ Reaches(49, "next")
    BY Targets
  <2> QED BY <1>1, <2>1, <2>2, Tests
<1>3. 54 \in 1..55 /\ 50 \in 1..55 /\ 54 > s.at /\ 50 > s.at /\ s.acc \in Nat
  BY <1>1 DEF States
<1>4. CASE s.acc = SOCK_RAW
  <2>1. Steps(c, s, 54, s.acc)
    BY <1>2, <1>4, Targets
  <2>2. Checks(c, 54, s.acc) /\ Jumps(c, 54, s.acc) /\ Ends(c, 54)
    BY <1>1, <1>4, Meant DEF Checks, Jumps, Ends
  <2> QED BY <1>1, <1>3, <2>1, <2>2, Onward
<1>5. CASE ~(s.acc = SOCK_RAW)
  <2>1. Steps(c, s, 50, s.acc)
    BY <1>2, <1>5, Targets
  <2>2. Checks(c, 50, s.acc) /\ Jumps(c, 50, s.acc) /\ Ends(c, 50)
    BY <1>1, <1>5, Meant DEF Checks, Jumps, Ends
  <2> QED BY <1>1, <1>3, <2>1, <2>2, Onward
<1> QED BY <1>4, <1>5

\* Instruction 50: a jump.
LEMMA At50 ==
    ASSUME NEW c \in SystemCalls, NEW s, Good(c, s), s.out = "none", s.at = 50
    PROVE  Advances(c, s)
<1>1. s \in States /\ Checks(c, 50, s.acc) /\ Jumps(c, 50, s.acc)
  BY DEF Good
<1>2. /\ s.acc = SOCK_PACKET => Steps(c, s, Target(50, "notify"), s.acc)
      /\ ~(s.acc = SOCK_PACKET) => Steps(c, s, Target(50, "allow"), s.acc)
  <2>1. Is(50, "jeq", SOCK_PACKET, "notify", "allow")
    BY Listing
  <2>2. Reaches(50, "notify") /\ Reaches(50, "allow")
    BY Targets
  <2> QED BY <1>1, <2>1, <2>2, Tests
<1>3. 54 \in 1..55 /\ 53 \in 1..55 /\ 54 > s.at /\ 53 > s.at /\ s.acc \in Nat
  BY <1>1 DEF States
<1>4. CASE s.acc = SOCK_PACKET
  <2>1. Steps(c, s, 54, s.acc)
    BY <1>2, <1>4, Targets
  <2>2. Checks(c, 54, s.acc) /\ Jumps(c, 54, s.acc) /\ Ends(c, 54)
    BY <1>1, <1>4, Meant DEF Checks, Jumps, Ends
  <2> QED BY <1>1, <1>3, <2>1, <2>2, Onward
<1>5. CASE ~(s.acc = SOCK_PACKET)
  <2>1. Steps(c, s, 53, s.acc)
    BY <1>2, <1>5, Targets
  <2>2. Checks(c, 53, s.acc) /\ Jumps(c, 53, s.acc) /\ Ends(c, 53)
    BY <1>1, <1>5, Meant DEF Checks, Jumps, Ends
  <2> QED BY <1>1, <1>3, <2>1, <2>2, Onward
<1> QED BY <1>4, <1>5

\* Instruction 51: a load.
LEMMA At51 ==
    ASSUME NEW c \in SystemCalls, NEW s, Good(c, s), s.out = "none", s.at = 51
    PROVE  Advances(c, s)
<1>1. s \in States /\ Checks(c, 51, s.acc) /\ Jumps(c, 51, s.acc)
  BY DEF Good
<1>2. Steps(c, s, 52, c.arg0)
  <2>1. Is(51, "ld", "arg0", "next", "next")
    BY Listing
  <2>2. c["arg0"] \in Nat /\ c["arg0"] = c.arg0
    BY CallWords
  <2>3. Steps(c, s, 51 + 1, c["arg0"])
    BY <1>1, <2>1, <2>2, Loads
  <2> QED BY <2>2, <2>3
<1>3. Checks(c, 52, c.arg0) /\ Jumps(c, 52, c.arg0) /\ Ends(c, 52)
  BY <1>1 DEF Checks, Jumps, Ends
<1>4. c.arg0 \in Nat /\ 52 \in 1..55 /\ 52 > s.at
  BY CallWords
<1> QED BY <1>1, <1>2, <1>3, <1>4, Onward

\* Instruction 52: a jump.
LEMMA At52 ==
    ASSUME NEW c \in SystemCalls, NEW s, Good(c, s), s.out = "none", s.at = 52
    PROVE  Advances(c, s)
<1>1. s \in States /\ Checks(c, 52, s.acc) /\ Jumps(c, 52, s.acc)
  BY DEF Good
<1>2. /\ s.acc = PR_SET_SECCOMP => Steps(c, s, Target(52, "notify"), s.acc)
      /\ ~(s.acc = PR_SET_SECCOMP) => Steps(c, s, Target(52, "allow"), s.acc)
  <2>1. Is(52, "jeq", PR_SET_SECCOMP, "notify", "allow")
    BY Listing
  <2>2. Reaches(52, "notify") /\ Reaches(52, "allow")
    BY Targets
  <2> QED BY <1>1, <2>1, <2>2, Tests
<1>3. 54 \in 1..55 /\ 53 \in 1..55 /\ 54 > s.at /\ 53 > s.at /\ s.acc \in Nat
  BY <1>1 DEF States
<1>4. CASE s.acc = PR_SET_SECCOMP
  <2>1. Steps(c, s, 54, s.acc)
    BY <1>2, <1>4, Targets
  <2>2. Checks(c, 54, s.acc) /\ Jumps(c, 54, s.acc) /\ Ends(c, 54)
    BY <1>1, <1>4, Meant DEF Checks, Jumps, Ends
  <2> QED BY <1>1, <1>3, <2>1, <2>2, Onward
<1>5. CASE ~(s.acc = PR_SET_SECCOMP)
  <2>1. Steps(c, s, 53, s.acc)
    BY <1>2, <1>5, Targets
  <2>2. Checks(c, 53, s.acc) /\ Jumps(c, 53, s.acc) /\ Ends(c, 53)
    BY <1>1, <1>5, Meant DEF Checks, Jumps, Ends
  <2> QED BY <1>1, <1>3, <2>1, <2>2, Onward
<1> QED BY <1>4, <1>5

\* Instruction 53: a verdict.
LEMMA At53 ==
    ASSUME NEW c \in SystemCalls, NEW s, Good(c, s), s.out = "none", s.at = 53
    PROVE  Advances(c, s)
<1>1. s \in States /\ Checks(c, 53, s.acc) /\ Ends(c, 53)
  BY DEF Good
<1>2. Intended(c) = "allow" /\ "allow" \in Verdicts
  BY <1>1, Meant DEF Checks, Ends, Verdicts
<1>3. Stops(c, s, "allow")
  BY <1>1, Listing, Returns
<1> QED BY <1>1, <1>2, <1>3, Ended

\* Instruction 54: a verdict.
LEMMA At54 ==
    ASSUME NEW c \in SystemCalls, NEW s, Good(c, s), s.out = "none", s.at = 54
    PROVE  Advances(c, s)
<1>1. s \in States /\ Checks(c, 54, s.acc) /\ Ends(c, 54)
  BY DEF Good
<1>2. Intended(c) = "notify" /\ "notify" \in Verdicts
  BY <1>1, Meant DEF Checks, Ends, Verdicts
<1>3. Stops(c, s, "notify")
  BY <1>1, Listing, Returns
<1> QED BY <1>1, <1>2, <1>3, Ended

\* Instruction 55: a verdict.
LEMMA At55 ==
    ASSUME NEW c \in SystemCalls, NEW s, Good(c, s), s.out = "none", s.at = 55
    PROVE  Advances(c, s)
<1>1. s \in States /\ Checks(c, 55, s.acc) /\ Ends(c, 55)
  BY DEF Good
<1>2. Intended(c) = "kill" /\ "kill" \in Verdicts
  BY <1>1, Meant DEF Checks, Ends, Verdicts
<1>3. Stops(c, s, "kill")
  BY <1>1, Listing, Returns
<1> QED BY <1>1, <1>2, <1>3, Ended

\* Instructions 5 to 35: the denied calls, one by one.
LEMMA AtDenied ==
    ASSUME NEW c \in SystemCalls, NEW s, Good(c, s), s.out = "none", s.at \in 5..35
    PROVE  Advances(c, s)
<1> DEFINE p == s.at
           i == p - 4
<1>1. s \in States /\ Checks(c, p, s.acc)
  BY DEF Good
<1>2. i \in 1..31 /\ 4 + i = p /\ p \in 1..52 /\ p \in 5..35
  OBVIOUS
<1>3. Native(c) /\ s.acc = c.nr /\ \A j \in 1..31 : j <= p - 5 => c.nr # DENIED[j]
  BY <1>1 DEF Checks
<1>4. /\ s.acc = DENIED[i] => Steps(c, s, Target(p, "notify"), s.acc)
      /\ ~(s.acc = DENIED[i]) => Steps(c, s, Target(p, "next"), s.acc)
  <2>1. Is(p, "jeq", DENIED[i], "notify", "next")
    BY <1>2, Listing
  <2>2. Reaches(p, "notify") /\ Reaches(p, "next")
    BY <1>2, Targets
  <2> QED BY <1>1, <2>1, <2>2, Tests
<1>5. CASE s.acc = DENIED[i]
  <2>1. Steps(c, s, 54, s.acc)
    BY <1>4, <1>5, Targets
  <2>2. Intended(c) = "notify"
    BY <1>2, <1>3, <1>5, Meant
  <2>3. Checks(c, 54, s.acc) /\ Jumps(c, 54, s.acc) /\ Ends(c, 54)
    BY <2>2 DEF Checks, Jumps, Ends
  <2>4. 54 \in 1..55 /\ 54 > s.at /\ s.acc \in Nat
    BY <1>1 DEF States
  <2> QED BY <1>1, <2>1, <2>3, <2>4, Onward
<1>6. CASE s.acc # DENIED[i]
  <2>1. Steps(c, s, p + 1, s.acc)
    BY <1>4, <1>6, Targets
  <2>2. \A j \in 1..31 : j <= (p + 1) - 5 => c.nr # DENIED[j]
    <3>1. ASSUME NEW j \in 1..31, j <= (p + 1) - 5 PROVE c.nr # DENIED[j]
      <4>1. j <= p - 5 \/ j = i
        BY <1>2, <3>1
      <4> QED BY <1>3, <1>6, <4>1
    <3> QED BY <3>1
  <2>3. p + 1 = 36 => Undenied(c)
    <3>1. ASSUME p + 1 = 36 PROVE \A j \in 1..31 : c.nr # DENIED[j]
      <4>1. \A j \in 1..31 : j <= (p + 1) - 5
        BY <3>1
      <4> QED BY <2>2, <4>1
    <3> QED BY <1>3, <3>1 DEF Undenied
  <2>4. p + 1 \in 6..36
    BY <1>2
  <2>5. Checks(c, p + 1, s.acc) /\ Jumps(c, p + 1, s.acc) /\ Ends(c, p + 1)
    BY <1>3, <2>2, <2>3, <2>4 DEF Checks, Jumps, Ends
  <2>6. p + 1 \in 1..55 /\ p + 1 > s.at /\ s.acc \in Nat
    BY <1>1, <2>4 DEF States
  <2> QED BY <1>1, <2>1, <2>5, <2>6, Onward
<1> QED BY <1>5, <1>6

-----------------------------------------------------------------------------
(* The whole run.                                                           *)

\* Wherever the program is, its next instruction is right and leads on.
LEMMA Judges ==
    ASSUME NEW c \in SystemCalls, NEW s, Good(c, s)
    PROVE  /\ Good(c, execute(program, c, s))
           /\ execute(program, c, s).out # "none" \/ execute(program, c, s).at > s.at
<1>1. CASE s.out # "none"
  <2>1. execute(program, c, s) = s
    BY <1>1 DEF execute
  <2> QED BY <1>1, <2>1
<1>2. CASE s.out = "none"
  <2>1. s.at \in 1..55
    BY DEF Good, States
  <2>2. \/ s.at \in 1..4 \/ s.at \in 5..35 \/ s.at \in 36..39 \/ s.at \in 40..46
        \/ s.at \in 47..52 \/ s.at \in 53..55
    BY <2>1
  <2>3. CASE s.at \in 1..4
    <3>1. s.at = 1 \/ s.at = 2 \/ s.at = 3 \/ s.at = 4
      BY <2>3
    <3> QED BY <1>2, <3>1, At1, At2, At3, At4 DEF Advances
  <2>4. CASE s.at \in 5..35
    BY <1>2, <2>4, AtDenied DEF Advances
  <2>5. CASE s.at \in 36..39
    <3>1. s.at = 36 \/ s.at = 37 \/ s.at = 38 \/ s.at = 39
      BY <2>5
    <3> QED BY <1>2, <3>1, At36, At37, At38, At39 DEF Advances
  <2>6. CASE s.at \in 40..46
    <3>1. s.at = 40 \/ s.at = 41 \/ s.at = 42 \/ s.at = 43 \/ s.at = 44 \/ s.at = 45
          \/ s.at = 46
      BY <2>6
    <3> QED BY <1>2, <3>1, At40, At41, At42, At43, At44, At45, At46 DEF Advances
  <2>7. CASE s.at \in 47..52
    <3>1. s.at = 47 \/ s.at = 48 \/ s.at = 49 \/ s.at = 50 \/ s.at = 51 \/ s.at = 52
      BY <2>7
    <3> QED BY <1>2, <3>1, At47, At48, At49, At50, At51, At52 DEF Advances
  <2>8. CASE s.at \in 53..55
    <3>1. s.at = 53 \/ s.at = 54 \/ s.at = 55
      BY <2>8
    <3> QED BY <1>2, <3>1, At53, At54, At55 DEF Advances
  <2> QED BY <2>2, <2>3, <2>4, <2>5, <2>6, <2>7, <2>8
<1> QED BY <1>1, <1>2

\* A non-empty set of naturals has a least element.
LEMMA LeastNumber ==
    ASSUME NEW S, S \subseteq Nat, S /= {}
    PROVE  \E n \in S : \A m \in S : n <= m
<1> DEFINE R == {ss \in Nat \X Nat : ss[1] < ss[2]}
<1>1. IsWellFoundedOn(R, Nat)
  BY NatLessThanWellFounded DEF OpToRel
<1>2. \E x \in S : \A y \in S : ~ (<<y, x>> \in R)
  <2> HIDE DEF R
  <2> QED BY <1>1, WFMin
<1>3. PICK x \in S : \A y \in S : ~ (<<y, x>> \in R)
  BY <1>2
<1>4. ASSUME NEW y \in S
      PROVE  x <= y
  <2>1. x \in Nat /\ y \in Nat /\ <<y, x>> \in Nat \X Nat
    BY <1>3
  <2>2. ~ (y < x)
    BY <1>3, <2>1
  <2> QED BY <2>1, <2>2
<1> QED BY <1>3, <1>4

\* A set that holds 0 and with each number its successor holds them all.
LEMMA Induction ==
    ASSUME NEW S, 0 \in S, \A n \in Nat : n \in S => n + 1 \in S
    PROVE  \A n \in Nat : n \in S
<1> SUFFICES ASSUME Nat \ S /= {} PROVE FALSE
  OBVIOUS
<1>1. PICK n \in Nat \ S : \A m \in Nat \ S : n <= m
  BY LeastNumber
<1>2. n /= 0 /\ n - 1 \in Nat /\ n - 1 \in S
  BY <1>1
<1> QED BY <1>1, <1>2

\* f[n] is the state after n instructions, for every n up to k.
Fresh == [at |-> 1, acc |-> 0, out |-> "none"]
IsRun(f, c, k) ==
    f = [n \in 0..k |-> IF n = 0 THEN Fresh ELSE execute(program, c, f[n - 1])]

\* verdict's recursive function exists, whatever the call is.
LEMMA RunExists ==
    ASSUME NEW c, NEW k \in Nat
    PROVE  \E f : IsRun(f, c, k)
<1> DEFINE S == {n \in Nat : \E f : IsRun(f, c, n)}
<1>1. 0 \in S
  <2> DEFINE f == [n \in 0..0 |-> Fresh]
  <2>1. IsRun(f, c, 0)
    BY DEF IsRun
  <2> QED BY <2>1
<1>2. ASSUME NEW n \in Nat, n \in S
      PROVE  n + 1 \in S
  <2>1. PICK f : IsRun(f, c, n)
    BY <1>2
  <2> DEFINE g == [i \in 0..(n + 1) |-> IF i = n + 1 THEN execute(program, c, f[n]) ELSE f[i]]
  <2>2. ASSUME NEW i \in 0..(n + 1)
        PROVE  g[i] = IF i = 0 THEN Fresh ELSE execute(program, c, g[i - 1])
    <3>1. CASE i = n + 1
      <4>1. i # 0 /\ i - 1 = n /\ n \in 0..(n + 1) /\ n # n + 1
        BY <3>1
      <4>2. g[i] = execute(program, c, f[n]) /\ g[n] = f[n]
        BY <3>1, <4>1
      <4> QED BY <4>1, <4>2
    <3>2. CASE i # n + 1
      <4>1. /\ i \in 0..n
            /\ i # 0 => i - 1 \in 0..n /\ i - 1 \in 0..(n + 1) /\ i - 1 # n + 1
        BY <3>2
      <4>2. g[i] = f[i] /\ (i # 0 => g[i - 1] = f[i - 1])
        BY <4>1, <3>2
      <4>3. f[i] = IF i = 0 THEN Fresh ELSE execute(program, c, f[i - 1])
        BY <2>1, <4>1 DEF IsRun
      <4> QED BY <4>2, <4>3
    <3> QED BY <3>1, <3>2
  <2> HIDE DEF g
  <2>3. g = [i \in 0..(n + 1) |-> g[i]]
    BY DEF g
  <2>4. IsRun(g, c, n + 1)
    BY <2>2, <2>3, Zenon DEF IsRun
  <2> QED BY <2>4
<1> HIDE DEF S
<1>3. k \in S
  BY <1>1, <1>2, Induction
<1> QED BY <1>3 DEF S

\* The program says of every call what the filter is meant to say, whatever
\* the architecture, the number and the arguments (seccomp.rs, program): no
\* run of it falls off its end, and every jump has an encoding.
THEOREM ProgramIsRight == \A c \in SystemCalls : verdict(program, c) = Intended(c)
<1> SUFFICES ASSUME NEW c \in SystemCalls PROVE verdict(program, c) = Intended(c)
  OBVIOUS
<1>1. Len(program) = 55
  <2>1. 1 \in 1..55
    OBVIOUS
  <2> QED BY <2>1, Listing, Placed
<1>2. \E f : IsRun(f, c, 56)
  <2>1. 56 \in Nat
    OBVIOUS
  <2> QED BY <2>1, RunExists
<1>3. PICK f : f = CHOOSE g : IsRun(g, c, 56)
  OBVIOUS
<1>4. IsRun(f, c, 56)
  BY <1>2, <1>3, Zenon
<1>5. verdict(program, c) = f[56].out
  <2>1. Len(program) + 1 = 56
    BY <1>1
  <2>2. verdict(program, c) = (CHOOSE g : IsRun(g, c, Len(program) + 1))[Len(program) + 1].out
    BY Zenon DEF verdict, IsRun, Fresh
  <2> QED BY <1>3, <2>1, <2>2
<1> DEFINE S == {n \in Nat : n <= 56 => Good(c, f[n]) /\ (f[n].out # "none" \/ f[n].at > n)}
<1>6. 0 \in S
  <2>1. f[0] = Fresh
    BY <1>4 DEF IsRun
  <2>2. Fresh \in States /\ Fresh.at = 1 /\ Fresh.out = "none"
    BY DEF Fresh, States
  <2>3. Good(c, Fresh)
    BY <2>2 DEF Good, Checks, Jumps, Ends
  <2> QED BY <2>1, <2>2, <2>3
<1>7. ASSUME NEW n \in Nat, n \in S
      PROVE  n + 1 \in S
  <2> SUFFICES ASSUME n + 1 <= 56
               PROVE  Good(c, f[n + 1]) /\ (f[n + 1].out # "none" \/ f[n + 1].at > n + 1)
    OBVIOUS
  <2>1. Good(c, f[n]) /\ (f[n].out # "none" \/ f[n].at > n)
    BY <1>7
  <2>2. f[n + 1] = execute(program, c, f[n])
    <3>1. n + 1 \in 0..56 /\ n + 1 # 0 /\ (n + 1) - 1 = n
      OBVIOUS
    <3> QED BY <1>4, <3>1 DEF IsRun
  <2>3. Good(c, f[n + 1]) /\ (f[n + 1].out # "none" \/ f[n + 1].at > f[n].at)
    BY <2>1, <2>2, Judges
  <2>4. f[n].at \in 1..55 /\ f[n + 1].at \in 1..55
    BY <2>1, <2>3 DEF Good, States
  <2>5. CASE f[n].out # "none"
    <3>1. f[n + 1] = f[n]
      BY <2>2, <2>5 DEF execute
    <3> QED BY <2>3, <2>5, <3>1
  <2>6. CASE f[n].at > n
    BY <2>3, <2>4, <2>6
  <2> QED BY <2>1, <2>5, <2>6
<1> HIDE DEF S
<1>8. 56 \in Nat /\ 56 \in S
  BY <1>6, <1>7, Induction
<1>9. Good(c, f[56]) /\ (f[56].out # "none" \/ f[56].at > 56)
  BY <1>8 DEF S
<1>10. f[56].at \in 1..55
  BY <1>9 DEF Good, States
<1>11. f[56].out # "none"
  BY <1>9, <1>10
<1>12. f[56].out = Intended(c)
  BY <1>9, <1>11 DEF Good
<1> QED BY <1>5, <1>12


-----------------------------------------------------------------------------
(* The harness's calls.                                                     *)

\* The last call was judged as intended, and maybe answered since.
CallInv == \/ call = None
           \/ \E c \in SystemCalls : \E v \in {Intended(c), "EPERM", "ENOSYS", "blocked"} :
                  call = [result |-> v, of |-> c]

\* Only the harness and who answers it touch a call.
LEMMA CallSteps ==
    ASSUME [StartNext]_startVars, ~harness_calls, ~answer_one
    PROVE  call' = call
<1>1. CASE UNCHANGED startVars
  BY <1>1 DEF startVars
<1>2. CASE detach \/ load \/ open_log \/ redirect_std \/ open_events \/ bind_socket
           \/ do_prepare \/ report_socket \/ open_pty \/ spawn
  BY <1>2 DEF detach, load, open_log, redirect_std, open_events, bind_socket, do_prepare,
              report_socket, open_pty, spawn, Early, Late
<1>3. CASE write_request \/ read_whole \/ read_gone \/ drain \/ check_report \/ record_started
           \/ serve_filter \/ start_server \/ spawn_waiter \/ reply_ok
  BY <1>3 DEF write_request, read_whole, read_gone, drain, check_report, record_started,
              serve_filter, start_server, spawn_waiter, reply_ok
<1>4. CASE kill_child \/ reply_fail \/ exit \/ read_timed_out \/ sup_dies \/ handshake_wait
           \/ relink \/ harness_exits \/ serve_notifications_ends
  BY <1>4 DEF kill_child, reply_fail, exit, read_timed_out, sup_dies, handshake_wait, relink,
              harness_exits, serve_notifications_ends
<1>5. CASE HelperStep \/ helper_refuses \/ helper_orphaned
  BY <1>5 DEF HelperStep, helper_builds, helper_ends, helper_refuses, helper_orphaned, nsRest
<1>6. CASE read_request \/ check_namespace \/ apply_rlimits \/ landlock_apply \/ install_filter
  BY <1>6 DEF read_request, check_namespace, apply_rlimits, landlock_apply, install_filter,
              stage_goes, stage_refuse,
              stageRest, nsRest
<1>7. CASE write_applied \/ drop_listener \/ exec_harness \/ other_stage \/ stage_dies
  BY <1>7 DEF write_applied, drop_listener, exec_harness, other_stage, stage_dies,
              stageRest, nsRest
<1> QED BY <1>1, <1>2, <1>3, <1>4, <1>5, <1>6, <1>7 DEF StartNext, Started, SupStep, StageStep

\* Every call of the harness gets the verdict the filter is meant to give,
\* whatever calls it makes (seccomp.rs, program).
THEOREM CallsAreJudged == StartSpec => []VerdictAsIntended
<1>1. StartInit => CallInv
  BY DEF StartInit, CallInv
<1>2. CallInv /\ [StartNext]_startVars => CallInv'
  <2> SUFFICES ASSUME CallInv, [StartNext]_startVars PROVE CallInv'
    OBVIOUS
  <2>1. CASE harness_calls
    <3>1. PICK c \in Calls : call' = [result |-> verdict(program, c), of |-> c]
      BY <2>1 DEF harness_calls
    <3>2. c \in SystemCalls
      BY <3>1, StartAssumption
    <3>3. verdict(program, c) = Intended(c)
      BY <3>2, ProgramIsRight
    <3> QED BY <3>1, <3>2, <3>3 DEF CallInv
  <2>2. CASE answer_one
    <3>1. call.result \in {"notify", "blocked"} /\ call # None
      BY <2>2 DEF answer_one, None
    <3>2. PICK c \in SystemCalls : \E v : call = [result |-> v, of |-> c]
      BY <3>1 DEF CallInv
    <3>3. PICK w \in {"EPERM", "ENOSYS", "blocked"} : call' = [call EXCEPT !.result = w]
      BY <2>2 DEF answer_one
    <3>4. call' = [result |-> w, of |-> c]
      BY <3>2, <3>3
    <3> QED BY <3>2, <3>3, <3>4 DEF CallInv
  <2>3. CASE ~harness_calls /\ ~answer_one
    BY <2>3, CallSteps DEF CallInv
  <2> QED BY <2>1, <2>2, <2>3
<1>3. CallInv => VerdictAsIntended
  BY DEF CallInv, VerdictAsIntended
<1> QED BY <1>1, <1>2, <1>3, PTL DEF StartSpec
=============================================================================
