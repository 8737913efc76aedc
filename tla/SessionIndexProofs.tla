------------------------- MODULE SessionIndexProofs -------------------------
(***************************************************************************)
(* The safety of SessionIndex, for any number of renames, attaches and     *)
(* daemon crashes.                                                         *)
(***************************************************************************)
EXTENDS SessionIndex, SequenceTheorems, WellFoundedInduction, TLAPS

-----------------------------------------------------------------------------
(* What the log means, for logs of every length: the fold of from_log       *)
(* exists, the empty log means Creating, and one more line means one more   *)
(* apply_event.  The library's induction theorems take the statement to be  *)
(* proved as an operator, which the provers cannot instantiate: here it is  *)
(* about the members of a set.                                              *)

\* A non-empty set of naturals has a least element.
LEMMA LeastNumber ==
    ASSUME NEW S, S \subseteq Nat, S /= {}
    PROVE  \E n \in S : \A m \in S : n <= m
<1> DEFINE R == {ss \in Nat \X Nat : ss[1] < ss[2]}
<1>1. IsWellFoundedOn(R, Nat)
  BY NatLessThanWellFounded DEF OpToRel
<1>2. \E x \in S : \A y \in S : ~ (<<y, x>> \in R)
  <2> HIDE DEF R
  <2> QED BY <1>1, WFMin
<1>3. PICK x \in S : \A y \in S : ~ (<<y, x>> \in R)
  BY <1>2
<1>4. ASSUME NEW y \in S
      PROVE  x <= y
  <2>1. x \in Nat /\ y \in Nat /\ <<y, x>> \in Nat \X Nat
    BY <1>3
  <2>2. ~ (y < x)
    BY <1>3, <2>1
  <2> QED BY <2>1, <2>2
<1> QED BY <1>3, <1>4

\* A set that holds 0 and with each number its successor holds them all.
LEMMA Induction ==
    ASSUME NEW S, 0 \in S, \A n \in Nat : n \in S => n + 1 \in S
    PROVE  \A n \in Nat : n \in S
<1> SUFFICES ASSUME Nat \ S /= {} PROVE FALSE
  OBVIOUS
<1>1. PICK n \in Nat \ S : \A m \in Nat \ S : n <= m
  BY LeastNumber
<1>2. n /= 0 /\ n - 1 \in Nat /\ n - 1 \in S
  BY <1>1
<1> QED BY <1>1, <1>2

-----------------------------------------------------------------------------
(* The fold.                                                                *)

\* f[n] is what the first n lines mean, for every n up to k.
IsFold(f, lines, k) ==
    f = [n \in 0..k |->
            IF n = 0 THEN Creating ELSE apply_event(f[n - 1], lines[n])]

\* from_log's recursive function exists, whatever the lines are.
LEMMA FoldExists ==
    ASSUME NEW lines, NEW k \in Nat
    PROVE  \E f : IsFold(f, lines, k)
<1> DEFINE S == {n \in Nat : \E f : IsFold(f, lines, n)}
<1>1. 0 \in S
  <2> DEFINE f == [n \in 0..0 |-> Creating]
  <2>1. IsFold(f, lines, 0)
    BY DEF IsFold
  <2> QED BY <2>1
<1>2. ASSUME NEW n \in Nat, n \in S
      PROVE  n + 1 \in S
  <2>1. PICK f : IsFold(f, lines, n)
    BY <1>2
  <2> DEFINE g == [i \in 0..(n + 1) |->
                      IF i = n + 1 THEN apply_event(f[n], lines[i]) ELSE f[i]]
  <2>2. ASSUME NEW i \in 0..(n + 1)
        PROVE  g[i] = IF i = 0 THEN Creating
                      ELSE apply_event(g[i - 1], lines[i])
    <3>1. CASE i = n + 1
      <4>1. i /= 0 /\ i - 1 = n /\ n \in 0..(n + 1) /\ n /= n + 1
        BY <3>1
      <4>2. g[i] = apply_event(f[n], lines[i]) /\ g[n] = f[n]
        BY <3>1, <4>1
      <4> QED BY <4>1, <4>2
    <3>2. CASE i /= n + 1
      <4>1. /\ i \in 0..n
            /\ i /= 0 => /\ i - 1 \in 0..n
                         /\ i - 1 \in 0..(n + 1) /\ i - 1 /= n + 1
        BY <3>2
      <4>2. g[i] = f[i] /\ (i /= 0 => g[i - 1] = f[i - 1])
        BY <4>1, <3>2
      <4>3. f[i] = IF i = 0 THEN Creating ELSE apply_event(f[i - 1], lines[i])
        BY <2>1, <4>1 DEF IsFold
      <4> QED BY <4>2, <4>3
    <3> QED BY <3>1, <3>2
  <2> HIDE DEF g
  <2>3. g = [i \in 0..(n + 1) |-> g[i]]
    BY DEF g
  <2>4. IsFold(g, lines, n + 1)
    BY <2>2, <2>3, Zenon DEF IsFold
  <2> QED BY <2>4
<1> HIDE DEF S
<1>3. k \in S
  BY <1>1, <1>2, Induction
<1> QED BY <1>3 DEF S

\* from_log is the last value of such a function.
LEMMA FromLogFolds ==
    ASSUME NEW lines, Len(lines) \in Nat
    PROVE  \E f : IsFold(f, lines, Len(lines)) /\ from_log(lines) = f[Len(lines)]
<1>1. \E f : IsFold(f, lines, Len(lines))
  BY FoldExists
<1>2. PICK f : f = CHOOSE g : IsFold(g, lines, Len(lines))
  OBVIOUS
<1>3. IsFold(f, lines, Len(lines))
  BY <1>1, <1>2, Zenon
<1>4. from_log(lines) = f[Len(lines)]
  BY <1>2, Zenon DEF from_log, IsFold
<1> QED BY <1>3, <1>4

\* Two logs that agree on their first k lines mean the same after them.
LEMMA FoldPrefix ==
    ASSUME NEW k \in Nat, NEW m \in Nat, k <= m,
           NEW lines, NEW longer, \A i \in 1..k : longer[i] = lines[i],
           NEW f, NEW g, IsFold(f, lines, k), IsFold(g, longer, m)
    PROVE  f[k] = g[k]
<1> DEFINE S == {n \in Nat : n <= k => f[n] = g[n]}
<1>1. 0 \in S
  BY DEF IsFold
<1>2. ASSUME NEW n \in Nat, n \in S
      PROVE  n + 1 \in S
  <2> SUFFICES ASSUME n + 1 <= k PROVE f[n + 1] = g[n + 1]
    OBVIOUS
  <2>1. f[n] = g[n] /\ longer[n + 1] = lines[n + 1]
    BY <1>2
  <2>2. n + 1 \in 0..k /\ n + 1 \in 0..m /\ n + 1 /= 0 /\ (n + 1) - 1 = n
    OBVIOUS
  <2>3. f[n + 1] = apply_event(f[n], lines[n + 1])
    BY <2>2 DEF IsFold
  <2>4. g[n + 1] = apply_event(g[n], longer[n + 1])
    BY <2>2 DEF IsFold
  <2> QED BY <2>1, <2>3, <2>4
<1> HIDE DEF S
<1>3. k \in S
  BY <1>1, <1>2, Induction
<1> QED BY <1>3 DEF S

\* from_log of an empty log.
LEMMA FromLogEmpty == from_log(<<>>) = Creating
<1>1. Len(<<>>) = 0
  OBVIOUS
<1> QED BY <1>1, FromLogFolds DEF IsFold

\* A reader that has folded the log so far need only apply the next line: the
\* live fold of the control connection and the fold of the file agree.
LEMMA FromLogAppend ==
    ASSUME NEW T, NEW lines \in Seq(T), NEW e \in T
    PROVE  from_log(Append(lines, e)) = apply_event(from_log(lines), e)
<1> DEFINE k == Len(lines)
           longer == Append(lines, e)
<1>1. /\ k \in Nat /\ Len(longer) = k + 1 /\ longer[k + 1] = e
      /\ \A i \in 1..k : longer[i] = lines[i]
  OBVIOUS
<1>2. PICK f : IsFold(f, lines, k) /\ from_log(lines) = f[k]
  BY <1>1, FromLogFolds
<1> HIDE DEF k, longer
<1>3. PICK g : IsFold(g, longer, k + 1) /\ from_log(longer) = g[k + 1]
  <2>1. Len(longer) \in Nat
    BY <1>1
  <2>2. PICK g : IsFold(g, longer, Len(longer)) /\ from_log(longer) = g[Len(longer)]
    BY <2>1, FromLogFolds
  <2> QED BY <1>1, <2>2
<1>4. f[k] = g[k]
  BY <1>1, <1>2, <1>3, FoldPrefix
<1>5. g[k + 1] = apply_event(g[k], longer[k + 1])
  <2>1. k + 1 \in 0..(k + 1) /\ k + 1 /= 0 /\ (k + 1) - 1 = k
    BY <1>1
  <2> QED BY <1>3, <2>1 DEF IsFold
<1> QED BY <1>1, <1>2, <1>3, <1>4, <1>5 DEF k, longer

-----------------------------------------------------------------------------
(* apply_event.                                                             *)

\* Nothing happens to a session that has ended.
LEMMA ApplyTerminal ==
    ASSUME NEW r, NEW e, is_terminal(r.state)
    PROVE  apply_event(r, e) = r
BY DEF apply_event

-----------------------------------------------------------------------------
(* The invariant, in parts.                                                 *)

\* The lines a log may hold, those a create or a finalise folds by itself,
\* and the frames of the control connection.
LogEvents ==
    [kind : {"created", "applied", "started", "attached", "detached",
             "stop_requested", "exited"}, arg : {NoLabel}]
      \cup {Event("failed", code) : code \in LogCodes}
      \cup {Event("renamed", Label)}
Verdicts == {Event("failed", code) : code \in LogCodes \cup DaemonVerdicts}
Frames == [kind : {"attached", "detached", "stop_requested", "exited",
                   "closed"}, arg : {NoLabel}]

\* What the log says.
L == from_log(log)

IndexTypes ==
    /\ TypeOK
    /\ terms <= attaches
    /\ log \in Seq(LogEvents) /\ wire \in Seq(Frames)
    /\ L \in Records

\* A start that ended without an end in its log.
NoEnd(code) ==
    /\ code \in {"spec_invalid", "supervisor_spawn_failed"}
    /\ sup \in Down /\ ~is_terminal(L.state)
    /\ code = "spec_invalid" => Unlogged

\* NoEnd after a step.
StillNoEnd(code) ==
    /\ code \in {"spec_invalid", "supervisor_spawn_failed"}
    /\ sup' \in Down /\ ~is_terminal(L'.state)
    /\ code = "spec_invalid" => Unlogged'

\* What the log and the readiness line say at each point of the supervisor's
\* life.
LogFollows ==
    /\ sup \in {"none", "starting", "bound"} =>
           L.state = "creating" /\ reply = "none"
    /\ sup \in {"none", "starting"} => Unlogged
    /\ sup \in {"running", "ending"} => is_live(L.state)
    /\ reply \in LogCodes =>
           /\ sup \in Down
           /\ \/ L.state = "failed" /\ L.code = reply
              \/ NoEnd(reply)
    /\ L.state = "exited" => L.code = NoLabel
    /\ L.code \in {NoLabel} \cup LogCodes
    /\ L.code /= NoLabel => is_terminal(L.state)
    /\ \A i \in DOMAIN wire : wire[i].kind = "exited" => L.state = "exited"

\* Supervisors that have yet to run their harness's end.
Ahead == {"none", "starting", "bound", "running"}

\* The threads that hold a copy of the record, and when they act on it.
ThreadsInStep ==
    /\ daemon = "down" <=> disp = "down"
    /\ disp \in {"await", "watch", "scan", "scan_status", "down"} =>
           final = "none"
    /\ disp = "await" => held = Creating
    /\ disp = "watch" => sup \notin {"none", "starting", "bound"}
    /\ disp \in {"await", "scan", "scan_status", "rename_append",
                "rename_upsert"} => sup /= "none"
    /\ disp = "scan_status" => held.code = NoLabel
    /\ final /= "none" => sup \notin {"none", "starting", "bound"}
    /\ final \in {"load", "emit"} /\ ~gaveup => sup \notin Ahead
    /\ sup = "none" => index = Absent /\ ~removed

\* A record's end is the log's or that of a start that left none in it, unless
\* the daemon passed the verdict, which it does over a supervisor that is over.
EndJustified(r) ==
    /\ is_terminal(r.state) /\ r.code \notin DaemonVerdicts =>
           \/ L.state = r.state /\ L.code = r.code
           \/ NoEnd(r.code)
    /\ r.code = "supervisor_lost" /\ ~gaveup => sup \notin Ahead
    /\ r.code /= NoLabel => is_terminal(r.state)

EndsJustified == EndJustified(index) /\ EndJustified(held) /\ EndJustified(loaded)

\* As long as the daemon has given up on nobody, the index follows a
\* supervisor that runs.
IndexFollows ==
    ~gaveup =>
        /\ sup \in {"bound", "running"} => socket
        /\ sup \in {"starting", "bound"} =>
              disp \in {"await", "down", "scan", "scan_status"}
        /\ sup = "running" =>
              /\ disp \in {"idle", "watch", "rename_append", "rename_upsert"}
                   => is_live(index.state)
              /\ disp \in {"rename_append", "rename_upsert"}
                   => is_live(held.state)
        /\ removed => sup \notin Ahead

IInv == /\ IndexTypes /\ LogFollows /\ ThreadsInStep /\ EndsJustified
        /\ IndexFollows

-----------------------------------------------------------------------------
(* What a fold does to a record.                                            *)

RecordCodes == {NoLabel} \cup LogCodes \cup DaemonVerdicts

\* apply_event on the records of the index: their type, state and code.
LEMMA Apply ==
    ASSUME NEW r \in Records, NEW e \in LogEvents \cup Verdicts
    PROVE  /\ apply_event(r, e) \in Records
           /\ is_terminal(r.state) => apply_event(r, e) = r
           /\ ~is_terminal(r.state) =>
                /\ e.kind \in {"created", "applied", "attached", "detached",
                               "renamed"} =>
                     /\ apply_event(r, e).state = r.state
                     /\ apply_event(r, e).code = r.code
                /\ e.kind = "started" =>
                     /\ apply_event(r, e).state = "running"
                     /\ apply_event(r, e).code = r.code
                /\ e.kind = "stop_requested" =>
                     /\ apply_event(r, e).state =
                           IF is_live(r.state) THEN "stopping" ELSE r.state
                     /\ apply_event(r, e).code = r.code
                /\ e.kind = "exited" =>
                     /\ apply_event(r, e).state = "exited"
                     /\ apply_event(r, e).code = NoLabel
                /\ e.kind = "failed" =>
                     /\ apply_event(r, e).state = "failed"
                     /\ apply_event(r, e).code = e.arg
<1>1. CASE is_terminal(r.state)
  BY <1>1, ApplyTerminal
<1>2. CASE ~is_terminal(r.state)
  <2> DEFINE a == apply_event(r, e)
  <2> SUFFICES /\ a \in Records
               /\ e.kind \in {"created", "applied", "attached", "detached",
                              "renamed"} => a.state = r.state /\ a.code = r.code
               /\ e.kind = "started" => a.state = "running" /\ a.code = r.code
               /\ e.kind = "stop_requested" =>
                    /\ a.state = IF is_live(r.state) THEN "stopping" ELSE r.state
                    /\ a.code = r.code
               /\ e.kind = "exited" => a.state = "exited" /\ a.code = NoLabel
               /\ e.kind = "failed" => a.state = "failed" /\ a.code = e.arg
    BY <1>2
  <2>2. CASE e.kind \in {"created", "applied"}
    <3>1. a = r
      BY <1>2, <2>2, Zenon DEF apply_event
    <3> HIDE DEF a
    <3> QED BY <3>1, <2>2
  <2>3. CASE e.kind = "attached"
    <3>1. a = [r EXCEPT !.clients = r.clients + 1]
      BY <1>2, <2>3, Zenon DEF apply_event
    <3> HIDE DEF a
    <3> QED BY <3>1, <2>3 DEF Records
  <2>4. CASE e.kind = "detached"
    <3>1. a = [r EXCEPT !.clients = IF r.clients = 0 THEN 0 ELSE r.clients - 1]
      BY <1>2, <2>4, Zenon DEF apply_event
    <3> HIDE DEF a
    <3> QED BY <3>1, <2>4 DEF Records
  <2>5. CASE e.kind = "renamed"
    <3>1. a = [r EXCEPT !.label = e.arg]
      BY <1>2, <2>5, Zenon DEF apply_event
    <3>2. e.arg = Label
      BY <2>5 DEF LogEvents, Verdicts, Event
    <3> HIDE DEF a
    <3> QED BY <3>1, <3>2, <2>5 DEF Records
  <2>6. CASE e.kind = "started"
    <3>1. a = [r EXCEPT !.state = "running"]
      BY <1>2, <2>6, Zenon DEF apply_event
    <3> HIDE DEF a
    <3> QED BY <3>1, <2>6 DEF Records, SessionStates
  <2>7. CASE e.kind = "stop_requested"
    <3>1. a = [r EXCEPT !.state = IF is_live(r.state) THEN "stopping"
                                  ELSE r.state]
      BY <1>2, <2>7, Zenon DEF apply_event
    <3> HIDE DEF a
    <3> QED BY <3>1, <2>7 DEF Records, SessionStates
  <2>8. CASE e.kind = "exited"
    <3>1. a = [r EXCEPT !.state = "exited", !.code = NoLabel, !.clients = 0]
      BY <1>2, <2>8, Zenon DEF apply_event, Ended
    <3> HIDE DEF a
    <3> QED BY <3>1, <2>8 DEF Records, SessionStates
  <2>9. CASE e.kind = "failed"
    <3>1. a = [r EXCEPT !.state = "failed", !.code = e.arg, !.clients = 0]
      BY <1>2, <2>9, Zenon DEF apply_event, Ended
    <3>2. e.arg \in RecordCodes
      BY <2>9 DEF LogEvents, Verdicts, Event, DaemonVerdicts, RecordCodes
    <3> HIDE DEF a
    <3> QED BY <3>1, <3>2, <2>9 DEF Records, SessionStates, RecordCodes
  <2>10. e.kind \in {"created", "applied", "started", "attached", "detached",
                     "stop_requested", "exited", "failed", "renamed"}
    BY DEF LogEvents, Verdicts, Event
  <2> QED BY <1>2, <2>2, <2>3, <2>4, <2>5, <2>6, <2>7, <2>8, <2>9, <2>10
<1> QED BY <1>1, <1>2

\* The records the dispatcher starts from.
LEMMA Starts ==
    /\ Creating \in Records /\ Absent \in Records
    /\ Creating.state = "creating" /\ Creating.code = NoLabel
    /\ Absent.state = "absent" /\ Absent.code = NoLabel
BY DEF Creating, Absent, Records, SessionStates

\* The events a step writes.
LEMMA EventsAre ==
    /\ \A k \in {"created", "applied", "started", "attached", "detached",
                 "stop_requested", "exited"} :
           /\ Event(k, NoLabel) \in LogEvents
           /\ Event(k, NoLabel).kind = k
    /\ \A k \in {"attached", "detached", "stop_requested", "exited",
                 "closed"} :
           /\ Event(k, NoLabel) \in Frames
           /\ Event(k, NoLabel).kind = k
    /\ \A c \in LogCodes : Event("failed", c) \in LogEvents
    /\ Event("renamed", Label) \in LogEvents
    /\ Event("renamed", Label).kind = "renamed"
    /\ \A c \in LogCodes \cup DaemonVerdicts :
           /\ Event("failed", c) \in LogEvents \cup Verdicts
           /\ Event("failed", c).kind = "failed"
           /\ Event("failed", c).arg = c
BY DEF Event, LogEvents, Frames, Verdicts

\* A failure folded into a record that has not ended.
LEMMA FailedIs ==
    ASSUME NEW r \in Records, ~is_terminal(r.state),
           NEW c \in LogCodes \cup DaemonVerdicts
    PROVE  /\ Failed(r, c) \in Records
           /\ Failed(r, c).state = "failed" /\ Failed(r, c).code = c
<1>1. PICK e \in LogEvents \cup Verdicts :
           e = Event("failed", c) /\ e.kind = "failed" /\ e.arg = c
  BY EventsAre
<1>2. Failed(r, c) = apply_event(r, e)
  BY <1>1 DEF Failed
<1> QED BY <1>1, <1>2, Apply

\* finalise_lost's record.
LEMMA FinalisedIs ==
    ASSUME IndexTypes
    PROVE  /\ Finalised \in Records
           /\ is_terminal(L.state) => Finalised = L
           /\ ~is_terminal(L.state) => /\ Finalised.state = "failed"
                                       /\ Finalised.code = "supervisor_lost"
<1>1. L \in Records
  BY DEF IndexTypes
<1>2. "supervisor_lost" \in DaemonVerdicts
  BY DEF DaemonVerdicts
<1>3. CASE is_terminal(L.state)
  BY <1>1, <1>3 DEF Finalised, L
<1>4. CASE ~is_terminal(L.state)
  <2>1. Finalised = Failed(L, "supervisor_lost")
    BY <1>4 DEF Finalised, L
  <2> QED BY <1>1, <1>2, <1>4, <2>1, FailedIs
<1> QED BY <1>3, <1>4

-----------------------------------------------------------------------------
(* What a step writes.                                                      *)

\* One more line.
LEMMA LineAdded ==
    ASSUME IndexTypes, NEW e \in LogEvents, log' = Append(log, e)
    PROVE  /\ log' \in Seq(LogEvents)
           /\ L' = apply_event(L, e) /\ L' \in Records
<1>1. log \in Seq(LogEvents) /\ L \in Records
  BY DEF IndexTypes
<1>2. log' \in Seq(LogEvents)
  BY <1>1
<1>3. from_log(log') = apply_event(from_log(log), e)
  BY <1>1, FromLogAppend
<1> QED BY <1>1, <1>2, <1>3, Apply DEF L

\* The log never changes its mind about an end, and only the supervisor's own
\* lines change a state.
LEMMA LogMoves ==
    ASSUME IndexTypes, LogFollows, [Next]_vars
    PROVE  /\ log' \in Seq(LogEvents) /\ L' \in Records
           /\ is_terminal(L.state) => L' = L
           /\ sup_starts => L'.state = "running" /\ L'.code = L.code
           /\ sup_fails => L'.state = "failed" /\ L'.code = reply'
           /\ sup_start_lost => L'.state \in {"creating", "running"}
                                /\ L'.code = L.code
           /\ sup_logs_exit => L'.state = "exited" /\ L'.code = NoLabel
           /\ stop => L'.state = "stopping" /\ L'.code = L.code
           /\ sup_binds \/ sup_terminal \/ rename_append =>
                  L'.state = L.state /\ L'.code = L.code
           /\ \/ sup_binds \/ sup_starts \/ sup_fails \/ sup_start_lost
              \/ sup_terminal \/ sup_logs_exit \/ rename_append \/ stop
              \/ log' = log /\ L' = L
<1> DEFINE Goal == /\ log' \in Seq(LogEvents) /\ L' \in Records
                   /\ is_terminal(L.state) => L' = L
<1>0. log \in Seq(LogEvents) /\ L \in Records
  BY DEF IndexTypes
\* Two more lines, over a log without an end.
<1>d. ASSUME NEW a \in LogEvents, NEW b \in LogEvents, log' = log \o <<a, b>>,
             a.kind \in {"created", "applied"}, L.state = "creating"
      PROVE  /\ Goal
             /\ b.kind = "started" => L'.state = "running" /\ L'.code = L.code
             /\ b.kind = "failed" => L'.state = "failed" /\ L'.code = b.arg
  <2>1. ~is_terminal(L.state)
    BY <1>d DEF is_terminal
  <2>3. log' = Append(Append(log, a), b)
    BY <1>0, <1>d
  <2>4. Append(log, a) \in Seq(LogEvents) /\ log' \in Seq(LogEvents)
    BY <1>0, <2>3
  <2> DEFINE r == apply_event(L, a)
  <2>5. L' = apply_event(r, b)
    BY <1>0, <2>3, <2>4, FromLogAppend DEF L
  <2>6. r \in Records /\ r.state = "creating" /\ r.code = L.code
    BY <1>0, <1>d, <2>1, Apply
  <2> HIDE DEF r
  <2> QED BY <1>d, <2>1, <2>4, <2>5, <2>6, Apply DEF is_terminal
<1>1. ASSUME sup_starts
      PROVE  Goal /\ L'.state = "running" /\ L'.code = L.code
  <2>1. L.state = "creating"
    BY <1>1 DEF sup_starts, LogFollows
  <2>2. PICK b, c \in LogEvents :
            /\ b.kind = "applied" /\ c.kind = "started"
            /\ log' = log \o <<b, c>>
    BY <1>1, EventsAre DEF sup_starts
  <2> QED BY <1>d, <2>1, <2>2
<1>2. ASSUME sup_fails
      PROVE  Goal /\ L'.state = "failed" /\ L'.code = reply'
  <2>1. L.state = "creating" /\ ~is_terminal(L.state)
    BY <1>2 DEF sup_fails, LogFollows, is_terminal
  <2>2. CASE sup = "bound"
    <3>1. PICK c \in LogCodes :
              reply' = c /\ log' = Append(log, Event("failed", c))
      BY <1>2, <2>2 DEF sup_fails
    <3>2. PICK b \in LogEvents : b = Event("failed", c)
                                 /\ b.kind = "failed" /\ b.arg = c
      BY EventsAre
    <3> QED BY <1>0, <2>1, <3>1, <3>2, LineAdded, Apply
  <2>3. CASE sup /= "bound"
    <3>1. /\ reply' = "supervisor_spawn_failed"
          /\ log' = log \o << Event("created", NoLabel),
                              Event("failed", "supervisor_spawn_failed") >>
      BY <1>2, <2>3 DEF sup_fails
    <3>2. "supervisor_spawn_failed" \in LogCodes
      BY DEF LogCodes
    <3>3. PICK a, b \in LogEvents :
              /\ a = Event("created", NoLabel) /\ a.kind = "created"
              /\ b = Event("failed", "supervisor_spawn_failed")
              /\ b.kind = "failed" /\ b.arg = "supervisor_spawn_failed"
      BY <3>2, EventsAre
    <3>4. log' = log \o <<a, b>>
      BY <3>1, <3>3
    <3> QED BY <1>d, <2>1, <3>1, <3>3, <3>4
  <2> QED BY <2>2, <2>3
<1>3. ASSUME sup_start_lost
      PROVE  /\ Goal
             /\ L'.state \in {"creating", "running"} /\ L'.code = L.code
  <2>1. L.state = "creating"
    BY <1>3 DEF sup_start_lost, LogFollows
  <2>2. CASE log' = log
    BY <1>0, <2>1, <2>2 DEF L
  <2>3. CASE log' /= log
    <3>1. PICK b, c \in LogEvents :
              /\ b.kind = "applied" /\ c.kind = "started"
              /\ log' = log \o <<b, c>>
      BY <1>3, <2>3, EventsAre DEF sup_start_lost
    <3> QED BY <1>d, <2>1, <3>1
  <2> QED BY <2>2, <2>3
<1>r. ASSUME sup_binds
      PROVE  Goal /\ L'.state = L.state /\ L'.code = L.code
  <2>1. PICK a \in LogEvents : a.kind = "created" /\ log' = Append(log, a)
    BY <1>r, EventsAre DEF sup_binds
  <2> QED BY <1>0, <2>1, LineAdded, Apply
<1>4. ASSUME sup_terminal
      PROVE  Goal /\ L'.state = L.state /\ L'.code = L.code
  <2>1. PICK a \in LogEvents : /\ a.kind \in {"attached", "detached"}
                               /\ log' = Append(log, a)
    BY <1>4, EventsAre DEF sup_terminal, Logs
  <2> QED BY <1>0, <2>1, LineAdded, Apply
<1>5. ASSUME sup_logs_exit
      PROVE  Goal /\ L'.state = "exited" /\ L'.code = NoLabel
  <2>1. PICK a \in LogEvents : a.kind = "exited" /\ log' = Append(log, a)
    BY <1>5, EventsAre DEF sup_logs_exit, Logs
  <2>2. ~is_terminal(L.state)
    BY <1>5 DEF sup_logs_exit, LogFollows, is_live, is_terminal
  <2> QED BY <1>0, <2>1, <2>2, LineAdded, Apply
<1>6. ASSUME rename_append
      PROVE  Goal /\ L'.state = L.state /\ L'.code = L.code
  <2>1. CASE log' = log
    BY <1>0, <2>1 DEF L
  <2>2. CASE log' /= log
    <3>1. PICK a \in LogEvents : a.kind = "renamed" /\ log' = Append(log, a)
      BY <1>6, <2>2, EventsAre DEF rename_append
    <3> QED BY <1>0, <3>1, LineAdded, Apply
  <2> QED BY <2>1, <2>2
<1>7. ASSUME stop
      PROVE  Goal /\ L'.state = "stopping" /\ L'.code = L.code
  <2>1. PICK a \in LogEvents : /\ a.kind = "stop_requested"
                               /\ log' = Append(log, a)
    BY <1>7, EventsAre DEF stop, Logs
  <2>2. is_live(L.state) /\ ~is_terminal(L.state)
    BY <1>7 DEF stop, LogFollows, is_live, is_terminal
  <2> QED BY <1>0, <2>1, <2>2, LineAdded, Apply
<1>8. ASSUME log' = log
      PROVE  Goal /\ L' = L
  BY <1>0, <1>8 DEF L
<1> HIDE DEF Goal
<1>9. \/ sup_binds \/ sup_starts \/ sup_fails \/ sup_start_lost \/ sup_terminal
      \/ sup_logs_exit \/ rename_append \/ stop \/ log' = log
  BY DEF Next, Supervisor, Dispatcher, Finaliser, Rest, vars, supVars,
         sup_refuses, sup_hello, sup_registers, sup_ending, sup_closes, sup_exits, sup_dies,
         create, create_ready, watch, rename, rename_upsert, project_remove,
         scan, scan_status, read_frame, read_eof, final_check, final_probe,
         final_load, final_emit, crash, restart
<1>10. Goal => /\ log' \in Seq(LogEvents) /\ L' \in Records
               /\ is_terminal(L.state) => L' = L
  BY DEF Goal
<1> QED BY <1>1, <1>2, <1>3, <1>4, <1>5, <1>6, <1>7, <1>8, <1>9, <1>10, <1>r

\* Only a supervisor writes "created".
LEMMA UnloggedStays ==
    ASSUME IndexTypes, Unlogged, rename_append \/ log' = log
    PROVE  Unlogged'
<1>1. log \in Seq(LogEvents)
  BY DEF IndexTypes
<1>2. CASE log' = log
  BY <1>2 DEF Unlogged
<1>3. CASE log' = Append(log, Event("renamed", Label))
  <2>1. PICK e \in LogEvents : e = Event("renamed", Label)
    BY EventsAre
  <2>2. e /= Event("created", NoLabel)
    BY <2>1 DEF Event
  <2>3. \A i \in DOMAIN log' : log'[i] = e \/ \E j \in DOMAIN log : log'[i] = log[j]
    BY <1>1, <1>3, <2>1
  <2> QED BY <2>2, <2>3 DEF Unlogged, ToSet
<1> QED BY <1>2, <1>3 DEF rename_append

\* Nothing but a label is added to the log of a supervisor that is gone.
LEMMA DownStays ==
    ASSUME IndexTypes, LogFollows, [Next]_vars, sup \in Down
    PROVE  /\ sup' = sup /\ reply' = reply
           /\ L'.state = L.state /\ L'.code = L.code
           /\ Unlogged => Unlogged'
           /\ \A c : NoEnd(c) => StillNoEnd(c)
<1>1. /\ sup' = sup /\ reply' = reply /\ (rename_append \/ log' = log)
  BY DEF Down, Next, Supervisor, Dispatcher, Finaliser, Rest, vars, supVars,
         sup_refuses, sup_binds, sup_starts, sup_fails, sup_start_lost,
         sup_terminal, sup_hello, sup_registers, sup_ending, sup_logs_exit,
         sup_closes, sup_exits, sup_dies, create, create_ready, watch, rename,
         rename_append, rename_upsert, stop, project_remove, scan, scan_status,
         read_frame, read_eof, final_check, final_probe, final_load,
         final_emit, crash, restart
<1>2. L'.state = L.state /\ L'.code = L.code
  BY <1>1, LogMoves DEF L
<1>3. Unlogged => Unlogged'
  BY <1>1, UnloggedStays
<1> QED BY <1>1, <1>2, <1>3 DEF NoEnd, StillNoEnd

-----------------------------------------------------------------------------
(* Every step preserves the invariant.                                      *)

\* Types, and the log's record.
LEMMA TypesStep ==
    ASSUME IInv, [Next]_vars
    PROVE  IndexTypes'
<1> USE DEF supVars, connVars, dispVars, finalVars, projVars, countVars
<1>a. /\ TypeOK /\ terms <= attaches /\ wire \in Seq(Frames)
      /\ SessionIndexAssumption
  BY SessionIndexAssumption DEF IInv, IndexTypes
<1>b. log' \in Seq(LogEvents) /\ L' \in Records
  BY LogMoves DEF IInv
<1>c. L \in Records
  BY DEF IInv, IndexTypes
<1> SUFFICES TypeOK' /\ (terms <= attaches)' /\ (wire \in Seq(Frames))'
  BY <1>b DEF IndexTypes
<1>31. CASE sup_refuses
  BY <1>31, <1>a DEF sup_refuses, TypeOK, LogCodes
<1>32. CASE sup_binds
  BY <1>32, <1>a DEF sup_binds, TypeOK
<1>1. CASE sup_starts
  BY <1>1, <1>a
     DEF sup_starts, TypeOK, SessionIndexAssumption
<1>2. CASE sup_fails
  BY <1>2, <1>a
     DEF sup_fails, LogCodes, TypeOK, SessionIndexAssumption
<1>3. CASE sup_start_lost
  BY <1>3, <1>a
     DEF sup_start_lost, LogCodes, TypeOK, SessionIndexAssumption
<1>4. CASE sup_terminal
  <2>1. PICK a \in Frames :
            wire' = IF conn = "open" THEN Append(wire, a) ELSE wire
    BY <1>4, EventsAre DEF sup_terminal, Logs
  <2>2. wire' \in Seq(Frames)
    BY <2>1, <1>a
  <2> QED BY <1>4, <2>2, <1>a DEF sup_terminal, TypeOK, SessionIndexAssumption
<1>5. CASE sup_hello
  <2>1. PICK a \in Frames : a = Event("closed", NoLabel)
    BY EventsAre
  <2>2. wire' = wire \/ wire' = <<a>>
    BY <1>5, <2>1 DEF sup_hello
  <2>3. wire' \in Seq(Frames)
    <3>1. <<a>> \in Seq(Frames)
      OBVIOUS
    <3> QED BY <2>2, <3>1, <1>a
  <2> QED BY <1>5, <2>3, <1>a DEF sup_hello, TypeOK
<1>6. CASE sup_registers
  BY <1>6, <1>a
     DEF sup_registers, TypeOK, SessionIndexAssumption
<1>7. CASE sup_ending
  BY <1>7, <1>a
     DEF sup_ending, TypeOK, SessionIndexAssumption
<1>8. CASE sup_logs_exit
  <2>1. wire' \in Seq(Frames)
    BY <1>8, <1>a, EventsAre DEF sup_logs_exit, Logs
  <2> QED BY <1>8, <2>1, <1>a DEF sup_logs_exit, TypeOK, SessionIndexAssumption
<1>9. CASE sup_closes
  <2>1. wire' \in Seq(Frames)
    BY <1>9, <1>a, EventsAre DEF sup_closes, Logs
  <2> QED BY <1>9, <2>1, <1>a DEF sup_closes, TypeOK, SessionIndexAssumption
<1>10. CASE sup_exits
  <2>1. socket' \in BOOLEAN
    BY <1>10 DEF sup_exits
  <2>2. conn' \in {"none", "over"}
    BY <1>10 DEF sup_exits
  <2> QED BY <1>10, <2>1, <2>2, <1>a DEF sup_exits, TypeOK
<1>11. CASE sup_dies
  BY <1>11, <1>a
     DEF sup_dies, TypeOK, SessionIndexAssumption
<1>12. CASE create
  <2>1. "supervisor_spawn_failed" \in LogCodes /\ ~is_terminal("creating")
    BY DEF LogCodes, is_terminal
  <2>2. index' \in Records /\ held' \in Records /\ loaded' \in Records
    BY <1>12, <2>1, <1>a, Starts, FailedIs DEF create, TypeOK
  <2>3. sup' \in {"starting", "gone"} /\ disp' \in {"idle", "await"}
        /\ socket' \in BOOLEAN
    BY <1>12, <1>a DEF create, TypeOK
  <2> QED BY <1>12, <2>2, <2>3, <1>a DEF create, TypeOK
<1>13. CASE create_ready
  <2>1. /\ "supervisor_timeout" \in DaemonVerdicts
        /\ held = Creating /\ ~is_terminal(Creating.state)
    BY <1>13, Starts DEF DaemonVerdicts, is_terminal, create_ready, IInv, ThreadsInStep
  <2>2. apply_event(Creating, Event("started", NoLabel)) \in Records
    BY Starts, EventsAre, Apply
  <2>3. held' \in Records
    BY <1>13, <2>1, <2>2, Starts, FailedIs DEF create_ready
  <2>4. disp' \in {"idle", "watch"} /\ gaveup' \in BOOLEAN
    BY <1>13, <1>a DEF create_ready, TypeOK
  <2> QED BY <1>13, <2>3, <2>4, <1>a DEF create_ready, TypeOK
<1>14. CASE watch
  <2>1. wire' \in Seq(Frames)
    <3>1. <<>> \in Seq(Frames)
      OBVIOUS
    <3> QED BY <1>14, <3>1, <1>a DEF watch
  <2> QED BY <1>14, <2>1, <1>a DEF watch, TypeOK
<1>15. CASE rename
  BY <1>15, <1>a
     DEF rename, TypeOK, SessionIndexAssumption
<1>16. CASE rename_append
  BY <1>16, <1>a
     DEF rename_append, TypeOK, SessionIndexAssumption
<1>17. CASE rename_upsert
  <2>1. held' \in Records
    BY <1>17, <1>a, EventsAre, Apply DEF rename_upsert, TypeOK
  <2> QED BY <1>17, <2>1, <1>a DEF rename_upsert, TypeOK
<1>18. CASE stop
  <2>1. wire' \in Seq(Frames)
    BY <1>18, <1>a, EventsAre DEF stop, Logs
  <2> QED BY <1>18, <2>1, <1>a DEF stop, TypeOK, SessionIndexAssumption
<1>19. CASE project_remove
  BY <1>19, <1>a
     DEF project_remove, TypeOK, SessionIndexAssumption
<1>20. CASE scan
  <2>1. held' \in Records
    BY <1>20, <1>c DEF scan, L
  <2>2. index' \in Records /\ disp' \in {"idle", "scan_status"}
    BY <1>20, <2>1, <1>a DEF scan, TypeOK
  <2> QED BY <1>20, <2>1, <2>2, <1>a DEF scan, TypeOK
<1>21. CASE scan_status
  <2>1. Finalised \in Records
    BY FinalisedIs DEF IInv
  <2>2. [held EXCEPT !.state = "running", !.clients = terms] \in Records
    <3>1. terms \in Nat /\ held \in Records
      BY <1>a DEF TypeOK, SessionIndexAssumption
    <3> QED BY <3>1 DEF Records, SessionStates
  <2>3. index' \in Records /\ held' \in Records
    BY <1>21, <2>1, <2>2, <1>a DEF scan_status, TypeOK
  <2>4. /\ disp' \in {"idle", "watch"} /\ gaveup' \in BOOLEAN
        /\ socket' \in BOOLEAN
    BY <1>21, <1>a DEF scan_status, TypeOK
  <2> QED BY <1>21, <2>3, <2>4, <1>a DEF scan_status, TypeOK
<1>22. CASE read_frame
  <2>1. wire' \in Seq(Frames) /\ Head(wire) \in Frames
    BY <1>22, <1>a DEF read_frame
  <2>2. Head(wire).kind /= "closed" => Head(wire) \in LogEvents
    BY <2>1 DEF Frames, LogEvents
  <2>3. index' \in Records /\ final' \in {"reading", "check"}
    BY <1>22, <2>2, <1>a, Apply DEF read_frame, TypeOK
  <2> QED BY <1>22, <2>1, <2>3, <1>a DEF read_frame, TypeOK
<1>23. CASE read_eof
  BY <1>23, <1>a
     DEF read_eof, TypeOK, SessionIndexAssumption
<1>24. CASE final_check
  BY <1>24, <1>a
     DEF final_check, TypeOK, SessionIndexAssumption
<1>25. CASE final_probe
  BY <1>25, <1>a
     DEF final_probe, TypeOK, SessionIndexAssumption
<1>26. CASE final_load
  <2>1. Finalised \in Records
    BY FinalisedIs DEF IInv
  <2> QED BY <1>26, <2>1, <1>a DEF final_load, TypeOK
<1>27. CASE final_emit
  BY <1>27, <1>a
     DEF final_emit, TypeOK, SessionIndexAssumption
<1>28. CASE crash
  <2>1. wire' \in Seq(Frames)
    BY <1>28 DEF crash
  <2> QED BY <1>28, <2>1, <1>a, Starts DEF crash, TypeOK, SessionIndexAssumption
<1>29. CASE restart
  BY <1>29, <1>a
     DEF restart, TypeOK, SessionIndexAssumption
<1>30. CASE Rest \/ UNCHANGED vars
  BY <1>30, <1>a
     DEF Rest, vars, TypeOK, SessionIndexAssumption
<1> QED BY <1>1, <1>2, <1>3, <1>4, <1>5, <1>6, <1>7, <1>8, <1>9, <1>10,
           <1>11, <1>12, <1>13, <1>14, <1>15, <1>16, <1>17, <1>18, <1>19,
           <1>20, <1>21, <1>22, <1>23, <1>24, <1>25, <1>26, <1>27, <1>28,
           <1>29, <1>30, <1>31, <1>32
            DEF Next, Supervisor, Dispatcher, Finaliser

\* The log and the readiness line follow the supervisor.
LEMMA LogFollowsStep ==
    ASSUME IInv, [Next]_vars
    PROVE  LogFollows'
<1> USE DEF supVars, connVars, dispVars, finalVars, projVars, countVars
<1>a. /\ IndexTypes /\ LogFollows /\ ThreadsInStep /\ EndsJustified
      /\ IndexFollows
  BY DEF IInv
<1>b. /\ is_terminal(L.state) => L' = L
      /\ sup_starts => L'.state = "running" /\ L'.code = L.code
      /\ sup_fails => L'.state = "failed" /\ L'.code = reply'
      /\ sup_start_lost => L'.state \in {"creating", "running"}
                           /\ L'.code = L.code
      /\ sup_logs_exit => L'.state = "exited" /\ L'.code = NoLabel
      /\ stop => L'.state = "stopping" /\ L'.code = L.code
      /\ sup_binds \/ sup_terminal \/ rename_append =>
             L'.state = L.state /\ L'.code = L.code
  BY <1>a, LogMoves
<1>d. reply \in LogCodes =>
          /\ sup \in Down /\ sup' = sup /\ reply' = reply
          /\ \/ L'.state = "failed" /\ L'.code = reply
             \/ NoEnd(reply)'
  BY <1>a, DownStays DEF LogFollows, NoEnd, StillNoEnd
<1>e. Unlogged /\ (rename_append \/ log' = log) => Unlogged'
  BY <1>a, UnloggedStays
<1>f. "ok" \notin LogCodes /\ "none" \notin LogCodes
      /\ Down = {"gone", "dead"}
  BY DEF LogCodes, Down
<1>g. NoLabel \notin LogCodes
  BY SessionIndexAssumption DEF SessionIndexAssumption
<1>c. wire \in Seq(Frames)
  BY <1>a DEF IndexTypes

<1>31. CASE sup_refuses
  <2>1. L' = L /\ L.state = "creating" /\ log' = log
    BY <1>31, <1>a, <1>d, <1>e, <1>f, <1>g DEF sup_refuses, LogCodes, LogFollows, Logs, L, L
  <2>2. sup' = "gone" /\ reply' \in {"spec_invalid", "supervisor_spawn_failed"}
        /\ Unlogged'
    BY <1>31, <1>a, <1>e, <2>1 DEF sup_refuses, LogCodes, LogFollows
  <2>3. NoEnd(reply)'
    BY <2>1, <2>2 DEF NoEnd, Down, is_terminal
  <2> QED BY <1>31, <2>1, <2>2, <2>3, <1>a, <1>d, <1>e, <1>f, <1>g DEF sup_refuses, LogCodes, LogFollows, Logs, L, Down
<1>32. CASE sup_binds
  BY <1>32, <1>a, <1>b, <1>f DEF sup_binds, LogFollows
<1>1. CASE sup_starts
  BY <1>1, <1>a, <1>b, <1>d, <1>e, <1>f, <1>g DEF sup_starts, LogFollows, Logs, L, is_live, is_terminal
<1>2. CASE sup_fails
  BY <1>2, <1>a, <1>b, <1>d, <1>e, <1>f, <1>g DEF sup_fails, LogCodes, LogFollows, Logs, L, is_live, is_terminal
<1>3. CASE sup_start_lost
  BY <1>3, <1>a, <1>b, <1>d, <1>e, <1>f, <1>g DEF sup_start_lost, LogCodes, NoEnd, LogFollows, Logs, L, is_live, is_terminal
<1>4. CASE sup_terminal
  <2>1. PICK a \in Frames :
            a.kind /= "exited" /\ wire' = IF conn = "open" THEN Append(wire, a) ELSE wire
    BY <1>4, EventsAre DEF sup_terminal, Logs
  <2>2. \A i \in DOMAIN wire' : wire'[i].kind = "exited" => L'.state = "exited"
    BY <1>4, <2>1, <1>a, <1>b, <1>c DEF LogFollows, is_terminal
  <2> QED BY <1>4, <2>2, <1>a, <1>b, <1>d, <1>e, <1>f, <1>g DEF sup_terminal, LogFollows, Logs, L, is_live, is_terminal
<1>5. CASE sup_hello
  <2>1. PICK a \in Frames : a = Event("closed", NoLabel) /\ a.kind = "closed"
    BY EventsAre
  <2>2. wire' = wire \/ wire' = <<a>>
    BY <1>5, <2>1 DEF sup_hello
  <2>3. L' = L
    BY <1>5 DEF sup_hello, L
  <2>4. \A i \in DOMAIN wire' : wire'[i].kind = "exited" => L'.state = "exited"
    BY <2>1, <2>2, <2>3, <1>a DEF LogFollows
  <2> QED BY <1>5, <2>3, <2>4, <1>a, <1>d, <1>e, <1>f, <1>g DEF sup_hello, LogFollows, Logs, L
<1>6. CASE sup_registers
  BY <1>6, <1>a, <1>d, <1>e, <1>f DEF sup_registers, LogFollows, L
<1>7. CASE sup_ending
  BY <1>7, <1>a, <1>d, <1>e, <1>f DEF sup_ending, LogFollows, L
<1>8. CASE sup_logs_exit
  <2>1. PICK a \in Frames :
            TRUE /\ wire' = IF conn = "open" THEN Append(wire, a) ELSE wire
    BY <1>8, EventsAre DEF sup_logs_exit, Logs
  <2>2. \A i \in DOMAIN wire' : wire'[i].kind = "exited" => L'.state = "exited"
    BY <1>8, <2>1, <1>a, <1>b, <1>c DEF LogFollows, is_terminal
  <2> QED BY <1>8, <2>2, <1>a, <1>b, <1>d, <1>e, <1>f, <1>g DEF sup_logs_exit, LogFollows, Logs, L, is_live, is_terminal
<1>9. CASE sup_closes
  <2>1. PICK a \in Frames : a = Event("closed", NoLabel) /\ a.kind = "closed"
    BY EventsAre
  <2>2. wire' = wire \/ wire' = Append(wire, a)
    BY <1>9, <2>1 DEF sup_closes
  <2>3. L' = L
    BY <1>9 DEF sup_closes, L
  <2>4. \A i \in DOMAIN wire' : wire'[i].kind = "exited" => L'.state = "exited"
    BY <2>1, <2>2, <2>3, <1>a, <1>c DEF LogFollows
  <2> QED BY <1>9, <2>3, <2>4, <1>a, <1>d, <1>e, <1>f, <1>g DEF sup_closes, LogFollows, Logs, L
<1>10. CASE sup_exits
  BY <1>10, <1>a, <1>d, <1>e, <1>f DEF sup_exits, LogFollows, L
<1>11. CASE sup_dies
  BY <1>11, <1>a, <1>d, <1>e, <1>f DEF sup_dies, LogFollows, L
<1>12. CASE create
  BY <1>12, <1>a, <1>d, <1>e, <1>f DEF create, LogFollows, L
<1>13. CASE create_ready
  BY <1>13, <1>a, <1>d, <1>e, <1>f DEF create_ready, LogFollows, L
<1>14. CASE watch
  BY <1>14, <1>a, <1>d, <1>e, <1>f DEF watch, LogFollows, L
<1>15. CASE rename
  BY <1>15, <1>a, <1>d, <1>e, <1>f DEF rename, LogFollows, L
<1>16. CASE rename_append
  BY <1>16, <1>a, <1>b, <1>d, <1>e, <1>f, <1>g DEF rename_append, LogFollows, Logs, L, is_live, is_terminal
<1>17. CASE rename_upsert
  BY <1>17, <1>a, <1>d, <1>e, <1>f DEF rename_upsert, LogFollows, L
<1>18. CASE stop
  <2>1. PICK a \in Frames :
            a.kind /= "exited" /\ wire' = IF conn = "open" THEN Append(wire, a) ELSE wire
    BY <1>18, EventsAre DEF stop, Logs
  <2>2. \A i \in DOMAIN wire' : wire'[i].kind = "exited" => L'.state = "exited"
    BY <1>18, <2>1, <1>a, <1>b, <1>c DEF LogFollows, is_terminal
  <2> QED BY <1>18, <2>2, <1>a, <1>b, <1>d, <1>e, <1>f, <1>g DEF stop, LogFollows, Logs, L, is_live, is_terminal
<1>19. CASE project_remove
  BY <1>19, <1>a, <1>d, <1>e, <1>f DEF project_remove, LogFollows, L
<1>20. CASE scan
  BY <1>20, <1>a, <1>d, <1>e, <1>f DEF scan, LogFollows, L
<1>21. CASE scan_status
  BY <1>21, <1>a, <1>d, <1>e, <1>f DEF scan_status, LogFollows, L
<1>22. CASE read_frame
  <2>1. wire /= <<>> /\ wire' = Tail(wire) /\ L' = L
    BY <1>22 DEF read_frame, L
  <2>2. \A i \in DOMAIN wire' : wire'[i].kind = "exited" => L'.state = "exited"
    BY <2>1, <1>a, <1>c DEF LogFollows
  <2> QED BY <1>22, <2>1, <2>2, <1>a, <1>d, <1>e, <1>f, <1>g DEF read_frame, LogFollows, Logs, L
<1>23. CASE read_eof
  BY <1>23, <1>a, <1>d, <1>e, <1>f DEF read_eof, LogFollows, L
<1>24. CASE final_check
  BY <1>24, <1>a, <1>d, <1>e, <1>f DEF final_check, LogFollows, L
<1>25. CASE final_probe
  BY <1>25, <1>a, <1>d, <1>e, <1>f DEF final_probe, LogFollows, L
<1>26. CASE final_load
  BY <1>26, <1>a, <1>d, <1>e, <1>f DEF final_load, LogFollows, L
<1>27. CASE final_emit
  BY <1>27, <1>a, <1>d, <1>e, <1>f DEF final_emit, LogFollows, L
<1>28. CASE crash
  BY <1>28, <1>a, <1>d, <1>e, <1>f DEF crash, LogFollows, L
<1>29. CASE restart
  BY <1>29, <1>a, <1>d, <1>e, <1>f DEF restart, LogFollows, L
<1>30. CASE Rest \/ UNCHANGED vars
  BY <1>30, <1>a, <1>d, <1>e, <1>f DEF Rest, vars, LogFollows, L
<1> QED BY <1>1, <1>2, <1>3, <1>4, <1>5, <1>6, <1>7, <1>8, <1>9, <1>10,
           <1>11, <1>12, <1>13, <1>14, <1>15, <1>16, <1>17, <1>18, <1>19,
           <1>20, <1>21, <1>22, <1>23, <1>24, <1>25, <1>26, <1>27, <1>28,
           <1>29, <1>30, <1>31, <1>32
            DEF Next, Supervisor, Dispatcher, Finaliser

\* The threads stay in step with the supervisor.
LEMMA ThreadsStep ==
    ASSUME IInv, [Next]_vars
    PROVE  ThreadsInStep'
<1> USE DEF supVars, connVars, dispVars, finalVars, projVars, countVars
<1>a. /\ IndexTypes /\ LogFollows /\ ThreadsInStep /\ EndsJustified
      /\ IndexFollows
  BY DEF IInv

<1>31. CASE sup_refuses
  BY <1>31, <1>a DEF sup_refuses, ThreadsInStep, Ahead
<1>32. CASE sup_binds
  BY <1>32, <1>a DEF sup_binds, ThreadsInStep, Ahead
<1>1. CASE sup_starts
  BY <1>1, <1>a
     DEF sup_starts, ThreadsInStep, Ahead
<1>2. CASE sup_fails
  BY <1>2, <1>a
     DEF sup_fails, ThreadsInStep, Ahead
<1>3. CASE sup_start_lost
  BY <1>3, <1>a
     DEF sup_start_lost, ThreadsInStep, Ahead
<1>4. CASE sup_terminal
  BY <1>4, <1>a
     DEF sup_terminal, ThreadsInStep, Ahead
<1>5. CASE sup_hello
  BY <1>5, <1>a
     DEF sup_hello, ThreadsInStep, Ahead
<1>6. CASE sup_registers
  BY <1>6, <1>a
     DEF sup_registers, ThreadsInStep, Ahead
<1>7. CASE sup_ending
  BY <1>7, <1>a
     DEF sup_ending, ThreadsInStep, Ahead
<1>8. CASE sup_logs_exit
  BY <1>8, <1>a
     DEF sup_logs_exit, ThreadsInStep, Ahead
<1>9. CASE sup_closes
  BY <1>9, <1>a
     DEF sup_closes, ThreadsInStep, Ahead
<1>10. CASE sup_exits
  BY <1>10, <1>a
     DEF sup_exits, ThreadsInStep, Ahead
<1>11. CASE sup_dies
  BY <1>11, <1>a
     DEF sup_dies, ThreadsInStep, Ahead
<1>12. CASE create
  BY <1>12, <1>a
     DEF create, ThreadsInStep, Ahead
<1>13. CASE create_ready
  BY <1>13, <1>a DEF create_ready, ThreadsInStep, LogFollows
<1>14. CASE watch
  BY <1>14, <1>a
     DEF watch, ThreadsInStep, Ahead
<1>15. CASE rename
  BY <1>15, <1>a
     DEF rename, ThreadsInStep, Ahead
<1>16. CASE rename_append
  BY <1>16, <1>a
     DEF rename_append, ThreadsInStep, Ahead
<1>17. CASE rename_upsert
  BY <1>17, <1>a
     DEF rename_upsert, ThreadsInStep, Ahead
<1>18. CASE stop
  BY <1>18, <1>a
     DEF stop, ThreadsInStep, Ahead
<1>19. CASE project_remove
  BY <1>19, <1>a
     DEF project_remove, ThreadsInStep, Ahead
<1>20. CASE scan
  <2>1. held' = L /\ (~is_terminal(L.state) => L.code = NoLabel)
    BY <1>20, <1>a DEF scan, L, LogFollows
  <2>2. disp' = "scan_status" => held'.code = NoLabel
    BY <1>20, <2>1 DEF scan
  <2> QED BY <1>20, <2>2, <1>a DEF scan, ThreadsInStep
<1>21. CASE scan_status
  <2>1. disp' \in {"watch", "idle"} /\ (disp' = "watch" => sup = "running")
    BY <1>21 DEF scan_status, StatusAnswers
  <2>2. gaveup => gaveup'
    BY <1>21 DEF scan_status
  <2> QED BY <1>21, <2>1, <2>2, <1>a DEF scan_status, ThreadsInStep
<1>22. CASE read_frame
  BY <1>22, <1>a
     DEF read_frame, ThreadsInStep, Ahead
<1>23. CASE read_eof
  BY <1>23, <1>a
     DEF read_eof, ThreadsInStep, Ahead
<1>24. CASE final_check
  BY <1>24, <1>a
     DEF final_check, ThreadsInStep, Ahead
<1>25. CASE final_probe
  BY <1>25, <1>a DEF final_probe, ThreadsInStep, IndexFollows, StatusAnswers, Ahead
<1>26. CASE final_load
  BY <1>26, <1>a
     DEF final_load, ThreadsInStep, Ahead
<1>27. CASE final_emit
  BY <1>27, <1>a
     DEF final_emit, ThreadsInStep, Ahead
<1>28. CASE crash
  BY <1>28, <1>a
     DEF crash, ThreadsInStep, Ahead
<1>29. CASE restart
  <2>1. sup = "none" => reply /= "spec_invalid"
    BY <1>a DEF LogFollows
  <2> QED BY <1>29, <2>1, <1>a DEF restart, ThreadsInStep, Ahead
<1>30. CASE Rest \/ UNCHANGED vars
  BY <1>30, <1>a
     DEF Rest, vars, ThreadsInStep, Ahead
<1> QED BY <1>1, <1>2, <1>3, <1>4, <1>5, <1>6, <1>7, <1>8, <1>9, <1>10,
           <1>11, <1>12, <1>13, <1>14, <1>15, <1>16, <1>17, <1>18, <1>19,
           <1>20, <1>21, <1>22, <1>23, <1>24, <1>25, <1>26, <1>27, <1>28,
           <1>29, <1>30, <1>31, <1>32
            DEF Next, Supervisor, Dispatcher, Finaliser

\* The index follows the supervisor.
LEMMA IndexFollowsStep ==
    ASSUME IInv, [Next]_vars
    PROVE  IndexFollows'
<1> USE DEF supVars, connVars, dispVars, finalVars, projVars, countVars
<1>a. /\ IndexTypes /\ LogFollows /\ ThreadsInStep /\ EndsJustified
      /\ IndexFollows
  BY DEF IInv

<1>31. CASE sup_refuses
  BY <1>31, <1>a DEF sup_refuses, IndexFollows, Ahead
<1>32. CASE sup_binds
  BY <1>32, <1>a DEF sup_binds, IndexFollows, Ahead
<1>1. CASE sup_starts
  BY <1>1, <1>a
     DEF sup_starts, LogFollows, ThreadsInStep, IndexFollows, Ahead, is_live
<1>2. CASE sup_fails
  BY <1>2, <1>a
     DEF sup_fails, LogFollows, ThreadsInStep, IndexFollows, Ahead, is_live
<1>3. CASE sup_start_lost
  BY <1>3, <1>a
     DEF sup_start_lost, LogFollows, ThreadsInStep, IndexFollows, Ahead, is_live
<1>4. CASE sup_terminal
  BY <1>4, <1>a
     DEF sup_terminal, LogFollows, ThreadsInStep, IndexFollows, Ahead, is_live
<1>5. CASE sup_hello
  BY <1>5, <1>a
     DEF sup_hello, LogFollows, ThreadsInStep, IndexFollows, Ahead, is_live
<1>6. CASE sup_registers
  BY <1>6, <1>a
     DEF sup_registers, LogFollows, ThreadsInStep, IndexFollows, Ahead, is_live
<1>7. CASE sup_ending
  BY <1>7, <1>a
     DEF sup_ending, LogFollows, ThreadsInStep, IndexFollows, Ahead, is_live
<1>8. CASE sup_logs_exit
  BY <1>8, <1>a
     DEF sup_logs_exit, LogFollows, ThreadsInStep, IndexFollows, Ahead, is_live
<1>9. CASE sup_closes
  BY <1>9, <1>a
     DEF sup_closes, LogFollows, ThreadsInStep, IndexFollows, Ahead, is_live
<1>10. CASE sup_exits
  BY <1>10, <1>a
     DEF sup_exits, LogFollows, ThreadsInStep, IndexFollows, Ahead, is_live
<1>11. CASE sup_dies
  BY <1>11, <1>a
     DEF sup_dies, LogFollows, ThreadsInStep, IndexFollows, Ahead, is_live
<1>12. CASE create
  BY <1>12, <1>a
     DEF create, LogFollows, ThreadsInStep, IndexFollows, Ahead, is_live
<1>13. CASE create_ready
  <2>1. reply = "ok" => held'.state = "running"
    <3>1. PICK e \in LogEvents : e = Event("started", NoLabel) /\ e.kind = "started"
      BY EventsAre
    <3>2. held = Creating /\ Creating \in Records /\ ~is_terminal(Creating.state)
      BY <1>13, <1>a, Starts DEF create_ready, ThreadsInStep, is_terminal
    <3>3. apply_event(Creating, e).state = "running"
      BY <3>1, <3>2, Apply
    <3>4. CASE reply = "ok"
      BY <1>13, <3>1, <3>2, <3>3, <3>4 DEF create_ready, LogCodes
    <3> QED BY <3>4
  <2> QED BY <1>13, <2>1, <1>a
          DEF create_ready, LogFollows, LogCodes, Down, ThreadsInStep,
              IndexFollows, Ahead, is_live
<1>14. CASE watch
  BY <1>14, <1>a
     DEF watch, LogFollows, ThreadsInStep, IndexFollows, Ahead, is_live
<1>15. CASE rename
  BY <1>15, <1>a
     DEF rename, LogFollows, ThreadsInStep, IndexFollows, Ahead, is_live
<1>16. CASE rename_append
  BY <1>16, <1>a
     DEF rename_append, LogFollows, ThreadsInStep, IndexFollows, Ahead, is_live
<1>17. CASE rename_upsert
  <2>1. PICK e \in LogEvents : e = Event("renamed", Label) /\ e.kind = "renamed"
    BY EventsAre
  <2>2. held \in Records
    BY <1>a DEF IndexTypes, TypeOK
  <2>3. held'.state = held.state
    BY <1>17, <2>1, <2>2, Apply DEF rename_upsert
  <2> QED BY <1>17, <2>3, <1>a DEF rename_upsert, LogFollows, ThreadsInStep, IndexFollows, Ahead, is_live
<1>18. CASE stop
  BY <1>18, <1>a
     DEF stop, LogFollows, ThreadsInStep, IndexFollows, Ahead, is_live
<1>19. CASE project_remove
  BY <1>19, <1>a
     DEF project_remove, LogFollows, ThreadsInStep, IndexFollows, Ahead, is_live
<1>20. CASE scan
  <2>1. sup = "running" => ~is_terminal(L.state)
    BY <1>a DEF LogFollows, is_live, is_terminal
  <2>2. sup \in {"starting", "bound"} => ~is_terminal(L.state)
    BY <1>a DEF LogFollows, is_terminal
  <2>3. sup \in {"starting", "bound", "running"} => disp' = "scan_status"
    BY <1>20, <2>1, <2>2 DEF scan, L
  <2> QED BY <1>20, <2>3, <1>a DEF scan, IndexFollows, Ahead
<1>21. CASE scan_status
  <2>1. CASE StatusAnswers
    <3>1. held \in Records
      BY <1>a DEF IndexTypes, TypeOK
    <3>2. index'.state = "running" /\ disp' = "watch"
      BY <1>21, <2>1, <3>1 DEF scan_status, Records
    <3> QED BY <1>21, <2>1, <3>2, <1>a DEF scan_status, StatusAnswers, IndexFollows,
                                      Ahead, is_live
  <2>2. CASE ~StatusAnswers
    BY <1>21, <2>2, <1>a DEF scan_status, StatusAnswers, IndexFollows, Ahead
  <2> QED BY <2>1, <2>2
<1>22. CASE read_frame
  <2>1. CASE Head(wire).kind = "closed" \/ ~is_live(index.state)
    BY <1>22, <2>1, <1>a DEF read_frame, IndexFollows, Ahead
  <2>2. CASE Head(wire).kind /= "closed" /\ is_live(index.state)
    <3>1. /\ wire \in Seq(Frames) /\ wire /= <<>> /\ index \in Records
          /\ index' = apply_event(index, Head(wire))
      BY <1>22, <2>2, <1>a DEF read_frame, IndexTypes, TypeOK
    <3>2. Head(wire) \in Frames /\ 1 \in DOMAIN wire /\ Head(wire) = wire[1]
      BY <3>1
    <3>3. Head(wire) \in LogEvents
      BY <2>2, <3>2 DEF Frames, LogEvents
    <3>4. sup = "running" => Head(wire).kind /= "exited"
      BY <3>2, <1>a DEF LogFollows, is_live
    <3>5. Head(wire).kind \in {"attached", "detached", "stop_requested", "exited"}
      BY <2>2, <3>2 DEF Frames
    <3>6. ~is_terminal(index.state)
      BY <2>2 DEF is_live, is_terminal
    <3>7. sup = "running" => is_live(index'.state)
      BY <2>2, <3>1, <3>3, <3>4, <3>5, <3>6, Apply DEF is_live
    <3> QED BY <1>22, <3>7, <1>a DEF read_frame, IndexFollows, Ahead
  <2> QED BY <2>1, <2>2
<1>23. CASE read_eof
  BY <1>23, <1>a
     DEF read_eof, LogFollows, ThreadsInStep, IndexFollows, Ahead, is_live
<1>24. CASE final_check
  BY <1>24, <1>a
     DEF final_check, LogFollows, ThreadsInStep, IndexFollows, Ahead, is_live
<1>25. CASE final_probe
  BY <1>25, <1>a
     DEF final_probe, LogFollows, ThreadsInStep, IndexFollows, Ahead, is_live
<1>26. CASE final_load
  BY <1>26, <1>a
     DEF final_load, LogFollows, ThreadsInStep, IndexFollows, Ahead, is_live
<1>27. CASE final_emit
  BY <1>27, <1>a
     DEF final_emit, LogFollows, ThreadsInStep, IndexFollows, Ahead, is_live
<1>28. CASE crash
  BY <1>28, <1>a
     DEF crash, LogFollows, ThreadsInStep, IndexFollows, Ahead, is_live
<1>29. CASE restart
  <2>1. reply = "spec_invalid" => sup \notin Ahead
    BY <1>a DEF LogFollows, LogCodes, Down, Ahead
  <2> QED BY <1>29, <2>1, <1>a
          DEF restart, LogFollows, ThreadsInStep, IndexFollows, Ahead, is_live
<1>30. CASE Rest \/ UNCHANGED vars
  BY <1>30, <1>a
     DEF Rest, vars, LogFollows, ThreadsInStep, IndexFollows, Ahead, is_live
<1> QED BY <1>1, <1>2, <1>3, <1>4, <1>5, <1>6, <1>7, <1>8, <1>9, <1>10,
           <1>11, <1>12, <1>13, <1>14, <1>15, <1>16, <1>17, <1>18, <1>19,
           <1>20, <1>21, <1>22, <1>23, <1>24, <1>25, <1>26, <1>27, <1>28,
           <1>29, <1>30, <1>31, <1>32
            DEF Next, Supervisor, Dispatcher, Finaliser

\* Every end a thread holds stays justified.
LEMMA EndsStep ==
    ASSUME IInv, [Next]_vars
    PROVE  EndsJustified'
<1> USE DEF supVars, connVars, dispVars, finalVars, projVars, countVars
<1>a. /\ IndexTypes /\ LogFollows /\ ThreadsInStep /\ EndsJustified
      /\ IndexFollows
  BY DEF IInv
<1>b. is_terminal(L.state) => L' = L
  BY <1>a, LogMoves
<1>c. /\ index \in Records /\ held \in Records /\ loaded \in Records
      /\ L \in Records
  BY <1>a DEF IndexTypes, TypeOK
<1>d. NoLabel \notin LogCodes \cup DaemonVerdicts
  BY SessionIndexAssumption DEF SessionIndexAssumption
<1>e. /\ gaveup => gaveup'
      /\ sup \in Ahead \/ sup' \notin Ahead
  <2>1. CASE Supervisor
    BY <2>1 DEF Supervisor, Ahead, sup_refuses, sup_binds, sup_starts, sup_fails,
         sup_start_lost, sup_terminal, sup_hello, sup_registers, sup_ending, sup_logs_exit,
         sup_closes, sup_exits, sup_dies
  <2>2. CASE create \/ create_ready \/ watch \/ rename \/ rename_append
    BY <2>2 DEF Ahead, create, create_ready, watch, rename, rename_append
  <2>3. CASE rename_upsert \/ stop \/ project_remove \/ scan
    BY <2>3 DEF Ahead, rename_upsert, stop, project_remove, scan
  <2>4. CASE Finaliser \/ read_frame \/ read_eof
    BY <2>4 DEF Ahead, Finaliser, read_frame, read_eof, final_check,
         final_probe, final_load, final_emit
  <2>5. CASE crash \/ restart \/ Rest \/ UNCHANGED vars
    BY <2>5 DEF Ahead, crash, restart, Rest, vars
  <2>6. CASE scan_status
    <3>1. gaveup \in BOOLEAN
      BY <1>a DEF IndexTypes, TypeOK
    <3>2. sup' = sup
      BY <2>6 DEF scan_status
    <3>3. gaveup' = gaveup \/ gaveup' = (gaveup \/ sup \in {"starting", "bound"})
      BY <2>6, Zenon DEF scan_status
    <3> QED BY <3>1, <3>2, <3>3
  <2> QED BY <2>1, <2>2, <2>3, <2>4, <2>5, <2>6 DEF Next, Dispatcher, Finaliser
<1>f. ASSUME NEW r, EndJustified(r)
      PROVE  /\ is_terminal(r.state) /\ r.code \notin DaemonVerdicts =>
                    \/ L'.state = r.state /\ L'.code = r.code
                    \/ StillNoEnd(r.code)
             /\ r.code = "supervisor_lost" /\ ~gaveup' => sup' \notin Ahead
             /\ r.code /= NoLabel => is_terminal(r.state)
  <2>1. NoEnd(r.code) => StillNoEnd(r.code)
    BY <1>a, DownStays DEF NoEnd
  <2> QED BY <1>b, <1>e, <1>f, <2>1 DEF EndJustified
<1>g. EndJustified(index) /\ EndJustified(held) /\ EndJustified(loaded)
  BY <1>a DEF EndsJustified
<1> DEFINE Kept(r) == /\ is_terminal(r.state) /\ r.code \notin DaemonVerdicts =>
                            \/ L'.state = r.state /\ L'.code = r.code
                            \/ StillNoEnd(r.code)
                      /\ r.code = "supervisor_lost" /\ ~gaveup' => sup' \notin Ahead
                      /\ r.code /= NoLabel => is_terminal(r.state)
<1>h. Kept(index) /\ Kept(held) /\ Kept(loaded)
  BY <1>f, <1>g
<1>i. Kept(Absent) /\ Kept(Creating)
  BY Starts, <1>d DEF is_terminal, DaemonVerdicts
<1> SUFFICES Kept(index') /\ Kept(held') /\ Kept(loaded')
  BY DEF EndsJustified, EndJustified, NoEnd, StillNoEnd
<1> HIDE DEF Kept

<1>31. CASE sup_refuses
  BY <1>31, <1>h DEF sup_refuses
<1>32. CASE sup_binds
  BY <1>32, <1>h DEF sup_binds
<1>1. CASE sup_starts
  BY <1>1, <1>h DEF sup_starts
<1>2. CASE sup_fails
  BY <1>2, <1>h DEF sup_fails
<1>3. CASE sup_start_lost
  BY <1>3, <1>h DEF sup_start_lost
<1>4. CASE sup_terminal
  BY <1>4, <1>h DEF sup_terminal
<1>5. CASE sup_hello
  BY <1>5, <1>h DEF sup_hello
<1>6. CASE sup_registers
  BY <1>6, <1>h DEF sup_registers
<1>7. CASE sup_ending
  BY <1>7, <1>h DEF sup_ending
<1>8. CASE sup_logs_exit
  BY <1>8, <1>h DEF sup_logs_exit
<1>9. CASE sup_closes
  BY <1>9, <1>h DEF sup_closes
<1>10. CASE sup_exits
  BY <1>10, <1>h DEF sup_exits
<1>11. CASE sup_dies
  BY <1>11, <1>h DEF sup_dies
<1>12. CASE create
  <2>1. "supervisor_spawn_failed" \in LogCodes
    BY DEF LogCodes
  <2>2. /\ Failed(Creating, "supervisor_spawn_failed").state = "failed"
        /\ Failed(Creating, "supervisor_spawn_failed").code =
             "supervisor_spawn_failed"
    BY <2>1, Starts, FailedIs DEF is_terminal
  <2>3. ASSUME sup' = "gone"
        PROVE  Kept(Failed(Creating, "supervisor_spawn_failed"))
    <3>1. L' = L /\ L.state = "creating"
      BY <1>12, <1>a DEF create, supVars, L, LogFollows
    <3>2. StillNoEnd("supervisor_spawn_failed")
      BY <2>3, <3>1 DEF StillNoEnd, Down, is_terminal
    <3> QED BY <2>2, <3>2 DEF Kept, is_terminal
  <2> QED BY <1>12, <2>3, <1>h, <1>i DEF create
<1>13. CASE create_ready
  <2>1. /\ held = Creating /\ ~is_terminal(Creating.state)
        /\ Creating \in Records /\ Creating.code = NoLabel
    BY <1>13, <1>a, Starts DEF create_ready, ThreadsInStep, is_terminal
  <2>2. ASSUME reply = "ok", held' = apply_event(held, Event("started", NoLabel))
        PROVE  Kept(held')
    <3>1. PICK e \in LogEvents :
              e = Event("started", NoLabel) /\ e.kind = "started"
      BY EventsAre
    <3>2. held'.state = "running" /\ held'.code = NoLabel
      BY <2>1, <2>2, <3>1, Apply
    <3> QED BY <3>2, <1>d DEF Kept, is_terminal, DaemonVerdicts
  <2>3. ASSUME reply \in LogCodes, held' = Failed(held, reply)
        PROVE  Kept(held')
    <3>1. held'.state = "failed" /\ held'.code = reply
      BY <2>1, <2>3, FailedIs
    <3>2. \/ L.state = "failed" /\ L.code = reply
          \/ NoEnd(reply)
      BY <2>3, <1>a DEF LogFollows
    <3>3. \/ L'.state = "failed" /\ L'.code = reply
          \/ StillNoEnd(reply)
      <4>1. NoEnd(reply) => StillNoEnd(reply)
        BY <1>a, DownStays DEF NoEnd
      <4> QED BY <3>2, <4>1, <1>b DEF is_terminal
    <3>4. reply /= "supervisor_lost"
      BY <2>3 DEF LogCodes
    <3> QED BY <3>1, <3>3, <3>4, <1>d DEF Kept, is_terminal
  <2>4. ASSUME held' = Failed(held, "supervisor_timeout")
        PROVE  Kept(held')
    <3>1. "supervisor_timeout" \in DaemonVerdicts
      BY DEF DaemonVerdicts
    <3>2. held'.state = "failed" /\ held'.code = "supervisor_timeout"
      BY <2>1, <2>4, <3>1, FailedIs
    <3> QED BY <3>1, <3>2 DEF Kept, is_terminal
  <2>5. Kept(held')
    BY <1>13, <2>2, <2>3, <2>4 DEF create_ready
  <2> QED BY <1>13, <2>5, <1>h DEF create_ready
<1>14. CASE watch
  BY <1>14, <1>h DEF watch
<1>15. CASE rename
  BY <1>15, <1>h DEF rename
<1>16. CASE rename_append
  BY <1>16, <1>h DEF rename_append
<1>17. CASE rename_upsert
  <2>1. PICK e \in LogEvents : e = Event("renamed", Label) /\ e.kind = "renamed"
    BY EventsAre
  <2>2. held'.state = held.state /\ held'.code = held.code
    BY <1>17, <2>1, <1>c, Apply DEF rename_upsert
  <2>3. Kept(held')
    BY <2>2, <1>h DEF Kept
  <2> QED BY <1>17, <2>3, <1>h DEF rename_upsert
<1>18. CASE stop
  BY <1>18, <1>h DEF stop
<1>19. CASE project_remove
  BY <1>19, <1>h DEF project_remove
<1>20. CASE scan
  <2>1. Kept(L)
    BY <1>a, <1>b, <1>d DEF Kept, LogFollows, LogCodes, DaemonVerdicts
  <2> QED BY <1>20, <2>1, <1>h DEF scan, L
<1>21. CASE scan_status
  <2>1. ASSUME ~StatusAnswers
        PROVE  Kept(Finalised)
    <3>1. CASE is_terminal(L.state)
      BY <3>1, <1>a, <1>b, <1>d, FinalisedIs
         DEF Kept, LogFollows, LogCodes, DaemonVerdicts
    <3>2. CASE ~is_terminal(L.state)
      <4>1. Finalised.state = "failed" /\ Finalised.code = "supervisor_lost"
        BY <3>2, <1>a, FinalisedIs
      <4>2. ~gaveup' => sup' \notin Ahead
        BY <1>21, <2>1, <1>a DEF scan_status, StatusAnswers, ThreadsInStep,
               IndexFollows, Ahead
      <4> QED BY <4>1, <4>2 DEF Kept, is_terminal, DaemonVerdicts
    <3> QED BY <3>1, <3>2
  <2>2. ASSUME StatusAnswers,
               held' = [held EXCEPT !.state = "running", !.clients = terms]
        PROVE  Kept(held')
    <3>1. held'.state = "running" /\ held'.code = held.code
      BY <2>2, <1>c DEF Records
    <3>2. held.code = NoLabel
      BY <1>21, <1>a DEF scan_status, ThreadsInStep
    <3> QED BY <3>1, <3>2, <1>d DEF Kept, is_terminal, DaemonVerdicts
  <2> QED BY <1>21, <2>1, <2>2, <1>h DEF scan_status
<1>22. CASE read_frame
  <2>1. CASE Head(wire).kind = "closed"
    BY <1>22, <2>1, <1>h DEF read_frame
  <2>2. CASE Head(wire).kind /= "closed"
    <3>1. /\ wire \in Seq(Frames) /\ wire /= <<>>
          /\ index' = apply_event(index, Head(wire))
      BY <1>22, <2>2, <1>a DEF read_frame, IndexTypes
    <3>2. Head(wire) \in Frames /\ 1 \in DOMAIN wire /\ Head(wire) = wire[1]
      BY <3>1
    <3>3. Head(wire) \in LogEvents
      BY <2>2, <3>2 DEF Frames, LogEvents
    <3>4. Head(wire).kind \in {"attached", "detached", "stop_requested", "exited"}
      BY <2>2, <3>2 DEF Frames
    <3>5. CASE is_terminal(index.state)
      BY <1>22, <3>1, <3>3, <3>5, <1>c, <1>h, Apply DEF read_frame
    <3>6. CASE ~is_terminal(index.state)
      <4>1. CASE Head(wire).kind = "exited"
        <5>1. index'.state = "exited" /\ index'.code = NoLabel
          BY <3>1, <3>3, <3>6, <4>1, <1>c, Apply
        <5>2. L'.state = "exited" /\ L'.code = NoLabel
          BY <3>2, <4>1, <1>a, <1>b DEF LogFollows, is_terminal
        <5>3. Kept(index')
          BY <5>1, <5>2, <1>d DEF Kept, is_terminal, DaemonVerdicts
        <5> QED BY <1>22, <5>3, <1>h DEF read_frame
      <4>2. CASE Head(wire).kind /= "exited"
        <5>1. index'.code = index.code /\ ~is_terminal(index'.state)
          BY <3>1, <3>3, <3>4, <3>6, <4>2, <1>c, Apply DEF is_terminal
        <5>2. index.code = NoLabel
          BY <3>6, <1>h DEF Kept
        <5>3. Kept(index')
          BY <5>1, <5>2, <1>d DEF Kept, DaemonVerdicts
        <5> QED BY <1>22, <5>3, <1>h DEF read_frame
      <4> QED BY <4>1, <4>2
    <3> QED BY <3>5, <3>6
  <2> QED BY <2>1, <2>2
<1>23. CASE read_eof
  BY <1>23, <1>h DEF read_eof
<1>24. CASE final_check
  BY <1>24, <1>h DEF final_check
<1>25. CASE final_probe
  BY <1>25, <1>h DEF final_probe
<1>26. CASE final_load
  <2>1. Kept(Finalised)
    <3>1. CASE is_terminal(L.state)
      BY <3>1, <1>a, <1>b, <1>d, FinalisedIs
         DEF Kept, LogFollows, LogCodes, DaemonVerdicts
    <3>2. CASE ~is_terminal(L.state)
      <4>1. Finalised.state = "failed" /\ Finalised.code = "supervisor_lost"
        BY <3>2, <1>a, FinalisedIs
      <4>2. ~gaveup' => sup' \notin Ahead
        BY <1>26, <1>a DEF final_load, ThreadsInStep
      <4> QED BY <4>1, <4>2 DEF Kept, is_terminal, DaemonVerdicts
    <3> QED BY <3>1, <3>2
  <2> QED BY <1>26, <2>1, <1>h DEF final_load
<1>27. CASE final_emit
  BY <1>27, <1>h DEF final_emit
<1>28. CASE crash
  BY <1>28, <1>i DEF crash
<1>29. CASE restart
  BY <1>29, <1>h DEF restart
<1>30. CASE Rest \/ UNCHANGED vars
  BY <1>30, <1>h DEF Rest, vars
<1> QED BY <1>1, <1>2, <1>3, <1>4, <1>5, <1>6, <1>7, <1>8, <1>9, <1>10,
           <1>11, <1>12, <1>13, <1>14, <1>15, <1>16, <1>17, <1>18, <1>19,
           <1>20, <1>21, <1>22, <1>23, <1>24, <1>25, <1>26, <1>27, <1>28,
           <1>29, <1>30, <1>31, <1>32
            DEF Next, Supervisor, Dispatcher, Finaliser

-----------------------------------------------------------------------------
(* The theorems.                                                            *)

\* Before the first create nothing is logged and nobody acts.
LEMMA InitIInv == Init => IInv
<1> SUFFICES ASSUME Init PROVE IInv
  OBVIOUS
<1>1. L = Creating
  BY FromLogEmpty DEF Init, L
<1>2. <<>> \in Seq(LogEvents) /\ <<>> \in Seq(Frames)
  OBVIOUS
<1>3. IndexTypes
  <2>1. TypeOK
    <3>1. index \in Records /\ held \in Records /\ loaded \in Records
      BY Starts DEF Init
    <3>2. 0 \in 0..MaxRenames /\ 0 \in 0..MaxAttaches /\ 0 \in 0..MaxCrashes
      BY SessionIndexAssumption DEF SessionIndexAssumption
    <3>3. socket \in BOOLEAN /\ removed \in BOOLEAN /\ gaveup \in BOOLEAN
      BY DEF Init
    <3> QED BY <3>1, <3>2, <3>3 DEF Init, TypeOK
  <2>2. terms <= attaches
    BY DEF Init
  <2>3. L \in Records
    BY <1>1, Starts
  <2> QED BY <1>2, <2>1, <2>2, <2>3 DEF Init, IndexTypes
<1>4. LogFollows
  BY <1>1, Starts DEF Init, LogFollows, LogCodes, Unlogged, ToSet
<1>5. ThreadsInStep /\ IndexFollows
  BY DEF Init, ThreadsInStep, IndexFollows, Ahead
<1>6. EndsJustified
  BY Starts, SessionIndexAssumption
     DEF SessionIndexAssumption, DaemonVerdicts, Init, EndsJustified,
         EndJustified, is_terminal
<1> QED BY <1>3, <1>4, <1>5, <1>6 DEF IInv

\* The daemon's threads, the supervisor and the disk stay in step through
\* every interleaving, crash and restart.
THEOREM Invariance == Spec => []IInv
<1>1. IInv /\ [Next]_vars => IInv'
  BY TypesStep, LogFollowsStep, ThreadsStep, EndsStep, IndexFollowsStep DEF IInv
<1> QED BY <1>1, InitIInv, PTL DEF Spec

\* Every variable keeps its type, whatever is folded, loaded or adopted.
THEOREM TypeCorrect == Spec => []TypeOK
<1>1. IInv => TypeOK
  BY DEF IInv, IndexTypes
<1> QED BY <1>1, Invariance, PTL

\* create, the live fold, the finalise thread and the scan never disagree with
\* the disk about how a session ended.
THEOREM EndsAreLogged == Spec => []ShownEndIsLogged
<1>1. IInv => ShownEndIsLogged
  BY DEF IInv, EndsJustified, EndJustified, NoEnd, ShownEndIsLogged, L
<1> QED BY <1>1, Invariance, PTL

\* project.remove's guard on the index protects the agent that runs behind it.
THEOREM NoAgentLosesItsProject == Spec => []RemoveNeverUnderAgent
<1>1. IInv => RemoveNeverUnderAgent
  BY DEF IInv, IndexFollows, RemoveNeverUnderAgent, Ahead
<1> QED BY <1>1, Invariance, PTL

\* `supervisor_lost` is said of nobody who still runs.
THEOREM LostIsOver == Spec => []LostMeansOver
<1>1. IInv => LostMeansOver
  BY DEF IInv, EndsJustified, EndJustified, LostMeansOver, Ahead
<1> QED BY <1>1, Invariance, PTL

\* Nobody takes the socket path from a supervisor that runs.
THEOREM SocketStays == Spec => []RunningIsReachable
<1>1. IInv => RunningIsReachable
  BY DEF IInv, IndexFollows, RunningIsReachable
<1> QED BY <1>1, Invariance, PTL

-----------------------------------------------------------------------------
(* Labels.  A label may be in the index, in a copy a thread holds or in     *)
(* what the log means.                                                      *)

Renamed == Event("renamed", Label) \in ToSet(log)
LabelLogged(r) == r.label /= NoLabel => Renamed
LabelInv == /\ LabelLogged(index) /\ LabelLogged(held) /\ LabelLogged(loaded)
            /\ LabelLogged(L)
            /\ disp = "rename_upsert" => Renamed

\* Only a rename changes a record's label.
LEMMA ApplyLabel ==
    ASSUME NEW r \in Records, NEW e \in LogEvents \cup Verdicts, e.kind /= "renamed"
    PROVE  apply_event(r, e).label = r.label
<1>1. CASE is_terminal(r.state)
  BY <1>1, ApplyTerminal
<1>2. CASE ~is_terminal(r.state)
  <2> DEFINE a == apply_event(r, e)
  <2>1. e.kind \in {"created", "applied", "started", "attached", "detached",
                    "stop_requested", "exited", "failed"}
    BY DEF LogEvents, Verdicts, Event
  <2>2. \/ a = r
        \/ a = [r EXCEPT !.clients = r.clients + 1]
        \/ a = [r EXCEPT !.clients = IF r.clients = 0 THEN 0 ELSE r.clients - 1]
        \/ a = [r EXCEPT !.state = "running"]
        \/ a = [r EXCEPT !.state = IF is_live(r.state) THEN "stopping" ELSE r.state]
        \/ a = [r EXCEPT !.state = "exited", !.code = NoLabel, !.clients = 0]
        \/ a = [r EXCEPT !.state = "failed", !.code = e.arg, !.clients = 0]
    <3>1. CASE e.kind \in {"created", "applied"}
      BY <1>2, <3>1, Zenon DEF apply_event
    <3>2. CASE e.kind = "attached"
      BY <1>2, <3>2, Zenon DEF apply_event
    <3>3. CASE e.kind = "detached"
      BY <1>2, <3>3, Zenon DEF apply_event
    <3>4. CASE e.kind = "started"
      BY <1>2, <3>4, Zenon DEF apply_event
    <3>5. CASE e.kind = "stop_requested"
      BY <1>2, <3>5, Zenon DEF apply_event
    <3>6. CASE e.kind = "exited"
      BY <1>2, <3>6, Zenon DEF apply_event, Ended
    <3>7. CASE e.kind = "failed"
      BY <1>2, <3>7, Zenon DEF apply_event, Ended
    <3> QED BY <2>1, <3>1, <3>2, <3>3, <3>4, <3>5, <3>6, <3>7
  <2> HIDE DEF a
  <2>3. a.label = r.label
    BY <2>2 DEF Records
  <2> QED BY <2>3 DEF a
<1> QED BY <1>1, <1>2

\* A line that is no rename leaves the label of what the log means.
LEMMA LabelLine ==
    ASSUME NEW lines \in Seq(LogEvents), from_log(lines) \in Records,
           NEW e \in LogEvents, e.kind /= "renamed"
    PROVE  /\ Append(lines, e) \in Seq(LogEvents)
           /\ from_log(Append(lines, e)) \in Records
           /\ from_log(Append(lines, e)).label = from_log(lines).label
<1>1. from_log(Append(lines, e)) = apply_event(from_log(lines), e)
  BY FromLogAppend
<1>2. PICK r \in Records : r = from_log(lines)
  OBVIOUS
<1>3. apply_event(r, e) \in Records /\ apply_event(r, e).label = r.label
  BY Apply, ApplyLabel
<1> QED BY <1>1, <1>2, <1>3

\* No line is taken back.
LEMMA LogGrows ==
    ASSUME IndexTypes, [Next]_vars
    PROVE  Renamed => Renamed'
<1>1. log \in Seq(LogEvents)
  BY DEF IndexTypes
<1>2. \/ \E more \in Seq(LogEvents) : log' = log \o more
      \/ \E e \in LogEvents : log' = Append(log, e)
      \/ log' = log
  <2>1. ASSUME sup_starts \/ sup_fails \/ sup_start_lost
        PROVE  \/ \E more \in Seq(LogEvents) : log' = log \o more
               \/ \E e \in LogEvents : log' = Append(log, e)
               \/ log' = log
    <3>1. PICK a, b, c, d \in LogEvents :
              /\ a = Event("created", NoLabel) /\ b = Event("applied", NoLabel)
              /\ c = Event("started", NoLabel)
              /\ d = Event("failed", "supervisor_spawn_failed")
      BY EventsAre DEF LogCodes
    <3>2. <<b, c>> \in Seq(LogEvents) /\ <<a, d>> \in Seq(LogEvents)
      OBVIOUS
    <3>3. \/ log' = log \o <<b, c>> \/ log' = log \o <<a, d>> \/ log' = log
          \/ \E k \in LogCodes : log' = Append(log, Event("failed", k))
      BY <2>1, <3>1, Zenon DEF sup_starts, sup_fails, sup_start_lost
    <3> QED BY <3>2, <3>3, EventsAre, Zenon
  <2>2. ASSUME sup_binds \/ sup_terminal \/ sup_logs_exit \/ rename_append \/ stop
        PROVE  log' = log \/ \E e \in LogEvents : log' = Append(log, e)
    BY <2>2, EventsAre DEF sup_binds, sup_terminal, sup_logs_exit, rename_append,
           stop, Logs
  <2>3. \/ sup_binds \/ sup_starts \/ sup_fails \/ sup_start_lost \/ sup_terminal
        \/ sup_logs_exit \/ rename_append \/ stop \/ log' = log
    BY DEF Next, Supervisor, Dispatcher, Finaliser, Rest, vars, supVars,
           sup_refuses, sup_hello, sup_registers, sup_ending, sup_closes, sup_exits, sup_dies,
           create, create_ready, watch, rename, rename_upsert, project_remove,
           scan, scan_status, read_frame, read_eof, final_check, final_probe,
           final_load, final_emit, crash, restart
  <2> QED BY <2>1, <2>2, <2>3
<1>3. ASSUME NEW i \in 1..Len(log) PROVE i \in 1..Len(log') /\ log'[i] = log[i]
  <2>1. ASSUME NEW more \in Seq(LogEvents), log' = log \o more
        PROVE  i \in 1..Len(log') /\ log'[i] = log[i]
    BY <1>1, <2>1
  <2>2. ASSUME NEW e \in LogEvents, log' = Append(log, e)
        PROVE  i \in 1..Len(log') /\ log'[i] = log[i]
    BY <1>1, <2>2
  <2> QED BY <1>2, <2>1, <2>2
<1>4. ASSUME Renamed PROVE Renamed'
  <2>1. PICK i \in 1..Len(log) : log[i] = Event("renamed", Label)
    BY <1>1, <1>4 DEF Renamed, ToSet
  <2>2. i \in 1..Len(log') /\ log'[i] = Event("renamed", Label)
    BY <1>3, <2>1
  <2>3. log' \in Seq(LogEvents)
    <3>1. ASSUME NEW more \in Seq(LogEvents), log' = log \o more
          PROVE  log' \in Seq(LogEvents)
      BY <1>1, <3>1
    <3>2. ASSUME NEW e \in LogEvents, log' = Append(log, e)
          PROVE  log' \in Seq(LogEvents)
      BY <1>1, <3>2
    <3> QED BY <1>1, <1>2, <3>1, <3>2
  <2>4. i \in DOMAIN log'
    BY <2>2, <2>3
  <2> QED BY <2>2, <2>4 DEF Renamed, ToSet
<1> QED BY <1>4

\* What the log means has the label it had, or the log has a rename.
LEMMA LogLabel ==
    ASSUME IndexTypes, [Next]_vars
    PROVE  L'.label = L.label \/ Renamed'
<1>1. log \in Seq(LogEvents) /\ from_log(log) \in Records
  BY DEF IndexTypes, L
<1>2. PICK a, b, c, d \in LogEvents :
          /\ a = Event("created", NoLabel) /\ b = Event("applied", NoLabel)
          /\ c = Event("started", NoLabel)
          /\ d = Event("failed", "supervisor_spawn_failed")
          /\ a.kind = "created" /\ b.kind = "applied" /\ c.kind = "started" /\ d.kind = "failed"
  BY EventsAre DEF LogCodes
<1>3. ASSUME NEW e \in LogEvents, NEW f \in LogEvents, log' = log \o <<e, f>>,
             e.kind /= "renamed", f.kind /= "renamed"
      PROVE  L'.label = L.label
  <2>2. log' = Append(Append(log, e), f)
    BY <1>1, <1>3
  <2>3. PICK x : x = Append(log, e)
    OBVIOUS
  <2>4. x \in Seq(LogEvents) /\ from_log(x) \in Records /\ from_log(x).label = L.label
    BY <1>1, <1>3, <2>3, LabelLine DEF L
  <2>5. from_log(Append(x, f)).label = from_log(x).label
    BY <1>3, <2>4, LabelLine
  <2> QED BY <2>2, <2>3, <2>4, <2>5 DEF L
<1>5. ASSUME NEW e \in LogEvents, e.kind /= "renamed", log' = Append(log, e)
      PROVE  L'.label = L.label
  BY <1>1, <1>5, LabelLine DEF L
<1>4. ASSUME sup_starts \/ sup_start_lost PROVE L'.label = L.label
  <2>1. log' = log \/ log' = log \o <<b, c>>
    BY <1>2, <1>4, Zenon DEF sup_starts, sup_start_lost
  <2> QED BY <1>2, <1>3, <2>1 DEF L
<1>6. ASSUME sup_fails PROVE L'.label = L.label
  <2>1. \/ log' = log \o <<a, d>>
        \/ \E k \in LogCodes : log' = Append(log, Event("failed", k))
    BY <1>2, <1>6, Zenon DEF sup_fails
  <2>2. ASSUME NEW k \in LogCodes, log' = Append(log, Event("failed", k))
        PROVE  L'.label = L.label
    <3>1. PICK e \in LogEvents : e = Event("failed", k) /\ e.kind = "failed"
      BY EventsAre
    <3> QED BY <1>5, <2>2, <3>1
  <2> QED BY <1>2, <1>3, <2>1, <2>2
<1>7. ASSUME sup_binds \/ sup_terminal \/ sup_logs_exit \/ stop
      PROVE  L'.label = L.label
  <2>1. PICK e \in LogEvents : e.kind /= "renamed" /\ log' = Append(log, e)
    BY <1>7, EventsAre DEF sup_binds, sup_terminal, sup_logs_exit, stop, Logs
  <2> QED BY <1>5, <2>1
<1>8. ASSUME rename_append PROVE log' = log \/ Renamed'
  <2>1. CASE log' = Append(log, Event("renamed", Label))
    <3>1. PICK e \in LogEvents : e = Event("renamed", Label)
      BY EventsAre
    <3>2. log' \in Seq(LogEvents) /\ Len(log') \in 1..Len(log') /\ log'[Len(log')] = e
      BY <1>1, <2>1, <3>1
    <3> QED BY <3>1, <3>2 DEF Renamed, ToSet
  <2> QED BY <1>8, <2>1 DEF rename_append
<1>9. ASSUME log' = log PROVE L'.label = L.label
  BY <1>9 DEF L
<1>10. \/ sup_binds \/ sup_starts \/ sup_fails \/ sup_start_lost \/ sup_terminal
       \/ sup_logs_exit \/ rename_append \/ stop \/ log' = log
  BY DEF Next, Supervisor, Dispatcher, Finaliser, Rest, vars, supVars,
         sup_refuses, sup_hello, sup_registers, sup_ending, sup_closes, sup_exits, sup_dies,
         create, create_ready, watch, rename, rename_upsert, project_remove,
         scan, scan_status, read_frame, read_eof, final_check, final_probe,
         final_load, final_emit, crash, restart
<1> QED BY <1>4, <1>6, <1>7, <1>8, <1>9, <1>10

\* A failure folded into a record keeps its label.
LEMMA FailedLabel ==
    ASSUME NEW r \in Records, NEW c \in LogCodes \cup DaemonVerdicts
    PROVE  Failed(r, c).label = r.label
<1>1. PICK e \in LogEvents \cup Verdicts : e = Event("failed", c) /\ e.kind = "failed"
  BY EventsAre
<1>2. Failed(r, c) = apply_event(r, e) /\ e.kind /= "renamed"
  BY <1>1 DEF Failed
<1> QED BY <1>2, ApplyLabel

\* finalise_lost keeps the label the log has.
LEMMA FinalisedLabel == IndexTypes => Finalised.label = L.label
<1> SUFFICES ASSUME IndexTypes PROVE Finalised.label = L.label
  OBVIOUS
<1>1. L \in Records /\ "supervisor_lost" \in DaemonVerdicts
  BY DEF IndexTypes, DaemonVerdicts
<1>2. Finalised = L \/ Finalised = Failed(L, "supervisor_lost")
  BY DEF Finalised, L
<1> QED BY <1>1, <1>2, FailedLabel

\* Whoever comes to hold a label has it from one who had it, or the log has a
\* rename.
LEMMA LabelStep == IInv /\ LabelInv /\ [Next]_vars => LabelInv'
<1> SUFFICES ASSUME IInv, LabelInv, [Next]_vars PROVE LabelInv'
  OBVIOUS
<1> USE DEF supVars, connVars, dispVars, finalVars, projVars, countVars
<1>1. IndexTypes /\ index \in Records /\ held \in Records /\ loaded \in Records /\ L \in Records
  BY DEF IInv, IndexTypes, TypeOK
<1>2. Renamed => Renamed'
  BY <1>1, LogGrows
<1> DEFINE Had == {NoLabel, index.label, held.label, loaded.label, L.label}
<1>3. \A x \in Had : x /= NoLabel => Renamed'
  BY <1>2 DEF LabelInv, LabelLogged
<1>4. LabelLogged(L)'
  <2>1. L'.label = L.label \/ Renamed'
    BY <1>1, LogLabel
  <2> QED BY <1>3, <2>1 DEF LabelLogged
<1>5. Creating.label = NoLabel /\ Absent.label = NoLabel
  BY DEF Creating, Absent
<1>6. Finalised.label = L.label
  BY <1>1, FinalisedLabel
<1> DEFINE Goal == /\ index'.label \in Had \/ Renamed'
                   /\ held'.label \in Had \/ Renamed'
                   /\ loaded'.label \in Had \/ Renamed'
                   /\ disp' = "rename_upsert" => Renamed'
<1>7. ASSUME Goal PROVE LabelInv'
  BY <1>3, <1>4, <1>7 DEF LabelInv, LabelLogged
<1>8. ASSUME index' = index, held' = held, loaded' = loaded, disp' = disp
      PROVE  Goal
  BY <1>2, <1>8 DEF LabelInv
<1>9. CASE create
  <2>1. "supervisor_spawn_failed" \in LogCodes
    BY DEF LogCodes
  <2>2. Failed(Creating, "supervisor_spawn_failed").label = NoLabel
    BY <1>5, <2>1, Starts, FailedLabel
  <2>3. held'.label = NoLabel /\ index'.label = NoLabel /\ loaded' = loaded
        /\ disp' \in {"idle", "await"}
    BY <1>5, <1>9, <2>2 DEF create
  <2> QED BY <1>7, <2>3
<1>10. CASE create_ready
  <2>1. "supervisor_timeout" \in DaemonVerdicts
    BY DEF DaemonVerdicts
  <2>2. PICK e \in LogEvents \cup Verdicts : e = Event("started", NoLabel) /\ e.kind = "started"
    BY EventsAre
  <2>3. apply_event(held, e).label = held.label
    BY <1>1, <2>2, ApplyLabel
  <2>4. \A c \in LogCodes \cup DaemonVerdicts : Failed(held, c).label = held.label
    BY <1>1, FailedLabel
  <2>5. held'.label = held.label
    BY <1>10, <2>1, <2>2, <2>3, <2>4 DEF create_ready
  <2>6. index' = held' /\ loaded' = loaded /\ disp' \in {"idle", "watch"}
    BY <1>10 DEF create_ready
  <2> QED BY <1>7, <2>5, <2>6
<1>11. CASE rename
  <2>1. held' = index /\ index' = index /\ loaded' = loaded /\ disp' = "rename_append"
    BY <1>11 DEF rename
  <2> QED BY <1>7, <2>1
<1>12. CASE rename_append
  <2>1. held' = held /\ index' = index /\ loaded' = loaded
    BY <1>12 DEF rename_append
  <2>2. disp' = "rename_upsert" => Renamed'
    <3>1. ASSUME log' = Append(log, Event("renamed", Label)) PROVE Renamed'
      <4>1. PICK e \in LogEvents : e = Event("renamed", Label)
        BY EventsAre
      <4>2. log' \in Seq(LogEvents) /\ Len(log') \in 1..Len(log') /\ log'[Len(log')] = e
        BY <1>1, <3>1, <4>1 DEF IndexTypes
      <4> QED BY <4>1, <4>2 DEF Renamed, ToSet
    <3> QED BY <1>12, <3>1 DEF rename_append
  <2> QED BY <1>7, <2>1, <2>2
<1>13. CASE rename_upsert
  <2>1. Renamed' /\ loaded' = loaded /\ disp' = "idle"
    BY <1>2, <1>13 DEF rename_upsert, LabelInv
  <2> QED BY <1>7, <2>1
<1>14. CASE scan
  <2>1. held' = L /\ (index' = L \/ index' = index) /\ loaded' = loaded
        /\ disp' \in {"idle", "scan_status"}
    BY <1>14 DEF scan, L
  <2> QED BY <1>7, <2>1
<1>15. CASE scan_status
  <2>1. \/ held' = [held EXCEPT !.state = "running", !.clients = terms] /\ index' = held'
        \/ held' = held /\ index' = Finalised
    BY <1>15 DEF scan_status
  <2>2. [held EXCEPT !.state = "running", !.clients = terms].label = held.label
    BY <1>1 DEF Records
  <2>3. loaded' = loaded /\ disp' \in {"watch", "idle"}
    BY <1>15 DEF scan_status
  <2> QED BY <1>6, <1>7, <2>1, <2>2, <2>3
<1>16. CASE read_frame
  <2>1. held' = held /\ loaded' = loaded /\ disp' = disp /\ wire /= <<>>
    BY <1>16 DEF read_frame
  <2>2. Head(wire) \in Frames
    BY <1>1, <2>1 DEF IndexTypes
  <2>3. PICK e \in Frames : e = Head(wire)
    BY <2>2
  <2>4. CASE e.kind = "closed"
    <3>1. index' = index
      BY <1>16, <2>3, <2>4 DEF read_frame
    <3> QED BY <1>7, <1>8, <2>1, <3>1
  <2>5. CASE e.kind /= "closed"
    <3>1. e \in LogEvents /\ e.kind /= "renamed"
      BY <2>5 DEF Frames, LogEvents
    <3>2. index' = apply_event(index, e)
      BY <1>16, <2>3, <2>5 DEF read_frame
    <3>3. index'.label = index.label
      BY <1>1, <3>1, <3>2, ApplyLabel
    <3> QED BY <1>2, <1>7, <2>1, <3>3 DEF LabelInv
  <2> QED BY <2>4, <2>5
<1>17. CASE final_load
  <2>1. loaded' = Finalised /\ index' = index /\ held' = held /\ disp' = disp
    BY <1>17 DEF final_load
  <2> QED BY <1>2, <1>6, <1>7, <2>1 DEF LabelInv
<1>18. CASE final_emit
  <2>1. index' = loaded /\ held' = held /\ loaded' = loaded /\ disp' = disp
    BY <1>18 DEF final_emit
  <2> QED BY <1>2, <1>7, <2>1 DEF LabelInv
<1>19. CASE crash
  <2>1. index' = Absent /\ held' = Absent /\ loaded' = Absent /\ disp' = "down"
    BY <1>19 DEF crash
  <2> QED BY <1>5, <1>7, <2>1
<1>20. CASE watch
  <2>1. index' = index /\ held' = held /\ loaded' = loaded /\ disp' = "idle"
    BY <1>20 DEF watch
  <2> QED BY <1>7, <2>1
<1>21. CASE restart
  <2>1. index' = index /\ held' = held /\ loaded' = loaded /\ disp' \in {"idle", "scan"}
    BY <1>21 DEF restart
  <2> QED BY <1>7, <2>1
<1>22. CASE UNCHANGED <<index, held, loaded, disp>>
  BY <1>7, <1>8, <1>22
<1>23. \/ create \/ create_ready \/ rename \/ rename_append \/ rename_upsert
       \/ scan \/ scan_status \/ read_frame \/ final_load \/ final_emit
       \/ crash \/ watch \/ restart \/ UNCHANGED <<index, held, loaded, disp>>
  BY DEF Next, Supervisor, Dispatcher, Finaliser, Rest, vars,
         sup_refuses, sup_binds, sup_starts, sup_fails, sup_start_lost, sup_terminal, sup_hello,
         sup_registers, sup_ending, sup_logs_exit, sup_closes, sup_exits, sup_dies,
         stop, project_remove, read_eof, final_check, final_probe
<1> QED BY <1>9, <1>10, <1>11, <1>12, <1>13, <1>14, <1>15, <1>16, <1>17,
           <1>18, <1>19, <1>20, <1>21, <1>22, <1>23

\* rename's order, disk first: no crash, restart or thread shows a label that
\* was not written down.
THEOREM LabelsAreLogged == Spec => []LabelWasLogged
<1>1. Init => LabelInv
  <2> SUFFICES ASSUME Init PROVE LabelInv
    OBVIOUS
  <2>1. L = Creating
    BY FromLogEmpty DEF Init, L
  <2> QED BY <2>1 DEF Init, LabelInv, LabelLogged, Creating, Absent
<1>2. IInv /\ IInv' /\ LabelInv /\ [Next]_vars => LabelInv'
  BY LabelStep
<1>3. IInv /\ LabelInv => LabelWasLogged
  <2> SUFFICES ASSUME IInv, LabelInv, index.label /= NoLabel
               PROVE  Event("renamed", index.label) \in ToSet(log)
    BY DEF LabelWasLogged
  <2>1. index.label = Label
    BY DEF IInv, IndexTypes, TypeOK, Records
  <2> QED BY <2>1 DEF LabelInv, LabelLogged, Renamed
<1> QED BY <1>1, <1>2, <1>3, Invariance, PTL DEF Spec
=============================================================================
