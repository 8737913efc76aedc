---------------------------- MODULE EngineProofs ----------------------------
(***************************************************************************)
(* The safety of Engine, for any number of daemons started, commands sent  *)
(* and outside events.                                                     *)
(***************************************************************************)
EXTENDS Engine, SequenceTheorems, TLAPS

\* Which process the supervisor and the command under way hold, by where the
\* command is: between the stop of one daemon and the hello of the next the
\* supervisor holds none, and a call is made with one.
Stopping == {"stop_wait", "grace"}
\* The install once the daemon was stopped.
Replacing == {"validate", "uninstall", "clean", "import"}
HoldInv ==
    /\ op.pc = "idle" => op.g = None
    /\ op.pc \in Stopping \cup {"hello"} => op.g \in Gen
    /\ op.pc \notin Stopping \cup {"hello"} => op.g = None
    /\ op.pc \in Stopping \cup {"spawn", "hello"} => live = None
    /\ op.pc \in Replacing => live = None
    /\ op.pc \in {"call", "wait"} => live # None
    /\ live # None => dstate = "running"
    /\ dstate = "running" => live # None \/ op.pc \in Stopping
    /\ \A g \in Gen : relay[g] = "running" => g \in {live, op.g}

\* Which commands come where.
Callers == {"call", "open", "engine_doctor"}
Starters == Callers \cup {"engine_start_daemon"}
Stoppers == Starters \cup {"engine_stop_daemon", "engine_install_distro"}
KindInv ==
    /\ op.pc \in {"enter", "call", "wait"} => op.k \in Callers
    /\ op.pc \in {"preflight", "spawn", "hello"} => op.k \in Starters
    /\ op.pc \in {"stop", "stop_wait", "grace"} => op.k \in Stoppers
    /\ op.pc = "locate" => op.k = "engine_install_distro"
    /\ op.k = "call" => op.try = 0
    /\ op.pc # "idle" => commands > 0

\* The image was judged before the distribution goes.
ImageInv == op.pc = "uninstall" => image \in {"good", "unchecked"}

\* The flag is held by the one subscription under way or by the one pump.
PumpInv ==
    /\ subscribing \in {0, 1}
    /\ \A g \in Gen : pumps[g] \in {0, 1}
    /\ \A g, h \in Gen : pumps[g] = 1 /\ pumps[h] = 1 => g = h
    /\ subscribing = 1 => alive /\ \A g \in Gen : pumps[g] = 0
    /\ \A g \in Gen : pumps[g] = 1 => alive

\* A request line that will carry out the command c when it is read.
Carries(l, c) == l.text = "request" /\ l.m = "method" /\ l.origin = "stdio" /\ l.c = c
Pending(g, i, c) == i \in DOMAIN inbound[g] /\ Carries(inbound[g][i], c)

\* The command under way may still send its request.
Unsent == /\ op.k \in {"call", "open"} /\ op.try = 0
          /\ op.pc \notin {"idle", "wait", "finish"}

\* A command's request is in one queue, or was carried out, or neither.
OnceInv ==
    \A c \in 1..MaxCommands :
        /\ executed[c] <= 1
        /\ c > commands \/ (c = commands /\ Unsent) =>
              /\ executed[c] = 0
              /\ \A g \in Daemons, i \in Nat : ~Pending(g, i, c)
        /\ \A g \in Daemons, i \in Nat : Pending(g, i, c) =>
              /\ executed[c] = 0
              /\ \A h \in Daemons, j \in Nat : Pending(h, j, c) => h = g /\ j = i


-----------------------------------------------------------------------------
(* The command under way.                                                   *)

\* The generations are numbered from 1.
LEMMA Generations == None \notin Gen /\ Other \notin Gen /\ Gen \subseteq Daemons
                     /\ Other \in Daemons /\ None \notin Daemons
<1>1. MaxSpawn \in Nat
  BY EngineAssumption DEF EngineAssumption
<1> QED BY <1>1 DEF Gen, None, Other, Daemons

\* The command goes on...
LEMMA OpGo ==
    ASSUME op \in Commands, NEW pc \in Pcs, Go(pc)
    PROVE  /\ op' \in Commands /\ op'.pc = pc /\ op'.g = op.g
           /\ op'.k = op.k /\ op'.try = op.try
BY DEF Go, Commands

\* ...with another process in hand...
LEMMA OpHold ==
    ASSUME op \in Commands, NEW pc \in Pcs, NEW g \in Gen \cup {None},
           op' = [op EXCEPT !.pc = pc, !.g = g]
    PROVE  /\ op' \in Commands /\ op'.pc = pc /\ op'.g = g
           /\ op'.k = op.k /\ op'.try = op.try
BY DEF Commands

\* ...or a second time.
LEMMA OpAgain ==
    ASSUME op \in Commands, NEW pc \in Pcs,
           op' = [op EXCEPT !.pc = pc, !.try = 1]
    PROVE  /\ op' \in Commands /\ op'.pc = pc /\ op'.g = op.g
           /\ op'.k = op.k /\ op'.try = 1
<1>1. 1 \in 0..1
  OBVIOUS
<1> QED BY <1>1 DEF Commands

\* The commands the window may send.
LEMMA ClassNames ==
    Classes \subseteq {"call", "open", "session_attach", "engine_doctor",
                      "engine_start_daemon", "engine_stop_daemon",
                      "engine_install_distro", "engine_status"}
BY DEF Classes, Class

\* A process is killed and reaped.
LEMMA Killed ==
    ASSUME ClientTypes, NEW g \in Gen, kill(g)
    PROVE  /\ relay' \in [Gen -> RelayStates] /\ stdinOpen' \in [Gen -> BOOLEAN]
           /\ \A h \in Gen : relay'[h] = "running" => h # g /\ relay[h] = "running"
BY DEF ClientTypes, kill, RelayStates

\* DaemonSupervisor::record, whatever it held.
LEMMA Recorded ==
    ASSUME ClientTypes, record
    PROVE  /\ relay' \in [Gen -> RelayStates] /\ stdinOpen' \in [Gen -> BOOLEAN]
           /\ live' = None /\ dstate' = "failed"
           /\ \A h \in Gen : relay'[h] = "running" => h # live /\ relay[h] = "running"
<1>1. live' = None /\ dstate' = "failed"
  BY DEF record
<1>2. CASE live = None
  BY <1>1, <1>2, Generations DEF record, ClientTypes
<1>3. CASE live # None
  <2>1. live \in Gen /\ kill(live)
    BY <1>3 DEF record, ClientTypes
  <2> QED BY <1>1, <2>1, Killed
<1> QED BY <1>2, <1>3

Ctl == ClientTypes /\ HoldInv /\ KindInv /\ ImageInv

\* A step that leaves the engine alone leaves all of this alone.
LEMMA CtlSame ==
    ASSUME Ctl, UNCHANGED <<op, live, dstate, stdinOpen, spawned, commands, image>>,
           relay' \in [Gen -> RelayStates],
           \A g \in Gen : relay'[g] = "running" => relay[g] = "running"
    PROVE  Ctl' /\ Unsent' = Unsent
<1>1. ClientTypes'
  BY DEF Ctl, ClientTypes
<1>2. HoldInv'
  BY DEF Ctl, HoldInv
<1>3. KindInv' /\ ImageInv'
  BY DEF Ctl, KindInv, ImageInv
<1>4. Unsent' = Unsent
  BY DEF Unsent
<1> QED BY <1>1, <1>2, <1>3, <1>4 DEF Ctl

\* The steps of a command keep its invariants, and none makes it send again.
LEMMA CtlStep ==
    ASSUME Ctl, EngineStep
    PROVE  Ctl' /\ (Unsent' => Unsent)
<1> USE DEF Ctl
<1>0. op \in Commands
  BY DEF ClientTypes
<1>1. ASSUME UNCHANGED <<live, dstate, relay, stdinOpen, spawned, commands>>,
             op' \in Commands, op'.g = op.g, op'.k = op.k, op'.try = op.try,
             op.pc \notin Stopping \cup {"hello", "idle", "wait", "finish"},
             op'.pc \notin Stopping \cup {"hello", "call", "wait", "spawn", "idle",
                                    "locate", "enter"},
             op'.pc = "preflight" => op.k \in Starters,
             op'.pc = "stop" => op.k \in Stoppers,
             op'.pc = "uninstall" => image' \in {"good", "unchecked"},
             op'.pc \in Replacing => op.pc \in Replacing
      PROVE  Ctl' /\ (Unsent' => Unsent)
  <2>1. ClientTypes'
    BY <1>1 DEF ClientTypes
  <2>2. HoldInv'
    BY <1>1 DEF HoldInv
  <2>3. KindInv' /\ ImageInv'
    BY <1>1 DEF KindInv, ImageInv, Stopping
  <2>4. Unsent' => Unsent
    BY <1>1 DEF Unsent
  <2> QED BY <2>1, <2>2, <2>3, <2>4
<1>2. CASE stop
  <2>1. op.pc = "stop" /\ live' = None
        /\ UNCHANGED <<relay, stdinOpen, spawned, commands, image>>
    BY <1>2 DEF stop, host
  <2>2. op.g = None /\ op.k \in Stoppers
    BY <2>1 DEF HoldInv, KindInv, Stopping, Replacing
  <2>3. CASE live = None
    <3>1. dstate' = "stopped" /\ Go(AfterStop)
      BY <1>2, <2>3 DEF stop
    <3>2. /\ AfterStop \in {"finish", "validate", "spawn"} /\ AfterStop \in Pcs
          /\ AfterStop = "spawn" => op.k \in Starters
      BY <2>2 DEF AfterStop, Pcs, Stoppers
    <3>3. /\ op' \in Commands /\ op'.pc = AfterStop /\ op'.g = op.g
          /\ op'.k = op.k /\ op'.try = op.try
      BY <1>0, <3>1, <3>2, OpGo
    <3> HIDE DEF Ctl
    <3>4. ClientTypes'
      BY <2>1, <3>1, <3>3 DEF Ctl, ClientTypes
    <3>5. HoldInv'
      BY <2>1, <2>2, <2>3, <3>1, <3>2, <3>3 DEF Ctl, HoldInv, Stopping, Replacing
    <3>6. KindInv' /\ ImageInv'
      BY <2>1, <2>2, <3>2, <3>3 DEF Ctl, KindInv, ImageInv
    <3>7. Unsent' => Unsent
      BY <2>1, <3>3 DEF Unsent
    <3> QED BY <3>4, <3>5, <3>6, <3>7 DEF Ctl
  <2>4. CASE live # None
    <3>1. op' = [op EXCEPT !.pc = "stop_wait", !.g = live] /\ dstate' = dstate
      BY <1>2, <2>4 DEF stop
    <3>2. live \in Gen /\ "stop_wait" \in Pcs
      BY <2>4 DEF ClientTypes, Pcs
    <3>3. /\ op' \in Commands /\ op'.pc = "stop_wait" /\ op'.g = live
          /\ op'.k = op.k /\ op'.try = op.try
      BY <1>0, <3>1, <3>2, OpHold
    <3>4. ClientTypes'
      BY <2>1, <3>1, <3>3 DEF ClientTypes
    <3>5. HoldInv'
      BY <2>1, <2>2, <3>1, <3>2, <3>3 DEF HoldInv, Stopping, Replacing
    <3>6. KindInv' /\ ImageInv'
      BY <2>1, <2>2, <3>3 DEF KindInv, ImageInv
    <3>7. Unsent' => Unsent
      BY <2>1, <3>3 DEF Unsent
    <3> QED BY <3>4, <3>5, <3>6, <3>7
  <2> QED BY <2>3, <2>4
<1>3. CASE stop_close
  <2>1. /\ op.pc = "stop_wait" /\ Go("grace")
        /\ stdinOpen' = [stdinOpen EXCEPT ![op.g] = FALSE]
        /\ UNCHANGED <<live, dstate, relay, spawned, commands, image>>
    BY <1>3 DEF stop_close, host
  <2>2. op.k \in Stoppers /\ "grace" \in Pcs
    BY <2>1 DEF KindInv, Pcs
  <2>3. /\ op' \in Commands /\ op'.pc = "grace" /\ op'.g = op.g
        /\ op'.k = op.k /\ op'.try = op.try
    BY <1>0, <2>1, <2>2, OpGo
  <2>4. ClientTypes'
    BY <2>1, <2>3 DEF ClientTypes
  <2>5. HoldInv'
    BY <2>1, <2>3 DEF HoldInv, Stopping, Replacing
  <2>6. KindInv' /\ ImageInv'
    BY <2>1, <2>2, <2>3 DEF KindInv, ImageInv
  <2>7. Unsent' => Unsent
    BY <2>1, <2>3 DEF Unsent
  <2> QED BY <2>4, <2>5, <2>6, <2>7
<1>4. CASE stop_grace
  <2>1. /\ op.pc = "grace" /\ kill(op.g) /\ dstate' = "stopped"
        /\ op' = [op EXCEPT !.pc = AfterStop, !.g = None]
        /\ UNCHANGED <<live, spawned, commands, image>>
    BY <1>4 DEF stop_grace, Release, host
  <2>2. op.k \in Stoppers /\ op.g \in Gen /\ live = None
    BY <2>1 DEF KindInv, HoldInv, Stopping, Replacing
  <2>3. /\ AfterStop \in {"finish", "validate", "spawn"} /\ AfterStop \in Pcs
        /\ AfterStop = "spawn" => op.k \in Starters
    BY <2>2 DEF AfterStop, Pcs, Stoppers
  <2>4. /\ op' \in Commands /\ op'.pc = AfterStop /\ op'.g = None
        /\ op'.k = op.k /\ op'.try = op.try
    BY <1>0, <2>1, <2>3, OpHold
  <2>5. /\ relay' \in [Gen -> RelayStates] /\ stdinOpen' \in [Gen -> BOOLEAN]
        /\ \A h \in Gen : relay'[h] = "running" => h # op.g /\ relay[h] = "running"
    BY <2>1, <2>2, Killed
  <2>6. ClientTypes'
    BY <2>1, <2>4, <2>5 DEF ClientTypes
  <2>7. HoldInv'
    BY <2>1, <2>2, <2>3, <2>4, <2>5 DEF HoldInv, Stopping, Replacing
  <2>8. KindInv' /\ ImageInv'
    BY <2>1, <2>2, <2>3, <2>4 DEF KindInv, ImageInv
  <2>9. Unsent' => Unsent
    BY <2>1, <2>4 DEF Unsent
  <2> QED BY <2>6, <2>7, <2>8, <2>9
<1>5. CASE start_spawn
  <2> DEFINE g == spawned + 1
  <2>1. /\ op.pc = "spawn" /\ spawned < MaxSpawn /\ spawned' = g
        /\ relay' = [relay EXCEPT ![g] = "running"]
        /\ stdinOpen' = [stdinOpen EXCEPT ![g] = TRUE]
        /\ op' = [op EXCEPT !.pc = "hello", !.g = g]
        /\ UNCHANGED <<live, dstate, commands, image>>
    BY <1>5 DEF start_spawn, host
  <2>2. g \in Gen /\ g \in 0..MaxSpawn
    <3>1. MaxSpawn \in Nat /\ spawned \in 0..MaxSpawn
      BY EngineAssumption DEF EngineAssumption, ClientTypes
    <3> QED BY <2>1, <3>1 DEF Gen
  <2> HIDE DEF g
  <2>3. op.k \in Starters /\ op.g = None /\ live = None /\ "hello" \in Pcs
    BY <2>1 DEF KindInv, HoldInv, Stopping, Replacing, Pcs
  <2>4. /\ op' \in Commands /\ op'.pc = "hello" /\ op'.g = g
        /\ op'.k = op.k /\ op'.try = op.try
    BY <1>0, <2>1, <2>2, <2>3, OpHold
  <2>5. ClientTypes'
    BY <2>1, <2>2, <2>4 DEF ClientTypes, RelayStates
  <2>6. HoldInv'
    <3>1. \A h \in Gen : relay'[h] = "running" => h = g \/ relay[h] = "running"
      BY <2>1 DEF ClientTypes
    <3>2. \A h \in Gen : relay[h] # "running"
      BY <2>3, Generations DEF HoldInv
    <3> QED BY <2>1, <2>2, <2>3, <2>4, <3>1, <3>2 DEF HoldInv, Stopping, Replacing
  <2>7. KindInv' /\ ImageInv'
    BY <2>1, <2>3, <2>4 DEF KindInv, ImageInv
  <2>8. Unsent' => Unsent
    BY <2>1, <2>4 DEF Unsent
  <2> QED BY <2>5, <2>6, <2>7, <2>8
<1>6. CASE start_fails
  <2>1. /\ op.pc = "spawn" /\ record /\ Go("finish")
        /\ UNCHANGED <<spawned, commands, image>>
    BY <1>6 DEF start_fails, host
  <2>2. op.g = None /\ live = None /\ "finish" \in Pcs
    BY <2>1 DEF HoldInv, Stopping, Replacing, Pcs
  <2>3. /\ op' \in Commands /\ op'.pc = "finish" /\ op'.g = op.g
        /\ op'.k = op.k /\ op'.try = op.try
    BY <1>0, <2>1, <2>2, OpGo
  <2>4. /\ relay' \in [Gen -> RelayStates] /\ stdinOpen' \in [Gen -> BOOLEAN]
        /\ live' = None /\ dstate' = "failed"
        /\ \A h \in Gen : relay'[h] = "running" => h # live /\ relay[h] = "running"
    BY <2>1, Recorded
  <2>5. ClientTypes'
    BY <2>1, <2>3, <2>4 DEF ClientTypes
  <2>6. HoldInv'
    BY <2>2, <2>3, <2>4 DEF HoldInv, Stopping, Replacing
  <2>7. KindInv' /\ ImageInv'
    BY <2>1, <2>3 DEF KindInv, ImageInv
  <2>8. Unsent' => Unsent
    BY <2>3 DEF Unsent
  <2> QED BY <2>5, <2>6, <2>7, <2>8
<1>7. CASE start_hello
  <2>1. /\ op.pc = "hello" /\ live' = op.g /\ dstate' = "running"
        /\ op' = [op EXCEPT !.pc = AfterStart, !.g = None]
        /\ UNCHANGED <<relay, stdinOpen, spawned, commands, image>>
    BY <1>7 DEF start_hello, Release, host
  <2>2. op.k \in Starters /\ op.g \in Gen /\ live = None
    BY <2>1 DEF KindInv, HoldInv, Stopping, Replacing
  <2>3. /\ AfterStart \in {"finish", "call"} /\ AfterStart \in Pcs
        /\ AfterStart = "call" => op.k \in Callers
    BY <2>2 DEF AfterStart, Pcs, Starters
  <2>4. /\ op' \in Commands /\ op'.pc = AfterStart /\ op'.g = None
        /\ op'.k = op.k /\ op'.try = op.try
    BY <1>0, <2>1, <2>3, OpHold
  <2>5. ClientTypes'
    BY <2>1, <2>2, <2>4 DEF ClientTypes
  <2>6. HoldInv'
    BY <2>1, <2>2, <2>3, <2>4, Generations DEF HoldInv, Stopping, Replacing
  <2>7. KindInv' /\ ImageInv'
    BY <2>1, <2>3, <2>4 DEF KindInv, ImageInv
  <2>8. Unsent' => Unsent
    BY <2>1, <2>4 DEF Unsent
  <2> QED BY <2>5, <2>6, <2>7, <2>8
<1>8. CASE start_refused
  <2>1. /\ op.pc = "hello" /\ kill(op.g) /\ live' = None /\ dstate' = "failed"
        /\ op' = [op EXCEPT !.pc = "finish", !.g = None]
        /\ UNCHANGED <<spawned, commands, image>>
    BY <1>8 DEF start_refused, Release, host
  <2>2. op.g \in Gen /\ live = None /\ "finish" \in Pcs
    BY <2>1 DEF HoldInv, Stopping, Replacing, Pcs
  <2>3. /\ op' \in Commands /\ op'.pc = "finish" /\ op'.g = None
        /\ op'.k = op.k /\ op'.try = op.try
    BY <1>0, <2>1, <2>2, OpHold
  <2>4. /\ relay' \in [Gen -> RelayStates] /\ stdinOpen' \in [Gen -> BOOLEAN]
        /\ \A h \in Gen : relay'[h] = "running" => h # op.g /\ relay[h] = "running"
    BY <2>1, <2>2, Killed
  <2>5. ClientTypes'
    BY <2>1, <2>3, <2>4 DEF ClientTypes
  <2>6. HoldInv'
    BY <2>1, <2>2, <2>3, <2>4 DEF HoldInv, Stopping, Replacing
  <2>7. KindInv' /\ ImageInv'
    BY <2>1, <2>3 DEF KindInv, ImageInv
  <2>8. Unsent' => Unsent
    BY <2>3 DEF Unsent
  <2> QED BY <2>5, <2>6, <2>7, <2>8
<1>9. CASE call
  <2>1. /\ op.pc = "call" /\ Go("wait")
        /\ UNCHANGED <<live, dstate, relay, stdinOpen, spawned, commands, image>>
    BY <1>9 DEF call, host
  <2>2. op.k \in Callers /\ "wait" \in Pcs
    BY <2>1 DEF KindInv, Pcs
  <2>3. /\ op' \in Commands /\ op'.pc = "wait" /\ op'.g = op.g
        /\ op'.k = op.k /\ op'.try = op.try
    BY <1>0, <2>1, <2>2, OpGo
  <2>4. ClientTypes'
    BY <2>1, <2>3 DEF ClientTypes
  <2>5. HoldInv'
    BY <2>1, <2>3 DEF HoldInv, Stopping, Replacing
  <2>6. KindInv' /\ ImageInv'
    BY <2>1, <2>2, <2>3 DEF KindInv, ImageInv
  <2>7. Unsent' => Unsent
    BY <2>3 DEF Unsent
  <2> QED BY <2>4, <2>5, <2>6, <2>7
<1>10. CASE call_answered
  <2>1. /\ op.pc = "wait"
        /\ op' = IF project_title THEN [op EXCEPT !.pc = "enter", !.try = 1]
                 ELSE [op EXCEPT !.pc = "finish"]
        /\ UNCHANGED <<live, dstate, relay, stdinOpen, spawned, commands, image>>
    BY <1>10 DEF call_answered, host
  <2>2. op.k \in Callers /\ "finish" \in Pcs /\ "enter" \in Pcs
    BY <2>1 DEF KindInv, Pcs
  <2>3. /\ op' \in Commands /\ op'.g = op.g /\ op'.k = op.k
        /\ \/ op'.pc = "finish" /\ op'.try = op.try
           \/ op'.pc = "enter" /\ op'.try = 1 /\ op.k = "open"
    <3>1. CASE project_title
      BY <1>0, <2>1, <2>2, <3>1, OpAgain DEF project_title
    <3>2. CASE ~project_title
      BY <1>0, <2>1, <2>2, <3>2, OpGo DEF Go
    <3> QED BY <3>1, <3>2
  <2>4. ClientTypes'
    BY <2>1, <2>3 DEF ClientTypes
  <2>5. HoldInv'
    BY <2>1, <2>3 DEF HoldInv, Stopping, Replacing
  <2>6. KindInv' /\ ImageInv'
    BY <2>1, <2>2, <2>3 DEF KindInv, ImageInv
  <2>7. Unsent' => Unsent
    BY <2>3 DEF Unsent
  <2> QED BY <2>4, <2>5, <2>6, <2>7
<1>11. CASE call_lost
  <2>1. /\ op.pc = "wait" /\ record /\ op' = after_lost
        /\ UNCHANGED <<spawned, commands, image>>
    BY <1>11 DEF call_lost, host
  <2>2. /\ op.k \in Callers /\ op.g = None
        /\ "finish" \in Pcs /\ "preflight" \in Pcs
    BY <2>1 DEF KindInv, HoldInv, Stopping, Replacing, Pcs
  <2>3. /\ op' \in Commands /\ op'.g = op.g /\ op'.k = op.k
        /\ \/ op'.pc = "finish" /\ op'.try = op.try
           \/ op'.pc = "preflight" /\ op'.try = 1 /\ op.k = "engine_doctor"
    <3>1. CASE op.k = "engine_doctor" /\ op.try = 0
      BY <1>0, <2>1, <2>2, <3>1, OpAgain DEF after_lost
    <3>2. CASE ~(op.k = "engine_doctor" /\ op.try = 0)
      BY <1>0, <2>1, <2>2, <3>2, OpGo DEF Go, after_lost
    <3> QED BY <3>1, <3>2
  <2>4. /\ relay' \in [Gen -> RelayStates] /\ stdinOpen' \in [Gen -> BOOLEAN]
        /\ live' = None /\ dstate' = "failed"
        /\ \A h \in Gen : relay'[h] = "running" => h # live /\ relay[h] = "running"
    BY <2>1, Recorded
  <2>5. ClientTypes'
    BY <2>1, <2>3, <2>4 DEF ClientTypes
  <2>6. HoldInv'
    BY <2>2, <2>3, <2>4 DEF HoldInv, Stopping, Replacing
  <2>7. KindInv' /\ ImageInv'
    BY <2>1, <2>2, <2>3 DEF KindInv, ImageInv, Starters
  <2>8. Unsent' => Unsent
    BY <2>3 DEF Unsent
  <2> QED BY <2>5, <2>6, <2>7, <2>8
<1>12. ASSUME state_check
       PROVE  /\ relay' \in [Gen -> RelayStates] /\ stdinOpen' \in [Gen -> BOOLEAN]
              /\ live' \in {live, None}
              /\ live' = live => dstate' = dstate \/ live' = None
              /\ dstate' = dstate \/ dstate' = "failed"
              /\ live' = None /\ live # None => dstate' = "failed"
              /\ \A h \in Gen : relay'[h] = "running" =>
                    relay[h] = "running" /\ (h = live => live' = live)
  <2>1. CASE live # None /\ relay[live] = "exited"
    BY <1>12, <2>1, Recorded DEF state_check
  <2>2. CASE ~(live # None /\ relay[live] = "exited")
    BY <1>12, <2>2 DEF state_check, ClientTypes
  <2> QED BY <2>1, <2>2
<1>13. CASE enter_daemon
  <2>1. /\ op.pc = "enter" /\ state_check
        /\ Go(IF dstate' = "running" THEN "call" ELSE "preflight")
        /\ UNCHANGED <<spawned, commands, image>>
    BY <1>13 DEF enter_daemon, host
  <2>2. /\ op.k \in Callers /\ op.g = None
        /\ "call" \in Pcs /\ "preflight" \in Pcs
    BY <2>1 DEF KindInv, HoldInv, Stopping, Replacing, Pcs
  <2>3. /\ op' \in Commands /\ op'.g = op.g /\ op'.k = op.k /\ op'.try = op.try
        /\ \/ op'.pc = "call" /\ dstate' = "running"
           \/ op'.pc = "preflight"
    BY <1>0, <2>1, <2>2, OpGo
  <2>4. ClientTypes'
    BY <1>12, <2>1, <2>3 DEF ClientTypes
  <2>5. HoldInv'
    BY <1>12, <2>1, <2>2, <2>3, Generations DEF HoldInv, Stopping, Replacing
  <2>6. KindInv' /\ ImageInv'
    BY <2>1, <2>2, <2>3 DEF KindInv, ImageInv, Starters
  <2>7. Unsent' => Unsent
    BY <2>1, <2>3 DEF Unsent
  <2> QED BY <2>4, <2>5, <2>6, <2>7
<1>14. CASE enter_refused
  <2>1. /\ op.pc = "enter" /\ Go("finish") /\ "finish" \in Pcs
        /\ UNCHANGED <<live, dstate, relay, stdinOpen, spawned, commands>>
    BY <1>14 DEF enter_refused, client, Pcs
  <2> QED BY <1>0, <1>1, <2>1, OpGo DEF Stopping, Replacing
<1>15. CASE ensure_distro_registered
  <2>1. /\ op.pc = "preflight" /\ (Go("stop") \/ Go("finish"))
        /\ "finish" \in Pcs /\ "stop" \in Pcs
        /\ UNCHANGED <<live, dstate, relay, stdinOpen, spawned, commands>>
    BY <1>15 DEF ensure_distro_registered, client, Pcs
  <2>2. op.k \in Stoppers
    BY <2>1 DEF KindInv, Stoppers, Starters
  <2> QED BY <1>0, <1>1, <2>1, <2>2, OpGo DEF Stopping, Replacing
<1>16. CASE finish
  <2>1. /\ op.pc = "finish" /\ state_check /\ op' = Idle
        /\ image' = "none" /\ UNCHANGED <<spawned, commands>>
    BY <1>16 DEF finish, status
  <2>2. op.g = None
    BY <2>1 DEF HoldInv, Stopping, Replacing
  <2>3. /\ op' \in Commands /\ op'.pc = "idle" /\ op'.g = None
        /\ op'.k = "none" /\ op'.try = 0
    BY <2>1 DEF Idle, Commands, Pcs
  <2>4. ClientTypes'
    BY <1>12, <2>1, <2>3 DEF ClientTypes
  <2>5. HoldInv'
    BY <1>12, <2>1, <2>2, <2>3, Generations DEF HoldInv, Stopping, Replacing
  <2>6. KindInv' /\ ImageInv'
    BY <2>3 DEF KindInv, ImageInv
  <2>7. Unsent' => Unsent
    BY <2>3 DEF Unsent
  <2> QED BY <2>4, <2>5, <2>6, <2>7
<1>17. CASE locate_image
  <2>1. /\ op.pc = "locate" /\ (Go("stop") \/ Go("finish"))
        /\ "finish" \in Pcs /\ "stop" \in Pcs
        /\ UNCHANGED <<live, dstate, relay, stdinOpen, spawned, commands>>
    BY <1>17 DEF locate_image, client, Pcs
  <2>2. op.k \in Stoppers
    BY <2>1 DEF KindInv, Stoppers
  <2> QED BY <1>0, <1>1, <2>1, <2>2, OpGo DEF Stopping, Replacing
<1>18. CASE validate_image
  <2>1. /\ op.pc = "validate" /\ image' = image
        /\ (image \in {"good", "unchecked"} /\ Go("uninstall")) \/ Go("finish")
        /\ "finish" \in Pcs /\ "uninstall" \in Pcs
        /\ UNCHANGED <<live, dstate, relay, stdinOpen, spawned, commands>>
    BY <1>18 DEF validate_image, client, host, Pcs
  <2> QED BY <1>0, <1>1, <2>1, OpGo DEF Stopping, Replacing
<1>19. CASE uninstall \/ remove_orphaned_disk \/ import
  <2>1. /\ op.pc \in {"uninstall", "clean", "import"}
        /\ (Go("clean") \/ Go("finish") \/ Go("import"))
        /\ "finish" \in Pcs /\ "clean" \in Pcs /\ "import" \in Pcs
        /\ UNCHANGED <<live, dstate, relay, stdinOpen, spawned, commands>>
    BY <1>19 DEF uninstall, remove_orphaned_disk, import, client, Pcs
  <2> QED BY <1>0, <1>1, <2>1, OpGo DEF Stopping, Replacing
<1> HIDE DEF Ctl
<1> QED BY <1>2, <1>3, <1>4, <1>5, <1>6, <1>7, <1>8, <1>9, <1>10, <1>11, <1>13,
           <1>14, <1>15, <1>16, <1>17, <1>18, <1>19 DEF EngineStep

\* A command starts with the engine locked and no process in hand.
LEMMA CtlBegin ==
    ASSUME Ctl, NEW k \in Classes, begin(k)
    PROVE  Ctl' /\ commands' = commands + 1 /\ commands' \in 1..MaxCommands
<1>1. /\ op = Idle /\ commands < MaxCommands /\ commands' = commands + 1
      /\ op' = [k |-> k, pc |-> FirstStep[k], g |-> None, try |-> 0]
      /\ UNCHANGED <<live, dstate, relay, stdinOpen, spawned, image>>
  BY DEF begin, client, host
<1>2. commands' \in 1..MaxCommands /\ commands' \in 0..MaxCommands
  <2>1. MaxCommands \in Nat /\ commands \in 0..MaxCommands
    BY EngineAssumption DEF EngineAssumption, Ctl, ClientTypes
  <2> QED BY <1>1, <2>1
<1>3. k \in {"call", "open", "session_attach", "engine_doctor",
             "engine_start_daemon", "engine_stop_daemon",
             "engine_install_distro", "engine_status"}
  BY ClassNames
<1>4. /\ FirstStep[k] \in {"enter", "preflight", "stop", "locate", "finish"}
      /\ FirstStep[k] = "enter" => k \in Callers
      /\ FirstStep[k] = "preflight" => k \in Starters
      /\ FirstStep[k] = "stop" => k \in Stoppers
      /\ FirstStep[k] = "locate" => k = "engine_install_distro"
  BY <1>3 DEF FirstStep, Callers, Starters, Stoppers
<1>5. /\ op'.pc = FirstStep[k] /\ op'.k = k /\ op'.g = None /\ op'.try = 0
      /\ op' \in Commands
  <2>1. FirstStep[k] \in Pcs /\ 0 \in 0..1
    BY <1>4 DEF Pcs
  <2> QED BY <1>1, <2>1 DEF Commands
<1>6. op.pc = "idle" /\ op.g = None
  BY <1>1 DEF Idle
<1>7. ClientTypes'
  BY <1>1, <1>2, <1>5 DEF Ctl, ClientTypes
<1>8. HoldInv'
  BY <1>1, <1>4, <1>5, <1>6 DEF Ctl, HoldInv, Stopping, Replacing
<1>9. KindInv' /\ ImageInv'
  BY <1>2, <1>4, <1>5 DEF KindInv, ImageInv
<1> QED BY <1>1, <1>2, <1>7, <1>8, <1>9 DEF Ctl

-----------------------------------------------------------------------------
(* The wire.                                                                *)

Boxes == [next_id: Nat, waiters: SUBSET Nat, closed: BOOLEAN]

\* A request is sent: one line more, of the command under way, or none.
LEMMA Sent ==
    ASSUME WireTypes, commands \in Nat, NEW g \in Gen, NEW m \in Requests,
           NEW up, send(g, m, up)
    PROVE  /\ reply' \in Replies /\ inbox' \in [Gen -> Boxes]
           /\ inbound' \in [Daemons -> Seq(Messages)]
           /\ \/ inbound' = inbound
              \/ \E l \in Messages :
                    /\ l.m = m /\ l.c = commands
                    /\ inbound' = [inbound EXCEPT ![g] = Append(@, l)]
<1>1. inbox \in [Gen -> Boxes] /\ inbound \in [Daemons -> Seq(Messages)]
  BY DEF WireTypes, Boxes
<1>2. inbox[g] \in Boxes /\ inbox[g].next_id \in Nat
  BY <1>1 DEF Boxes
<1>3. reply' \in Replies
  BY DEF send, Replies
<1>4. inbox' \in [Gen -> Boxes]
  <2> DEFINE w == IF inbox[g].closed THEN inbox[g].waiters
                  ELSE inbox[g].waiters \cup {inbox[g].next_id}
  <2>1. inbox' = [inbox EXCEPT ![g].next_id = @ + 1, ![g].waiters = w]
    BY DEF send
  <2>2. w \in SUBSET Nat
    BY <1>2 DEF Boxes
  <2> HIDE DEF w
  <2>3. inbox[g].next_id + 1 \in Nat
    BY <1>2
  <2> QED BY <1>1, <1>2, <2>1, <2>2, <2>3 DEF Boxes
<1> DEFINE l == Line("stdio", "request", m, inbox[g].next_id)
<1>5. l \in Messages /\ l.m = m /\ l.c = commands
  BY <1>2 DEF Line, Messages
<1>6. inbound' = inbound \/ inbound' = [inbound EXCEPT ![g] = Append(@, l)]
  BY DEF send
<1> HIDE DEF l
<1>7. g \in Daemons
  BY Generations
<1>8. inbound' \in [Daemons -> Seq(Messages)]
  <2>1. inbound[g] \in Seq(Messages)
    BY <1>1, <1>7
  <2>2. Append(inbound[g], l) \in Seq(Messages)
    BY <1>5, <2>1
  <2> QED BY <1>1, <1>6, <1>7, <2>2
<1> QED BY <1>3, <1>4, <1>5, <1>6, <1>8

\* A call is given up, or its client dropped.
LEMMA Unregistered ==
    ASSUME WireTypes, NEW g \in Gen, unregister(g) \/ dropped(g)
    PROVE  reply' \in Replies /\ inbox' \in [Gen -> Boxes]
<1>1. inbox \in [Gen -> Boxes] /\ inbox[g] \in Boxes
  BY DEF WireTypes, Boxes
<1>2. {} \in SUBSET Nat /\ 1 \in Nat
  OBVIOUS
<1> QED BY <1>1, <1>2 DEF unregister, dropped, Replies, Boxes

-----------------------------------------------------------------------------
(* A command's request is carried out once.                                 *)

\* No request appears, at most the head of a queue goes.
LEMMA OnceShrinks ==
    ASSUME OnceInv, executed' = executed,
           NEW d, \A g \in Daemons : d[g] \in {0, 1},
           \A c \in 1..MaxCommands :
              c > commands' \/ (c = commands' /\ Unsent')
                => c > commands \/ (c = commands /\ Unsent),
           \A c \in 1..MaxCommands, g \in Daemons, i \in Nat :
              Pending(g, i, c)' => Pending(g, i + d[g], c)
    PROVE  OnceInv'
<1> SUFFICES ASSUME NEW c \in 1..MaxCommands
             PROVE  /\ executed'[c] <= 1
                    /\ c > commands' \/ (c = commands' /\ Unsent') =>
                          /\ executed'[c] = 0
                          /\ \A g \in Daemons, i \in Nat : ~Pending(g, i, c)'
                    /\ \A g \in Daemons, i \in Nat : Pending(g, i, c)' =>
                          /\ executed'[c] = 0
                          /\ \A h \in Daemons, j \in Nat :
                                Pending(h, j, c)' => h = g /\ j = i
  BY DEF OnceInv
<1>1. executed'[c] <= 1
  BY DEF OnceInv
<1>2. ASSUME c > commands' \/ (c = commands' /\ Unsent')
      PROVE  /\ executed'[c] = 0
             /\ \A g \in Daemons, i \in Nat : ~Pending(g, i, c)'
  <2>1. /\ executed[c] = 0
        /\ \A g \in Daemons, i \in Nat : ~Pending(g, i, c)
    BY <1>2 DEF OnceInv
  <2>2. ASSUME NEW g \in Daemons, NEW i \in Nat, Pending(g, i, c)'
        PROVE  FALSE
    <3>1. i + d[g] \in Nat
      OBVIOUS
    <3> QED BY <2>1, <2>2, <3>1
  <2> QED BY <2>1, <2>2
<1>3. ASSUME NEW g \in Daemons, NEW i \in Nat, Pending(g, i, c)'
      PROVE  /\ executed'[c] = 0
             /\ \A h \in Daemons, j \in Nat : Pending(h, j, c)' => h = g /\ j = i
  <2>1. i + d[g] \in Nat /\ Pending(g, i + d[g], c)
    BY <1>3
  <2>2. /\ executed[c] = 0
        /\ \A h \in Daemons, j \in Nat : Pending(h, j, c) => h = g /\ j = i + d[g]
    BY <2>1 DEF OnceInv
  <2>3. ASSUME NEW h \in Daemons, NEW j \in Nat, Pending(h, j, c)'
        PROVE  h = g /\ j = i
    <3>1. j + d[h] \in Nat /\ Pending(h, j + d[h], c)
      BY <2>3
    <3>2. h = g /\ j + d[h] = i + d[g]
      BY <2>2, <3>1
    <3> QED BY <3>2
  <2> QED BY <2>2, <2>3
<1> QED BY <1>1, <1>2, <1>3

\* A line that carries no command out is queued.
LEMMA OnceQueued ==
    ASSUME OnceInv, inbound \in [Daemons -> Seq(Messages)], executed' = executed,
           \A c \in 1..MaxCommands :
              c > commands' \/ (c = commands' /\ Unsent')
                => c > commands \/ (c = commands /\ Unsent),
           NEW g \in Daemons, NEW l \in Messages,
           l.m # "method" \/ l.origin # "stdio",
           inbound' = [inbound EXCEPT ![g] = Append(@, l)]
    PROVE  OnceInv'
<1> DEFINE d == [h \in Daemons |-> 0]
<1>1. \A h \in Daemons : d[h] \in {0, 1} /\ d[h] = 0
  OBVIOUS
<1>2. ASSUME NEW c \in 1..MaxCommands, NEW h \in Daemons, NEW i \in Nat,
             Pending(h, i, c)'
      PROVE  Pending(h, i + d[h], c)
  <2>1. i + d[h] = i
    BY <1>1
  <2>2. i \in DOMAIN inbound'[h] /\ Carries(inbound'[h][i], c)
    BY <1>2 DEF Pending, Carries
  <2>3. CASE h # g
    <3>1. inbound'[h] = inbound[h]
      BY <2>3
    <3> QED BY <2>1, <2>2, <3>1 DEF Pending
  <2>4. CASE h = g
    <3>1. inbound'[g] = Append(inbound[g], l) /\ inbound[g] \in Seq(Messages)
      OBVIOUS
    <3>2. /\ inbound'[g][Len(inbound[g]) + 1] = l
          /\ i \in 1..(Len(inbound[g]) + 1)
      BY <2>2, <2>4, <3>1
    <3>3. i # Len(inbound[g]) + 1
      BY <2>2, <2>4, <3>2 DEF Carries
    <3>4. i \in DOMAIN inbound[g] /\ inbound'[g][i] = inbound[g][i]
      BY <3>1, <3>2, <3>3
    <3> QED BY <2>1, <2>2, <2>4, <3>4 DEF Pending
  <2> QED BY <2>3, <2>4
<1> HIDE DEF d
<1> QED BY <1>1, <1>2, OnceShrinks

\* Queues are emptied, or stay.
LEMMA OnceEmptied ==
    ASSUME OnceInv, executed' = executed,
           \A c \in 1..MaxCommands :
              c > commands' \/ (c = commands' /\ Unsent')
                => c > commands \/ (c = commands /\ Unsent),
           \A g \in Daemons : inbound'[g] = inbound[g] \/ inbound'[g] = <<>>
    PROVE  OnceInv'
<1> DEFINE d == [h \in Daemons |-> 0]
<1>1. \A h \in Daemons : d[h] \in {0, 1} /\ d[h] = 0
  OBVIOUS
<1>2. ASSUME NEW c \in 1..MaxCommands, NEW h \in Daemons, NEW i \in Nat,
             Pending(h, i, c)'
      PROVE  Pending(h, i + d[h], c)
  <2>1. i + d[h] = i
    BY <1>1
  <2>2. i \in DOMAIN inbound'[h] /\ Carries(inbound'[h][i], c)
    BY <1>2 DEF Pending, Carries
  <2>3. inbound'[h] = inbound[h]
    BY <2>2
  <2> QED BY <2>1, <2>2, <2>3 DEF Pending
<1> HIDE DEF d
<1> QED BY <1>1, <1>2, OnceShrinks

\* The command under way sends its request, which it will not send again.
LEMMA OnceSent ==
    ASSUME OnceInv, inbound \in [Daemons -> Seq(Messages)], executed' = executed,
           commands' = commands, commands \in 1..MaxCommands, Unsent, ~Unsent',
           NEW g \in Daemons, NEW l \in Messages, l.c = commands,
           inbound' = [inbound EXCEPT ![g] = Append(@, l)]
    PROVE  OnceInv'
<1> DEFINE n == Len(inbound[g]) + 1
<1>1. ASSUME NEW c \in 1..MaxCommands, NEW h \in Daemons, NEW i \in Nat,
             Pending(h, i, c)'
      PROVE  Pending(h, i, c) \/ (h = g /\ i = n /\ c = commands)
  <2>1. i \in DOMAIN inbound'[h] /\ Carries(inbound'[h][i], c)
    BY <1>1 DEF Pending, Carries
  <2>2. CASE h # g
    <3>1. inbound'[h] = inbound[h]
      BY <2>2
    <3> QED BY <2>1, <3>1 DEF Pending
  <2>3. CASE h = g
    <3>1. inbound'[g] = Append(inbound[g], l) /\ inbound[g] \in Seq(Messages)
      OBVIOUS
    <3>2. inbound'[g][n] = l /\ i \in 1..n
      BY <2>1, <2>3, <3>1
    <3>3. CASE i = n
      BY <2>1, <2>3, <3>2, <3>3 DEF Carries
    <3>4. CASE i # n
      <4>1. i \in DOMAIN inbound[g] /\ inbound'[g][i] = inbound[g][i]
        BY <3>1, <3>2, <3>4
      <4> QED BY <2>1, <2>3, <4>1 DEF Pending
    <3> QED BY <3>3, <3>4
  <2> QED BY <2>2, <2>3
<1> HIDE DEF n
<1>2. /\ executed[commands] = 0
      /\ \A h \in Daemons, i \in Nat : ~Pending(h, i, commands)
  BY DEF OnceInv
<1> SUFFICES ASSUME NEW c \in 1..MaxCommands
             PROVE  /\ executed'[c] <= 1
                    /\ c > commands' \/ (c = commands' /\ Unsent') =>
                          /\ executed'[c] = 0
                          /\ \A h \in Daemons, i \in Nat : ~Pending(h, i, c)'
                    /\ \A h \in Daemons, i \in Nat : Pending(h, i, c)' =>
                          /\ executed'[c] = 0
                          /\ \A e \in Daemons, j \in Nat :
                                Pending(e, j, c)' => e = h /\ j = i
  BY DEF OnceInv
<1>3. executed'[c] <= 1
  BY DEF OnceInv
<1>4. CASE c = commands
  BY <1>1, <1>2, <1>3, <1>4
<1>5. CASE c # commands
  <2>1. \A h \in Daemons, i \in Nat : Pending(h, i, c)' => Pending(h, i, c)
    BY <1>1, <1>5
  <2> QED BY <1>3, <1>5, <2>1 DEF OnceInv
<1> QED BY <1>4, <1>5

\* The head of a queue is carried out.
LEMMA OnceCarried ==
    ASSUME OnceInv, inbound \in [Daemons -> Seq(Messages)],
           executed \in [1..MaxCommands -> Nat],
           commands' = commands, Unsent' => Unsent,
           NEW g \in Daemons, inbound[g] # <<>>,
           Carries(Head(inbound[g]), Head(inbound[g]).c),
           executed' = [executed EXCEPT ![Head(inbound[g]).c] = @ + 1],
           inbound' = [inbound EXCEPT ![g] = Tail(@)]
    PROVE  OnceInv'
<1> DEFINE m == Head(inbound[g]).c
<1>0. /\ inbound[g] \in Seq(Messages) /\ 1 \in DOMAIN inbound[g]
      /\ Head(inbound[g]) = inbound[g][1]
  OBVIOUS
<1>1. Pending(g, 1, m)
  BY <1>0 DEF Pending
<1>2. ASSUME NEW c \in 1..MaxCommands, NEW h \in Daemons, NEW i \in Nat,
             Pending(h, i, c)'
      PROVE  /\ i > 0
             /\ h = g => Pending(h, i + 1, c)
             /\ h # g => Pending(h, i, c)
  <2>1. i \in DOMAIN inbound'[h] /\ Carries(inbound'[h][i], c)
    BY <1>2 DEF Pending, Carries
  <2>2. CASE h # g
    <3>1. inbound'[h] = inbound[h] /\ inbound[h] \in Seq(Messages)
      BY <2>2
    <3> QED BY <2>1, <2>2, <3>1 DEF Pending
  <2>3. CASE h = g
    <3>1. inbound'[g] = Tail(inbound[g])
      BY <1>0
    <3>2. i > 0 /\ i + 1 \in DOMAIN inbound[g] /\ inbound'[g][i] = inbound[g][i + 1]
      BY <1>0, <2>1, <2>3, <3>1
    <3> QED BY <2>1, <2>3, <3>2 DEF Pending
  <2> QED BY <2>2, <2>3
<1> HIDE DEF m
<1> SUFFICES ASSUME NEW c \in 1..MaxCommands
             PROVE  /\ executed'[c] <= 1
                    /\ c > commands' \/ (c = commands' /\ Unsent') =>
                          /\ executed'[c] = 0
                          /\ \A h \in Daemons, i \in Nat : ~Pending(h, i, c)'
                    /\ \A h \in Daemons, i \in Nat : Pending(h, i, c)' =>
                          /\ executed'[c] = 0
                          /\ \A e \in Daemons, j \in Nat :
                                Pending(e, j, c)' => e = h /\ j = i
  BY DEF OnceInv
<1>3. CASE c = m
  <2>1. /\ executed[c] = 0
        /\ \A h \in Daemons, j \in Nat : Pending(h, j, c) => h = g /\ j = 1
        /\ ~(c > commands \/ (c = commands /\ Unsent))
    BY <1>1, <1>3 DEF OnceInv
  <2>2. executed'[c] = 1
    BY <1>3, <2>1 DEF m
  <2>3. ASSUME NEW h \in Daemons, NEW i \in Nat, Pending(h, i, c)'
        PROVE  FALSE
    <3>1. i > 0 /\ (h = g => Pending(h, i + 1, c)) /\ (h # g => Pending(h, i, c))
      BY <1>2, <2>3
    <3> QED BY <2>1, <3>1
  <2> QED BY <2>1, <2>2, <2>3
<1>4. CASE c # m
  <2>1. executed'[c] = executed[c]
    BY <1>4 DEF m
  <2>2. executed[c] <= 1
    BY DEF OnceInv
  <2>3. ASSUME c > commands' \/ (c = commands' /\ Unsent')
        PROVE  /\ executed[c] = 0
               /\ \A h \in Daemons, i \in Nat : ~Pending(h, i, c)'
    <3>1. /\ executed[c] = 0
          /\ \A h \in Daemons, i \in Nat : ~Pending(h, i, c)
      BY <2>3 DEF OnceInv
    <3> QED BY <1>2, <3>1
  <2>4. ASSUME NEW h \in Daemons, NEW i \in Nat, Pending(h, i, c)'
        PROVE  /\ executed[c] = 0
               /\ \A e \in Daemons, j \in Nat : Pending(e, j, c)' => e = h /\ j = i
    <3> DEFINE p == IF h = g THEN i + 1 ELSE i
    <3>1. p \in Nat /\ Pending(h, p, c)
      BY <1>2, <2>4
    <3> HIDE DEF p
    <3>2. /\ executed[c] = 0
          /\ \A e \in Daemons, j \in Nat : Pending(e, j, c) => e = h /\ j = p
      BY <3>1 DEF OnceInv
    <3>3. ASSUME NEW e \in Daemons, NEW j \in Nat, Pending(e, j, c)'
          PROVE  e = h /\ j = i
      <4> DEFINE q == IF e = g THEN j + 1 ELSE j
      <4>1. q \in Nat /\ Pending(e, q, c)
        BY <1>2, <3>3
      <4> HIDE DEF q
      <4>2. e = h /\ q = p
        BY <3>2, <4>1
      <4> QED BY <4>2 DEF p, q
    <3> QED BY <3>2, <3>3
  <2> QED BY <2>1, <2>2, <2>3, <2>4
<1> QED BY <1>3, <1>4

Wires == WireTypes /\ DaemonTypes /\ OnceInv

\* A command's step that leaves the daemons and their channels alone.
LEMMA WiresQuiet ==
    ASSUME Wires, UNCHANGED <<daemons, commands>>, Unsent' => Unsent,
           reply' \in Replies, inbox' \in [Gen -> Boxes]
    PROVE  Wires'
<1>1. UNCHANGED <<willied, inbound, out, socket, events, executed, commands>>
  BY DEF daemons
<1>2. WireTypes'
  BY <1>1 DEF Wires, WireTypes, Boxes
<1>3. DaemonTypes'
  BY <1>1 DEF Wires, DaemonTypes
<1>4. OnceInv'
  <2>1. OnceInv /\ executed' = executed /\ inbound' = inbound
    BY <1>1 DEF Wires
  <2>2. \A c \in 1..MaxCommands :
              c > commands' \/ (c = commands' /\ Unsent')
                => c > commands \/ (c = commands /\ Unsent)
    BY <1>1
  <2> QED BY <2>1, <2>2, OnceEmptied
<1> QED BY <1>2, <1>3, <1>4 DEF Wires

\* wsl --terminate empties every channel.
LEMMA Terminated ==
    ASSUME WireTypes, DaemonTypes, terminate
    PROVE  /\ willied' \in [Daemons -> WilliedStates]
           /\ inbound' \in [Daemons -> Seq(Messages)]
           /\ \A g \in Daemons : inbound'[g] = inbound[g] \/ inbound'[g] = <<>>
<1>1. willied' \in [Daemons -> WilliedStates]
  BY DEF DaemonTypes, WilliedStates, terminate
<1>2. \A g \in Daemons : inbound'[g] = <<>>
  BY DEF terminate
<1>3. <<>> \in Seq(Messages)
  OBVIOUS
<1>4. inbound' \in [Daemons -> Seq(Messages)]
  BY <1>3 DEF terminate
<1> QED BY <1>1, <1>2, <1>4

\* A command's steps keep the wire well formed and its request unique.
LEMMA EngineWires ==
    ASSUME Ctl, Wires, EngineStep, Unsent' => Unsent
    PROVE  Wires'
<1>1. /\ WireTypes /\ DaemonTypes /\ OnceInv /\ commands \in 0..MaxCommands
      /\ commands \in Nat /\ live \in Gen \cup {None}
      /\ reply \in Replies /\ inbox \in [Gen -> Boxes]
      /\ inbound \in [Daemons -> Seq(Messages)]
  <2>1. MaxCommands \in Nat /\ commands \in 0..MaxCommands
    BY EngineAssumption DEF EngineAssumption, Ctl, ClientTypes
  <2>2. WireTypes /\ DaemonTypes /\ OnceInv /\ live \in Gen \cup {None}
    BY DEF Wires, Ctl, ClientTypes
  <2>3. /\ reply \in Replies /\ inbox \in [Gen -> Boxes]
        /\ inbound \in [Daemons -> Seq(Messages)]
    BY <2>2 DEF WireTypes, Boxes
  <2> QED BY <2>1, <2>2, <2>3
<1>2. commands' = commands
  BY DEF EngineStep, stop, stop_close, stop_grace, start_spawn, start_fails,
         start_hello, start_refused, call, call_answered, call_lost, enter_daemon,
         enter_refused, ensure_distro_registered, finish, locate_image,
         validate_image, uninstall, remove_orphaned_disk, import
<1>3. \A c \in 1..MaxCommands :
              c > commands' \/ (c = commands' /\ Unsent')
                => c > commands \/ (c = commands /\ Unsent)
  BY <1>2
<1>4. ASSUME NEW g \in Gen, NEW m \in Requests, NEW up, send(g, m, up),
             m = "method" => Unsent /\ ~Unsent' /\ commands \in 1..MaxCommands,
             UNCHANGED <<out, socket, events, executed>>,
             willied' \in [Daemons -> WilliedStates]
      PROVE  Wires'
  <2>1. /\ reply' \in Replies /\ inbox' \in [Gen -> Boxes]
        /\ inbound' \in [Daemons -> Seq(Messages)]
        /\ \/ inbound' = inbound
           \/ \E l \in Messages :
                 /\ l.m = m /\ l.c = commands
                 /\ inbound' = [inbound EXCEPT ![g] = Append(@, l)]
    BY <1>1, <1>4, Sent
  <2>2. WireTypes'
    BY <1>1, <1>4, <2>1 DEF WireTypes, Boxes
  <2>3. DaemonTypes'
    BY <1>1, <1>4 DEF DaemonTypes
  <2>4. OnceInv'
    <3>1. CASE inbound' = inbound
      BY <1>1, <1>3, <1>4, <3>1, OnceEmptied
    <3>2. CASE inbound' # inbound
      <4>1. PICK l \in Messages :
                 /\ l.m = m /\ l.c = commands
                 /\ inbound' = [inbound EXCEPT ![g] = Append(@, l)]
        BY <2>1, <3>2
      <4>2. g \in Daemons /\ executed' = executed
        BY <1>4, Generations
      <4>3. CASE m = "method"
        BY <1>1, <1>2, <1>4, <4>1, <4>2, <4>3, OnceSent
      <4>4. CASE m # "method"
        BY <1>1, <1>3, <4>1, <4>2, <4>4, OnceQueued
      <4> QED BY <4>3, <4>4
    <3> QED BY <3>1, <3>2
  <2> QED BY <2>2, <2>3, <2>4 DEF Wires
<1>5. ASSUME UNCHANGED daemons, reply' \in Replies, inbox' \in [Gen -> Boxes]
      PROVE  Wires'
  BY <1>2, <1>5, WiresQuiet
<1>6. CASE stop
  <2>1. CASE live = None
    BY <1>1, <1>5, <1>6, <2>1 DEF stop, daemons
  <2>2. CASE live # None
    <3>1. /\ live \in Gen /\ "shutdown" \in Requests
          /\ send(live, "shutdown", willied[live] # "gone")
          /\ UNCHANGED <<out, socket, events, executed>>
          /\ willied' \in [Daemons -> WilliedStates]
      BY <1>1, <1>6, <2>2 DEF stop, Requests, DaemonTypes
    <3> QED BY <1>4, <3>1
  <2> QED BY <2>1, <2>2
<1>7. CASE stop_close \/ stop_grace \/ start_hello \/ start_refused
  <2>1. op.g \in Gen
    BY <1>7 DEF Ctl, HoldInv, Stopping, Replacing, stop_close, stop_grace, start_hello,
                start_refused
  <2>2. (unregister(op.g) \/ dropped(op.g)) /\ UNCHANGED daemons
    BY <1>7 DEF stop_close, stop_grace, start_hello, start_refused
  <2> QED BY <1>1, <1>5, <2>1, <2>2, Unregistered
<1>8. CASE call_answered \/ call_lost
  <2>1. live \in Gen
    BY <1>1, <1>8 DEF Ctl, HoldInv, call_answered, call_lost
  <2>2. (unregister(live) \/ dropped(live)) /\ UNCHANGED daemons
    BY <1>8 DEF call_answered, call_lost
  <2> QED BY <1>1, <1>5, <2>1, <2>2, Unregistered
<1>9. CASE start_spawn
  <2> DEFINE g == spawned + 1
  <2>1. /\ send(g, "hello", distro = "registered") /\ spawned < MaxSpawn
        /\ UNCHANGED <<out, socket, events, executed>>
        /\ willied' = [willied EXCEPT ![g] = IF distro = "none" THEN "gone" ELSE "booting"]
    BY <1>9 DEF start_spawn
  <2>2. g \in Gen
    <3>1. MaxSpawn \in Nat /\ spawned \in 0..MaxSpawn
      BY EngineAssumption DEF EngineAssumption, Ctl, ClientTypes
    <3> QED BY <2>1, <3>1 DEF Gen
  <2> HIDE DEF g
  <2>3. willied' \in [Daemons -> WilliedStates] /\ "hello" \in Requests
    BY <1>1, <2>1 DEF DaemonTypes, WilliedStates, Requests
  <2> QED BY <1>4, <2>1, <2>2, <2>3
<1>10. CASE call
  <2>1. /\ op.pc = "call" /\ send(live, Request, willied[live] # "gone")
        /\ UNCHANGED <<out, socket, events, executed>>
        /\ willied' \in [Daemons -> WilliedStates] /\ Go("wait")
    BY <1>1, <1>10 DEF call, DaemonTypes
  <2>2. live \in Gen /\ Request \in Requests
    BY <1>1, <2>1 DEF Ctl, HoldInv, Request, Requests
  <2>3. op'.pc = "wait"
    <3>1. op \in Commands /\ "wait" \in Pcs
      BY DEF Ctl, ClientTypes, Pcs
    <3> QED BY <2>1, <3>1, OpGo
  <2>4. ~Unsent'
    BY <2>3 DEF Unsent
  <2>5. ASSUME Request = "method"
        PROVE  Unsent /\ commands \in 1..MaxCommands
    <3>1. op.k \in Callers /\ commands > 0 /\ (op.k = "call" => op.try = 0)
          /\ op.try \in 0..1
      BY <2>1 DEF Ctl, KindInv, ClientTypes, Commands
    <3>2. op.k \in {"call", "open"} /\ op.try = 0
      BY <2>5, <3>1 DEF Request, Callers
    <3>3. commands \in 1..MaxCommands
      BY <1>1, <3>1
    <3> QED BY <2>1, <3>2, <3>3 DEF Unsent
  <2> QED BY <1>4, <2>1, <2>2, <2>4, <2>5
<1>11. CASE start_fails \/ enter_daemon \/ enter_refused \/ ensure_distro_registered
            \/ finish \/ locate_image \/ validate_image \/ remove_orphaned_disk \/ import
  <2>1. UNCHANGED <<daemons, reply, inbox>>
    BY <1>11 DEF start_fails, enter_daemon, enter_refused, ensure_distro_registered,
                 finish, locate_image, validate_image, remove_orphaned_disk, import, client
  <2> QED BY <1>1, <1>5, <2>1
<1>12. CASE uninstall
  <2>1. /\ UNCHANGED <<reply, inbox, out, socket, events, executed>>
        /\ UNCHANGED <<willied, inbound>> \/ terminate
    BY <1>12 DEF uninstall, client
  <2>2. /\ willied' \in [Daemons -> WilliedStates]
        /\ inbound' \in [Daemons -> Seq(Messages)]
        /\ \A g \in Daemons : inbound'[g] = inbound[g] \/ inbound'[g] = <<>>
    <3>1. CASE UNCHANGED <<willied, inbound>>
      BY <1>1, <3>1 DEF DaemonTypes
    <3>2. CASE terminate
      BY <1>1, <3>2, Terminated
    <3> QED BY <2>1, <3>1, <3>2
  <2>3. WireTypes' /\ DaemonTypes'
    BY <1>1, <2>1, <2>2 DEF WireTypes, DaemonTypes
  <2>4. OnceInv'
    BY <1>1, <1>3, <2>1, <2>2, OnceEmptied
  <2> QED BY <2>3, <2>4 DEF Wires
<1> QED BY <1>6, <1>7, <1>8, <1>9, <1>10, <1>11, <1>12 DEF EngineStep

Rest == HostTypes /\ PumpTypes /\ PumpInv

\* A command's steps leave the pump alone, but for the caller they add to it.
LEMMA EngineRest ==
    ASSUME Rest, EngineStep
    PROVE  Rest'
<1>1. HostTypes'
  BY DEF Rest, HostTypes, EngineStep, stop, stop_close, stop_grace, start_spawn,
         start_fails, start_hello, start_refused, call, call_answered, call_lost,
         enter_daemon, enter_refused, ensure_distro_registered, finish,
         locate_image, validate_image, uninstall, remove_orphaned_disk, import, host
<1>2. /\ UNCHANGED <<alive, subscribing, pumps>>
      /\ ensuring' = ensuring \/ ensuring' = ensuring + 1
  BY DEF EngineStep, stop, stop_close, stop_grace, start_spawn,
         start_fails, start_hello, start_refused, call, call_answered, call_lost,
         enter_daemon, enter_refused, ensure_distro_registered, finish,
         locate_image, validate_image, uninstall, remove_orphaned_disk, import, pump
<1>3. PumpTypes'
  BY <1>2 DEF Rest, PumpTypes
<1>4. PumpInv'
  BY <1>2 DEF Rest, PumpInv
<1> QED BY <1>1, <1>3, <1>4 DEF Rest

-----------------------------------------------------------------------------
(* The daemons, the routers, the pump and the world outside.                *)

\* What the dispatcher may answer.
LEMMA Answered ==
    ASSUME NEW msg, NEW a \in dispatch_answers(msg)
    PROVE  a \in Replies
<1>1. a \in {"ok", "rpc_error", "other_version"}
  BY Zenon DEF dispatch_answers, hello, doctor, Answers
<1> QED BY <1>1 DEF Replies, Answers

\* A daemon's state changes, its channel stays or is lost.
LEMMA DaemonQuiet ==
    ASSUME Wires, UNCHANGED <<op, commands, out, executed, inbox, reply>>,
           willied' \in [Daemons -> WilliedStates], socket' \in Daemons \cup {None},
           events' \in 0..MaxEvents,
           NEW g \in Daemons, inbound' = inbound \/ Deaf(g)
    PROVE  Wires'
<1>1. WireTypes /\ DaemonTypes /\ OnceInv /\ inbound \in [Daemons -> Seq(Messages)]
  BY DEF Wires, WireTypes
<1>2. <<>> \in Seq(Messages)
  OBVIOUS
<1>3. inbound' \in [Daemons -> Seq(Messages)]
  BY <1>1, <1>2 DEF Deaf
<1>4. \A h \in Daemons : inbound'[h] = inbound[h] \/ inbound'[h] = <<>>
  BY <1>1 DEF Deaf
<1>5. WireTypes'
  BY <1>1, <1>3 DEF WireTypes
<1>6. DaemonTypes'
  BY <1>1 DEF DaemonTypes
<1>7. \A c \in 1..MaxCommands :
              c > commands' \/ (c = commands' /\ Unsent')
                => c > commands \/ (c = commands /\ Unsent)
  BY DEF Unsent
<1>8. OnceInv'
  BY <1>1, <1>4, <1>7, OnceEmptied
<1> QED BY <1>5, <1>6, <1>8 DEF Wires

\* What happens from outside is counted.
LEMMA Counted ==
    ASSUME DaemonTypes, Event
    PROVE  events' \in 0..MaxEvents
<1>1. MaxEvents \in Nat /\ events \in 0..MaxEvents
  BY EngineAssumption DEF EngineAssumption, DaemonTypes
<1> QED BY <1>1 DEF Event

\* The daemon's own steps.
LEMMA DaemonWires ==
    ASSUME Wires, NEW g \in Daemons, DaemonStep(g)
    PROVE  Wires' /\ UNCHANGED <<op, client, host, pump, commands>>
<1>1. /\ WireTypes /\ DaemonTypes /\ OnceInv /\ inbound \in [Daemons -> Seq(Messages)]
      /\ willied \in [Daemons -> WilliedStates] /\ socket \in Daemons \cup {None}
      /\ events \in 0..MaxEvents
  BY DEF Wires, WireTypes, DaemonTypes
<1>2. UNCHANGED <<op, client, host, pump, commands>>
  BY DEF DaemonStep, bind_test, bind_remove, bind_listen, refused_exits,
         serve_inbound, serve_eof, drain, crash, DaemonOnly
<1>3. UNCHANGED <<op, commands, inbox, reply>>
  BY <1>2 DEF client
<1>4. CASE bind_test(g) \/ bind_remove(g) \/ bind_listen(g) \/ refused_exits(g)
           \/ serve_eof(g) \/ drain(g) \/ crash(g)
  <2>1. willied' \in [Daemons -> WilliedStates]
    <3>1. \E to \in WilliedStates : willied' = [willied EXCEPT ![g] = to]
      BY <1>4 DEF bind_test, bind_remove, bind_listen, refused_exits, serve_eof,
                  drain, crash, Daemon, WilliedStates
    <3> QED BY <1>1, <3>1
  <2>2. socket' \in Daemons \cup {None}
    BY <1>1, <1>4 DEF bind_test, bind_remove, bind_listen, refused_exits, serve_eof,
                      drain, crash
  <2>3. events' \in 0..MaxEvents
    BY <1>1, <1>4, Counted DEF bind_test, bind_remove, bind_listen, refused_exits,
                               serve_eof, drain, crash
  <2>4. (inbound' = inbound \/ Deaf(g)) /\ UNCHANGED <<out, executed>>
    BY <1>4 DEF bind_test, bind_remove, bind_listen, refused_exits, serve_eof,
                drain, crash
  <2> QED BY <1>2, <1>3, <2>1, <2>2, <2>3, <2>4, DaemonQuiet
<1>5. CASE serve_inbound(g)
  <2> DEFINE msg == Head(inbound[g])
             carried == msg.text = "request" /\ msg.m = "method" /\ msg.origin = "stdio"
  <2>1. /\ inbound[g] # <<>> /\ inbound[g] \in Seq(Messages) /\ msg \in Messages
        /\ msg = inbound[g][1] /\ 1 \in DOMAIN inbound[g]
        /\ Tail(inbound[g]) \in Seq(Messages) /\ <<>> \in Seq(Messages)
    <3>1. inbound[g] # <<>> /\ inbound[g] \in Seq(Messages)
      BY <1>1, <1>5 DEF serve_inbound
    <3> QED BY <3>1
  <2>2. /\ UNCHANGED <<socket, events>>
        /\ inbound' = [inbound EXCEPT ![g] = IF dispatch_from(msg) THEN <<>> ELSE Tail(@)]
        /\ executed' = IF carried THEN [executed EXCEPT ![msg.c] = @ + 1] ELSE executed
    BY <1>5 DEF serve_inbound
  <2>3. willied' \in [Daemons -> WilliedStates]
    <3>1. \E to \in WilliedStates : willied' = [willied EXCEPT ![g] = to]
      BY <1>5 DEF serve_inbound, Daemon, WilliedStates
    <3> QED BY <1>1, <3>1
  <2>4. out' \in [Gen -> Seq([id: Nat, answer: Replies])]
    <3>1. out \in [Gen -> Seq([id: Nat, answer: Replies])] /\ msg.id \in Nat
      BY <1>1, <2>1 DEF WireTypes, Messages
    <3>2. CASE UNCHANGED out
      BY <3>1, <3>2
    <3>3. CASE ~UNCHANGED out
      <4>1. PICK a \in dispatch_answers(msg) :
                 out' = [out EXCEPT ![g] = Append(@, [id |-> msg.id, answer |-> a])]
        BY <1>5, <3>3 DEF serve_inbound
      <4>2. [id |-> msg.id, answer |-> a] \in [id: Nat, answer: Replies]
        BY <3>1, Answered
      <4>3. ASSUME g \in Gen
            PROVE  Append(out[g], [id |-> msg.id, answer |-> a])
                     \in Seq([id: Nat, answer: Replies])
        <5>1. out[g] \in Seq([id: Nat, answer: Replies])
          BY <3>1, <4>3
        <5> QED BY <4>2, <5>1
      <4>4. CASE g \in Gen
        BY <3>1, <4>1, <4>3, <4>4
      <4>5. CASE g \notin Gen
        BY <3>1, <4>1, <4>5
      <4> QED BY <4>4, <4>5
    <3> QED BY <3>2, <3>3
  <2>5. inbound' \in [Daemons -> Seq(Messages)]
    BY <1>1, <2>1, <2>2
  <2>6. executed' \in [1..MaxCommands -> Nat] /\ executed \in [1..MaxCommands -> Nat]
    <3>1. executed \in [1..MaxCommands -> Nat]
      BY <1>1 DEF DaemonTypes
    <3>2. CASE executed' = executed
      BY <3>1, <3>2
    <3>3. CASE executed' = [executed EXCEPT ![msg.c] = @ + 1]
      <4> HIDE DEF msg, carried
      <4>1. CASE msg.c \in 1..MaxCommands
        BY <3>1, <3>3, <4>1
      <4>2. CASE msg.c \notin 1..MaxCommands
        BY <3>1, <3>3, <4>2
      <4> QED BY <4>1, <4>2
    <3> QED BY <2>2, <3>1, <3>2, <3>3
  <2>7. WireTypes'
    BY <1>1, <1>3, <2>4, <2>5 DEF WireTypes
  <2>8. DaemonTypes'
    BY <1>1, <2>2, <2>3, <2>6 DEF DaemonTypes
  <2>9. /\ Unsent' = Unsent /\ commands' = commands
        /\ \A c \in 1..MaxCommands :
              c > commands' \/ (c = commands' /\ Unsent')
                => c > commands \/ (c = commands /\ Unsent)
    BY <1>3 DEF Unsent
  <2>10. OnceInv'
    <3>1. CASE carried
      <4>1. ~dispatch_from(msg) /\ Carries(msg, msg.c)
        BY <3>1 DEF dispatch_from, Carries
      <4>2. /\ inbound' = [inbound EXCEPT ![g] = Tail(@)]
            /\ executed' = [executed EXCEPT ![Head(inbound[g]).c] = @ + 1]
        BY <2>2, <3>1, <4>1
      <4> QED BY <1>1, <2>1, <2>6, <2>9, <4>1, <4>2, OnceCarried
    <3>2. CASE ~carried
      <4>0. executed' = executed
        BY <2>2, <3>2
      <4>1. CASE dispatch_from(msg)
        <5>1. \A h \in Daemons : inbound'[h] = inbound[h] \/ inbound'[h] = <<>>
          BY <1>1, <2>2, <4>1
        <5> QED BY <1>1, <2>9, <4>0, <5>1, OnceEmptied
      <4>2. CASE ~dispatch_from(msg)
        <5>1. inbound' = [inbound EXCEPT ![g] = Tail(inbound[g])]
          BY <2>2, <4>2
        <5> HIDE DEF msg, carried
        <5> DEFINE d == [h \in Daemons |-> IF h = g THEN 1 ELSE 0]
        <5>2. \A h \in Daemons : d[h] \in {0, 1} /\ d[h] = (IF h = g THEN 1 ELSE 0)
          OBVIOUS
        <5> HIDE DEF d
        <5>3. ASSUME NEW c \in 1..MaxCommands, NEW h \in Daemons, NEW i \in Nat,
                     Pending(h, i, c)'
              PROVE  Pending(h, i + d[h], c)
          <6>1. i \in DOMAIN inbound'[h] /\ Carries(inbound'[h][i], c)
            BY <5>3 DEF Pending, Carries
          <6>2. CASE h # g
            <7>1. inbound'[h] = inbound[h] /\ i + d[h] = i
              BY <1>1, <5>1, <5>2, <6>2
            <7> QED BY <6>1, <7>1 DEF Pending
          <6>3. CASE h = g
            <7>1. inbound'[g] = Tail(inbound[g]) /\ d[h] = 1
              BY <1>1, <5>1, <5>2, <6>3
            <7>2. i + 1 \in DOMAIN inbound[g] /\ inbound'[g][i] = inbound[g][i + 1]
              BY <2>1, <6>1, <6>3, <7>1
            <7> QED BY <6>1, <6>3, <7>1, <7>2 DEF Pending
          <6> QED BY <6>2, <6>3
        <5> QED BY <1>1, <2>9, <4>0, <5>2, <5>3, OnceShrinks
      <4> QED BY <4>1, <4>2
    <3> QED BY <3>1, <3>2
  <2> QED BY <1>2, <2>7, <2>8, <2>10 DEF Wires
<1> QED BY <1>4, <1>5 DEF DaemonStep

\* The threads around the engine: a router, a killed daemon's end, wsl.exe's
\* own exit and the end of a pump.
LEMMA ClientSteps ==
    ASSUME Ctl, Wires, Rest, NEW g \in Gen, ClientStep(g)
    PROVE  Ctl' /\ Wires' /\ Rest'
<1>1. /\ WireTypes /\ DaemonTypes /\ OnceInv
      /\ inbox \in [Gen -> Boxes] /\ inbox[g] \in Boxes
      /\ out \in [Gen -> Seq([id: Nat, answer: Replies])]
      /\ reply \in Replies /\ relay \in [Gen -> RelayStates]
      /\ willied \in [Daemons -> WilliedStates] /\ g \in Daemons
  BY Generations DEF Wires, WireTypes, DaemonTypes, Boxes, Ctl, ClientTypes
<1>2. UNCHANGED <<op, live, dstate, stdinOpen, spawned, commands, image, distro, disk>>
  BY DEF ClientStep, run_reader, reader_ends, torn, relay_exits, pump_ends,
         DaemonOnly, client, host
<1>3. Ctl' /\ Unsent' = Unsent
  <2>1. /\ relay' \in [Gen -> RelayStates]
        /\ \A h \in Gen : relay'[h] = "running" => relay[h] = "running"
    <3>1. relay' = relay \/ relay' = [relay EXCEPT ![g] = "exited"]
      BY DEF ClientStep, run_reader, reader_ends, torn, relay_exits, pump_ends,
             DaemonOnly, client
    <3> QED BY <1>1, <3>1 DEF RelayStates
  <2> QED BY <1>2, <2>1, CtlSame
<1>4. Wires'
  <2>1. ASSUME UNCHANGED <<willied, inbound, socket, events, executed>>,
               inbox' \in [Gen -> Boxes], reply' \in Replies,
               out' \in [Gen -> Seq([id: Nat, answer: Replies])]
        PROVE  Wires'
    <3>1. WireTypes'
      BY <1>1, <2>1 DEF WireTypes, Boxes
    <3>2. DaemonTypes'
      BY <1>1, <2>1 DEF DaemonTypes
    <3>3. \A c \in 1..MaxCommands :
              c > commands' \/ (c = commands' /\ Unsent')
                => c > commands \/ (c = commands /\ Unsent)
      BY <1>2, <1>3
    <3>4. OnceInv'
      BY <1>1, <2>1, <3>3, OnceEmptied
    <3> QED BY <3>1, <3>2, <3>4 DEF Wires
  <2>2. CASE run_reader(g)
    <3> DEFINE r == Head(out[g])
    <3>1. /\ out[g] # <<>> /\ out' = [out EXCEPT ![g] = Tail(@)]
          /\ UNCHANGED <<willied, inbound, socket, events, executed>>
          /\ IF r.id \in inbox[g].waiters
             THEN /\ reply' = r.answer
                  /\ inbox' = [inbox EXCEPT ![g].waiters = @ \ {r.id}]
             ELSE UNCHANGED <<reply, inbox>>
      BY <2>2 DEF run_reader
    <3>2. out[g] \in Seq([id: Nat, answer: Replies])
      BY <1>1
    <3>3. /\ r \in [id: Nat, answer: Replies]
          /\ Tail(out[g]) \in Seq([id: Nat, answer: Replies])
      BY <3>1, <3>2, HeadTailProperties
    <3>4. out' \in [Gen -> Seq([id: Nat, answer: Replies])]
      BY <1>1, <3>1, <3>3
    <3>5. r.answer \in Replies /\ inbox[g].waiters \ {r.id} \in SUBSET Nat
      BY <1>1, <3>3 DEF Boxes
    <3> HIDE DEF r
    <3>6. reply' \in Replies /\ inbox' \in [Gen -> Boxes]
      <4>1. CASE UNCHANGED <<reply, inbox>>
        BY <1>1, <4>1
      <4>2. CASE reply' = r.answer /\ inbox' = [inbox EXCEPT ![g].waiters = @ \ {r.id}]
        BY <1>1, <3>5, <4>2 DEF Boxes
      <4> QED BY <3>1, <4>1, <4>2
    <3> QED BY <2>1, <3>1, <3>4, <3>6
  <2>3. CASE reader_ends(g)
    <3>1. /\ inbox' = [inbox EXCEPT ![g].closed = TRUE, ![g].waiters = {}]
          /\ out' = [out EXCEPT ![g] = <<>>]
          /\ UNCHANGED <<reply, willied, inbound, socket, events, executed>>
      BY <2>3 DEF reader_ends
    <3>2. {} \in SUBSET Nat /\ <<>> \in Seq([id: Nat, answer: Replies])
      OBVIOUS
    <3>3. inbox' \in [Gen -> Boxes]
      BY <1>1, <3>1, <3>2 DEF Boxes
    <3>4. out' \in [Gen -> Seq([id: Nat, answer: Replies])]
      BY <1>1, <3>1, <3>2
    <3> QED BY <1>1, <2>1, <3>1, <3>3, <3>4
  <2>4. CASE torn(g)
    <3>1. /\ UNCHANGED <<op, commands, out, executed, inbox, reply, socket, events>>
          /\ willied' = [willied EXCEPT ![g] = "gone"] /\ Deaf(g)
      BY <2>4 DEF torn, DaemonOnly, client
    <3>2. /\ willied' \in [Daemons -> WilliedStates]
          /\ socket' \in Daemons \cup {None} /\ events' \in 0..MaxEvents
      BY <1>1, <3>1 DEF DaemonTypes, WilliedStates
    <3> QED BY <1>1, <3>1, <3>2, DaemonQuiet
  <2>5. CASE relay_exits(g) \/ pump_ends(g)
    <3>1. UNCHANGED <<willied, inbound, socket, events, executed, inbox, reply, out>>
      BY <2>5 DEF relay_exits, pump_ends, daemons, client
    <3> QED BY <1>1, <2>1, <3>1
  <2> QED BY <2>2, <2>3, <2>4, <2>5 DEF ClientStep
<1>5. Rest'
  <2>1. HostTypes'
    BY <1>2 DEF Rest, HostTypes
  <2>2. CASE ~pump_ends(g)
    <3>1. UNCHANGED <<alive, ensuring, subscribing, pumps>>
      BY <2>2 DEF ClientStep, run_reader, reader_ends, torn, relay_exits,
                  DaemonOnly, pump
    <3>2. PumpTypes' /\ PumpInv'
      BY <3>1 DEF Rest, PumpTypes, PumpInv
    <3> QED BY <2>1, <3>2 DEF Rest
  <2>3. CASE pump_ends(g)
    <3>1. /\ pumps[g] > 0 /\ pumps' = [pumps EXCEPT ![g] = @ - 1] /\ alive' = FALSE
          /\ UNCHANGED <<ensuring, subscribing>>
      BY <2>3 DEF pump_ends
    <3>2. /\ pumps[g] = 1 /\ pumps \in [Gen -> Nat]
          /\ \A h \in Gen : h # g => pumps[h] = 0
          /\ subscribing = 0
      BY <3>1 DEF Rest, PumpInv, PumpTypes
    <3>3. \A h \in Gen : pumps'[h] = 0
      BY <3>1, <3>2
    <3>4. PumpTypes'
      BY <3>1, <3>2, <3>3 DEF Rest, PumpTypes
    <3>5. PumpInv'
      BY <3>1, <3>2, <3>3 DEF PumpInv
    <3> QED BY <2>1, <3>4, <3>5 DEF Rest
  <2> QED BY <2>2, <2>3
<1> QED BY <1>3, <1>4, <1>5

\* The event pump: the swap lets one caller through.
LEMMA PumpSteps ==
    ASSUME Ctl, Wires, Rest, establish \/ subscribe
    PROVE  Ctl' /\ Wires' /\ Rest'
<1>1. UNCHANGED <<op, client, daemons, host, commands>>
  BY DEF establish, subscribe
<1>2. Ctl' /\ Unsent' = Unsent
  BY <1>1, CtlSame DEF client, host, Ctl, ClientTypes
<1>3. Wires'
  BY <1>1, <1>2, WiresQuiet DEF client, Wires, WireTypes, Boxes
<1>4. HostTypes'
  BY <1>1 DEF host, Rest, HostTypes
<1>5. CASE establish
  <2>1. /\ ensuring > 0 /\ ensuring' = ensuring - 1 /\ alive' = TRUE
        /\ subscribing' = IF alive THEN subscribing ELSE subscribing + 1
        /\ pumps' = pumps
    BY <1>5 DEF establish
  <2>2. alive \in BOOLEAN /\ subscribing \in {0, 1} /\ (subscribing = 1 => alive)
        /\ pumps \in [Gen -> Nat] /\ ensuring \in Nat
    BY DEF Rest, PumpTypes, PumpInv
  <2>3. ~alive => \A g \in Gen : pumps[g] = 0
    BY DEF Rest, PumpInv
  <2>4. PumpTypes'
    BY <2>1, <2>2 DEF PumpTypes
  <2>5. PumpInv'
    <3>1. CASE alive
      BY <2>1, <3>1 DEF Rest, PumpInv
    <3>2. CASE ~alive
      BY <2>1, <2>2, <2>3, <3>2 DEF PumpInv
    <3> QED BY <3>1, <3>2
  <2> QED BY <1>2, <1>3, <1>4, <2>4, <2>5 DEF Rest
<1>6. CASE subscribe
  <2>1. /\ subscribing > 0 /\ subscribing' = subscribing - 1 /\ ensuring' = ensuring
        /\ \/ live # None /\ alive' = TRUE /\ pumps' = [pumps EXCEPT ![live] = @ + 1]
           \/ live = None /\ alive' = FALSE /\ pumps' = pumps
    BY <1>6 DEF subscribe
  <2>2. /\ subscribing = 1 /\ alive /\ pumps \in [Gen -> Nat] /\ ensuring \in Nat
        /\ \A g \in Gen : pumps[g] = 0
        /\ live \in Gen \cup {None} /\ subscribing' = 0
    BY <2>1 DEF Rest, PumpInv, PumpTypes, Ctl, ClientTypes
  <2>3. PumpTypes'
    <3>1. pumps' \in [Gen -> Nat]
      <4>1. CASE live = None
        BY <2>1, <2>2, <4>1
      <4>2. CASE live # None
        BY <2>1, <2>2, <4>2
      <4> QED BY <4>1, <4>2
    <3>2. alive' \in BOOLEAN
      BY <2>1
    <3>3. subscribing' \in Nat /\ ensuring' \in Nat
      BY <2>1, <2>2
    <3> QED BY <3>1, <3>2, <3>3 DEF PumpTypes
  <2>4. PumpInv'
    BY <2>1, <2>2 DEF PumpInv
  <2> QED BY <1>2, <1>3, <1>4, <2>3, <2>4 DEF Rest
<1> QED BY <1>5, <1>6

\* What comes from outside: a distribution unregistered, a socket's line, a
\* daemon of somebody else.
LEMMA OutsideSteps ==
    ASSUME Ctl, Wires, Rest, user_unregisters \/ serve_connection \/ foreign_starts
    PROVE  Ctl' /\ Wires' /\ Rest'
<1>1. UNCHANGED <<op, client, image, pump, commands>>
  BY DEF user_unregisters, serve_connection, foreign_starts, DaemonOnly, host
<1>2. Ctl' /\ Unsent' = Unsent
  BY <1>1, CtlSame DEF client, Ctl, ClientTypes
<1>3. Rest'
  <2>1. HostTypes'
    BY <1>1 DEF user_unregisters, serve_connection, foreign_starts, DaemonOnly, host,
                Rest, HostTypes
  <2>2. PumpTypes' /\ PumpInv'
    BY <1>1 DEF pump, Rest, PumpTypes, PumpInv
  <2> QED BY <2>1, <2>2 DEF Rest
<1>4. /\ WireTypes /\ DaemonTypes /\ OnceInv
      /\ inbound \in [Daemons -> Seq(Messages)]
      /\ willied \in [Daemons -> WilliedStates]
  BY DEF Wires, WireTypes, DaemonTypes
<1>5. UNCHANGED <<inbox, reply>>
  BY <1>1 DEF client
<1>6. \A c \in 1..MaxCommands :
              c > commands' \/ (c = commands' /\ Unsent')
                => c > commands \/ (c = commands /\ Unsent)
  BY <1>1, <1>2
<1>7. CASE user_unregisters
  <2>1. Event /\ terminate /\ UNCHANGED <<out, socket, executed>>
    BY <1>7 DEF user_unregisters
  <2>2. /\ willied' \in [Daemons -> WilliedStates]
        /\ inbound' \in [Daemons -> Seq(Messages)]
        /\ \A g \in Daemons : inbound'[g] = inbound[g] \/ inbound'[g] = <<>>
    BY <1>4, <2>1, Terminated
  <2>3. events' \in 0..MaxEvents
    BY <1>4, <2>1, Counted
  <2>4. WireTypes' /\ DaemonTypes'
    BY <1>4, <1>5, <2>1, <2>2, <2>3 DEF WireTypes, DaemonTypes
  <2>5. OnceInv'
    BY <1>4, <1>6, <2>1, <2>2, OnceEmptied
  <2> QED BY <1>2, <1>3, <2>4, <2>5 DEF Wires
<1>8. CASE serve_connection
  <2>1. Event /\ UNCHANGED <<willied, out, socket, executed>> /\ Listening
    BY <1>8 DEF serve_connection
  <2>2. PICK text \in {"request", "blank", "invalid"} :
          inbound' = [inbound EXCEPT ![socket] =
                        Append(@, Line("socket", text, "shutdown", 1))]
    BY <1>8 DEF serve_connection
  <2> DEFINE l == Line("socket", text, "shutdown", 1)
  <2>3. l \in Messages /\ l.m = "shutdown"
    <3>1. commands \in Nat
      BY EngineAssumption DEF EngineAssumption, Ctl, ClientTypes
    <3> QED BY <3>1 DEF Line, Messages, Requests
  <2> HIDE DEF l
  <2>4. socket \in Daemons
    BY <1>4, <2>1 DEF Listening, DaemonTypes
  <2>5. Append(inbound[socket], l) \in Seq(Messages)
    <3>1. inbound[socket] \in Seq(Messages)
      BY <1>4, <2>4
    <3> QED BY <2>3, <3>1
  <2>6. inbound' = [inbound EXCEPT ![socket] = Append(@, l)]
    BY <2>2 DEF l
  <2>7. inbound' \in [Daemons -> Seq(Messages)]
    BY <1>4, <2>4, <2>5, <2>6
  <2>8. events' \in 0..MaxEvents
    BY <1>4, <2>1, Counted
  <2>9. WireTypes' /\ DaemonTypes'
    BY <1>4, <1>5, <2>1, <2>7, <2>8 DEF WireTypes, DaemonTypes
  <2>10. OnceInv'
    BY <1>4, <1>6, <2>1, <2>3, <2>4, <2>6, OnceQueued
  <2> QED BY <1>2, <1>3, <2>9, <2>10 DEF Wires
<1>9. CASE foreign_starts
  <2>1. /\ Event /\ UNCHANGED <<inbound, out, socket, executed>>
        /\ willied' = [willied EXCEPT ![Other] = "booting"]
    BY <1>9 DEF foreign_starts, Daemon
  <2>2. events' \in 0..MaxEvents
    BY <1>4, <2>1, Counted
  <2>3. willied' \in [Daemons -> WilliedStates] /\ socket' \in Daemons \cup {None}
    BY <1>4, <2>1 DEF WilliedStates, DaemonTypes
  <2>4. Wires'
    BY <1>1, <1>5, <2>1, <2>2, <2>3, Generations, DaemonQuiet
  <2> QED BY <1>2, <1>3, <2>4
<1> QED BY <1>7, <1>8, <1>9

-----------------------------------------------------------------------------
(* The invariant and what follows from it.                                  *)

\* The engine and the command under way; the wire and the daemons; the rest.
Inv == Ctl /\ Wires /\ Rest

\* It holds before the first command...
LEMMA Initially == EngineInit => Inv
<1> SUFFICES ASSUME EngineInit PROVE Inv
  OBVIOUS
<1>1. {MaxSpawn, MaxCommands, MaxEvents} \subseteq Nat
  BY EngineAssumption DEF EngineAssumption
<1>2. /\ op.pc = "idle" /\ op.k = "none" /\ op.g = None /\ op.try = 0
      /\ op \in Commands
  <2>1. 0 \in 0..1 /\ "idle" \in Pcs
    BY DEF Pcs
  <2> QED BY <2>1 DEF EngineInit, Idle, Commands
<1>3. Ctl
  <2>1. ClientTypes
    BY <1>1, <1>2 DEF EngineInit, ClientTypes, RelayStates
  <2>2. HoldInv /\ KindInv /\ ImageInv
    BY <1>2 DEF EngineInit, HoldInv, KindInv, ImageInv, Stopping, Replacing
  <2> QED BY <2>1, <2>2 DEF Ctl
<1>4. Wires
  <2>1. <<>> \in Seq(Messages) /\ <<>> \in Seq([id: Nat, answer: Replies])
    OBVIOUS
  <2>2. [next_id |-> 1, waiters |-> {}, closed |-> FALSE] \in Boxes
    BY DEF Boxes
  <2>3. WireTypes
    BY <2>1, <2>2 DEF EngineInit, WireTypes, Replies, Boxes
  <2>4. DaemonTypes
    BY <1>1 DEF EngineInit, DaemonTypes, WilliedStates
  <2>5. OnceInv
    <3>1. \A g \in Daemons : inbound[g] = <<>>
      BY DEF EngineInit
    <3>2. \A g \in Daemons, i \in Nat, c \in 1..MaxCommands : ~Pending(g, i, c)
      BY <3>1 DEF Pending
    <3>3. \A c \in 1..MaxCommands : executed[c] = 0
      BY DEF EngineInit
    <3> QED BY <3>2, <3>3 DEF OnceInv
  <2> QED BY <2>3, <2>4, <2>5 DEF Wires
<1>5. Rest
  <2>1. HostTypes
    BY DEF EngineInit, HostTypes
  <2>2. PumpTypes
    BY DEF EngineInit, PumpTypes
  <2>3. PumpInv
    <3>1. \A g \in Gen : pumps[g] = 0
      BY DEF EngineInit
    <3> QED BY <3>1 DEF EngineInit, PumpInv
  <2> QED BY <2>1, <2>2, <2>3 DEF Rest
<1> QED BY <1>3, <1>4, <1>5 DEF Inv

\* ...and no step, of whoever, breaks it.
LEMMA Inductive == Inv /\ [EngineNext]_engineVars => Inv'
<1> SUFFICES ASSUME Inv, [EngineNext]_engineVars PROVE Inv'
  OBVIOUS
<1>0. Ctl /\ Wires /\ Rest
  BY DEF Inv
<1>1. CASE UNCHANGED engineVars
  <2>1. UNCHANGED <<op, client, daemons, host, pump, commands>>
    BY <1>1 DEF engineVars
  <2>2. Ctl' /\ Unsent' = Unsent
    BY <1>0, <2>1, CtlSame DEF client, host, Ctl, ClientTypes
  <2>3. Wires'
    BY <1>0, <2>1, <2>2, WiresQuiet DEF client, Wires, WireTypes, Boxes
  <2>4. Rest'
    BY <1>0, <2>1 DEF host, pump, Rest, HostTypes, PumpTypes, PumpInv
  <2> QED BY <2>2, <2>3, <2>4 DEF Inv
<1>2. ASSUME NEW k \in Classes, begin(k) PROVE Inv'
  <2>1. UNCHANGED <<client, daemons, host, pump>>
    BY <1>2 DEF begin
  <2>2. Ctl' /\ commands' = commands + 1 /\ commands' \in 1..MaxCommands
    BY <1>0, <1>2, CtlBegin
  <2>3. Rest'
    BY <1>0, <2>1 DEF host, pump, Rest, HostTypes, PumpTypes, PumpInv
  <2>4. Wires'
    <3>1. WireTypes' /\ DaemonTypes'
      BY <1>0, <2>1 DEF Wires, WireTypes, DaemonTypes, client, daemons
    <3>2. commands \in Nat /\ \A c \in 1..MaxCommands :
              c > commands' \/ (c = commands' /\ Unsent')
                => c > commands \/ (c = commands /\ Unsent)
      <4>1. MaxCommands \in Nat /\ commands \in 0..MaxCommands
        BY <1>0, EngineAssumption DEF EngineAssumption, Ctl, ClientTypes
      <4> QED BY <2>2, <4>1
    <3>3. OnceInv /\ executed' = executed /\ inbound' = inbound
      BY <1>0, <2>1 DEF Wires, daemons
    <3>4. OnceInv'
      BY <3>2, <3>3, OnceEmptied
    <3> QED BY <3>1, <3>4 DEF Wires
  <2> QED BY <2>2, <2>3, <2>4 DEF Inv
<1>3. CASE EngineStep
  BY <1>0, <1>3, CtlStep, EngineWires, EngineRest DEF Inv
<1>4. ASSUME NEW g \in Daemons, DaemonStep(g) PROVE Inv'
  <2>1. Wires' /\ UNCHANGED <<op, client, host, pump, commands>>
    BY <1>0, <1>4, DaemonWires
  <2>2. Ctl'
    BY <1>0, <2>1, CtlSame DEF client, host, Ctl, ClientTypes
  <2>3. Rest'
    BY <1>0, <2>1 DEF host, pump, Rest, HostTypes, PumpTypes, PumpInv
  <2> QED BY <2>1, <2>2, <2>3 DEF Inv
<1>5. ASSUME NEW g \in Gen, ClientStep(g) PROVE Inv'
  BY <1>0, <1>5, ClientSteps DEF Inv
<1>6. CASE establish \/ subscribe
  BY <1>0, <1>6, PumpSteps DEF Inv
<1>7. CASE user_unregisters \/ serve_connection \/ foreign_starts
  BY <1>0, <1>7, OutsideSteps DEF Inv
<1> QED BY <1>1, <1>2, <1>3, <1>4, <1>5, <1>6, <1>7 DEF EngineNext

\* The inductive invariant holds always.
THEOREM Invariance == EngineSpec => []Inv
BY Initially, Inductive, PTL DEF EngineSpec

\* Every variable keeps its type.
THEOREM TypeCorrect == EngineSpec => []EngineTypeOK
<1>1. Inv => EngineTypeOK
  BY DEF Inv, Ctl, Wires, Rest, EngineTypeOK
<1> QED BY <1>1, Invariance, PTL

\* No wsl.exe outlives the supervisor's knowledge of it, through every failed
\* start, lost call and reinstall (daemon.rs, record and start_with).
THEOREM ProcessesAreHeld == EngineSpec => []NoOrphanDaemon
<1>1. Inv => NoOrphanDaemon
  BY DEF Inv, Ctl, HoldInv, Stopping, Replacing, NoOrphanDaemon, Idle
<1> QED BY <1>1, Invariance, PTL

\* One pump thread at most, however many commands reach establish together
\* (events.rs): the flag is the subscription under way's or the pump's.
THEOREM PumpIsAlone == EngineSpec => []OneEventPump
<1>1. Inv => OneEventPump
  BY DEF Inv, Rest, PumpTypes, PumpInv, OneEventPump
<1> QED BY <1>1, Invariance, PTL

\* A forwarded command is carried out at most once, whatever is lost, killed
\* or restarted (engine.rs, daemon_call): its request is written once.
THEOREM CommandsRunOnce == EngineSpec => []CarriedOutOnce
<1>1. Inv => CarriedOutOnce
  BY DEF Inv, Wires, OnceInv, CarriedOutOnce
<1> QED BY <1>1, Invariance, PTL

\* The install unregisters a distribution only for an image that passed its
\* checks, and with the daemon the engine had there stopped and reaped
\* (engine.rs, install_distro; distro.rs, install): the stop comes before the
\* checks, so neither is undone by the other's failure.
THEOREM InstallSpares == EngineSpec => ReplacedOnlyWhenReady
<1>1. ASSUME Inv, Replaces
      PROVE  /\ image \in {"good", "unchecked"} /\ live = None
             /\ \A g \in Gen : relay[g] # "running"
  <2>1. image \in {"good", "unchecked"}
    BY <1>1 DEF Inv, Ctl, ImageInv, Replaces
  <2>2. live = None /\ op.g = None
    BY <1>1 DEF Inv, Ctl, HoldInv, Replaces, Replacing, Stopping, Replacing
  <2>3. \A g \in Gen : relay[g] # "running"
    BY <1>1, <2>2, Generations DEF Inv, Ctl, HoldInv
  <2> QED BY <2>1, <2>2, <2>3
<1>2. Inv /\ [EngineNext]_engineVars =>
        [Replaces => /\ image \in {"good", "unchecked"}
                     /\ live = None
                     /\ \A g \in Gen : relay[g] # "running"]_engineVars
  BY <1>1
<1> QED BY <1>2, Invariance, PTL DEF EngineSpec, ReplacedOnlyWhenReady
=============================================================================
