----------------------------- MODULE Supervisor -----------------------------
(***************************************************************************)
(* willie-sess, from the moment a session is announced ready to the exit   *)
(* of its supervisor process: server.rs, tally.rs, the Ring of screen.rs   *)
(* and the last part of main.rs.                                           *)
(*                                                                         *)
(* The threads are one reader per client, one writer per client, the pump  *)
(* (main), the syscall filter's server, the signal waiter and the stop     *)
(* ladder.  They share the clients list, the screen, the tally, the phase  *)
(* and the log, each under a lock of its own that is never held together   *)
(* with another: an action is one critical section.                        *)
(*                                                                         *)
(* Output is a sequence of numbered chunks, each one frame of size one.    *)
(* A frame is <<tag, n>>: "out" with the chunk, "event" with the index of  *)
(* the log line, "status", a CLOSED reason, or "end" for the empty CLOSE.  *)
(***************************************************************************)
EXTENDS SessionLog, FiniteSets

CONSTANTS
    Terminals, Controls,   \* connections, each made at most once (bound)
    RingCap,               \* RING_BYTES, in chunks
    QueueCap,              \* QUEUE_BYTES, in frames
    MaxOutput,             \* bound: chunks the harness prints
    MaxDenials,            \* bound: refusals per row of the tally
    MaxResizes,            \* bound: RESIZE frames in all
    MaxStatus,             \* bound: STATUS_REQ frames in all
    AltStates,             \* subset of BOOLEAN: may the alternate screen be on
    FilterServed,          \* the stage handed over a syscall filter's listener
    SignalWaiter           \* the signal waiter's thread could be started

Clients == Terminals \cup Controls
Threads == Clients \cup {"pump", "filter", "signals"}
Syscall == "syscall"
Terminal == "terminal"

ASSUME SupervisorAssumption ==
    /\ Terminals \cap Controls = {} /\ IsFiniteSet(Terminals)
    /\ Clients \cap {"pump", "filter", "signals"} = {}
    /\ Names = {Syscall, Terminal}
    /\ RingCap \in Nat \ {0} /\ QueueCap \in Nat
    /\ RingCap <= QueueCap       \* 256 KiB against 1 MiB
    /\ MaxOutput \in Nat /\ MaxDenials \in Nat
    /\ MaxResizes \in Nat /\ MaxStatus \in Nat
    /\ AltStates \subseteq BOOLEAN /\ AltStates /= {}
    /\ FilterServed \in BOOLEAN /\ SignalWaiter \in BOOLEAN

VARIABLES
    phase, stop_cause, \* Shared.phase and Shared.stop_cause
    log,               \* events.jsonl
    todo, fan,         \* per thread: events it is about to log, and the line
                       \* it appended and has yet to fan out (0: none)
    clients,           \* Shared.clients: the registered connections
    pc,                \* per client: its reader thread
    chan, queued,      \* per client: its channel and ClientHandle.queued
    got,               \* per client: the frames written to its socket
    sock, writer,      \* per client: the connection and the writer thread
    ring, alt,         \* Screen.ring and Screen.alt.active()
    tally,             \* pending count per row, -1 while the row is vacant
    filter,            \* the filter's server: "up" or "ended"
    tearing_down,
    stopper, spc,      \* the thread inside request_stop, and where it is
    ladder,            \* the stop ladder: the last signal it sent
    harness,           \* "alive", "killed" (SIGKILL sent) or "dead"
    pump,              \* the main thread
    socket,            \* the socket path exists
    handles,           \* the client handles finish() took
    produced,          \* chunks printed so far
    sizes, asked,      \* RESIZE and STATUS_REQ frames so far
    recorded,          \* history: refusals per row
    settled,           \* history: the filter's server had ended when flushed
    joined             \* history: what a client found when it registered

sessVars == <<phase, stop_cause, stopper, spc, ladder, harness>>
logVars == <<log, todo, fan>>
connVars == <<clients, chan, queued, got, sock, writer>>
screenVars == <<ring, alt, produced>>
tallyVars == <<tally, recorded, filter, tearing_down, settled>>
pumpVars == <<pump, socket, handles>>
countVars == <<sizes, asked>>
vars == <<sessVars, logVars, connVars, screenVars, tallyVars, pumpVars,
          countVars, pc, joined>>

Count(S, kind, c) ==
    Cardinality({i \in S : log[i].kind = kind /\ log[i].arg = c})

CloseReasons == {"exited", "stopped", "shutdown", "too_slow", "protocol"}
Frames == {"out", "event", "status", "end"} \cup CloseReasons
Wire == Frames \X Nat
\* Bytes a frame counts for: the empty CLOSE counts for nothing.
Size(f) == IF f[1] = "end" THEN 0 ELSE 1

Kinds == {"created", "applied", "started", "denied", "degraded", "resized",
          "attached", "detached", "stop_requested", "exited"}
Lines == [kind : Kinds,
          arg : Terminals \cup {NoLabel} \cup [name : Names, count : Nat]]

SessTypes ==
    /\ phase \in {"running", "stopping", "exited"}
    /\ stop_cause \in {"none", "stopped", "shutdown"}
    /\ spc \in {"none", "cause", "log", "done"}
    /\ spc \in {"cause", "log"} => stopper \in Controls \cup {"signals"}
    /\ ladder \in {"off", "int", "term", "kill", "end"}
    /\ harness \in {"alive", "killed", "dead"}

LogTypes ==
    /\ log \in Seq(Lines) /\ todo \in [Threads -> Seq(Lines)]
    /\ fan \in [Threads -> 0..Len(log)]

ConnTypes ==
    /\ clients \subseteq Clients
    /\ chan \in [Clients -> Seq(Wire)] /\ queued \in [Clients -> Int]
    /\ got \in [Clients -> Seq(Wire)]
    /\ sock \in [Clients -> {"open", "shut"}]
    /\ writer \in [Clients -> {"none", "up", "gone"}]

ScreenTypes ==
    /\ ring \in Seq(1..MaxOutput) /\ Len(ring) <= RingCap
    /\ alt \in AltStates /\ produced \in 0..MaxOutput

TallyTypes ==
    /\ tally \in [Names -> Int] /\ recorded \in [Names -> 0..MaxDenials]
    /\ filter \in {"up", "ended"}
    /\ tearing_down \in BOOLEAN /\ settled \in BOOLEAN

PumpTypes ==
    /\ pump \in {"read", "push", "fanout", "teardown", "settle", "flush",
                 "exit", "close", "unlink", "drain", "gone"}
    /\ pump \in {"push", "fanout"} => produced > 0
    /\ socket \in BOOLEAN /\ handles \subseteq Clients

ReaderTypes ==
    /\ pc \in [Clients -> {"none", "hello", "replay", "size", "register",
                           "serve", "gone"}]
    /\ joined \in [Clients -> [replay : Nat, fanned : Nat, logged : Nat]]
    /\ sizes \in 0..MaxResizes /\ asked \in 0..MaxStatus

TypeOK == /\ SessTypes /\ LogTypes /\ ConnTypes /\ ScreenTypes
          /\ TallyTypes /\ PumpTypes /\ ReaderTypes

Init ==
    /\ phase = "running" /\ stop_cause = "none"
    /\ stopper = "none" /\ spc = "none" /\ ladder = "off" /\ harness = "alive"
    /\ log = << Event("created", NoLabel), Event("applied", NoLabel),
                Event("started", NoLabel) >>
    /\ todo = [t \in Threads |-> <<>>] /\ fan = [t \in Threads |-> 0]
    /\ clients = {}
    /\ pc = [c \in Clients |-> "none"]
    /\ chan = [c \in Clients |-> <<>>] /\ queued = [c \in Clients |-> 0]
    /\ got = [c \in Clients |-> <<>>]
    /\ sock = [c \in Clients |-> "open"]
    /\ writer = [c \in Clients |-> "none"]
    /\ ring = <<>> /\ alt \in AltStates /\ produced = 0
    /\ tally = [n \in Names |-> -1] /\ recorded = [n \in Names |-> 0]
    /\ filter = IF FilterServed THEN "up" ELSE "ended"
    /\ tearing_down = FALSE /\ settled = FALSE
    /\ pump = "read" /\ socket = TRUE /\ handles = {}
    /\ sizes = 0 /\ asked = 0
    /\ joined = [c \in Clients |-> [replay |-> 0, fanned |-> 0, logged |-> 0]]

Alive == pump /= "gone"

-----------------------------------------------------------------------------
(* log_event: append the line, then fan it out.  A thread that has events   *)
(* to log does nothing else until they are out.                             *)

Idle(t) == todo[t] = <<>> /\ fan[t] = 0

\* Thread t is outside log_event and outside request_stop.
Free(t) == Idle(t) /\ (stopper = t => spc \notin {"cause", "log"})

\* Thread t goes on to log these events, one after the other.
LogNext(t, events) == todo' = [todo EXCEPT ![t] = events]

append(t) ==
    /\ Alive /\ todo[t] /= <<>> /\ fan[t] = 0
    /\ log' = Append(log, Head(todo[t]))
    /\ fan' = [fan EXCEPT ![t] = Len(log) + 1]
    /\ todo' = [todo EXCEPT ![t] = Tail(@)]
    /\ UNCHANGED <<sessVars, connVars, screenVars, tallyVars, pumpVars,
                   countVars, pc, joined>>

\* enqueue's condition: within the budget, and a writer still receives.
Room(c) == queued[c] + 1 <= QueueCap /\ writer[c] = "up"

\* Every client of S gets the frame and is charged for it.
Enqueue(S, frame) ==
    /\ chan' = [c \in Clients |->
                   IF c \in S THEN Append(chan[c], frame) ELSE chan[c]]
    /\ queued' = [c \in Clients |->
                   IF c \in S THEN queued[c] + Size(frame) ELSE queued[c]]

\* Seeded fault: an ending session's events reach the log alone.
fan_out_while_running(t) ==
    LET told == {c \in clients \cap Controls : phase /= "exited" /\ Room(c)}
    IN  /\ Alive /\ fan[t] /= 0
        /\ Enqueue(told, <<"event", fan[t]>>)
        /\ fan' = [fan EXCEPT ![t] = 0]
        /\ UNCHANGED <<clients, sessVars, log, todo, got, sock, writer,
                       screenVars, tallyVars, pumpVars, countVars, pc, joined>>

\* The second half of log_event: a control client without room is forgotten.
fan_out(t) ==
    LET told == {c \in clients \cap Controls : Room(c)}
    IN  /\ Alive /\ fan[t] /= 0
        /\ Enqueue(told, <<"event", fan[t]>>)
        /\ clients' = (clients \ Controls) \cup told
        /\ fan' = [fan EXCEPT ![t] = 0]
        /\ UNCHANGED <<sessVars, log, todo, got, sock, writer, screenVars,
                       tallyVars, pumpVars, countVars, pc, joined>>

-----------------------------------------------------------------------------
(* The stop path.                                                           *)

\* request_stop: the phase guard makes it idempotent.
request_stop(t) ==
    /\ Alive /\ Free(t)
    /\ phase = "running"
    /\ phase' = "stopping" /\ stopper' = t /\ spc' = "cause"
    /\ UNCHANGED <<stop_cause, ladder, harness, logVars, connVars, screenVars,
                   tallyVars, pumpVars, countVars, pc, joined>>

\* request_stop, past the guard: the cause, then the log line.
stop_record ==
    /\ Alive /\ spc = "cause"
    /\ stop_cause' = IF stopper = "signals" THEN "shutdown" ELSE "stopped"
    /\ LogNext(stopper, << Event("stop_requested", NoLabel) >>)
    /\ spc' = "log"
    /\ UNCHANGED <<phase, stopper, ladder, harness, log, fan, connVars,
                   screenVars, tallyVars, pumpVars, countVars, pc, joined>>

\* The ladder's thread starts and sends SIGINT.
stop_spawn_ladder ==
    /\ Alive /\ spc = "log" /\ Idle(stopper)
    /\ spc' = "done" /\ ladder' = "int"
    /\ UNCHANGED <<phase, stop_cause, stopper, harness, logVars, connVars,
                   screenVars, tallyVars, pumpVars, countVars, pc, joined>>

\* A signal arrives: one waiter thread turns it into a stop.
signal_waiter == SignalWaiter /\ request_stop("signals")

\* Seeded fault: the ladder stops at SIGTERM.
climb_two_rungs ==
    /\ Alive /\ ladder \in {"int", "term"}
    /\ ladder' = IF ladder = "int" /\ phase /= "exited" THEN "term" ELSE "end"
    /\ UNCHANGED <<phase, stop_cause, stopper, spc, harness, logVars, connVars,
                   screenVars, tallyVars, pumpVars, countVars, pc, joined>>

\* wait_exited on the rung just signalled: the ladder ends on the exit, or
\* sends the next signal when the grace passed.  Only SIGKILL, which goes to
\* the whole group, cannot be ignored.
climb ==
    /\ Alive /\ ladder \in {"int", "term", "kill"}
    /\ ladder' = IF phase = "exited" THEN "end"
                 ELSE CASE ladder = "int" -> "term"
                        [] ladder = "term" -> "kill"
                        [] ladder = "kill" -> "end"
    /\ harness' = IF ladder' = "kill" /\ harness = "alive" THEN "killed"
                  ELSE harness
    /\ UNCHANGED <<phase, stop_cause, stopper, spc, logVars, connVars,
                   screenVars, tallyVars, pumpVars, countVars, pc, joined>>

\* The harness ends: by itself, on a polite signal, or killed.
harness_exits ==
    /\ Alive /\ harness /= "dead"
    /\ harness' = "dead"
    /\ UNCHANGED <<phase, stop_cause, stopper, spc, ladder, logVars, connVars,
                   screenVars, tallyVars, pumpVars, countVars, pc, joined>>

-----------------------------------------------------------------------------
(* Denials.                                                                 *)

\* Tally::record of one refusal of row n, then record_denial's log_event of
\* what is due: the first refusal, or everything folded once the window has
\* passed (any time).
record_denial(t, n) ==
    /\ recorded[n] < MaxDenials
    /\ recorded' = [recorded EXCEPT ![n] = @ + 1]
    /\ \/ /\ tally[n] >= 0
          /\ tally' = [tally EXCEPT ![n] = @ + 1]
          /\ todo' = todo
       \/ /\ tally' = [tally EXCEPT ![n] = 0]
          /\ LogNext(t, << Event("denied", [name |-> n,
                  count |-> IF tally[n] < 0 THEN 1 ELSE tally[n] + 1]) >>)

\* serve_notifications: one intercepted call is answered and recorded.
filter_denies ==
    /\ Alive /\ filter = "up" /\ Idle("filter") /\ harness /= "dead"
    /\ record_denial("filter", Syscall)
    /\ UNCHANGED <<sessVars, log, fan, connVars, screenVars, filter,
                   tearing_down, settled, pumpVars, countVars, pc, joined>>

\* The filter's server ends: orderly once no process is left under it, or by
\* failing, which degrades the session unless it is already tearing down.
filter_ends ==
    /\ Alive /\ filter = "up" /\ Idle("filter")
    /\ filter' = "ended"
    /\ \/ harness = "dead" /\ todo' = todo
       \/ tearing_down /\ todo' = todo
       \/ ~tearing_down /\ LogNext("filter", << Event("degraded", NoLabel) >>)
    /\ UNCHANGED <<sessVars, log, fan, connVars, screenVars, tally, recorded,
                   tearing_down, settled, pumpVars, countVars, pc, joined>>

-----------------------------------------------------------------------------
(* The pump: serve, then the end of session_main and finish.                *)

\* serve reads a chunk.  The terminal filter may drop a sequence from it,
\* which is recorded first; what is left, if anything, is broadcast.
serve_read ==
    /\ Alive /\ pump = "read" /\ Idle("pump")
    /\ \/ /\ produced < MaxOutput
          /\ produced' = produced + 1 /\ pump' = "push"
          /\ UNCHANGED <<tally, recorded, todo>>
       \/ /\ record_denial("pump", Terminal)
          /\ UNCHANGED <<produced, pump>>
    /\ UNCHANGED <<sessVars, log, fan, connVars, ring, alt, filter,
                   tearing_down, settled, socket, handles, countVars, pc,
                   joined>>

\* broadcast, under the screen lock: Ring::push keeps the tail.
broadcast_screen ==
    /\ Alive /\ pump = "push" /\ Idle("pump")
    /\ LET longer == Append(ring, produced)
       IN  ring' = IF Len(longer) > RingCap THEN Tail(longer) ELSE longer
    /\ alt' \in AltStates
    /\ pump' = "fanout"
    /\ UNCHANGED <<sessVars, logVars, connVars, produced, tallyVars, socket,
                   handles, countVars, pc, joined>>

\* Seeded fault: a terminal without room only misses the frame.
broadcast_skips ==
    /\ Alive /\ pump = "fanout"
    /\ Enqueue({c \in clients \cap Terminals : Room(c)}, <<"out", produced>>)
    /\ pump' = "read"
    /\ UNCHANGED <<clients, sock, sessVars, logVars, got, writer, screenVars,
                   tallyVars, socket, handles, countVars, pc, joined>>

\* Seeded fault: a terminal without room is told, but its socket stays open.
broadcast_no_shutdown ==
    LET terminals == clients \cap Terminals
        slow == {c \in terminals : ~Room(c)}
    IN  /\ Alive /\ pump = "fanout"
        /\ Enqueue(terminals \ slow, <<"out", produced>>)
        /\ clients' = clients \ slow
        /\ LogNext("pump", SetToSeq({Event("detached", c) : c \in slow}))
        /\ pump' = "read"
        /\ UNCHANGED <<sock, sessVars, log, fan, got, writer, screenVars,
                       tallyVars, socket, handles, countVars, pc, joined>>

\* broadcast, under the clients lock: a terminal whose budget is exhausted
\* is closed as too slow, forgotten, and logged as detached afterwards.
broadcast_clients ==
    LET terminals == clients \cap Terminals
        slow == {c \in terminals : ~Room(c)}
        told == {c \in slow : writer[c] = "up"}
    IN  /\ Alive /\ pump = "fanout"
        /\ chan' = [c \in Clients |->
                IF c \in terminals \ slow
                THEN Append(chan[c], <<"out", produced>>)
                ELSE IF c \in told THEN Append(chan[c], <<"too_slow", 0>>)
                ELSE chan[c]]
        /\ queued' = [c \in Clients |->
                IF c \in (terminals \ slow) \cup told THEN queued[c] + 1
                ELSE queued[c]]
        /\ sock' = [c \in Clients |-> IF c \in slow THEN "shut" ELSE sock[c]]
        /\ clients' = clients \ slow
        /\ LogNext("pump", SetToSeq({Event("detached", c) : c \in slow}))
        /\ pump' = "read"
        /\ UNCHANGED <<sessVars, log, fan, got, writer, screenVars, tallyVars,
                       socket, handles, countVars, pc, joined>>

\* serve returns: nothing holds the terminal any more.
serve_ends ==
    /\ Alive /\ pump = "read" /\ Idle("pump") /\ harness = "dead"
    /\ pump' = "teardown"
    /\ UNCHANGED <<sessVars, logVars, connVars, screenVars, tallyVars, socket,
                   handles, countVars, pc, joined>>

begin_teardown ==
    /\ Alive /\ pump = "teardown"
    /\ tearing_down' = TRUE /\ pump' = "settle"
    /\ UNCHANGED <<sessVars, logVars, connVars, screenVars, tally, recorded,
                   filter, settled, socket, handles, countVars, pc, joined>>

\* The bounded wait for the filter's server ends either way.
settle ==
    /\ Alive /\ pump = "settle"
    /\ settled' = (filter = "ended" /\ Idle("filter"))
    /\ pump' = "flush"
    /\ UNCHANGED <<sessVars, logVars, connVars, screenVars, tally, recorded,
                   filter, tearing_down, socket, handles, countVars, pc,
                   joined>>

Pending == {n \in Names : tally[n] > 0}

\* finish: the denials still folded go first.
finish_flush ==
    /\ Alive /\ pump = "flush"
    /\ LogNext("pump", SetToSeq({Event("denied",
            [name |-> n, count |-> tally[n]]) : n \in Pending}))
    /\ tally' = [n \in Names |-> IF n \in Pending THEN 0 ELSE tally[n]]
    /\ pump' = "exit"
    /\ UNCHANGED <<sessVars, log, fan, connVars, screenVars, recorded, filter,
                   tearing_down, settled, socket, handles, countVars, pc,
                   joined>>

\* Seeded fault: the exit is recorded before the flushed denials.
finish_exit_first ==
    /\ Alive /\ pump = "exit"
    /\ fan["pump"] = 0
    /\ phase' = "exited"
    /\ LogNext("pump", << Event("exited", NoLabel) >> \o todo["pump"])
    /\ pump' = "close"
    /\ UNCHANGED <<stop_cause, stopper, spc, ladder, harness, log, fan,
                   connVars, screenVars, tallyVars, socket, handles, countVars,
                   pc, joined>>

\* finish: the phase turns, then the exit is logged.
finish_exit ==
    /\ Alive /\ pump = "exit" /\ Idle("pump")
    /\ phase' = "exited"
    /\ LogNext("pump", << Event("exited", NoLabel) >>)
    /\ pump' = "close"
    /\ UNCHANGED <<stop_cause, stopper, spc, ladder, harness, log, fan,
                   connVars, screenVars, tallyVars, socket, handles, countVars,
                   pc, joined>>

\* finish: every registered client is taken and sent its CLOSED.
finish_close ==
    LET reason == IF stop_cause = "none" THEN "exited" ELSE stop_cause
    IN  /\ Alive /\ pump = "close" /\ Idle("pump")
        /\ handles' = clients /\ clients' = {}
        /\ Enqueue({c \in clients : writer[c] = "up"}, <<reason, 0>>)
        /\ pump' = "unlink"
        /\ UNCHANGED <<sessVars, logVars, got, sock, writer, screenVars,
                       tallyVars, socket, countVars, pc, joined>>

finish_unlink ==
    /\ Alive /\ pump = "unlink"
    /\ socket' = FALSE /\ pump' = "drain"
    /\ UNCHANGED <<sessVars, logVars, connVars, screenVars, tallyVars, handles,
                   countVars, pc, joined>>

\* Seeded fault: the drain has no deadline.
finish_drain_forever ==
    /\ Alive /\ pump = "drain"
    /\ \A c \in handles : queued[c] = 0
    /\ sock' = [c \in Clients |-> IF c \in handles THEN "shut" ELSE sock[c]]
    /\ pump' = "gone"
    /\ UNCHANGED <<sessVars, logVars, clients, chan, queued, got, writer,
                   screenVars, tallyVars, socket, handles, countVars, pc,
                   joined>>

\* finish: the drain ends, everyone written to or two seconds over; the
\* sockets are shut down and the process exits.
finish_drain ==
    /\ Alive /\ pump = "drain"
    /\ sock' = [c \in Clients |-> IF c \in handles THEN "shut" ELSE sock[c]]
    /\ pump' = "gone"
    /\ UNCHANGED <<sessVars, logVars, clients, chan, queued, got, writer,
                   screenVars, tallyVars, socket, handles, countVars, pc,
                   joined>>

-----------------------------------------------------------------------------
(* The client threads.                                                      *)

Go(c, here, there) ==
    /\ Alive /\ Free(c)
    /\ pc[c] = here
    /\ pc' = [pc EXCEPT ![c] = there]

\* The accept thread starts a reader for a connection to the socket path.
accept(c) ==
    /\ socket
    /\ Go(c, "none", "hello")
    /\ UNCHANGED <<sessVars, logVars, connVars, screenVars, tallyVars,
                   pumpVars, countVars, joined>>

\* reject: no usable hello in time, or the session is over.
client_reject(c) ==
    /\ Go(c, "hello", "gone")
    /\ got' = [got EXCEPT ![c] = Append(@, <<"protocol", 0>>)]
    /\ sock' = [sock EXCEPT ![c] = "shut"]
    /\ UNCHANGED <<sessVars, logVars, clients, chan, queued, writer,
                   screenVars, tallyVars, pumpVars, countVars, joined>>

\* A hello before the phase turned: the client gets its writer.
client_hello(c) ==
    /\ phase /= "exited"
    /\ Go(c, "hello", IF c \in Terminals THEN "replay" ELSE "register")
    /\ writer' = [writer EXCEPT ![c] = "up"]
    /\ UNCHANGED <<sessVars, logVars, clients, chan, queued, got, sock,
                   screenVars, tallyVars, pumpVars, countVars, joined>>

\* Seeded fault: the replay is queued but not charged.
client_replay_uncounted(c) ==
    LET replay == IF alt THEN <<>> ELSE ring
    IN  /\ Go(c, "replay", "size")
        /\ chan' = [chan EXCEPT ![c] =
               @ \o [i \in DOMAIN replay |-> <<"out", replay[i]>>]]
        /\ joined' = [joined EXCEPT ![c].replay = Len(replay)]
        /\ UNCHANGED <<queued, sessVars, logVars, clients, got, sock, writer,
                       screenVars, tallyVars, pumpVars, countVars>>

\* A terminal's replay: the ring, or nothing on the alternate screen.  Its
\* frames are enqueued one by one: a peer that left makes the writer give up
\* on one of them, and the next then ends the client before it registered.
client_replay(c) ==
    LET replay == IF alt THEN <<>> ELSE ring
        frames == [i \in DOMAIN replay |-> <<"out", replay[i]>>]
    IN  \/ /\ Go(c, "replay", "size")
           /\ chan' = [chan EXCEPT ![c] = @ \o frames]
           /\ queued' = [queued EXCEPT ![c] = @ + Len(replay)]
           /\ joined' = [joined EXCEPT ![c].replay = Len(replay)]
           /\ UNCHANGED <<sessVars, logVars, clients, got, sock, writer,
                          screenVars, tallyVars, pumpVars, countVars>>
        \/ /\ sock[c] = "shut"
           /\ Go(c, "replay", "gone")
           /\ writer' = [writer EXCEPT ![c] = "gone"]
           /\ \E written \in 0..(Len(frames) - 2) :
                 got' = [got EXCEPT ![c] = @ \o SubSeq(frames, 1, written)]
           /\ UNCHANGED <<sessVars, logVars, clients, chan, queued, sock,
                          screenVars, tallyVars, pumpVars, countVars, joined>>

\* apply_size: what it logs.  The window size may fail to change, and on the
\* alternate screen a hello whose size is already the screen's nudges first.
Resizes(nudge) ==
    LET r == Event("resized", NoLabel)
    IN  {<<>>, <<r>>} \cup (IF nudge THEN {<<r, r>>} ELSE {})

client_size(c) ==
    /\ Go(c, "size", "register")
    /\ \E events \in Resizes(alt) : LogNext(c, events)
    /\ UNCHANGED <<sessVars, log, fan, connVars, screenVars, tallyVars,
                   pumpVars, countVars, joined>>

\* Chunks that have been through broadcast's fan-out.
Fanned == IF pump \in {"push", "fanout"} THEN produced - 1 ELSE produced

\* The client joins the list; a terminal is then logged as attached.
client_register(c) ==
    /\ Go(c, "register", "serve")
    /\ clients' = clients \cup {c}
    /\ LogNext(c, IF c \in Terminals THEN << Event("attached", c) >>
                  ELSE <<>>)
    /\ joined' = [joined EXCEPT ![c].fanned = Fanned, ![c].logged = Len(log)]
    /\ UNCHANGED <<sessVars, log, fan, chan, queued, got, sock, writer,
                   screenVars, tallyVars, pumpVars, countVars>>

Serving(c) == Alive /\ pc[c] = "serve" /\ Free(c)

\* A RESIZE frame.
client_resize(c) ==
    /\ Serving(c) /\ sock[c] = "open"
    /\ sizes < MaxResizes
    /\ sizes' = sizes + 1
    /\ \E events \in Resizes(FALSE) : LogNext(c, events)
    /\ UNCHANGED <<sessVars, log, fan, connVars, screenVars, tallyVars,
                   pumpVars, asked, pc, joined>>

\* A STOP frame, honoured from a control client only.
client_stop(c) ==
    /\ c \in Controls /\ Serving(c) /\ sock[c] = "open"
    /\ request_stop(c)

\* A STATUS_REQ frame: the reply skips the budget but is counted.  With no
\* writer left the count stays and the frame is lost.
client_status(c) ==
    /\ c \in Controls /\ Serving(c) /\ sock[c] = "open"
    /\ asked < MaxStatus
    /\ asked' = asked + 1
    /\ queued' = [queued EXCEPT ![c] = @ + 1]
    /\ chan' = IF writer[c] = "up"
               THEN [chan EXCEPT ![c] = Append(@, <<"status", 0>>)] ELSE chan
    /\ UNCHANGED <<sessVars, logVars, clients, got, sock, writer, screenVars,
                   tallyVars, pumpVars, sizes, pc, joined>>

\* The reader's loop ends: a DETACH frame, end of file, a read error or a
\* terminal that takes no more input.  Whoever removes the client from the
\* list, this thread or the broadcast, logs its detach.
client_leave(c) ==
    /\ Go(c, "serve", "gone")
    /\ clients' = clients \ {c}
    /\ chan' = IF writer[c] = "up"
               THEN [chan EXCEPT ![c] = Append(@, <<"end", 0>>)] ELSE chan
    /\ sock' = [sock EXCEPT ![c] = "shut"]
    /\ LogNext(c, IF c \in clients \cap Terminals
                  THEN << Event("detached", c) >> ELSE <<>>)
    /\ UNCHANGED <<sessVars, log, fan, queued, got, writer, screenVars,
                   tallyVars, pumpVars, countVars, joined>>

\* The other end goes away.
peer_closes(c) ==
    /\ Alive /\ pc[c] /= "none" /\ sock[c] = "open"
    /\ sock' = [sock EXCEPT ![c] = "shut"]
    /\ UNCHANGED <<sessVars, logVars, clients, chan, queued, got, writer,
                   screenVars, tallyVars, pumpVars, countVars, pc, joined>>

\* writer_loop: one frame leaves the channel and is written, or cannot be;
\* a CLOSE or a failed write is the writer's last act.
writer_loop(c) ==
    /\ Alive /\ writer[c] = "up" /\ chan[c] /= <<>>
    /\ chan' = [chan EXCEPT ![c] = Tail(@)]
    /\ queued' = [queued EXCEPT ![c] = @ - Size(Head(chan[c]))]
    /\ LET frame == Head(chan[c])
           last == frame[1] \in CloseReasons \cup {"end"} \/ sock[c] = "shut"
       IN  /\ got' = IF sock[c] = "shut" \/ frame[1] = "end" THEN got
                     ELSE [got EXCEPT ![c] = Append(@, frame)]
           /\ writer' = IF last THEN [writer EXCEPT ![c] = "gone"] ELSE writer
           /\ sock' = IF last THEN [sock EXCEPT ![c] = "shut"] ELSE sock
    /\ UNCHANGED <<sessVars, logVars, clients, screenVars, tallyVars, pumpVars,
                   countVars, pc, joined>>

-----------------------------------------------------------------------------

Log(t) == append(t) \/ fan_out(t)

Pump == \/ serve_read \/ broadcast_screen \/ broadcast_clients
        \/ serve_ends \/ begin_teardown \/ settle \/ finish_flush
        \/ finish_exit \/ finish_close \/ finish_unlink \/ finish_drain

Client(c) == \/ accept(c) \/ client_reject(c) \/ client_hello(c)
             \/ client_replay(c) \/ client_size(c) \/ client_register(c)
             \/ client_resize(c) \/ client_stop(c) \/ client_status(c)
             \/ client_leave(c) \/ peer_closes(c) \/ writer_loop(c)

Gone == pump = "gone" /\ UNCHANGED vars

Next == \/ \E t \in Threads : Log(t)
        \/ \E c \in Clients : Client(c)
        \/ Pump
        \/ stop_record \/ stop_spawn_ladder \/ signal_waiter
        \/ climb \/ harness_exits
        \/ filter_denies \/ filter_ends
        \/ Gone

Spec == Init /\ [][Next]_vars

\* The scheduler runs every thread that can go on, a killed harness dies,
\* output ends once it is dead, and each bounded wait of the code ends.  No
\* client is ever assumed to read: a writer may block for ever, until its
\* socket is shut down under it.
FairSpec ==
    /\ Spec
    /\ \A t \in Threads : WF_vars(Log(t))
    /\ WF_vars(broadcast_screen \/ broadcast_clients \/ serve_ends
               \/ begin_teardown \/ settle \/ finish_flush \/ finish_exit
               \/ finish_close \/ finish_unlink \/ finish_drain)
    /\ WF_vars(stop_record) /\ WF_vars(stop_spawn_ladder)
    /\ WF_vars(climb)
    /\ WF_vars(harness = "killed" /\ harness_exits)
    /\ \A c \in Clients : /\ WF_vars(sock[c] = "shut" /\ client_leave(c))
                          /\ WF_vars(client_replay(c) \/ client_size(c)
                                     \/ client_register(c))

-----------------------------------------------------------------------------
(* Properties.                                                              *)

\* What a client was sent, and is about to be.
Stream(c) == got[c] \o chan[c]
Connected(S) == {c \in clients \cap S : sock[c] = "open"}

\* The frames of a channel that count, and those the budget must admit.
Charged(s) == {i \in DOMAIN s : Size(s[i]) = 1}
Budgeted(s) == {i \in DOMAIN s : s[i][1] \in {"out", "event"}}

\* While a writer is up, a client's byte counter is what its channel holds:
\* it never underflows, every sender counts what the writer will subtract,
\* and output and events stay within the budget.
QueueAccounted ==
    \A c \in Clients :
        writer[c] = "up" =>
            /\ queued[c] = Cardinality(Charged(chan[c]))
            /\ Cardinality(Budgeted(chan[c])) <= QueueCap

\* A connected, registered terminal has been sent, after its replay, exactly
\* the chunks broadcast since it registered, in order, and nothing else:
\* broadcast closes a terminal that cannot keep up and never leaves a hole in
\* the output of one it keeps.
LiveOutputComplete ==
    \A c \in Connected(Terminals) :
        LET replay == joined[c].replay
        IN  /\ Len(Stream(c)) = replay + (Fanned - joined[c].fanned)
            /\ \A i \in 1..(Fanned - joined[c].fanned) :
                  Stream(c)[replay + i] = <<"out", joined[c].fanned + i>>

\* The places of log line n in what client c was sent.
Copies(c, n) == {i \in DOMAIN Stream(c) : Stream(c)[i] = <<"event", n>>}

\* A connected control client has been sent every line appended since it
\* registered, except those a thread still has to fan out, and none twice.
ControlSeesLog ==
    \A c \in Connected(Controls) :
        /\ \A n \in (joined[c].logged + 1)..Len(log) :
              Copies(c, n) = {} => \E t \in Threads : fan[t] = n
        /\ \A i, j \in DOMAIN Stream(c) :
              Stream(c)[i][1] = "event" /\ Stream(c)[i] = Stream(c)[j] => i = j

\* Nothing is being logged.
Quiet == \A t \in Threads : Idle(t)

\* Between log lines, and until finish takes the list, the log holds one more
\* attach than detach of a terminal exactly while it is registered: of the two
\* threads that may drop it, the one that removed it logs it.
AttachBalance ==
    Quiet /\ pump \notin {"unlink", "drain", "gone"} =>
        \A c \in Terminals :
            Count(DOMAIN log, "attached", c) - Count(DOMAIN log, "detached", c)
              = IF c \in clients THEN 1 ELSE 0

ExitLogged == \E i \in DOMAIN log : log[i].kind = "exited"

\* Every reader of the log stops folding at the exit.  What it has folded by
\* then is every refusal recorded: of the terminal filter always, of the
\* syscall filter if its server had ended when the tally was flushed.
DenialsReachTheExit ==
    ExitLogged =>
        LET folded == from_log(log).denied
        IN  /\ folded[Terminal] = recorded[Terminal]
            /\ settled => folded[Syscall] = recorded[Syscall]

\* A stop always ends the session, whatever the harness and the clients do.
StopEndsSession == phase = "stopping" ~> pump = "gone"

\* So does the harness's own exit: no client can hold the supervisor back.
ExitEndsSupervisor == harness = "dead" ~> pump = "gone"

\* A terminal the broadcast dropped loses its connection and its thread.
WedgedTerminalLeaves ==
    \A c \in Terminals :
        (pc[c] = "serve" /\ c \notin clients /\ phase /= "exited")
            ~> (pc[c] = "gone" \/ pump = "gone")

-----------------------------------------------------------------------------
(* What the documentation says and the code does not do.                    *)

\* "Terminals get output (and a replay when they arrive late)": on the main
\* screen, what a terminal is sent is an unbroken run of the output.
ReplaySeamless ==
    \A c \in Connected(Terminals) :
        \A i \in 1..(Len(Stream(c)) - 1) :
            Stream(c)[i + 1][2] = Stream(c)[i][2] + 1
=============================================================================
