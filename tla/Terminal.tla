------------------------------- MODULE Terminal -------------------------------
(***************************************************************************)
(* The terminals of a session, end to end: the frames on the supervisor's  *)
(* socket (willie-linux: wire.rs), `willie attach` on the user's side of   *)
(* it with its two threads (willie-cli: attach.rs), the embedded terminals *)
(* of the app, each a bridge to an attach in host mode (willie-engine:     *)
(* embed.rs, willie-proto: hostterm.rs), and of the supervisor the output  *)
(* pump with its filter and the loop that reads a client.  Every stream is *)
(* a sequence of bytes that a read may cut anywhere.  The supervisor's     *)
(* queues, budgets and end are the module Supervisor; here a frame it      *)
(* sends is in the socket at once.                                         *)
(***************************************************************************)
EXTENDS OutputFilter

CONSTANTS
    Sessions,
    Tabs, Hosts,        \* the attach processes: of a terminal tab, of the app
    Tokens,             \* what a harness writes at once: its bytes, and which draw
    Keys,               \* the byte strings typed at once
    Sizes,              \* the window sizes, rows and columns alike
    Reasons,            \* why a session may end
    ReadSizes,          \* how many bytes a read may return at most
    MAX_PAYLOAD,        \* of a frame
    RingCap,            \* how much output the ring keeps
    MaxMoves            \* bound: moves of users, harnesses and faults together

Clients == Tabs \cup Hosts
NoClient == "none"
DETACH_KEY == 29

ASSUME TerminalAssumption ==
    /\ {MAX_PAYLOAD, RingCap, MaxMoves} \subseteq Nat
    /\ ReadSizes \subseteq Nat \ {0} /\ MAX_PAYLOAD >= 4
    /\ Reasons \subseteq {"exit_0", "exit_n", "stopped", "shutdown"}
    /\ Keys \subseteq Seq(Nat) /\ Sizes \subseteq Nat
    /\ Tabs \cap Hosts = {} /\ NoClient \notin Clients

\* What a token leaves on a screen is what the filter, in the state it starts
\* in, makes of it; and a token ends its sequences.
ASSUME TokensAssumption ==
    /\ Tokens \subseteq [bytes : Seq(Nat), drawn : Seq(Nat)]
    /\ \A tok \in Tokens : LET f == feed(VtFilter, tok.bytes)
                           IN  f.out = tok.drawn /\ f.state = "Ground"

VARIABLES
    wrote,      \* the tokens each harness wrote
    pty,        \* its output the supervisor has not read
    filter,     \* the output filter
    ring,       \* the output pushed to the ring, which keeps the last of it
    fan,        \* what was pushed to the ring and is not yet on its way
    over,       \* whether the supervisor is gone
    cl,         \* the attach processes
    up, down,   \* the bytes on the way to a client and from it
    cut,        \* the ends of the socket that were shut: "up", "down"
    srv,        \* the supervisor's thread for a client; and of the output, as
                \* history, what is due to it and the part that is
    got,        \* what it wrote to the PTY, or set the window to
    bridges,    \* the engine's open embedded terminals
    given,      \* history: what the user gave a client
    moves

sessVars == <<wrote, pty, filter, ring, fan, over>>
wireVars == <<up, down, cut>>
termVars == <<sessVars, cl, wireVars, srv, got, bridges, given, moves>>

-----------------------------------------------------------------------------
(* Frames: a kind, a 16-bit length, the payload.  A JSON payload is one     *)
(* byte that stands for it.                                                 *)
INPUT == 0
RESIZE == 1
DETACH == 2
HELLO == 3
OUTPUT == 16
CLOSED == 19
HEADER == 3
\* The byte that stands for a `Closed`.
Code(reason) ==
    CASE reason = "exit_0" -> 1 [] reason = "exit_n" -> 2 [] reason = "stopped" -> 3
      [] reason = "shutdown" -> 4 [] reason = "protocol" -> 5
u16(n) == <<n \div 256, n % 256>>
be16(hi, lo) == 256 * hi + lo

encode(kind, payload) ==
    LET p == SubSeq(payload, 1, IF Len(payload) > MAX_PAYLOAD THEN MAX_PAYLOAD
                                ELSE Len(payload))
    IN  <<kind>> \o u16(Len(p)) \o p
encode_resize(rows, cols) == encode(RESIZE, u16(rows) \o u16(cols))

Parts(bytes) == [i \in 1..((Len(bytes) + MAX_PAYLOAD - 1) \div MAX_PAYLOAD) |->
                    SubSeq(bytes, MAX_PAYLOAD * (i - 1) + 1,
                           IF MAX_PAYLOAD * i < Len(bytes) THEN MAX_PAYLOAD * i
                           ELSE Len(bytes))]
chunks(kind, bytes) ==
    IF bytes = <<>> THEN <<encode(kind, <<>>)>>
    ELSE [i \in DOMAIN Parts(bytes) |-> encode(kind, Parts(bytes)[i])]

\* The next whole frame of a decoder's buffer, if it holds one.
pop(buf) ==
    IF Len(buf) < HEADER THEN [used |-> 0]
    ELSE LET len == be16(buf[2], buf[3])
         IN  IF Len(buf) < HEADER + len THEN [used |-> 0]
             ELSE [used |-> HEADER + len, kind |-> buf[1],
                   payload |-> SubSeq(buf, HEADER + 1, HEADER + len)]

decode_resize(p) ==
    IF Len(p) # 4 THEN <<>>
    ELSE <<<<"size", be16(p[1], p[2]), be16(p[3], p[4])>>>>

\* The host dialect: the app's frames on the standard input of an attach.
TAG_INPUT == 105
TAG_RESIZE == 114
host_input(bytes) == <<TAG_INPUT, 0, 0>> \o u16(Len(bytes)) \o bytes
host_resize(rows, cols) == <<TAG_RESIZE>> \o u16(rows) \o u16(cols)
decode_frame(buf) ==
    IF Len(buf) < 5 \/ buf[1] \notin {TAG_INPUT, TAG_RESIZE}
      THEN [used |-> 0, bad |-> buf # <<>> /\ buf[1] \notin {TAG_INPUT, TAG_RESIZE}]
    ELSE LET len == IF buf[1] = TAG_INPUT THEN be16(buf[4], buf[5]) ELSE 0
         IN  IF Len(buf) < 5 + len THEN [used |-> 0, bad |-> FALSE]
             ELSE [used |-> 5 + len, bad |-> FALSE,
                   frames |-> IF buf[1] = TAG_RESIZE
                                THEN <<encode_resize(be16(buf[2], buf[3]),
                                                     be16(buf[4], buf[5]))>>
                              ELSE LET b == SubSeq(buf, 6, 5 + len)
                                   IN  IF b = <<>> THEN <<>> ELSE chunks(INPUT, b)]

Skip(s, n) == SubSeq(s, n + 1, Len(s))
Take(s, n) == SubSeq(s, 1, IF n < Len(s) THEN n ELSE Len(s))
AsInput(bytes) == [i \in DOMAIN bytes |-> <<"in", bytes[i]>>]
\* Where x is first in s, 0 when it is not.
position(s, x) == SelectInSeq(s, LAMBDA y : y = x)

-----------------------------------------------------------------------------
(* An attach process: a main thread, an output thread once it has said      *)
(* hello, and the signal handlers.  `ending` says how far each of them is   *)
(* with the end of the process, which the first to get there decides.       *)
Enders == {"main", "out", "signal"}
NotEnding == [at |-> "no", said |-> "", code |-> 0]
Fresh == [sess |-> "", main |-> "off", out |-> "none", stdin |-> <<>>, eof |-> FALSE,
          buf |-> <<>>, todo |-> <<>>, next |-> "", dec |-> <<>>, screen |-> <<>>,
          LEAVING |-> FALSE, RESIZED |-> FALSE, SAVED |-> FALSE, tty |-> "cooked",
          win |-> 0, ending |-> [t \in Enders |-> NotEnding], said |-> "", code |-> 0]
\* The thread of a client: it is replayed what the ring got between `from` and
\* `upto`, and is sent what is broadcast once the ring got `since`.
Unserved == [at |-> "none", dec |-> <<>>, due |-> <<>>, from |-> 0, upto |-> 0,
             since |-> 0]

TerminalInit ==
    /\ wrote = [s \in Sessions |-> <<>>] /\ pty = [s \in Sessions |-> <<>>]
    /\ filter = [s \in Sessions |-> VtFilter] /\ ring = [s \in Sessions |-> <<>>]
    /\ fan = [s \in Sessions |-> <<>>] /\ over = [s \in Sessions |-> FALSE]
    /\ cl = [c \in Clients |-> Fresh]
    /\ up = [c \in Clients |-> <<>>] /\ down = [c \in Clients |-> <<>>]
    /\ cut = [c \in Clients |-> {}]
    /\ srv = [c \in Clients |-> Unserved]
    /\ got = [c \in Clients |-> <<>>] /\ given = [c \in Clients |-> <<>>]
    /\ bridges = [s \in Sessions |-> NoClient]
    /\ moves = 0

Move == moves < MaxMoves /\ moves' = moves + 1
Running(c) == cl[c].main \notin {"off", "gone"}
Main(c, at) == Running(c) /\ cl[c].main = at
Set(c, r) == cl' = [cl EXCEPT ![c] = r]
Quietly == UNCHANGED <<sessVars, wireVars, srv, got, bridges, given, moves>>

\* `finish`, and the guard of a return from `run`: the thread's way out.
finish(r, t, said, code) ==
    [r EXCEPT !.ending[t] = [at |-> "swap", said |-> said, code |-> code],
              !.main = IF t = "main" THEN "ending" ELSE @,
              !.out = IF t = "out" THEN "ending" ELSE @]

\* The settings are taken by one swap and put back by a later call.
restore_terminal(c, t) ==
    /\ Running(c) /\ cl[c].ending[t].at \in {"swap", "set"}
    /\ Set(c, IF cl[c].ending[t].at = "swap"
                THEN [cl[c] EXCEPT !.SAVED = FALSE,
                         !.ending[t].at = IF cl[c].SAVED THEN "set" ELSE "exit"]
                ELSE [cl[c] EXCEPT !.tty = "cooked", !.ending[t].at = "exit"])
    /\ Quietly

\* The process is gone and its end of the socket with it.
Gone(c, said, code) ==
    /\ Set(c, [cl[c] EXCEPT !.main = "gone", !.out = "none",
                            !.said = said, !.code = code])
    /\ cut' = [cut EXCEPT ![c] = @ \cup {"down"}]
exit(c, t) ==
    /\ Running(c) /\ cl[c].ending[t].at = "exit"
    /\ Gone(c, cl[c].ending[t].said, cl[c].ending[t].code)
    /\ UNCHANGED <<sessVars, up, down, srv, got, bridges, given, moves>>

\* A hang-up: the handler restores and leaves; before it is installed, the
\* process is killed as it is.
Handlers == {"hello", "loop", "read", "parse", "send", "leave", "detach", "sleep",
             "ending"}
on_hangup(c) ==
    /\ Running(c) /\ Move
    /\ cl[c].ending["signal"].at = "no"
    /\ \/ /\ cl[c].main \in Handlers
          /\ Set(c, finish(cl[c], "signal", "", 129))
          /\ UNCHANGED cut
       \/ cl[c].main \notin Handlers /\ Gone(c, "killed", 129)
    /\ UNCHANGED <<sessVars, up, down, srv, got, bridges, given>>

\* A tab is opened on a session.
open_tab(c, s) ==
    /\ cl[c].main = "off" /\ Move
    /\ Set(c, [Fresh EXCEPT !.sess = s, !.main = "connect"])
    /\ UNCHANGED <<sessVars, wireVars, srv, got, bridges, given>>

connect(c) ==
    /\ Main(c, "connect")
    /\ IF over[cl[c].sess]
         THEN Set(c, finish(cl[c], "main", "not_running", 1)) /\ UNCHANGED srv
         ELSE /\ Set(c, [cl[c] EXCEPT !.main = IF c \in Tabs THEN "raw" ELSE "install"])
              /\ srv' = [srv EXCEPT ![c].at = "hello"]
    /\ UNCHANGED <<sessVars, wireVars, got, bridges, given, moves>>

\* The terminal is raw first and its settings are kept second.
raw_mode(c) ==
    /\ Main(c, "raw")
    /\ \/ Set(c, [cl[c] EXCEPT !.tty = "raw", !.main = "save"]) /\ UNCHANGED moves
       \/ /\ Move
          /\ Set(c, finish(cl[c], "main", "no_raw_mode", 1))
    /\ UNCHANGED <<sessVars, wireVars, srv, got, bridges, given>>
save(c) ==
    /\ Main(c, "save")
    /\ Set(c, [cl[c] EXCEPT !.SAVED = TRUE, !.main = "install"])
    /\ Quietly
\* The handlers, one after the other: a signal that comes between finds its own
\* there or not, as one that comes before or after all of them does.
install(c) ==
    /\ Main(c, "install")
    /\ Set(c, [cl[c] EXCEPT !.main = "hello"])
    /\ Quietly

\* A write to the socket: r once it is done, or the way out when the
\* supervisor has shut its end.
write_all(c, frame, r, failed) ==
    IF "up" \in cut[c] THEN Set(c, failed) /\ UNCHANGED down
    ELSE Set(c, r) /\ down' = [down EXCEPT ![c] = @ \o frame]
MainRest == UNCHANGED <<sessVars, up, cut, srv, got, bridges, given, moves>>

hello(c) ==
    /\ Main(c, "hello")
    /\ write_all(c, encode(HELLO, <<1>>),
                 [cl[c] EXCEPT !.out = "run", !.main = IF c \in Tabs THEN "loop" ELSE "read"],
                 finish(cl[c], "main", "no_hello", 1))
    /\ MainRest

-----------------------------------------------------------------------------
(* The main thread of a tab: a changed window first, then the keys.         *)
send_resize(c) ==
    /\ Main(c, "loop")
    /\ LET r == [cl[c] EXCEPT !.RESIZED = FALSE, !.main = "read"]
       IN  IF cl[c].RESIZED
             THEN write_all(c, encode_resize(cl[c].win, cl[c].win), r,
                            finish(r, "main", "", 1))
             ELSE Set(c, r) /\ UNCHANGED down
    /\ MainRest

Blocked(c) == Main(c, "read") /\ cl[c].stdin = <<>> /\ ~cl[c].eof
\* The window changes.  A signal that finds the thread blocked in its read
\* sends it back to the top of the loop; one that comes just before the read,
\* or to the other thread, does not.
on_winch(c, w) ==
    /\ Running(c) /\ w # cl[c].win /\ Move
    /\ \E m \in {cl[c].main} \cup (IF Blocked(c) THEN {"loop"} ELSE {}) :
         Set(c, [cl[c] EXCEPT !.win = w, !.RESIZED = (cl[c].main \in Handlers),
                              !.main = m])
    /\ UNCHANGED <<sessVars, wireVars, srv, got, bridges, given>>

\* A read of the keyboard is never longer than a payload.
KeyReads == {IF n > MAX_PAYLOAD THEN MAX_PAYLOAD ELSE n : n \in ReadSizes}
\* Seeded fault: what was typed before the key goes out after it, or never.
input_loop_forgets(c) ==
    \E n \in KeyReads :
       LET r == [cl[c] EXCEPT !.stdin = Skip(@, n)]
           chunk == Take(cl[c].stdin, n)
           at == position(chunk, DETACH_KEY)
       IN  IF at > 0 THEN Set(c, [r EXCEPT !.main = "leave"])
           ELSE Set(c, [r EXCEPT !.todo = chunks(INPUT, chunk), !.main = "send",
                                 !.next = "loop"])
input_loop(c) ==
    \E n \in KeyReads :
       LET r == [cl[c] EXCEPT !.stdin = Skip(@, n)]
           chunk == Take(cl[c].stdin, n)
           at == position(chunk, DETACH_KEY)
       IN  Set(c, [r EXCEPT !.main = "send",
                     !.todo = IF at = 1 THEN <<>>
                              ELSE IF at > 1 THEN <<encode(INPUT, Take(chunk, at - 1))>>
                              ELSE chunks(INPUT, chunk),
                     !.next = IF at > 0 THEN "leave" ELSE "loop"])

\* The main thread of a host: whole frames of the host dialect.
host_read(c) ==
    \E n \in ReadSizes :
       Set(c, [cl[c] EXCEPT !.stdin = Skip(@, n), !.buf = @ \o Take(cl[c].stdin, n),
                            !.main = "parse"])
read_stdin(c) ==
    /\ Main(c, "read") /\ cl[c].stdin # <<>>
    /\ IF c \in Tabs THEN input_loop(c) ELSE host_read(c)
    /\ Quietly
read_eof(c) ==
    /\ Main(c, "read") /\ cl[c].stdin = <<>> /\ cl[c].eof
    /\ Set(c, [cl[c] EXCEPT !.main = "leave"])
    /\ Quietly

host_input_loop(c) ==
    /\ Main(c, "parse")
    /\ LET f == decode_frame(cl[c].buf)
       IN  Set(c, IF f.bad THEN finish(cl[c], "main", "", 1)
                  ELSE IF f.used = 0 THEN [cl[c] EXCEPT !.main = "read"]
                  ELSE [cl[c] EXCEPT !.buf = Skip(@, f.used), !.main = "send",
                                     !.todo = f.frames, !.next = "parse"])
    /\ Quietly

send(c) ==
    /\ Main(c, "send")
    /\ IF cl[c].todo = <<>>
         THEN Set(c, [cl[c] EXCEPT !.main = cl[c].next]) /\ UNCHANGED down
         ELSE write_all(c, Head(cl[c].todo), [cl[c] EXCEPT !.todo = Tail(@)],
                        finish(cl[c], "main", "", 1))
    /\ MainRest

\* Seeded fault: the flag is never set.
leaving_unsaid(c) ==
    /\ Main(c, "leave")
    /\ Set(c, [cl[c] EXCEPT !.main = "detach"])
    /\ Quietly
\* LEAVING is set before the frame goes out.
leaving(c) ==
    /\ Main(c, "leave")
    /\ Set(c, [cl[c] EXCEPT !.LEAVING = TRUE, !.main = "detach"])
    /\ Quietly
detach(c) ==
    /\ Main(c, "detach")
    /\ LET r == [cl[c] EXCEPT !.main = "sleep"]
       IN  write_all(c, encode(DETACH, <<>>), r, r)
    /\ cut' = [cut EXCEPT ![c] = @ \cup {"down"}]
    /\ UNCHANGED <<sessVars, up, srv, got, bridges, given, moves>>
\* The output thread had its moment.
sleep(c) ==
    /\ Main(c, "sleep")
    /\ Set(c, finish(cl[c], "main", IF c \in Tabs THEN "detached" ELSE "", 0))
    /\ Quietly

-----------------------------------------------------------------------------
(* The output thread: whole frames to the screen, and the reason of the end. *)
describe(reason) ==
    CASE reason = "exit_0" -> 0 [] reason = "exit_n" -> 1
      [] reason = "protocol" -> 1 [] reason \in {"stopped", "shutdown"} -> 0
Reason(payload) ==
    CHOOSE r \in Reasons \cup {"protocol"} : Code(r) = payload[1]

output_frame(c) ==
    LET f == pop(cl[c].dec)
        r == [cl[c] EXCEPT !.dec = Skip(@, f.used)]
    IN  /\ Running(c) /\ cl[c].out = "run" /\ f.used > 0
        /\ \/ /\ f.kind = OUTPUT
              /\ Set(c, [r EXCEPT !.screen = @ \o f.payload])
              /\ UNCHANGED moves
           \/ /\ f.kind = OUTPUT /\ Move
              /\ Set(c, finish(r, "out", "cannot_write", 1))
           \/ /\ f.kind = CLOSED
              /\ Set(c, finish(r, "out", Reason(f.payload), describe(Reason(f.payload))))
              /\ UNCHANGED moves
        /\ UNCHANGED <<sessVars, wireVars, srv, got, bridges, given>>

output_read(c) ==
    /\ Running(c) /\ cl[c].out = "run" /\ pop(cl[c].dec).used = 0
    /\ up[c] # <<>>
    /\ \E n \in ReadSizes :
         /\ Set(c, [cl[c] EXCEPT !.dec = @ \o Take(up[c], n)])
         /\ up' = [up EXCEPT ![c] = Skip(@, n)]
    /\ UNCHANGED <<sessVars, down, cut, srv, got, bridges, given, moves>>
output_eof(c) ==
    /\ Running(c) /\ cl[c].out = "run" /\ pop(cl[c].dec).used = 0
    /\ up[c] = <<>> /\ "up" \in cut[c]
    /\ Set(c, IF cl[c].LEAVING THEN finish(cl[c], "out", "detached", 0)
              ELSE finish(cl[c], "out", "lost", 1))
    /\ Quietly

-----------------------------------------------------------------------------
(* The supervisor of a session.                                             *)
Registered(s) == {c \in Clients : cl[c].sess = s /\ srv[c].at = "serve"}
\* Bytes for a set of clients.
Push(S, bytes) == up' = [c \in Clients |-> IF c \in S THEN up[c] \o bytes ELSE up[c]]
Shut(S) == cut' = [c \in Clients |-> IF c \in S THEN cut[c] \cup {"up"} ELSE cut[c]]
Leave(S) == srv' = [c \in Clients |-> IF c \in S THEN [srv[c] EXCEPT !.at = "gone"]
                                     ELSE srv[c]]

harness_writes(s, tok) ==
    /\ ~over[s] /\ Move
    /\ wrote' = [wrote EXCEPT ![s] = Append(@, tok)]
    /\ pty' = [pty EXCEPT ![s] = @ \o tok.bytes]
    /\ UNCHANGED <<filter, ring, fan, over, cl, wireVars, srv, got, bridges, given>>

\* A read goes through the filter to the ring.
serve(s) ==
    /\ ~over[s] /\ fan[s] = <<>> /\ pty[s] # <<>>
    /\ \E n \in ReadSizes :
         LET f == feed(filter[s], Take(pty[s], n))
         IN  /\ pty' = [pty EXCEPT ![s] = Skip(@, n)]
             /\ filter' = [filter EXCEPT ![s] = [f EXCEPT !.out = <<>>, !.dropped = <<>>]]
             /\ ring' = [ring EXCEPT ![s] = @ \o f.out]
             /\ fan' = [fan EXCEPT ![s] = f.out]
    /\ UNCHANGED <<wrote, over, cl, wireVars, srv, got, bridges, given, moves>>
\* And then to those in the list.
broadcast(s) ==
    /\ ~over[s] /\ fan[s] # <<>>
    /\ Push(Registered(s), FlattenSeq(chunks(OUTPUT, fan[s])))
    /\ srv' = [c \in Clients |-> IF c \in Registered(s)
                                   THEN [srv[c] EXCEPT !.due = @ \o fan[s]]
                                 ELSE srv[c]]
    /\ fan' = [fan EXCEPT ![s] = <<>>]
    /\ UNCHANGED <<wrote, pty, filter, ring, over, cl, down, cut, got, bridges, given,
                   moves>>

\* The harness ended and its output was pumped: everyone is told, last.
finish_session(s, reason) ==
    /\ ~over[s] /\ pty[s] = <<>> /\ fan[s] = <<>> /\ Move
    /\ over' = [over EXCEPT ![s] = TRUE]
    /\ Push(Registered(s), encode(CLOSED, <<Code(reason)>>))
    /\ Shut(Registered(s)) /\ Leave(Registered(s))
    /\ UNCHANGED <<wrote, pty, filter, ring, fan, cl, down, got, bridges, given>>
\* The supervisor is killed: the sockets close and nobody is told.
supervisor_dies(s) ==
    /\ ~over[s] /\ Move
    /\ over' = [over EXCEPT ![s] = TRUE]
    /\ Shut(Registered(s)) /\ Leave(Registered(s))
    /\ UNCHANGED <<wrote, pty, filter, ring, fan, cl, up, down, got, bridges, given>>

Serving(c) == srv[c].at \in {"hello", "serve"}
client_read(c) ==
    /\ Serving(c) /\ pop(srv[c].dec).used = 0 /\ down[c] # <<>>
    /\ \E n \in ReadSizes :
         /\ srv' = [srv EXCEPT ![c].dec = @ \o Take(down[c], n)]
         /\ down' = [down EXCEPT ![c] = Skip(@, n)]
    /\ UNCHANGED <<sessVars, cl, up, cut, got, bridges, given, moves>>

\* What the ring holds.
snapshot(s) == Skip(ring[s], IF Len(ring[s]) > RingCap THEN Len(ring[s]) - RingCap ELSE 0)
\* The hello: what the ring holds, or nothing while the alternate screen is on,
\* which is left open; a replay of nothing is no frame.
first_frame(c) ==
    LET f == pop(srv[c].dec)
        s == cl[c].sess
    IN  /\ srv[c].at = "hello" /\ f.used > 0 /\ f.kind = HELLO /\ ~over[s]
        /\ \E replay \in {snapshot(s), <<>>} :
             /\ srv' = [srv EXCEPT ![c] = [at |-> "replayed", dec |-> Skip(@.dec, f.used),
                                           due |-> replay, upto |-> Len(ring[s]),
                                           from |-> Len(ring[s]) - Len(replay), since |-> 0]]
             /\ IF replay = <<>> THEN UNCHANGED up
                ELSE Push({c}, FlattenSeq(chunks(OUTPUT, replay)))
        /\ UNCHANGED <<sessVars, cl, down, cut, got, bridges, given, moves>>
\* Its place in the list comes later, and the output of the time between is sent
\* to nobody; a read that is in the ring and not yet on its way is sent twice.
register(c) ==
    /\ srv[c].at = "replayed" /\ ~over[cl[c].sess]
    /\ srv' = [srv EXCEPT ![c].at = "serve",
                          ![c].since = Len(ring[cl[c].sess]) - Len(fan[cl[c].sess])]
    /\ UNCHANGED <<sessVars, cl, wireVars, got, bridges, given, moves>>

\* A client that comes while the session ends is refused, or loses its
\* connection with the process.
reject(c) ==
    /\ srv[c].at \in {"hello", "replayed"} /\ over[cl[c].sess]
    /\ \/ UNCHANGED up
       \/ /\ srv[c].at = "hello" /\ pop(srv[c].dec).used > 0
          /\ Push({c}, encode(CLOSED, <<Code("protocol")>>))
    /\ Shut({c}) /\ Leave({c})
    /\ UNCHANGED <<sessVars, cl, down, got, bridges, given, moves>>

client_frame(c) ==
    LET f == pop(srv[c].dec)
        left == IF f.kind = DETACH THEN "detached" ELSE "serve"
    IN  /\ srv[c].at = "serve" /\ f.used > 0
        /\ srv' = [srv EXCEPT ![c].at = left, ![c].dec = Skip(@, f.used)]
        /\ got' = [got EXCEPT ![c] =
                     @ \o CASE f.kind = INPUT  -> AsInput(f.payload)
                            [] f.kind = RESIZE -> decode_resize(f.payload)
                            [] OTHER           -> <<>>]
        /\ IF f.kind = DETACH THEN Shut({c}) ELSE UNCHANGED cut
        /\ UNCHANGED <<sessVars, cl, up, down, bridges, given, moves>>
client_eof(c) ==
    /\ Serving(c) /\ pop(srv[c].dec).used = 0 /\ down[c] = <<>> /\ "down" \in cut[c]
    /\ srv' = [srv EXCEPT ![c].at = "gone"]
    /\ Shut({c})
    /\ UNCHANGED <<sessVars, cl, up, down, got, bridges, given, moves>>

\* The harness's side of the PTY is gone: a client that types is left.
pty_write_fails(c) ==
    LET f == pop(srv[c].dec)
    IN  /\ srv[c].at = "serve" /\ f.used > 0 /\ f.kind = INPUT
        /\ Move
        /\ Shut({c}) /\ Leave({c})
        /\ UNCHANGED <<sessVars, cl, up, down, got, bridges, given>>

-----------------------------------------------------------------------------
(* The user: at a tab's keyboard, and in the app, whose commands hold the   *)
(* engine one at a time.                                                    *)
Gave(c, what) == given' = [given EXCEPT ![c] = @ \o what]
\* What is typed after the detach key is not for the session.
type_keys(c, bytes) ==
    /\ Running(c) /\ ~cl[c].eof /\ Move
    /\ Set(c, [cl[c] EXCEPT !.stdin = @ \o bytes])
    /\ Gave(c, AsInput(bytes))
    /\ UNCHANGED <<sessVars, wireVars, srv, got, bridges>>
end_stdin(c) ==
    /\ Running(c) /\ ~cl[c].eof /\ Move
    /\ Set(c, [cl[c] EXCEPT !.eof = TRUE])
    /\ UNCHANGED <<sessVars, wireVars, srv, got, bridges, given>>

\* A bridge that is closed: its input ends, then it is killed and waited for.
Closing == {c \in Hosts : cl[c].eof /\ cl[c].main # "gone"}
EngineFree == Closing = {}
close(S) == [c \in Clients |-> IF c \in S /\ Running(c) THEN [cl[c] EXCEPT !.eof = TRUE]
                              ELSE cl[c]]
kill(c) ==
    /\ c \in Closing
    /\ Gone(c, "killed", 137)
    /\ UNCHANGED <<sessVars, up, down, srv, got, bridges, given, moves>>

\* The session's own stale bridge is closed, no other.
insert(s, c, attach) ==
    /\ cl' = [close({bridges[s]}) EXCEPT ![c] = attach]
    /\ bridges' = [bridges EXCEPT ![s] = c]
session_terminal_open(s, c) ==
    /\ EngineFree /\ c \in Hosts /\ cl[c].main = "off" /\ Move
    /\ insert(s, c, [Fresh EXCEPT !.sess = s, !.main = "connect"])
    /\ UNCHANGED <<sessVars, wireVars, srv, got, given>>

\* A frame for a bridge whose process is gone is dropped.
write_frame(c, frame, what) ==
    IF Running(c) THEN Set(c, [cl[c] EXCEPT !.stdin = @ \o frame]) /\ Gave(c, what)
    ELSE UNCHANGED <<cl, given>>
\* A frame for a session with no bridge is an error.
write(s, frame, what) ==
    /\ EngineFree /\ bridges[s] # NoClient /\ Move
    /\ write_frame(bridges[s], frame, what)
    /\ UNCHANGED <<sessVars, wireVars, srv, got, bridges>>
session_terminal_input(s, bytes) == write(s, host_input(bytes), AsInput(bytes))
session_terminal_resize(s, w) == write(s, host_resize(w, w), <<<<"size", w, w>>>>)

remove(s) ==
    /\ cl' = close({bridges[s]})
    /\ bridges' = [bridges EXCEPT ![s] = NoClient]
session_terminal_close(s) ==
    /\ EngineFree /\ bridges[s] # NoClient /\ Move
    /\ remove(s)
    /\ UNCHANGED <<sessVars, wireVars, srv, got, given>>
\* The app quits.
close_all ==
    /\ EngineFree /\ bridges # [s \in Sessions |-> NoClient] /\ Move
    /\ cl' = close(Range(bridges))
    /\ bridges' = [s \in Sessions |-> NoClient]
    /\ UNCHANGED <<sessVars, wireVars, srv, got, given>>

-----------------------------------------------------------------------------
AttachStep(c) ==
    \/ connect(c) \/ raw_mode(c) \/ save(c) \/ install(c) \/ hello(c)
    \/ send_resize(c) \/ read_stdin(c) \/ read_eof(c) \/ host_input_loop(c) \/ send(c) \/ leaving(c) \/ detach(c)
    \/ sleep(c) \/ output_frame(c) \/ output_read(c) \/ output_eof(c)
    \/ \E t \in Enders : restore_terminal(c, t) \/ exit(c, t)
SupervisorStep ==
    \/ \E s \in Sessions : \/ serve(s) \/ broadcast(s) \/ supervisor_dies(s)
                           \/ \E tok \in Tokens : harness_writes(s, tok)
                           \/ \E r \in Reasons : finish_session(s, r)
    \/ \E c \in Clients : \/ client_read(c) \/ first_frame(c) \/ register(c) \/ reject(c)
                          \/ client_frame(c) \/ client_eof(c) \/ pty_write_fails(c)
TabStep(c) ==
    \/ end_stdin(c) \/ \E b \in Keys : type_keys(c, b)
    \/ \E w \in Sizes : on_winch(c, w)
    \/ \E s \in Sessions : open_tab(c, s)
AppStep ==
    \/ \E s \in Sessions : \/ session_terminal_close(s)
                           \/ \E c \in Hosts : session_terminal_open(s, c)
                           \/ \E b \in Keys : session_terminal_input(s, b)
                           \/ \E w \in Sizes : session_terminal_resize(s, w)
    \/ close_all
    \/ \E c \in Hosts : kill(c)

TerminalNext ==
    \/ SupervisorStep \/ AppStep \/ \E c \in Tabs : TabStep(c)
    \/ \E c \in Clients : AttachStep(c) \/ on_hangup(c)
TerminalSpec == TerminalInit /\ [][TerminalNext]_termVars

-----------------------------------------------------------------------------
\* What a harness's writes leave on a screen: the sequences that act on the
\* host are gone, what draws is there to the byte.
Drawn(s) == FlattenSeq([i \in DOMAIN wrote[s] |-> wrote[s][i].drawn])

\* What a client of a session is to see of it: what the ring held at its hello,
\* and all that followed its place in the list.
ToSee(c) ==
    LET d == Drawn(cl[c].sess)
    IN  Skip(Take(d, srv[c].upto), srv[c].from) \o Skip(d, srv[c].since)

\* Wherever the reads of the PTY and of the socket cut the output, and whatever
\* was lost or sent twice between the replay and the registration, a terminal
\* has shown a part of two unbroken pieces of what the harness drew, from their
\* start and in order; and both of them whole when it ends because the session
\* ended (vt_filter.rs feed, server.rs client_thread and broadcast, wire.rs
\* Decoder, attach.rs output_loop).
ScreenIsWhatWasDrawn ==
    \A c \in Clients : cl[c].main # "off" =>
        /\ IsPrefix(cl[c].screen, ToSee(c))
        /\ cl[c].said \in Reasons => cl[c].screen = ToSee(c)

\* The input a tab's user meant for the session: up to the detach key.
Meant(c) ==
    LET at == position(given[c], <<"in", DETACH_KEY>>)
    IN  IF c \in Tabs /\ at > 0 THEN Take(given[c], at - 1) ELSE given[c]
\* A tab's window sizes are sent when they are noticed, not in order with keys.
Compared(c) ==
    IF c \in Tabs
      THEN FlattenSeq([i \in DOMAIN got[c] |->
                         IF got[c][i][1] = "in" THEN <<got[c][i]>> ELSE <<>>])
      ELSE got[c]

\* The session is given what the user of a terminal gave it, in order and
\* nothing else: no other session's frames and nothing from the detach key
\* on; and when it saw that client detach, all of it (attach.rs input_loop
\* and host_input_loop, embed.rs Bridges).
InputIsWhatWasGiven ==
    \A c \in Clients :
        /\ IsPrefix(Compared(c), Meant(c))
        /\ srv[c].at = "detached" => Compared(c) = Meant(c)

\* A user whose detach the session honoured is never told that the
\* connection was lost (attach.rs:37, LEAVING).
LeaveIsHonest ==
    \A c \in Clients : cl[c].said = "lost" => srv[c].at # "detached"

\* The user's terminal is left as it was found, unless two threads ended the
\* process, or a signal killed it before its handlers were there: then it had
\* shown nothing and the session was given nothing of it (attach.rs RawGuard,
\* raw_mode, install, finish, on_hangup).
TerminalGivenBack ==
    \A c \in Clients :
        (cl[c].main = "gone" /\ cl[c].tty = "raw")
            => \/ Cardinality({t \in Enders : cl[c].ending[t].at # "no"}) > 1
               \/ cl[c].said = "killed" /\ cl[c].screen = <<>> /\ got[c] = <<>>
=============================================================================
