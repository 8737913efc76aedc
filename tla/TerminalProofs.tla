--------------------------- MODULE TerminalProofs ---------------------------
(***************************************************************************)
(* The safety of Terminal, for any sessions, tabs, harness writes, keys,   *)
(* read sizes, payload limits, ring sizes and number of moves.             *)
(*                                                                         *)
(* The invariant TerminalIInv says of each client, each session and each   *)
(* bridge what has been put in, what is on the way and what came out, and  *)
(* of a session's output what is due to each client: two pieces of it and  *)
(* the seam between them (SeamOk).  TtyInv says of each attach how the     *)
(* terminal it runs on is left.                                            *)
(***************************************************************************)
EXTENDS StreamProofs

-----------------------------------------------------------------------------
(* The state of one terminal: its attach a, the bytes u and d on the way to *)
(* it and from it, the ends k of its socket that are shut, the supervisor's *)
(* thread v for it, what the session was given g and what the user gave i.  *)

\* Whatever the attach of the app has read, it makes frames of.
LEMMA DecodeType ==
    ASSUME NEW buf \in Bytes, decode_frame(buf).used # 0
    PROVE  decode_frame(buf).frames \in Seq(Bytes) /\ Skip(buf, decode_frame(buf).used) \in Bytes
<1>1. buf \in Seq(Nat) /\ Len(buf) \in Nat
  BY DEF Bytes
<1>2. ~(Len(buf) < 5 \/ buf[1] \notin {TAG_INPUT, TAG_RESIZE})
  BY DEF decode_frame
<1>3. buf[2] \in Nat /\ buf[3] \in Nat /\ buf[4] \in Nat /\ buf[5] \in Nat
  BY <1>1, <1>2
<1>4. PICK l \in Nat : l = IF buf[1] = TAG_INPUT THEN be16(buf[4], buf[5]) ELSE 0
  BY <1>3 DEF be16
<1>5. ~(Len(buf) < 5 + l)
  BY <1>2, <1>4 DEF decode_frame
<1>6. /\ decode_frame(buf).used = 5 + l
      /\ decode_frame(buf).frames =
            IF buf[1] = TAG_RESIZE
              THEN <<encode_resize(be16(buf[2], buf[3]), be16(buf[4], buf[5]))>>
            ELSE IF SubSeq(buf, 6, 5 + l) = <<>> THEN <<>> ELSE chunks(INPUT, SubSeq(buf, 6, 5 + l))
  BY <1>2, <1>4, <1>5 DEF decode_frame
<1>7. Skip(buf, decode_frame(buf).used) \in Bytes
  BY <1>6, CutBytes
<1>8. CASE buf[1] = TAG_RESIZE
  <2>1. PICK m \in Nat, n \in Nat : m = be16(buf[2], buf[3]) /\ n = be16(buf[4], buf[5])
    BY <1>3 DEF be16
  <2>2. Sized(m, n) \in DownM
    BY DEF DownM
  <2>5. Sized(m, n).code = encode_resize(m, n)
    BY DEF Sized
  <2>3. encode_resize(m, n) \in Bytes
    BY <2>2, <2>5, DownParts
  <2>4. decode_frame(buf).frames = <<encode_resize(m, n)>>
    BY <1>6, <1>8, <2>1
  <2> QED BY <1>7, <2>3, <2>4
<1>9. CASE buf[1] # TAG_RESIZE
  <2>1. PICK b \in Bytes : b = SubSeq(buf, 6, 5 + l)
    <3>1. 6 \in 1..(Len(buf) + 1) /\ 5 + l \in (6 - 1)..Len(buf)
      BY <1>1, <1>2, <1>4, <1>5
    <3>2. SubSeq(buf, 6, 5 + l) \in Seq(Nat)
      BY <1>1, <3>1, SubSeqProperties
    <3> QED BY <3>2 DEF Bytes
  <2>2. b # <<>> => chunks(INPUT, b) \in Seq(Bytes)
    BY ChunksQueue, QueueFirst
  <2>3. <<>> \in Seq(Bytes)
    OBVIOUS
  <2> QED BY <1>6, <1>7, <1>9, <2>1, <2>2, <2>3
<1> QED BY <1>8, <1>9

\* Which of its steps a terminal is at, and what it then has.
Stages(c, a, v, k) ==
    /\ a.main \notin {"send", "ending", "gone"} => a.todo = <<>>
    /\ a.main = "send" => a.next \in IF c \in Tabs THEN {"loop", "leave"} ELSE {"parse"}
    /\ a.main \in {"raw", "save", "loop"} => c \in Tabs
    /\ a.main = "parse" => c \notin Tabs
    /\ a.main = "read" /\ c \notin Tabs => decode_frame(a.buf).used = 0
    /\ a.main \in {"off", "connect", "raw", "save", "install", "hello"} =>
           a.buf = <<>> /\ a.out = "none"
    /\ a.main \in {"off", "connect"} => v.at = "none"
    /\ a.main # "off" => a.sess \in Sessions
    /\ a.main = "detach" => a.LEAVING
    /\ "up" \in k <=> v.at \in {"detached", "gone"}
\* Nobody is told that the connection was lost who was not left, and only the
\* output thread tells why the session ended.
Honest(a, v) ==
    /\ a.said = "lost" => v.at = "gone"
    /\ \A t \in Enders : a.ending[t].said = "lost" => v.at = "gone"
    /\ a.ending["main"].said \notin Reasons /\ a.ending["signal"].said \notin Reasons
\* Nothing has happened yet.
Unused(a, u, d, k, v, g, i) ==
    /\ a = Fresh /\ v = Unserved /\ u = <<>> /\ d = <<>> /\ g = <<>> /\ i = <<>> /\ k = {}
Good(c, a, u, d, k, v, g, i, r, q) ==
    /\ Stages(c, a, v, k) /\ Honest(a, v)
    /\ a.main = "off" => Unused(a, u, d, k, v, g, i)
    /\ InputOk(c, a, d, v, g, i)
    /\ a.main # "off" => OutputOk(a, u, v, r, q)

\* A step of the attach that leaves what it is shown alone.
LEMMA ShownStill ==
    ASSUME NEW a, NEW b, NEW u, NEW v, NEW x, NEW r, NEW q, NEW p, OutputOk(a, u, v, r, q),
           b.screen = a.screen, Live(b) => Live(a) /\ b.dec = a.dec, Knows(b) => Knows(a), q => p,
           \/ x.at = v.at \/ x.at \in {"gone", "detached"}
           \/ v.at = "none" /\ x.at = "hello"
           \/ v.at = "replayed" /\ x.at = "serve"
    PROVE  OutputOk(b, u, x, r, p)
<1>1. ASSUME Live(b) PROVE \E w, z, e : Shows(b, u, x, r, p, w, z, e)
  <2>1. PICK w, z, e : Shows(a, u, v, r, q, w, z, e)
    BY <1>1 DEF OutputOk
  <2>2. Shows(b, u, x, r, p, w, z, e)
    BY <1>1, <2>1 DEF Shows
  <2> QED BY <2>2
<1> QED BY <1>1 DEF OutputOk

\* A step of the attach that leaves the streams and what it says alone.
LEMMA AttachOk ==
    ASSUME NEW c, NEW a, NEW b, NEW u, NEW d, NEW k, NEW v, NEW g, NEW i, NEW r, NEW q,
           Good(c, a, u, d, k, v, g, i, r, q), Stages(c, b, v, k), Honest(b, v),
           Still(a, b), a.main # "off", b.main # "off", b.screen = a.screen,
           Live(b) => Live(a) /\ b.dec = a.dec, Knows(b) => Knows(a)
    PROVE  Good(c, b, u, d, k, v, g, i, r, q)
<1>1. InputOk(c, b, d, v, g, i)
  BY StillOk DEF Good
<1>2. OutputOk(a, u, v, r, q)
  BY DEF Good
<1>3. OutputOk(b, u, v, r, q)
  BY <1>2, ShownStill
<1> QED BY <1>1, <1>3 DEF Good

\* A thread's way out.
LEMMA FinishType ==
    ASSUME NEW a \in Attach, NEW t \in Enders, NEW s \in Saids, NEW n \in Nat, NEW b,
           b = finish(a, t, s, n)
    PROVE  /\ b \in Attach
           /\ b.main = (IF t = "main" THEN "ending" ELSE a.main)
           /\ b.out = (IF t = "out" THEN "ending" ELSE a.out)
           /\ b.ending[t].said = s /\ \A e \in Enders \ {t} : b.ending[e] = a.ending[e]
           /\ b.sess = a.sess /\ b.stdin = a.stdin /\ b.eof = a.eof /\ b.buf = a.buf
           /\ b.todo = a.todo /\ b.next = a.next /\ b.dec = a.dec /\ b.screen = a.screen
           /\ b.LEAVING = a.LEAVING /\ b.said = a.said
<1>1. b \in Attach
  <2>1. a.ending \in [Enders -> Endings] /\ [at |-> "swap", said |-> s, code |-> n] \in Endings
    BY DEF Attach, Endings
  <2>2. PICK e \in [Enders -> Endings] :
            e = [a.ending EXCEPT ![t] = [at |-> "swap", said |-> s, code |-> n]]
    BY <2>1
  <2>3. PICK m \in Mains : m = IF t = "main" THEN "ending" ELSE a.main
    BY DEF Attach, Mains
  <2>4. b = [a EXCEPT !.ending = e, !.main = m, !.out = IF t = "out" THEN "ending" ELSE @]
    BY <2>2, <2>3 DEF finish, Attach
  <2> QED BY <2>4 DEF Attach
<1>2. /\ b.main = (IF t = "main" THEN "ending" ELSE a.main)
      /\ b.out = (IF t = "out" THEN "ending" ELSE a.out)
  BY DEF Attach, finish
<1>3. b.ending[t].said = s /\ \A e \in Enders \ {t} : b.ending[e] = a.ending[e]
  BY DEF Attach, finish
<1>4. /\ b.sess = a.sess /\ b.stdin = a.stdin /\ b.eof = a.eof /\ b.buf = a.buf
      /\ b.todo = a.todo /\ b.next = a.next /\ b.dec = a.dec /\ b.screen = a.screen
      /\ b.LEAVING = a.LEAVING /\ b.said = a.said
  BY DEF Attach, finish
<1> QED BY <1>1, <1>2, <1>3, <1>4
\* It tells nothing of the session.
LEMMA FinishOk ==
    ASSUME NEW c, NEW a \in Attach, NEW u, NEW d, NEW k, NEW v, NEW g, NEW i, NEW r, NEW q,
           Good(c, a, u, d, k, v, g, i, r, q), NEW t \in Enders, NEW s \in Saids, NEW n \in Nat,
           s \notin Reasons, s = "lost" => v.at = "gone", a.main \notin {"off", "gone"},
           t = "out" => a.out = "run", NEW b, b = finish(a, t, s, n)
    PROVE  Good(c, b, u, d, k, v, g, i, r, q) /\ b \in Attach
<1>1. /\ b \in Attach /\ b.main = (IF t = "main" THEN "ending" ELSE a.main)
      /\ b.out = (IF t = "out" THEN "ending" ELSE a.out)
      /\ b.ending[t].said = s /\ \A e \in Enders \ {t} : b.ending[e] = a.ending[e]
      /\ b.sess = a.sess /\ b.stdin = a.stdin /\ b.eof = a.eof /\ b.buf = a.buf
      /\ b.todo = a.todo /\ b.next = a.next /\ b.dec = a.dec /\ b.screen = a.screen
      /\ b.LEAVING = a.LEAVING /\ b.said = a.said
  BY FinishType
<1>2. Stages(c, a, v, k) /\ Honest(a, v)
  BY DEF Good
<1>3. Stages(c, b, v, k)
  BY <1>1, <1>2 DEF Stages
<1>4. Enders = {"main", "out", "signal"}
  BY DEF Enders
<1>5. Honest(b, v)
  BY <1>1, <1>2, <1>4 DEF Honest
<1>6. Still(a, b)
  BY <1>1 DEF Still, Goes, Leaves, Past
<1>7. (Live(b) => Live(a)) /\ b.main # "off"
  BY <1>1 DEF Live
<1>8. Knows(b) => Knows(a)
  BY <1>1, <1>4 DEF Knows
<1> QED BY <1>1, <1>3, <1>5, <1>6, <1>7, <1>8, AttachOk

\* The process is gone.
Departed(a, s, n) == [a EXCEPT !.main = "gone", !.out = "none", !.said = s, !.code = n]

\* An attach that is gone is a client still.
LEMMA GoneType ==
    ASSUME NEW a \in Attach, NEW s \in Saids, NEW n \in Nat, NEW b, b = Departed(a, s, n)
    PROVE  /\ b \in Attach /\ b.main = "gone" /\ b.out = "none" /\ b.said = s
           /\ b.ending = a.ending /\ b.sess = a.sess /\ b.stdin = a.stdin /\ b.eof = a.eof
           /\ b.buf = a.buf /\ b.todo = a.todo /\ b.next = a.next /\ b.dec = a.dec
           /\ b.screen = a.screen /\ b.LEAVING = a.LEAVING
<1>1. b \in Attach
  BY DEF Attach, Mains, Departed
<1>2. /\ b.main = "gone" /\ b.out = "none" /\ b.said = s
      /\ b.ending = a.ending /\ b.sess = a.sess /\ b.stdin = a.stdin /\ b.eof = a.eof
      /\ b.buf = a.buf /\ b.todo = a.todo /\ b.next = a.next /\ b.dec = a.dec
      /\ b.screen = a.screen /\ b.LEAVING = a.LEAVING
  BY DEF Attach, Departed
<1> QED BY <1>1, <1>2
\* It says what one of its threads did, or that it was killed.
LEMMA AwayOk ==
    ASSUME NEW c, NEW a \in Attach, NEW u, NEW d, NEW k, NEW l, NEW v, NEW g, NEW i, NEW r, NEW q,
           Good(c, a, u, d, k, v, g, i, r, q), a.main \notin {"off", "gone"}, NEW s \in Saids,
           NEW n \in Nat, l = k \cup {"down"}, NEW b, b = Departed(a, s, n),
           s = "killed" \/ \E t \in Enders : s = a.ending[t].said
    PROVE  Good(c, b, u, d, l, v, g, i, r, q) /\ b \in Attach
<1>1. /\ b \in Attach /\ b.main = "gone" /\ b.out = "none" /\ b.said = s
      /\ b.ending = a.ending /\ b.sess = a.sess /\ b.stdin = a.stdin /\ b.eof = a.eof
      /\ b.buf = a.buf /\ b.todo = a.todo /\ b.next = a.next /\ b.dec = a.dec
      /\ b.screen = a.screen /\ b.LEAVING = a.LEAVING
  BY GoneType
<1>2. Stages(c, a, v, k) /\ Honest(a, v)
  BY DEF Good
<1>3. Stages(c, b, v, k) /\ Stages(c, b, v, l)
  BY <1>1, <1>2 DEF Stages
<1>4. Enders = {"main", "out", "signal"}
  BY DEF Enders
<1>5. "killed" \notin Reasons /\ "lost" \notin Reasons
  BY TerminalAssumption
<1>6. Honest(b, v)
  BY <1>1, <1>2, <1>5 DEF Honest
<1>7. Still(a, b)
  BY <1>1 DEF Still, Goes, Leaves, Past
<1>8. ~Live(b) /\ b.main # "off"
  BY <1>1 DEF Live
<1>9. Knows(b) => Knows(a)
  BY <1>1, <1>2, <1>4, <1>5 DEF Knows, Honest
<1>10. Good(c, b, u, d, k, v, g, i, r, q)
  BY <1>1, <1>3, <1>6, <1>7, <1>8, <1>9, AttachOk
<1> QED BY <1>1, <1>3, <1>8, <1>10 DEF Good

-----------------------------------------------------------------------------
(* The invariant.                                                           *)
Shuts == SUBSET {"up", "down"}
TerminalTypeOk ==
    /\ wrote \in [Sessions -> Seq(Tokens)] /\ pty \in [Sessions -> Bytes]
    /\ filter \in [Sessions -> Filters] /\ ring \in [Sessions -> Bytes]
    /\ fan \in [Sessions -> Bytes] /\ over \in [Sessions -> BOOLEAN]
    /\ cl \in [Clients -> Attach] /\ up \in [Clients -> Bytes] /\ down \in [Clients -> Bytes]
    /\ cut \in [Clients -> Shuts] /\ srv \in [Clients -> Servers]
    /\ got \in [Clients -> Items] /\ given \in [Clients -> Items]
    /\ bridges \in [Sessions -> Hosts \cup {NoClient}] /\ moves \in Nat

\* No more of the session's output will be due to a client, who was sent all.
Full(v, s) == over[s] /\ pty[s] = <<>> /\ v.due = DueOf(v, ring[s])
ClientOk(c) ==
    /\ Good(c, cl[c], up[c], down[c], cut[c], srv[c], got[c], given[c],
            srv[c].due, Full(srv[c], cl[c].sess))
    /\ cl[c].main # "off" => SeamOk(srv[c], ring[cl[c].sess], fan[cl[c].sess])
\* A bridge leads to an attach on its session whose input goes on.
BridgeOk(s, c) == c \in Hosts /\ cl[c].sess = s /\ cl[c].main # "off" /\ ~cl[c].eof
TerminalIInv ==
    /\ TerminalTypeOk
    /\ \A c \in Clients : ClientOk(c)
    /\ \A s \in Sessions : /\ FilterOk(wrote[s], pty[s], filter[s], ring[s])
                           /\ EndOf(fan[s], ring[s])
    /\ \A s \in Sessions : bridges[s] # NoClient => BridgeOk(s, bridges[s])

\* One client, by its parts.
Is(c, a, u, d, k, v, g, i, r, q) ==
    /\ a = cl[c] /\ u = up[c] /\ d = down[c] /\ k = cut[c] /\ v = srv[c] /\ g = got[c]
    /\ i = given[c] /\ r = v.due /\ q = Full(v, a.sess)
    /\ Good(c, a, u, d, k, v, g, i, r, q)

\* The invariant, of one client and its parts.
LEMMA Client ==
    ASSUME TerminalIInv, NEW c \in Clients
    PROVE  \E a \in Attach, u \in Bytes, d \in Bytes, k \in Shuts, v \in Servers, g \in Items,
              i \in Items : \E r, q : Is(c, a, u, d, k, v, g, i, r, q)
<1>1. /\ cl[c] \in Attach /\ up[c] \in Bytes /\ down[c] \in Bytes /\ cut[c] \in Shuts
      /\ srv[c] \in Servers /\ got[c] \in Items /\ given[c] \in Items
  BY DEF TerminalIInv, TerminalTypeOk
<1>2. ClientOk(c)
  BY DEF TerminalIInv
<1>3. Is(c, cl[c], up[c], down[c], cut[c], srv[c], got[c], given[c],
         srv[c].due, Full(srv[c], cl[c].sess))
  BY <1>2 DEF Is, ClientOk
<1> QED BY <1>1, <1>3

\* What is due to a client, in a session.
LEMMA SessionOf ==
    ASSUME TerminalIInv, NEW c \in Clients, NEW a, NEW u, NEW d, NEW k, NEW v \in Servers, NEW g,
           NEW i, NEW r, NEW q, Is(c, a, u, d, k, v, g, i, r, q), a.main # "off"
    PROVE  /\ a.sess \in Sessions /\ r \in Bytes /\ r = v.due /\ q \in BOOLEAN /\ (q => over[a.sess])
           /\ ring[a.sess] \in Bytes /\ fan[a.sess] \in Bytes /\ EndOf(fan[a.sess], ring[a.sess])
           /\ SeamOk(v, ring[a.sess], fan[a.sess])
<1>1. a.sess \in Sessions
  BY DEF Is, Good, Stages
<1>2. /\ ring[a.sess] \in Bytes /\ fan[a.sess] \in Bytes /\ over[a.sess] \in BOOLEAN
      /\ EndOf(fan[a.sess], ring[a.sess])
  BY <1>1 DEF TerminalIInv, TerminalTypeOk
<1>3. r = v.due /\ r \in Bytes /\ q \in BOOLEAN /\ (q => over[a.sess])
  BY <1>1, <1>2 DEF Is, Full, Servers
<1>4. cl[c] = a /\ srv[c] = v
  BY DEF Is
<1>5. SeamOk(v, ring[a.sess], fan[a.sess])
  <2>1. ClientOk(c)
    BY DEF TerminalIInv
  <2> QED BY <1>4, <2>1 DEF ClientOk
<1> QED BY <1>1, <1>2, <1>3, <1>5

\* A step of one client.
Becomes(c, b, f, e, l, x, h, j) ==
    /\ cl' = [cl EXCEPT ![c] = b] /\ up' = [up EXCEPT ![c] = f] /\ down' = [down EXCEPT ![c] = e]
    /\ cut' = [cut EXCEPT ![c] = l] /\ srv' = [srv EXCEPT ![c] = x] /\ got' = [got EXCEPT ![c] = h]
    /\ given' = [given EXCEPT ![c] = j]
\* What it leaves alone.
LEMMA Alone ==
    ASSUME TerminalIInv, NEW c \in Clients, NEW a, NEW u, NEW d, NEW k, NEW v, NEW g, NEW i, NEW r, NEW q,
           Is(c, a, u, d, k, v, g, i, r, q)
    PROVE  /\ cl = [cl EXCEPT ![c] = a] /\ up = [up EXCEPT ![c] = u] /\ down = [down EXCEPT ![c] = d]
           /\ cut = [cut EXCEPT ![c] = k] /\ srv = [srv EXCEPT ![c] = v]
           /\ got = [got EXCEPT ![c] = g] /\ given = [given EXCEPT ![c] = i]
BY DEF Is, TerminalIInv, TerminalTypeOk

\* The invariant is kept when it is kept of that client.
LEMMA OneClient ==
    ASSUME TerminalIInv, NEW c \in Clients,
           NEW b \in Attach, NEW f \in Bytes, NEW e \in Bytes, NEW l \in Shuts, NEW x \in Servers,
           NEW h \in Items, NEW j \in Items,
           Becomes(c, b, f, e, l, x, h, j), Good(c, b, f, e, l, x, h, j, x.due, Full(x, b.sess)),
           b.main # "off" => SeamOk(x, ring[b.sess], fan[b.sess]),
           UNCHANGED <<sessVars, bridges>>, moves' \in Nat,
           cl[c].main # "off" => b.sess = cl[c].sess /\ b.main # "off",
           c \in Hosts /\ b.eof => cl[c].eof
    PROVE  TerminalIInv'
<1>1. /\ wrote' = wrote /\ pty' = pty /\ filter' = filter /\ ring' = ring /\ fan' = fan
      /\ over' = over /\ bridges' = bridges
  BY DEF sessVars
<1>2. TerminalTypeOk'
  BY <1>1 DEF TerminalIInv, TerminalTypeOk, Becomes
<1>3. /\ cl'[c] = b /\ up'[c] = f /\ down'[c] = e /\ cut'[c] = l /\ srv'[c] = x /\ got'[c] = h
      /\ given'[c] = j
      /\ \A o \in Clients \ {c} :
            /\ cl'[o] = cl[o] /\ up'[o] = up[o] /\ down'[o] = down[o] /\ cut'[o] = cut[o]
            /\ srv'[o] = srv[o] /\ got'[o] = got[o] /\ given'[o] = given[o]
  BY DEF TerminalIInv, TerminalTypeOk, Becomes
<1>4. ASSUME NEW o \in Clients PROVE ClientOk(o)'
  <2>1. CASE o = c
    BY <1>1, <1>3, <2>1 DEF ClientOk, Full
  <2>2. CASE o # c
    <3>1. ClientOk(o)
      BY DEF TerminalIInv
    <3> QED BY <1>1, <1>3, <2>2, <3>1 DEF ClientOk, Full
  <2> QED BY <2>1, <2>2
<1>5. ASSUME NEW s \in Sessions
      PROVE  FilterOk(wrote[s], pty[s], filter[s], ring[s])' /\ EndOf(fan[s], ring[s])'
  BY <1>1 DEF TerminalIInv
<1>6. ASSUME NEW s \in Sessions, bridges'[s] # NoClient PROVE BridgeOk(s, bridges[s])'
  <2>1. BridgeOk(s, bridges[s])
    BY <1>1, <1>6 DEF TerminalIInv
  <2>2. bridges[s] \in Clients
    BY <2>1 DEF BridgeOk, Clients
  <2> QED BY <1>1, <1>3, <2>1, <2>2 DEF BridgeOk
<1> QED BY <1>2, <1>4, <1>5, <1>6 DEF TerminalIInv

\* The same, by the client's parts.
LEMMA ClientSteps ==
    ASSUME TerminalIInv, NEW c \in Clients, NEW a, NEW u, NEW d, NEW k, NEW v \in Servers, NEW g,
           NEW i, NEW r, NEW q, Is(c, a, u, d, k, v, g, i, r, q), a.main # "off",
           NEW b \in Attach, NEW f \in Bytes, NEW e \in Bytes, NEW l \in Shuts, NEW x \in Servers,
           NEW h \in Items, NEW j \in Items,
           Becomes(c, b, f, e, l, x, h, j), Good(c, b, f, e, l, x, h, j, r, q),
           SameDue(v, x),
           \/ x.at = v.at \/ x.at \in {"gone", "detached"}
           \/ v.at = "none" /\ x.at = "hello",
           UNCHANGED <<sessVars, bridges>>, moves' \in Nat,
           b.sess = a.sess, b.main # "off", c \in Hosts /\ b.eof => a.eof
    PROVE  TerminalIInv'
<1>1. SeamOk(v, ring[a.sess], fan[a.sess]) /\ r = v.due
  BY SessionOf
<1>2. cl[c] = a /\ q = Full(v, a.sess)
  BY DEF Is
<1>3. SeamOk(x, ring[b.sess], fan[b.sess]) /\ DueOf(x, ring[b.sess]) = DueOf(v, ring[b.sess])
  BY <1>1, SeamStill
<1>4. r = x.due /\ q = Full(x, b.sess)
  BY <1>1, <1>2, <1>3 DEF Full, SameDue
<1>5. Good(c, b, f, e, l, x, h, j, x.due, Full(x, b.sess))
  BY <1>4
<1> QED BY <1>2, <1>3, <1>5, OneClient

\* A step of the attach alone.
LEMMA AttachSteps ==
    ASSUME TerminalIInv, NEW c \in Clients, NEW a \in Attach, NEW u \in Bytes, NEW d \in Bytes,
           NEW k \in Shuts, NEW v \in Servers, NEW g \in Items, NEW i \in Items, NEW r, NEW q,
           Is(c, a, u, d, k, v, g, i, r, q), a.main # "off",
           NEW b \in Attach, Set(c, b), Good(c, b, u, d, k, v, g, i, r, q),
           UNCHANGED <<sessVars, wireVars, srv, got, bridges, given>>, moves' \in Nat,
           b.sess = a.sess, b.main # "off", c \in Hosts /\ b.eof => a.eof
    PROVE  TerminalIInv'
<1>1. Becomes(c, b, u, d, k, v, g, i)
  BY Alone DEF Becomes, Set, wireVars
<1> QED BY <1>1, ClientSteps DEF SameDue
\* Or with bytes written.
LEMMA WriteSteps ==
    ASSUME TerminalIInv, NEW c \in Clients, NEW a \in Attach, NEW u \in Bytes, NEW d \in Bytes,
           NEW k \in Shuts, NEW v \in Servers, NEW g \in Items, NEW i \in Items, NEW r, NEW q,
           Is(c, a, u, d, k, v, g, i, r, q), a.main # "off",
           NEW b \in Attach, NEW m \in Bytes, Set(c, b), down' = [down EXCEPT ![c] = @ \o m],
           Good(c, b, u, d \o m, k, v, g, i, r, q), MainRest,
           b.sess = a.sess, b.main # "off", c \in Hosts /\ b.eof => a.eof
    PROVE  TerminalIInv'
<1>1. /\ UNCHANGED <<sessVars, bridges>> /\ moves' \in Nat
      /\ up' = up /\ cut' = cut /\ srv' = srv /\ got' = got /\ given' = given
  BY DEF MainRest, TerminalIInv, TerminalTypeOk
<1>2. PICK n \in Bytes : n = d \o m
  BY JoinBytes
<1>3. down' = [down EXCEPT ![c] = n]
  BY <1>2 DEF Is
<1>5. /\ up = [up EXCEPT ![c] = u] /\ cut = [cut EXCEPT ![c] = k] /\ srv = [srv EXCEPT ![c] = v]
      /\ got = [got EXCEPT ![c] = g] /\ given = [given EXCEPT ![c] = i]
  BY Alone
<1>6. cl' = [cl EXCEPT ![c] = b]
  BY DEF Set
<1>4. Becomes(c, b, u, n, k, v, g, i)
  BY <1>1, <1>3, <1>5, <1>6, Zenon DEF Becomes
<1> QED BY <1>1, <1>2, <1>4, ClientSteps DEF SameDue

-----------------------------------------------------------------------------
(* The steps of an attach.                                                  *)

\* What is known of a client.
LEMMA Known ==
    ASSUME NEW c, NEW a, NEW u, NEW d, NEW k, NEW v, NEW g, NEW i, NEW r, NEW q,
           Is(c, a, u, d, k, v, g, i, r, q)
    PROVE  /\ Good(c, a, u, d, k, v, g, i, r, q) /\ Stages(c, a, v, k) /\ Honest(a, v)
           /\ InputOk(c, a, d, v, g, i) /\ (a.main # "off" => OutputOk(a, u, v, r, q))
           /\ cl[c] = a /\ up[c] = u /\ down[c] = d /\ cut[c] = k /\ srv[c] = v
           /\ r = v.due /\ q = Full(v, a.sess) /\ got[c] = g /\ given[c] = i
BY DEF Is, Good
\* The supervisor's thread has read nothing more.
LEMMA OpenStill ==
    ASSUME NEW c, NEW a, NEW b, Still(a, b), NEW g, NEW i, NEW d, NEW v, NEW x,
           x.dec = v.dec, Open(v), Open(x), InputOk(c, a, d, v, g, i)
    PROVE  InputOk(c, b, d, x, g, i)
<1>1. Flows(c, a, d, v, g, i)
  BY DEF InputOk
<1>2. Flows(c, b, d, v, g, i)
  BY <1>1, StillFlows
<1>3. PICK w, t, e : Flow(c, b, d, v, g, i, w, t, e)
  BY <1>2 DEF Flows
<1>4. Flow(c, b, d, x, g, i, w, t, e)
  BY <1>3 DEF Flow
<1> QED BY <1>4 DEF InputOk, Flows

\* What a step leaves alone that only moves the attach on.
SameData(a, b) ==
    /\ b.sess = a.sess /\ b.stdin = a.stdin /\ b.eof = a.eof /\ b.buf = a.buf /\ b.todo = a.todo
    /\ b.dec = a.dec /\ b.screen = a.screen /\ b.said = a.said
    /\ \A t \in Enders : b.ending[t].said = a.ending[t].said
Onward(a, b) ==
    /\ a.main \notin {"off", "gone"} /\ b.main \notin {"off", "gone"} /\ b.out = a.out
    /\ a.LEAVING => b.LEAVING
    /\ Leaves(b) => Leaves(a)
    /\ Leaves(a) => Leaves(b) \/ Past(b)
    /\ Past(a) => Past(b)

\* An attach that goes on keeps what it was good for.
LEMMA OnwardOk ==
    ASSUME NEW c, NEW a, NEW b, NEW u, NEW d, NEW k, NEW v, NEW g, NEW i, NEW r, NEW q,
           Good(c, a, u, d, k, v, g, i, r, q), SameData(a, b), Onward(a, b), Stages(c, b, v, k)
    PROVE  Good(c, b, u, d, k, v, g, i, r, q)
<1>1. Still(a, b)
  BY DEF Still, Goes, SameData, Onward
<1>2. Enders = {"main", "out", "signal"}
  BY DEF Enders
<1>3. Honest(b, v)
  <2>1. Honest(a, v)
    BY DEF Good
  <2> QED BY <1>2, <2>1 DEF Honest, SameData
<1>4. (Live(b) => Live(a) /\ b.dec = a.dec) /\ (Knows(b) => Knows(a))
  BY <1>2 DEF Live, Knows, SameData, Onward
<1>5. a.main # "off" /\ b.main # "off" /\ b.screen = a.screen
  BY DEF SameData, Onward
<1> QED BY <1>1, <1>3, <1>4, <1>5, AttachOk

\* It connects.
LEMMA ConnectStep ==
    ASSUME TerminalIInv, NEW c \in Clients, connect(c)
    PROVE  TerminalIInv'
<1>1. PICK a \in Attach, u \in Bytes, d \in Bytes, k \in Shuts, v \in Servers, g \in Items,
           i \in Items : \E r, q : Is(c, a, u, d, k, v, g, i, r, q)
  BY Client
<1>2. PICK r, q : Is(c, a, u, d, k, v, g, i, r, q)
  BY <1>1
<1>3. a.main = "connect" /\ cl[c] = a /\ srv[c] = v
  BY <1>2, Known DEF connect, Main
<1>4. UNCHANGED <<sessVars, wireVars, got, bridges, given, moves>> /\ moves' \in Nat
  BY DEF connect, TerminalIInv, TerminalTypeOk
<1>5. /\ Good(c, a, u, d, k, v, g, i, r, q) /\ Stages(c, a, v, k) /\ Honest(a, v)
      /\ InputOk(c, a, d, v, g, i) /\ OutputOk(a, u, v, r, q)
  BY <1>2, <1>3, Known
<1>6. CASE over[cl[c].sess]
  <2>1. PICK b : b = finish(a, "main", "not_running", 1)
    OBVIOUS
  <2>2. "main" \in Enders /\ "not_running" \in Saids \ Reasons
    BY TerminalAssumption DEF Enders, Saids
  <2>3. b \in Attach /\ Good(c, b, u, d, k, v, g, i, r, q)
    BY <1>3, <1>5, <2>1, <2>2, FinishOk
  <2>4. b.main = "ending" /\ b.sess = a.sess /\ b.eof = a.eof
    BY <2>1, <2>2, FinishType
  <2>5. Set(c, b) /\ UNCHANGED srv
    BY <1>3, <1>6, <2>1 DEF connect
  <2> QED BY <1>2, <1>3, <1>4, <2>3, <2>4, <2>5, AttachSteps
<1>7. CASE ~over[cl[c].sess]
  <2>1. PICK b : b = [a EXCEPT !.main = IF c \in Tabs THEN "raw" ELSE "install"]
    OBVIOUS
  <2>2. b \in Attach /\ b.main = (IF c \in Tabs THEN "raw" ELSE "install")
    BY <2>1 DEF Attach, Mains
  <2>3. SameData(a, b) /\ b.out = a.out /\ b.LEAVING = a.LEAVING /\ b.next = a.next
    BY <2>1 DEF Attach, SameData
  <2>0. PICK x : x = [v EXCEPT !.at = "hello"]
    OBVIOUS
  <2>4. x \in Servers /\ x.at = "hello" /\ x.dec = v.dec /\ SameDue(v, x)
    BY <2>0 DEF Servers, SameDue
  <2>5. Still(a, b)
    BY <1>3, <2>2, <2>3 DEF Still, Goes, SameData, Leaves, Past
  <2>6. Stages(c, b, x, k)
    BY <1>3, <1>5, <2>2, <2>3, <2>4 DEF Stages, SameData
  <2>7. v.at = "none" /\ Open(v) /\ Open(x)
    BY <1>3, <1>5, <2>4 DEF Stages, Open
  <2>8. Enders = {"main", "out", "signal"}
    BY DEF Enders
  <2>9. Honest(b, x)
    BY <1>5, <2>3, <2>7, <2>8 DEF Honest, SameData
  <2>10. InputOk(c, b, d, x, g, i)
    BY <1>5, <2>4, <2>5, <2>7, OpenStill
  <2>11. (Live(b) => Live(a) /\ b.dec = a.dec) /\ (Knows(b) => Knows(a)) /\ b.screen = a.screen
    BY <1>3, <2>2, <2>3, <2>8 DEF Live, Knows, SameData
  <2>12. OutputOk(b, u, x, r, q)
    BY <1>5, <2>4, <2>7, <2>11, ShownStill
  <2>13. Good(c, b, u, d, k, x, g, i, r, q)
    BY <2>2, <2>6, <2>9, <2>10, <2>12 DEF Good
  <2>14. cl' = [cl EXCEPT ![c] = b] /\ srv' = [srv EXCEPT ![c] = x]
    BY <1>3, <1>7, <2>0, <2>1 DEF connect, Set
  <2>15. Becomes(c, b, u, d, k, x, g, i)
    BY <1>2, <1>4, <2>14, Alone DEF Becomes, wireVars
  <2>16. b.sess = a.sess /\ b.main # "off" /\ b.eof = a.eof
    BY <2>2, <2>3 DEF SameData
  <2> QED BY <1>2, <1>3, <1>4, <2>2, <2>4, <2>7, <2>13, <2>15, <2>16, ClientSteps
<1> QED BY <1>6, <1>7

\* Whatever it is, what it is sent is as it was.
LEMMA AttachIs ==
    ASSUME NEW c, NEW a, NEW b, NEW u, NEW d, NEW e, NEW k, NEW l, NEW v, NEW x, NEW g, NEW h,
           NEW i, NEW j, NEW r, NEW q, Good(c, a, u, d, k, v, g, i, r, q),
           Stages(c, b, x, l), Honest(b, x), InputOk(c, b, e, x, h, j),
           a.main # "off", b.main # "off", b.screen = a.screen,
           Live(b) => Live(a) /\ b.dec = a.dec, Knows(b) => Knows(a),
           \/ x.at = v.at \/ x.at \in {"gone", "detached"}
           \/ v.at = "none" /\ x.at = "hello"
    PROVE  Good(c, b, u, e, l, x, h, j, r, q)
<1>1. OutputOk(a, u, v, r, q)
  BY DEF Good
<1>2. OutputOk(b, u, x, r, q)
  BY <1>1, ShownStill
<1> QED BY <1>2 DEF Good

\* What a step that only moves the attach on keeps.
LEMMA OnwardKeeps ==
    ASSUME NEW a, NEW b, NEW v, SameData(a, b), Honest(a, v), b.out \in {"none", "run"} => Live(a)
    PROVE  /\ Honest(b, v) /\ (Live(b) => Live(a) /\ b.dec = a.dec) /\ (Knows(b) => Knows(a))
           /\ b.screen = a.screen
<1>1. Enders = {"main", "out", "signal"}
  BY DEF Enders
<1> QED BY <1>1 DEF Honest, Live, Knows, SameData

\* A step that does, of the state.
LEMMA OnwardStep ==
    ASSUME TerminalIInv, NEW c \in Clients, NEW a \in Attach, NEW u \in Bytes, NEW d \in Bytes,
           NEW k \in Shuts, NEW v \in Servers, NEW g \in Items, NEW i \in Items, NEW r, NEW q,
           Is(c, a, u, d, k, v, g, i, r, q), NEW b \in Attach, Set(c, b),
           SameData(a, b), Onward(a, b), Stages(c, b, v, k),
           UNCHANGED <<sessVars, wireVars, srv, got, bridges, given>>, moves' \in Nat
    PROVE  TerminalIInv'
<1>1. Good(c, a, u, d, k, v, g, i, r, q)
  BY Known
<1>2. Good(c, b, u, d, k, v, g, i, r, q)
  BY <1>1, OnwardOk
<1>3. a.main # "off" /\ b.main # "off" /\ b.sess = a.sess /\ b.eof = a.eof
  BY DEF Onward, SameData
<1> QED BY <1>2, <1>3, AttachSteps
\* A thread's way out, of the state, after what else the step does.
LEMMA FinishAfter ==
    ASSUME TerminalIInv, NEW c \in Clients, NEW a \in Attach, NEW u \in Bytes, NEW d \in Bytes,
           NEW k \in Shuts, NEW v \in Servers, NEW g \in Items, NEW i \in Items, NEW r, NEW q,
           Is(c, a, u, d, k, v, g, i, r, q), a.main # "off",
           NEW o \in Attach, Good(c, o, u, d, k, v, g, i, r, q), o.main \notin {"off", "gone"},
           o.sess = a.sess, o.eof = a.eof,
           NEW t \in Enders, NEW s \in Saids, NEW n \in Nat, s \notin Reasons,
           s = "lost" => v.at = "gone", t = "out" => o.out = "run", Set(c, finish(o, t, s, n)),
           UNCHANGED <<sessVars, wireVars, srv, got, bridges, given>>, moves' \in Nat
    PROVE  TerminalIInv'
<1>1. PICK b : b = finish(o, t, s, n)
  OBVIOUS
<1>2. b \in Attach /\ Good(c, b, u, d, k, v, g, i, r, q)
  BY <1>1, FinishOk
<1>3. b.main = (IF t = "main" THEN "ending" ELSE o.main) /\ b.sess = o.sess /\ b.eof = o.eof
  BY <1>1, FinishType
<1>4. Set(c, b)
  BY <1>1
<1> QED BY <1>2, <1>3, <1>4, AttachSteps
\* And when it does nothing else.
LEMMA FinishStep ==
    ASSUME TerminalIInv, NEW c \in Clients, NEW a \in Attach, NEW u \in Bytes, NEW d \in Bytes,
           NEW k \in Shuts, NEW v \in Servers, NEW g \in Items, NEW i \in Items, NEW r, NEW q,
           Is(c, a, u, d, k, v, g, i, r, q), a.main \notin {"off", "gone"},
           NEW t \in Enders, NEW s \in Saids, NEW n \in Nat, s \notin Reasons,
           s = "lost" => v.at = "gone", t = "out" => a.out = "run", Set(c, finish(a, t, s, n)),
           UNCHANGED <<sessVars, wireVars, srv, got, bridges, given>>, moves' \in Nat
    PROVE  TerminalIInv'
<1>1. Good(c, a, u, d, k, v, g, i, r, q)
  BY Known
<1> QED BY <1>1, FinishAfter
\* The names of the ways out.
LEMMA Sayings ==
    /\ Enders = {"main", "out", "signal"}
    /\ \A s \in {"", "not_running", "no_raw_mode", "no_hello", "detached", "cannot_write", "lost",
                 "killed", "protocol"} : s \in Saids /\ s \notin Reasons
    /\ \A s \in Reasons : s \in Saids /\ s # "lost"
BY TerminalAssumption DEF Saids, Enders

\* A terminal tab is set to raw mode, or cannot be.
LEMMA RawStep ==
    ASSUME TerminalIInv, NEW c \in Clients, raw_mode(c)
    PROVE  TerminalIInv'
<1>1. PICK a \in Attach, u \in Bytes, d \in Bytes, k \in Shuts, v \in Servers, g \in Items,
           i \in Items : \E r, q : Is(c, a, u, d, k, v, g, i, r, q)
  BY Client
<1>2. PICK r, q : Is(c, a, u, d, k, v, g, i, r, q)
  BY <1>1
<1>3. a.main = "raw" /\ cl[c] = a
  BY <1>2, Known DEF raw_mode, Main
<1>4. UNCHANGED <<sessVars, wireVars, srv, got, bridges, given>> /\ moves' \in Nat
  BY DEF raw_mode, Move, TerminalIInv, TerminalTypeOk
<1>5. Stages(c, a, v, k)
  BY <1>2, Known
<1>6. CASE Set(c, [cl[c] EXCEPT !.tty = "raw", !.main = "save"])
  <2>1. PICK b : b = [a EXCEPT !.tty = "raw", !.main = "save"]
    OBVIOUS
  <2>2. b \in Attach /\ b.main = "save"
    BY <2>1 DEF Attach, Mains
  <2>3. SameData(a, b) /\ b.out = a.out /\ b.LEAVING = a.LEAVING
    BY <2>1 DEF Attach, SameData
  <2>4. Onward(a, b) /\ Stages(c, b, v, k)
    BY <1>3, <1>5, <2>2, <2>3 DEF Onward, Stages, SameData, Leaves, Past
  <2>5. Set(c, b)
    BY <1>3, <1>6, <2>1
  <2> QED BY <1>2, <1>4, <2>2, <2>3, <2>4, <2>5, OnwardStep
<1>7. CASE Set(c, finish(cl[c], "main", "no_raw_mode", 1))
  <2>1. Set(c, finish(a, "main", "no_raw_mode", 1))
    BY <1>3, <1>7
  <2> QED BY <1>2, <1>3, <1>4, <2>1, FinishStep, Sayings
<1> QED BY <1>6, <1>7 DEF raw_mode
\* Its settings are kept.
LEMMA SaveStep ==
    ASSUME TerminalIInv, NEW c \in Clients, save(c)
    PROVE  TerminalIInv'
<1>1. PICK a \in Attach, u \in Bytes, d \in Bytes, k \in Shuts, v \in Servers, g \in Items,
           i \in Items : \E r, q : Is(c, a, u, d, k, v, g, i, r, q)
  BY Client
<1>2. PICK r, q : Is(c, a, u, d, k, v, g, i, r, q)
  BY <1>1
<1>3. a.main = "save" /\ cl[c] = a /\ Stages(c, a, v, k)
  BY <1>2, Known DEF save, Main
<1>4. UNCHANGED <<sessVars, wireVars, srv, got, bridges, given>> /\ moves' \in Nat
  BY DEF save, Quietly, TerminalIInv, TerminalTypeOk
<1>5. PICK b : b = [a EXCEPT !.SAVED = TRUE, !.main = "install"]
  OBVIOUS
<1>6. b \in Attach /\ b.main = "install"
  BY <1>5 DEF Attach, Mains
<1>7. SameData(a, b) /\ b.out = a.out /\ b.LEAVING = a.LEAVING
  BY <1>5 DEF Attach, SameData
<1>8. Onward(a, b) /\ Stages(c, b, v, k)
  BY <1>3, <1>6, <1>7 DEF Onward, Stages, SameData, Leaves, Past
<1>9. Set(c, b)
  BY <1>3, <1>5 DEF save
<1> QED BY <1>2, <1>4, <1>6, <1>7, <1>8, <1>9, OnwardStep
\* Its handlers are there.
LEMMA InstallStep ==
    ASSUME TerminalIInv, NEW c \in Clients, install(c)
    PROVE  TerminalIInv'
<1>1. PICK a \in Attach, u \in Bytes, d \in Bytes, k \in Shuts, v \in Servers, g \in Items,
           i \in Items : \E r, q : Is(c, a, u, d, k, v, g, i, r, q)
  BY Client
<1>2. PICK r, q : Is(c, a, u, d, k, v, g, i, r, q)
  BY <1>1
<1>3. a.main = "install" /\ cl[c] = a /\ Stages(c, a, v, k)
  BY <1>2, Known DEF install, Main
<1>4. UNCHANGED <<sessVars, wireVars, srv, got, bridges, given>> /\ moves' \in Nat
  BY DEF install, Quietly, TerminalIInv, TerminalTypeOk
<1>5. PICK b : b = [a EXCEPT !.main = "hello"]
  OBVIOUS
<1>6. b \in Attach /\ b.main = "hello"
  BY <1>5 DEF Attach, Mains
<1>7. SameData(a, b) /\ b.out = a.out /\ b.LEAVING = a.LEAVING
  BY <1>5 DEF Attach, SameData
<1>8. Onward(a, b) /\ Stages(c, b, v, k)
  BY <1>3, <1>6, <1>7 DEF Onward, Stages, SameData, Leaves, Past
<1>9. Set(c, b)
  BY <1>3, <1>5 DEF install
<1> QED BY <1>2, <1>4, <1>6, <1>7, <1>8, <1>9, OnwardStep

\* It says hello.
LEMMA HelloStep ==
    ASSUME TerminalIInv, NEW c \in Clients, hello(c)
    PROVE  TerminalIInv'
<1>1. PICK a \in Attach, u \in Bytes, d \in Bytes, k \in Shuts, v \in Servers, g \in Items,
           i \in Items : \E r, q : Is(c, a, u, d, k, v, g, i, r, q)
  BY Client
<1>2. PICK r, q : Is(c, a, u, d, k, v, g, i, r, q)
  BY <1>1
<1>3. a.main = "hello" /\ cl[c] = a /\ cut[c] = k
  BY <1>2, Known DEF hello, Main
<1>4. UNCHANGED <<sessVars, up, cut, srv, got, bridges, given, moves>> /\ moves' \in Nat /\ MainRest
  BY DEF hello, MainRest, TerminalIInv, TerminalTypeOk
<1>5. /\ Good(c, a, u, d, k, v, g, i, r, q) /\ Stages(c, a, v, k) /\ Honest(a, v)
      /\ InputOk(c, a, d, v, g, i)
  BY <1>2, Known
<1>6. CASE "up" \in k
  <2>1. Set(c, finish(a, "main", "no_hello", 1)) /\ UNCHANGED down
    BY <1>3, <1>6 DEF hello, write_all
  <2> QED BY <1>2, <1>3, <1>4, <2>1, FinishStep, Sayings DEF wireVars
<1>7. CASE "up" \notin k
  <2>1. PICK b : b = [a EXCEPT !.out = "run", !.main = IF c \in Tabs THEN "loop" ELSE "read"]
    OBVIOUS
  <2>2. b \in Attach /\ b.main = (IF c \in Tabs THEN "loop" ELSE "read")
    BY <2>1 DEF Attach, Mains
  <2>3. SameData(a, b) /\ b.LEAVING = a.LEAVING /\ b.next = a.next
    BY <2>1 DEF Attach, SameData
  <2>4. a.buf = <<>> /\ a.out = "none" /\ a.todo = <<>> /\ Open(v)
    BY <1>3, <1>5, <1>7 DEF Stages, Open, Servers
  <2>5. decode_frame(b.buf).used = 0
    BY <2>3, <2>4, EmptyOnes DEF SameData, decode_frame
  <2>6. Stages(c, b, v, k)
    BY <1>3, <1>5, <2>2, <2>3, <2>5 DEF Stages, SameData
  <2>7. Still(a, b) /\ ~Past(a)
    BY <1>3, <2>2, <2>3 DEF Still, Goes, SameData, Leaves, Past
  <2>8. PICK m \in Bytes : m = encode(HELLO, <<1>>)
    <3>1. Greeting \in DownM /\ Greeting.code = encode(HELLO, <<1>>)
      BY DEF DownM, Greeting
    <3> QED BY <3>1, DownParts
  <2>9. InputOk(c, b, d \o m, v, g, i)
    BY <1>5, <2>4, <2>7, <2>8, HelloOk
  <2>10. Live(a)
    BY <1>3, <2>4 DEF Live
  <2>11. /\ Honest(b, v) /\ (Live(b) => Live(a) /\ b.dec = a.dec) /\ (Knows(b) => Knows(a))
         /\ b.screen = a.screen
    BY <1>5, <2>3, <2>10, OnwardKeeps
  <2>12. a.main # "off" /\ b.main # "off"
    BY <1>3, <2>2
  <2>13. Good(c, b, u, d \o m, k, v, g, i, r, q)
    BY <1>5, <2>6, <2>9, <2>11, <2>12, AttachIs
  <2>14. Set(c, b) /\ down' = [down EXCEPT ![c] = @ \o m]
    BY <1>3, <1>7, <2>1, <2>8 DEF hello, write_all
  <2>15. b.sess = a.sess /\ b.eof = a.eof
    BY <2>3 DEF SameData
  <2> QED BY <1>2, <1>4, <2>2, <2>12, <2>13, <2>14, <2>15, WriteSteps
<1> QED BY <1>6, <1>7

\* A tab's window size goes out first.
LEMMA ResizeStep ==
    ASSUME TerminalIInv, NEW c \in Clients, send_resize(c)
    PROVE  TerminalIInv'
<1>1. PICK a \in Attach, u \in Bytes, d \in Bytes, k \in Shuts, v \in Servers, g \in Items,
           i \in Items : \E r, q : Is(c, a, u, d, k, v, g, i, r, q)
  BY Client
<1>2. PICK r, q : Is(c, a, u, d, k, v, g, i, r, q)
  BY <1>1
<1>3. a.main = "loop" /\ cl[c] = a /\ cut[c] = k /\ srv[c] = v /\ up[c] = u /\ down[c] = d
  <2>1. cl[c].main = "loop"
    BY DEF send_resize, Main
  <2> QED BY <1>2, <2>1, Known
<1>4. UNCHANGED <<sessVars, up, cut, srv, got, bridges, given, moves>> /\ moves' \in Nat /\ MainRest
  BY DEF send_resize, MainRest, TerminalIInv, TerminalTypeOk
<1>5. /\ Good(c, a, u, d, k, v, g, i, r, q) /\ Stages(c, a, v, k) /\ Honest(a, v)
      /\ InputOk(c, a, d, v, g, i) /\ (a.main # "off" => OutputOk(a, u, v, r, q))
  BY <1>2, Known
<1>6. PICK b : b = [a EXCEPT !.RESIZED = FALSE, !.main = "read"]
  OBVIOUS
<1>7. b \in Attach /\ b.main = "read"
  BY <1>6 DEF Attach, Mains
<1>8. SameData(a, b) /\ b.out = a.out /\ b.LEAVING = a.LEAVING
  BY <1>6 DEF Attach, SameData
<1>9. c \in Tabs /\ a.todo = <<>>
  BY <1>3, <1>5 DEF Stages
<1>10. Onward(a, b) /\ Stages(c, b, v, k) /\ Still(a, b) /\ ~Past(a)
  BY <1>3, <1>5, <1>7, <1>8, <1>9 DEF Onward, Stages, SameData, Leaves, Past, Still, Goes
<1>11. Good(c, b, u, d, k, v, g, i, r, q)
  BY <1>5, <1>8, <1>10, OnwardOk
<1>12. a.main # "off" /\ b.main \notin {"off", "gone"} /\ b.sess = a.sess /\ b.eof = a.eof
  BY <1>3, <1>7, <1>8 DEF SameData
<1>13. CASE ~a.RESIZED
  <2>1. Set(c, b) /\ UNCHANGED down
    BY <1>3, <1>6, <1>13 DEF send_resize
  <2> QED BY <1>2, <1>4, <1>7, <1>8, <1>10, <2>1, OnwardStep DEF wireVars
<1>14. CASE a.RESIZED /\ "up" \in k
  <2>0. "main" \in Enders /\ "" \in Saids /\ "" \notin Reasons /\ "" # "lost" /\ "main" # "out"
    BY Sayings
  <2>1. Set(c, finish(b, "main", "", 1)) /\ UNCHANGED down
    BY <1>3, <1>6, <1>14 DEF send_resize, write_all
  <2> QED BY <1>2, <1>4, <1>7, <1>11, <1>12, <2>0, <2>1, FinishAfter DEF wireVars
<1>15. CASE a.RESIZED /\ "up" \notin k
  <2>1. PICK n \in Nat : n = a.win
    BY DEF Attach
  <2>2. PICK m \in Bytes : m = encode_resize(n, n)
    <3>1. Sized(n, n) \in DownM
      BY DEF DownM
    <3>2. Sized(n, n).code = encode_resize(n, n)
      BY DEF Sized
    <3> QED BY <3>1, <3>2, DownParts
  <2>3. Open(v)
    BY <1>5, <1>15 DEF Stages, Open, Servers
  <2>4. InputOk(c, b, d \o m, v, g, i)
    <3>1. InputOk(c, a, d, v, g, i)
      BY <1>5
    <3>2. InputOk(c, b, d \o encode_resize(n, n), v, g, i)
      BY <1>9, <1>10, <2>3, <3>1, ResizeOk
    <3> QED BY <2>2, <3>2
  <2>5. b.out \in {"none", "run"} => Live(a)
    BY <1>3, <1>8 DEF Live
  <2>6. /\ Honest(b, v) /\ (Live(b) => Live(a) /\ b.dec = a.dec) /\ (Knows(b) => Knows(a))
        /\ b.screen = a.screen
    BY <1>5, <1>8, <2>5, OnwardKeeps
  <2>7. Good(c, b, u, d \o m, k, v, g, i, r, q)
    BY <1>5, <1>10, <1>12, <2>4, <2>6, AttachIs
  <2>8. Set(c, b) /\ down' = [down EXCEPT ![c] = @ \o m]
    BY <1>3, <1>6, <1>15, <2>1, <2>2 DEF send_resize, write_all
  <2> QED BY <1>2, <1>4, <1>7, <1>12, <2>7, <2>8, WriteSteps
<1> QED BY <1>13, <1>14, <1>15 DEF Attach

\* A window changes.
LEMMA WinchStep ==
    ASSUME TerminalIInv, NEW c \in Tabs, NEW w \in Sizes, on_winch(c, w)
    PROVE  TerminalIInv'
<1>1. PICK a \in Attach, u \in Bytes, d \in Bytes, k \in Shuts, v \in Servers, g \in Items,
           i \in Items : \E r, q : Is(c, a, u, d, k, v, g, i, r, q)
  BY Client DEF Clients
<1>2. PICK r, q : Is(c, a, u, d, k, v, g, i, r, q)
  BY <1>1
<1>3. a.main \notin {"off", "gone"} /\ cl[c] = a /\ cut[c] = k /\ srv[c] = v /\ up[c] = u /\ down[c] = d
  <2>1. cl[c].main \notin {"off", "gone"}
    BY DEF on_winch, Running
  <2> QED BY <1>2, <2>1, Known
<1>4. UNCHANGED <<sessVars, wireVars, srv, got, bridges, given>> /\ moves' \in Nat
  BY DEF on_winch, Move, TerminalIInv, TerminalTypeOk
<1>5. /\ Good(c, a, u, d, k, v, g, i, r, q) /\ Stages(c, a, v, k) /\ Honest(a, v)
      /\ InputOk(c, a, d, v, g, i) /\ (a.main # "off" => OutputOk(a, u, v, r, q))
  BY <1>2, Known
<1>6. PICK m : /\ m = a.main \/ (a.main = "read" /\ m = "loop")
              /\ Set(c, [cl[c] EXCEPT !.win = w, !.RESIZED = (cl[c].main \in Handlers), !.main = m])
  BY <1>3 DEF on_winch, Blocked, Main
<1>7. PICK b : b = [a EXCEPT !.win = w, !.RESIZED = (a.main \in Handlers), !.main = m]
  OBVIOUS
<1>8. b \in Attach /\ b.main = m
  <2>1. w \in Nat
    BY TerminalAssumption
  <2>2. m \in Mains
    BY <1>6 DEF Attach, Mains
  <2>3. (a.main \in Handlers) \in BOOLEAN
    BY SMT
  <2>4. PICK y \in BOOLEAN : y = (a.main \in Handlers)
    BY <2>3
  <2>5. b = [a EXCEPT !.win = w, !.RESIZED = y, !.main = m]
    BY <1>7, <2>4
  <2> QED BY <2>1, <2>2, <2>5 DEF Attach
<1>9. SameData(a, b) /\ b.out = a.out /\ b.LEAVING = a.LEAVING /\ b.next = a.next
  BY <1>7 DEF Attach, SameData
<1>10. Onward(a, b) /\ Stages(c, b, v, k)
  BY <1>3, <1>5, <1>6, <1>8, <1>9 DEF Onward, Stages, SameData, Leaves, Past
<1>11. Set(c, b)
  BY <1>3, <1>6, <1>7
<1>12. c \in Clients
  BY DEF Clients
<1> QED BY <1>2, <1>4, <1>8, <1>9, <1>10, <1>11, <1>12, OnwardStep

\* The user's input ends.
LEMMA EofStep ==
    ASSUME TerminalIInv, NEW c \in Clients, read_eof(c)
    PROVE  TerminalIInv'
<1>1. PICK a \in Attach, u \in Bytes, d \in Bytes, k \in Shuts, v \in Servers, g \in Items,
           i \in Items : \E r, q : Is(c, a, u, d, k, v, g, i, r, q)
  BY Client
<1>2. PICK r, q : Is(c, a, u, d, k, v, g, i, r, q)
  BY <1>1
<1>3. a.main = "read" /\ a.stdin = <<>> /\ a.eof /\ cl[c] = a /\ cut[c] = k /\ srv[c] = v /\ up[c] = u /\ down[c] = d
  <2>1. cl[c].main = "read" /\ cl[c].stdin = <<>> /\ cl[c].eof
    BY DEF read_eof, Main
  <2> QED BY <1>2, <2>1, Known
<1>4. UNCHANGED <<sessVars, wireVars, srv, got, bridges, given>> /\ moves' \in Nat
  BY DEF read_eof, Quietly, TerminalIInv, TerminalTypeOk
<1>5. /\ Good(c, a, u, d, k, v, g, i, r, q) /\ Stages(c, a, v, k) /\ Honest(a, v)
      /\ InputOk(c, a, d, v, g, i) /\ (a.main # "off" => OutputOk(a, u, v, r, q))
  BY <1>2, Known
<1>6. PICK b : b = [a EXCEPT !.main = "leave"]
  OBVIOUS
<1>7. b \in Attach /\ b.main = "leave"
  BY <1>6 DEF Attach, Mains
<1>8. SameData(a, b) /\ b.out = a.out /\ b.LEAVING = a.LEAVING
  BY <1>6 DEF Attach, SameData
<1>9. Stages(c, b, v, k) /\ a.todo = <<>> /\ (c \notin Tabs => decode_frame(a.buf).used = 0)
  BY <1>3, <1>5, <1>7, <1>8 DEF Stages, SameData
<1>10. /\ InputOk(c, a, d, v, g, i) /\ a.main = "read" /\ a.todo = <<>> /\ a.stdin = <<>> /\ a.eof
       /\ a.buf \in Bytes /\ (c \notin Tabs => decode_frame(a.buf).used = 0)
       /\ b.main = "leave" /\ b.todo = <<>> /\ b.eof /\ (a.LEAVING => b.LEAVING)
  BY <1>3, <1>5, <1>7, <1>8, <1>9 DEF Attach, SameData
<1>11. InputOk(c, b, d, v, g, i)
  BY <1>10, EofOk
<1>12. b.out \in {"none", "run"} => Live(a)
  BY <1>3, <1>8 DEF Live
<1>13. /\ Honest(b, v) /\ (Live(b) => Live(a) /\ b.dec = a.dec) /\ (Knows(b) => Knows(a))
       /\ b.screen = a.screen
  BY <1>5, <1>8, <1>12, OnwardKeeps
<1>14. a.main # "off" /\ b.main # "off" /\ b.sess = a.sess /\ b.eof = a.eof
  BY <1>3, <1>7, <1>8 DEF SameData
<1>15. Good(c, b, u, d, k, v, g, i, r, q)
  BY <1>5, <1>9, <1>11, <1>13, <1>14, AttachIs
<1>16. Set(c, b)
  BY <1>3, <1>6 DEF read_eof
<1> QED BY <1>2, <1>4, <1>7, <1>14, <1>15, <1>16, AttachSteps

\* What waits goes out, frame by frame.
LEMMA SendStep ==
    ASSUME TerminalIInv, NEW c \in Clients, send(c)
    PROVE  TerminalIInv'
<1>1. PICK a \in Attach, u \in Bytes, d \in Bytes, k \in Shuts, v \in Servers, g \in Items,
           i \in Items : \E r, q : Is(c, a, u, d, k, v, g, i, r, q)
  BY Client
<1>2. PICK r, q : Is(c, a, u, d, k, v, g, i, r, q)
  BY <1>1
<1>3. a.main = "send" /\ cl[c] = a /\ cut[c] = k /\ srv[c] = v /\ up[c] = u /\ down[c] = d
  <2>1. cl[c].main = "send"
    BY DEF send, Main
  <2> QED BY <1>2, <2>1, Known
<1>4. UNCHANGED <<sessVars, up, cut, srv, got, bridges, given, moves>> /\ moves' \in Nat /\ MainRest
  BY DEF send, MainRest, TerminalIInv, TerminalTypeOk
<1>5. /\ Good(c, a, u, d, k, v, g, i, r, q) /\ Stages(c, a, v, k) /\ Honest(a, v)
      /\ InputOk(c, a, d, v, g, i) /\ (a.main # "off" => OutputOk(a, u, v, r, q))
  BY <1>2, Known
<1>6. CASE a.todo = <<>>
  <2>1. PICK b : b = [a EXCEPT !.main = a.next]
    OBVIOUS
  <2>2. a.next \in IF c \in Tabs THEN {"loop", "leave"} ELSE {"parse"}
    BY <1>3, <1>5 DEF Stages
  <2>3. b \in Attach /\ b.main = a.next
    BY <2>1, <2>2 DEF Attach, Mains
  <2>4. SameData(a, b) /\ b.out = a.out /\ b.LEAVING = a.LEAVING
    BY <2>1 DEF Attach, SameData
  <2>5. Onward(a, b) /\ Stages(c, b, v, k)
    BY <1>3, <1>5, <1>6, <2>2, <2>3, <2>4 DEF Onward, Stages, SameData, Leaves, Past
  <2>6. Set(c, b) /\ UNCHANGED down
    BY <1>3, <1>6, <2>1 DEF send
  <2> QED BY <1>2, <1>4, <2>3, <2>4, <2>5, <2>6, OnwardStep DEF wireVars
<1>7. CASE a.todo # <<>> /\ "up" \in k
  <2>1. Set(c, finish(a, "main", "", 1)) /\ UNCHANGED down
    BY <1>3, <1>7 DEF send, write_all
  <2>2. "main" \in Enders /\ "" \in Saids /\ "" \notin Reasons /\ "" # "lost" /\ "main" # "out"
    BY Sayings
  <2> QED BY <1>2, <1>3, <1>4, <2>1, <2>2, FinishStep DEF wireVars
<1>8. CASE a.todo # <<>> /\ "up" \notin k
  <2>1. PICK b : b = [a EXCEPT !.todo = Tail(@)]
    OBVIOUS
  <2>0. Head(a.todo) \in Bytes /\ Tail(a.todo) \in Seq(Bytes)
    <3>1. a.todo \in Seq(Bytes)
      BY DEF Attach
    <3>2. a.todo # <<>>
      BY <1>8
    <3> QED BY <3>1, <3>2
  <2>2. PICK m \in Bytes : m = Head(a.todo)
    BY <2>0
  <2>3. b \in Attach /\ b.todo = Tail(a.todo)
    BY <2>0, <2>1 DEF Attach
  <2>4. /\ b.sess = a.sess /\ b.stdin = a.stdin /\ b.eof = a.eof /\ b.buf = a.buf /\ b.main = a.main
        /\ b.dec = a.dec /\ b.screen = a.screen /\ b.said = a.said /\ b.ending = a.ending
        /\ b.out = a.out /\ b.LEAVING = a.LEAVING /\ b.next = a.next
    BY <2>1 DEF Attach
  <2>5. Stages(c, b, v, k) /\ Honest(b, v)
    BY <1>3, <1>5, <2>4 DEF Stages, Honest
  <2>6. Goes(a, b) /\ ~Past(a)
    BY <1>3, <2>4 DEF Goes, Leaves, Past
  <2>7. Open(v)
    BY <1>5, <1>8 DEF Stages, Open, Servers
  <2>8. InputOk(c, a, d, v, g, i) /\ a.todo # <<>>
    BY <1>5, <1>8
  <2>9. InputOk(c, b, d \o Head(a.todo), v, g, i)
    BY <2>3, <2>6, <2>7, <2>8, SendOk
  <2>10. InputOk(c, b, d \o m, v, g, i)
    BY <2>2, <2>9
  <2>11. (Live(b) => Live(a) /\ b.dec = a.dec) /\ (Knows(b) => Knows(a))
    BY <2>4 DEF Live, Knows
  <2>12. a.main # "off" /\ b.main # "off" /\ b.screen = a.screen
    BY <1>3, <2>4
  <2>13. Good(c, b, u, d \o m, k, v, g, i, r, q)
    BY <1>5, <2>5, <2>10, <2>11, <2>12, AttachIs
  <2>14. Set(c, b) /\ down' = [down EXCEPT ![c] = @ \o m]
    BY <1>3, <1>8, <2>1, <2>2 DEF send, write_all
  <2> QED BY <1>2, <1>4, <2>3, <2>4, <2>12, <2>13, <2>14, WriteSteps
<1> QED BY <1>6, <1>7, <1>8

\* The flag is set.
LEMMA LeavingStep ==
    ASSUME TerminalIInv, NEW c \in Clients, leaving(c)
    PROVE  TerminalIInv'
<1>1. PICK a \in Attach, u \in Bytes, d \in Bytes, k \in Shuts, v \in Servers, g \in Items,
           i \in Items : \E r, q : Is(c, a, u, d, k, v, g, i, r, q)
  BY Client
<1>2. PICK r, q : Is(c, a, u, d, k, v, g, i, r, q)
  BY <1>1
<1>3. a.main = "leave" /\ cl[c] = a /\ cut[c] = k /\ srv[c] = v /\ up[c] = u /\ down[c] = d
  <2>1. cl[c].main = "leave"
    BY DEF leaving, Main
  <2> QED BY <1>2, <2>1, Known
<1>4. UNCHANGED <<sessVars, wireVars, srv, got, bridges, given>> /\ moves' \in Nat
  BY DEF leaving, Quietly, TerminalIInv, TerminalTypeOk
<1>5. /\ Good(c, a, u, d, k, v, g, i, r, q) /\ Stages(c, a, v, k) /\ Honest(a, v)
      /\ InputOk(c, a, d, v, g, i) /\ (a.main # "off" => OutputOk(a, u, v, r, q))
  BY <1>2, Known
<1>6. PICK b : b = [a EXCEPT !.LEAVING = TRUE, !.main = "detach"]
  OBVIOUS
<1>7. b \in Attach /\ b.main = "detach" /\ b.LEAVING
  BY <1>6 DEF Attach, Mains
<1>8. SameData(a, b) /\ b.out = a.out
  BY <1>6 DEF Attach, SameData
<1>9. Onward(a, b) /\ Stages(c, b, v, k)
  BY <1>3, <1>5, <1>7, <1>8 DEF Onward, Stages, SameData, Leaves, Past
<1>10. Set(c, b)
  BY <1>3, <1>6 DEF leaving
<1> QED BY <1>2, <1>4, <1>7, <1>8, <1>9, <1>10, OnwardStep

\* The farewell, if it can be sent, and the end of what is.
LEMMA DetachStep ==
    ASSUME TerminalIInv, NEW c \in Clients, detach(c)
    PROVE  TerminalIInv'
<1>1. PICK a \in Attach, u \in Bytes, d \in Bytes, k \in Shuts, v \in Servers, g \in Items,
           i \in Items : \E r, q : Is(c, a, u, d, k, v, g, i, r, q)
  BY Client
<1>2. PICK r, q : Is(c, a, u, d, k, v, g, i, r, q)
  BY <1>1
<1>3. a.main = "detach" /\ cl[c] = a /\ cut[c] = k /\ srv[c] = v /\ up[c] = u /\ down[c] = d
  <2>1. cl[c].main = "detach"
    BY DEF detach, Main
  <2> QED BY <1>2, <2>1, Known
<1>4. UNCHANGED <<sessVars, up, srv, got, bridges, given, moves>> /\ moves' \in Nat
  BY DEF detach, TerminalIInv, TerminalTypeOk
<1>5. /\ Good(c, a, u, d, k, v, g, i, r, q) /\ Stages(c, a, v, k) /\ Honest(a, v)
      /\ InputOk(c, a, d, v, g, i) /\ (a.main # "off" => OutputOk(a, u, v, r, q))
  BY <1>2, Known
<1>6. PICK b : b = [a EXCEPT !.main = "sleep"]
  OBVIOUS
<1>7. b \in Attach /\ b.main = "sleep"
  BY <1>6 DEF Attach, Mains
<1>8. SameData(a, b) /\ b.out = a.out /\ b.LEAVING = a.LEAVING
  BY <1>6 DEF Attach, SameData
<1>9. PICK l \in Shuts : l = k \cup {"down"}
  BY DEF Shuts
<1>10. Stages(c, b, v, l) /\ a.todo = <<>> /\ a.LEAVING
  BY <1>3, <1>5, <1>7, <1>8, <1>9 DEF Stages, SameData
<1>11. Still(a, b)
  BY <1>3, <1>7, <1>8 DEF Still, Goes, SameData, Leaves, Past
<1>12. PICK n \in Bytes : /\ InputOk(c, b, n, v, g, i)
                          /\ down' = [down EXCEPT ![c] = n]
  <2>1. CASE "up" \in k
    <3>1. InputOk(c, b, d, v, g, i)
      BY <1>5, <1>11, StillOk
    <3>2. UNCHANGED down
      BY <1>3, <2>1 DEF detach, write_all
    <3>3. down = [down EXCEPT ![c] = d]
      BY <1>2, Alone
    <3> QED BY <3>1, <3>2, <3>3
  <2>2. CASE "up" \notin k
    <3>1. Open(v)
      BY <1>5, <2>2 DEF Stages, Open, Servers
    <3>2. InputOk(c, a, d, v, g, i) /\ a.main = "detach"
      BY <1>3, <1>5
    <3>3. InputOk(c, b, d \o encode(DETACH, <<>>), v, g, i)
      BY <1>7, <1>10, <1>11, <3>1, <3>2, FarewellOk
    <3>4. encode(DETACH, <<>>) \in Bytes
      <4>1. Farewell \in DownE /\ Farewell.code = encode(DETACH, <<>>)
        BY DEF DownE, Farewell
      <4> QED BY <4>1, MeaningTypes DEF Finals
    <3>5. PICK n \in Bytes : n = d \o encode(DETACH, <<>>)
      BY <3>4, JoinBytes
    <3>6. down' = [down EXCEPT ![c] = @ \o encode(DETACH, <<>>)]
      BY <1>3, <2>2 DEF detach, write_all
    <3>7. down' = [down EXCEPT ![c] = n]
      BY <1>3, <3>5, <3>6
    <3>8. InputOk(c, b, n, v, g, i)
      BY <3>3, <3>5
    <3> QED BY <3>7, <3>8
  <2> QED BY <2>1, <2>2
<1>13. b.out \in {"none", "run"} => Live(a)
  BY <1>3, <1>8 DEF Live
<1>14. /\ Honest(b, v) /\ (Live(b) => Live(a) /\ b.dec = a.dec) /\ (Knows(b) => Knows(a))
       /\ b.screen = a.screen
  BY <1>5, <1>8, <1>13, OnwardKeeps
<1>15. a.main # "off" /\ b.main # "off" /\ b.sess = a.sess /\ b.eof = a.eof
  BY <1>3, <1>7, <1>8 DEF SameData
<1>16. Good(c, b, u, n, l, v, g, i, r, q)
  BY <1>5, <1>10, <1>12, <1>14, <1>15, AttachIs
<1>17. cl' = [cl EXCEPT ![c] = b]
  BY <1>3, <1>6 DEF detach, write_all, Set
<1>18. cut' = [cut EXCEPT ![c] = l]
  BY <1>3, <1>9 DEF detach
<1>19. /\ up = [up EXCEPT ![c] = u] /\ srv = [srv EXCEPT ![c] = v]
       /\ got = [got EXCEPT ![c] = g] /\ given = [given EXCEPT ![c] = i]
  BY <1>2, Alone
<1>20. Becomes(c, b, u, n, l, v, g, i)
  BY <1>4, <1>12, <1>17, <1>18, <1>19, Zenon DEF Becomes
<1> QED BY <1>2, <1>4, <1>7, <1>9, <1>15, <1>16, <1>20, ClientSteps DEF SameDue

\* The output thread had its moment.
LEMMA SleepStep ==
    ASSUME TerminalIInv, NEW c \in Clients, sleep(c)
    PROVE  TerminalIInv'
<1>1. PICK a \in Attach, u \in Bytes, d \in Bytes, k \in Shuts, v \in Servers, g \in Items,
           i \in Items : \E r, q : Is(c, a, u, d, k, v, g, i, r, q)
  BY Client
<1>2. PICK r, q : Is(c, a, u, d, k, v, g, i, r, q)
  BY <1>1
<1>3. a.main = "sleep" /\ cl[c] = a /\ cut[c] = k /\ srv[c] = v /\ up[c] = u /\ down[c] = d
  <2>1. cl[c].main = "sleep"
    BY DEF sleep, Main
  <2> QED BY <1>2, <2>1, Known
<1>4. UNCHANGED <<sessVars, wireVars, srv, got, bridges, given>> /\ moves' \in Nat
  BY DEF sleep, Quietly, TerminalIInv, TerminalTypeOk
<1>5. /\ Good(c, a, u, d, k, v, g, i, r, q) /\ Stages(c, a, v, k) /\ Honest(a, v)
      /\ InputOk(c, a, d, v, g, i) /\ (a.main # "off" => OutputOk(a, u, v, r, q))
  BY <1>2, Known
<1>6. PICK s : s = IF c \in Tabs THEN "detached" ELSE ""
  OBVIOUS
<1>7. /\ "main" \in Enders /\ s \in Saids /\ s \notin Reasons /\ s # "lost" /\ "main" # "out"
  BY <1>6, Sayings
<1>8. Set(c, finish(a, "main", s, 0))
  BY <1>3, <1>6 DEF sleep
<1> QED BY <1>2, <1>3, <1>4, <1>7, <1>8, FinishStep

\* The attach of the app makes a frame of what it has read, if it can.
LEMMA ParseStep ==
    ASSUME TerminalIInv, NEW c \in Clients, host_input_loop(c)
    PROVE  TerminalIInv'
<1>1. PICK a \in Attach, u \in Bytes, d \in Bytes, k \in Shuts, v \in Servers, g \in Items,
           i \in Items : \E r, q : Is(c, a, u, d, k, v, g, i, r, q)
  BY Client
<1>2. PICK r, q : Is(c, a, u, d, k, v, g, i, r, q)
  BY <1>1
<1>3. a.main = "parse" /\ cl[c] = a /\ cut[c] = k /\ srv[c] = v /\ up[c] = u /\ down[c] = d
  <2>1. cl[c].main = "parse"
    BY DEF host_input_loop, Main
  <2> QED BY <1>2, <2>1, Known
<1>4. UNCHANGED <<sessVars, wireVars, srv, got, bridges, given>> /\ moves' \in Nat
  BY DEF host_input_loop, Quietly, TerminalIInv, TerminalTypeOk
<1>5. /\ Good(c, a, u, d, k, v, g, i, r, q) /\ Stages(c, a, v, k) /\ Honest(a, v)
      /\ InputOk(c, a, d, v, g, i) /\ (a.main # "off" => OutputOk(a, u, v, r, q))
  BY <1>2, Known
<1>6. c \notin Tabs /\ a.todo = <<>> /\ a.buf \in Bytes /\ a.stdin \in Bytes
  BY <1>3, <1>5 DEF Stages, Attach
<1>7. CASE decode_frame(a.buf).bad
  <2>1. Set(c, finish(a, "main", "", 1))
    BY <1>3, <1>7 DEF host_input_loop
  <2>2. "main" \in Enders /\ "" \in Saids /\ "" \notin Reasons /\ "" # "lost" /\ "main" # "out"
    BY Sayings
  <2> QED BY <1>2, <1>3, <1>4, <2>1, <2>2, FinishStep
<1>8. CASE ~decode_frame(a.buf).bad /\ decode_frame(a.buf).used = 0
  <2>1. PICK b : b = [a EXCEPT !.main = "read"]
    OBVIOUS
  <2>2. b \in Attach /\ b.main = "read"
    BY <2>1 DEF Attach, Mains
  <2>3. SameData(a, b) /\ b.out = a.out /\ b.LEAVING = a.LEAVING
    BY <2>1 DEF Attach, SameData
  <2>4. Onward(a, b) /\ Stages(c, b, v, k)
    BY <1>3, <1>5, <1>8, <2>2, <2>3 DEF Onward, Stages, SameData, Leaves, Past
  <2>5. Set(c, b)
    BY <1>3, <1>8, <2>1 DEF host_input_loop
  <2> QED BY <1>2, <1>4, <2>2, <2>3, <2>4, <2>5, OnwardStep
<1>9. CASE ~decode_frame(a.buf).bad /\ decode_frame(a.buf).used # 0
  <2>1. PICK b : b = [a EXCEPT !.buf = Skip(@, decode_frame(a.buf).used), !.main = "send",
                               !.todo = decode_frame(a.buf).frames, !.next = "parse"]
    OBVIOUS
  <2>2. decode_frame(a.buf).frames \in Seq(Bytes) /\ Skip(a.buf, decode_frame(a.buf).used) \in Bytes
    BY <1>6, <1>9, DecodeType
  <2>3. PICK f \in Seq(Bytes), s \in Bytes : f = decode_frame(a.buf).frames /\ s = Skip(a.buf, decode_frame(a.buf).used)
    BY <2>2
  <2>4. b = [a EXCEPT !.buf = s, !.main = "send", !.todo = f, !.next = "parse"]
    BY <2>1, <2>3
  <2>5. b \in Attach /\ b.buf = s /\ b.main = "send" /\ b.todo = f /\ b.next = "parse"
    BY <2>4 DEF Attach, Mains
  <2>6. /\ b.sess = a.sess /\ b.stdin = a.stdin /\ b.eof = a.eof /\ b.out = a.out
        /\ b.dec = a.dec /\ b.screen = a.screen /\ b.said = a.said /\ b.ending = a.ending
        /\ b.LEAVING = a.LEAVING
    BY <2>4 DEF Attach
  <2>7. InputOk(c, b, d, v, g, i)
    <3>1. /\ decode_frame(a.buf).used # 0 /\ b.todo = decode_frame(a.buf).frames
          /\ b.buf = Skip(a.buf, decode_frame(a.buf).used) /\ b.main = "send" /\ b.next = "parse"
          /\ InputOk(c, a, d, v, g, i) /\ a.main = "parse" /\ (a.eof => b.eof)
          /\ (a.LEAVING => b.LEAVING) /\ b.stdin = a.stdin
      BY <1>3, <1>5, <1>9, <2>3, <2>5, <2>6
    <3> QED BY <1>6, <3>1, HostParseOk
  <2>8. Stages(c, b, v, k) /\ Honest(b, v)
    BY <1>3, <1>5, <1>6, <2>5, <2>6 DEF Stages, Honest
  <2>9. (Live(b) => Live(a) /\ b.dec = a.dec) /\ (Knows(b) => Knows(a))
    BY <1>3, <2>6 DEF Live, Knows
  <2>10. a.main # "off" /\ b.main # "off" /\ b.screen = a.screen
    BY <1>3, <2>5, <2>6
  <2>11. Good(c, b, u, d, k, v, g, i, r, q)
    BY <1>5, <2>7, <2>8, <2>9, <2>10, AttachIs
  <2>12. Set(c, b)
    BY <1>3, <1>9, <2>1 DEF host_input_loop
  <2> QED BY <1>2, <1>4, <2>5, <2>6, <2>10, <2>11, <2>12, AttachSteps
<1> QED BY <1>7, <1>8, <1>9

\* What a tab does of what it reads, and an attach of the app.
TabRead(a, n) ==
    LET r == [a EXCEPT !.stdin = Skip(@, n)]
        chunk == Take(a.stdin, n)
        at == position(chunk, DETACH_KEY)
    IN  [r EXCEPT !.main = "send",
                  !.todo = IF at = 1 THEN <<>>
                           ELSE IF at > 1 THEN <<encode(INPUT, Take(chunk, at - 1))>>
                           ELSE chunks(INPUT, chunk),
                  !.next = IF at > 0 THEN "leave" ELSE "loop"]
HostRead(a, n) ==
    [a EXCEPT !.stdin = Skip(@, n), !.buf = @ \o Take(a.stdin, n), !.main = "parse"]
\* Its fields.
LEMMA TabReadIs ==
    ASSUME NEW a \in Attach, NEW n \in Nat, NEW b, b = TabRead(a, n), a.main = "read", a.todo = <<>>
    PROVE  /\ TabReads(a, b, Take(a.stdin, n), Skip(a.stdin, n))
           /\ b.sess = a.sess /\ b.eof = a.eof /\ b.out = a.out
           /\ b.dec = a.dec /\ b.screen = a.screen /\ b.said = a.said /\ b.ending = a.ending
           /\ b.LEAVING = a.LEAVING /\ b.buf = a.buf /\ b.next \in {"leave", "loop"}
           /\ b.todo \in Seq(Bytes) => b \in Attach
<1>1. PICK s : s = Take(a.stdin, n)
  OBVIOUS
<1>2. PICK x \in Bytes : x = Skip(a.stdin, n) /\ Joined(a.stdin, s, x)
  BY <1>1, CutBytes DEF Attach
<1>3. PICK t : t = (IF position(s, DETACH_KEY) = 1 THEN <<>>
                    ELSE IF position(s, DETACH_KEY) > 1
                         THEN <<encode(INPUT, Take(s, position(s, DETACH_KEY) - 1))>>
                    ELSE chunks(INPUT, s))
  OBVIOUS
<1>4. PICK m \in {"leave", "loop"} : m = (IF position(s, DETACH_KEY) > 0 THEN "leave" ELSE "loop")
  OBVIOUS
<1>5. b = [[a EXCEPT !.stdin = x] EXCEPT !.main = "send", !.todo = t, !.next = m]
  BY <1>1, <1>2, <1>3, <1>4 DEF TabRead
<1>6. /\ b.sess = a.sess /\ b.eof = a.eof /\ b.out = a.out /\ b.stdin = x
      /\ b.dec = a.dec /\ b.screen = a.screen /\ b.said = a.said /\ b.ending = a.ending
      /\ b.LEAVING = a.LEAVING /\ b.buf = a.buf /\ b.next = m /\ b.main = "send" /\ b.todo = t
  BY <1>5 DEF Attach
<1>7. b.todo \in Seq(Bytes) => b \in Attach
  <2>1. t \in Seq(Bytes) => b \in Attach
    BY <1>5 DEF Attach, Mains
  <2> QED BY <1>6, <2>1
<1>8. a.stdin = s \o x
  BY <1>2 DEF Joined
<1>9. TabReads(a, b, s, x)
  BY <1>3, <1>4, <1>6, <1>8 DEF TabReads
<1> QED BY <1>1, <1>2, <1>4, <1>6, <1>7, <1>9
\* And its.
LEMMA HostReadIs ==
    ASSUME NEW a \in Attach, NEW n \in Nat, NEW b, b = HostRead(a, n)
    PROVE  /\ b.sess = a.sess /\ b.eof = a.eof /\ b.out = a.out /\ b.stdin = Skip(a.stdin, n)
           /\ b.buf = a.buf \o Take(a.stdin, n) /\ b.main = "parse" /\ b.todo = a.todo
           /\ b.dec = a.dec /\ b.screen = a.screen /\ b.said = a.said /\ b.ending = a.ending
           /\ b.LEAVING = a.LEAVING /\ b \in Attach
<1>1. a.stdin \in Bytes /\ a.buf \in Bytes
  BY DEF Attach
<1>2. Take(a.stdin, n) \in Bytes /\ Skip(a.stdin, n) \in Bytes
  BY <1>1, CutBytes
<1>3. PICK x \in Bytes, y \in Bytes : x = Skip(a.stdin, n) /\ y = a.buf \o Take(a.stdin, n)
  BY <1>1, <1>2, JoinBytes
<1>4. b = [a EXCEPT !.stdin = x, !.buf = y, !.main = "parse"]
  BY <1>3 DEF HostRead
<1>5. b \in Attach /\ b.stdin = x /\ b.buf = y /\ b.main = "parse"
  BY <1>4 DEF Attach, Mains
<1>6. /\ b.sess = a.sess /\ b.eof = a.eof /\ b.out = a.out /\ b.todo = a.todo
      /\ b.dec = a.dec /\ b.screen = a.screen /\ b.said = a.said /\ b.ending = a.ending
      /\ b.LEAVING = a.LEAVING
  BY <1>4 DEF Attach
<1> QED BY <1>3, <1>5, <1>6

\* What the user gave is read.
LEMMA ReadStep ==
    ASSUME TerminalIInv, NEW c \in Clients, read_stdin(c)
    PROVE  TerminalIInv'
<1>1. PICK a \in Attach, u \in Bytes, d \in Bytes, k \in Shuts, v \in Servers, g \in Items,
           i \in Items : \E r, q : Is(c, a, u, d, k, v, g, i, r, q)
  BY Client
<1>2. PICK r, q : Is(c, a, u, d, k, v, g, i, r, q)
  BY <1>1
<1>3. a.main = "read" /\ a.stdin # <<>> /\ cl[c] = a /\ cut[c] = k /\ srv[c] = v /\ up[c] = u /\ down[c] = d
  <2>1. cl[c].main = "read" /\ cl[c].stdin # <<>>
    BY DEF read_stdin, Main
  <2> QED BY <1>2, <2>1, Known
<1>4. UNCHANGED <<sessVars, wireVars, srv, got, bridges, given>> /\ moves' \in Nat
  BY DEF read_stdin, Quietly, TerminalIInv, TerminalTypeOk
<1>5. /\ Good(c, a, u, d, k, v, g, i, r, q) /\ Stages(c, a, v, k) /\ Honest(a, v)
      /\ InputOk(c, a, d, v, g, i) /\ (a.main # "off" => OutputOk(a, u, v, r, q))
  BY <1>2, Known
<1>6. PICK n \in Nat : /\ n # 0 /\ (c \in Tabs => n <= MAX_PAYLOAD)
                      /\ Set(c, IF c \in Tabs THEN TabRead(a, n) ELSE HostRead(a, n))
  <2>1. CASE c \in Tabs
    <3>1. PICK n \in KeyReads : Set(c, TabRead(a, n))
      BY <1>3, <2>1 DEF read_stdin, input_loop, TabRead
    <3>2. n \in Nat /\ n # 0 /\ n <= MAX_PAYLOAD
      <4>1. MAX_PAYLOAD \in Nat /\ MAX_PAYLOAD >= 4
        BY TerminalAssumption
      <4>2. PICK m \in ReadSizes : n = IF m > MAX_PAYLOAD THEN MAX_PAYLOAD ELSE m
        BY DEF KeyReads
      <4>3. m \in Nat /\ m # 0
        BY TerminalAssumption
      <4> QED BY <4>1, <4>2, <4>3
    <3> QED BY <2>1, <3>1, <3>2
  <2>2. CASE c \notin Tabs
    <3>1. PICK n \in ReadSizes : Set(c, HostRead(a, n))
      BY <1>3, <2>2 DEF read_stdin, host_read, HostRead
    <3>2. n \in Nat /\ n # 0
      BY TerminalAssumption
    <3> QED BY <2>2, <3>1, <3>2
  <2> QED BY <2>1, <2>2
<1>7. a.todo = <<>> /\ a.stdin \in Bytes /\ a.buf \in Bytes /\ InputOk(c, a, d, v, g, i)
  BY <1>3, <1>5 DEF Stages, Attach
<1>8. PICK b : /\ b.sess = a.sess /\ b.eof = a.eof /\ b.out = a.out /\ b.dec = a.dec
              /\ b.screen = a.screen /\ b.said = a.said /\ b.ending = a.ending
              /\ b.LEAVING = a.LEAVING /\ b \in Attach /\ InputOk(c, b, d, v, g, i) /\ Set(c, b)
              /\ IF c \in Tabs THEN b.main = "send" /\ b.next \in {"leave", "loop"}
                 ELSE b.main = "parse" /\ b.todo = <<>>
  <2>1. CASE c \in Tabs
    <3>1. PICK b : b = TabRead(a, n)
      OBVIOUS
    <3>2. /\ TabReads(a, b, Take(a.stdin, n), Skip(a.stdin, n))
          /\ b.sess = a.sess /\ b.eof = a.eof /\ b.out = a.out
          /\ b.dec = a.dec /\ b.screen = a.screen /\ b.said = a.said /\ b.ending = a.ending
          /\ b.LEAVING = a.LEAVING /\ b.next \in {"leave", "loop"}
          /\ b.todo \in Seq(Bytes) => b \in Attach
      BY <1>3, <1>7, <3>1, TabReadIs
    <3>3. PICK s \in Bytes, x \in Bytes : /\ s = Take(a.stdin, n) /\ x = Skip(a.stdin, n)
                                          /\ s # <<>> /\ Len(s) <= MAX_PAYLOAD
      <4>1. Take(a.stdin, n) \in Bytes /\ Skip(a.stdin, n) \in Bytes
        BY <1>7, CutBytes
      <4>2. Len(Take(a.stdin, n)) = IF n < Len(a.stdin) THEN n ELSE Len(a.stdin)
        BY <1>7, TakeSkip DEF Bytes
      <4>3. Len(a.stdin) \in Nat /\ Len(a.stdin) # 0
        BY <1>3, <1>7 DEF Bytes
      <4>4. Len(Take(a.stdin, n)) # 0 /\ Len(Take(a.stdin, n)) <= MAX_PAYLOAD
        BY <1>6, <2>1, <4>2, <4>3, TerminalAssumption
      <4>5. Take(a.stdin, n) # <<>>
        BY <4>4
      <4> QED BY <4>1, <4>4, <4>5
    <3>4. TabReads(a, b, s, x)
      BY <3>2, <3>3
    <3>5. PICK p \in Nat : p = position(s, DETACH_KEY)
      BY ChunkKey
    <3>6. InputOk(c, b, d, v, g, i) /\ b.todo \in Seq(Bytes)
      <4>1. CASE p = 0
        <5>1. position(s, DETACH_KEY) = 0 /\ InputOk(c, a, d, v, g, i) /\ s # <<>>
          BY <1>7, <3>3, <3>5, <4>1
        <5> QED BY <2>1, <3>4, <5>1, NoKeyRead
      <4>2. CASE p # 0
        BY <1>7, <2>1, <3>3, <3>4, <3>5, <4>2, KeyRead
      <4> QED BY <4>1, <4>2
    <3>7. Set(c, b) /\ b.main = "send"
      BY <1>6, <2>1, <3>1, <3>4 DEF TabReads
    <3> QED BY <2>1, <3>2, <3>6, <3>7
  <2>2. CASE c \notin Tabs
    <3>1. PICK b : b = HostRead(a, n)
      OBVIOUS
    <3>2. /\ b.sess = a.sess /\ b.eof = a.eof /\ b.out = a.out /\ b.stdin = Skip(a.stdin, n)
          /\ b.buf = a.buf \o Take(a.stdin, n) /\ b.main = "parse" /\ b.todo = a.todo
          /\ b.dec = a.dec /\ b.screen = a.screen /\ b.said = a.said /\ b.ending = a.ending
          /\ b.LEAVING = a.LEAVING /\ b \in Attach
      BY <3>1, HostReadIs, ZenonT(60)
    <3>3. /\ a.main = "read" /\ b.todo = <<>> /\ (a.eof => b.eof) /\ (a.LEAVING => b.LEAVING)
      BY <1>3, <1>7, <3>2
    <3>4. InputOk(c, b, d, v, g, i)
      BY <1>7, <2>2, <3>2, <3>3, HostReadOk
    <3>5. Set(c, b)
      BY <1>6, <2>2, <3>1
    <3> QED BY <2>2, <3>2, <3>3, <3>4, <3>5
  <2> QED BY <2>1, <2>2
<1>9. Stages(c, b, v, k) /\ Honest(b, v)
  BY <1>3, <1>5, <1>8 DEF Stages, Honest
<1>10. (Live(b) => Live(a) /\ b.dec = a.dec) /\ (Knows(b) => Knows(a))
  BY <1>3, <1>8 DEF Live, Knows
<1>11. a.main # "off" /\ b.main # "off" /\ b.screen = a.screen
  BY <1>3, <1>8
<1>12. Good(c, b, u, d, k, v, g, i, r, q)
  BY <1>5, <1>8, <1>9, <1>10, <1>11, AttachIs
<1> QED BY <1>2, <1>4, <1>8, <1>11, <1>12, AttachSteps

\* The settings are put back.
LEMMA RestoreStep ==
    ASSUME TerminalIInv, NEW c \in Clients, NEW t \in Enders, restore_terminal(c, t)
    PROVE  TerminalIInv'
<1>1. PICK a \in Attach, u \in Bytes, d \in Bytes, k \in Shuts, v \in Servers, g \in Items,
           i \in Items : \E r, q : Is(c, a, u, d, k, v, g, i, r, q)
  BY Client
<1>2. PICK r, q : Is(c, a, u, d, k, v, g, i, r, q)
  BY <1>1
<1>3. a.main \notin {"off", "gone"} /\ cl[c] = a /\ cut[c] = k /\ srv[c] = v /\ up[c] = u /\ down[c] = d
  <2>1. cl[c].main \notin {"off", "gone"}
    BY DEF restore_terminal, Running
  <2> QED BY <1>2, <2>1, Known
<1>4. UNCHANGED <<sessVars, wireVars, srv, got, bridges, given>> /\ moves' \in Nat
  BY DEF restore_terminal, Quietly, TerminalIInv, TerminalTypeOk
<1>5. /\ Good(c, a, u, d, k, v, g, i, r, q) /\ Stages(c, a, v, k) /\ Honest(a, v)
      /\ InputOk(c, a, d, v, g, i) /\ (a.main # "off" => OutputOk(a, u, v, r, q))
  BY <1>2, Known
<1>6. PICK b : b = IF a.ending[t].at = "swap"
                   THEN [a EXCEPT !.SAVED = FALSE, !.ending[t].at = IF a.SAVED THEN "set" ELSE "exit"]
                   ELSE [a EXCEPT !.tty = "cooked", !.ending[t].at = "exit"]
  OBVIOUS
<1>7. \E y \in {"set", "exit"}, f \in BOOLEAN, w \in {"cooked", "raw"} :
         b = [a EXCEPT !.SAVED = f, !.tty = w, !.ending[t] = [a.ending[t] EXCEPT !.at = y]]
  <2>1. CASE a.ending[t].at = "swap"
    <3>1. PICK y \in {"set", "exit"} : y = IF a.SAVED THEN "set" ELSE "exit"
      OBVIOUS
    <3>2. PICK w \in {"cooked", "raw"} : w = a.tty
      BY DEF Attach
    <3>3. b = [a EXCEPT !.SAVED = FALSE, !.tty = w, !.ending[t] = [a.ending[t] EXCEPT !.at = y]]
      BY <1>6, <2>1, <3>1, <3>2 DEF Attach
    <3> WITNESS y \in {"set", "exit"}, FALSE \in BOOLEAN, w \in {"cooked", "raw"}
    <3> QED BY <3>3
  <2>2. CASE a.ending[t].at # "swap"
    <3>1. PICK f \in BOOLEAN : f = a.SAVED
      BY DEF Attach
    <3>2. b = [a EXCEPT !.SAVED = f, !.tty = "cooked",
                        !.ending[t] = [a.ending[t] EXCEPT !.at = "exit"]]
      BY <1>6, <2>2, <3>1 DEF Attach
    <3> WITNESS "exit" \in {"set", "exit"}, f \in BOOLEAN, "cooked" \in {"cooked", "raw"}
    <3> QED BY <3>2
  <2> QED BY <2>1, <2>2
<1>17. PICK y \in {"set", "exit"}, f \in BOOLEAN, w \in {"cooked", "raw"} :
         b = [a EXCEPT !.SAVED = f, !.tty = w, !.ending[t] = [a.ending[t] EXCEPT !.at = y]]
  BY <1>7, Zenon
<1>11. a.ending[t] \in Endings
  BY DEF Attach
<1>18. PICK z : z = [a.ending[t] EXCEPT !.at = y]
  OBVIOUS
<1>12. z \in Endings /\ z.said = a.ending[t].said
  BY <1>11, <1>18 DEF Endings
<1>13. b = [a EXCEPT !.SAVED = f, !.tty = w, !.ending[t] = z]
  BY <1>17, <1>18
<1>14. b \in Attach
  BY <1>12, <1>13 DEF Attach
<1>15. b.ending[t] = z /\ \A e \in Enders \ {t} : b.ending[e] = a.ending[e]
  BY <1>13 DEF Attach
<1>16. /\ b.sess = a.sess /\ b.stdin = a.stdin /\ b.eof = a.eof /\ b.buf = a.buf /\ b.todo = a.todo
       /\ b.dec = a.dec /\ b.screen = a.screen /\ b.said = a.said
       /\ b.out = a.out /\ b.LEAVING = a.LEAVING /\ b.main = a.main /\ b.next = a.next
  BY <1>13 DEF Attach
<1>8. SameData(a, b) /\ b.out = a.out /\ b.LEAVING = a.LEAVING /\ b.main = a.main /\ b.next = a.next
  BY <1>12, <1>15, <1>16 DEF SameData
<1>9. Onward(a, b) /\ Stages(c, b, v, k)
  BY <1>3, <1>5, <1>8 DEF Onward, Stages, SameData, Leaves, Past
<1>10. Set(c, b)
  BY <1>3, <1>6 DEF restore_terminal
<1> QED BY <1>2, <1>4, <1>14, <1>8, <1>9, <1>10, OnwardStep

\* The process is gone, of the state.
LEMMA AwayStep ==
    ASSUME TerminalIInv, NEW c \in Clients, NEW a \in Attach, NEW u \in Bytes, NEW d \in Bytes,
           NEW k \in Shuts, NEW v \in Servers, NEW g \in Items, NEW i \in Items, NEW r, NEW q,
           Is(c, a, u, d, k, v, g, i, r, q), a.main \notin {"off", "gone"}, NEW s \in Saids,
           NEW n \in Nat, s = "killed" \/ \E t \in Enders : s = a.ending[t].said,
           cl' = [cl EXCEPT ![c] = Departed(a, s, n)], cut' = [cut EXCEPT ![c] = @ \cup {"down"}],
           UNCHANGED <<sessVars, up, down, srv, got, bridges, given>>, moves' \in Nat
    PROVE  TerminalIInv'
<1>1. Good(c, a, u, d, k, v, g, i, r, q) /\ cut[c] = k
  BY Known
<1>2. PICK b : b = Departed(a, s, n)
  OBVIOUS
<1>3. PICK l \in Shuts : l = k \cup {"down"}
  BY DEF Shuts
<1>4. Good(c, b, u, d, l, v, g, i, r, q) /\ b \in Attach
  BY <1>1, <1>2, <1>3, AwayOk
<1>5. b.main = "gone" /\ b.sess = a.sess /\ b.eof = a.eof
  BY <1>2, GoneType
<1>6. cl' = [cl EXCEPT ![c] = b] /\ cut' = [cut EXCEPT ![c] = l]
  BY <1>1, <1>2, <1>3
<1>7. /\ up = [up EXCEPT ![c] = u] /\ down = [down EXCEPT ![c] = d] /\ srv = [srv EXCEPT ![c] = v]
      /\ got = [got EXCEPT ![c] = g] /\ given = [given EXCEPT ![c] = i]
  BY Alone
<1>8. Becomes(c, b, u, d, l, v, g, i)
  BY <1>6, <1>7, Zenon DEF Becomes
<1> QED BY <1>3, <1>4, <1>5, <1>8, ClientSteps DEF SameDue

\* The process ends as its first thread out says.
LEMMA ExitStep ==
    ASSUME TerminalIInv, NEW c \in Clients, NEW t \in Enders, exit(c, t)
    PROVE  TerminalIInv'
<1>1. PICK a \in Attach, u \in Bytes, d \in Bytes, k \in Shuts, v \in Servers, g \in Items,
           i \in Items : \E r, q : Is(c, a, u, d, k, v, g, i, r, q)
  BY Client
<1>2. PICK r, q : Is(c, a, u, d, k, v, g, i, r, q)
  BY <1>1
<1>3. a.main \notin {"off", "gone"} /\ cl[c] = a /\ cut[c] = k /\ srv[c] = v /\ up[c] = u /\ down[c] = d
  <2>1. cl[c].main \notin {"off", "gone"}
    BY DEF exit, Running
  <2> QED BY <1>2, <2>1, Known
<1>4. UNCHANGED <<sessVars, up, down, srv, got, bridges, given>> /\ moves' \in Nat
  BY DEF exit, TerminalIInv, TerminalTypeOk
<1>5. /\ Good(c, a, u, d, k, v, g, i, r, q) /\ Stages(c, a, v, k) /\ Honest(a, v)
      /\ InputOk(c, a, d, v, g, i) /\ (a.main # "off" => OutputOk(a, u, v, r, q))
  BY <1>2, Known
<1>6. a.ending[t] \in Endings
  BY DEF Attach
<1>7. PICK s \in Saids, n \in Nat : s = a.ending[t].said /\ n = a.ending[t].code
  BY <1>6 DEF Endings
<1>8. cl' = [cl EXCEPT ![c] = Departed(a, s, n)] /\ cut' = [cut EXCEPT ![c] = @ \cup {"down"}]
  BY <1>3, <1>7 DEF exit, Gone, Set, Departed
<1> QED BY <1>2, <1>3, <1>4, <1>7, <1>8, AwayStep

\* A hang-up is handled, or kills.
LEMMA HangupStep ==
    ASSUME TerminalIInv, NEW c \in Clients, on_hangup(c)
    PROVE  TerminalIInv'
<1>1. PICK a \in Attach, u \in Bytes, d \in Bytes, k \in Shuts, v \in Servers, g \in Items,
           i \in Items : \E r, q : Is(c, a, u, d, k, v, g, i, r, q)
  BY Client
<1>2. PICK r, q : Is(c, a, u, d, k, v, g, i, r, q)
  BY <1>1
<1>3. a.main \notin {"off", "gone"} /\ cl[c] = a /\ cut[c] = k /\ srv[c] = v /\ up[c] = u /\ down[c] = d
  <2>1. cl[c].main \notin {"off", "gone"}
    BY DEF on_hangup, Running
  <2> QED BY <1>2, <2>1, Known
<1>4. UNCHANGED <<sessVars, up, down, srv, got, bridges, given>> /\ moves' \in Nat
  <2>1. moves' = moves + 1 /\ moves \in Nat
    BY DEF on_hangup, Move, TerminalIInv, TerminalTypeOk
  <2>2. UNCHANGED <<sessVars, up, down, srv, got, bridges, given>>
    BY DEF on_hangup
  <2> QED BY <2>1, <2>2
<1>5. /\ Good(c, a, u, d, k, v, g, i, r, q) /\ Stages(c, a, v, k) /\ Honest(a, v)
      /\ InputOk(c, a, d, v, g, i) /\ (a.main # "off" => OutputOk(a, u, v, r, q))
  BY <1>2, Known
<1>6. CASE Set(c, finish(a, "signal", "", 129)) /\ UNCHANGED cut
  <2>1. /\ "signal" \in Enders /\ "" \in Saids /\ "" \notin Reasons /\ "" # "lost"
        /\ "signal" # "out"
    BY Sayings
  <2>4. PICK n \in Nat : n = 129
    OBVIOUS
  <2>2. UNCHANGED <<sessVars, wireVars, srv, got, bridges, given>> /\ moves' \in Nat
    BY <1>4, <1>6 DEF wireVars
  <2>3. Set(c, finish(a, "signal", "", n))
    BY <1>6, <2>4
  <2> QED BY <1>2, <1>3, <2>1, <2>2, <2>3, FinishStep
<1>7. CASE Gone(c, "killed", 129)
  <2>1. "killed" \in Saids /\ 129 \in Nat
    BY Sayings
  <2>2. cl' = [cl EXCEPT ![c] = Departed(a, "killed", 129)] /\ cut' = [cut EXCEPT ![c] = @ \cup {"down"}]
    BY <1>3, <1>7 DEF Gone, Set, Departed
  <2> QED BY <1>2, <1>3, <1>4, <2>1, <2>2, AwayStep
<1> QED BY <1>3, <1>6, <1>7 DEF on_hangup

\* A bridge that is closed is killed.
LEMMA KillStep ==
    ASSUME TerminalIInv, NEW c \in Hosts, kill(c)
    PROVE  TerminalIInv'
<1>0. c \in Clients
  BY DEF Clients
<1>1. PICK a \in Attach, u \in Bytes, d \in Bytes, k \in Shuts, v \in Servers, g \in Items,
           i \in Items : \E r, q : Is(c, a, u, d, k, v, g, i, r, q)
  BY <1>0, Client
<1>2. PICK r, q : Is(c, a, u, d, k, v, g, i, r, q)
  BY <1>1
<1>3. cl[c] = a /\ a.main # "gone" /\ a.eof /\ Stages(c, a, v, k)
  BY <1>2, Known DEF kill, Closing
<1>5. a.main # "off"
  <2>1. Fresh.eof = FALSE
    BY DEF Fresh
  <2> QED BY <1>2, <1>3, <2>1, Known DEF Good, Unused
<1>4. UNCHANGED <<sessVars, up, down, srv, got, bridges, given>> /\ moves' \in Nat
  BY DEF kill, TerminalIInv, TerminalTypeOk
<1>6. "killed" \in Saids /\ 137 \in Nat
  BY Sayings
<1>7. cl' = [cl EXCEPT ![c] = Departed(a, "killed", 137)] /\ cut' = [cut EXCEPT ![c] = @ \cup {"down"}]
  BY <1>3 DEF kill, Gone, Set, Departed
<1> QED BY <1>0, <1>2, <1>3, <1>4, <1>5, <1>6, <1>7, AwayStep

\* What the output thread takes of its bytes.
LEMMA TakenUp ==
    ASSUME NEW a, NEW u \in Bytes, NEW v, NEW r, NEW q, OutputOk(a, u, v, r, q),
           a.dec \in Bytes, Live(a), pop(a.dec).used # 0
    PROVE  /\ Skip(a.dec, pop(a.dec).used) \in Bytes
           /\ pop(a.dec).kind = OUTPUT => pop(a.dec).payload \in Bytes
           /\ pop(a.dec).kind = CLOSED => Reason(pop(a.dec).payload) \in Reasons \cup {"protocol"}
<1>1. PICK w, z, e : Carries(UpM, UpE, a.dec \o u, w, e)
  BY DEF OutputOk, Shows
<1> QED BY <1>1, PopUp
\* And what it leaves.
Decoded(a, n, m) == [a EXCEPT !.dec = n, !.screen = m]
DecSame(a, b, n, m) ==
    /\ b.dec = n /\ b.screen = m /\ b.main = a.main /\ b.out = a.out
    /\ b.sess = a.sess /\ b.stdin = a.stdin /\ b.eof = a.eof /\ b.buf = a.buf
    /\ b.todo = a.todo /\ b.next = a.next /\ b.LEAVING = a.LEAVING
    /\ b.said = a.said /\ b.ending = a.ending

\* An attach that decoded more is a client still.
LEMMA DecIs ==
    ASSUME NEW a \in Attach, NEW n \in Bytes, NEW m \in Bytes
    PROVE  Decoded(a, n, m) \in Attach /\ DecSame(a, Decoded(a, n, m), n, m)
<1>0. PICK b : b = Decoded(a, n, m)
  OBVIOUS
<1>1. b \in Attach
  BY <1>0 DEF Attach, Decoded
<1>2. /\ b.dec = n /\ b.screen = m /\ b.main = a.main /\ b.out = a.out
      /\ b.sess = a.sess /\ b.stdin = a.stdin /\ b.eof = a.eof /\ b.buf = a.buf
      /\ b.todo = a.todo /\ b.next = a.next /\ b.LEAVING = a.LEAVING
      /\ b.said = a.said /\ b.ending = a.ending
  BY <1>0 DEF Attach, Decoded
<1> QED BY <1>0, <1>1, <1>2 DEF DecSame

\* A step of the output thread alone.
LEMMA OutSteps ==
    ASSUME TerminalIInv, NEW c \in Clients, NEW a \in Attach, NEW u \in Bytes, NEW d \in Bytes,
           NEW k \in Shuts, NEW v \in Servers, NEW g \in Items, NEW i \in Items, NEW r, NEW q,
           Is(c, a, u, d, k, v, g, i, r, q), a.main \notin {"off", "gone"}, a.out = "run",
           NEW b \in Attach, NEW f \in Bytes, cl' = [cl EXCEPT ![c] = b], up' = [up EXCEPT ![c] = f],
           b.main = a.main, b.sess = a.sess, b.stdin = a.stdin, b.eof = a.eof, b.buf = a.buf,
           b.todo = a.todo, b.next = a.next, b.LEAVING = a.LEAVING, b.said = a.said,
           b.out \in {"run", "ending"}, \A t \in Enders \ {"out"} : b.ending[t] = a.ending[t],
           b.ending["out"].said = "lost" => a.ending["out"].said = "lost" \/ v.at = "gone",
           OutputOk(b, f, v, r, q),
           UNCHANGED <<sessVars, down, cut, srv, got, bridges, given>>, moves' \in Nat
    PROVE  TerminalIInv'
<1>1. Stages(c, a, v, k) /\ Honest(a, v) /\ InputOk(c, a, d, v, g, i)
  BY Known
<1>2. Stages(c, b, v, k)
  BY <1>1 DEF Stages
<1>3. Honest(b, v)
  <2>1. b.ending["main"] = a.ending["main"] /\ b.ending["signal"] = a.ending["signal"]
    BY DEF Enders
  <2>2. \A t \in Enders : b.ending[t].said = "lost" => v.at = "gone"
    BY <1>1 DEF Honest
  <2> QED BY <1>1, <2>1, <2>2 DEF Honest
<1>4. Still(a, b)
  BY DEF Still, Goes, Leaves, Past
<1>5. InputOk(c, b, d, v, g, i)
  BY <1>1, <1>4, StillOk
<1>6. Good(c, b, f, d, k, v, g, i, r, q)
  BY <1>2, <1>3, <1>5 DEF Good
<1>7. /\ down = [down EXCEPT ![c] = d] /\ cut = [cut EXCEPT ![c] = k] /\ srv = [srv EXCEPT ![c] = v]
      /\ got = [got EXCEPT ![c] = g] /\ given = [given EXCEPT ![c] = i]
  BY Alone
<1>8. Becomes(c, b, f, d, k, v, g, i)
  BY <1>7, Zenon DEF Becomes
<1>9. a.main # "off" /\ b.main # "off"
  OBVIOUS
<1> QED BY <1>6, <1>8, <1>9, ClientSteps DEF SameDue

\* The output thread ends, with what it says.
LEMMA OutEnds ==
    ASSUME TerminalIInv, NEW c \in Clients, NEW a \in Attach, NEW u \in Bytes, NEW d \in Bytes,
           NEW k \in Shuts, NEW v \in Servers, NEW g \in Items, NEW i \in Items, NEW r, NEW q,
           Is(c, a, u, d, k, v, g, i, r, q), a.main \notin {"off", "gone"}, a.out = "run",
           NEW n \in Bytes, NEW s \in Saids, s # "lost", NEW l \in Nat, NEW o,
           o = Decoded(a, n, a.screen),
           cl' = [cl EXCEPT ![c] = finish(o, "out", s, l)],
           s \in Reasons => /\ pop(a.dec).used # 0 /\ pop(a.dec).kind = CLOSED
                            /\ s = Reason(pop(a.dec).payload),
           UNCHANGED <<sessVars, up, down, cut, srv, got, bridges, given>>, moves' \in Nat
    PROVE  TerminalIInv'
<1>1. OutputOk(a, u, v, r, q) /\ up[c] = u /\ Live(a)
  BY Known DEF Live
<1>2. r \in Bytes
  BY SessionOf
<1>3. a.screen \in Bytes /\ a.dec \in Bytes
  BY DEF Attach
<1>4. /\ o \in Attach /\ o.dec = n /\ o.screen = a.screen /\ o.main = a.main /\ o.out = a.out
      /\ o.sess = a.sess /\ o.stdin = a.stdin /\ o.eof = a.eof /\ o.buf = a.buf
      /\ o.todo = a.todo /\ o.next = a.next /\ o.LEAVING = a.LEAVING
      /\ o.said = a.said /\ o.ending = a.ending
  <2>1. o \in Attach /\ DecSame(a, o, n, a.screen)
    BY <1>3, DecIs
  <2> QED BY <2>1 DEF DecSame
<1>5. "out" \in Enders
  BY Sayings
<1>6. PICK b : b = finish(o, "out", s, l)
  OBVIOUS
<1>7. /\ b \in Attach /\ b.main = o.main /\ b.out = "ending"
      /\ b.ending["out"].said = s /\ \A e \in Enders \ {"out"} : b.ending[e] = o.ending[e]
      /\ b.sess = o.sess /\ b.stdin = o.stdin /\ b.eof = o.eof /\ b.buf = o.buf
      /\ b.todo = o.todo /\ b.next = o.next /\ b.dec = o.dec /\ b.screen = o.screen
      /\ b.LEAVING = o.LEAVING /\ b.said = o.said
  BY <1>4, <1>5, <1>6, FinishType
<1>8. ~Live(b)
  BY <1>7 DEF Live
<1>9. OutputOk(b, u, v, r, q)
  <2>1. CASE s \in Reasons
    <3>1. /\ b.screen = a.screen /\ b.said = a.said
          /\ b.ending["out"].said = Reason(pop(a.dec).payload)
      BY <1>4, <1>7, <2>1
    <3> QED BY <1>1, <1>2, <1>3, <1>8, <2>1, <3>1, ClosedFrameOk
  <2>2. CASE s \notin Reasons
    <3>1. ~Knows(b)
      BY <1>1, <1>4, <1>7, <2>2 DEF OutputOk, Knows
    <3> QED BY <1>1, <1>4, <1>7, <1>8, <3>1 DEF OutputOk
  <2> QED BY <2>1, <2>2
<1>10. cl' = [cl EXCEPT ![c] = b] /\ up' = [up EXCEPT ![c] = u]
  <2>1. up = [up EXCEPT ![c] = u]
    BY Alone
  <2> QED BY <1>6, <2>1
<1>11. /\ b.main = a.main /\ b.sess = a.sess /\ b.stdin = a.stdin /\ b.eof = a.eof /\ b.buf = a.buf
       /\ b.todo = a.todo /\ b.next = a.next /\ b.LEAVING = a.LEAVING /\ b.said = a.said
       /\ b.out \in {"run", "ending"} /\ \A t \in Enders \ {"out"} : b.ending[t] = a.ending[t]
       /\ b.ending["out"].said # "lost" /\ b \in Attach
  BY <1>4, <1>7
<1>12. UNCHANGED <<sessVars, down, cut, srv, got, bridges, given>>
  OBVIOUS
<1> QED BY <1>9, <1>10, <1>11, <1>12, OutSteps

\* A frame is shown, or is the word that the session is over, or the screen cannot be written.
LEMMA OutputFrameStep ==
    ASSUME TerminalIInv, NEW c \in Clients, output_frame(c)
    PROVE  TerminalIInv'
<1>1. PICK a \in Attach, u \in Bytes, d \in Bytes, k \in Shuts, v \in Servers, g \in Items,
           i \in Items : \E r, q : Is(c, a, u, d, k, v, g, i, r, q)
  BY Client
<1>2. PICK r, q : Is(c, a, u, d, k, v, g, i, r, q)
  BY <1>1
<1>3. a.main \notin {"off", "gone"} /\ a.out = "run" /\ pop(a.dec).used # 0 /\ cl[c] = a /\ cut[c] = k /\ srv[c] = v /\ up[c] = u /\ down[c] = d
  <2>1. cl[c].main \notin {"off", "gone"} /\ cl[c].out = "run" /\ pop(cl[c].dec).used # 0
    BY DEF output_frame, Running
  <2> QED BY <1>2, <2>1, Known
<1>4. UNCHANGED <<sessVars, wireVars, srv, got, bridges, given>> /\ moves' \in Nat
  BY DEF output_frame, Move, TerminalIInv, TerminalTypeOk
<1>5. /\ Good(c, a, u, d, k, v, g, i, r, q) /\ Stages(c, a, v, k) /\ Honest(a, v)
      /\ InputOk(c, a, d, v, g, i) /\ (a.main # "off" => OutputOk(a, u, v, r, q))
  BY <1>2, Known
<1>6. OutputOk(a, u, v, r, q) /\ Live(a) /\ a.dec \in Bytes /\ a.screen \in Bytes
  BY <1>3, <1>5 DEF Live, Attach
<1>7. PICK n \in Bytes : n = Skip(a.dec, pop(a.dec).used)
  BY <1>3, <1>6, TakenUp
<1>8. up = [up EXCEPT ![c] = u] /\ UNCHANGED <<up, down, cut>>
  BY <1>2, <1>4, Alone DEF wireVars
<1>9. CASE /\ pop(a.dec).kind = OUTPUT
           /\ Set(c, [[a EXCEPT !.dec = Skip(@, pop(a.dec).used)] EXCEPT !.screen = @ \o pop(a.dec).payload])
  <2>1. PICK p \in Bytes : p = pop(a.dec).payload
    BY <1>3, <1>6, <1>9, TakenUp
  <2>2. PICK m \in Bytes : m = a.screen \o p
    BY <1>6, JoinBytes
  <2>3. PICK b : b = Decoded(a, n, m)
    OBVIOUS
  <2>4. cl' = [cl EXCEPT ![c] = b]
    BY <1>7, <1>9, <2>1, <2>2, <2>3 DEF Set, Decoded, Attach
  <2>5. /\ b \in Attach /\ b.dec = n /\ b.screen = m /\ b.main = a.main /\ b.out = a.out
        /\ b.sess = a.sess /\ b.stdin = a.stdin /\ b.eof = a.eof /\ b.buf = a.buf
        /\ b.todo = a.todo /\ b.next = a.next /\ b.LEAVING = a.LEAVING
        /\ b.said = a.said /\ b.ending = a.ending
    <3>1. b \in Attach /\ DecSame(a, b, n, m)
      BY <2>3, DecIs
    <3> QED BY <3>1 DEF DecSame
  <2>6. r \in Bytes
    BY <1>2, <1>3, SessionOf
  <2>7. Taken(a, b) /\ b.dec = Skip(a.dec, pop(a.dec).used) /\ b.screen = a.screen \o pop(a.dec).payload
    BY <1>7, <2>1, <2>2, <2>5 DEF Taken
  <2>8. OutputOk(b, u, v, r, q)
    BY <1>3, <1>6, <1>9, <2>6, <2>7, OutputFrameOk
  <2>9. up' = [up EXCEPT ![c] = u] /\ UNCHANGED <<sessVars, down, cut, srv, got, bridges, given>>
    BY <1>4, <1>8
  <2>10. /\ b.out \in {"run", "ending"} /\ \A t \in Enders \ {"out"} : b.ending[t] = a.ending[t]
         /\ b.ending["out"].said = "lost" => a.ending["out"].said = "lost"
    BY <1>3, <2>5
  <2> QED BY <1>2, <1>3, <1>4, <2>4, <2>5, <2>8, <2>9, <2>10, OutSteps
<1>10. PICK o : o = Decoded(a, n, a.screen)
  OBVIOUS
<1>11. [a EXCEPT !.dec = Skip(@, pop(a.dec).used)] = o
  BY <1>7, <1>10 DEF Decoded, Attach
<1>12. UNCHANGED <<sessVars, up, down, cut, srv, got, bridges, given>>
  BY <1>4, <1>8
<1>13. CASE Set(c, finish([a EXCEPT !.dec = Skip(@, pop(a.dec).used)], "out", "cannot_write", 1))
  <2>1. cl' = [cl EXCEPT ![c] = finish(o, "out", "cannot_write", 1)]
    BY <1>11, <1>13 DEF Set
  <2>2. "cannot_write" \in Saids /\ "cannot_write" \notin Reasons /\ "cannot_write" # "lost"
    BY Sayings
  <2> QED BY <1>2, <1>3, <1>4, <1>7, <1>10, <1>12, <2>1, <2>2, OutEnds
<1>14. CASE /\ pop(a.dec).kind = CLOSED
            /\ Set(c, finish([a EXCEPT !.dec = Skip(@, pop(a.dec).used)], "out",
                             Reason(pop(a.dec).payload), describe(Reason(pop(a.dec).payload))))
  <2>1. PICK s \in Reasons \cup {"protocol"} : s = Reason(pop(a.dec).payload)
    BY <1>3, <1>6, <1>14, TakenUp
  <2>2. s \in Saids /\ s # "lost" /\ s \in {"exit_0", "exit_n", "stopped", "shutdown", "protocol"}
    BY Sayings, TerminalAssumption
  <2>3. PICK l \in Nat : l = describe(s)
    BY <2>2 DEF describe
  <2>4. cl' = [cl EXCEPT ![c] = finish(o, "out", s, l)]
    BY <1>11, <1>14, <2>1, <2>3 DEF Set
  <2> QED BY <1>2, <1>3, <1>4, <1>7, <1>10, <1>12, <1>14, <2>1, <2>2, <2>4, OutEnds
<1> QED BY <1>3, <1>9, <1>13, <1>14 DEF output_frame

\* More bytes are read for the screen.
LEMMA OutputReadStep ==
    ASSUME TerminalIInv, NEW c \in Clients, output_read(c)
    PROVE  TerminalIInv'
<1>1. PICK a \in Attach, u \in Bytes, d \in Bytes, k \in Shuts, v \in Servers, g \in Items,
           i \in Items : \E r, q : Is(c, a, u, d, k, v, g, i, r, q)
  BY Client
<1>2. PICK r, q : Is(c, a, u, d, k, v, g, i, r, q)
  BY <1>1
<1>3. a.main \notin {"off", "gone"} /\ a.out = "run" /\ cl[c] = a /\ cut[c] = k /\ srv[c] = v /\ up[c] = u /\ down[c] = d
  <2>1. cl[c].main \notin {"off", "gone"} /\ cl[c].out = "run"
    BY DEF output_read, Running
  <2> QED BY <1>2, <2>1, Known
<1>4. UNCHANGED <<sessVars, down, cut, srv, got, bridges, given>> /\ moves' \in Nat
  BY DEF output_read, TerminalIInv, TerminalTypeOk
<1>5. /\ Good(c, a, u, d, k, v, g, i, r, q) /\ Stages(c, a, v, k) /\ Honest(a, v)
      /\ InputOk(c, a, d, v, g, i) /\ (a.main # "off" => OutputOk(a, u, v, r, q))
  BY <1>2, Known
<1>6. PICK n \in Nat : /\ Set(c, [a EXCEPT !.dec = @ \o Take(u, n)])
                       /\ up' = [up EXCEPT ![c] = Skip(@, n)]
  <2>1. ReadSizes \subseteq Nat
    BY TerminalAssumption
  <2> QED BY <1>3, <2>1 DEF output_read
<1>7. a.dec \in Bytes /\ a.screen \in Bytes
  BY DEF Attach
<1>8. PICK t \in Bytes, f \in Bytes : t = Take(u, n) /\ f = Skip(u, n) /\ Joined(u, t, f)
  BY CutBytes
<1>9. JoinedOn(a.dec, t, f)
  BY <1>7, JoinOn
<1>10. PICK m \in Bytes : m = a.dec \o t
  BY <1>9 DEF JoinedOn
<1>11. PICK b : b = Decoded(a, m, a.screen)
  OBVIOUS
<1>12. cl' = [cl EXCEPT ![c] = b]
  BY <1>6, <1>8, <1>10, <1>11 DEF Set, Decoded, Attach
<1>13. up' = [up EXCEPT ![c] = f]
  BY <1>3, <1>6, <1>8
<1>14. b \in Attach /\ DecSame(a, b, m, a.screen)
  BY <1>7, <1>11, DecIs
<1>15. /\ b.dec = m /\ b.screen = a.screen /\ b.main = a.main /\ b.out = a.out
       /\ b.sess = a.sess /\ b.stdin = a.stdin /\ b.eof = a.eof /\ b.buf = a.buf
       /\ b.todo = a.todo /\ b.next = a.next /\ b.LEAVING = a.LEAVING
       /\ b.said = a.said /\ b.ending = a.ending
  BY <1>14 DEF DecSame
<1>16. b.dec \o f = a.dec \o u
  <2>1. (a.dec \o t) \o f = a.dec \o (t \o f) /\ t \o f = u
    BY <1>8, <1>9 DEF JoinedOn, Joined
  <2> QED BY <1>10, <1>15, <2>1
<1>17. (Live(b) => Live(a)) /\ (Knows(b) => Knows(a)) /\ OutputOk(a, u, v, r, q)
  BY <1>3, <1>5, <1>15 DEF Live, Knows
<1>20. b.screen = a.screen /\ (Live(b) => Live(a) /\ SameJoin(b.dec, f, a.dec, u))
  BY <1>15, <1>16, <1>17 DEF SameJoin
<1>18. OutputOk(b, f, v, r, q)
  BY <1>17, <1>20, ShownOk
<1>19. /\ b.out \in {"run", "ending"} /\ \A x \in Enders \ {"out"} : b.ending[x] = a.ending[x]
       /\ b.ending["out"].said = "lost" => a.ending["out"].said = "lost"
  BY <1>3, <1>15
<1> QED BY <1>2, <1>3, <1>4, <1>12, <1>13, <1>14, <1>15, <1>18, <1>19, OutSteps

\* The connection ends without the word that the session is over.
LEMMA OutputEofStep ==
    ASSUME TerminalIInv, NEW c \in Clients, output_eof(c)
    PROVE  TerminalIInv'
<1>1. PICK a \in Attach, u \in Bytes, d \in Bytes, k \in Shuts, v \in Servers, g \in Items,
           i \in Items : \E r, q : Is(c, a, u, d, k, v, g, i, r, q)
  BY Client
<1>2. PICK r, q : Is(c, a, u, d, k, v, g, i, r, q)
  BY <1>1
<1>3. a.main \notin {"off", "gone"} /\ a.out = "run" /\ "up" \in cut[c] /\ cl[c] = a /\ cut[c] = k /\ srv[c] = v /\ up[c] = u /\ down[c] = d
  <2>1. cl[c].main \notin {"off", "gone"} /\ cl[c].out = "run" /\ "up" \in cut[c]
    BY DEF output_eof, Running
  <2> QED BY <1>2, <2>1, Known
<1>4. UNCHANGED <<sessVars, wireVars, srv, got, bridges, given>> /\ moves' \in Nat
  BY DEF output_eof, Quietly, TerminalIInv, TerminalTypeOk
<1>5. /\ Good(c, a, u, d, k, v, g, i, r, q) /\ Stages(c, a, v, k) /\ Honest(a, v)
      /\ InputOk(c, a, d, v, g, i) /\ (a.main # "off" => OutputOk(a, u, v, r, q))
  BY <1>2, Known
<1>6. v.at \in {"detached", "gone"}
  BY <1>3, <1>5 DEF Stages
<1>7. v.at = "detached" => a.LEAVING
  BY <1>5, <1>6 DEF InputOk, Open, Over
<1>8. CASE a.LEAVING
  <2>1. Set(c, finish(a, "out", "detached", 0))
    BY <1>3, <1>8 DEF output_eof
  <2>2. "out" \in Enders /\ "detached" \in Saids /\ "detached" \notin Reasons /\ "detached" # "lost"
    BY Sayings
  <2> QED BY <1>2, <1>3, <1>4, <2>1, <2>2, FinishStep
<1>9. CASE ~a.LEAVING
  <2>1. Set(c, finish(a, "out", "lost", 1))
    BY <1>3, <1>9 DEF output_eof
  <2>2. "out" \in Enders /\ "lost" \in Saids /\ "lost" \notin Reasons
    BY Sayings
  <2> QED BY <1>2, <1>3, <1>4, <1>6, <1>7, <1>9, <2>1, <2>2, FinishStep
<1> QED BY <1>8, <1>9

\* An attach starts.
Started(s) == [Fresh EXCEPT !.sess = s, !.main = "connect"]

\* An attach that starts is a good client.
LEMMA AttachOpens ==
    ASSUME NEW c, NEW a, NEW u, NEW d, NEW k, NEW v, NEW g, NEW i, NEW x, NEW y,
           Good(c, a, u, d, k, v, g, i, x, y), a.main = "off", NEW s \in Sessions,
           NEW r \in Bytes, NEW q, NEW b, b = Started(s)
    PROVE  /\ Good(c, b, u, d, k, v, g, i, r, q) /\ b \in Attach
           /\ b.main = "connect" /\ b.sess = s /\ ~b.eof /\ v = Unserved
<1>0. b = [Fresh EXCEPT !.sess = s, !.main = "connect"]
  BY DEF Started
<1>1. /\ Stages(c, a, v, k) /\ InputOk(c, a, d, v, g, i)
      /\ a = Fresh /\ u = <<>> /\ d = <<>> /\ g = <<>> /\ i = <<>> /\ k = {} /\ v = Unserved
  BY DEF Good, Unused
<1>2. v.at = "none"
  BY <1>1 DEF Unserved
<1>3. /\ b.sess = s /\ b.main = "connect" /\ b.out = "none" /\ b.stdin = <<>> /\ b.eof = FALSE
      /\ b.buf = <<>> /\ b.todo = <<>> /\ b.next = "" /\ b.dec = <<>> /\ b.screen = <<>>
      /\ b.LEAVING = FALSE /\ b.said = ""
      /\ b.ending = [t \in Enders |-> NotEnding]
  BY <1>0 DEF Fresh
<1>4. b \in Attach
  <2>1. NotEnding \in Endings
    BY Sayings DEF NotEnding, Endings
  <2>2. <<>> \in Bytes /\ "" \in Saids
    BY EmptyOnes, Sayings
  <2>3. <<>> \in Seq(Bytes)
    OBVIOUS
  <2>5. PICK y0 \in [Enders -> Endings] : y0 = [t \in Enders |-> NotEnding]
    BY <2>1
  <2>6. PICK x0 \in Seq(Bytes) : x0 = <<>>
    BY <2>3
  <2>7. PICK z0 \in Bytes : z0 = <<>>
    BY <2>2
  <2>8. Fresh = [sess |-> "", main |-> "off", out |-> "none", stdin |-> z0, eof |-> FALSE,
                 buf |-> z0, todo |-> x0, next |-> "", dec |-> z0, screen |-> z0,
                 LEAVING |-> FALSE, RESIZED |-> FALSE, SAVED |-> FALSE, tty |-> "cooked",
                 win |-> 0, ending |-> y0, said |-> "", code |-> 0]
    BY <2>5, <2>6, <2>7 DEF Fresh
  <2>9. Fresh \in Attach
    BY <2>2, <2>8 DEF Attach, Mains
  <2>4. s \in Sessions \cup {""} /\ "connect" \in Mains
    BY DEF Mains
  <2> QED BY <1>0, <2>4, <2>9 DEF Attach
<1>5. Enders = {"main", "out", "signal"} /\ "" \notin Reasons
  BY Sayings
<1>6. Stages(c, b, v, k)
  BY <1>1, <1>2, <1>3 DEF Stages
<1>7. \A t \in Enders : b.ending[t].said = ""
  <2>1. NotEnding.said = ""
    BY DEF NotEnding
  <2>2. \A t \in Enders : b.ending[t] = NotEnding
    BY <1>3
  <2> QED BY <2>1, <2>2
<1>8. Honest(b, v)
  BY <1>3, <1>5, <1>7 DEF Honest
<1>9. ~Knows(b)
  BY <1>3, <1>5, <1>7 DEF Knows
<1>10. Still(a, b)
  <2>1. a.stdin = <<>> /\ a.buf = <<>> /\ ~a.eof /\ ~a.LEAVING /\ a.todo = <<>>
    BY <1>1 DEF Fresh
  <2> QED BY <1>3, <2>1 DEF Still, Goes, Leaves, Past
<1>11. InputOk(c, b, d, v, g, i)
  BY <1>1, <1>10, StillOk
<1>12. OutputOk(b, u, v, r, q)
  BY <1>1, <1>2, <1>3, <1>9, FreshShown
<1> QED BY <1>1, <1>3, <1>4, <1>6, <1>8, <1>11, <1>12 DEF Good

\* A tab is opened.
LEMMA OpenTabStep ==
    ASSUME TerminalIInv, NEW c \in Tabs, NEW s \in Sessions, open_tab(c, s)
    PROVE  TerminalIInv'
<1>0. c \in Clients /\ c \notin Hosts
  BY TerminalAssumption DEF Clients
<1>1. PICK a \in Attach, u \in Bytes, d \in Bytes, k \in Shuts, v \in Servers, g \in Items,
           i \in Items : \E r, q : Is(c, a, u, d, k, v, g, i, r, q)
  BY <1>0, Client
<1>2. PICK r, q : Is(c, a, u, d, k, v, g, i, r, q)
  BY <1>1
<1>3. cl[c] = a /\ a.main = "off" /\ Good(c, a, u, d, k, v, g, i, r, q)
  BY <1>2, Known DEF open_tab
<1>4. UNCHANGED <<sessVars, wireVars, srv, got, bridges, given>> /\ moves' \in Nat
  <2>1. moves' = moves + 1 /\ moves \in Nat
    BY DEF open_tab, Move, TerminalIInv, TerminalTypeOk
  <2>2. UNCHANGED <<sessVars, wireVars, srv, got, bridges, given>>
    BY DEF open_tab
  <2> QED BY <2>1, <2>2
<1>5. PICK b : b = Started(s)
  OBVIOUS
<1>6. v.due \in Bytes /\ ring[s] \in Bytes
  BY DEF TerminalIInv, TerminalTypeOk, Servers
<1>7. /\ Good(c, b, u, d, k, v, g, i, v.due, Full(v, s)) /\ b \in Attach
      /\ b.main = "connect" /\ b.sess = s /\ ~b.eof /\ v = Unserved
  BY <1>3, <1>5, <1>6, AttachOpens
<1>8. /\ Good(c, b, u, d, k, v, g, i, v.due, Full(v, b.sess))
      /\ SeamOk(v, ring[b.sess], fan[b.sess])
  BY <1>6, <1>7, SeamStarts
<1>9. cl' = [cl EXCEPT ![c] = b]
  BY <1>5 DEF open_tab, Set, Started
<1>10. /\ up = [up EXCEPT ![c] = u] /\ down = [down EXCEPT ![c] = d] /\ cut = [cut EXCEPT ![c] = k]
       /\ srv = [srv EXCEPT ![c] = v] /\ got = [got EXCEPT ![c] = g] /\ given = [given EXCEPT ![c] = i]
  BY <1>0, <1>2, Alone
<1>11. Becomes(c, b, u, d, k, v, g, i)
  BY <1>4, <1>9, <1>10, Zenon DEF Becomes, wireVars
<1> QED BY <1>0, <1>3, <1>4, <1>7, <1>8, <1>11, OneClient

-----------------------------------------------------------------------------
(* The steps of the supervisor.                                             *)

\* One client is pushed bytes, shut, left.
Left(v) == [v EXCEPT !.at = "gone"]

\* Bytes pushed to one client change its line alone.
LEMMA PushOne ==
    ASSUME TerminalIInv, NEW c \in Clients, NEW b, Push({c}, b), NEW f, f = up[c] \o b
    PROVE  up' = [up EXCEPT ![c] = f]
<1>1. up \in [Clients -> Bytes]
  BY DEF TerminalIInv, TerminalTypeOk
<1>2. up' = [o \in Clients |-> IF o = c THEN f ELSE up[o]]
  BY DEF Push
<1> QED BY <1>1, <1>2

\* A socket shut for one client is cut for it alone.
LEMMA ShutOne ==
    ASSUME TerminalIInv, NEW c \in Clients, Shut({c})
    PROVE  \E l \in Shuts : l = cut[c] \cup {"up"} /\ cut' = [cut EXCEPT ![c] = l]
<1>1. cut \in [Clients -> Shuts]
  BY DEF TerminalIInv, TerminalTypeOk
<1>2. PICK l \in Shuts : l = cut[c] \cup {"up"}
  BY <1>1 DEF Shuts
<1>3. cut' = [cut EXCEPT ![c] = l]
  BY <1>1, <1>2 DEF Shut
<1> QED BY <1>2, <1>3

\* One client that leaves the list is gone for it alone.
LEMMA LeaveOne ==
    ASSUME TerminalIInv, NEW c \in Clients, Leave({c})
    PROVE  srv' = [srv EXCEPT ![c] = Left(srv[c])]
<1>1. srv \in [Clients -> Servers]
  BY DEF TerminalIInv, TerminalTypeOk
<1>2. srv' = [o \in Clients |-> IF o = c THEN Left(srv[c]) ELSE srv[o]]
  BY DEF Leave, Left
<1> QED BY <1>1, <1>2

\* A client that left has the decoder it had.
LEMMA LeftType ==
    ASSUME NEW v \in Servers
    PROVE  Left(v) \in Servers /\ Left(v).at = "gone" /\ Left(v).dec = v.dec /\ SameDue(v, Left(v))
BY DEF Servers, Left, SameDue

\* A step of its thread alone.
Served(c, f, e, l, x, h) ==
    /\ up' = [up EXCEPT ![c] = f] /\ down' = [down EXCEPT ![c] = e] /\ cut' = [cut EXCEPT ![c] = l]
    /\ srv' = [srv EXCEPT ![c] = x] /\ got' = [got EXCEPT ![c] = h]

\* A step of a client's thread keeps the invariant, if the client stays good.
LEMMA ServerSteps ==
    ASSUME TerminalIInv, NEW c \in Clients, NEW a \in Attach, NEW u \in Bytes, NEW d \in Bytes,
           NEW k \in Shuts, NEW v \in Servers, NEW g \in Items, NEW i \in Items, NEW r, NEW q,
           Is(c, a, u, d, k, v, g, i, r, q), a.main # "off",
           NEW f \in Bytes, NEW e \in Bytes, NEW l \in Shuts, NEW x \in Servers, NEW h \in Items,
           Served(c, f, e, l, x, h), Good(c, a, f, e, l, x, h, i, r, q),
           SameDue(v, x), x.at = v.at \/ x.at \in {"gone", "detached"},
           UNCHANGED <<sessVars, cl, bridges, given>>, moves' \in Nat
    PROVE  TerminalIInv'
<1>1. cl = [cl EXCEPT ![c] = a] /\ given = [given EXCEPT ![c] = i]
  BY Alone
<1>2. Becomes(c, a, f, e, l, x, h, i)
  BY <1>1, Zenon DEF Becomes, Served
<1> QED BY <1>2, ClientSteps
\* A step of its hello, which decides what is due to it.
LEMMA HelloSteps ==
    ASSUME TerminalIInv, NEW c \in Clients, NEW a \in Attach, NEW u \in Bytes, NEW d \in Bytes,
           NEW k \in Shuts, NEW v \in Servers, NEW g \in Items, NEW i \in Items, NEW r, NEW q,
           Is(c, a, u, d, k, v, g, i, r, q), a.main # "off",
           NEW f \in Bytes, NEW x \in Servers,
           Served(c, f, d, k, x, g), Good(c, a, f, d, k, x, g, i, x.due, Full(x, a.sess)),
           SeamOk(x, ring[a.sess], fan[a.sess]),
           UNCHANGED <<sessVars, cl, bridges, given>>, moves' \in Nat
    PROVE  TerminalIInv'
<1>1. cl = [cl EXCEPT ![c] = a] /\ given = [given EXCEPT ![c] = i]
  BY Alone
<1>2. Becomes(c, a, f, d, k, x, g, i)
  BY <1>1, Zenon DEF Becomes, Served
<1>3. cl[c] = a
  BY Known
<1> QED BY <1>2, <1>3, OneClient

\* A thread that serves has an attach, which was not told.
LEMMA ServedIs ==
    ASSUME NEW c, NEW a, NEW u, NEW d, NEW k, NEW v, NEW g, NEW i, NEW r, NEW q,
           Is(c, a, u, d, k, v, g, i, r, q), v.at \in {"hello", "replayed", "serve"}
    PROVE  /\ a.main \notin {"off", "connect"} /\ "up" \notin k /\ Open(v)
           /\ \A x : Honest(a, x)
           /\ \A x, l : /\ x.at \in {"hello", "replayed", "serve"} /\ "up" \notin l
                           => Stages(c, a, x, l)
                        /\ x.at \in {"gone", "detached"} /\ "up" \in l => Stages(c, a, x, l)
           /\ Good(c, a, u, d, k, v, g, i, r, q) /\ InputOk(c, a, d, v, g, i)
           /\ OutputOk(a, u, v, r, q)
<1>1. /\ Good(c, a, u, d, k, v, g, i, r, q) /\ Stages(c, a, v, k) /\ Honest(a, v)
      /\ InputOk(c, a, d, v, g, i) /\ (a.main # "off" => OutputOk(a, u, v, r, q))
  BY Known
<1>2. a.main \notin {"off", "connect"} /\ "up" \notin k
  BY <1>1 DEF Stages
<1>3. \A x : Honest(a, x)
  BY <1>1 DEF Honest
<1>4. \A x, l : /\ x.at \in {"hello", "replayed", "serve"} /\ "up" \notin l => Stages(c, a, x, l)
                /\ x.at \in {"gone", "detached"} /\ "up" \in l => Stages(c, a, x, l)
  BY <1>1, <1>2 DEF Stages
<1> QED BY <1>1, <1>2, <1>3, <1>4 DEF Open

\* Its thread leaves it, and tells it nothing.
LEMMA LeftSteps ==
    ASSUME TerminalIInv, NEW c \in Clients, NEW a \in Attach, NEW u \in Bytes, NEW d \in Bytes,
           NEW k \in Shuts, NEW v \in Servers, NEW g \in Items, NEW i \in Items, NEW r, NEW q,
           Is(c, a, u, d, k, v, g, i, r, q), v.at \in {"hello", "replayed", "serve"}, Shut({c}),
           srv' = [srv EXCEPT ![c] = Left(srv[c])],
           UNCHANGED <<sessVars, cl, up, down, got, bridges, given>>, moves' \in Nat
    PROVE  TerminalIInv'
<1>1. PICK l \in Shuts : l = cut[c] \cup {"up"} /\ cut' = [cut EXCEPT ![c] = l]
  BY ShutOne
<1>2. PICK x \in Servers : x = Left(v) /\ x.at = "gone"
  BY LeftType
<1>0. srv[c] = v
  BY Known
<1>3. srv' = [srv EXCEPT ![c] = x] /\ cut' = [cut EXCEPT ![c] = l]
  BY <1>0, <1>1, <1>2
<1>4. /\ a.main # "off" /\ Stages(c, a, x, l) /\ Honest(a, x)
      /\ InputOk(c, a, d, v, g, i) /\ Good(c, a, u, d, k, v, g, i, r, q)
  BY <1>1, <1>2, ServedIs
<1>5. InputOk(c, a, d, x, g, i)
  BY <1>2, <1>4, GoneOk
<1>6. Good(c, a, u, d, l, x, g, i, r, q)
  BY <1>2, <1>4, <1>5, AttachIs
<1>7. /\ up = [up EXCEPT ![c] = u] /\ down = [down EXCEPT ![c] = d] /\ got = [got EXCEPT ![c] = g]
  BY Alone
<1>8. up' = [up EXCEPT ![c] = u] /\ down' = [down EXCEPT ![c] = d] /\ got' = [got EXCEPT ![c] = g]
  BY <1>7
<1>9. UNCHANGED <<sessVars, cl, bridges, given>>
  OBVIOUS
<1>10. a.main # "off"
  BY <1>4
<1>11. Served(c, u, d, l, x, g)
  BY <1>3, <1>8, Zenon DEF Served
<1> QED BY <1>2, <1>6, <1>9, <1>10, <1>11, LeftType, ServerSteps

\* Its thread reads.
LEMMA ClientReadStep ==
    ASSUME TerminalIInv, NEW c \in Clients, client_read(c)
    PROVE  TerminalIInv'
<1>1. PICK a \in Attach, u \in Bytes, d \in Bytes, k \in Shuts, v \in Servers, g \in Items,
           i \in Items : \E r, q : Is(c, a, u, d, k, v, g, i, r, q)
  BY Client
<1>2. PICK r, q : Is(c, a, u, d, k, v, g, i, r, q)
  BY <1>1
<1>3. srv[c].at \in {"hello", "serve"} /\ cl[c] = a /\ cut[c] = k /\ srv[c] = v /\ up[c] = u /\ down[c] = d
  <2>1. srv[c].at \in {"hello", "serve"}
    BY DEF client_read, Serving
  <2> QED BY <1>2, <2>1, Known
<1>4. UNCHANGED <<sessVars, cl, up, cut, got, bridges, given>> /\ moves' \in Nat
  BY DEF client_read, TerminalIInv, TerminalTypeOk
<1>5. /\ Good(c, a, u, d, k, v, g, i, r, q) /\ Stages(c, a, v, k) /\ Honest(a, v)
      /\ InputOk(c, a, d, v, g, i) /\ (a.main # "off" => OutputOk(a, u, v, r, q))
  BY <1>2, Known
<1>6. PICK n \in Nat : /\ srv' = [srv EXCEPT ![c].dec = @ \o Take(d, n)]
                       /\ down' = [down EXCEPT ![c] = Skip(d, n)]
  <2>1. ReadSizes \subseteq Nat
    BY TerminalAssumption
  <2> QED BY <1>3, <2>1 DEF client_read
<1>7. v.dec \in Bytes
  BY DEF Servers
<1>8. PICK t \in Bytes, e \in Bytes : t = Take(d, n) /\ e = Skip(d, n) /\ Joined(d, t, e)
  BY CutBytes
<1>9. JoinedOn(v.dec, t, e)
  BY <1>7, JoinOn
<1>10. PICK m \in Bytes : m = v.dec \o t
  BY <1>9 DEF JoinedOn
<1>11. PICK x : x = [v EXCEPT !.dec = m]
  OBVIOUS
<1>12. x \in Servers /\ x.at = v.at /\ x.dec = m /\ SameDue(v, x)
  BY <1>11 DEF Servers, SameDue
<1>13. srv' = [srv EXCEPT ![c] = x]
  BY <1>3, <1>6, <1>8, <1>10, <1>11
<1>14. down' = [down EXCEPT ![c] = e]
  BY <1>6, <1>8
<1>15. SameJoin(v.dec, d, x.dec, e)
  <2>1. (v.dec \o t) \o e = v.dec \o (t \o e) /\ t \o e = d
    BY <1>8, <1>9 DEF JoinedOn, Joined
  <2> QED BY <1>10, <1>12, <2>1 DEF SameJoin
<1>16. v.at \in {"hello", "replayed", "serve"}
  BY <1>3
<1>17. /\ a.main # "off" /\ "up" \notin k /\ Open(v) /\ Honest(a, x) /\ InputOk(c, a, d, v, g, i)
       /\ Stages(c, a, x, k)
  BY <1>2, <1>12, <1>16, ServedIs
<1>18. InputOk(c, a, e, x, g, i)
  <2>1. Open(x)
    BY <1>12, <1>17 DEF Open
  <2> QED BY <1>15, <1>17, <2>1, ReadJoin
<1>19. Good(c, a, u, e, k, x, g, i, r, q)
  BY <1>5, <1>12, <1>17, <1>18, AttachIs
<1>20. /\ up = [up EXCEPT ![c] = u] /\ cut = [cut EXCEPT ![c] = k] /\ got = [got EXCEPT ![c] = g]
  BY <1>2, Alone
<1>21. Served(c, u, e, k, x, g)
  <2>1. /\ up' = [up EXCEPT ![c] = u] /\ cut' = [cut EXCEPT ![c] = k] /\ got' = [got EXCEPT ![c] = g]
    BY <1>4, <1>20
  <2> QED BY <1>13, <1>14, <2>1, Zenon DEF Served
<1> QED BY <1>2, <1>4, <1>12, <1>17, <1>19, <1>21, ServerSteps

\* It takes a frame.
LEMMA ClientFrameStep ==
    ASSUME TerminalIInv, NEW c \in Clients, client_frame(c)
    PROVE  TerminalIInv'
<1>1. PICK a \in Attach, u \in Bytes, d \in Bytes, k \in Shuts, v \in Servers, g \in Items,
           i \in Items : \E r, q : Is(c, a, u, d, k, v, g, i, r, q)
  BY Client
<1>2. PICK r, q : Is(c, a, u, d, k, v, g, i, r, q)
  BY <1>1
<1>3. srv[c].at = "serve" /\ pop(srv[c].dec).used # 0 /\ cl[c] = a /\ cut[c] = k /\ srv[c] = v /\ up[c] = u /\ down[c] = d
  <2>1. srv[c].at = "serve" /\ pop(srv[c].dec).used # 0
    BY DEF client_frame
  <2> QED BY <1>2, <2>1, Known
<1>4. UNCHANGED <<sessVars, cl, up, down, bridges, given>> /\ moves' \in Nat
  BY DEF client_frame, TerminalIInv, TerminalTypeOk
<1>5. /\ Good(c, a, u, d, k, v, g, i, r, q) /\ Stages(c, a, v, k) /\ Honest(a, v)
      /\ InputOk(c, a, d, v, g, i) /\ (a.main # "off" => OutputOk(a, u, v, r, q))
  BY <1>2, Known
<1>6. v.at = "serve" /\ pop(v.dec).used # 0 /\ v.at \in {"hello", "replayed", "serve"}
  BY <1>3
<1>7. PICK x : x = Took(v)
  OBVIOUS
<1>8. PICK h : h = Has(g, v)
  OBVIOUS
<1>9. InputOk(c, a, d, x, h, i) /\ x \in Servers /\ h \in Items
  BY <1>5, <1>6, <1>7, <1>8, ClientFrameOk
<1>10. x.at = (IF pop(v.dec).kind = DETACH THEN "detached" ELSE "serve") /\ SameDue(v, x)
  <2>1. PICK y, z : z = Skip(v.dec, pop(v.dec).used)
                    /\ y = IF pop(v.dec).kind = DETACH THEN "detached" ELSE "serve"
    OBVIOUS
  <2>2. x = [v EXCEPT !.at = y, !.dec = z]
    BY <1>7, <2>1 DEF Took
  <2>3. x.at = y /\ SameDue(v, x)
    BY <2>2 DEF Servers, SameDue
  <2> QED BY <2>1, <2>3
<1>11. srv' = [srv EXCEPT ![c] = x]
  BY <1>3, <1>7 DEF client_frame, Took
<1>12. got' = [got EXCEPT ![c] = h]
  <2>1. got[c] = g /\ INPUT # RESIZE
    BY <1>2, Known DEF INPUT, RESIZE
  <2>2. FrameItem(pop(v.dec)) = CASE pop(v.dec).kind = INPUT  -> AsInput(pop(v.dec).payload)
                                  [] pop(v.dec).kind = RESIZE -> decode_resize(pop(v.dec).payload)
                                  [] OTHER                    -> <<>>
    BY <2>1 DEF FrameItem
  <2>3. PICK m : m = FrameItem(pop(v.dec))
    OBVIOUS
  <2>4. got' = [got EXCEPT ![c] = @ \o m]
    BY <1>3, <2>2, <2>3 DEF client_frame
  <2> QED BY <1>8, <2>1, <2>3, <2>4 DEF Has
<1>13. PICK l \in Shuts : cut' = [cut EXCEPT ![c] = l] /\ ("up" \in l <=> x.at = "detached")
  <2>1. "up" \notin k /\ cut = [cut EXCEPT ![c] = k]
    BY <1>2, <1>6, ServedIs, Alone
  <2>2. CASE pop(v.dec).kind = DETACH
    <3>1. Shut({c})
      BY <1>3, <2>2 DEF client_frame
    <3>2. PICK l \in Shuts : l = cut[c] \cup {"up"} /\ cut' = [cut EXCEPT ![c] = l]
      BY <3>1, ShutOne
    <3> QED BY <1>10, <2>2, <3>2
  <2>3. CASE pop(v.dec).kind # DETACH
    <3>1. UNCHANGED cut
      BY <1>3, <2>3 DEF client_frame
    <3> QED BY <1>10, <2>1, <2>3, <3>1
  <2> QED BY <2>2, <2>3
<1>14. a.main # "off" /\ Honest(a, x) /\ Stages(c, a, x, l)
  <2>1. x.at \in {"serve", "detached"}
    BY <1>10
  <2>2. "up" \in l <=> x.at = "detached"
    BY <1>13
  <2> QED BY <1>2, <1>6, <2>1, <2>2, ServedIs
<1>15. x.at = v.at \/ x.at \in {"gone", "detached"}
  BY <1>6, <1>10
<1>16. Good(c, a, u, d, l, x, h, i, r, q)
  BY <1>5, <1>9, <1>14, <1>15, AttachIs
<1>17. up = [up EXCEPT ![c] = u] /\ down = [down EXCEPT ![c] = d]
  BY <1>2, Alone
<1>18. Served(c, u, d, l, x, h)
  <2>1. up' = [up EXCEPT ![c] = u] /\ down' = [down EXCEPT ![c] = d]
    BY <1>4, <1>17
  <2>2. cut' = [cut EXCEPT ![c] = l]
    BY <1>13
  <2> QED BY <1>11, <1>12, <2>1, <2>2, Zenon DEF Served
<1> QED BY <1>2, <1>4, <1>9, <1>10, <1>14, <1>15, <1>16, <1>18, ServerSteps

\* The client is gone.
LEMMA ClientEofStep ==
    ASSUME TerminalIInv, NEW c \in Clients, client_eof(c)
    PROVE  TerminalIInv'
<1>1. PICK a \in Attach, u \in Bytes, d \in Bytes, k \in Shuts, v \in Servers, g \in Items,
           i \in Items : \E r, q : Is(c, a, u, d, k, v, g, i, r, q)
  BY Client
<1>2. PICK r, q : Is(c, a, u, d, k, v, g, i, r, q)
  BY <1>1
<1>3. srv[c].at \in {"hello", "serve"} /\ cl[c] = a /\ cut[c] = k /\ srv[c] = v /\ up[c] = u /\ down[c] = d
  <2>1. srv[c].at \in {"hello", "serve"}
    BY DEF client_eof, Serving
  <2> QED BY <1>2, <2>1, Known
<1>4. UNCHANGED <<sessVars, cl, up, down, got, bridges, given>> /\ moves' \in Nat
  BY DEF client_eof, TerminalIInv, TerminalTypeOk
<1>5. /\ Good(c, a, u, d, k, v, g, i, r, q) /\ Stages(c, a, v, k) /\ Honest(a, v)
      /\ InputOk(c, a, d, v, g, i) /\ (a.main # "off" => OutputOk(a, u, v, r, q))
  BY <1>2, Known
<1>6. v.at \in {"hello", "replayed", "serve"}
  BY <1>3
<1>7. Shut({c}) /\ srv' = [srv EXCEPT ![c] = Left(srv[c])]
  BY DEF client_eof, Left
<1> QED BY <1>2, <1>4, <1>6, <1>7, LeftSteps

\* The harness's side of the PTY is gone.
LEMMA PtyWriteStep ==
    ASSUME TerminalIInv, NEW c \in Clients, pty_write_fails(c)
    PROVE  TerminalIInv'
<1>1. PICK a \in Attach, u \in Bytes, d \in Bytes, k \in Shuts, v \in Servers, g \in Items,
           i \in Items : \E r, q : Is(c, a, u, d, k, v, g, i, r, q)
  BY Client
<1>2. PICK r, q : Is(c, a, u, d, k, v, g, i, r, q)
  BY <1>1
<1>3. srv[c].at = "serve" /\ cl[c] = a /\ cut[c] = k /\ srv[c] = v /\ up[c] = u /\ down[c] = d
  <2>1. srv[c].at = "serve"
    BY DEF pty_write_fails
  <2> QED BY <1>2, <2>1, Known
<1>4. UNCHANGED <<sessVars, cl, up, down, got, bridges, given>> /\ moves' \in Nat
  <2>1. moves' = moves + 1 /\ moves \in Nat
    BY DEF pty_write_fails, Move, TerminalIInv, TerminalTypeOk
  <2>2. UNCHANGED <<sessVars, cl, up, down, got, bridges, given>>
    BY DEF pty_write_fails
  <2> QED BY <2>1, <2>2
<1>5. /\ Good(c, a, u, d, k, v, g, i, r, q) /\ Stages(c, a, v, k) /\ Honest(a, v)
      /\ InputOk(c, a, d, v, g, i) /\ (a.main # "off" => OutputOk(a, u, v, r, q))
  BY <1>2, Known
<1>6. v.at \in {"hello", "replayed", "serve"}
  BY <1>3
<1>7. Shut({c}) /\ Leave({c})
  BY DEF pty_write_fails
<1>8. srv' = [srv EXCEPT ![c] = Left(srv[c])]
  BY <1>7, LeaveOne
<1> QED BY <1>2, <1>4, <1>6, <1>7, <1>8, LeftSteps

\* What the ring holds is the end of what it was given.
LEMMA SnapshotEnds ==
    ASSUME NEW s, ring[s] \in Bytes
    PROVE  snapshot(s) \in Bytes /\ EndOf(snapshot(s), ring[s])
<1>1. PICK y \in Bytes : y = ring[s]
  OBVIOUS
<1>2. PICK n \in Nat : n = (IF Len(y) > RingCap THEN Len(y) - RingCap ELSE 0) /\ n <= Len(y)
  <2>1. Len(y) \in Nat /\ RingCap \in Nat
    BY TerminalAssumption DEF Bytes
  <2> QED BY <2>1
<1>3. PICK o \in Bytes : o = Skip(y, n) /\ o = snapshot(s)
  BY <1>1, <1>2, CutBytes DEF snapshot
<1>4. Len(o) = Len(y) - n
  BY <1>2, <1>3, TakeSkip DEF Bytes
<1>5. Len(y) \in Nat /\ Len(o) <= Len(y) /\ Len(y) - Len(o) = n
  BY <1>2, <1>4 DEF Bytes
<1> QED BY <1>1, <1>3, <1>5 DEF EndOf
\* A hello is no input.
LEMMA HelloTaken ==
    ASSUME NEW c, NEW a, NEW d \in Bytes, NEW v \in Servers, NEW g \in Items, NEW i \in Items,
           v.at = "hello", pop(v.dec).used # 0, pop(v.dec).kind = HELLO, InputOk(c, a, d, v, g, i)
    PROVE  /\ Skip(v.dec, pop(v.dec).used) \in Bytes
           /\ \A x : x.at = "replayed" /\ x.dec = Skip(v.dec, pop(v.dec).used)
                    => InputOk(c, a, d, x, g, i)
<1>9. PICK y : y = [v EXCEPT !.at = "serve"]
  OBVIOUS
<1>10. y \in Servers /\ y.at = "serve" /\ y.dec = v.dec /\ Open(y) /\ Open(v)
  BY <1>9 DEF Servers, Open
<1>11. InputOk(c, a, d, y, g, i)
  <2>1. SameJoin(v.dec, d, y.dec, d)
    BY <1>10 DEF SameJoin
  <2> QED BY <1>10, <2>1, ReadJoin
<1>12. PICK z : z = Took(y)
  OBVIOUS
<1>13. FrameItem(pop(y.dec)) = <<>> /\ pop(y.dec).kind # DETACH /\ pop(y.dec).used # 0
  BY <1>10, Kinds DEF FrameItem, HELLO, INPUT, RESIZE, DETACH
<1>14. Has(g, y) = g
  BY <1>13, NoItems DEF Has
<1>15. InputOk(c, a, d, z, g, i) /\ z \in Servers
  <2>1. PICK h : h = Has(g, y)
    OBVIOUS
  <2>2. InputOk(c, a, d, z, h, i) /\ z \in Servers /\ h \in Items
    BY <1>10, <1>11, <1>12, <1>13, <2>1, ClientFrameOk
  <2> QED BY <1>14, <2>1, <2>2
<1>16. z.at = "serve" /\ z.dec = Skip(v.dec, pop(v.dec).used)
  <2>1. PICK w : w = Skip(v.dec, pop(v.dec).used)
    OBVIOUS
  <2>2. z = [y EXCEPT !.at = "serve", !.dec = w]
    BY <1>10, <1>12, <1>13, <2>1 DEF Took
  <2> QED BY <1>10, <2>1, <2>2 DEF Servers
<1>17. Skip(v.dec, pop(v.dec).used) \in Bytes
  BY <1>15, <1>16 DEF Servers
<1>18. ASSUME NEW x, x.at = "replayed", x.dec = Skip(v.dec, pop(v.dec).used)
       PROVE  InputOk(c, a, d, x, g, i)
  <2>1. SameJoin(z.dec, d, x.dec, d) /\ Open(z) /\ Open(x)
    BY <1>16, <1>18 DEF SameJoin, Open
  <2> QED BY <1>15, <2>1, ReadJoin
<1> QED BY <1>17, <1>18

\* The hello is taken: what is replayed is what is due to the client so far.
LEMMA FirstFrameStep ==
    ASSUME TerminalIInv, NEW c \in Clients, first_frame(c)
    PROVE  TerminalIInv'
<1>1. PICK a \in Attach, u \in Bytes, d \in Bytes, k \in Shuts, v \in Servers, g \in Items,
           i \in Items : \E r, q : Is(c, a, u, d, k, v, g, i, r, q)
  BY Client
<1>2. PICK r, q : Is(c, a, u, d, k, v, g, i, r, q)
  BY <1>1
<1>3. /\ srv[c].at = "hello" /\ pop(srv[c].dec).used # 0 /\ pop(srv[c].dec).kind = HELLO /\ ~over[cl[c].sess] /\ cl[c] = a /\ cut[c] = k /\ srv[c] = v /\ up[c] = u /\ down[c] = d
  <2>1. /\ srv[c].at = "hello" /\ pop(srv[c].dec).used # 0 /\ pop(srv[c].dec).kind = HELLO /\ ~over[cl[c].sess]
    BY DEF first_frame
  <2> QED BY <1>2, <2>1, Known
<1>4. UNCHANGED <<sessVars, cl, down, cut, got, bridges, given>> /\ moves' \in Nat
  BY DEF first_frame, TerminalIInv, TerminalTypeOk
<1>5. /\ Good(c, a, u, d, k, v, g, i, r, q) /\ Stages(c, a, v, k) /\ Honest(a, v)
      /\ InputOk(c, a, d, v, g, i) /\ (a.main # "off" => OutputOk(a, u, v, r, q))
  BY <1>2, Known
<1>6. /\ v.at \in {"hello", "replayed", "serve"} /\ v.at = "hello" /\ pop(v.dec).used # 0
      /\ pop(v.dec).kind = HELLO
  BY <1>3
<1>7. /\ a.main \notin {"off", "connect"} /\ "up" \notin k /\ Open(v)
      /\ InputOk(c, a, d, v, g, i) /\ OutputOk(a, u, v, r, q)
  BY <1>2, <1>6, ServedIs
<1>8. PICK y \in Bytes, h \in Bytes :
            y = ring[a.sess] /\ h = fan[a.sess] /\ v.due = <<>> /\ r = <<>> /\ ~q
  <2>1. /\ ring[a.sess] \in Bytes /\ fan[a.sess] \in Bytes /\ r = v.due /\ (q => over[a.sess])
        /\ SeamOk(v, ring[a.sess], fan[a.sess])
    BY <1>2, <1>7, SessionOf
  <2> QED BY <1>3, <1>6, <2>1 DEF SeamOk
<1>9. PICK o \in Bytes : /\ o = snapshot(a.sess) \/ o = <<>>
                        /\ srv' = [srv EXCEPT ![c] = [at |-> "replayed",
                                      dec |-> Skip(v.dec, pop(v.dec).used), due |-> o,
                                      upto |-> Len(y), from |-> Len(y) - Len(o), since |-> 0]]
                        /\ IF o = <<>> THEN UNCHANGED up
                           ELSE Push({c}, FlattenSeq(chunks(OUTPUT, o)))
  <2>1. snapshot(a.sess) \in Bytes /\ <<>> \in Bytes
    BY <1>8, SnapshotEnds, EmptyOnes
  <2>2. srv \in [Clients -> Servers]
    BY DEF TerminalIInv, TerminalTypeOk
  <2> QED BY <1>3, <1>8, <2>1, <2>2 DEF first_frame
<1>10. EndOf(o, y)
  BY <1>8, <1>9, SnapshotEnds, EndWaits
<1>11. PICK n \in Nat, w \in Bytes : n = Len(y) - Len(o) /\ w = Skip(v.dec, pop(v.dec).used)
  <2>1. Len(y) - Len(o) \in Nat
    BY <1>10 DEF EndOf, Bytes
  <2> QED BY <1>3, <1>6, <1>7, <2>1, HelloTaken
<1>12. PICK x \in Servers : x = [at |-> "replayed", dec |-> w, due |-> o, upto |-> Len(y),
                                from |-> n, since |-> 0]
  <2>1. PICK m \in Nat : m = Len(y)
    BY DEF Bytes
  <2>2. PICK x : x = [at |-> "replayed", dec |-> w, due |-> o, upto |-> m, from |-> n, since |-> 0]
    OBVIOUS
  <2>3. x \in Servers
    BY <2>2 DEF Servers
  <2> QED BY <2>1, <2>2, <2>3
<1>13. x.at = "replayed" /\ x.dec = w /\ x.due = o /\ x.upto = Len(y) /\ x.from = n /\ x.since = 0
  BY <1>12
<1>14. InputOk(c, a, d, x, g, i)
  BY <1>6, <1>7, <1>11, <1>13, HelloTaken
<1>15. SeamOk(x, y, h)
  BY <1>10, <1>11, <1>13, SeamReplays
<1>18. srv' = [srv EXCEPT ![c] = x]
  BY <1>9, <1>11, <1>12
<1>19. PICK f : f = Output(u, o)
  OBVIOUS
<1>20. a.dec \in Bytes /\ a.screen \in Bytes
  BY DEF Attach
<1>21. OutputOk(a, f, x, x.due, Full(x, a.sess)) /\ f \in Bytes
  <2>1. OutputOk(a, u, v, <<>>, q)
    BY <1>7, <1>8
  <2>2. PICK p : p = Full(x, a.sess)
    OBVIOUS
  <2>3. v.at = "hello" /\ x.at = "replayed" /\ ~q /\ a.dec \in Bytes /\ a.screen \in Bytes
    BY <1>6, <1>8, <1>13, <1>20
  <2>5. PICK m : m = <<>> /\ Nothing(m)
    BY DEF Nothing
  <2>6. OutputOk(a, u, v, m, q) /\ Nothing(m)
    BY <2>1, <2>5
  <2>4. OutputOk(a, Output(u, o), x, o, p) /\ Output(u, o) \in Bytes
    BY <2>3, <2>6, LateOk
  <2> QED BY <1>13, <1>19, <2>2, <2>4
<1>22. up' = [up EXCEPT ![c] = f]
  <2>1. up = [up EXCEPT ![c] = u]
    BY <1>2, Alone
  <2>2. CASE o = <<>>
    BY <1>9, <1>19, <2>1, <2>2 DEF Output
  <2>3. CASE o # <<>>
    <3>1. PICK b : b = FlattenSeq(chunks(OUTPUT, o))
      OBVIOUS
    <3>2. Push({c}, b)
      BY <1>9, <2>3, <3>1
    <3>3. f = up[c] \o b
      BY <1>3, <1>19, <2>3, <3>1 DEF Output
    <3> QED BY <3>2, <3>3, PushOne
  <2> QED BY <2>2, <2>3
<1>23. Stages(c, a, x, k) /\ Honest(a, x)
  <2>1. x.at \in {"hello", "replayed", "serve"}
    BY <1>13
  <2> QED BY <1>2, <1>6, <1>7, <2>1, ServedIs
<1>24. Good(c, a, f, d, k, x, g, i, x.due, Full(x, a.sess))
  BY <1>7, <1>14, <1>21, <1>23 DEF Good
<1>25. /\ down = [down EXCEPT ![c] = d] /\ cut = [cut EXCEPT ![c] = k] /\ got = [got EXCEPT ![c] = g]
  BY <1>2, Alone
<1>26. Served(c, f, d, k, x, g)
  <2>1. /\ down' = [down EXCEPT ![c] = d] /\ cut' = [cut EXCEPT ![c] = k] /\ got' = [got EXCEPT ![c] = g]
    BY <1>4, <1>25
  <2> QED BY <1>18, <1>22, <2>1, Zenon DEF Served
<1>27. a.main # "off" /\ SeamOk(x, ring[a.sess], fan[a.sess])
  BY <1>7, <1>8, <1>15
<1> QED BY <1>2, <1>4, <1>21, <1>24, <1>26, <1>27, HelloSteps

\* It has its place in the list.
LEMMA RegisterStep ==
    ASSUME TerminalIInv, NEW c \in Clients, register(c)
    PROVE  TerminalIInv'
<1>1. PICK a \in Attach, u \in Bytes, d \in Bytes, k \in Shuts, v \in Servers, g \in Items,
           i \in Items : \E r, q : Is(c, a, u, d, k, v, g, i, r, q)
  BY Client
<1>2. PICK r, q : Is(c, a, u, d, k, v, g, i, r, q)
  BY <1>1
<1>3. v.at = "replayed" /\ ~over[a.sess] /\ cl[c] = a /\ srv[c] = v
  <2>1. cl[c] = a /\ srv[c] = v
    BY <1>2, Known
  <2> QED BY <2>1 DEF register
<1>4. UNCHANGED <<sessVars, cl, up, down, cut, got, bridges, given>> /\ moves' \in Nat
  BY DEF register, wireVars, TerminalIInv, TerminalTypeOk
<1>5. /\ a.main \notin {"off", "connect"} /\ "up" \notin k /\ Open(v)
      /\ InputOk(c, a, d, v, g, i) /\ OutputOk(a, u, v, r, q)
  BY <1>2, <1>3, ServedIs
<1>6. PICK y \in Bytes, h \in Bytes : /\ y = ring[a.sess] /\ h = fan[a.sess] /\ EndOf(h, y)
                                     /\ SeamOk(v, y, h) /\ r = v.due /\ ~q
  BY <1>2, <1>3, <1>5, SessionOf
<1>17. PICK n \in Nat : n = Len(y) - Len(h)
  <2>1. EndOf(h, y)
    BY <1>6
  <2>2. Len(h) <= Len(y)
    BY <2>1 DEF EndOf
  <2>3. Len(h) \in Nat /\ Len(y) \in Nat
    BY DEF Bytes
  <2> QED BY <2>2, <2>3
<1>7. PICK x \in Servers : x = [v EXCEPT !.at = "serve", !.since = n]
  BY <1>17 DEF Servers
<1>8. SeamOk(x, y, h) /\ x.due = v.due /\ x.at = "serve" /\ x.dec = v.dec
  <2>1. SeamOk(v, y, h) /\ EndOf(h, y) /\ v.at = "replayed"
    BY <1>3, <1>6
  <2>2. /\ x.at = "serve" /\ x.due = v.due /\ x.upto = v.upto /\ x.from = v.from /\ x.since = n
        /\ x.dec = v.dec
    BY <1>7 DEF Servers
  <2>3. SeamOk(x, y, h)
    BY <1>17, <2>1, <2>2, SeamRegisters
  <2> QED BY <2>2, <2>3
<1>9. InputOk(c, a, d, x, g, i)
  <2>1. SameJoin(v.dec, d, x.dec, d) /\ Open(x)
    BY <1>8 DEF SameJoin, Open
  <2> QED BY <1>5, <2>1, ReadJoin
<1>10. OutputOk(a, u, x, x.due, Full(x, a.sess))
  <2>1. OutputOk(a, u, x, r, Full(x, a.sess))
    BY <1>3, <1>5, <1>6, <1>8, ShownStill
  <2> QED BY <1>6, <1>8, <2>1
<1>11. Stages(c, a, x, k) /\ Honest(a, x)
  <2>1. x.at \in {"hello", "replayed", "serve"}
    BY <1>8
  <2> QED BY <1>2, <1>3, <1>5, <2>1, ServedIs
<1>12. Good(c, a, u, d, k, x, g, i, x.due, Full(x, a.sess))
  BY <1>5, <1>9, <1>10, <1>11 DEF Good
<1>13. srv' = [srv EXCEPT ![c] = x]
  BY <1>3, <1>6, <1>7, <1>17 DEF register
<1>14. /\ up = [up EXCEPT ![c] = u] /\ down = [down EXCEPT ![c] = d] /\ cut = [cut EXCEPT ![c] = k]
       /\ got = [got EXCEPT ![c] = g]
  BY <1>2, Alone
<1>15. Served(c, u, d, k, x, g)
  <2>1. /\ up' = [up EXCEPT ![c] = u] /\ down' = [down EXCEPT ![c] = d]
        /\ cut' = [cut EXCEPT ![c] = k] /\ got' = [got EXCEPT ![c] = g]
    BY <1>4, <1>14
  <2> QED BY <1>13, <2>1, Zenon DEF Served
<1>16. a.main # "off" /\ SeamOk(x, ring[a.sess], fan[a.sess])
  BY <1>5, <1>6, <1>8
<1> QED BY <1>2, <1>4, <1>8, <1>12, <1>15, <1>16, HelloSteps

\* A client that comes too late is refused, or left.
LEMMA RejectStep ==
    ASSUME TerminalIInv, NEW c \in Clients, reject(c)
    PROVE  TerminalIInv'
<1>1. PICK a \in Attach, u \in Bytes, d \in Bytes, k \in Shuts, v \in Servers, g \in Items,
           i \in Items : \E r, q : Is(c, a, u, d, k, v, g, i, r, q)
  BY Client
<1>2. PICK r, q : Is(c, a, u, d, k, v, g, i, r, q)
  BY <1>1
<1>3. srv[c].at \in {"hello", "replayed"} /\ over[cl[c].sess] /\ cl[c] = a /\ cut[c] = k /\ srv[c] = v /\ up[c] = u /\ down[c] = d
  <2>1. srv[c].at \in {"hello", "replayed"} /\ over[cl[c].sess]
    BY DEF reject
  <2> QED BY <1>2, <2>1, Known
<1>4. UNCHANGED <<sessVars, cl, down, got, bridges, given>> /\ moves' \in Nat
  BY DEF reject, TerminalIInv, TerminalTypeOk
<1>5. /\ Good(c, a, u, d, k, v, g, i, r, q) /\ Stages(c, a, v, k) /\ Honest(a, v)
      /\ InputOk(c, a, d, v, g, i) /\ (a.main # "off" => OutputOk(a, u, v, r, q))
  BY <1>2, Known
<1>6. v.at \in {"hello", "replayed", "serve"}
  BY <1>3
<1>7. Shut({c}) /\ Leave({c})
  BY DEF reject
<1>8. srv' = [srv EXCEPT ![c] = Left(srv[c])]
  BY <1>7, LeaveOne
<1>9. CASE UNCHANGED up
  <2>1. UNCHANGED <<sessVars, cl, up, down, got, bridges, given>>
    BY <1>4, <1>9
  <2> QED BY <1>2, <1>4, <1>6, <1>7, <1>8, <2>1, LeftSteps
<1>10. CASE srv[c].at = "hello" /\ Push({c}, encode(CLOSED, <<Code("protocol")>>))
  <2>1. PICK l \in Shuts : l = cut[c] \cup {"up"} /\ cut' = [cut EXCEPT ![c] = l]
    BY <1>7, ShutOne
  <2>2. cut' = [cut EXCEPT ![c] = l] /\ "up" \in l
    BY <2>1
  <2>3. PICK x \in Servers : x = Left(v) /\ x.at = "gone" /\ SameDue(v, x)
    BY LeftType
  <2>4. srv' = [srv EXCEPT ![c] = x]
    BY <1>3, <1>8, <2>3
  <2>5. /\ a.main # "off" /\ Stages(c, a, x, l) /\ Honest(a, x)
        /\ InputOk(c, a, d, v, g, i) /\ OutputOk(a, u, v, r, q)
    BY <1>2, <1>6, <2>2, <2>3, ServedIs
  <2>6. InputOk(c, a, d, x, g, i)
    BY <2>3, <2>5, GoneOk
  <2>7. r \in Bytes /\ a.dec \in Bytes
    BY <1>2, <2>5, SessionOf DEF Attach
  <2>8. PICK t \in Reasons \cup {"protocol"} : t = "protocol" /\ t \notin Reasons
    BY Sayings
  <2>9. OutputOk(a, Word(u, t), x, r, q) /\ Word(u, t) \in Bytes
    <3>1. /\ v.at \in {"hello", "serve"} /\ x.at = "gone" /\ OutputOk(a, u, v, r, q)
          /\ r \in Bytes /\ a.dec \in Bytes /\ t \notin Reasons
      BY <1>3, <1>10, <2>3, <2>5, <2>7, <2>8
    <3> QED BY <3>1, ToldOk
  <2>10. PICK f \in Bytes : f = Word(u, t)
    BY <2>9
  <2>11. OutputOk(a, f, x, r, q)
    BY <2>9, <2>10
  <2>12. up' = [up EXCEPT ![c] = f]
    <3>1. PICK b : b = encode(CLOSED, <<Code(t)>>)
      OBVIOUS
    <3>2. Push({c}, b) /\ f = up[c] \o b
      BY <1>3, <1>10, <2>8, <2>10, <3>1 DEF Word
    <3> QED BY <3>2, PushOne
  <2>13. Good(c, a, f, d, l, x, g, i, r, q)
    BY <2>5, <2>6, <2>11 DEF Good
  <2>14. down = [down EXCEPT ![c] = d] /\ got = [got EXCEPT ![c] = g]
    BY <1>2, Alone
  <2>15. Served(c, f, d, l, x, g)
    <3>1. down' = [down EXCEPT ![c] = d] /\ got' = [got EXCEPT ![c] = g]
      BY <1>4, <2>14
    <3> QED BY <2>2, <2>4, <2>12, <3>1, Zenon DEF Served
  <2>16. a.main # "off"
    BY <2>5
  <2> QED BY <1>2, <1>4, <2>3, <2>13, <2>15, <2>16, ServerSteps
<1> QED BY <1>9, <1>10 DEF reject

-----------------------------------------------------------------------------
(* The steps of a session.                                                  *)

\* A client that is not there is as it was.
LEMMA OffOk ==
    ASSUME NEW c, NEW a, NEW u, NEW d, NEW k, NEW v, NEW g, NEW i, NEW r, NEW q, NEW x, NEW y,
           Good(c, a, u, d, k, v, g, i, r, q), a.main = "off"
    PROVE  Good(c, a, u, d, k, v, g, i, x, y)
BY DEF Good

\* The attaches and the bridges stay.
LEMMA SessionSteps ==
    ASSUME TerminalIInv, TerminalTypeOk', UNCHANGED <<cl, bridges>>,
           \A c \in Clients : cl[c].main # "off" => ClientOk(c)',
           \A c \in Clients : \/ /\ up'[c] = up[c] /\ down'[c] = down[c] /\ cut'[c] = cut[c]
                                 /\ srv'[c] = srv[c] /\ got'[c] = got[c] /\ given'[c] = given[c]
                              \/ cl[c].main # "off",
           \A s \in Sessions : FilterOk(wrote[s], pty[s], filter[s], ring[s])' /\ EndOf(fan[s], ring[s])'
    PROVE  TerminalIInv'
<1>1. cl' = cl /\ bridges' = bridges
  OBVIOUS
<1>2. ASSUME NEW c \in Clients PROVE ClientOk(c)'
  <2>1. CASE cl[c].main = "off"
    <3>1. ClientOk(c)
      BY DEF TerminalIInv
    <3>2. /\ up'[c] = up[c] /\ down'[c] = down[c] /\ cut'[c] = cut[c]
          /\ srv'[c] = srv[c] /\ got'[c] = got[c] /\ given'[c] = given[c]
      BY <2>1
    <3>5. PICK p : p = Full(srv[c], cl[c].sess)'
      OBVIOUS
    <3>3. Good(c, cl[c], up[c], down[c], cut[c], srv[c], got[c], given[c], srv'[c].due, p)
      BY <2>1, <3>1, OffOk DEF ClientOk
    <3>4. Good(c, cl'[c], up'[c], down'[c], cut'[c], srv'[c], got'[c], given'[c], srv'[c].due, p)
      BY <1>1, <3>2, <3>3
    <3> QED BY <1>1, <2>1, <3>4, <3>5 DEF ClientOk
  <2> QED BY <2>1
<1>3. ASSUME NEW s \in Sessions, bridges'[s] # NoClient PROVE BridgeOk(s, bridges[s])'
  <2>1. BridgeOk(s, bridges[s])
    BY <1>1, <1>3 DEF TerminalIInv
  <2> QED BY <1>1, <2>1 DEF BridgeOk
<1> QED BY <1>2, <1>3 DEF TerminalIInv

\* A client is as it was, and what is due to it.
LEMMA ClientStays ==
    ASSUME TerminalIInv, NEW c \in Clients, NEW s, s = cl[c].sess, cl'[c] = cl[c],
           up'[c] = up[c], down'[c] = down[c], cut'[c] = cut[c], srv'[c] = srv[c],
           got'[c] = got[c], given'[c] = given[c],
           ring'[s] = ring[s], fan'[s] = fan[s], over'[s] = over[s], pty'[s] = pty[s] \/ ~over[s]
    PROVE  ClientOk(c)'
<1>1. ClientOk(c)
  BY DEF TerminalIInv
<1>2. Full(srv[c], cl[c].sess)' = Full(srv[c], cl[c].sess)
  BY DEF Full
<1>3. PICK q : q = Full(srv[c], cl[c].sess)
  OBVIOUS
<1>4. Good(c, cl[c], up[c], down[c], cut[c], srv[c], got[c], given[c], srv[c].due, q)
  BY <1>1, <1>3 DEF ClientOk
<1>5. Good(c, cl'[c], up'[c], down'[c], cut'[c], srv'[c], got'[c], given'[c], srv'[c].due, q)
  BY <1>4
<1>6. cl'[c].main # "off" => SeamOk(srv'[c], ring'[cl'[c].sess], fan'[cl'[c].sess])
  BY <1>1 DEF ClientOk
<1> QED BY <1>2, <1>3, <1>5, <1>6 DEF ClientOk
\* A client that is there has a session.
LEMMA SessHas ==
    ASSUME TerminalIInv, NEW c \in Clients, cl[c].main # "off" \/ srv[c].at = "serve"
    PROVE  cl[c].main # "off" /\ cl[c].sess \in Sessions
<1>1. Stages(c, cl[c], srv[c], cut[c])
  BY DEF TerminalIInv, ClientOk, Good
<1> QED BY <1>1 DEF Stages

\* A harness writes.
LEMMA HarnessStep ==
    ASSUME TerminalIInv, NEW s \in Sessions, NEW tok \in Tokens, harness_writes(s, tok)
    PROVE  TerminalIInv'
<1>1. /\ wrote' = [wrote EXCEPT ![s] = Append(@, tok)] /\ pty' = [pty EXCEPT ![s] = @ \o tok.bytes]
      /\ UNCHANGED <<filter, ring, fan, over, cl, wireVars, srv, got, bridges, given>> /\ ~over[s]
  BY DEF harness_writes
<1>2. moves' \in Nat
  BY DEF harness_writes, Move, TerminalIInv, TerminalTypeOk
<1>3. UNCHANGED <<filter, ring, fan, over, cl, up, down, cut, srv, got, bridges, given>>
  BY <1>1 DEF wireVars
<1>4. tok.bytes \in Bytes
  BY TokensAssumption DEF Bytes
<1>5. PICK n \in Bytes : n = pty[s] \o tok.bytes
  <2>1. pty[s] \in Bytes
    BY DEF TerminalIInv, TerminalTypeOk
  <2> QED BY <1>4, <2>1, JoinBytes
<1>6. pty' = [pty EXCEPT ![s] = n]
  BY <1>1, <1>5
<1>7. PICK m \in Seq(Tokens) : m = Append(wrote[s], tok)
  <2>1. PICK w \in Seq(Tokens) : w = wrote[s]
    BY DEF TerminalIInv, TerminalTypeOk
  <2>2. Append(w, tok) \in Seq(Tokens)
    OBVIOUS
  <2> QED BY <2>1, <2>2
<1>8. wrote' = [wrote EXCEPT ![s] = m]
  BY <1>1, <1>7
<1>9. TerminalTypeOk'
  BY <1>2, <1>3, <1>6, <1>8 DEF TerminalIInv, TerminalTypeOk
<1>10. /\ pty'[s] = n /\ wrote'[s] = m
       /\ \A o \in Sessions \ {s} : pty'[o] = pty[o] /\ wrote'[o] = wrote[o]
  BY <1>6, <1>8 DEF TerminalIInv, TerminalTypeOk
<1>12. ASSUME NEW c \in Clients, cl[c].main # "off" PROVE ClientOk(c)'
  <2>1. PICK t \in Sessions : t = cl[c].sess
    BY <1>12, SessHas
  <2>2. pty'[t] = pty[t] \/ ~over[t]
    BY <1>1, <1>10
  <2> QED BY <1>3, <2>1, <2>2, ClientStays
<1>13. ASSUME NEW o \in Sessions
       PROVE  FilterOk(wrote[o], pty[o], filter[o], ring[o])' /\ EndOf(fan[o], ring[o])'
  <2>1. FilterOk(wrote[o], pty[o], filter[o], ring[o]) /\ EndOf(fan[o], ring[o])
    BY DEF TerminalIInv
  <2>2. CASE o = s
    <3>1. FilterOk(m, n, filter[s], ring[s])
      BY <1>5, <1>7, <2>1, <2>2, FilterWrites
    <3> QED BY <1>3, <1>10, <2>1, <2>2, <3>1
  <2> QED BY <1>3, <1>10, <2>1, <2>2
<1>14. \A c \in Clients : /\ up'[c] = up[c] /\ down'[c] = down[c] /\ cut'[c] = cut[c]
                          /\ srv'[c] = srv[c] /\ got'[c] = got[c] /\ given'[c] = given[c]
  BY <1>3
<1> QED BY <1>3, <1>9, <1>12, <1>13, <1>14, SessionSteps

\* Many clients are pushed bytes, shut, left.
LEMMA PushAll ==
    ASSUME TerminalIInv, NEW S, NEW b \in Bytes, Push(S, b)
    PROVE  /\ up' \in [Clients -> Bytes]
           /\ \A c \in Clients : /\ c \in S => Joined(up'[c], up[c], b)
                                 /\ c \notin S => up'[c] = up[c]
<1>1. up \in [Clients -> Bytes]
  BY DEF TerminalIInv, TerminalTypeOk
<1>2. \A c \in Clients : up[c] \in Bytes /\ up[c] \o b \in Bytes
  BY <1>1, JoinBytes
<1>3. PICK h : h = [c \in Clients |-> up[c] \o b]
  OBVIOUS
<1>4. \A c \in Clients : h[c] \in Bytes /\ Joined(h[c], up[c], b)
  BY <1>2, <1>3 DEF Joined
<1>5. up' = [c \in Clients |-> IF c \in S THEN h[c] ELSE up[c]]
  BY <1>3 DEF Push
<1> QED BY <1>2, <1>4, <1>5

\* Sockets shut for many clients are cut for them alone.
LEMMA ShutAll ==
    ASSUME TerminalIInv, NEW S, Shut(S)
    PROVE  /\ cut' \in [Clients -> Shuts]
           /\ \A c \in Clients : cut'[c] = IF c \in S THEN cut[c] \cup {"up"} ELSE cut[c]
BY DEF TerminalIInv, TerminalTypeOk, Shut, Shuts

\* Clients that leave the list are gone, and they alone.
LEMMA LeaveAll ==
    ASSUME TerminalIInv, NEW S, Leave(S)
    PROVE  /\ srv' \in [Clients -> Servers]
           /\ \A c \in Clients : srv'[c] = IF c \in S THEN Left(srv[c]) ELSE srv[c]
<1>1. srv \in [Clients -> Servers]
  BY DEF TerminalIInv, TerminalTypeOk
<1>2. srv' = [c \in Clients |-> IF c \in S THEN Left(srv[c]) ELSE srv[c]]
  BY DEF Leave, Left
<1> QED BY <1>1, <1>2, LeftType

\* A client stays good when it is sent output.
LEMMA OutputGood ==
    ASSUME NEW c, NEW a \in Attach, NEW u \in Bytes, NEW d, NEW k, NEW v, NEW g, NEW i,
           NEW r \in Bytes, NEW q, Good(c, a, u, d, k, v, g, i, r, q), ~q, a.main # "off",
           NEW o \in Bytes, o # <<>>, NEW y, Joined(y, r, o), NEW p,
           NEW x, v.at = "serve", x.at = v.at, x.dec = v.dec
    PROVE  Good(c, a, Output(u, o), d, k, x, g, i, y, p)
<1>1. /\ OutputOk(a, u, v, r, q) /\ a.screen \in Bytes /\ a.dec \in Bytes
      /\ Stages(c, a, v, k) /\ Honest(a, v) /\ InputOk(c, a, d, v, g, i)
  BY DEF Good, Attach
<1>2. OutputOk(a, Output(u, o), x, y, p)
  BY <1>1, SentOk
<1>3. Stages(c, a, x, k) /\ Honest(a, x)
  BY <1>1 DEF Stages, Honest
<1>4. InputOk(c, a, d, x, g, i)
  <2>1. SameJoin(v.dec, d, x.dec, d) /\ Open(v) /\ Open(x)
    BY DEF SameJoin, Open
  <2> QED BY <1>1, <2>1, ReadJoin
<1> QED BY <1>2, <1>3, <1>4 DEF Good

\* When the session ends, and it is told, left or not in the list.
Since(q, p) == q => p

\* A client stays good when it is told that its session ended.
LEMMA ToldGood ==
    ASSUME NEW c, NEW a \in Attach, NEW u \in Bytes, NEW d, NEW k, NEW v \in Servers, NEW g \in Items,
           NEW i \in Items, NEW r \in Bytes, NEW q, Good(c, a, u, d, k, v, g, i, r, q),
           v.at = "serve", a.main # "off", NEW t \in Reasons, NEW p, Since(q, p), p,
           NEW x, x = Left(v), NEW l, l = k \cup {"up"}, NEW f, f = Word(u, t)
    PROVE  Good(c, a, f, d, l, x, g, i, r, p)
<1>1. /\ Stages(c, a, v, k) /\ Honest(a, v) /\ InputOk(c, a, d, v, g, i) /\ OutputOk(a, u, v, r, q)
      /\ a.dec \in Bytes
  BY DEF Good, Attach
<1>2. x.at = "gone"
  BY LeftType
<1>3. OutputOk(a, f, x, r, p)
  BY <1>1, <1>2, ToldOk DEF Since
<1>4. Stages(c, a, x, l) /\ Honest(a, x)
  BY <1>1, <1>2 DEF Stages, Honest
<1>5. InputOk(c, a, d, x, g, i)
  BY <1>1, <1>2, GoneOk
<1> QED BY <1>3, <1>4, <1>5 DEF Good

\* A client stays good when it is told and taken off the list.
LEMMA LeftGood ==
    ASSUME NEW c, NEW a \in Attach, NEW u, NEW d, NEW k, NEW v \in Servers, NEW g \in Items,
           NEW i \in Items, NEW r, NEW q, Good(c, a, u, d, k, v, g, i, r, q),
           v.at = "serve", a.main # "off", NEW p, Since(q, p),
           NEW x, x = Left(v), NEW l, l = k \cup {"up"}
    PROVE  Good(c, a, u, d, l, x, g, i, r, p)
<1>1. /\ Stages(c, a, v, k) /\ Honest(a, v) /\ InputOk(c, a, d, v, g, i) /\ OutputOk(a, u, v, r, q)
  BY DEF Good
<1>2. x.at = "gone"
  BY LeftType
<1>3. OutputOk(a, u, x, r, p)
  BY <1>1, <1>2, ShownStill DEF Since
<1>4. Stages(c, a, x, l) /\ Honest(a, x)
  BY <1>1, <1>2 DEF Stages, Honest
<1>5. InputOk(c, a, d, x, g, i)
  BY <1>1, <1>2, GoneOk
<1> QED BY <1>3, <1>4, <1>5 DEF Good

\* A client stays good when the session ends and it hears nothing.
LEMMA EndGood ==
    ASSUME NEW c, NEW a, NEW u, NEW d, NEW k, NEW v, NEW g, NEW i, NEW r, NEW q,
           Good(c, a, u, d, k, v, g, i, r, q), NEW p, Since(q, p)
    PROVE  Good(c, a, u, d, k, v, g, i, r, p)
<1>1. CASE a.main = "off"
  BY <1>1, OffOk
<1>2. CASE a.main # "off"
  <2>1. OutputOk(a, u, v, r, q)
    BY <1>2 DEF Good
  <2>2. OutputOk(a, u, v, r, p)
    BY <2>1, ShownStill DEF Since
  <2> QED BY <2>2 DEF Good
<1> QED BY <1>1, <1>2

\* The supervisor reads what a harness wrote.
LEMMA ServeStep ==
    ASSUME TerminalIInv, NEW s \in Sessions, serve(s)
    PROVE  TerminalIInv'
<1>1. PICK n \in ReadSizes :
         /\ pty' = [pty EXCEPT ![s] = Skip(@, n)]
         /\ filter' = [filter EXCEPT ![s] = Clear(feed(filter[s], Take(pty[s], n)))]
         /\ ring' = [ring EXCEPT ![s] = @ \o feed(filter[s], Take(pty[s], n)).out]
         /\ fan' = [fan EXCEPT ![s] = feed(filter[s], Take(pty[s], n)).out]
  BY DEF serve, Clear
<1>2. /\ ~over[s] /\ fan[s] = <<>>
      /\ UNCHANGED <<wrote, over, cl, up, down, cut, srv, got, bridges, given, moves>>
  BY DEF serve, wireVars
<1>3. n \in Nat
  BY TerminalAssumption
<1>4. pty[s] \in Bytes /\ filter[s] \in Filters /\ ring[s] \in Bytes
  BY DEF TerminalIInv, TerminalTypeOk
<1>5. PICK x \in Bytes : x = Take(pty[s], n)
  BY <1>3, <1>4, CutBytes
<1>6. PICK y \in Bytes : y = Skip(pty[s], n)
  BY <1>3, <1>4, CutBytes
<1>7. PICK h \in Filters : h = feed(filter[s], x)
  BY <1>4, FeedSame
<1>8. PICK g \in Filters : g = Clear(h)
  BY ClearType
<1>9. PICK o \in Bytes : o = h.out
  BY DEF Filters
<1>10. PICK j \in Bytes : Joined(j, ring[s], o)
  BY <1>4, JoinBytes DEF Joined
<1>11. /\ pty' = [pty EXCEPT ![s] = y] /\ filter' = [filter EXCEPT ![s] = g]
       /\ ring' = [ring EXCEPT ![s] = j] /\ fan' = [fan EXCEPT ![s] = o]
  <2>1. j = ring[s] \o o
    BY <1>10 DEF Joined
  <2> QED BY <1>1, <1>5, <1>6, <1>7, <1>8, <1>9, <2>1
<1>12. TerminalTypeOk'
  BY <1>2, <1>11 DEF TerminalIInv, TerminalTypeOk
<1>13. /\ pty'[s] = y /\ filter'[s] = g /\ ring'[s] = j /\ fan'[s] = o
       /\ \A t \in Sessions \ {s} : /\ pty'[t] = pty[t] /\ filter'[t] = filter[t]
                                    /\ ring'[t] = ring[t] /\ fan'[t] = fan[t]
  BY <1>11 DEF TerminalIInv, TerminalTypeOk
<1>14. ASSUME NEW c \in Clients, cl[c].main # "off" PROVE ClientOk(c)'
  <2>1. PICK t \in Sessions : t = cl[c].sess
    BY <1>14, SessHas
  <2>2. CASE t # s
    BY <1>2, <1>13, <2>1, <2>2, ClientStays
  <2>3. CASE t = s
    <3>1. ClientOk(c) /\ srv[c] \in Servers
      BY DEF TerminalIInv, TerminalTypeOk
    <3>2. Full(srv[c], cl[c].sess)' = Full(srv[c], cl[c].sess)
      BY <1>2, <2>1, <2>3 DEF Full
    <3>3. PICK q : q = Full(srv[c], cl[c].sess)
      OBVIOUS
    <3>4. Good(c, cl[c], up[c], down[c], cut[c], srv[c], got[c], given[c], srv[c].due, q)
      BY <3>1, <3>3 DEF ClientOk
    <3>5. Good(c, cl'[c], up'[c], down'[c], cut'[c], srv'[c], got'[c], given'[c], srv'[c].due, q)
      BY <1>2, <3>4
    <3>6. SeamOk(srv'[c], j, o)
      <4>1. PICK v \in Servers : v = srv[c]
        BY <3>1
      <4>2. PICK r \in Bytes : r = ring[s]
        BY <1>4
      <4>3. SeamOk(v, r, <<>>)
        BY <1>2, <1>14, <2>1, <2>3, <3>1, <4>1, <4>2 DEF ClientOk
      <4>4. SeamOk(v, r \o o, o)
        BY <4>3, SeamReads
      <4>5. r \o o = j
        BY <1>10, <4>2 DEF Joined
      <4> QED BY <1>2, <4>1, <4>4, <4>5
    <3>7. cl'[c].main # "off" => SeamOk(srv'[c], ring'[cl'[c].sess], fan'[cl'[c].sess])
      BY <1>2, <1>13, <2>1, <2>3, <3>6
    <3> QED BY <3>2, <3>3, <3>5, <3>7 DEF ClientOk
  <2> QED BY <2>2, <2>3
<1>15. ASSUME NEW t \in Sessions
       PROVE  FilterOk(wrote[t], pty[t], filter[t], ring[t])' /\ EndOf(fan[t], ring[t])'
  <2>1. FilterOk(wrote[t], pty[t], filter[t], ring[t]) /\ EndOf(fan[t], ring[t])
    BY DEF TerminalIInv
  <2>2. CASE t = s
    <3>1. Joined(j, ring[s], feed(filter[s], Take(pty[s], n)).out)
      BY <1>5, <1>7, <1>9, <1>10
    <3>2. FilterOk(wrote[s], Skip(pty[s], n), Clear(feed(filter[s], Take(pty[s], n))), j)
      BY <1>3, <2>1, <2>2, <3>1, FilterReads
    <3>3. FilterOk(wrote[s], y, g, j)
      BY <1>5, <1>6, <1>7, <1>8, <3>2
    <3>4. EndOf(o, j)
      <4>1. PICK r \in Bytes : r = ring[s]
        BY <1>4
      <4>2. r \o o = j
        BY <1>10, <4>1 DEF Joined
      <4> QED BY <4>2, EndWaits
    <3> QED BY <1>2, <1>13, <2>2, <3>3, <3>4
  <2> QED BY <1>2, <1>13, <2>1, <2>2
<1>16. \A c \in Clients : /\ up'[c] = up[c] /\ down'[c] = down[c] /\ cut'[c] = cut[c]
                          /\ srv'[c] = srv[c] /\ got'[c] = got[c] /\ given'[c] = given[c]
  BY <1>2
<1> QED BY <1>2, <1>12, <1>14, <1>15, <1>16, SessionSteps

\* What it read goes to those in the list.
LEMMA BroadcastStep ==
    ASSUME TerminalIInv, NEW s \in Sessions, broadcast(s)
    PROVE  TerminalIInv'
<1>1. PICK o \in Bytes, y \in Bytes : o = fan[s] /\ o # <<>> /\ y = ring[s]
  BY DEF broadcast, TerminalIInv, TerminalTypeOk
<1>2. /\ ~over[s] /\ fan' = [fan EXCEPT ![s] = <<>>]
      /\ UNCHANGED <<wrote, pty, filter, ring, over, cl, down, cut, got, bridges, given, moves>>
  BY DEF broadcast
<1>3. PICK b \in Bytes : b = FlattenSeq(chunks(OUTPUT, o))
  BY <1>1, ChunksCarried, CarriesNothing, EmptyOnes
<1>4. Push(Registered(s), b)
  BY <1>1, <1>3 DEF broadcast
<1>5. /\ up' \in [Clients -> Bytes]
      /\ \A c \in Clients : /\ c \in Registered(s) => Joined(up'[c], up[c], b)
                            /\ c \notin Registered(s) => up'[c] = up[c]
  BY <1>4, PushAll
<1>6. \A c \in Clients : Joined(up'[c], up[c], b) => up'[c] = Output(up[c], o)
  BY <1>1, <1>3 DEF Joined, Output
<1>7. srv' = [c \in Clients |-> IF c \in Registered(s) THEN [srv[c] EXCEPT !.due = @ \o o] ELSE srv[c]]
  BY <1>1 DEF broadcast
<1>8. ASSUME NEW c \in Clients, c \in Registered(s)
      PROVE  /\ srv'[c] \in Servers /\ SeamOk(srv'[c], y, <<>>) /\ srv'[c].at = "serve"
             /\ srv'[c].dec = srv[c].dec /\ Joined(srv'[c].due, srv[c].due, o)
             /\ srv[c].at = "serve" /\ cl[c].sess = s /\ cl[c].main # "off"
  <2>1. srv[c].at = "serve" /\ cl[c].sess = s
    BY <1>8 DEF Registered
  <2>2. cl[c].main # "off"
    BY <2>1, SessHas
  <2>3. PICK v \in Servers : v = srv[c]
    BY DEF TerminalIInv, TerminalTypeOk
  <2>4. SeamOk(v, y, o) /\ v.at = "serve"
    BY <1>1, <2>1, <2>2, <2>3 DEF TerminalIInv, ClientOk
  <2>5. PICK e \in Bytes : Joined(e, v.due, o) /\ e = v.due \o o
    BY JoinBytes DEF Servers, Joined
  <2>6. PICK x : x = [v EXCEPT !.due = e]
    OBVIOUS
  <2>7. /\ x \in Servers /\ x.due = e /\ x.at = v.at /\ x.dec = v.dec
        /\ x.upto = v.upto /\ x.from = v.from /\ x.since = v.since
    BY <2>6 DEF Servers
  <2>8. SeamOk(x, y, <<>>)
    BY <2>4, <2>5, <2>7, SeamSends
  <2>9. srv'[c] = x
    BY <1>7, <1>8, <2>3, <2>5, <2>6
  <2> QED BY <2>1, <2>2, <2>3, <2>4, <2>5, <2>7, <2>8, <2>9
<1>9. \A c \in Clients : c \notin Registered(s) => srv'[c] = srv[c]
  BY <1>7
<1>10. srv' \in [Clients -> Servers]
  <2>1. \A c \in Clients : srv'[c] \in Servers
    BY <1>8, <1>9 DEF TerminalIInv, TerminalTypeOk
  <2>2. PICK h : h = [c \in Clients |-> IF c \in Registered(s) THEN [srv[c] EXCEPT !.due = @ \o o] ELSE srv[c]]
    OBVIOUS
  <2>3. srv' = h /\ h = [c \in Clients |-> h[c]]
    BY <1>7, <2>2
  <2> QED BY <2>1, <2>3
<1>11. TerminalTypeOk'
  <2>1. fan' \in [Sessions -> Bytes]
    BY <1>2, EmptyOnes DEF TerminalIInv, TerminalTypeOk
  <2> QED BY <1>2, <1>5, <1>10, <2>1 DEF TerminalIInv, TerminalTypeOk
<1>12. fan'[s] = <<>> /\ \A t \in Sessions \ {s} : fan'[t] = fan[t]
  BY <1>2 DEF TerminalIInv, TerminalTypeOk
<1>13. ASSUME NEW c \in Clients, cl[c].main # "off" PROVE ClientOk(c)'
  <2>1. PICK t \in Sessions : t = cl[c].sess
    BY <1>13, SessHas
  <2>2. CASE t # s
    <3>1. c \notin Registered(s)
      BY <2>1, <2>2 DEF Registered
    <3>2. up'[c] = up[c] /\ srv'[c] = srv[c]
      BY <1>5, <1>9, <3>1
    <3>3. fan'[t] = fan[t]
      BY <1>12, <2>2
    <3> QED BY <1>2, <2>1, <3>2, <3>3, ClientStays
  <2>3. CASE t = s
    <3>1. ClientOk(c) /\ ~Full(srv[c], cl[c].sess)
      BY <1>2, <2>1, <2>3 DEF TerminalIInv, Full
    <3>2. PICK q : q = Full(srv[c], cl[c].sess) /\ ~q
      BY <3>1
    <3>3. PICK p : p = Full(srv[c], cl[c].sess)' /\ ~p
      BY <1>2, <2>1, <2>3 DEF Full
    <3>4. Good(c, cl[c], up[c], down[c], cut[c], srv[c], got[c], given[c], srv[c].due, q)
      BY <3>1, <3>2 DEF ClientOk
    <3>5. SeamOk(srv[c], y, o)
      BY <1>1, <1>13, <2>1, <2>3, <3>1 DEF ClientOk
    <3>6. CASE c \notin Registered(s)
      <4>1. srv[c].at # "serve"
        BY <2>1, <2>3, <3>6 DEF Registered
      <4>2. up'[c] = up[c] /\ srv'[c] = srv[c]
        BY <1>5, <1>9, <3>6
      <4>3. PICK e : e = fan'[s] /\ e = <<>>
        BY <1>12
      <4>4. SeamOk(srv[c], y, e)
        BY <3>5, <4>1, SeamUnsent
      <4>5. cl'[c].main # "off" => SeamOk(srv'[c], ring'[cl'[c].sess], fan'[cl'[c].sess])
        BY <1>1, <1>2, <2>1, <2>3, <4>2, <4>3, <4>4
      <4>6. p = q
        BY <1>2, <2>1, <2>3, <3>2, <3>3, <4>2 DEF Full
      <4>7. Good(c, cl'[c], up'[c], down'[c], cut'[c], srv'[c], got'[c], given'[c], srv'[c].due, p)
        BY <1>2, <3>4, <4>2, <4>6
      <4> QED BY <3>3, <4>5, <4>7 DEF ClientOk
    <3>7. CASE c \in Registered(s)
      <4>1. PICK x \in Servers : x = srv'[c]
        BY <1>8, <3>7
      <4>2. /\ SeamOk(x, y, <<>>) /\ x.at = "serve" /\ x.dec = srv[c].dec
            /\ Joined(x.due, srv[c].due, o) /\ srv[c].at = "serve"
        BY <1>8, <3>7, <4>1
      <4>3. PICK a \in Attach, u \in Bytes, v \in Servers : a = cl[c] /\ u = up[c] /\ v = srv[c]
        BY DEF TerminalIInv, TerminalTypeOk
      <4>4. PICK r \in Bytes : r = v.due
        BY DEF Servers
      <4>5. Good(c, a, u, down[c], cut[c], v, got[c], given[c], r, q)
        BY <3>4, <4>3, <4>4
      <4>6. /\ Joined(x.due, r, o) /\ v.at = "serve" /\ x.at = v.at /\ x.dec = v.dec
            /\ a.main # "off" /\ ~q /\ o # <<>>
        BY <1>1, <1>13, <3>2, <4>2, <4>3, <4>4
      <4>7. PICK z : z = x.due
        OBVIOUS
      <4>8. Good(c, a, Output(u, o), down[c], cut[c], x, got[c], given[c], z, p)
        BY <4>5, <4>6, <4>7, OutputGood
      <4>9. up'[c] = Output(u, o)
        BY <1>5, <1>6, <3>7, <4>3
      <4>10. Good(c, cl'[c], up'[c], down'[c], cut'[c], srv'[c], got'[c], given'[c], srv'[c].due, p)
        BY <1>2, <4>1, <4>3, <4>7, <4>8, <4>9
      <4>11. cl'[c].main # "off" => SeamOk(srv'[c], ring'[cl'[c].sess], fan'[cl'[c].sess])
        <5>1. cl'[c].sess = s /\ fan'[s] = <<>> /\ ring'[s] = y
          BY <1>1, <1>2, <1>12, <2>1, <2>3
        <5> QED BY <4>1, <4>2, <5>1
      <4> QED BY <3>3, <4>10, <4>11 DEF ClientOk
    <3> QED BY <3>6, <3>7
  <2> QED BY <2>2, <2>3
<1>14. ASSUME NEW t \in Sessions
       PROVE  FilterOk(wrote[t], pty[t], filter[t], ring[t])' /\ EndOf(fan[t], ring[t])'
  <2>1. FilterOk(wrote[t], pty[t], filter[t], ring[t]) /\ EndOf(fan[t], ring[t])
    BY DEF TerminalIInv
  <2>2. CASE t = s
    <3>1. EndOf(<<>>, y)
      BY EndWaits, EmptyOnes
    <3> QED BY <1>1, <1>2, <1>12, <2>1, <2>2, <3>1
  <2> QED BY <1>2, <1>12, <2>1, <2>2
<1>15. \A c \in Clients : \/ /\ up'[c] = up[c] /\ down'[c] = down[c] /\ cut'[c] = cut[c]
                             /\ srv'[c] = srv[c] /\ got'[c] = got[c] /\ given'[c] = given[c]
                          \/ cl[c].main # "off"
  BY <1>2, <1>5, <1>8, <1>9
<1> QED BY <1>2, <1>11, <1>13, <1>14, <1>15, SessionSteps

\* What a client has when its session ends: those of the list are left.
LEMMA OverSteps ==
    ASSUME TerminalIInv, NEW s \in Sessions, ~over[s], over' = [over EXCEPT ![s] = TRUE],
           Shut(Registered(s)), Leave(Registered(s)), moves' \in Nat, up' \in [Clients -> Bytes],
           UNCHANGED <<wrote, pty, filter, ring, fan, cl, down, got, bridges, given>>,
           \A c \in Clients : \/ up'[c] = up[c]
                              \/ /\ c \in Registered(s) /\ pty[s] = <<>> /\ fan[s] = <<>>
                                 /\ \E t \in Reasons : up'[c] = Word(up[c], t)
    PROVE  TerminalIInv'
<1>1. /\ cut' \in [Clients -> Shuts]
      /\ \A c \in Clients : cut'[c] = IF c \in Registered(s) THEN cut[c] \cup {"up"} ELSE cut[c]
  BY ShutAll
<1>2. /\ srv' \in [Clients -> Servers]
      /\ \A c \in Clients : srv'[c] = IF c \in Registered(s) THEN Left(srv[c]) ELSE srv[c]
  BY LeaveAll
<1>3. TerminalTypeOk'
  BY <1>1, <1>2 DEF TerminalIInv, TerminalTypeOk
<1>4. over'[s] /\ \A t \in Sessions \ {s} : over'[t] = over[t]
  BY DEF TerminalIInv, TerminalTypeOk
<1>5. ASSUME NEW c \in Clients, cl[c].main # "off" PROVE ClientOk(c)'
  <2>1. PICK o \in Sessions : o = cl[c].sess
    BY <1>5, SessHas
  <2>2. CASE o # s
    <3>1. c \notin Registered(s)
      BY <2>1, <2>2 DEF Registered
    <3>2. up'[c] = up[c] /\ cut'[c] = cut[c] /\ srv'[c] = srv[c]
      BY <1>1, <1>2, <3>1
    <3>3. over'[o] = over[o]
      BY <1>4, <2>2
    <3> QED BY <2>1, <3>2, <3>3, ClientStays
  <2>3. CASE o = s
    <3>1. ClientOk(c) /\ ~Full(srv[c], cl[c].sess)
      BY <2>1, <2>3 DEF TerminalIInv, Full
    <3>2. PICK a \in Attach, u \in Bytes, v \in Servers : /\ a = cl[c] /\ u = up[c] /\ v = srv[c]
                                                          /\ a.main # "off"
      BY <1>5 DEF TerminalIInv, TerminalTypeOk
    <3>3. got[c] \in Items /\ given[c] \in Items
      BY DEF TerminalIInv, TerminalTypeOk
    <3>4. PICK r \in Bytes : r = v.due
      BY DEF Servers
    <3>5. PICK q : q = Full(srv[c], cl[c].sess) /\ ~q
      BY <3>1
    <3>6. PICK p : p = Full(srv[c], cl[c].sess)'
      OBVIOUS
    <3>7. Since(q, p)
      BY <3>5 DEF Since
    <3>8. Good(c, a, u, down[c], cut[c], v, got[c], given[c], r, q)
      BY <3>1, <3>2, <3>4, <3>5 DEF ClientOk
    <3>9. PICK y \in Bytes, h \in Bytes : /\ y = ring[s] /\ h = fan[s] /\ SeamOk(v, y, h)
                                          /\ ring'[s] = y /\ fan'[s] = h
      <4>1. ring[s] \in Bytes /\ fan[s] \in Bytes /\ SeamOk(v, ring[s], fan[s])
        BY <1>5, <2>1, <2>3, <3>1, <3>2 DEF ClientOk, TerminalIInv, TerminalTypeOk
      <4> QED BY <4>1
    <3>10. CASE c \notin Registered(s)
      <4>1. Good(c, a, u, down[c], cut[c], v, got[c], given[c], r, p)
        BY <3>7, <3>8, EndGood
      <4>2. up'[c] = u /\ cut'[c] = cut[c] /\ srv'[c] = v
        BY <1>1, <1>2, <3>2, <3>10
      <4>3. Good(c, cl'[c], up'[c], down'[c], cut'[c], srv'[c], got'[c], given'[c], srv'[c].due, p)
        BY <3>2, <3>4, <4>1, <4>2
      <4>4. cl'[c].main # "off" => SeamOk(srv'[c], ring'[cl'[c].sess], fan'[cl'[c].sess])
        BY <2>1, <2>3, <3>9, <4>2
      <4> QED BY <3>6, <4>3, <4>4 DEF ClientOk
    <3>11. CASE c \in Registered(s)
      <4>1. v.at = "serve"
        BY <3>2, <3>11 DEF Registered
      <4>2. PICK x \in Servers : x = Left(v) /\ x.at = "gone" /\ SameDue(v, x)
        BY LeftType
      <4>3. PICK l : l = cut[c] \cup {"up"}
        OBVIOUS
      <4>4. cut'[c] = l /\ srv'[c] = x /\ x.due = r
        BY <1>1, <1>2, <3>2, <3>4, <3>11, <4>2, <4>3 DEF SameDue
      <4>5. SeamOk(x, y, h) /\ DueOf(x, y) = DueOf(v, y)
        BY <3>9, <4>2, SeamStill
      <4>6. cl'[c].main # "off" => SeamOk(srv'[c], ring'[cl'[c].sess], fan'[cl'[c].sess])
        BY <2>1, <2>3, <3>9, <4>4, <4>5
      <4>7. CASE up'[c] = u
        <5>1. Good(c, a, u, down[c], l, x, got[c], given[c], r, p)
          BY <3>2, <3>3, <3>7, <3>8, <4>1, <4>2, <4>3, LeftGood
        <5>2. Good(c, cl'[c], up'[c], down'[c], cut'[c], srv'[c], got'[c], given'[c], srv'[c].due, p)
          BY <3>2, <4>4, <4>7, <5>1
        <5> QED BY <3>6, <4>6, <5>2 DEF ClientOk
      <4>8. CASE up'[c] # u
        <5>1. pty[s] = <<>> /\ fan[s] = <<>> /\ \E t \in Reasons : up'[c] = Word(up[c], t)
          BY <3>2, <4>8
        <5>2. PICK t \in Reasons : up'[c] = Word(u, t)
          BY <3>2, <5>1
        <5>3. v.due = DueOf(v, y)
          <6>1. Joined(DueOf(v, y), v.due, <<>>)
            BY <3>9, <4>1, <5>1 DEF SeamOk
          <6> QED BY <3>4, <6>1, NoBytes DEF Joined
        <5>4. p
          <6>1. x.due = DueOf(x, y)
            BY <3>4, <4>4, <4>5, <5>3
          <6>2. srv'[c] = x /\ cl'[c].sess = s /\ over'[s] /\ ring'[s] = y
            BY <1>4, <2>1, <2>3, <3>9, <4>4
          <6>3. pty'[s] = <<>>
            BY <5>1
          <6> QED BY <3>6, <6>1, <6>2, <6>3 DEF Full
        <5>5. PICK f : f = Word(u, t)
          OBVIOUS
        <5>6. Good(c, a, f, down[c], l, x, got[c], given[c], r, p)
          BY <3>2, <3>3, <3>7, <3>8, <4>1, <4>2, <4>3, <5>4, <5>5, ToldGood
        <5>7. Good(c, cl'[c], up'[c], down'[c], cut'[c], srv'[c], got'[c], given'[c], srv'[c].due, p)
          BY <3>2, <4>4, <5>2, <5>5, <5>6
        <5> QED BY <3>6, <4>6, <5>7 DEF ClientOk
      <4> QED BY <4>7, <4>8
    <3> QED BY <3>10, <3>11
  <2> QED BY <2>2, <2>3
<1>6. ASSUME NEW t \in Sessions
      PROVE  FilterOk(wrote[t], pty[t], filter[t], ring[t])' /\ EndOf(fan[t], ring[t])'
  <2>1. FilterOk(wrote[t], pty[t], filter[t], ring[t]) /\ EndOf(fan[t], ring[t])
    BY DEF TerminalIInv
  <2> QED BY <2>1
<1>7. \A c \in Clients : \/ /\ up'[c] = up[c] /\ down'[c] = down[c] /\ cut'[c] = cut[c]
                            /\ srv'[c] = srv[c] /\ got'[c] = got[c] /\ given'[c] = given[c]
                         \/ cl[c].main # "off"
  <2>1. ASSUME NEW c \in Clients, cl[c].main = "off" PROVE c \notin Registered(s)
    BY <2>1, SessHas DEF Registered
  <2> QED BY <1>1, <1>2, <2>1
<1> QED BY <1>3, <1>5, <1>6, <1>7, SessionSteps

\* The supervisor is killed.
LEMMA DiesStep ==
    ASSUME TerminalIInv, NEW s \in Sessions, supervisor_dies(s)
    PROVE  TerminalIInv'
<1>1. /\ ~over[s] /\ over' = [over EXCEPT ![s] = TRUE] /\ Shut(Registered(s)) /\ Leave(Registered(s))
      /\ UNCHANGED <<wrote, pty, filter, ring, fan, cl, up, down, got, bridges, given>>
  BY DEF supervisor_dies
<1>2. moves' \in Nat /\ up' \in [Clients -> Bytes]
  BY <1>1 DEF supervisor_dies, Move, TerminalIInv, TerminalTypeOk
<1>3. \A c \in Clients : up'[c] = up[c]
  BY <1>1
<1> QED BY <1>1, <1>2, <1>3, OverSteps

\* The harness ended.
LEMMA SessionEndStep ==
    ASSUME TerminalIInv, NEW s \in Sessions, NEW t \in Reasons, finish_session(s, t)
    PROVE  TerminalIInv'
<1>1. /\ ~over[s] /\ over' = [over EXCEPT ![s] = TRUE] /\ Shut(Registered(s)) /\ Leave(Registered(s))
      /\ pty[s] = <<>> /\ fan[s] = <<>>
      /\ UNCHANGED <<wrote, pty, filter, ring, fan, cl, down, got, bridges, given>>
  BY DEF finish_session
<1>2. moves' \in Nat
  BY DEF finish_session, Move, TerminalIInv, TerminalTypeOk
<1>3. PICK b \in Bytes : b = encode(CLOSED, <<Code(t)>>)
  <2>1. Told(t) \in UpE /\ Told(t).code = encode(CLOSED, <<Code(t)>>)
    BY DEF UpE, Told
  <2> QED BY <2>1, MeaningTypes DEF Finals
<1>4. Push(Registered(s), b)
  BY <1>3 DEF finish_session
<1>5. /\ up' \in [Clients -> Bytes]
      /\ \A c \in Clients : /\ c \in Registered(s) => Joined(up'[c], up[c], b)
                            /\ c \notin Registered(s) => up'[c] = up[c]
  BY <1>4, PushAll
<1>6. \A c \in Clients : Joined(up'[c], up[c], b) => up'[c] = Word(up[c], t)
  BY <1>3 DEF Joined, Word
<1>7. \A c \in Clients : \/ up'[c] = up[c]
                         \/ /\ c \in Registered(s) /\ pty[s] = <<>> /\ fan[s] = <<>>
                            /\ \E r \in Reasons : up'[c] = Word(up[c], r)
  BY <1>1, <1>5, <1>6
<1> QED BY <1>1, <1>2, <1>5, <1>7, OverSteps

-----------------------------------------------------------------------------
(* The steps of the user and of the app.                                    *)

\* The input of an attach, with more in it.
Filled(a, x) == [a EXCEPT !.stdin = x]

\* An attach with more input is a client still.
LEMMA FilledType ==
    ASSUME NEW a \in Attach, NEW x \in Bytes, NEW b, b = Filled(a, x)
    PROVE  /\ b \in Attach /\ b.stdin = x /\ b.main = a.main /\ b.out = a.out /\ b.sess = a.sess
           /\ b.eof = a.eof /\ b.buf = a.buf /\ b.todo = a.todo /\ b.next = a.next /\ b.dec = a.dec
           /\ b.screen = a.screen /\ b.LEAVING = a.LEAVING /\ b.said = a.said /\ b.ending = a.ending
<1>1. b \in Attach
  BY DEF Attach, Filled
<1>2. /\ b.stdin = x /\ b.main = a.main /\ b.out = a.out /\ b.sess = a.sess
      /\ b.eof = a.eof /\ b.buf = a.buf /\ b.todo = a.todo /\ b.next = a.next /\ b.dec = a.dec
      /\ b.screen = a.screen /\ b.LEAVING = a.LEAVING /\ b.said = a.said /\ b.ending = a.ending
  BY DEF Attach, Filled
<1> QED BY <1>1, <1>2
\* A step that gives it more.
LEMMA FilledSteps ==
    ASSUME TerminalIInv, NEW c \in Clients, NEW a \in Attach, NEW u \in Bytes, NEW d \in Bytes,
           NEW k \in Shuts, NEW v \in Servers, NEW g \in Items, NEW i \in Items, NEW r, NEW q,
           Is(c, a, u, d, k, v, g, i, r, q), a.main # "off",
           NEW x \in Bytes, NEW b, b = Filled(a, x), NEW j \in Items, InputOk(c, b, d, v, g, j),
           Set(c, b), given' = [given EXCEPT ![c] = j],
           UNCHANGED <<sessVars, wireVars, srv, got, bridges>>, moves' \in Nat
    PROVE  TerminalIInv'
<1>1. /\ b \in Attach /\ b.stdin = x /\ b.main = a.main /\ b.out = a.out /\ b.sess = a.sess
      /\ b.eof = a.eof /\ b.buf = a.buf /\ b.todo = a.todo /\ b.next = a.next /\ b.dec = a.dec
      /\ b.screen = a.screen /\ b.LEAVING = a.LEAVING /\ b.said = a.said /\ b.ending = a.ending
  BY FilledType
<1>2. Good(c, a, u, d, k, v, g, i, r, q) /\ Stages(c, a, v, k) /\ Honest(a, v)
  BY Known
<1>3. Stages(c, b, v, k) /\ Honest(b, v)
  BY <1>1, <1>2 DEF Stages, Honest
<1>4. /\ Live(b) => Live(a) /\ b.dec = a.dec
      /\ Knows(b) => Knows(a)
  BY <1>1 DEF Live, Knows
<1>5. b.main # "off" /\ b.screen = a.screen
  BY <1>1
<1>6. Good(c, b, u, d, k, v, g, j, r, q)
  BY <1>2, <1>3, <1>4, <1>5, AttachIs
<1>7. /\ up = [up EXCEPT ![c] = u] /\ down = [down EXCEPT ![c] = d] /\ cut = [cut EXCEPT ![c] = k]
      /\ srv = [srv EXCEPT ![c] = v] /\ got = [got EXCEPT ![c] = g]
  BY Alone
<1>8. Becomes(c, b, u, d, k, v, g, j)
  BY <1>7, Zenon DEF Becomes, Set, wireVars
<1>9. b \in Attach /\ b.sess = a.sess /\ b.main # "off" /\ b.eof = a.eof
  BY <1>1
<1>10. UNCHANGED <<sessVars, bridges>>
  OBVIOUS
<1> QED BY <1>6, <1>8, <1>9, <1>10, ClientSteps DEF SameDue

\* Keys are typed.
LEMMA TypeStep ==
    ASSUME TerminalIInv, NEW c \in Tabs, NEW s \in Keys, type_keys(c, s)
    PROVE  TerminalIInv'
<1>1. PICK a \in Attach, u \in Bytes, d \in Bytes, k \in Shuts, v \in Servers, g \in Items,
           i \in Items : \E r, q : Is(c, a, u, d, k, v, g, i, r, q)
  BY Client DEF Clients
<1>2. PICK r, q : Is(c, a, u, d, k, v, g, i, r, q)
  BY <1>1
<1>3. a.main \notin {"off", "gone"} /\ ~a.eof /\ cl[c] = a /\ cut[c] = k /\ srv[c] = v /\ up[c] = u /\ down[c] = d
  <2>1. cl[c].main \notin {"off", "gone"} /\ ~cl[c].eof
    BY DEF type_keys, Running
  <2> QED BY <1>2, <2>1, Known
<1>4. UNCHANGED <<sessVars, wireVars, srv, got, bridges>> /\ moves' \in Nat
  <2>1. moves' = moves + 1 /\ moves \in Nat
    BY DEF type_keys, Move, TerminalIInv, TerminalTypeOk
  <2>2. UNCHANGED <<sessVars, wireVars, srv, got, bridges>>
    BY DEF type_keys
  <2> QED BY <2>1, <2>2
<1>5. /\ Good(c, a, u, d, k, v, g, i, r, q) /\ Stages(c, a, v, k) /\ Honest(a, v)
      /\ InputOk(c, a, d, v, g, i) /\ (a.main # "off" => OutputOk(a, u, v, r, q))
  BY <1>2, Known
<1>0. c \in Clients
  BY DEF Clients
<1>6. s \in Bytes
  BY TerminalAssumption DEF Bytes
<1>7. a.stdin \in Bytes /\ a.eof \in BOOLEAN
  BY DEF Attach
<1>8. PICK x \in Bytes : x = a.stdin \o s
  BY <1>6, <1>7, JoinBytes
<1>9. PICK b : b = Filled(a, x)
  OBVIOUS
<1>10. /\ b.stdin = x /\ b.buf = a.buf /\ b.todo = a.todo /\ b.main = a.main
       /\ b.next = a.next /\ b.LEAVING = a.LEAVING
  BY <1>9, FilledType
<1>11. AsInput(s) \in Items
  BY <1>6, AsInputType
<1>12. PICK j \in Items : j = i \o AsInput(s)
  BY <1>11, JoinItems
<1>13. InputOk(c, b, d, v, g, i \o AsInput(s))
  BY <1>3, <1>5, <1>6, <1>7, <1>8, <1>10, TypeKeysOk
<1>14. InputOk(c, b, d, v, g, j)
  BY <1>12, <1>13
<1>15. Set(c, b)
  BY <1>3, <1>8, <1>9 DEF type_keys, Filled
<1>16. given' = [given EXCEPT ![c] = j]
  <2>1. given[c] = i
    BY <1>2, Known
  <2> QED BY <1>12, <2>1 DEF type_keys, Gave
<1>17. a.main # "off"
  BY <1>3
<1> QED BY <1>0, <1>2, <1>4, <1>9, <1>14, <1>15, <1>16, <1>17, FilledSteps

\* The input of an attach, at its end.
Shutting(a) == [a EXCEPT !.eof = TRUE]

\* An attach at the end of its input keeps what it was good for.
LEMMA ShuttingOk ==
    ASSUME NEW c, NEW a \in Attach, NEW u, NEW d, NEW k, NEW v, NEW g, NEW i, NEW r, NEW q,
           Good(c, a, u, d, k, v, g, i, r, q), a.main # "off", NEW b, b = Shutting(a)
    PROVE  /\ Good(c, b, u, d, k, v, g, i, r, q) /\ b \in Attach /\ b.sess = a.sess
           /\ b.main = a.main
<1>1. b \in Attach
  BY DEF Attach, Shutting
<1>2. /\ b.stdin = a.stdin /\ b.main = a.main /\ b.out = a.out /\ b.sess = a.sess
      /\ b.eof /\ b.buf = a.buf /\ b.todo = a.todo /\ b.next = a.next /\ b.dec = a.dec
      /\ b.screen = a.screen /\ b.LEAVING = a.LEAVING /\ b.said = a.said /\ b.ending = a.ending
  BY DEF Attach, Shutting
<1>3. /\ Stages(c, a, v, k) /\ Honest(a, v) /\ InputOk(c, a, d, v, g, i)
  BY DEF Good
<1>4. Stages(c, b, v, k) /\ Honest(b, v)
  BY <1>2, <1>3 DEF Stages, Honest
<1>5. Still(a, b)
  BY <1>2 DEF Still, Goes, Leaves, Past
<1>6. (Live(b) => Live(a) /\ b.dec = a.dec) /\ (Knows(b) => Knows(a))
  BY <1>2 DEF Live, Knows
<1>7. b.main # "off" /\ b.screen = a.screen
  BY <1>2
<1>8. Good(c, b, u, d, k, v, g, i, r, q)
  BY <1>4, <1>5, <1>6, <1>7, AttachOk
<1> QED BY <1>1, <1>2, <1>8

\* A tab's input ends.
LEMMA EndStdinStep ==
    ASSUME TerminalIInv, NEW c \in Tabs, end_stdin(c)
    PROVE  TerminalIInv'
<1>1. PICK a \in Attach, u \in Bytes, d \in Bytes, k \in Shuts, v \in Servers, g \in Items,
           i \in Items : \E r, q : Is(c, a, u, d, k, v, g, i, r, q)
  BY Client DEF Clients
<1>2. PICK r, q : Is(c, a, u, d, k, v, g, i, r, q)
  BY <1>1
<1>3. a.main \notin {"off", "gone"} /\ cl[c] = a /\ cut[c] = k /\ srv[c] = v /\ up[c] = u /\ down[c] = d
  <2>1. cl[c].main \notin {"off", "gone"}
    BY DEF end_stdin, Running
  <2> QED BY <1>2, <2>1, Known
<1>4. UNCHANGED <<sessVars, wireVars, srv, got, bridges, given>> /\ moves' \in Nat
  <2>1. moves' = moves + 1 /\ moves \in Nat
    BY DEF end_stdin, Move, TerminalIInv, TerminalTypeOk
  <2>2. UNCHANGED <<sessVars, wireVars, srv, got, bridges, given>>
    BY DEF end_stdin
  <2> QED BY <2>1, <2>2
<1>5. /\ Good(c, a, u, d, k, v, g, i, r, q) /\ Stages(c, a, v, k) /\ Honest(a, v)
      /\ InputOk(c, a, d, v, g, i) /\ (a.main # "off" => OutputOk(a, u, v, r, q))
  BY <1>2, Known
<1>6. PICK b : b = Shutting(a)
  OBVIOUS
<1>7. /\ Good(c, b, u, d, k, v, g, i, r, q) /\ b \in Attach /\ b.sess = a.sess
      /\ b.main = a.main
  BY <1>3, <1>5, <1>6, ShuttingOk
<1>8. Set(c, b)
  BY <1>3, <1>6 DEF end_stdin, Shutting
<1>9. c \in Clients /\ c \notin Hosts
  BY TerminalAssumption DEF Clients
<1> QED BY <1>2, <1>3, <1>4, <1>7, <1>8, <1>9, AttachSteps

\* The app writes a frame to a bridge.
LEMMA WriteStep ==
    ASSUME TerminalIInv, NEW s \in Sessions, NEW n \in HostM, NEW m, NEW t, m = n.code, t = n.item,
           write(s, m, t)
    PROVE  TerminalIInv'
<1>1. /\ bridges[s] # NoClient /\ write_frame(bridges[s], m, t) /\ moves' = moves + 1
      /\ UNCHANGED <<sessVars, wireVars, srv, got, bridges>>
  BY DEF write, Move
<1>2. moves' \in Nat
  BY <1>1 DEF TerminalIInv, TerminalTypeOk
<1>3. PICK c : c = bridges[s] /\ c \in Hosts /\ cl[c].main # "off" /\ ~cl[c].eof
  BY <1>1 DEF TerminalIInv, BridgeOk
<1>4. c \in Clients /\ c \notin Tabs
  BY <1>3, TerminalAssumption DEF Clients
<1>5. CASE Running(c)
  <2>1. PICK a \in Attach, u \in Bytes, d \in Bytes, k \in Shuts, v \in Servers, g \in Items,
             i \in Items : \E r, q : Is(c, a, u, d, k, v, g, i, r, q)
    BY <1>4, Client
  <2>2. PICK r, q : Is(c, a, u, d, k, v, g, i, r, q)
    BY <2>1
  <2>3. InputOk(c, a, d, v, g, i) /\ cl[c] = a /\ given[c] = i
    BY <2>2, Known
  <2>4. ~a.eof /\ a.main # "off"
    BY <1>3, <2>3
  <2>5. n.code \in Bytes /\ n.item \in Items
    BY HostTypes DEF Meanings
  <2>6. a.stdin \in Bytes /\ a.buf \in Bytes
    BY DEF Attach
  <2>7. PICK x \in Bytes : x = a.stdin \o n.code
    BY <2>5, <2>6, JoinBytes
  <2>8. PICK b : b = Filled(a, x)
    OBVIOUS
  <2>9. /\ b.stdin = x /\ b.buf = a.buf /\ b.todo = a.todo /\ b.main = a.main
        /\ b.next = a.next /\ b.LEAVING = a.LEAVING
    BY <2>8, FilledType
  <2>10. PICK j \in Items : j = i \o n.item
    BY <2>5, JoinItems
  <2>11. InputOk(c, b, d, v, g, i \o n.item)
    BY <1>4, <2>3, <2>4, <2>6, <2>7, <2>9, HostFrameOk
  <2>12. InputOk(c, b, d, v, g, j)
    BY <2>10, <2>11
  <2>13. Set(c, [cl[c] EXCEPT !.stdin = @ \o m]) /\ Gave(c, t)
    BY <1>1, <1>3, <1>5 DEF write_frame
  <2>14. Set(c, b)
    BY <2>3, <2>7, <2>8, <2>13 DEF Filled
  <2>15. given' = [given EXCEPT ![c] = j]
    BY <2>3, <2>10, <2>13 DEF Gave
  <2> QED BY <1>1, <1>2, <1>4, <2>2, <2>4, <2>8, <2>12, <2>14, <2>15, FilledSteps
<1>6. CASE ~Running(c)
  <2>1. UNCHANGED <<cl, given>>
    BY <1>1, <1>3, <1>6 DEF write_frame
  <2>2. /\ wrote' = wrote /\ pty' = pty /\ filter' = filter /\ ring' = ring /\ fan' = fan
        /\ over' = over /\ cl' = cl /\ up' = up /\ down' = down /\ cut' = cut /\ srv' = srv /\ got' = got
        /\ bridges' = bridges /\ given' = given
    BY <1>1, <2>1 DEF sessVars, wireVars
  <2>3. TerminalTypeOk'
    BY <1>2, <2>2 DEF TerminalIInv, TerminalTypeOk
  <2> QED BY <2>2, <2>3 DEF TerminalIInv, ClientOk, Full, BridgeOk
<1> QED BY <1>5, <1>6

\* Keys.
LEMMA AppInputStep ==
    ASSUME TerminalIInv, NEW s \in Sessions, NEW b \in Keys, session_terminal_input(s, b)
    PROVE  TerminalIInv'
<1>1. b \in Bytes
  BY TerminalAssumption DEF Bytes
<1>2. HostTyped(b) \in HostM
  BY <1>1 DEF HostM
<1>3. host_input(b) = HostTyped(b).code /\ AsInput(b) = HostTyped(b).item
  BY DEF HostTyped
<1>4. write(s, host_input(b), AsInput(b))
  BY DEF session_terminal_input
<1> QED BY <1>2, <1>3, <1>4, WriteStep
\* A window size.
LEMMA AppResizeStep ==
    ASSUME TerminalIInv, NEW s \in Sessions, NEW w \in Sizes, session_terminal_resize(s, w)
    PROVE  TerminalIInv'
<1>1. w \in Nat
  BY TerminalAssumption
<1>2. HostSized(w, w) \in HostM
  BY <1>1 DEF HostM
<1>3. host_resize(w, w) = HostSized(w, w).code /\ <<<<"size", w, w>>>> = HostSized(w, w).item
  BY DEF HostSized
<1>4. write(s, host_resize(w, w), <<<<"size", w, w>>>>)
  BY DEF session_terminal_resize
<1> QED BY <1>2, <1>3, <1>4, WriteStep

\* Attaches of the app are started, or their input ends.
LEMMA BridgeSteps ==
    ASSUME TerminalIInv, moves' \in Nat, NEW s \in Sessions,
           UNCHANGED <<sessVars, wireVars, srv, got, given>>,
           NEW l, cl' = [c \in Clients |-> l[c]],
           \A c \in Clients : \/ l[c] = cl[c]
                              \/ cl[c].main # "off" /\ l[c] = Shutting(cl[c])
                              \/ cl[c].main = "off" /\ l[c] = Started(s),
           bridges' \in [Sessions -> Hosts \cup {NoClient}],
           \A t \in Sessions : bridges'[t] # NoClient =>
              \/ bridges'[t] = bridges[t] /\ l[bridges[t]] = cl[bridges[t]]
              \/ t = s /\ l[bridges'[t]] = Started(s)
    PROVE  TerminalIInv'
<1>1. \A c \in Clients : cl'[c] = l[c]
  OBVIOUS
<1>2. UNCHANGED <<wrote, pty, filter, ring, fan, over, up, down, cut, srv, got, given>>
  BY DEF sessVars, wireVars
<1>3. ASSUME NEW c \in Clients
      PROVE  /\ cl'[c] \in Attach
             /\ Good(c, cl'[c], up[c], down[c], cut[c], srv[c], got[c], given[c],
                     srv[c].due, Full(srv[c], cl'[c].sess))
             /\ cl'[c].main # "off" => SeamOk(srv[c], ring[cl'[c].sess], fan[cl'[c].sess])
  <2>1. cl[c] \in Attach
    BY DEF TerminalIInv, TerminalTypeOk
  <2>2. /\ Good(c, cl[c], up[c], down[c], cut[c], srv[c], got[c], given[c],
                srv[c].due, Full(srv[c], cl[c].sess))
        /\ cl[c].main # "off" => SeamOk(srv[c], ring[cl[c].sess], fan[cl[c].sess])
    BY DEF TerminalIInv, ClientOk
  <2>3. CASE l[c] = cl[c]
    BY <1>1, <2>1, <2>2, <2>3
  <2>4. CASE cl[c].main # "off" /\ l[c] = Shutting(cl[c])
    <3>1. PICK b : b = Shutting(cl[c])
      OBVIOUS
    <3>2. PICK r, q : r = srv[c].due /\ q = Full(srv[c], cl[c].sess)
      OBVIOUS
    <3>3. Good(c, cl[c], up[c], down[c], cut[c], srv[c], got[c], given[c], r, q)
      BY <2>2, <3>2
    <3>4. Good(c, b, up[c], down[c], cut[c], srv[c], got[c], given[c], r, q) /\ b \in Attach /\ b.sess = cl[c].sess
      BY <2>1, <2>4, <3>1, <3>3, ShuttingOk
    <3>5. cl'[c] = b
      BY <1>1, <2>4, <3>1
    <3> QED BY <2>2, <2>4, <3>2, <3>4, <3>5
  <2>5. CASE cl[c].main = "off" /\ l[c] = Started(s)
    <3>1. PICK b : b = Started(s)
      OBVIOUS
    <3>2. PICK r \in Bytes : r = srv[c].due
      BY DEF TerminalIInv, TerminalTypeOk, Servers
    <3>3. PICK q : q = Full(srv[c], s)
      OBVIOUS
    <3>4. /\ Good(c, b, up[c], down[c], cut[c], srv[c], got[c], given[c], r, q)
          /\ b \in Attach /\ b.sess = s /\ srv[c] = Unserved
      BY <2>2, <2>5, <3>1, AttachOpens
    <3>5. cl'[c] = b
      BY <1>1, <2>5, <3>1
    <3>6. SeamOk(srv[c], ring[s], fan[s])
      BY <3>4, SeamStarts DEF TerminalIInv, TerminalTypeOk
    <3> QED BY <3>2, <3>3, <3>4, <3>5, <3>6
  <2> QED BY <2>3, <2>4, <2>5
<1>4. TerminalTypeOk'
  BY <1>2, <1>3 DEF TerminalIInv, TerminalTypeOk
<1>5. ASSUME NEW c \in Clients PROVE ClientOk(c)'
  <2>1. PICK q : q = Full(srv[c], cl'[c].sess)
    OBVIOUS
  <2>2. Good(c, cl'[c], up'[c], down'[c], cut'[c], srv'[c], got'[c], given'[c], srv'[c].due, q)
    BY <1>2, <1>3, <2>1
  <2>3. Full(srv[c], cl[c].sess)' = q
    BY <1>2, <2>1 DEF Full
  <2>4. cl'[c].main # "off" => SeamOk(srv'[c], ring'[cl'[c].sess], fan'[cl'[c].sess])
    BY <1>2, <1>3
  <2> QED BY <2>2, <2>3, <2>4 DEF ClientOk
<1>6. ASSUME NEW t \in Sessions
      PROVE  FilterOk(wrote[t], pty[t], filter[t], ring[t])' /\ EndOf(fan[t], ring[t])'
  BY <1>2 DEF TerminalIInv
<1>7. ASSUME NEW t \in Sessions, bridges'[t] # NoClient PROVE BridgeOk(t, bridges[t])'
  <2>1. bridges'[t] \in Hosts /\ bridges'[t] \in Clients
    BY <1>7 DEF Clients
  <2>2. CASE bridges'[t] = bridges[t] /\ l[bridges[t]] = cl[bridges[t]]
    <3>1. BridgeOk(t, bridges[t])
      BY <1>7, <2>2 DEF TerminalIInv
    <3>2. cl'[bridges'[t]] = cl[bridges[t]]
      BY <1>1, <2>1, <2>2
    <3> QED BY <2>1, <2>2, <3>1, <3>2 DEF BridgeOk
  <2>3. CASE t = s /\ l[bridges'[t]] = Started(s)
    <3>1. cl'[bridges'[t]] = Started(s)
      BY <1>1, <2>1, <2>3
    <3>2. Started(s).sess = s /\ Started(s).main = "connect" /\ Started(s).eof = FALSE
      BY DEF Started, Fresh
    <3> QED BY <2>1, <2>3, <3>1, <3>2 DEF BridgeOk
  <2> QED BY <1>7, <2>2, <2>3
<1> QED BY <1>4, <1>5, <1>6, <1>7 DEF TerminalIInv

\* No two sessions share a bridge.
LEMMA BridgesApart ==
    ASSUME TerminalIInv, NEW s \in Sessions, NEW t \in Sessions, s # t, bridges[t] # NoClient
    PROVE  bridges[t] # bridges[s]
<1>1. BridgeOk(t, bridges[t]) /\ (bridges[s] # NoClient => BridgeOk(s, bridges[s]))
  BY DEF TerminalIInv
<1> QED BY <1>1 DEF BridgeOk
\* What a close does to the attaches.
LEMMA CloseDoes ==
    ASSUME NEW S, NEW l, l = close(S)
    PROVE  /\ \A c \in Clients : \/ l[c] = cl[c]
                                 \/ c \in S /\ cl[c].main # "off" /\ l[c] = Shutting(cl[c])
           /\ \A c \in Clients : c \in S \/ l[c] = cl[c]
           /\ l = [c \in Clients |-> l[c]]
<1>1. l = [c \in Clients |-> IF c \in S /\ Running(c) THEN Shutting(cl[c]) ELSE cl[c]]
  BY DEF close, Shutting
<1>2. \A c \in Clients : l[c] = IF c \in S /\ Running(c) THEN Shutting(cl[c]) ELSE cl[c]
  BY <1>1
<1>3. l = [c \in Clients |-> l[c]]
  BY <1>1
<1>4. \A c \in Clients : Running(c) => cl[c].main # "off"
  BY DEF Running
<1> QED BY <1>2, <1>3, <1>4

\* The app opens a terminal.
LEMMA AppOpenStep ==
    ASSUME TerminalIInv, NEW s \in Sessions, NEW c \in Hosts, session_terminal_open(s, c)
    PROVE  TerminalIInv'
<1>1. /\ cl[c].main = "off" /\ cl' = [close({bridges[s]}) EXCEPT ![c] = Started(s)]
      /\ bridges' = [bridges EXCEPT ![s] = c] /\ moves' = moves + 1
      /\ UNCHANGED <<sessVars, wireVars, srv, got, given>>
  BY DEF session_terminal_open, insert, Move, Started
<1>2. moves' \in Nat
  BY <1>1 DEF TerminalIInv, TerminalTypeOk
<1>3. c \in Clients /\ c # NoClient
  BY TerminalAssumption DEF Clients
<1>b. PICK S : S = {bridges[s]}
  OBVIOUS
<1>4. PICK j : j = close({bridges[s]}) /\ j = close(S)
  BY <1>b
<1>5. /\ \A o \in Clients : j[o] = cl[o] \/ (cl[o].main # "off" /\ j[o] = Shutting(cl[o]))
      /\ \A o \in Clients : o = bridges[s] \/ j[o] = cl[o]
      /\ j = [o \in Clients |-> j[o]]
  <2>1. /\ \A o \in Clients : j[o] = cl[o] \/ (o \in S /\ cl[o].main # "off" /\ j[o] = Shutting(cl[o]))
        /\ \A o \in Clients : o \in S \/ j[o] = cl[o]
        /\ j = [o \in Clients |-> j[o]]
    BY <1>4, CloseDoes
  <2> QED BY <1>b, <2>1
<1>6. PICK l : l = [o \in Clients |-> IF o = c THEN Started(s) ELSE j[o]]
  OBVIOUS
<1>7. l[c] = Started(s) /\ (\A o \in Clients \ {c} : l[o] = j[o]) /\ l = [o \in Clients |-> l[o]]
  BY <1>3, <1>6
<1>a. cl' = [o \in Clients |-> l[o]]
  <2>1. cl' = [j EXCEPT ![c] = Started(s)]
    BY <1>1, <1>4
  <2>2. DOMAIN j = Clients
    BY <1>5
  <2>3. [j EXCEPT ![c] = Started(s)] = l
    BY <1>6, <2>2
  <2> QED BY <1>7, <2>1, <2>3
<1>8. \A o \in Clients : \/ l[o] = cl[o]
                         \/ cl[o].main # "off" /\ l[o] = Shutting(cl[o])
                         \/ cl[o].main = "off" /\ l[o] = Started(s)
  BY <1>1, <1>5, <1>7
<1>9. bridges' \in [Sessions -> Hosts \cup {NoClient}]
  BY <1>1 DEF TerminalIInv, TerminalTypeOk
<1>10. ASSUME NEW t \in Sessions, bridges'[t] # NoClient
       PROVE  \/ bridges'[t] = bridges[t] /\ l[bridges[t]] = cl[bridges[t]]
              \/ t = s /\ l[bridges'[t]] = Started(s)
  <2>0. bridges'[t] = IF t = s THEN c ELSE bridges[t]
    BY <1>1 DEF TerminalIInv, TerminalTypeOk
  <2>1. CASE t = s
    BY <1>7, <2>0, <2>1
  <2>2. CASE t # s
    <3>1. bridges'[t] = bridges[t] /\ bridges[t] # NoClient
      BY <1>10, <2>0, <2>2
    <3>2. BridgeOk(t, bridges[t]) /\ bridges[t] # bridges[s]
      BY <2>2, <3>1, BridgesApart DEF TerminalIInv
    <3>3. bridges[t] \in Clients /\ bridges[t] # c
      BY <1>1, <3>2 DEF BridgeOk, Clients
    <3>4. l[bridges[t]] = j[bridges[t]]
      BY <1>7, <3>3
    <3>5. j[bridges[t]] = cl[bridges[t]]
      BY <1>5, <3>2, <3>3
    <3> QED BY <3>1, <3>4, <3>5
  <2> QED BY <2>1, <2>2
<1> QED BY <1>1, <1>2, <1>a, <1>8, <1>9, <1>10, BridgeSteps

\* The app closes one.
LEMMA AppCloseStep ==
    ASSUME TerminalIInv, NEW s \in Sessions, session_terminal_close(s)
    PROVE  TerminalIInv'
<1>1. /\ cl' = close({bridges[s]}) /\ bridges' = [bridges EXCEPT ![s] = NoClient] /\ moves' = moves + 1
      /\ UNCHANGED <<sessVars, wireVars, srv, got, given>>
  BY DEF session_terminal_close, remove, Move
<1>2. moves' \in Nat
  BY <1>1 DEF TerminalIInv, TerminalTypeOk
<1>3. PICK l : l = close({bridges[s]})
  OBVIOUS
<1>8. /\ \A o \in Clients : l[o] = cl[o] \/ (cl[o].main # "off" /\ l[o] = Shutting(cl[o]))
      /\ \A o \in Clients : o = bridges[s] \/ l[o] = cl[o]
      /\ l = [o \in Clients |-> l[o]]
  BY <1>3, CloseDoes
<1>4. cl' = [o \in Clients |-> l[o]]
  BY <1>1, <1>3, <1>8
<1>5. \A o \in Clients : \/ l[o] = cl[o]
                         \/ cl[o].main # "off" /\ l[o] = Shutting(cl[o])
                         \/ cl[o].main = "off" /\ l[o] = Started(s)
  BY <1>8
<1>6. bridges' \in [Sessions -> Hosts \cup {NoClient}]
  BY <1>1 DEF TerminalIInv, TerminalTypeOk
<1>7. ASSUME NEW t \in Sessions, bridges'[t] # NoClient
      PROVE  \/ bridges'[t] = bridges[t] /\ l[bridges[t]] = cl[bridges[t]]
             \/ t = s /\ l[bridges'[t]] = Started(s)
  <2>1. t # s /\ bridges'[t] = bridges[t] /\ bridges[t] # NoClient
    BY <1>1, <1>7 DEF TerminalIInv, TerminalTypeOk
  <2>2. BridgeOk(t, bridges[t]) /\ bridges[t] # bridges[s]
    BY <2>1, BridgesApart DEF TerminalIInv
  <2>3. bridges[t] \in Clients
    BY <2>2 DEF BridgeOk, Clients
  <2>4. l[bridges[t]] = cl[bridges[t]]
    BY <1>8, <2>2, <2>3
  <2> QED BY <2>1, <2>4
<1> QED BY <1>1, <1>2, <1>4, <1>5, <1>6, <1>7, BridgeSteps

\* The app quits: its bridges are gone, of each session.
LEMMA QuitStep ==
    ASSUME TerminalIInv, close_all
    PROVE  TerminalIInv'
<1>1. /\ cl' = close(Range(bridges)) /\ bridges' = [t \in Sessions |-> NoClient] /\ moves' = moves + 1
      /\ UNCHANGED <<sessVars, wireVars, srv, got, given>> /\ bridges # [t \in Sessions |-> NoClient]
  BY DEF close_all, Move
<1>2. moves' \in Nat
  BY <1>1 DEF TerminalIInv, TerminalTypeOk
<1>3. PICK s \in Sessions : TRUE
  BY <1>1 DEF TerminalIInv, TerminalTypeOk
<1>4. PICK l : l = close(Range(bridges))
  OBVIOUS
<1>9. /\ \A o \in Clients : l[o] = cl[o] \/ (cl[o].main # "off" /\ l[o] = Shutting(cl[o]))
      /\ l = [o \in Clients |-> l[o]]
  BY <1>4, CloseDoes
<1>5. cl' = [o \in Clients |-> l[o]]
  BY <1>1, <1>4, <1>9
<1>6. \A o \in Clients : \/ l[o] = cl[o]
                         \/ cl[o].main # "off" /\ l[o] = Shutting(cl[o])
                         \/ cl[o].main = "off" /\ l[o] = Started(s)
  BY <1>9
<1>7. bridges' \in [Sessions -> Hosts \cup {NoClient}]
  BY <1>1
<1>8. \A t \in Sessions : bridges'[t] = NoClient
  BY <1>1
<1> QED BY <1>1, <1>2, <1>5, <1>6, <1>7, <1>8, BridgeSteps

-----------------------------------------------------------------------------
(* The invariant holds at first, and every step keeps it.                   *)
LEMMA TerminalStarts == TerminalInit => TerminalIInv
<1> SUFFICES ASSUME TerminalInit PROVE TerminalIInv
  OBVIOUS
<1>1. /\ <<>> \in Bytes /\ <<>> \in Items /\ <<>> \in Seq(Tokens) /\ <<>> \in Seq(Bytes)
      /\ VtFilter \in Filters
  <2>1. <<>> \in Seq(Tokens) /\ <<>> \in Seq(Bytes)
    OBVIOUS
  <2> QED BY <2>1, EmptyOnes, FilterStarts DEF FilterOk
<1>2. PICK e \in Bytes : e = <<>>
  BY <1>1
<1>3. Fresh \in Attach
  <2>1. NotEnding \in Endings /\ "" \in Saids
    BY Sayings DEF NotEnding, Endings
  <2>2. PICK y \in [Enders -> Endings] : y = [t \in Enders |-> NotEnding]
    BY <2>1
  <2>3. PICK x \in Seq(Bytes) : x = <<>>
    BY <1>1
  <2>4. Fresh = [sess |-> "", main |-> "off", out |-> "none", stdin |-> e, eof |-> FALSE,
                 buf |-> e, todo |-> x, next |-> "", dec |-> e, screen |-> e,
                 LEAVING |-> FALSE, RESIZED |-> FALSE, SAVED |-> FALSE, tty |-> "cooked",
                 win |-> 0, ending |-> y, said |-> "", code |-> 0]
    BY <1>2, <2>2, <2>3 DEF Fresh
  <2>5. 0 \in Nat /\ "off" \in Mains
    BY DEF Mains
  <2> QED BY <2>1, <2>4, <2>5 DEF Attach
<1>4. Unserved \in Servers
  BY <1>1, SeamStarts
<1>5. TerminalTypeOk
  <2>1. /\ wrote \in [Sessions -> Seq(Tokens)] /\ pty \in [Sessions -> Bytes]
        /\ filter \in [Sessions -> Filters] /\ ring \in [Sessions -> Bytes]
        /\ fan \in [Sessions -> Bytes] /\ over \in [Sessions -> BOOLEAN]
    BY <1>1 DEF TerminalInit
  <2>2. cl \in [Clients -> Attach]
    BY <1>3 DEF TerminalInit
  <2>3. srv \in [Clients -> Servers]
    BY <1>4 DEF TerminalInit
  <2>4. /\ up \in [Clients -> Bytes] /\ down \in [Clients -> Bytes] /\ cut \in [Clients -> Shuts]
        /\ got \in [Clients -> Items] /\ given \in [Clients -> Items]
    BY <1>1 DEF TerminalInit, Shuts
  <2>5. bridges \in [Sessions -> Hosts \cup {NoClient}] /\ moves \in Nat
    BY DEF TerminalInit
  <2> QED BY <2>1, <2>2, <2>3, <2>4, <2>5 DEF TerminalTypeOk
<1>6. ASSUME NEW c \in Clients PROVE ClientOk(c)
  <2>1. /\ cl[c] = Fresh /\ up[c] = <<>> /\ down[c] = <<>> /\ cut[c] = {} /\ got[c] = <<>>
        /\ given[c] = <<>> /\ srv[c] = Unserved
    BY DEF TerminalInit
  <2>2. PICK a : a = Fresh
    OBVIOUS
  <2>3. PICK v : v = Unserved
    OBVIOUS
  <2>4. v.at = "none" /\ v.dec = <<>>
    BY <2>3 DEF Unserved
  <2>5. /\ a.main = "off" /\ a.out = "none" /\ a.stdin = <<>> /\ a.buf = <<>> /\ a.todo = <<>>
        /\ a.said = "" /\ \A t \in Enders : a.ending[t].said = ""
    BY <2>2 DEF Fresh, NotEnding
  <2>6. InputOk(c, a, <<>>, v, <<>>, <<>>)
    BY <2>4, <2>5, FreshOk
  <2>7. Stages(c, a, v, {})
    BY <2>4, <2>5 DEF Stages
  <2>8. Honest(a, v)
    <3>1. "" \notin Reasons
      BY Sayings
    <3> QED BY <2>5, <3>1 DEF Honest, Enders
  <2>9. Unused(a, <<>>, <<>>, {}, v, <<>>, <<>>)
    BY <2>2, <2>3 DEF Unused
  <2>10. PICK q : q = Full(srv[c], cl[c].sess)
    OBVIOUS
  <2>11. Good(c, a, <<>>, <<>>, {}, v, <<>>, <<>>, v.due, q)
    BY <2>5, <2>6, <2>7, <2>8, <2>9 DEF Good
  <2>12. Good(c, cl[c], up[c], down[c], cut[c], srv[c], got[c], given[c], srv[c].due, q)
    BY <2>1, <2>2, <2>3, <2>11
  <2>13. cl[c].main = "off"
    BY <2>1, <2>2, <2>5
  <2> QED BY <2>10, <2>12, <2>13 DEF ClientOk
<1>7. ASSUME NEW s \in Sessions
      PROVE  FilterOk(wrote[s], pty[s], filter[s], ring[s]) /\ EndOf(fan[s], ring[s])
  <2>1. /\ wrote[s] = <<>> /\ pty[s] = <<>> /\ filter[s] = VtFilter /\ ring[s] = <<>>
        /\ fan[s] = <<>>
    BY DEF TerminalInit
  <2> QED BY <1>1, <2>1, FilterStarts, EndWaits
<1>8. \A s \in Sessions : bridges[s] = NoClient
  BY DEF TerminalInit
<1> QED BY <1>5, <1>6, <1>7, <1>8 DEF TerminalIInv

\* A step of an attach.
LEMMA AttachKeeps ==
    ASSUME TerminalIInv, NEW c \in Clients, AttachStep(c)
    PROVE  TerminalIInv'
<1>1. CASE connect(c)
  BY <1>1, ConnectStep
<1>2. CASE raw_mode(c)
  BY <1>2, RawStep
<1>17. CASE save(c)
  BY <1>17, SaveStep
<1>18. CASE install(c)
  BY <1>18, InstallStep
<1>3. CASE hello(c)
  BY <1>3, HelloStep
<1>4. CASE send_resize(c)
  BY <1>4, ResizeStep
<1>5. CASE read_stdin(c)
  BY <1>5, ReadStep
<1>6. CASE read_eof(c)
  BY <1>6, EofStep
<1>7. CASE host_input_loop(c)
  BY <1>7, ParseStep
<1>8. CASE send(c)
  BY <1>8, SendStep
<1>9. CASE leaving(c)
  BY <1>9, LeavingStep
<1>10. CASE detach(c)
  BY <1>10, DetachStep
<1>11. CASE sleep(c)
  BY <1>11, SleepStep
<1>12. CASE output_frame(c)
  BY <1>12, OutputFrameStep
<1>13. CASE output_read(c)
  BY <1>13, OutputReadStep
<1>14. CASE output_eof(c)
  BY <1>14, OutputEofStep
<1>15. ASSUME NEW t \in Enders, restore_terminal(c, t) PROVE TerminalIInv'
  BY <1>15, RestoreStep
<1>16. ASSUME NEW t \in Enders, exit(c, t) PROVE TerminalIInv'
  BY <1>16, ExitStep
<1> QED
  BY <1>1, <1>2, <1>3, <1>4, <1>5, <1>6, <1>7, <1>8, <1>9, <1>10, <1>11, <1>12, <1>13, <1>14,
     <1>15, <1>16, <1>17, <1>18 DEF AttachStep

\* A step of a supervisor or of what it serves.
LEMMA SupervisorKeeps ==
    ASSUME TerminalIInv, SupervisorStep
    PROVE  TerminalIInv'
<1>1. ASSUME NEW s \in Sessions, serve(s) PROVE TerminalIInv'
  BY <1>1, ServeStep
<1>2. ASSUME NEW s \in Sessions, supervisor_dies(s) PROVE TerminalIInv'
  BY <1>2, DiesStep
<1>3. ASSUME NEW s \in Sessions, NEW tok \in Tokens, harness_writes(s, tok) PROVE TerminalIInv'
  BY <1>3, HarnessStep
<1>4. ASSUME NEW s \in Sessions, NEW r \in Reasons, finish_session(s, r) PROVE TerminalIInv'
  BY <1>4, SessionEndStep
<1>5. ASSUME NEW c \in Clients, client_read(c) PROVE TerminalIInv'
  BY <1>5, ClientReadStep
<1>6. ASSUME NEW c \in Clients, first_frame(c) PROVE TerminalIInv'
  BY <1>6, FirstFrameStep
<1>7. ASSUME NEW c \in Clients, reject(c) PROVE TerminalIInv'
  BY <1>7, RejectStep
<1>8. ASSUME NEW c \in Clients, client_frame(c) PROVE TerminalIInv'
  BY <1>8, ClientFrameStep
<1>9. ASSUME NEW c \in Clients, client_eof(c) PROVE TerminalIInv'
  BY <1>9, ClientEofStep
<1>10. ASSUME NEW c \in Clients, pty_write_fails(c) PROVE TerminalIInv'
  BY <1>10, PtyWriteStep
<1>11. ASSUME NEW s \in Sessions, broadcast(s) PROVE TerminalIInv'
  BY <1>11, BroadcastStep
<1>12. ASSUME NEW c \in Clients, register(c) PROVE TerminalIInv'
  BY <1>12, RegisterStep
<1> QED
  BY <1>1, <1>2, <1>3, <1>4, <1>5, <1>6, <1>7, <1>8, <1>9, <1>10, <1>11, <1>12 DEF SupervisorStep

\* A step of a user.
LEMMA UserKeeps ==
    ASSUME TerminalIInv, AppStep \/ \E c \in Tabs : TabStep(c)
    PROVE  TerminalIInv'
<1>1. CASE AppStep
  <2>1. ASSUME NEW s \in Sessions, session_terminal_close(s) PROVE TerminalIInv'
    BY <2>1, AppCloseStep
  <2>2. ASSUME NEW s \in Sessions, NEW c \in Hosts, session_terminal_open(s, c) PROVE TerminalIInv'
    BY <2>2, AppOpenStep
  <2>3. ASSUME NEW s \in Sessions, NEW b \in Keys, session_terminal_input(s, b) PROVE TerminalIInv'
    BY <2>3, AppInputStep
  <2>4. ASSUME NEW s \in Sessions, NEW w \in Sizes, session_terminal_resize(s, w) PROVE TerminalIInv'
    BY <2>4, AppResizeStep
  <2>5. CASE close_all
    BY <2>5, QuitStep
  <2>6. ASSUME NEW c \in Hosts, kill(c) PROVE TerminalIInv'
    BY <2>6, KillStep
  <2> QED BY <1>1, <2>1, <2>2, <2>3, <2>4, <2>5, <2>6 DEF AppStep
<1>2. ASSUME NEW c \in Tabs, TabStep(c) PROVE TerminalIInv'
  <2>1. CASE end_stdin(c)
    BY <2>1, EndStdinStep
  <2>2. ASSUME NEW b \in Keys, type_keys(c, b) PROVE TerminalIInv'
    BY <2>2, TypeStep
  <2>3. ASSUME NEW w \in Sizes, on_winch(c, w) PROVE TerminalIInv'
    BY <2>3, WinchStep
  <2>4. ASSUME NEW s \in Sessions, open_tab(c, s) PROVE TerminalIInv'
    BY <2>4, OpenTabStep
  <2> QED BY <1>2, <2>1, <2>2, <2>3, <2>4 DEF TabStep
<1> QED BY <1>1, <1>2

\* A step that changes nothing.
LEMMA StutterKeeps ==
    ASSUME TerminalIInv, UNCHANGED termVars
    PROVE  TerminalIInv'
<1>1. /\ wrote' = wrote /\ pty' = pty /\ filter' = filter /\ ring' = ring /\ fan' = fan
      /\ over' = over /\ cl' = cl /\ up' = up /\ down' = down /\ cut' = cut /\ srv' = srv /\ got' = got
      /\ bridges' = bridges /\ given' = given /\ moves' = moves
  BY DEF termVars, sessVars, wireVars
<1>2. TerminalTypeOk'
  BY <1>1 DEF TerminalIInv, TerminalTypeOk
<1> QED BY <1>1, <1>2 DEF TerminalIInv, ClientOk, Full, BridgeOk

\* The inductive invariant.
LEMMA TerminalKeeps == TerminalIInv /\ [TerminalNext]_termVars => TerminalIInv'
<1> SUFFICES ASSUME TerminalIInv, [TerminalNext]_termVars PROVE TerminalIInv'
  OBVIOUS
<1>1. CASE SupervisorStep
  BY <1>1, SupervisorKeeps
<1>2. CASE AppStep \/ \E c \in Tabs : TabStep(c)
  BY <1>2, UserKeeps
<1>3. ASSUME NEW c \in Clients, AttachStep(c) PROVE TerminalIInv'
  BY <1>3, AttachKeeps
<1>4. ASSUME NEW c \in Clients, on_hangup(c) PROVE TerminalIInv'
  BY <1>4, HangupStep
<1>5. CASE UNCHANGED termVars
  BY <1>5, StutterKeeps
<1> QED BY <1>1, <1>2, <1>3, <1>4, <1>5 DEF TerminalNext

\* The invariant holds of every state that the terminals reach, whatever the
\* sessions, the clients, the keys, the cuts of the streams and the moves.
THEOREM TerminalInvariant == TerminalSpec => []TerminalIInv
<1>1. TerminalInit => TerminalIInv
  BY TerminalStarts
<1>2. TerminalIInv /\ [TerminalNext]_termVars => TerminalIInv'
  BY TerminalKeeps
<1> QED BY <1>1, <1>2, PTL DEF TerminalSpec

\* Every part of the state stays in its type: streams of bytes, what a client
\* gave and got, and the steps of an attach (attach.rs, server.rs, embed.rs).
THEOREM TerminalTypes == TerminalSpec => []TerminalTypeOk
<1>1. TerminalIInv => TerminalTypeOk
  BY DEF TerminalIInv
<1> QED BY <1>1, TerminalInvariant, PTL

\* Nobody whose detach the session honoured is told that the connection was
\* lost (attach.rs LEAVING, output_loop).
THEOREM LeavesHonestly == TerminalSpec => []LeaveIsHonest
<1>1. TerminalIInv => LeaveIsHonest
  BY DEF TerminalIInv, ClientOk, Good, Honest, LeaveIsHonest
<1> QED BY <1>1, TerminalInvariant, PTL

\* What the session of a client was given.
LEMMA InputMeant ==
    ASSUME NEW c, NEW a, NEW d, NEW v, NEW g \in Items, NEW i \in Items, InputOk(c, a, d, v, g, i)
    PROVE  IsPrefix(K(c, g), MeantOf(c, i)) /\ (v.at = "detached" => K(c, g) = MeantOf(c, i))
<1>1. CASE Open(v)
  <2>1. PICK w, t, e : Flow(c, a, d, v, g, i, w, t, e)
    BY <1>1 DEF InputOk, Flows
  <2>2. w \in Items /\ t \in Items /\ (Coming(c, a, g, i, w, t) \/ Done(c, a, g, i, w, t))
    BY <2>1 DEF Flow
  <2>3. IsPrefix(K(c, g), MeantOf(c, i))
    BY <2>2, SentIsMeant
  <2> QED BY <1>1, <2>3 DEF Open
<1>2. CASE ~Open(v)
  BY <1>2 DEF InputOk, Over
<1> QED BY <1>1, <1>2

\* The session of a terminal is given what its user gave it, in order and
\* nothing else, and when it honours a detach all of it: whatever the cuts of
\* the streams, and whenever the processes die (attach.rs input_loop and
\* host_input_loop, embed.rs Bridges, server.rs client loop).
THEOREM InputIsGiven == TerminalSpec => []InputIsWhatWasGiven
<1>1. TerminalIInv => InputIsWhatWasGiven
  <2> SUFFICES ASSUME TerminalIInv, NEW c \in Clients
               PROVE  /\ IsPrefix(Compared(c), Meant(c))
                      /\ srv[c].at = "detached" => Compared(c) = Meant(c)
    BY DEF InputIsWhatWasGiven
  <2>1. got[c] \in Items /\ given[c] \in Items
    BY DEF TerminalIInv, TerminalTypeOk
  <2>2. InputOk(c, cl[c], down[c], srv[c], got[c], given[c])
    BY DEF TerminalIInv, ClientOk, Good
  <2>3. /\ IsPrefix(K(c, got[c]), MeantOf(c, given[c]))
        /\ srv[c].at = "detached" => K(c, got[c]) = MeantOf(c, given[c])
    BY <2>1, <2>2, InputMeant
  <2>4. Compared(c) = K(c, got[c])
    BY DEF Compared, K, KeysOf
  <2>5. Meant(c) = MeantOf(c, given[c])
    BY DEF Meant, MeantOf, TheKey
  <2> QED BY <2>3, <2>4, <2>5
<1> QED BY <1>1, TerminalInvariant, PTL

\* A terminal shows a part of what the harness of its session drew that is
\* unbroken but for the seam of its registration, in order and from its start,
\* and all of it when it ends because the session ended: whatever the cuts of
\* the output and of the sequences in it, and whatever comes between the replay
\* and the registration (vt_filter.rs feed, wire.rs Decoder, server.rs
\* client_thread and broadcast, attach.rs output_loop).
THEOREM ScreenIsDrawn == TerminalSpec => []ScreenIsWhatWasDrawn
<1>1. TerminalIInv => ScreenIsWhatWasDrawn
  <2> SUFFICES ASSUME TerminalIInv, NEW c \in Clients, cl[c].main # "off"
               PROVE  /\ IsPrefix(cl[c].screen, ToSee(c))
                      /\ cl[c].said \in Reasons => cl[c].screen = ToSee(c)
    BY DEF ScreenIsWhatWasDrawn
  <2>1. PICK s \in Sessions : s = cl[c].sess
    BY SessHas
  <2>2. PICK v \in Servers : v = srv[c]
    BY DEF TerminalIInv, TerminalTypeOk
  <2>3. OutputOk(cl[c], up[c], v, v.due, Full(v, s)) /\ SeamOk(v, ring[s], fan[s])
    BY <2>1, <2>2 DEF TerminalIInv, ClientOk, Good
  <2>4. PICK x \in Bytes : x = cl[c].screen
    BY DEF TerminalIInv, TerminalTypeOk, Attach
  <2>5. FilterOk(wrote[s], pty[s], filter[s], ring[s])
    BY DEF TerminalIInv
  <2>6. PICK z \in Bytes : /\ ring[s] \in Bytes /\ Joined(DrawnOf(wrote[s]), ring[s], z)
                           /\ pty[s] = <<>> => ring[s] = DrawnOf(wrote[s])
    BY <2>5, FilterShows
  <2>7. IsPrefix(x, v.due) /\ (cl[c].said \in Reasons => x = v.due /\ Full(v, s))
    BY <2>3, <2>4 DEF OutputOk, Knows
  <2>8. IsPrefix(x, DueOf(v, DrawnOf(wrote[s])))
    <3>1. PICK y \in Bytes, f \in Bytes : y = ring[s] /\ f = fan[s]
      BY <2>6 DEF TerminalIInv, TerminalTypeOk
    <3>2. PICK t : t = DrawnOf(wrote[s])
      OBVIOUS
    <3>3. SeamOk(v, y, f) /\ Joined(t, y, z) /\ IsPrefix(x, v.due)
      BY <2>3, <2>6, <2>7, <3>1, <3>2
    <3> QED BY <3>2, <3>3, SeamShows
  <2>9. ToSee(c) = DueOf(v, DrawnOf(wrote[s]))
    BY <2>1, <2>2 DEF ToSee, DueOf, Drawn, DrawnOf
  <2>10. cl[c].said \in Reasons => x = DueOf(v, DrawnOf(wrote[s]))
    BY <2>6, <2>7 DEF Full
  <2> QED BY <2>4, <2>8, <2>9, <2>10
<1> QED BY <1>1, TerminalInvariant, PTL

-----------------------------------------------------------------------------
(* The user's terminal.                                                     *)

\* Nobody has touched it.
NobodyOut(a) == \A t \in Enders : a.ending[t].at = "no"
Untouched(a) == a.tty = "cooked" /\ ~a.SAVED /\ NobodyOut(a)
\* While it is raw its settings are saved, or with the thread that puts them back.
TtyHeld(a) ==
    /\ a.tty = "raw" => a.SAVED \/ \E t \in Enders : a.ending[t].at = "set"
    /\ (\E t \in Enders : a.ending[t].at \in {"set", "exit"}) => ~a.SAVED
\* Only thread t was on its way out.
OnlyOut(a, t) == a.ending[t].at # "no" /\ \A u \in Enders \ {t} : a.ending[u].at = "no"
\* Before it has said hello: the settings are not saved at "save", and at none of
\* these but the last would a signal be handled.
Early == {"off", "connect", "raw", "save", "install", "hello"}
TtyOk(c, a) ==
    /\ c \in Hosts => a.tty = "cooked"
    /\ a.main \in {"off", "connect", "raw"} => Untouched(a)
    /\ a.main \in {"save", "install"} => NobodyOut(a)
    /\ a.main \in Early => a.screen = <<>>
    /\ a.main \notin {"ending", "gone"} => a.ending["main"].at = "no"
    /\ a.main # "gone" /\ a.out # "ending" => a.ending["out"].at = "no"
    /\ a.main \notin {"save", "gone"} => TtyHeld(a)
    /\ a.main = "gone" => /\ \A t \in Enders : OnlyOut(a, t) => a.tty = "cooked"
                          /\ NobodyOut(a) /\ a.tty = "raw" => a.said = "killed" /\ a.screen = <<>>

\* It has said nothing, or was killed before it did.
Mute(a) == a.main \in Early \/ (a.main = "gone" /\ a.tty = "raw" /\ NobodyOut(a))
\* Then the session has heard nothing of it and will not.
Silent(c) ==
    Mute(cl[c]) => /\ down[c] = <<>> /\ srv[c].dec = <<>> /\ got[c] = <<>>
                   /\ srv[c].at \in {"none", "hello", "gone"}

\* What a step does to the end of an attach a: nothing,
Inside == {"loop", "read", "parse", "send", "leave", "detach", "sleep"}
Like(a, b) == b.tty = a.tty /\ b.SAVED = a.SAVED /\ b.ending = a.ending
Seen(a, b) == b.screen = a.screen \/ (a.out = "run" /\ a.main # "gone")
TtySame(a, b) ==
    /\ Like(a, b) /\ Seen(a, b) /\ b.said = a.said
    /\ b.out = a.out \/ (a.out = "none" /\ b.out = "run")
    /\ \/ b.main = a.main /\ b.out = a.out
       \/ a.main \in Inside \cup {"hello"} /\ b.main \in Inside
\* it begins or gets on,
TtyBegins(c, a, b) ==
    \/ /\ a.main = "off" /\ b.main = "connect" /\ Untouched(b) /\ b.out = "none"
       /\ b.screen = <<>>
    \/ /\ b.out = a.out /\ b.ending = a.ending /\ b.screen = a.screen
       /\ \/ a.main = "connect" /\ b.main \in {"raw", "install"} /\ Like(a, b)
          \/ c \in Tabs /\ a.main = "raw" /\ b.main = "save" /\ b.tty = "raw" /\ b.SAVED = a.SAVED
          \/ c \in Tabs /\ a.main = "save" /\ b.main = "install" /\ b.tty = a.tty /\ b.SAVED
          \/ a.main = "install" /\ b.main = "hello" /\ Like(a, b)
\* one of its threads is on its way out,
TtyEnds(a, b, t) ==
    /\ a.main \notin {"off", "gone"} /\ b.screen = a.screen
    /\ t = "main" => a.main \notin {"save", "install", "ending"}
    /\ t = "out" => a.out = "run"
    /\ t = "signal" => a.main \in Handlers /\ a.ending["signal"].at = "no"
    /\ b.main = (IF t = "main" THEN "ending" ELSE a.main)
    /\ b.out = (IF t = "out" THEN "ending" ELSE a.out)
    /\ b.tty = a.tty /\ b.SAVED = a.SAVED
    /\ b.ending[t].at = "swap" /\ \A u \in Enders \ {t} : b.ending[u] = a.ending[u]
\* puts the settings back,
TtyRestores(a, b, t) ==
    /\ a.main \notin {"off", "gone"} /\ b.main = a.main /\ b.out = a.out /\ b.screen = a.screen
    /\ \A u \in Enders \ {t} : b.ending[u] = a.ending[u]
    /\ \/ /\ a.ending[t].at = "swap" /\ ~b.SAVED /\ b.tty = a.tty
          /\ b.ending[t].at = IF a.SAVED THEN "set" ELSE "exit"
       \/ /\ a.ending[t].at = "set" /\ b.SAVED = a.SAVED /\ b.tty = "cooked"
          /\ b.ending[t].at = "exit"
\* or it is gone.
TtyGone(c, a, b) ==
    /\ a.main \notin {"off", "gone"} /\ b.main = "gone" /\ b.ending = a.ending /\ b.tty = a.tty
    /\ b.screen = a.screen
    /\ \/ \E t \in Enders : a.ending[t].at = "exit"
       \/ a.main \in {"connect", "raw", "save", "install"} /\ b.said = "killed"
       \/ c \in Hosts

TtyMove(c, a, b) ==
    \/ TtySame(a, b) \/ TtyBegins(c, a, b) \/ TtyGone(c, a, b)
    \/ \E t \in Enders : TtyEnds(a, b, t) \/ TtyRestores(a, b, t)

\* Each of these leaves it as it must be.
LEMMA TtyMoves ==
    ASSUME NEW c \in Clients, NEW a \in Attach, NEW b \in Attach, TtyOk(c, a), TtyMove(c, a, b),
           a.main \in Early => a.out = "none"
    PROVE  TtyOk(c, b)
<1>a. /\ Enders = {"main", "out", "signal"} /\ Handlers \subseteq Mains
      /\ Inside \cap (Early \cup {"ending", "gone"}) = {} /\ "gone" \notin Early
      /\ Handlers \cap {"off", "connect", "raw", "save", "install", "gone"} = {}
      /\ {"off", "connect", "raw", "save", "install"} \subseteq Early /\ Tabs \cap Hosts = {}
  BY TerminalAssumption DEF Enders, Handlers, Inside, Mains, Early
<1>1. CASE TtySame(a, b)
  <2>1. CASE b.main = a.main /\ b.out = a.out
    <3>1. a.main \in Early \cup {"gone"} => b.screen = a.screen
      BY <1>1 DEF TtySame, Seen
    <3> QED BY <1>1, <1>a, <2>1, <3>1 DEF TtySame, Like, TtyOk, Untouched, NobodyOut, TtyHeld, OnlyOut
  <2>2. CASE a.main \in Inside \cup {"hello"} /\ b.main \in Inside
    <3>1. /\ b.main \notin Early \cup {"ending", "gone"}
          /\ a.main \notin {"save", "install", "ending", "gone"}
      BY <1>a, <2>2 DEF Inside
    <3>2. a.ending["main"].at = "no" /\ (a.out # "ending" => a.ending["out"].at = "no") /\ TtyHeld(a)
      BY <3>1 DEF TtyOk
    <3>3. TtyHeld(b)
      BY <1>1, <3>2 DEF TtySame, Like, TtyHeld
    <3> QED BY <1>1, <1>a, <3>1, <3>2, <3>3 DEF TtySame, Like, TtyOk
  <2> QED BY <1>1, <2>1, <2>2 DEF TtySame
<1>2. CASE TtyBegins(c, a, b)
  <2>1. CASE a.main = "off"
    BY <1>2, <1>a, <2>1 DEF TtyBegins, TtyOk, Untouched, NobodyOut, TtyHeld
  <2>2. CASE a.main \in {"connect", "raw", "save", "install"}
    <3>1. /\ a.out = "none" /\ NobodyOut(a) /\ a.screen = <<>>
          /\ b.out = a.out /\ b.ending = a.ending /\ b.screen = a.screen
      BY <1>2, <1>a, <2>2 DEF TtyBegins, TtyOk, Untouched
    <3>2. b.main \in {"raw", "save", "install", "hello"} /\ NobodyOut(b)
      BY <1>2, <2>2, <3>1 DEF TtyBegins, NobodyOut
    <3>3. b.main = "raw" => Untouched(b)
      BY <1>2, <3>1, <3>2 DEF TtyBegins, TtyOk, Untouched, Like
    <3>4. b.main # "save" => TtyHeld(b)
      BY <1>2, <2>2, <3>1, <3>2 DEF TtyBegins, TtyOk, Untouched, Like, NobodyOut, TtyHeld
    <3>5. c \in Hosts => b.tty = "cooked"
      BY <1>2, <1>a, <2>2 DEF TtyBegins, TtyOk, Like
    <3>6. b.ending["main"].at = "no" /\ b.ending["out"].at = "no"
      BY <1>a, <3>2 DEF NobodyOut
    <3> QED BY <3>1, <3>2, <3>3, <3>4, <3>5, <3>6 DEF TtyOk
  <2> QED BY <1>2, <2>1, <2>2 DEF TtyBegins
<1>3. CASE TtyGone(c, a, b)
  <2>0. b.main = "gone" /\ b.ending = a.ending /\ b.tty = a.tty /\ b.screen = a.screen /\ "gone" \notin Early
    BY <1>3, <1>a DEF TtyGone
  <2>1. CASE \E t \in Enders : a.ending[t].at = "exit"
    <3>1. PICK t \in Enders : a.ending[t].at = "exit"
      BY <2>1
    <3>0. a.main \notin {"save", "gone"} /\ ~NobodyOut(b)
      BY <1>3, <2>0, <3>1 DEF TtyGone, TtyOk, NobodyOut
    <3>2. ~a.SAVED
      BY <3>0, <3>1 DEF TtyOk, TtyHeld
    <3>3. a.tty = "raw" => \E u \in Enders \ {t} : a.ending[u].at = "set"
      BY <3>0, <3>1, <3>2 DEF TtyOk, TtyHeld
    <3>4. a.tty \in {"cooked", "raw"}
      BY DEF Attach
    <3>5. ASSUME NEW u \in Enders, OnlyOut(b, u)
          PROVE  b.tty = "cooked"
      <4>2. u = t
        BY <2>0, <3>1, <3>5 DEF OnlyOut
      <4> QED BY <2>0, <3>3, <3>4, <3>5, <4>2 DEF OnlyOut
    <3> QED BY <2>0, <3>0, <3>5 DEF TtyOk
  <2>2. CASE a.main \in {"connect", "raw", "save", "install"} /\ b.said = "killed"
    <3>1. NobodyOut(a) /\ a.screen = <<>>
      BY <1>a, <2>2 DEF TtyOk, Untouched
    <3>2. \A t \in Enders : ~OnlyOut(b, t)
      BY <2>0, <3>1 DEF NobodyOut, OnlyOut
    <3> QED BY <2>0, <2>2, <3>1, <3>2 DEF TtyOk
  <2>3. CASE c \in Hosts
    BY <2>0, <2>3 DEF TtyOk
  <2> QED BY <1>3, <2>1, <2>2, <2>3 DEF TtyGone
<1>4. ASSUME NEW t \in Enders, TtyEnds(a, b, t)
      PROVE  TtyOk(c, b)
  <2>0. a.main \notin {"save", "install"}
    BY <1>4, <1>a DEF TtyEnds
  <2>1. /\ b.main \notin {"off", "connect", "raw", "save", "install", "gone"}
        /\ (b.main \in Early => a.main \in Early) /\ b.screen = a.screen
    BY <1>4, <1>a, <2>0 DEF TtyEnds, Early
  <2>2. a.ending[t].at = "no"
    BY <1>4, <1>a DEF TtyEnds, TtyOk
  <2>3. TtyHeld(b)
    BY <1>4, <2>0, <2>2 DEF TtyEnds, TtyOk, TtyHeld
  <2>4. c \in Hosts => b.tty = "cooked"
    BY <1>4 DEF TtyEnds, TtyOk
  <2>5. /\ b.main # "ending" => b.ending["main"].at = "no"
        /\ b.out # "ending" => b.ending["out"].at = "no"
    BY <1>4, <1>a DEF TtyEnds, TtyOk
  <2> QED BY <2>1, <2>3, <2>4, <2>5 DEF TtyOk
<1>5. ASSUME NEW t \in Enders, TtyRestores(a, b, t)
      PROVE  TtyOk(c, b)
  <2>1. a.ending[t].at # "no" /\ a.main # "gone"
    BY <1>5 DEF TtyRestores
  <2>2. /\ b.main \notin {"off", "connect", "raw", "save", "install", "gone"}
        /\ b.main = a.main /\ b.screen = a.screen
    BY <1>5, <2>1 DEF TtyRestores, TtyOk, Untouched, NobodyOut
  <2>6. TtyHeld(a)
    BY <2>2 DEF TtyOk
  <2>3. TtyHeld(b)
    <3>1. CASE a.ending[t].at = "swap"
      BY <1>5, <2>6, <3>1 DEF TtyRestores, TtyHeld
    <3>2. CASE a.ending[t].at = "set"
      BY <1>5, <2>6, <3>2 DEF TtyRestores, TtyHeld
    <3> QED BY <1>5, <3>1, <3>2 DEF TtyRestores
  <2>4. c \in Hosts => b.tty = "cooked"
    BY <1>5 DEF TtyRestores, TtyOk
  <2>5. /\ b.main # "ending" => b.ending["main"].at = "no"
        /\ b.out # "ending" => b.ending["out"].at = "no"
    BY <1>5, <1>a, <2>1 DEF TtyRestores, TtyOk
  <2> QED BY <2>2, <2>3, <2>4, <2>5 DEF TtyOk
<1> QED BY <1>1, <1>2, <1>3, <1>4, <1>5 DEF TtyMove

\* None makes it mute.
LEMMA TtyMute ==
    ASSUME NEW c \in Clients, NEW a, NEW b, TtyOk(c, a), TtyMove(c, a, b), Mute(b)
    PROVE  Mute(a)
<1>a. Inside \cap (Early \cup {"gone"}) = {} /\ {"gone", "ending"} \cap Early = {}
  BY DEF Inside, Early
<1>1. CASE TtySame(a, b)
  BY <1>1, <1>a DEF TtySame, Like, Mute, NobodyOut
<1>2. CASE TtyBegins(c, a, b)
  BY <1>2 DEF TtyBegins, Mute, Early
<1>3. CASE TtyGone(c, a, b)
  <2>1. b.main = "gone" /\ b.tty = "raw" /\ NobodyOut(b) /\ a.tty = "raw" /\ NobodyOut(a)
    BY <1>3, <1>a DEF TtyGone, Mute, NobodyOut
  <2>2. a.main \in {"connect", "raw", "save", "install"}
    BY <1>3, <2>1 DEF TtyGone, TtyOk, NobodyOut
  <2> QED BY <2>2 DEF Mute, Early
<1>4. ASSUME NEW t \in Enders, TtyEnds(a, b, t) \/ TtyRestores(a, b, t) PROVE Mute(a)
  BY <1>4, <1>a DEF TtyEnds, TtyRestores, Mute
<1> QED BY <1>1, <1>2, <1>3, <1>4 DEF TtyMove

\* A step of one attach that is such a move.
Away(c) == \E b : Set(c, b) /\ TtyMove(c, cl[c], b)
\* A step to another state of the loop, or none.
LEMMA Going ==
    ASSUME NEW c, NEW b, Set(c, b), Like(cl[c], b), Seen(cl[c], b), b.said = cl[c].said,
           b.out = cl[c].out \/ (cl[c].out = "none" /\ b.out = "run"),
           \/ b.main = cl[c].main /\ b.out = cl[c].out
           \/ cl[c].main \in Inside \cup {"hello"} /\ b.main \in Inside
    PROVE  Away(c)
BY DEF Away, TtyMove, TtySame

\* A thread's way out, after what else the step does to the attach.
LEMMA Finishing ==
    ASSUME NEW c, NEW a \in Attach, a = cl[c], NEW r, NEW t \in Enders, NEW s, NEW n,
           Set(c, finish(r, t, s, n)), DOMAIN r = DOMAIN a, Like(a, r), r.out = a.out,
           r.screen = a.screen, r.main = a.main \/ t = "main", a.main \notin {"off", "gone"},
           t = "main" => a.main \notin {"save", "install", "ending"}, t = "out" => a.out = "run",
           t = "signal" => a.main \in Handlers /\ a.ending["signal"].at = "no"
    PROVE  Away(c)
<1>1. PICK e : e = [at |-> "swap", said |-> s, code |-> n]
  OBVIOUS
<1>2. PICK f : f = [r.ending EXCEPT ![t] = e]
  OBVIOUS
<1>3. f[t].at = "swap" /\ \A u \in Enders \ {t} : f[u] = a.ending[u]
  BY <1>1, <1>2 DEF Attach, Like
<1>4. PICK b : Set(c, b) /\ b = [r EXCEPT !.ending = f, !.main = IF t = "main" THEN "ending" ELSE @,
                                          !.out = IF t = "out" THEN "ending" ELSE @]
  BY <1>1, <1>2 DEF finish
<1>5. /\ b.main = (IF t = "main" THEN "ending" ELSE r.main)
      /\ b.out = (IF t = "out" THEN "ending" ELSE r.out)
      /\ b.tty = r.tty /\ b.SAVED = r.SAVED /\ b.ending = f /\ b.screen = r.screen
  BY <1>4 DEF Attach
<1>6. TtyEnds(a, b, t)
  BY <1>3, <1>5 DEF TtyEnds, Like
<1> QED BY <1>4, <1>6 DEF Away, TtyMove

\* What an attach may be at.
LEMMA AttachAt ==
    ASSUME TerminalIInv, NEW c \in Clients
    PROVE  /\ cl[c] \in Attach /\ Stages(c, cl[c], srv[c], cut[c])
           /\ cl[c].main = "off" => ~cl[c].eof
<1>1. Fresh.eof = FALSE
  BY DEF Fresh
<1> QED BY <1>1 DEF TerminalIInv, TerminalTypeOk, ClientOk, Good, Unused

\* The steps of an attach, of its user's hands on it, and its violent ends.
LEMMA TtyAway ==
    ASSUME TerminalIInv, NEW c \in Clients,
           \/ AttachStep(c) \/ on_hangup(c) \/ (c \in Hosts /\ kill(c)) \/ (c \in Tabs /\ TabStep(c))
    PROVE  Away(c)
<1>1. PICK a \in Attach : a = cl[c] /\ Stages(c, a, srv[c], cut[c]) /\ (a.main = "off" => ~a.eof)
  BY AttachAt
<1>2. Enders = {"main", "out", "signal"}
  BY DEF Enders
<1>3. ASSUME NEW s, NEW n, Set(c, finish(a, "main", s, n)),
             a.main \notin {"off", "save", "install", "gone", "ending"}
      PROVE  Away(c)
  BY <1>1, <1>2, <1>3, Finishing DEF Like
<1>4. ASSUME NEW s, NEW n, Gone(c, s, n), a.main \notin {"off", "gone"},
             \/ \E t \in Enders : a.ending[t].at = "exit"
             \/ a.main \in {"connect", "raw", "save", "install"} /\ s = "killed"
             \/ c \in Hosts
      PROVE  Away(c)
  <2>1. PICK b : Set(c, b) /\ b = Departed(a, s, n)
    BY <1>1, <1>4 DEF Gone, Departed
  <2>2. /\ b.main = "gone" /\ b.ending = a.ending /\ b.tty = a.tty /\ b.screen = a.screen
        /\ b.said = s
    BY <2>1 DEF Attach, Departed
  <2>3. TtyGone(c, a, b)
    BY <1>4, <2>2 DEF TtyGone
  <2> QED BY <1>1, <2>1, <2>3 DEF Away, TtyMove
<1>5. CASE connect(c)
  <2>1. a.main = "connect"
    BY <1>1, <1>5 DEF connect, Main
  <2>2. CASE over[a.sess]
    BY <1>1, <1>3, <1>5, <2>1, <2>2 DEF connect
  <2>3. CASE ~over[a.sess]
    <3>1. PICK b : Set(c, b) /\ b = [a EXCEPT !.main = IF c \in Tabs THEN "raw" ELSE "install"]
      BY <1>1, <1>5, <2>3 DEF connect
    <3>2. TtyBegins(c, a, b)
      BY <2>1, <3>1 DEF TtyBegins, Like, Attach
    <3> QED BY <1>1, <3>1, <3>2 DEF Away, TtyMove
  <2> QED BY <2>2, <2>3
<1>6. CASE raw_mode(c)
  <2>1. a.main = "raw" /\ c \in Tabs
    BY <1>1, <1>6 DEF raw_mode, Main, Stages
  <2>2. PICK b : b = [a EXCEPT !.tty = "raw", !.main = "save"]
    OBVIOUS
  <2>3. TtyBegins(c, a, b)
    BY <2>1, <2>2 DEF TtyBegins, Attach
  <2> QED BY <1>1, <1>3, <1>6, <2>1, <2>2, <2>3 DEF raw_mode, Away, TtyMove
<1>22. CASE save(c)
  <2>1. a.main = "save" /\ c \in Tabs
    BY <1>1, <1>22 DEF save, Main, Stages
  <2>2. PICK b : b = [a EXCEPT !.SAVED = TRUE, !.main = "install"]
    OBVIOUS
  <2>3. TtyBegins(c, a, b)
    BY <2>1, <2>2 DEF TtyBegins, Attach
  <2> QED BY <1>1, <1>22, <2>2, <2>3 DEF save, Away, TtyMove
<1>23. CASE install(c)
  <2>1. a.main = "install"
    BY <1>1, <1>23 DEF install, Main
  <2>2. PICK b : b = [a EXCEPT !.main = "hello"]
    OBVIOUS
  <2>3. TtyBegins(c, a, b)
    BY <2>1, <2>2 DEF TtyBegins, Like, Attach
  <2> QED BY <1>1, <1>23, <2>2, <2>3 DEF install, Away, TtyMove
<1>7. CASE hello(c)
  <2>1. a.main = "hello" /\ a.out = "none"
    BY <1>1, <1>7 DEF hello, Main, Stages
  <2>2. PICK b : b = [a EXCEPT !.out = "run", !.main = IF c \in Tabs THEN "loop" ELSE "read"]
    OBVIOUS
  <2>3. Set(c, b) \/ Set(c, finish(a, "main", "no_hello", 1))
    BY <1>1, <1>7, <2>2 DEF hello, write_all
  <2>4. /\ Like(a, b) /\ b.out = "run" /\ b.main \in {"loop", "read"}
        /\ Seen(a, b) /\ b.said = a.said
    BY <2>2 DEF Attach, Like, Seen
  <2> QED BY <1>1, <1>3, <2>1, <2>3, <2>4, Going DEF Inside
<1>8. CASE send_resize(c)
  <2>1. a.main = "loop"
    BY <1>1, <1>8 DEF send_resize, Main
  <2>2. PICK b : b = [a EXCEPT !.RESIZED = FALSE, !.main = "read"]
    OBVIOUS
  <2>3. Set(c, b) \/ Set(c, finish(b, "main", "", 1))
    BY <1>1, <1>8, <2>2 DEF send_resize, write_all
  <2>4. /\ Like(a, b) /\ b.out = a.out /\ b.main = "read" /\ DOMAIN b = DOMAIN a
        /\ b.screen = a.screen /\ Seen(a, b) /\ b.said = a.said
    BY <2>2 DEF Attach, Like, Seen
  <2> QED BY <1>1, <1>2, <2>1, <2>3, <2>4, Going, Finishing DEF Inside
<1>9. CASE read_stdin(c)
  <2>1. a.main = "read"
    BY <1>1, <1>9 DEF read_stdin, Main
  <2>2. CASE c \in Tabs
    <3>1. PICK n \in KeyReads : Set(c, TabRead(a, n))
      BY <1>1, <1>9, <2>2 DEF read_stdin, input_loop, TabRead
    <3>2. PICK b : b = TabRead(a, n)
      OBVIOUS
    <3>3. \E x, t, m : b = [[a EXCEPT !.stdin = x] EXCEPT !.main = "send", !.todo = t, !.next = m]
      BY <3>2, Zenon DEF TabRead
    <3>4. /\ Like(a, b) /\ b.out = a.out /\ b.main = "send"
          /\ Seen(a, b) /\ b.said = a.said
      BY <3>3 DEF Attach, Like, Seen
    <3> QED BY <1>1, <2>1, <3>1, <3>2, <3>4, Going DEF Inside
  <2>3. CASE c \notin Tabs
    <3>1. PICK n \in ReadSizes : Set(c, HostRead(a, n))
      BY <1>1, <1>9, <2>3 DEF read_stdin, host_read, HostRead
    <3>2. PICK b : b = HostRead(a, n)
      OBVIOUS
    <3>3. \E x, y : b = [a EXCEPT !.stdin = x, !.buf = y, !.main = "parse"]
      BY <3>2, Zenon DEF HostRead
    <3>4. /\ Like(a, b) /\ b.out = a.out /\ b.main = "parse"
          /\ Seen(a, b) /\ b.said = a.said
      BY <3>3 DEF Attach, Like, Seen
    <3> QED BY <1>1, <2>1, <3>1, <3>2, <3>4, Going DEF Inside
  <2> QED BY <2>2, <2>3
<1>10. CASE host_input_loop(c)
  <2>1. a.main = "parse"
    BY <1>1, <1>10 DEF host_input_loop, Main
  <2>2. PICK f : f = decode_frame(a.buf)
    OBVIOUS
  <2>3. PICK x : x = Skip(a.buf, f.used)
    OBVIOUS
  <2>4. PICK b : b = IF f.used = 0 THEN [a EXCEPT !.main = "read"]
                     ELSE [a EXCEPT !.buf = x, !.main = "send", !.todo = f.frames, !.next = "parse"]
    OBVIOUS
  <2>5. Set(c, IF f.bad THEN finish(a, "main", "", 1) ELSE b)
    BY <1>1, <1>10, <2>2, <2>3, <2>4 DEF host_input_loop
  <2>6. /\ Like(a, b) /\ b.out = a.out /\ b.main \in {"read", "send"}
        /\ Seen(a, b) /\ b.said = a.said
    BY <2>4 DEF Attach, Like, Seen
  <2> QED BY <1>1, <1>3, <2>1, <2>5, <2>6, Going DEF Inside
<1>11. CASE send(c)
  <2>1. a.main = "send" /\ a.next \in {"loop", "leave", "parse"}
    BY <1>1, <1>11 DEF send, Main, Stages
  <2>2. PICK x : x = Tail(a.todo)
    OBVIOUS
  <2>3. PICK b : b = IF a.todo = <<>> THEN [a EXCEPT !.main = a.next] ELSE [a EXCEPT !.todo = x]
    OBVIOUS
  <2>4. Set(c, b) \/ Set(c, finish(a, "main", "", 1))
    BY <1>1, <1>11, <2>2, <2>3 DEF send, write_all
  <2>5. /\ Like(a, b) /\ b.out = a.out /\ b.main \in {"send", a.next}
        /\ Seen(a, b) /\ b.said = a.said
    BY <2>1, <2>3 DEF Attach, Like, Seen
  <2> QED BY <1>1, <1>3, <2>1, <2>4, <2>5, Going DEF Inside
<1>12. CASE read_eof(c) \/ leaving(c) \/ detach(c)
  <2>1. a.main \in {"read", "leave", "detach"}
    BY <1>1, <1>12 DEF read_eof, leaving, detach, Main
  <2>2. PICK b : /\ Set(c, b)
                 /\ \/ b = [a EXCEPT !.LEAVING = TRUE, !.main = "detach"]
                    \/ \E m \in {"leave", "sleep"} : b = [a EXCEPT !.main = m]
    BY <1>1, <1>12 DEF read_eof, leaving, detach, write_all
  <2>3. /\ Like(a, b) /\ b.out = a.out /\ b.main \in {"leave", "detach", "sleep"}
        /\ Seen(a, b) /\ b.said = a.said
    BY <2>2 DEF Attach, Like, Seen
  <2> QED BY <1>1, <2>1, <2>2, <2>3, Going DEF Inside
<1>13. CASE sleep(c)
  BY <1>1, <1>3, <1>13 DEF sleep, Main
<1>14. CASE output_frame(c) \/ output_read(c) \/ output_eof(c)
  <2>1. a.main \notin {"off", "gone"} /\ a.out = "run"
    BY <1>1, <1>14 DEF output_frame, output_read, output_eof, Running
  <2>2. \/ \E x : Set(c, [a EXCEPT !.dec = x])
        \/ \E x, y : Set(c, [[a EXCEPT !.dec = x] EXCEPT !.screen = y])
        \/ \E x, s, n : Set(c, finish([a EXCEPT !.dec = x], "out", s, n))
        \/ \E s, n : Set(c, finish(a, "out", s, n))
    <3>1. CASE output_frame(c)
      <4>1. PICK r, f : /\ r = [a EXCEPT !.dec = Skip(a.dec, f.used)]
                        /\ \/ Set(c, [r EXCEPT !.screen = r.screen \o f.payload])
                           \/ \E s, n : Set(c, finish(r, "out", s, n))
        BY <1>1, <3>1, Zenon DEF output_frame
      <4> QED BY <4>1
    <3> QED BY <1>1, <1>14, <3>1 DEF output_read, output_eof
  <2>3. ASSUME NEW x
        PROVE  LET r == [a EXCEPT !.dec = x]
               IN  /\ DOMAIN r = DOMAIN a /\ Like(a, r) /\ r.out = a.out /\ r.main = a.main
                   /\ r.screen = a.screen /\ Seen(a, r) /\ r.said = a.said
    BY DEF Attach, Like, Seen
  <2>4. ASSUME NEW x, NEW y
        PROVE  LET r == [[a EXCEPT !.dec = x] EXCEPT !.screen = y]
               IN  Like(a, r) /\ r.out = a.out /\ r.main = a.main /\ Seen(a, r) /\ r.said = a.said
    BY <2>1 DEF Attach, Like, Seen
  <2>5. ASSUME NEW r, NEW s, NEW n, Set(c, finish(r, "out", s, n)),
               DOMAIN r = DOMAIN a, Like(a, r), r.out = a.out, r.main = a.main, r.screen = a.screen
        PROVE  Away(c)
    BY <1>1, <1>2, <2>1, <2>5, Finishing
  <2>6. Like(a, a)
    BY DEF Like
  <2> QED BY <1>1, <2>2, <2>3, <2>4, <2>5, <2>6, Going
<1>15. ASSUME NEW t \in Enders, restore_terminal(c, t)
       PROVE  Away(c)
  <2>1. a.main \notin {"off", "gone"} /\ a.ending[t].at \in {"swap", "set"}
    BY <1>1, <1>15 DEF restore_terminal, Running
  <2>2. PICK y : y = IF a.ending[t].at = "swap" /\ a.SAVED THEN "set" ELSE "exit"
    OBVIOUS
  <2>3. PICK e : e = [a.ending[t] EXCEPT !.at = y]
    OBVIOUS
  <2>4. PICK f : f = [a.ending EXCEPT ![t] = e]
    OBVIOUS
  <2>5. f[t].at = y /\ \A u \in Enders \ {t} : f[u] = a.ending[u]
    BY <2>3, <2>4 DEF Attach, Endings
  <2>6. PICK b : /\ Set(c, b)
                 /\ b = IF a.ending[t].at = "swap" THEN [a EXCEPT !.SAVED = FALSE, !.ending = f]
                        ELSE [a EXCEPT !.tty = "cooked", !.ending = f]
    BY <1>1, <1>15, <2>2, <2>3, <2>4 DEF restore_terminal
  <2>7. /\ b.main = a.main /\ b.out = a.out /\ b.ending = f /\ b.screen = a.screen
        /\ IF a.ending[t].at = "swap" THEN ~b.SAVED /\ b.tty = a.tty
           ELSE b.SAVED = a.SAVED /\ b.tty = "cooked"
    BY <2>6 DEF Attach
  <2>8. TtyRestores(a, b, t)
    BY <2>1, <2>2, <2>5, <2>7 DEF TtyRestores
  <2> QED BY <1>1, <2>6, <2>8 DEF Away, TtyMove
<1>16. ASSUME NEW t \in Enders, exit(c, t)
       PROVE  Away(c)
  BY <1>1, <1>4, <1>16 DEF exit, Running
<1>17. CASE on_hangup(c)
  <2>1. a.main \notin {"off", "gone"} /\ a.ending["signal"].at = "no"
    BY <1>1, <1>17 DEF on_hangup, Running
  <2>2. CASE a.main \in Handlers
    <3>1. PICK n : Set(c, finish(a, "signal", "", n))
      BY <1>1, <1>17, <2>2 DEF on_hangup
    <3>2. Like(a, a)
      BY DEF Like
    <3> QED BY <1>1, <1>2, <2>1, <2>2, <3>1, <3>2, Finishing
  <2>3. CASE a.main \notin Handlers
    <3>1. a.main \in {"connect", "raw", "save", "install"}
      BY <2>1, <2>3 DEF Attach, Mains, Handlers
    <3> QED BY <1>1, <1>4, <1>17, <2>1, <2>3, <3>1 DEF on_hangup
  <2> QED BY <2>2, <2>3
<1>18. CASE c \in Hosts /\ kill(c)
  BY <1>1, <1>4, <1>18 DEF kill, Closing
<1>19. CASE end_stdin(c) \/ \E y \in Keys : type_keys(c, y)
  <2>1. PICK b : Set(c, b) /\ (b = [a EXCEPT !.eof = TRUE] \/ \E x : b = [a EXCEPT !.stdin = x])
    BY <1>1, <1>19 DEF end_stdin, type_keys
  <2>2. /\ Like(a, b) /\ b.out = a.out /\ b.main = a.main
        /\ Seen(a, b) /\ b.said = a.said
    BY <2>1 DEF Attach, Like, Seen
  <2> QED BY <1>1, <2>1, <2>2, Going
<1>20. ASSUME NEW w \in Sizes, on_winch(c, w)
       PROVE  Away(c)
  <2>1. PICK m \in {a.main} \cup (IF Blocked(c) THEN {"loop"} ELSE {}) :
            Set(c, [a EXCEPT !.win = w, !.RESIZED = (a.main \in Handlers), !.main = m])
    BY <1>1, <1>20 DEF on_winch
  <2>2. PICK b : b = [a EXCEPT !.win = w, !.RESIZED = (a.main \in Handlers), !.main = m]
    OBVIOUS
  <2>3. m = a.main \/ (m = "loop" /\ a.main = "read")
    BY <1>1, <2>1 DEF Blocked, Main
  <2>4. /\ Like(a, b) /\ b.out = a.out /\ b.main = m
        /\ Seen(a, b) /\ b.said = a.said
    BY <2>2 DEF Attach, Like, Seen
  <2> QED BY <1>1, <2>1, <2>2, <2>3, <2>4, Going DEF Inside
<1>21. ASSUME NEW s \in Sessions, open_tab(c, s)
       PROVE  Away(c)
  <2>1. a.main = "off" /\ Set(c, Started(s))
    BY <1>1, <1>21 DEF open_tab, Started
  <2>2. TtyBegins(c, a, Started(s))
    BY <2>1 DEF TtyBegins, Started, Fresh, Untouched, NobodyOut, NotEnding
  <2> QED BY <1>1, <2>1, <2>2 DEF Away, TtyMove
<1> QED BY <1>5, <1>6, <1>7, <1>8, <1>9, <1>10, <1>11, <1>12, <1>13, <1>14, <1>15, <1>16, <1>17,
           <1>18, <1>19, <1>20, <1>21, <1>22, <1>23 DEF AttachStep, TabStep

\* The app opens, feeds and closes terminals.
LEMMA TtyApp ==
    ASSUME TerminalIInv, AppStep, NEW c \in Clients
    PROVE  TtyMove(c, cl[c], cl'[c])
<1>0. cl \in [Clients -> Attach] /\ cl[c] \in Attach
  BY DEF TerminalIInv, TerminalTypeOk
<1>1. ASSUME NEW S, NEW l, l = close(S)
      PROVE  TtyMove(c, cl[c], l[c])
  <2>1. l[c] = cl[c] \/ l[c] = Shutting(cl[c])
    BY <1>1, CloseDoes
  <2>2. TtySame(cl[c], l[c])
    BY <1>0, <2>1 DEF TtySame, Like, Seen, Shutting, Attach
  <2> QED BY <2>2 DEF TtyMove
<1>2. ASSUME NEW s \in Sessions, session_terminal_close(s)
      PROVE  TtyMove(c, cl[c], cl'[c])
  <2>1. cl' = close({bridges[s]})
    BY <1>2 DEF session_terminal_close, remove
  <2> QED BY <1>1, <2>1
<1>3. ASSUME NEW s \in Sessions, NEW h \in Hosts, session_terminal_open(s, h)
      PROVE  TtyMove(c, cl[c], cl'[c])
  <2>0. PICK S : S = {bridges[s]}
    OBVIOUS
  <2>1. PICK l : l = close({bridges[s]}) /\ l = close(S)
    BY <2>0
  <2>2. cl[h].main = "off" /\ cl' = [l EXCEPT ![h] = Started(s)]
    BY <1>3, <2>1 DEF session_terminal_open, insert, Started
  <2>3. l = [o \in Clients |-> l[o]]
    BY <2>1, CloseDoes
  <2>4. CASE c = h
    <3>1. cl'[c] = Started(s)
      BY <2>2, <2>3, <2>4
    <3>2. TtyBegins(c, cl[c], Started(s))
      BY <2>2, <2>4 DEF TtyBegins, Started, Fresh, Untouched, NobodyOut, NotEnding
    <3> QED BY <3>1, <3>2 DEF TtyMove
  <2>5. CASE c # h
    <3>1. cl'[c] = l[c]
      BY <2>2, <2>3, <2>5
    <3> QED BY <1>1, <2>1, <3>1
  <2> QED BY <2>4, <2>5
<1>4. ASSUME NEW s \in Sessions, NEW m, NEW t, write(s, m, t)
      PROVE  TtyMove(c, cl[c], cl'[c])
  <2>1. write_frame(bridges[s], m, t)
    BY <1>4 DEF write
  <2>2. CASE cl' = cl
    BY <2>2 DEF TtyMove, TtySame, Like, Seen
  <2>3. CASE Set(bridges[s], [cl[bridges[s]] EXCEPT !.stdin = @ \o m])
    <3>1. PICK x : x = cl[bridges[s]].stdin \o m
      OBVIOUS
    <3>2. cl' = [cl EXCEPT ![bridges[s]] = [cl[bridges[s]] EXCEPT !.stdin = x]]
      BY <2>3, <3>1 DEF Set
    <3>3. cl'[c] = cl[c] \/ cl'[c] = [cl[c] EXCEPT !.stdin = x]
      BY <1>0, <3>2
    <3>4. TtySame(cl[c], cl'[c])
      BY <1>0, <3>3 DEF TtySame, Like, Seen, Attach
    <3> QED BY <3>4 DEF TtyMove
  <2> QED BY <2>1, <2>2, <2>3 DEF write_frame
<1>5. CASE close_all
  <2>1. cl' = close(Range(bridges))
    BY <1>5 DEF close_all
  <2> QED BY <1>1, <2>1
<1>6. ASSUME NEW h \in Hosts, kill(h)
      PROVE  TtyMove(c, cl[c], cl'[c])
  <2>1. h \in Clients
    BY DEF Clients
  <2>2. PICK b : Set(h, b) /\ TtyMove(h, cl[h], b)
    BY <1>6, <2>1, TtyAway DEF Away
  <2>3. cl'[c] = IF c = h THEN b ELSE cl[c]
    BY <1>0, <2>2 DEF Set
  <2> QED BY <2>2, <2>3 DEF TtyMove, TtySame, Like, Seen
<1>7. ASSUME NEW s \in Sessions, NEW b \in Keys, session_terminal_input(s, b)
      PROVE  TtyMove(c, cl[c], cl'[c])
  BY <1>4, <1>7 DEF session_terminal_input
<1>8. ASSUME NEW s \in Sessions, NEW w \in Sizes, session_terminal_resize(s, w)
      PROVE  TtyMove(c, cl[c], cl'[c])
  BY <1>4, <1>8 DEF session_terminal_resize
<1> QED BY <1>2, <1>3, <1>5, <1>6, <1>7, <1>8 DEF AppStep

\* Every step is such a move of every attach.
LEMMA TtyStep ==
    ASSUME TerminalIInv, [TerminalNext]_termVars, NEW c \in Clients
    PROVE  TtyMove(c, cl[c], cl'[c])
<1>1. ASSUME NEW o \in Clients, Away(o)
      PROVE  TtyMove(c, cl[c], cl'[c])
  <2>1. PICK b : Set(o, b) /\ TtyMove(o, cl[o], b)
    BY <1>1 DEF Away
  <2>2. cl'[c] = IF c = o THEN b ELSE cl[c]
    BY <2>1 DEF Set, TerminalIInv, TerminalTypeOk
  <2> QED BY <2>1, <2>2 DEF TtyMove, TtySame, Like, Seen
<1>2. CASE cl' = cl
  BY <1>2 DEF TtyMove, TtySame, Like, Seen
<1>3. CASE SupervisorStep
  <2>1. cl' = cl
    BY <1>3 DEF SupervisorStep, serve, supervisor_dies, harness_writes, finish_session,
                client_read, first_frame, reject, client_frame, client_eof, pty_write_fails,
                broadcast, register
  <2> QED BY <1>2, <2>1
<1>4. CASE AppStep
  BY <1>4, TtyApp
<1>5. ASSUME NEW o \in Tabs, TabStep(o)
      PROVE  TtyMove(c, cl[c], cl'[c])
  <2>1. o \in Clients
    BY DEF Clients
  <2> QED BY <1>1, <1>5, <2>1, TtyAway
<1>6. ASSUME NEW o \in Clients, AttachStep(o) \/ on_hangup(o)
      PROVE  TtyMove(c, cl[c], cl'[c])
  BY <1>1, <1>6, TtyAway
<1>8. CASE UNCHANGED termVars
  BY <1>2, <1>8 DEF termVars
<1> QED BY <1>3, <1>4, <1>5, <1>6, <1>8 DEF TerminalNext

\* A step that leaves an attach mute leaves it silent.
LEMMA SilentStep ==
    ASSUME TerminalIInv, [TerminalNext]_termVars, NEW c \in Clients, Silent(c), Mute(cl[c]),
           Mute(cl'[c])
    PROVE  /\ down'[c] = <<>> /\ srv'[c].dec = <<>> /\ got'[c] = <<>>
           /\ srv'[c].at \in {"none", "hello", "gone"}
<1>0. /\ cl \in [Clients -> Attach] /\ down \in [Clients -> Bytes] /\ srv \in [Clients -> Servers]
      /\ got \in [Clients -> Items] /\ cl[c] \in Attach /\ srv[c] \in Servers
  BY DEF TerminalIInv, TerminalTypeOk
<1>1. /\ down[c] = <<>> /\ srv[c].dec = <<>> /\ got[c] = <<>>
      /\ srv[c].at \in {"none", "hello", "gone"} /\ pop(srv[c].dec).used = 0
  BY DEF Silent, pop, HEADER
<1>m. /\ cl[c].main \in Early \cup {"gone"} /\ cl'[c].main \in Early \cup {"gone"}
      /\ Early \cap (Inside \cup {"ending", "gone"}) = {}
  BY DEF Mute, Early, Inside
<1>2. CASE UNCHANGED <<down, srv, got>>
  BY <1>1, <1>2

<1>4. ASSUME NEW o \in Clients, AttachStep(o)
      PROVE  down'[c] = <<>> /\ got' = got /\ (srv' = srv \/ connect(o))
  <2>1. CASE hello(o)
    <3>1. CASE o = c
      <4>1. cl[c].main = "hello"
        BY <2>1, <3>1 DEF hello, Main
      <4>2. CASE "up" \in cut[c]
        BY <1>1, <2>1, <3>1, <4>2 DEF hello, write_all, MainRest
      <4>3. CASE "up" \notin cut[c]
        <5>1. PICK m : m = (IF c \in Tabs THEN "loop" ELSE "read")
          OBVIOUS
        <5>2. Set(c, [cl[c] EXCEPT !.out = "run", !.main = m])
          BY <2>1, <3>1, <4>3, <5>1 DEF hello, write_all
        <5>3. cl'[c].main = m
          BY <1>0, <5>2 DEF Set, Attach
        <5> QED BY <1>m, <5>1, <5>3 DEF Inside
      <4> QED BY <4>2, <4>3
    <3>2. CASE o # c
      BY <1>0, <1>1, <2>1, <3>2 DEF hello, write_all, MainRest
    <3> QED BY <3>1, <3>2
  <2>2. CASE send_resize(o)
    <3>1. o # c
      BY <1>m, <2>2 DEF send_resize, Main, Inside
    <3> QED BY <1>0, <1>1, <2>2, <3>1 DEF send_resize, write_all, MainRest
  <2>3. CASE send(o)
    <3>1. o # c
      BY <1>m, <2>3 DEF send, Main, Inside
    <3> QED BY <1>0, <1>1, <2>3, <3>1 DEF send, write_all, MainRest
  <2>4. CASE detach(o)
    <3>1. o # c
      BY <1>m, <2>4 DEF detach, Main, Inside
    <3> QED BY <1>0, <1>1, <2>4, <3>1 DEF detach, write_all
  <2>5. CASE connect(o)
    BY <1>1, <2>5 DEF connect, wireVars
  <2>6. ASSUME NEW t \in Enders, restore_terminal(o, t) \/ exit(o, t)
        PROVE  UNCHANGED <<down, srv, got>>
    BY <2>6 DEF restore_terminal, exit, Quietly, wireVars
  <2>7. CASE raw_mode(o) \/ save(o) \/ install(o) \/ read_stdin(o) \/ read_eof(o)
             \/ host_input_loop(o) \/ leaving(o) \/ sleep(o) \/ output_frame(o)
             \/ output_read(o) \/ output_eof(o)
    BY <1>1, <2>7 DEF raw_mode, save, install, read_stdin, read_eof, host_input_loop, leaving,
                      sleep, output_frame, output_read, output_eof, Quietly, wireVars
  <2> QED BY <1>4, <1>1, <2>1, <2>2, <2>3, <2>4, <2>5, <2>6, <2>7 DEF AttachStep
<1>5. ASSUME NEW o \in Clients, connect(o)
      PROVE  srv'[c].dec = <<>> /\ srv'[c].at \in {"none", "hello", "gone"}
  <2>1. PICK r : r = [srv[o] EXCEPT !.at = "hello"]
    OBVIOUS
  <2>2. srv' = srv \/ srv' = [srv EXCEPT ![o] = r]
    BY <1>5, <2>1 DEF connect
  <2>3. o = c => r.dec = srv[c].dec /\ r.at = "hello"
    BY <1>0, <2>1 DEF Servers
  <2> QED BY <1>0, <1>1, <2>2, <2>3
<1>6. CASE SupervisorStep
  <2>1. ASSUME NEW s \in Sessions, broadcast(s) \/ supervisor_dies(s)
        PROVE  UNCHANGED <<down, got>> /\ srv'[c] = srv[c]
    <3>1. c \notin Registered(s)
      BY <1>1 DEF Registered
    <3> QED BY <2>1, <3>1 DEF broadcast, supervisor_dies, Leave
  <2>2. ASSUME NEW s \in Sessions, NEW r \in Reasons, finish_session(s, r)
        PROVE  UNCHANGED <<down, got>> /\ srv'[c] = srv[c]
    <3>1. c \notin Registered(s)
      BY <1>1 DEF Registered
    <3> QED BY <2>2, <3>1 DEF finish_session, Leave
  <2>3. ASSUME NEW s \in Sessions, \/ serve(s)
                                   \/ \E tok \in Tokens : harness_writes(s, tok)
        PROVE  UNCHANGED <<down, srv, got>>
    BY <2>3 DEF serve, harness_writes, wireVars
  <2>4. ASSUME NEW o \in Clients, client_read(o)
        PROVE  got' = got /\ srv'[c] = srv[c] /\ down'[c] = down[c]
    <3>1. o # c
      BY <1>1, <2>4 DEF client_read
    <3> QED BY <1>0, <2>4, <3>1 DEF client_read
  <2>5. ASSUME NEW o \in Clients, first_frame(o)
        PROVE  UNCHANGED <<down, got>> /\ srv'[c] = srv[c]
    <3>1. o # c
      BY <1>1, <2>5 DEF first_frame
    <3> QED BY <1>0, <2>5, <3>1 DEF first_frame
  <2>6. ASSUME NEW o \in Clients, register(o)
        PROVE  UNCHANGED <<down, got>> /\ srv'[c] = srv[c]
    <3>1. o # c
      BY <1>1, <2>6 DEF register
    <3> QED BY <1>0, <2>6, <3>1 DEF register, wireVars
  <2>7. ASSUME NEW o \in Clients, reject(o) \/ client_eof(o)
        PROVE  /\ UNCHANGED <<down, got>> /\ srv'[c].dec = srv[c].dec
               /\ srv'[c].at \in {srv[c].at, "gone"}
    <3>1. PICK r : r = [srv[o] EXCEPT !.at = "gone"]
      OBVIOUS
    <3>2. srv'[c] = srv[c] \/ (o = c /\ srv'[c] = r)
      BY <1>0, <2>7, <3>1 DEF reject, client_eof, Leave
    <3>3. o = c => r.dec = srv[c].dec /\ r.at = "gone"
      BY <1>0, <3>1 DEF Servers
    <3>4. UNCHANGED <<down, got>>
      BY <2>7 DEF reject, client_eof
    <3> QED BY <3>2, <3>3, <3>4
  <2>8. ASSUME NEW o \in Clients, client_frame(o)
        PROVE  down' = down /\ got'[c] = got[c] /\ srv'[c] = srv[c]
    <3>1. o # c
      BY <1>1, <2>8 DEF client_frame
    <3>2. \E x, y : srv' = [srv EXCEPT ![o] = x] /\ got' = [got EXCEPT ![o] = y] /\ down' = down
      BY <2>8, Zenon DEF client_frame
    <3> QED BY <1>0, <3>1, <3>2
  <2>9. ASSUME NEW o \in Clients, pty_write_fails(o)
        PROVE  UNCHANGED <<down, got>> /\ srv'[c] = srv[c]
    <3>1. o # c
      BY <1>1, <2>9 DEF pty_write_fails
    <3> QED BY <1>0, <2>9, <3>1 DEF pty_write_fails, Leave
  <2> QED BY <1>1, <1>6, <2>1, <2>2, <2>3, <2>4, <2>5, <2>6, <2>7, <2>8, <2>9 DEF SupervisorStep
<1>7. CASE AppStep
  BY <1>2, <1>7 DEF AppStep, session_terminal_close, session_terminal_open, session_terminal_input,
                    session_terminal_resize, write, close_all, kill, wireVars
<1>8. ASSUME NEW o \in Clients, TabStep(o) \/ on_hangup(o)
      PROVE  UNCHANGED <<down, srv, got>>
  BY <1>8 DEF TabStep, end_stdin, type_keys, on_winch, open_tab, on_hangup, wireVars
<1>9. CASE UNCHANGED termVars
  BY <1>2, <1>9 DEF termVars, wireVars
<1>10. \A o \in Tabs : o \in Clients
  BY DEF Clients
<1> QED BY <1>1, <1>2, <1>4, <1>5, <1>6, <1>7, <1>8, <1>9, <1>10 DEF TerminalNext

\* The terminals of all attaches are as they must be, and the mute ones silent.
TtyInv == \A c \in Clients : TtyOk(c, cl[c]) /\ Silent(c)

\* The settings of every terminal are as they were found, or somebody has
\* them to put back, all through the end of the process; but for one that
\* was killed while its settings were not saved or its handlers not there,
\* of which the session has heard nothing (attach.rs RawGuard, raw_mode,
\* install, restore_terminal, finish, on_hangup).
THEOREM TtyInvariance == TerminalSpec => []TtyInv
<1>1. TerminalInit => TtyInv
  <2> SUFFICES ASSUME TerminalInit, NEW c \in Clients PROVE TtyOk(c, cl[c]) /\ Silent(c)
    BY DEF TtyInv
  <2>1. cl[c] = Fresh /\ down[c] = <<>> /\ got[c] = <<>> /\ srv[c] = Unserved
    BY DEF TerminalInit
  <2>2. /\ Fresh.main = "off" /\ Fresh.out = "none" /\ Fresh.tty = "cooked" /\ Fresh.SAVED = FALSE
        /\ \A t \in Enders : Fresh.ending[t].at = "no"
        /\ Fresh.screen = <<>>
    BY DEF Fresh, NotEnding
  <2>3. "main" \in Enders /\ "out" \in Enders
    BY DEF Enders
  <2>4. TtyOk(c, cl[c])
    BY <2>1, <2>2, <2>3 DEF TtyOk, TtyHeld, Untouched, NobodyOut
  <2>5. Unserved.dec = <<>> /\ Unserved.at = "none"
    BY DEF Unserved
  <2> QED BY <2>1, <2>4, <2>5 DEF Silent
<1>2. TtyInv /\ TerminalIInv /\ TerminalTypeOk' /\ [TerminalNext]_termVars => TtyInv'
  <2> SUFFICES ASSUME TtyInv, TerminalIInv, TerminalTypeOk', [TerminalNext]_termVars,
                      NEW c \in Clients
               PROVE  TtyOk(c, cl'[c]) /\ Silent(c)'
    BY DEF TtyInv
  <2>1. TtyOk(c, cl[c]) /\ Silent(c) /\ TtyMove(c, cl[c], cl'[c])
    BY TtyStep DEF TtyInv
  <2>2. cl[c] \in Attach /\ cl'[c] \in Attach
    BY DEF TerminalIInv, TerminalTypeOk
  <2>3. cl[c].main \in Early => cl[c].out = "none"
    BY AttachAt DEF Stages, Early
  <2>4. TtyOk(c, cl'[c])
    BY <2>1, <2>2, <2>3, TtyMoves
  <2>5. Mute(cl'[c]) => Mute(cl[c])
    BY <2>1, TtyMute
  <2>6. Silent(c)'
    BY <2>1, <2>5, SilentStep DEF Silent
  <2> QED BY <2>4, <2>6
<1> QED BY <1>1, <1>2, TerminalInvariant, TerminalTypes, PTL DEF TerminalSpec

\* The user's terminal is left as it was found, unless two threads ended the
\* process, or a signal killed it before its handlers were there: then it had
\* shown nothing and the session was given nothing of it (attach.rs RawGuard,
\* raw_mode, install, finish, on_hangup).
THEOREM TerminalIsGivenBack == TerminalSpec => []TerminalGivenBack
<1>1. TtyInv => TerminalGivenBack
  <2> SUFFICES ASSUME TtyInv, NEW c \in Clients, cl[c].main = "gone", cl[c].tty = "raw"
               PROVE  \/ Cardinality({t \in Enders : cl[c].ending[t].at # "no"}) > 1
                      \/ cl[c].said = "killed" /\ cl[c].screen = <<>> /\ got[c] = <<>>
    BY DEF TerminalGivenBack
  <2>1. PICK S : S = {t \in Enders : cl[c].ending[t].at # "no"}
    OBVIOUS
  <2>2. IsFiniteSet({"main", "out", "signal"})
    <3>1. IsFiniteSet({"main"})
      BY FS_Singleton
    <3>2. IsFiniteSet({"main"} \cup {"out"})
      BY <3>1, FS_AddElement
    <3>3. IsFiniteSet(({"main"} \cup {"out"}) \cup {"signal"})
      BY <3>2, FS_AddElement
    <3>4. ({"main"} \cup {"out"}) \cup {"signal"} = {"main", "out", "signal"}
      OBVIOUS
    <3> QED BY <3>3, <3>4
  <2>3. IsFiniteSet(S) /\ Cardinality(S) \in Nat
    BY <2>1, <2>2, FS_Subset, FS_CardinalityType DEF Enders
  <2>4. TtyOk(c, cl[c]) /\ Silent(c)
    BY DEF TtyInv
  <2>5. Cardinality(S) # 1
    <3> SUFFICES ASSUME Cardinality(S) = 1 PROVE FALSE
      OBVIOUS
    <3>1. PICK t : S = {t}
      BY <2>3, FS_Singleton
    <3>2. t \in Enders /\ OnlyOut(cl[c], t)
      BY <2>1, <3>1 DEF OnlyOut
    <3> QED BY <2>4, <3>2 DEF TtyOk
  <2>6. CASE Cardinality(S) = 0
    <3>1. S = {}
      BY <2>3, <2>6, FS_EmptySet
    <3>2. NobodyOut(cl[c])
      BY <2>1, <3>1 DEF NobodyOut
    <3>3. cl[c].said = "killed" /\ cl[c].screen = <<>>
      BY <2>4, <3>2 DEF TtyOk
    <3>4. got[c] = <<>>
      BY <2>4, <3>2 DEF Silent, Mute
    <3> QED BY <3>3, <3>4
  <2>7. CASE Cardinality(S) # 0
    <3>1. Cardinality(S) > 1
      BY <2>3, <2>5, <2>7
    <3> QED BY <2>1, <3>1
  <2> QED BY <2>6, <2>7
<1> QED BY <1>1, TtyInvariance, PTL
=============================================================================
