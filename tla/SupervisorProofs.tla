-------------------------- MODULE SupervisorProofs --------------------------
(***************************************************************************)
(* The safety of Supervisor, for any number of terminals, control clients, *)
(* chunks, refusals and sizes of the ring and the queues.                  *)
(***************************************************************************)
EXTENDS Supervisor, SequenceTheorems, FiniteSetTheorems, WellFoundedInduction,
        TLAPS

-----------------------------------------------------------------------------
(* What the log means, for logs of every length: the fold of from_log       *)
(* exists, the empty log means Creating, and one more line means one more   *)
(* apply_event.  The library's induction theorems take the statement to be  *)
(* proved as an operator, which the provers cannot instantiate: here it is  *)
(* about the members of a set.                                              *)

\* A non-empty set of naturals has a least element.
LEMMA LeastNumber ==
    ASSUME NEW S, S \subseteq Nat, S /= {}
    PROVE  \E n \in S : \A m \in S : n <= m
<1> DEFINE R == {ss \in Nat \X Nat : ss[1] < ss[2]}
<1>1. IsWellFoundedOn(R, Nat)
  BY NatLessThanWellFounded DEF OpToRel
<1>2. \E x \in S : \A y \in S : ~ (<<y, x>> \in R)
  <2> HIDE DEF R
  <2> QED BY <1>1, WFMin
<1>3. PICK x \in S : \A y \in S : ~ (<<y, x>> \in R)
  BY <1>2
<1>4. ASSUME NEW y \in S
      PROVE  x <= y
  <2>1. x \in Nat /\ y \in Nat /\ <<y, x>> \in Nat \X Nat
    BY <1>3
  <2>2. ~ (y < x)
    BY <1>3, <2>1
  <2> QED BY <2>1, <2>2
<1> QED BY <1>3, <1>4

\* A set that holds 0 and with each number its successor holds them all.
LEMMA Induction ==
    ASSUME NEW S, 0 \in S, \A n \in Nat : n \in S => n + 1 \in S
    PROVE  \A n \in Nat : n \in S
<1> SUFFICES ASSUME Nat \ S /= {} PROVE FALSE
  OBVIOUS
<1>1. PICK n \in Nat \ S : \A m \in Nat \ S : n <= m
  BY LeastNumber
<1>2. n /= 0 /\ n - 1 \in Nat /\ n - 1 \in S
  BY <1>1
<1> QED BY <1>1, <1>2

-----------------------------------------------------------------------------
(* The fold.                                                                *)

\* f[n] is what the first n lines mean, for every n up to k.
IsFold(f, lines, k) ==
    f = [n \in 0..k |->
            IF n = 0 THEN Creating ELSE apply_event(f[n - 1], lines[n])]

\* from_log's recursive function exists, whatever the lines are.
LEMMA FoldExists ==
    ASSUME NEW lines, NEW k \in Nat
    PROVE  \E f : IsFold(f, lines, k)
<1> DEFINE S == {n \in Nat : \E f : IsFold(f, lines, n)}
<1>1. 0 \in S
  <2> DEFINE f == [n \in 0..0 |-> Creating]
  <2>1. IsFold(f, lines, 0)
    BY DEF IsFold
  <2> QED BY <2>1
<1>2. ASSUME NEW n \in Nat, n \in S
      PROVE  n + 1 \in S
  <2>1. PICK f : IsFold(f, lines, n)
    BY <1>2
  <2> DEFINE g == [i \in 0..(n + 1) |->
                      IF i = n + 1 THEN apply_event(f[n], lines[i]) ELSE f[i]]
  <2>2. ASSUME NEW i \in 0..(n + 1)
        PROVE  g[i] = IF i = 0 THEN Creating
                      ELSE apply_event(g[i - 1], lines[i])
    <3>1. CASE i = n + 1
      <4>1. i /= 0 /\ i - 1 = n /\ n \in 0..(n + 1) /\ n /= n + 1
        BY <3>1
      <4>2. g[i] = apply_event(f[n], lines[i]) /\ g[n] = f[n]
        BY <3>1, <4>1
      <4> QED BY <4>1, <4>2
    <3>2. CASE i /= n + 1
      <4>1. /\ i \in 0..n
            /\ i /= 0 => /\ i - 1 \in 0..n
                         /\ i - 1 \in 0..(n + 1) /\ i - 1 /= n + 1
        BY <3>2
      <4>2. g[i] = f[i] /\ (i /= 0 => g[i - 1] = f[i - 1])
        BY <4>1, <3>2
      <4>3. f[i] = IF i = 0 THEN Creating ELSE apply_event(f[i - 1], lines[i])
        BY <2>1, <4>1 DEF IsFold
      <4> QED BY <4>2, <4>3
    <3> QED BY <3>1, <3>2
  <2> HIDE DEF g
  <2>3. g = [i \in 0..(n + 1) |-> g[i]]
    BY DEF g
  <2>4. IsFold(g, lines, n + 1)
    BY <2>2, <2>3, Zenon DEF IsFold
  <2> QED BY <2>4
<1> HIDE DEF S
<1>3. k \in S
  BY <1>1, <1>2, Induction
<1> QED BY <1>3 DEF S

\* from_log is the last value of such a function.
LEMMA FromLogFolds ==
    ASSUME NEW lines, Len(lines) \in Nat
    PROVE  \E f : IsFold(f, lines, Len(lines)) /\ from_log(lines) = f[Len(lines)]
<1>1. \E f : IsFold(f, lines, Len(lines))
  BY FoldExists
<1>2. PICK f : f = CHOOSE g : IsFold(g, lines, Len(lines))
  OBVIOUS
<1>3. IsFold(f, lines, Len(lines))
  BY <1>1, <1>2, Zenon
<1>4. from_log(lines) = f[Len(lines)]
  BY <1>2, Zenon DEF from_log, IsFold
<1> QED BY <1>3, <1>4

\* Two logs that agree on their first k lines mean the same after them.
LEMMA FoldPrefix ==
    ASSUME NEW k \in Nat, NEW m \in Nat, k <= m,
           NEW lines, NEW longer, \A i \in 1..k : longer[i] = lines[i],
           NEW f, NEW g, IsFold(f, lines, k), IsFold(g, longer, m)
    PROVE  f[k] = g[k]
<1> DEFINE S == {n \in Nat : n <= k => f[n] = g[n]}
<1>1. 0 \in S
  BY DEF IsFold
<1>2. ASSUME NEW n \in Nat, n \in S
      PROVE  n + 1 \in S
  <2> SUFFICES ASSUME n + 1 <= k PROVE f[n + 1] = g[n + 1]
    OBVIOUS
  <2>1. f[n] = g[n] /\ longer[n + 1] = lines[n + 1]
    BY <1>2
  <2>2. n + 1 \in 0..k /\ n + 1 \in 0..m /\ n + 1 /= 0 /\ (n + 1) - 1 = n
    OBVIOUS
  <2>3. f[n + 1] = apply_event(f[n], lines[n + 1])
    BY <2>2 DEF IsFold
  <2>4. g[n + 1] = apply_event(g[n], longer[n + 1])
    BY <2>2 DEF IsFold
  <2> QED BY <2>1, <2>3, <2>4
<1> HIDE DEF S
<1>3. k \in S
  BY <1>1, <1>2, Induction
<1> QED BY <1>3 DEF S

\* from_log of an empty log.
LEMMA FromLogEmpty == from_log(<<>>) = Creating
<1>1. Len(<<>>) = 0
  OBVIOUS
<1> QED BY <1>1, FromLogFolds DEF IsFold

\* A reader that has folded the log so far need only apply the next line: the
\* live fold of the control connection and the fold of the file agree.
LEMMA FromLogAppend ==
    ASSUME NEW T, NEW lines \in Seq(T), NEW e \in T
    PROVE  from_log(Append(lines, e)) = apply_event(from_log(lines), e)
<1> DEFINE k == Len(lines)
           longer == Append(lines, e)
<1>1. /\ k \in Nat /\ Len(longer) = k + 1 /\ longer[k + 1] = e
      /\ \A i \in 1..k : longer[i] = lines[i]
  OBVIOUS
<1>2. PICK f : IsFold(f, lines, k) /\ from_log(lines) = f[k]
  BY <1>1, FromLogFolds
<1> HIDE DEF k, longer
<1>3. PICK g : IsFold(g, longer, k + 1) /\ from_log(longer) = g[k + 1]
  <2>1. Len(longer) \in Nat
    BY <1>1
  <2>2. PICK g : IsFold(g, longer, Len(longer)) /\ from_log(longer) = g[Len(longer)]
    BY <2>1, FromLogFolds
  <2> QED BY <1>1, <2>2
<1>4. f[k] = g[k]
  BY <1>1, <1>2, <1>3, FoldPrefix
<1>5. g[k + 1] = apply_event(g[k], longer[k + 1])
  <2>1. k + 1 \in 0..(k + 1) /\ k + 1 /= 0 /\ (k + 1) - 1 = k
    BY <1>1
  <2> QED BY <1>3, <2>1 DEF IsFold
<1> QED BY <1>1, <1>2, <1>3, <1>4, <1>5 DEF k, longer

-----------------------------------------------------------------------------
(* apply_event.                                                             *)

\* Nothing happens to a session that has ended.
LEMMA ApplyTerminal ==
    ASSUME NEW r, NEW e, is_terminal(r.state)
    PROVE  apply_event(r, e) = r
BY DEF apply_event

-----------------------------------------------------------------------------
(* The invariant, in parts.                                                 *)

\* A client's thread, its writer and its place in the list.
ClientInStep(c) ==
    /\ pc[c] \in {"none", "hello"} => writer[c] = "none"
    /\ pc[c] \in {"none", "hello", "replay"} =>
           chan[c] = <<>> /\ got[c] = <<>> /\ queued[c] = 0
    /\ pc[c] \in {"replay", "size", "register", "serve"} /\ sock[c] = "open" =>
           writer[c] = "up"
    /\ c \in clients => pc[c] = "serve"

\* What the log says.
L == from_log(log)
Sessions == [state : {"running", "stopping", "exited"}, code : {NoLabel},
             clients : Nat, label : {NoLabel}, denied : [Names -> Nat],
             degraded : BOOLEAN]

\* The places of a row's refusals among the lines a thread is about to log,
\* and how many they stand for.
Denials(q, n) == {i \in DOMAIN q : q[i].kind = "denied" /\ q[i].arg.name = n}
Owed(q, n) == IF Denials(q, n) = {} THEN 0
              ELSE q[CHOOSE i \in Denials(q, n) : TRUE].arg.count
Once(q) == \A n \in Names : \A i, j \in Denials(q, n) : i = j
Folded(n) == IF tally[n] > 0 THEN tally[n] ELSE 0

Quit == {"close", "unlink", "drain", "gone"}
Plain == {"degraded", "resized", "attached", "detached", "stop_requested"}
LastLine == << Event("exited", NoLabel) >>

\* Who may be about to log what.
LinesOf(t, q) ==
    \/ t = "pump" /\ pump = "close" /\ q = LastLine
    \/ \A i \in DOMAIN q :
          \/ q[i].kind \in Plain
          \/ /\ q[i].kind = "denied" /\ q[i].arg \in [name : Names, count : Nat]
             /\ \/ t = "pump"
                \/ t = "filter" /\ q[i].arg.name = Syscall

TodoKinds ==
    /\ \A t \in Threads : LinesOf(t, todo[t])
    /\ Once(todo["filter"]) /\ Once(todo["pump"])
    /\ pump \notin {"read", "exit", "close"} => todo["pump"] = <<>>

\* The log means a session that has started, and the exit is its last word.
Meaning ==
    /\ L \in Sessions
    /\ ExitLogged <=> L.state = "exited"
    /\ L.state = "exited" => pump \in Quit
    /\ pump \in Quit /\ L.state /= "exited" =>
          pump = "close" /\ todo["pump"] = LastLine

\* Nothing is lost between the tally, the threads and the log.
Balance ==
    L.state /= "exited" =>
        \A n \in Names :
            recorded[n] = L.denied[n] + Owed(todo["filter"], n)
                            + Owed(todo["pump"], n) + Folded(n)

\* What finish flushed stays flushed.
Flushed ==
    /\ pump \in {"exit"} \cup Quit => tally[Terminal] <= 0
    /\ settled => /\ pump \in {"flush", "exit"} \cup Quit
                  /\ filter = "ended" /\ todo["filter"] = <<>>
    /\ settled /\ pump /= "flush" => tally[Syscall] <= 0

\* The reading of the log at the exit, which no later line changes.
Settled ==
    L.state = "exited" =>
        /\ recorded[Terminal] = L.denied[Terminal]
        /\ settled => recorded[Syscall] = L.denied[Syscall]

DenialInv == TypeOK /\ TodoKinds /\ Meaning /\ Balance /\ Flushed /\ Settled

-----------------------------------------------------------------------------
(* Helpers.                                                                 *)

Args == Terminals \cup {NoLabel} \cup [name : Names, count : Nat]

\* The lines of a log are the events of the supervisor.
LEMMA LineIs ==
    ASSUME NEW k \in Kinds, NEW a \in Args
    PROVE  /\ Event(k, a) \in Lines
           /\ Event(k, a).kind = k /\ Event(k, a).arg = a
BY DEF Event, Lines, Args

\* The values of a function on a finite set are finitely many.
LEMMA FiniteImage ==
    ASSUME NEW S, IsFiniteSet(S), NEW f, f = [x \in S |-> f[x]]
    PROVE  IsFiniteSet({f[x] : x \in S})
<1> DEFINE T == {f[x] : x \in S}
<1>1. f \in Surjection(S, T)
  BY DEF Surjection
<1> QED BY <1>1, FS_Surjection

\* SetToSeq lists each element of a finite set once.
LEMMA Listed ==
    ASSUME NEW S, IsFiniteSet(S)
    PROVE  /\ SetToSeq(S) \in Seq(S)
           /\ \A i, j \in DOMAIN SetToSeq(S) :
                 SetToSeq(S)[i] = SetToSeq(S)[j] => i = j
           /\ \A x \in S : \E i \in DOMAIN SetToSeq(S) : SetToSeq(S)[i] = x
<1> DEFINE n == Cardinality(S)
           f == SetToSeq(S)
<1>1. n \in Nat /\ ExistsBijection(1..n, S)
  BY FS_CardinalityType
<1>2. \E g \in [1..n -> S] : IsInjective(g)
  <2>1. PICK g : g \in Bijection(1..n, S)
    BY <1>1 DEF ExistsBijection
  <2>2. g \in [1..n -> S] /\ \A i, j \in 1..n : g[i] = g[j] => i = j
    BY <2>1 DEF Bijection, Injection, IsInjective
  <2>3. IsInjective(g)
    BY <2>2 DEF IsInjective
  <2> QED BY <2>2, <2>3
<1>3. f \in [1..n -> S] /\ IsInjective(f)
  BY <1>2 DEF SetToSeq
<1>4. f \in Injection(1..n, S)
  BY <1>3 DEF Injection, IsInjective
<1>5. Cardinality(1..n) = n
  BY <1>1, FS_Interval
<1>6. f \in Surjection(1..n, S)
  <2> HIDE DEF f, n
  <2>1. Cardinality(1..n) = Cardinality(S) <=> f \in Surjection(1..n, S)
    BY <1>4, FS_Injection
  <2> QED BY <2>1, <1>5 DEF n
<1>7. f \in Seq(S)
  BY <1>1, <1>3
<1> HIDE DEF f
<1>8. \A x \in S : \E i \in DOMAIN f : f[i] = x
  BY <1>6 DEF Surjection
<1>9. \A i, j \in DOMAIN f : f[i] = f[j] => i = j
  BY <1>3 DEF IsInjective
<1> QED BY <1>7, <1>8, <1>9 DEF f

\* The detaches the broadcast logs.
LEMMA Detaches ==
    ASSUME NEW S \in SUBSET Terminals,
           NEW q, q = SetToSeq({Event("detached", c) : c \in S})
    PROVE  q \in Seq(Lines) /\ \A i \in DOMAIN q : q[i].kind = "detached"
<1> DEFINE f == [c \in S |-> Event("detached", c)]
           E == {Event("detached", c) : c \in S}
<1>1. IsFiniteSet(S)
  BY SupervisorAssumption, FS_Subset DEF SupervisorAssumption
<1>2. E = {f[c] : c \in S} /\ f = [c \in S |-> f[c]]
  OBVIOUS
<1>3. IsFiniteSet(E)
  <2> HIDE DEF f, E
  <2> QED BY <1>1, <1>2, FiniteImage
<1>4. \A e \in E : e \in Lines /\ e.kind = "detached"
  <2>1. ASSUME NEW c \in S
        PROVE  /\ Event("detached", c) \in Lines
               /\ Event("detached", c).kind = "detached"
    <3>1. c \in Args
      BY DEF Args
    <3> QED BY <3>1, LineIs DEF Kinds
  <2> QED BY <2>1
<1> HIDE DEF E
<1>5. q \in Seq(E)
  BY <1>3, Listed DEF E
<1>6. \A i \in DOMAIN q : q[i] \in E
  BY <1>5
<1>7. q \in Seq(Lines)
  BY <1>4, <1>5
<1> QED BY <1>4, <1>6, <1>7

\* The refusals finish flushes.
LEMMA Refusals ==
    ASSUME NEW S \in SUBSET Names, NEW f \in [Names -> Int],
           \A n \in S : f[n] \in Nat,
           NEW q, q = SetToSeq({Event("denied", [name |-> n, count |-> f[n]])
                                   : n \in S})
    PROVE  /\ q \in Seq(Lines)
           /\ \A i \in DOMAIN q : \E n \in S :
                 q[i] = Event("denied", [name |-> n, count |-> f[n]])
           /\ \A n \in S : \E i \in DOMAIN q :
                 q[i] = Event("denied", [name |-> n, count |-> f[n]])
           /\ \A i, j \in DOMAIN q : q[i] = q[j] => i = j
<1> DEFINE D(n) == Event("denied", [name |-> n, count |-> f[n]])
           g == [n \in S |-> D(n)]
           E == {D(n) : n \in S}
<1>1. IsFiniteSet(S)
  <2>1. Names = {Syscall} \cup {Terminal}
    BY SupervisorAssumption DEF SupervisorAssumption
  <2>2. IsFiniteSet(Names)
    BY <2>1, FS_Singleton, FS_Union
  <2> QED BY <2>2, FS_Subset
<1>2. E = {g[n] : n \in S} /\ g = [n \in S |-> g[n]]
  OBVIOUS
<1>3. IsFiniteSet(E)
  <2> HIDE DEF g, E
  <2> QED BY <1>1, <1>2, FiniteImage
<1>4. \A e \in E : e \in Lines
  <2>1. ASSUME NEW n \in S
        PROVE  D(n) \in Lines
    <3>1. [name |-> n, count |-> f[n]] \in [name : Names, count : Nat]
      OBVIOUS
    <3>2. [name |-> n, count |-> f[n]] \in Args
      BY <3>1 DEF Args
    <3> QED BY <3>2, LineIs DEF Kinds
  <2> QED BY <2>1
<1>5. \A e \in E : \E n \in S : e = D(n)
  OBVIOUS
<1>6. \A n \in S : D(n) \in E
  OBVIOUS
<1>7. q = SetToSeq(E)
  OBVIOUS
<1> HIDE DEF E, D
<1>8. /\ q \in Seq(E)
      /\ \A i, j \in DOMAIN q : q[i] = q[j] => i = j
      /\ \A x \in E : \E i \in DOMAIN q : q[i] = x
  BY <1>3, <1>7, Listed
<1>9. /\ q \in Seq(Lines)
      /\ \A i \in DOMAIN q : \E n \in S : q[i] = D(n)
      /\ \A n \in S : \E i \in DOMAIN q : q[i] = D(n)
  <2>1. \A i \in DOMAIN q : q[i] \in E
    BY <1>8
  <2>2. q \in Seq(Lines)
    BY <1>4, <1>8
  <2> QED BY <1>5, <1>6, <1>8, <2>1, <2>2
<1> QED BY <1>8, <1>9 DEF D

-----------------------------------------------------------------------------
(* Types.                                                                   *)

\* A group of variables that does not change keeps its types.
LEMMA Kept ==
    ASSUME TypeOK
    PROVE  /\ UNCHANGED sessVars => SessTypes'
           /\ UNCHANGED logVars => LogTypes'
           /\ UNCHANGED connVars => ConnTypes'
           /\ UNCHANGED screenVars => ScreenTypes'
           /\ UNCHANGED tallyVars => TallyTypes'
           /\ UNCHANGED <<pump, socket, handles, produced>> => PumpTypes'
           /\ UNCHANGED <<sizes, asked, pc, joined>> => ReaderTypes'
<1>1. UNCHANGED sessVars => SessTypes'
  BY DEF TypeOK, SessTypes, sessVars
<1>2. UNCHANGED logVars => LogTypes'
  BY DEF TypeOK, LogTypes, logVars
<1>3. UNCHANGED connVars => ConnTypes'
  BY DEF TypeOK, ConnTypes, connVars
<1>4. UNCHANGED screenVars => ScreenTypes'
  BY DEF TypeOK, ScreenTypes, screenVars
<1>5. UNCHANGED tallyVars => TallyTypes'
  BY DEF TypeOK, TallyTypes, tallyVars
<1>6. UNCHANGED <<pump, socket, handles, produced>> => PumpTypes'
  BY DEF TypeOK, PumpTypes
<1>7. UNCHANGED <<sizes, asked, pc, joined>> => ReaderTypes'
  BY DEF TypeOK, ReaderTypes
<1> QED BY <1>1, <1>2, <1>3, <1>4, <1>5, <1>6, <1>7

\* The clients' channels keep the type of their frames.
LEMMA Enqueued ==
    ASSUME ConnTypes, NEW S, NEW f \in Wire, Enqueue(S, f)
    PROVE  /\ chan' \in [Clients -> Seq(Wire)] /\ queued' \in [Clients -> Int]
<1>1. ASSUME NEW c \in Clients
      PROVE  (IF c \in S THEN Append(chan[c], f) ELSE chan[c]) \in Seq(Wire)
  BY DEF ConnTypes
<1> QED BY <1>1 DEF Enqueue, ConnTypes, Size

\* One or two lines, and none, are a batch.
LEMMA Singles ==
    /\ <<>> \in Seq(Lines)
    /\ \A e \in Lines : <<e>> \in Seq(Lines) /\ <<e, e>> \in Seq(Lines)
OBVIOUS

\* The batches of the supervisor's threads.
LEMMA Batch ==
    /\ \A k \in Kinds : << Event(k, NoLabel) >> \in Seq(Lines)
    /\ \A k \in Kinds, c \in Terminals : << Event(k, c) >> \in Seq(Lines)
    /\ \A nudge \in BOOLEAN : \A q \in Resizes(nudge) : q \in Seq(Lines)
<1>1. \A k \in Kinds, a \in Terminals \cup {NoLabel} : Event(k, a) \in Lines
  BY LineIs DEF Args
<1>2. ASSUME NEW nudge \in BOOLEAN, NEW q \in Resizes(nudge)
      PROVE  q \in Seq(Lines)
  <2>1. PICK r \in Lines : r = Event("resized", NoLabel)
    BY <1>1 DEF Kinds
  <2>2. q \in {<<>>, <<r>>, <<r, r>>}
    BY <2>1 DEF Resizes
  <2> QED BY <2>1, <2>2, Singles
<1> QED BY <1>1, <1>2, Singles

\* A thread that goes on to log a batch.
LEMMA Logged ==
    ASSUME LogTypes, NEW t \in Threads, NEW q \in Seq(Lines),
           todo' = todo \/ LogNext(t, q), UNCHANGED <<log, fan>>
    PROVE  LogTypes'
BY DEF LogTypes, LogNext

\* Every step keeps the types.
LEMMA TypesStep ==
    ASSUME TypeOK, [Next]_vars
    PROVE  TypeOK'
<1>a. /\ TypeOK /\ SessTypes /\ LogTypes /\ ConnTypes /\ ScreenTypes
      /\ TallyTypes /\ PumpTypes /\ ReaderTypes
  BY DEF TypeOK
<1>b. SupervisorAssumption
  BY SupervisorAssumption
<1>1. ASSUME NEW t \in Threads, append(t)
      PROVE  TypeOK'
  <2>1. LogTypes'
    BY <1>1, <1>a
       DEF append, LogTypes, logVars
  <2>2. SessTypes' /\ ConnTypes' /\ ScreenTypes' /\ TallyTypes' /\ PumpTypes' /\ ReaderTypes'
    BY <1>1, <1>a, Kept
       DEF append, connVars, countVars, pumpVars, screenVars, sessVars,
           tallyVars
  <2> QED BY <2>1, <2>2 DEF TypeOK
<1>2. ASSUME NEW t \in Threads, fan_out(t)
      PROVE  TypeOK'
  <2>1. LogTypes'
    BY <1>2, <1>a
       DEF fan_out, LogTypes, logVars
  <2>2. ConnTypes'
    <3>1. <<"event", fan[t]>> \in Wire
      BY <1>a DEF Wire, Frames, CloseReasons, LogTypes
    <3>2. chan' \in [Clients -> Seq(Wire)] /\ queued' \in [Clients -> Int]
      BY <1>2, <1>a, <3>1, Enqueued DEF fan_out
    <3> QED BY <1>2, <1>a, <3>2 DEF fan_out, ConnTypes
  <2>3. SessTypes' /\ ScreenTypes' /\ TallyTypes' /\ PumpTypes' /\ ReaderTypes'
    BY <1>2, <1>a, Kept
       DEF fan_out, countVars, pumpVars, screenVars, sessVars, tallyVars
  <2> QED BY <2>1, <2>2, <2>3 DEF TypeOK
<1>3. ASSUME NEW d \in Clients, accept(d)
      PROVE  TypeOK'
  <2>1. ReaderTypes'
    BY <1>3, <1>a, <1>b
       DEF accept, Go, ReaderTypes, countVars
  <2>2. SessTypes' /\ LogTypes' /\ ConnTypes' /\ ScreenTypes' /\ TallyTypes' /\ PumpTypes'
    BY <1>3, <1>a, Kept
       DEF accept, connVars, logVars, pumpVars, screenVars, sessVars,
           tallyVars
  <2> QED BY <2>1, <2>2 DEF TypeOK
<1>4. ASSUME NEW d \in Clients, client_reject(d)
      PROVE  TypeOK'
  <2>1. ConnTypes'
    <3>1. <<"protocol", 0>> \in Wire
      BY DEF Wire, Frames, CloseReasons
    <3>2. Append(got[d], <<"protocol", 0>>) \in Seq(Wire)
      BY <1>a, <3>1 DEF ConnTypes
    <3> QED BY <1>4, <1>a, <3>2 DEF client_reject, ConnTypes
  <2>2. ReaderTypes'
    BY <1>4, <1>a, <1>b
       DEF client_reject, Go, ReaderTypes, countVars
  <2>3. SessTypes' /\ LogTypes' /\ ScreenTypes' /\ TallyTypes' /\ PumpTypes'
    BY <1>4, <1>a, Kept
       DEF client_reject, logVars, pumpVars, screenVars, sessVars, tallyVars
  <2> QED BY <2>1, <2>2, <2>3 DEF TypeOK
<1>5. ASSUME NEW d \in Clients, client_hello(d)
      PROVE  TypeOK'
  <2>1. ConnTypes'
    BY <1>5, <1>a
       DEF client_hello, ConnTypes, connVars
  <2>2. ReaderTypes'
    BY <1>5, <1>a, <1>b
       DEF client_hello, Go, ReaderTypes, countVars
  <2>3. SessTypes' /\ LogTypes' /\ ScreenTypes' /\ TallyTypes' /\ PumpTypes'
    BY <1>5, <1>a, Kept
       DEF client_hello, logVars, pumpVars, screenVars, sessVars, tallyVars
  <2> QED BY <2>1, <2>2, <2>3 DEF TypeOK
<1>6. ASSUME NEW d \in Clients, client_replay(d)
      PROVE  TypeOK'
  <2>1. ConnTypes'
    <3> DEFINE replay == IF alt THEN <<>> ELSE ring
               frames == [i \in DOMAIN replay |-> <<"out", replay[i]>>]
    <3>1. replay \in Seq(Nat)
      <4>1. <<>> \in Seq(Nat) /\ ring \in Seq(Nat)
        BY <1>a, <1>b DEF ScreenTypes, SupervisorAssumption
      <4> QED BY <4>1
    <3>2. frames \in Seq(Wire) /\ Len(frames) = Len(replay)
      <4> HIDE DEF replay
      <4>1. \A i \in DOMAIN replay : <<"out", replay[i]>> \in Wire
        BY <3>1 DEF Wire, Frames
      <4> QED BY <3>1, <4>1
    <3>3. \/ /\ chan' = [chan EXCEPT ![d] = @ \o frames]
             /\ queued' = [queued EXCEPT ![d] = @ + Len(replay)]
             /\ UNCHANGED <<clients, got, sock, writer>>
          \/ /\ writer' = [writer EXCEPT ![d] = "gone"]
             /\ \E written \in 0..(Len(frames) - 2) :
                   got' = [got EXCEPT ![d] = @ \o SubSeq(frames, 1, written)]
             /\ UNCHANGED <<clients, chan, queued, sock>>
      BY <1>6 DEF client_replay
    <3>4. \A w \in 0..(Len(frames) - 2) :
             got[d] \o SubSeq(frames, 1, w) \in Seq(Wire)
      <4> HIDE DEF frames
      <4>1. ASSUME NEW w \in 0..(Len(frames) - 2)
            PROVE  got[d] \o SubSeq(frames, 1, w) \in Seq(Wire)
        <5>1. SubSeq(frames, 1, w) \in Seq(Wire)
          BY <3>2
        <5> HIDE DEF frames
        <5> QED BY <5>1, <1>a DEF ConnTypes
      <4> QED BY <4>1
    <3>5. chan[d] \o frames \in Seq(Wire) /\ Len(replay) \in Nat
      <4> HIDE DEF frames, replay
      <4> QED BY <1>a, <3>1, <3>2 DEF ConnTypes
    <3> HIDE DEF frames, replay
    <3>6. CASE /\ chan' = [chan EXCEPT ![d] = @ \o frames]
               /\ queued' = [queued EXCEPT ![d] = @ + Len(replay)]
               /\ UNCHANGED <<clients, got, sock, writer>>
      BY <1>a, <3>5, <3>6 DEF ConnTypes
    <3>7. CASE /\ writer' = [writer EXCEPT ![d] = "gone"]
               /\ \E written \in 0..(Len(frames) - 2) :
                     got' = [got EXCEPT ![d] = @ \o SubSeq(frames, 1, written)]
               /\ UNCHANGED <<clients, chan, queued, sock>>
      BY <1>a, <3>4, <3>7 DEF ConnTypes
    <3> QED BY <3>3, <3>6, <3>7
  <2>2. ReaderTypes'
    <3> DEFINE replay == IF alt THEN <<>> ELSE ring
    <3>1. Len(replay) \in Nat
      <4>1. Len(<<>>) \in Nat /\ Len(ring) \in Nat
        BY <1>a DEF ScreenTypes
      <4> QED BY <4>1
    <3>2. /\ joined' = joined \/ joined' = [joined EXCEPT ![d].replay = Len(replay)]
          /\ UNCHANGED <<sizes, asked>>
          /\ pc' = [pc EXCEPT ![d] = "size"] \/ pc' = [pc EXCEPT ![d] = "gone"]
      BY <1>6 DEF client_replay, Go, countVars
    <3> HIDE DEF replay
    <3> QED BY <1>a, <3>1, <3>2 DEF ReaderTypes
  <2>3. SessTypes' /\ LogTypes' /\ ScreenTypes' /\ TallyTypes' /\ PumpTypes'
    BY <1>6, <1>a, Kept
       DEF client_replay, logVars, pumpVars, screenVars, sessVars, tallyVars
  <2> QED BY <2>1, <2>2, <2>3 DEF TypeOK
<1>7. ASSUME NEW d \in Clients, client_size(d)
      PROVE  TypeOK'
  <2>1. LogTypes'
    <3>1. PICK q \in Seq(Lines) : LogNext(d, q)
      BY <1>7, <1>a, <1>b, Batch, Singles
         DEF client_size, Kinds, ScreenTypes, SupervisorAssumption
    <3> QED BY <1>7, <1>a, <3>1, Logged DEF client_size, Threads
  <2>2. ReaderTypes'
    BY <1>7, <1>a, <1>b
       DEF client_size, Go, ReaderTypes, countVars
  <2>3. SessTypes' /\ ConnTypes' /\ ScreenTypes' /\ TallyTypes' /\ PumpTypes'
    BY <1>7, <1>a, Kept
       DEF client_size, connVars, pumpVars, screenVars, sessVars, tallyVars
  <2> QED BY <2>1, <2>2, <2>3 DEF TypeOK
<1>8. ASSUME NEW d \in Clients, client_register(d)
      PROVE  TypeOK'
  <2>1. LogTypes'
    <3>1. PICK q \in Seq(Lines) : LogNext(d, q)
      BY <1>8, <1>a, <1>b, Batch, Singles
         DEF client_register, Kinds, ScreenTypes, SupervisorAssumption
    <3> QED BY <1>8, <1>a, <3>1, Logged DEF client_register, Threads
  <2>2. ConnTypes'
    BY <1>8, <1>a
       DEF client_register, ConnTypes, connVars
  <2>3. ReaderTypes'
    <3>1. Fanned \in Nat /\ Len(log) \in Nat
      BY <1>a, <1>b DEF Fanned, PumpTypes, ScreenTypes, LogTypes, SupervisorAssumption
    <3> QED BY <1>8, <1>a, <3>1
            DEF client_register, Go, ReaderTypes, countVars
  <2>4. SessTypes' /\ ScreenTypes' /\ TallyTypes' /\ PumpTypes'
    BY <1>8, <1>a, Kept
       DEF client_register, pumpVars, screenVars, sessVars, tallyVars
  <2> QED BY <2>1, <2>2, <2>3, <2>4 DEF TypeOK
<1>9. ASSUME NEW d \in Clients, client_resize(d)
      PROVE  TypeOK'
  <2>1. LogTypes'
    <3>1. PICK q \in Seq(Lines) : LogNext(d, q)
      BY <1>9, <1>a, <1>b, Batch, Singles
         DEF client_resize, Kinds, ScreenTypes, SupervisorAssumption
    <3> QED BY <1>9, <1>a, <3>1, Logged DEF client_resize, Threads
  <2>2. ReaderTypes'
    BY <1>9, <1>a, <1>b
       DEF client_resize, ReaderTypes, countVars
  <2>3. SessTypes' /\ ConnTypes' /\ ScreenTypes' /\ TallyTypes' /\ PumpTypes'
    BY <1>9, <1>a, Kept
       DEF client_resize, connVars, pumpVars, screenVars, sessVars, tallyVars
  <2> QED BY <2>1, <2>2, <2>3 DEF TypeOK
<1>10. ASSUME NEW d \in Clients, client_stop(d)
      PROVE  TypeOK'
  <2>1. SessTypes'
    BY <1>10, <1>a
       DEF client_stop, request_stop, SessTypes, sessVars
  <2>2. LogTypes' /\ ConnTypes' /\ ScreenTypes' /\ TallyTypes' /\ PumpTypes' /\ ReaderTypes'
    BY <1>10, <1>a, Kept
       DEF client_stop, request_stop, connVars, countVars, logVars, pumpVars,
           screenVars, tallyVars
  <2> QED BY <2>1, <2>2 DEF TypeOK
<1>11. ASSUME NEW d \in Clients, client_status(d)
      PROVE  TypeOK'
  <2>1. ConnTypes'
    <3>1. <<"status", 0>> \in Wire
      BY DEF Wire, Frames
    <3>2. Append(chan[d], <<"status", 0>>) \in Seq(Wire) /\ queued[d] + 1 \in Int
      BY <1>a, <3>1 DEF ConnTypes
    <3>3. chan' \in [Clients -> Seq(Wire)]
      BY <1>11, <1>a, <3>2 DEF client_status, ConnTypes
    <3> QED BY <1>11, <1>a, <3>2, <3>3 DEF client_status, ConnTypes
  <2>2. ReaderTypes'
    BY <1>11, <1>a, <1>b
       DEF client_status, ReaderTypes, countVars
  <2>3. SessTypes' /\ LogTypes' /\ ScreenTypes' /\ TallyTypes' /\ PumpTypes'
    BY <1>11, <1>a, Kept
       DEF client_status, logVars, pumpVars, screenVars, sessVars, tallyVars
  <2> QED BY <2>1, <2>2, <2>3 DEF TypeOK
<1>12. ASSUME NEW d \in Clients, client_leave(d)
      PROVE  TypeOK'
  <2>1. LogTypes'
    <3>1. PICK q \in Seq(Lines) : LogNext(d, q)
      BY <1>12, <1>a, <1>b, Batch, Singles
         DEF client_leave, Kinds, ScreenTypes, SupervisorAssumption
    <3> QED BY <1>12, <1>a, <3>1, Logged DEF client_leave, Threads
  <2>2. ConnTypes'
    <3>1. <<"end", 0>> \in Wire
      BY DEF Wire, Frames
    <3>2. Append(chan[d], <<"end", 0>>) \in Seq(Wire)
      BY <1>a, <3>1 DEF ConnTypes
    <3>3. chan' \in [Clients -> Seq(Wire)]
      BY <1>12, <1>a, <3>2 DEF client_leave, ConnTypes
    <3> QED BY <1>12, <1>a, <3>3 DEF client_leave, ConnTypes
  <2>3. ReaderTypes'
    BY <1>12, <1>a, <1>b
       DEF client_leave, Go, ReaderTypes, countVars
  <2>4. SessTypes' /\ ScreenTypes' /\ TallyTypes' /\ PumpTypes'
    BY <1>12, <1>a, Kept
       DEF client_leave, pumpVars, screenVars, sessVars, tallyVars
  <2> QED BY <2>1, <2>2, <2>3, <2>4 DEF TypeOK
<1>13. ASSUME NEW d \in Clients, peer_closes(d)
      PROVE  TypeOK'
  <2>1. ConnTypes'
    BY <1>13, <1>a
       DEF peer_closes, ConnTypes, connVars
  <2>2. SessTypes' /\ LogTypes' /\ ScreenTypes' /\ TallyTypes' /\ PumpTypes' /\ ReaderTypes'
    BY <1>13, <1>a, Kept
       DEF peer_closes, countVars, logVars, pumpVars, screenVars, sessVars,
           tallyVars
  <2> QED BY <2>1, <2>2 DEF TypeOK
<1>14. ASSUME NEW d \in Clients, writer_loop(d)
      PROVE  TypeOK'
  <2>1. ConnTypes'
    <3>1. /\ chan[d] \in Seq(Wire) /\ chan[d] /= <<>> /\ got[d] \in Seq(Wire)
          /\ queued[d] \in Int
      BY <1>14, <1>a DEF writer_loop, ConnTypes
    <3>2. Head(chan[d]) \in Wire /\ Tail(chan[d]) \in Seq(Wire)
      BY <3>1
    <3>3. /\ Append(got[d], Head(chan[d])) \in Seq(Wire)
          /\ queued[d] - Size(Head(chan[d])) \in Int
      BY <3>1, <3>2 DEF Size
    <3>4. chan' \in [Clients -> Seq(Wire)] /\ queued' \in [Clients -> Int]
      BY <1>14, <1>a, <3>2, <3>3 DEF writer_loop, ConnTypes
    <3>5. got' \in [Clients -> Seq(Wire)]
      BY <1>14, <1>a, <3>3 DEF writer_loop, ConnTypes
    <3>6. /\ sock' \in [Clients -> {"open", "shut"}]
          /\ writer' \in [Clients -> {"none", "up", "gone"}]
      BY <1>14, <1>a DEF writer_loop, ConnTypes
    <3> QED BY <1>14, <1>a, <3>4, <3>5, <3>6 DEF writer_loop, ConnTypes
  <2>2. SessTypes' /\ LogTypes' /\ ScreenTypes' /\ TallyTypes' /\ PumpTypes' /\ ReaderTypes'
    BY <1>14, <1>a, Kept
       DEF writer_loop, countVars, logVars, pumpVars, screenVars, sessVars,
           tallyVars
  <2> QED BY <2>1, <2>2 DEF TypeOK
<1>15. CASE serve_read
  <2>1. LogTypes'
    <3>1. PICK q \in Seq(Lines) : todo' = todo \/ LogNext("pump", q)
      <4>1. Terminal \in Names /\ tally[Terminal] \in Int
        BY <1>a, <1>b DEF SupervisorAssumption, TallyTypes
      <4>2. ASSUME NEW k \in Nat
            PROVE  << Event("denied", [name |-> Terminal, count |-> k]) >> \in Seq(Lines)
        <5>1. [name |-> Terminal, count |-> k] \in [name : Names, count : Nat]
          BY <4>1
        <5>2. [name |-> Terminal, count |-> k] \in Args
          BY <5>1 DEF Args
        <5>3. Event("denied", [name |-> Terminal, count |-> k]) \in Lines
          BY <5>2, LineIs DEF Kinds
        <5> QED BY <5>3, Singles
      <4>3. (IF tally[Terminal] < 0 THEN 1 ELSE tally[Terminal] + 1) \in Nat
        BY <4>1
      <4>4. todo' = todo \/ LogNext("pump", << Event("denied", [name |-> Terminal,
               count |-> IF tally[Terminal] < 0 THEN 1 ELSE tally[Terminal] + 1]) >>)
        BY <1>15 DEF serve_read, record_denial
      <4> QED BY <4>2, <4>3, <4>4, Singles
    <3> QED BY <1>15, <1>a, <3>1, Logged DEF serve_read, Threads
  <2>2. ScreenTypes'
    BY <1>15, <1>a, <1>b
       DEF serve_read, record_denial, ScreenTypes, screenVars
  <2>3. TallyTypes'
    BY <1>15, <1>a, <1>b
       DEF serve_read, record_denial, TallyTypes, tallyVars
  <2>4. PumpTypes'
    BY <1>15, <1>a
       DEF serve_read, record_denial, PumpTypes, ScreenTypes, pumpVars
  <2>5. SessTypes' /\ ConnTypes' /\ ReaderTypes'
    BY <1>15, <1>a, Kept
       DEF serve_read, connVars, countVars, sessVars
  <2> QED BY <2>1, <2>2, <2>3, <2>4, <2>5 DEF TypeOK
<1>16. CASE broadcast_screen
  <2>1. ScreenTypes'
    <3> DEFINE longer == Append(ring, produced)
    <3>1. produced \in 1..MaxOutput
      BY <1>16, <1>a DEF broadcast_screen, PumpTypes, ScreenTypes
    <3>2. longer \in Seq(1..MaxOutput) /\ Len(longer) <= RingCap + 1
      BY <1>a, <1>b, <3>1 DEF ScreenTypes, SupervisorAssumption
    <3>3. ring' = IF Len(longer) > RingCap THEN Tail(longer) ELSE longer
      BY <1>16 DEF broadcast_screen
    <3> HIDE DEF longer
    <3>4. ring' \in Seq(1..MaxOutput) /\ Len(ring') <= RingCap
      <4>1. CASE Len(longer) > RingCap
        <5>1. longer /= <<>>
          BY <4>1, <1>b DEF SupervisorAssumption
        <5>2. Tail(longer) \in Seq(1..MaxOutput) /\ Len(Tail(longer)) = Len(longer) - 1
          BY <3>2, <5>1
        <5> QED BY <4>1, <5>2, <1>b, <3>2, <3>3 DEF SupervisorAssumption
      <4>2. CASE ~(Len(longer) > RingCap)
        BY <4>2, <1>b, <3>2, <3>3 DEF SupervisorAssumption
      <4> QED BY <4>1, <4>2
    <3> QED BY <1>16, <1>a, <3>4 DEF broadcast_screen, ScreenTypes
  <2>2. PumpTypes'
    BY <1>16, <1>a
       DEF broadcast_screen, PumpTypes, ScreenTypes, pumpVars
  <2>3. SessTypes' /\ LogTypes' /\ ConnTypes' /\ TallyTypes' /\ ReaderTypes'
    BY <1>16, <1>a, Kept
       DEF broadcast_screen, connVars, countVars, logVars, sessVars, tallyVars
  <2> QED BY <2>1, <2>2, <2>3 DEF TypeOK
<1>17. CASE broadcast_clients
  <2>1. LogTypes'
    <3> DEFINE slow == {c \in clients \cap Terminals : ~Room(c)}
               q == SetToSeq({Event("detached", c) : c \in slow})
    <3>1. q \in Seq(Lines)
      BY Detaches
    <3>2. LogNext("pump", q) /\ UNCHANGED <<log, fan>>
      BY <1>17 DEF broadcast_clients
    <3> HIDE DEF q
    <3> QED BY <1>a, <3>1, <3>2, Logged DEF Threads
  <2>2. ConnTypes'
    <3> DEFINE slow == {c \in clients \cap Terminals : ~Room(c)}
               told == {c \in slow : writer[c] = "up"}
               next(c) == IF c \in (clients \cap Terminals) \ slow
                          THEN Append(chan[c], <<"out", produced>>)
                          ELSE IF c \in told
                          THEN Append(chan[c], <<"too_slow", 0>>) ELSE chan[c]
    <3>1. <<"out", produced>> \in Wire /\ <<"too_slow", 0>> \in Wire
      BY <1>a, <1>b DEF Wire, Frames, CloseReasons, ScreenTypes
    <3>2. ASSUME NEW c \in Clients
          PROVE  next(c) \in Seq(Wire)
      BY <1>a, <3>1 DEF ConnTypes
    <3>3. chan' = [c \in Clients |-> next(c)]
      BY <1>17 DEF broadcast_clients
    <3>4. chan' \in [Clients -> Seq(Wire)]
      <4> HIDE DEF next
      <4> QED BY <3>2, <3>3
    <3>5. queued' \in [Clients -> Int]
      BY <1>17, <1>a DEF broadcast_clients, ConnTypes
    <3> QED BY <1>17, <1>a, <3>4, <3>5 DEF broadcast_clients, ConnTypes
  <2>3. PumpTypes'
    BY <1>17, <1>a
       DEF broadcast_clients, PumpTypes, ScreenTypes, pumpVars
  <2>4. SessTypes' /\ ScreenTypes' /\ TallyTypes' /\ ReaderTypes'
    BY <1>17, <1>a, Kept
       DEF broadcast_clients, countVars, screenVars, sessVars, tallyVars
  <2> QED BY <2>1, <2>2, <2>3, <2>4 DEF TypeOK
<1>18. CASE serve_ends
  <2>1. PumpTypes'
    BY <1>18, <1>a
       DEF serve_ends, PumpTypes, ScreenTypes, pumpVars
  <2>2. SessTypes' /\ LogTypes' /\ ConnTypes' /\ ScreenTypes' /\ TallyTypes' /\ ReaderTypes'
    BY <1>18, <1>a, Kept
       DEF serve_ends, connVars, countVars, logVars, screenVars, sessVars,
           tallyVars
  <2> QED BY <2>1, <2>2 DEF TypeOK
<1>19. CASE begin_teardown
  <2>1. TallyTypes'
    BY <1>19, <1>a, <1>b
       DEF begin_teardown, TallyTypes, tallyVars
  <2>2. PumpTypes'
    BY <1>19, <1>a
       DEF begin_teardown, PumpTypes, ScreenTypes, pumpVars
  <2>3. SessTypes' /\ LogTypes' /\ ConnTypes' /\ ScreenTypes' /\ ReaderTypes'
    BY <1>19, <1>a, Kept
       DEF begin_teardown, connVars, countVars, logVars, screenVars, sessVars
  <2> QED BY <2>1, <2>2, <2>3 DEF TypeOK
<1>20. CASE settle
  <2>1. TallyTypes'
    BY <1>20, <1>a, <1>b
       DEF settle, TallyTypes, tallyVars
  <2>2. PumpTypes'
    BY <1>20, <1>a
       DEF settle, PumpTypes, ScreenTypes, pumpVars
  <2>3. SessTypes' /\ LogTypes' /\ ConnTypes' /\ ScreenTypes' /\ ReaderTypes'
    BY <1>20, <1>a, Kept
       DEF settle, connVars, countVars, logVars, screenVars, sessVars
  <2> QED BY <2>1, <2>2, <2>3 DEF TypeOK
<1>21. CASE finish_flush
  <2>1. LogTypes'
    <3> DEFINE q == SetToSeq({Event("denied",
                        [name |-> n, count |-> tally[n]]) : n \in Pending})
    <3>1. q \in Seq(Lines)
      <4>1. /\ Pending \in SUBSET Names /\ tally \in [Names -> Int]
            /\ \A n \in Pending : tally[n] \in Nat
        BY <1>a DEF Pending, TallyTypes
      <4> QED BY <4>1, Refusals
    <3>2. LogNext("pump", q) /\ UNCHANGED <<log, fan>>
      BY <1>21 DEF finish_flush
    <3> HIDE DEF q
    <3> QED BY <1>a, <3>1, <3>2, Logged DEF Threads
  <2>2. TallyTypes'
    BY <1>21, <1>a, <1>b
       DEF finish_flush, TallyTypes, tallyVars
  <2>3. PumpTypes'
    BY <1>21, <1>a
       DEF finish_flush, PumpTypes, ScreenTypes, pumpVars
  <2>4. SessTypes' /\ ConnTypes' /\ ScreenTypes' /\ ReaderTypes'
    BY <1>21, <1>a, Kept
       DEF finish_flush, connVars, countVars, screenVars, sessVars
  <2> QED BY <2>1, <2>2, <2>3, <2>4 DEF TypeOK
<1>22. CASE finish_exit
  <2>1. SessTypes'
    BY <1>22, <1>a
       DEF finish_exit, SessTypes, sessVars
  <2>2. LogTypes'
    <3>1. PICK q \in Seq(Lines) : LogNext("pump", q)
      BY <1>22, <1>a, <1>b, Batch, Singles
         DEF finish_exit, Kinds, ScreenTypes, SupervisorAssumption
    <3> QED BY <1>22, <1>a, <3>1, Logged DEF finish_exit, Threads
  <2>3. PumpTypes'
    BY <1>22, <1>a
       DEF finish_exit, PumpTypes, ScreenTypes, pumpVars
  <2>4. ConnTypes' /\ ScreenTypes' /\ TallyTypes' /\ ReaderTypes'
    BY <1>22, <1>a, Kept
       DEF finish_exit, connVars, countVars, screenVars, tallyVars
  <2> QED BY <2>1, <2>2, <2>3, <2>4 DEF TypeOK
<1>23. CASE finish_close
  <2>1. ConnTypes'
    <3> DEFINE reason == IF stop_cause = "none" THEN "exited" ELSE stop_cause
    <3>1. <<reason, 0>> \in Wire
      BY <1>a DEF Wire, Frames, CloseReasons, SessTypes
    <3>2. Enqueue({c \in clients : writer[c] = "up"}, <<reason, 0>>)
      BY <1>23 DEF finish_close
    <3>3. chan' \in [Clients -> Seq(Wire)] /\ queued' \in [Clients -> Int]
      <4> HIDE DEF reason
      <4> QED BY <1>a, <3>1, <3>2, Enqueued
    <3> QED BY <1>23, <1>a, <3>3 DEF finish_close, ConnTypes
  <2>2. PumpTypes'
    BY <1>23, <1>a DEF finish_close, PumpTypes, ConnTypes, screenVars
  <2>3. SessTypes' /\ LogTypes' /\ ScreenTypes' /\ TallyTypes' /\ ReaderTypes'
    BY <1>23, <1>a, Kept
       DEF finish_close, countVars, logVars, screenVars, sessVars, tallyVars
  <2> QED BY <2>1, <2>2, <2>3 DEF TypeOK
<1>24. CASE finish_unlink
  <2>1. PumpTypes'
    BY <1>24, <1>a
       DEF finish_unlink, PumpTypes, ScreenTypes, pumpVars
  <2>2. SessTypes' /\ LogTypes' /\ ConnTypes' /\ ScreenTypes' /\ TallyTypes' /\ ReaderTypes'
    BY <1>24, <1>a, Kept
       DEF finish_unlink, connVars, countVars, logVars, screenVars, sessVars,
           tallyVars
  <2> QED BY <2>1, <2>2 DEF TypeOK
<1>25. CASE finish_drain
  <2>1. ConnTypes'
    BY <1>25, <1>a
       DEF finish_drain, ConnTypes, connVars
  <2>2. PumpTypes'
    BY <1>25, <1>a
       DEF finish_drain, PumpTypes, ScreenTypes, pumpVars
  <2>3. SessTypes' /\ LogTypes' /\ ScreenTypes' /\ TallyTypes' /\ ReaderTypes'
    BY <1>25, <1>a, Kept
       DEF finish_drain, countVars, logVars, screenVars, sessVars, tallyVars
  <2> QED BY <2>1, <2>2, <2>3 DEF TypeOK
<1>26. CASE stop_record
  <2>1. SessTypes'
    BY <1>26, <1>a
       DEF stop_record, SessTypes, sessVars
  <2>2. LogTypes'
    <3>1. PICK q \in Seq(Lines) : LogNext(stopper, q)
      BY <1>26, Batch DEF stop_record, Kinds
    <3>2. stopper \in Threads
      BY <1>26, <1>a DEF stop_record, SessTypes, Threads, Clients
    <3> QED BY <1>26, <1>a, <3>1, <3>2, Logged DEF stop_record
  <2>3. ConnTypes' /\ ScreenTypes' /\ TallyTypes' /\ PumpTypes' /\ ReaderTypes'
    BY <1>26, <1>a, Kept
       DEF stop_record, connVars, countVars, pumpVars, screenVars, tallyVars
  <2> QED BY <2>1, <2>2, <2>3 DEF TypeOK
<1>27. CASE stop_spawn_ladder
  <2>1. SessTypes'
    BY <1>27, <1>a
       DEF stop_spawn_ladder, SessTypes, sessVars
  <2>2. LogTypes' /\ ConnTypes' /\ ScreenTypes' /\ TallyTypes' /\ PumpTypes' /\ ReaderTypes'
    BY <1>27, <1>a, Kept
       DEF stop_spawn_ladder, connVars, countVars, logVars, pumpVars,
           screenVars, tallyVars
  <2> QED BY <2>1, <2>2 DEF TypeOK
<1>28. CASE signal_waiter
  <2>1. SessTypes'
    BY <1>28, <1>a
       DEF signal_waiter, request_stop, SessTypes, sessVars
  <2>2. LogTypes' /\ ConnTypes' /\ ScreenTypes' /\ TallyTypes' /\ PumpTypes' /\ ReaderTypes'
    BY <1>28, <1>a, Kept
       DEF signal_waiter, request_stop, connVars, countVars, logVars,
           pumpVars, screenVars, tallyVars
  <2> QED BY <2>1, <2>2 DEF TypeOK
<1>29. CASE climb
  <2>1. SessTypes'
    BY <1>29, <1>a
       DEF climb, SessTypes, sessVars
  <2>2. LogTypes' /\ ConnTypes' /\ ScreenTypes' /\ TallyTypes' /\ PumpTypes' /\ ReaderTypes'
    BY <1>29, <1>a, Kept
       DEF climb, connVars, countVars, logVars, pumpVars, screenVars,
           tallyVars
  <2> QED BY <2>1, <2>2 DEF TypeOK
<1>30. CASE harness_exits
  <2>1. SessTypes'
    BY <1>30, <1>a
       DEF harness_exits, SessTypes, sessVars
  <2>2. LogTypes' /\ ConnTypes' /\ ScreenTypes' /\ TallyTypes' /\ PumpTypes' /\ ReaderTypes'
    BY <1>30, <1>a, Kept
       DEF harness_exits, connVars, countVars, logVars, pumpVars, screenVars,
           tallyVars
  <2> QED BY <2>1, <2>2 DEF TypeOK
<1>31. CASE filter_denies
  <2>1. LogTypes'
    <3>1. PICK q \in Seq(Lines) : todo' = todo \/ LogNext("filter", q)
      <4>1. Syscall \in Names /\ tally[Syscall] \in Int
        BY <1>a, <1>b DEF SupervisorAssumption, TallyTypes
      <4>2. ASSUME NEW k \in Nat
            PROVE  << Event("denied", [name |-> Syscall, count |-> k]) >> \in Seq(Lines)
        <5>1. [name |-> Syscall, count |-> k] \in [name : Names, count : Nat]
          BY <4>1
        <5>2. [name |-> Syscall, count |-> k] \in Args
          BY <5>1 DEF Args
        <5>3. Event("denied", [name |-> Syscall, count |-> k]) \in Lines
          BY <5>2, LineIs DEF Kinds
        <5> QED BY <5>3, Singles
      <4>3. (IF tally[Syscall] < 0 THEN 1 ELSE tally[Syscall] + 1) \in Nat
        BY <4>1
      <4>4. todo' = todo \/ LogNext("filter", << Event("denied", [name |-> Syscall,
               count |-> IF tally[Syscall] < 0 THEN 1 ELSE tally[Syscall] + 1]) >>)
        BY <1>31 DEF filter_denies, record_denial
      <4> QED BY <4>2, <4>3, <4>4, Singles
    <3> QED BY <1>31, <1>a, <3>1, Logged DEF filter_denies, Threads
  <2>2. TallyTypes'
    BY <1>31, <1>a, <1>b
       DEF filter_denies, record_denial, TallyTypes, tallyVars
  <2>3. SessTypes' /\ ConnTypes' /\ ScreenTypes' /\ PumpTypes' /\ ReaderTypes'
    BY <1>31, <1>a, Kept
       DEF filter_denies, connVars, countVars, pumpVars, screenVars, sessVars
  <2> QED BY <2>1, <2>2, <2>3 DEF TypeOK
<1>32. CASE filter_ends
  <2>1. LogTypes'
    <3>1. PICK q \in Seq(Lines) : todo' = todo \/ LogNext("filter", q)
      BY <1>32, Batch, Singles DEF filter_ends, Kinds
    <3> QED BY <1>32, <1>a, <3>1, Logged DEF filter_ends, Threads
  <2>2. TallyTypes'
    BY <1>32, <1>a, <1>b
       DEF filter_ends, TallyTypes, tallyVars
  <2>3. SessTypes' /\ ConnTypes' /\ ScreenTypes' /\ PumpTypes' /\ ReaderTypes'
    BY <1>32, <1>a, Kept
       DEF filter_ends, connVars, countVars, pumpVars, screenVars, sessVars
  <2> QED BY <2>1, <2>2, <2>3 DEF TypeOK
<1>33. CASE Gone \/ UNCHANGED vars
  BY <1>33, <1>a, Kept DEF TypeOK, Gone, vars, screenVars, pumpVars, countVars
<1> QED BY <1>1, <1>2, <1>3, <1>4, <1>5, <1>6, <1>7, <1>8, <1>9, <1>10, <1>11,
           <1>12, <1>13, <1>14, <1>15, <1>16, <1>17, <1>18, <1>19, <1>20,
           <1>21, <1>22, <1>23, <1>24, <1>25, <1>26, <1>27, <1>28, <1>29,
           <1>30, <1>31, <1>32, <1>33
           DEF Next, Log, Client, Pump

-----------------------------------------------------------------------------
(* What a step does to one client.                                          *)

\* Nothing but that its connection may go or it may be forgotten.
Alone(c) ==
    /\ chan'[c] = chan[c] /\ queued'[c] = queued[c] /\ got'[c] = got[c]
    /\ writer'[c] = writer[c] /\ pc'[c] = pc[c] /\ joined'[c] = joined[c]
    /\ sock'[c] = sock[c] \/ sock'[c] = "shut"
    /\ c \in clients' => c \in clients

\* It is sent a frame within its budget.
Sent(c, f) ==
    /\ c \in clients /\ Room(c)
    /\ chan'[c] = Append(chan[c], f) /\ queued'[c] = queued[c] + 1
    /\ got'[c] = got[c] /\ writer'[c] = writer[c] /\ pc'[c] = pc[c]
    /\ joined'[c] = joined[c] /\ sock'[c] = sock[c]

\* It is sent a CLOSED, whatever its budget, and forgotten.
Closed(c) ==
    /\ \E reason \in CloseReasons : chan'[c] = Append(chan[c], <<reason, 0>>)
    /\ queued'[c] = queued[c] + 1
    /\ got'[c] = got[c] /\ writer'[c] = writer[c] /\ pc'[c] = pc[c]
    /\ joined'[c] = joined[c] /\ UNCHANGED <<log, fan>>
    /\ sock'[c] = sock[c] \/ sock'[c] = "shut"
    /\ c \in clients /\ c \notin clients'

\* Its own threads act.
Acts(c) == \/ client_reject(c) \/ client_hello(c) \/ client_replay(c)
           \/ client_size(c) \/ client_register(c) \/ client_status(c)
           \/ client_leave(c) \/ writer_loop(c) \/ accept(c)

\* The steps of everyone, as one client sees them.
LEMMA ClientMoves ==
    ASSUME TypeOK, [Next]_vars, NEW c \in Clients
    PROVE  \/ /\ Alone(c) /\ Fanned' = Fanned
              /\ UNCHANGED <<log, fan>> \/ \E t \in Threads : append(t)
           \/ /\ \E t \in Threads : fan_out(t)
              /\ Alone(c) /\ (c \in Controls => c \notin clients')
           \/ /\ c \in Controls
              /\ \E t \in Threads : fan_out(t) /\ Sent(c, <<"event", fan[t]>>)
           \/ /\ broadcast_clients
              /\ Alone(c) /\ (c \in Terminals => c \notin clients')
           \/ /\ broadcast_clients
              /\ c \in Terminals /\ Sent(c, <<"out", produced>>)
           \/ Closed(c)
           \/ Acts(c)
<1> DEFINE Same == /\ Alone(c) /\ Fanned' = Fanned
                   /\ UNCHANGED <<log, fan>> \/ \E t \in Threads : append(t)
<1>a. ConnTypes /\ ReaderTypes /\ SessTypes
  BY DEF TypeOK
<1>b. UNCHANGED <<connVars, pc, joined>> => Alone(c)
  BY DEF Alone, connVars
<1>c. UNCHANGED <<pump, produced>> => Fanned' = Fanned
  BY DEF Fanned
<1>1. ASSUME NEW t \in Threads, append(t)
      PROVE  Same
  BY <1>1, <1>b, <1>c DEF append, screenVars, pumpVars
<1>2. ASSUME NEW t \in Threads, fan_out(t)
      PROVE  \/ Alone(c) /\ (c \in Controls => c \notin clients')
             \/ c \in Controls /\ Sent(c, <<"event", fan[t]>>)
  <2> DEFINE told == {d \in clients \cap Controls : Room(d)}
  <2>1. /\ Enqueue(told, <<"event", fan[t]>>)
        /\ clients' = (clients \ Controls) \cup told
        /\ UNCHANGED <<got, sock, writer, pc, joined>>
    BY <1>2 DEF fan_out
  <2>2. CASE c \in told
    BY <2>1, <2>2, <1>a DEF Sent, Enqueue, Size, ConnTypes
  <2>3. CASE c \notin told
    BY <2>1, <2>3, <1>a DEF Alone, Enqueue, ConnTypes
  <2> QED BY <2>2, <2>3
<1>3. CASE serve_read \/ broadcast_screen
  <2>1. Fanned' = Fanned
    <3>1. produced \in Int
      BY DEF TypeOK, ScreenTypes
    <3> QED BY <1>3, <3>1 DEF serve_read, broadcast_screen, Fanned
  <2> QED BY <1>3, <1>b, <2>1 DEF serve_read, broadcast_screen, logVars
<1>4. CASE broadcast_clients
  <2> DEFINE terminals == clients \cap Terminals
             slow == {d \in terminals : ~Room(d)}
             told == {d \in slow : writer[d] = "up"}
  <2>1. /\ chan'[c] = IF c \in terminals \ slow
                      THEN Append(chan[c], <<"out", produced>>)
                      ELSE IF c \in told THEN Append(chan[c], <<"too_slow", 0>>)
                      ELSE chan[c]
        /\ queued'[c] = IF c \in (terminals \ slow) \cup told
                        THEN queued[c] + 1 ELSE queued[c]
        /\ sock'[c] = IF c \in slow THEN "shut" ELSE sock[c]
        /\ clients' = clients \ slow
        /\ UNCHANGED <<log, fan, got, writer, pc, joined>>
    BY <1>4, <1>a DEF broadcast_clients, ConnTypes
  <2>2. CASE c \in terminals \ slow
    BY <1>4, <2>1, <2>2 DEF Sent
  <2>3. CASE c \in told
    BY <2>1, <2>3 DEF Closed, CloseReasons
  <2>4. CASE c \notin (terminals \ slow) \cup told
    BY <1>4, <2>1, <2>4 DEF Alone
  <2> QED BY <1>4, <2>2, <2>3, <2>4
<1>5. CASE finish_close
  <2> DEFINE reason == IF stop_cause = "none" THEN "exited" ELSE stop_cause
             told == {d \in clients : writer[d] = "up"}
  <2>1. /\ Enqueue(told, <<reason, 0>>) /\ clients' = {}
        /\ UNCHANGED <<log, fan, got, sock, writer, pc, joined, produced>>
        /\ pump = "close" /\ pump' = "unlink"
    BY <1>5 DEF finish_close, logVars, screenVars
  <2>2. reason \in CloseReasons /\ Size(<<reason, 0>>) = 1
    BY <1>a DEF CloseReasons, SessTypes, Size
  <2>3. Fanned' = Fanned
    BY <2>1 DEF Fanned
  <2> HIDE DEF reason
  <2>4. CASE c \in told
    BY <2>1, <2>2, <2>4, <1>a DEF Closed, Enqueue, ConnTypes
  <2>5. CASE c \notin told
    BY <2>1, <2>3, <2>5, <1>a DEF Alone, Enqueue, ConnTypes
  <2> QED BY <2>4, <2>5
<1>6. CASE \/ serve_ends \/ begin_teardown \/ settle \/ finish_flush
           \/ finish_exit \/ finish_unlink
  <2>1. /\ UNCHANGED <<connVars, pc, joined, log, fan, produced>>
        /\ pump \notin {"push", "fanout"} /\ pump' \notin {"push", "fanout"}
    BY <1>6 DEF serve_ends, begin_teardown, settle, finish_flush, finish_exit,
                finish_unlink, logVars, screenVars
  <2> QED BY <2>1, <1>b DEF Fanned
<1>7. CASE finish_drain
  <2>1. sock'[c] = sock[c] \/ sock'[c] = "shut"
    BY <1>7 DEF finish_drain
  <2>2. /\ UNCHANGED <<clients, chan, queued, got, writer, pc, joined, log, fan>>
        /\ Fanned' = Fanned
    BY <1>7 DEF finish_drain, logVars, screenVars, Fanned
  <2> QED BY <2>1, <2>2 DEF Alone
<1>8. CASE \/ stop_record \/ stop_spawn_ladder \/ signal_waiter \/ climb
           \/ harness_exits \/ filter_denies \/ filter_ends
  <2>1. UNCHANGED <<connVars, pc, joined, log, fan, produced, pump>>
    BY <1>8 DEF stop_record, stop_spawn_ladder, signal_waiter, request_stop,
                climb, harness_exits, filter_denies, filter_ends, logVars,
                screenVars, pumpVars
  <2> QED BY <2>1, <1>b DEF Fanned
<1>9. CASE Gone \/ UNCHANGED vars
  <2>1. UNCHANGED <<connVars, pc, joined, log, fan, produced, pump>>
    BY <1>9 DEF Gone, vars, logVars, screenVars, pumpVars
  <2> QED BY <2>1, <1>b DEF Fanned
<1>10. ASSUME NEW d \in Clients, Client(d)
       PROVE  Same \/ Acts(c)
  <2>0. /\ UNCHANGED <<log, fan>> /\ Fanned' = Fanned
    BY <1>10 DEF Client, accept, client_reject, client_hello, client_replay,
         client_size, client_register, client_resize, client_stop, request_stop,
         client_status, client_leave, peer_closes, writer_loop, logVars,
         screenVars, pumpVars, Fanned
  <2>1. CASE client_resize(d) \/ client_stop(d)
    BY <2>0, <2>1, <1>b DEF client_resize, client_stop, request_stop
  <2>2. CASE peer_closes(d)
    BY <2>0, <2>2, <1>a DEF peer_closes, Alone, ConnTypes
  <2>3. CASE d = c /\ ~(client_resize(d) \/ client_stop(d) \/ peer_closes(d))
    BY <1>10, <2>3 DEF Client, Acts
  <2>4. CASE d /= c
    <3>1. CASE accept(d) \/ client_reject(d) \/ client_hello(d)
      BY <2>0, <2>4, <3>1, <1>a DEF accept, client_reject, client_hello, Go,
         Alone, ConnTypes, ReaderTypes, connVars
    <3>2. CASE client_replay(d)
      BY <2>0, <2>4, <3>2, <1>a DEF client_replay, Go, Alone, ConnTypes,
         ReaderTypes
    <3>3. CASE client_size(d) \/ client_register(d)
      BY <2>0, <2>4, <3>3, <1>a DEF client_size, client_register, Go, Alone,
         ConnTypes, ReaderTypes, connVars
    <3>4. CASE client_status(d) \/ client_leave(d)
      BY <2>0, <2>4, <3>4, <1>a DEF client_status, client_leave, Go, Alone,
         ConnTypes, ReaderTypes
    <3>5. CASE writer_loop(d)
      BY <2>0, <2>4, <3>5, <1>a DEF writer_loop, Alone, ConnTypes
    <3> QED BY <1>10, <2>1, <2>2, <3>1, <3>2, <3>3, <3>4, <3>5 DEF Client
  <2> QED BY <2>1, <2>2, <2>3, <2>4
<1> QED BY <1>1, <1>2, <1>3, <1>4, <1>5, <1>6, <1>7, <1>8, <1>9, <1>10
        DEF Next, Log, Pump

-----------------------------------------------------------------------------
(* The byte counter of a client.                                            *)

\* The places of the frames of P.
Marks(s, P) == {i \in DOMAIN s : s[i] \in P}
Bytes == {f \in Wire : Size(f) = 1}
Budget == {f \in Wire : f[1] \in {"out", "event"}}

\* They are finitely many, and none in an empty channel.
LEMMA MarksFinite ==
    ASSUME NEW T, NEW s \in Seq(T), NEW P
    PROVE  /\ IsFiniteSet(Marks(s, P)) /\ Cardinality(Marks(s, P)) \in Nat
           /\ s = <<>> => Cardinality(Marks(s, P)) = 0
<1>1. Marks(s, P) \in SUBSET (1..Len(s)) /\ IsFiniteSet(1..Len(s))
  BY FS_Interval DEF Marks
<1>2. IsFiniteSet(Marks(s, P))
  BY <1>1, FS_Subset
<1>3. s = <<>> => Marks(s, P) = {}
  BY DEF Marks
<1> QED BY <1>2, <1>3, FS_CardinalityType, FS_EmptySet

\* One more frame.
LEMMA MarksAppend ==
    ASSUME NEW T, NEW s \in Seq(T), NEW f \in T, NEW P
    PROVE  Cardinality(Marks(Append(s, f), P)) =
               Cardinality(Marks(s, P)) + IF f \in P THEN 1 ELSE 0
<1>1. Marks(Append(s, f), P) =
          IF f \in P THEN Marks(s, P) \cup {Len(s) + 1} ELSE Marks(s, P)
  BY DEF Marks
<1>2. Len(s) + 1 \notin Marks(s, P)
  BY DEF Marks
<1>3. IsFiniteSet(Marks(s, P)) /\ Cardinality(Marks(s, P)) \in Nat
  BY MarksFinite
<1>4. Cardinality(Marks(s, P) \cup {Len(s) + 1}) = Cardinality(Marks(s, P)) + 1
  BY <1>2, <1>3, FS_AddElement
<1>5. CASE f \in P
  BY <1>1, <1>4, <1>5
<1>6. CASE f \notin P
  BY <1>1, <1>3, <1>6
<1> QED BY <1>5, <1>6

\* The first frame leaves.
LEMMA MarksTail ==
    ASSUME NEW T, NEW s \in Seq(T), s /= <<>>, NEW P
    PROVE  Cardinality(Marks(Tail(s), P)) =
               Cardinality(Marks(s, P)) - IF Head(s) \in P THEN 1 ELSE 0
<1> DEFINE A == Marks(Tail(s), P)
           B == Marks(s, P) \ {1}
           f == [i \in A |-> i + 1]
<1>1. /\ Tail(s) \in Seq(T) /\ Len(Tail(s)) = Len(s) - 1
      /\ \A i \in DOMAIN Tail(s) : Tail(s)[i] = s[i + 1]
  OBVIOUS
<1>2. f \in Bijection(A, B)
  <2>1. \A i \in A : i \in Nat /\ i + 1 \in B
    BY <1>1 DEF Marks
  <2>2. \A j \in B : j - 1 \in A /\ (j - 1) + 1 = j
    BY <1>1 DEF Marks
  <2> HIDE DEF A, B
  <2>3. f \in [A -> B]
    BY <2>1
  <2>4. \A i, j \in A : f[i] = f[j] => i = j
    BY <2>1
  <2>5. \A j \in B : \E i \in A : f[i] = j
    BY <2>2
  <2> HIDE DEF f
  <2> QED BY <2>3, <2>4, <2>5 DEF Bijection, Injection, Surjection, IsInjective
<1>3. IsFiniteSet(A) /\ IsFiniteSet(Marks(s, P)) /\ Cardinality(Marks(s, P)) \in Nat
  BY <1>1, MarksFinite
<1>4. Cardinality(B) = Cardinality(A)
  <2> HIDE DEF A, B, f
  <2> QED BY <1>2, <1>3, FS_Bijection DEF ExistsBijection
<1>5. 1 \in Marks(s, P) <=> Head(s) \in P
  BY DEF Marks
<1>6. Cardinality(B) = Cardinality(Marks(s, P))
                         - IF 1 \in Marks(s, P) THEN 1 ELSE 0
  <2>1. Cardinality(Marks(s, P) \ {1}) =
            IF 1 \in Marks(s, P) THEN Cardinality(Marks(s, P)) - 1
            ELSE Cardinality(Marks(s, P))
    BY <1>3, FS_RemoveElement
  <2> QED BY <1>3, <2>1
<1> QED BY <1>4, <1>5, <1>6

\* The sets QueueAccounted counts.
LEMMA MarksAre ==
    ASSUME NEW s \in Seq(Wire)
    PROVE  /\ Charged(s) = Marks(s, Bytes) /\ Budgeted(s) = Marks(s, Budget)
           /\ Cardinality(Marks(s, Budget)) <= Cardinality(Marks(s, Bytes))
<1>1. \A i \in DOMAIN s : s[i] \in Wire
  OBVIOUS
<1>2. Charged(s) = Marks(s, Bytes) /\ Budgeted(s) = Marks(s, Budget)
  BY <1>1 DEF Charged, Budgeted, Marks, Bytes, Budget
<1>3. Budget \subseteq Bytes
  BY DEF Budget, Bytes, Size, Wire
<1>4. Marks(s, Budget) \in SUBSET Marks(s, Bytes)
  BY <1>3 DEF Marks
<1> QED BY <1>2, <1>4, MarksFinite, FS_Subset

\* What each kind of frame counts for.
LEMMA FramesCount ==
    /\ \A n \in Nat : <<"event", n>> \in Budget /\ <<"out", n>> \in Budget
    /\ Budget \subseteq Bytes /\ Budget \subseteq Wire
    /\ \A r \in CloseReasons \cup {"status"} :
          /\ <<r, 0>> \in Wire /\ <<r, 0>> \in Bytes /\ <<r, 0>> \notin Budget
    /\ <<"end", 0>> \in Wire /\ <<"end", 0>> \notin Bytes
    /\ <<"end", 0>> \notin Budget
    /\ \A f \in Wire : Size(f) = IF f \in Bytes THEN 1 ELSE 0
BY DEF Budget, Bytes, Wire, Frames, CloseReasons, Size

Accounted(q, s) == /\ q = Cardinality(Marks(s, Bytes))
                   /\ Cardinality(Marks(s, Budget)) <= QueueCap

\* A client's thread, its writer and its place in the list stay in step.
LEMMA InStepStep ==
    ASSUME TypeOK, [Next]_vars, NEW c \in Clients, ClientInStep(c)
    PROVE  ClientInStep(c)'
<1>a. ConnTypes /\ ReaderTypes
  BY DEF TypeOK
<1>1. CASE Alone(c)
  BY <1>1, <1>a DEF Alone, ClientInStep, ConnTypes
<1>2. ASSUME NEW f, Sent(c, f)
      PROVE  ClientInStep(c)'
  BY <1>2, <1>a DEF Sent, ClientInStep
<1>3. CASE Closed(c)
  BY <1>3, <1>a DEF Closed, ClientInStep, ConnTypes
<1>4. CASE accept(c) \/ client_reject(c) \/ client_hello(c)
  BY <1>4, <1>a DEF accept, client_reject, client_hello, Go, ClientInStep,
     ConnTypes, ReaderTypes, connVars
<1>5. CASE client_replay(c) \/ client_size(c)
  BY <1>5, <1>a DEF client_replay, client_size, Go, ClientInStep, ConnTypes,
     ReaderTypes, connVars
<1>6. CASE client_register(c) \/ client_status(c) \/ client_leave(c)
  BY <1>6, <1>a DEF client_register, client_status, client_leave, Go, Serving,
     ClientInStep, ConnTypes, ReaderTypes
<1>7. CASE writer_loop(c)
  BY <1>7, <1>a DEF writer_loop, ClientInStep, ConnTypes
<1> QED BY <1>1, <1>2, <1>3, <1>4, <1>5, <1>6, <1>7, ClientMoves DEF Acts

\* Every sender counts what the writer will subtract.
LEMMA QueueStep ==
    ASSUME TypeOK, [Next]_vars, NEW c \in Clients, ClientInStep(c),
           writer[c] = "up" => Accounted(queued[c], chan[c])
    PROVE  writer'[c] = "up" => Accounted(queued'[c], chan'[c])
<1> DEFINE Goal == writer'[c] = "up" => Accounted(queued'[c], chan'[c])
           bytes == Cardinality(Marks(chan[c], Bytes))
           budget == Cardinality(Marks(chan[c], Budget))
<1>a. ConnTypes /\ ReaderTypes /\ ScreenTypes /\ LogTypes /\ SupervisorAssumption
  BY SupervisorAssumption DEF TypeOK
<1>b. /\ chan[c] \in Seq(Wire) /\ queued[c] \in Int
      /\ bytes \in Nat /\ budget \in Nat /\ budget <= bytes
  BY <1>a, MarksFinite, MarksAre DEF ConnTypes
<1>c. writer[c] = "up" => queued[c] = bytes /\ budget <= QueueCap
  BY DEF Accounted
<1>d. QueueCap \in Nat /\ RingCap \in Nat /\ RingCap <= QueueCap
  BY <1>a DEF SupervisorAssumption
<1>e. ASSUME NEW f \in Wire
      PROVE  /\ Cardinality(Marks(Append(chan[c], f), Bytes)) =
                   bytes + IF f \in Bytes THEN 1 ELSE 0
             /\ Cardinality(Marks(Append(chan[c], f), Budget)) =
                   budget + IF f \in Budget THEN 1 ELSE 0
  BY <1>b, MarksAppend
<1>f. Accounted(0, <<>>)
  <2>1. <<>> \in Seq(Wire)
    OBVIOUS
  <2>2. /\ Cardinality(Marks(<<>>, Bytes)) = 0
        /\ Cardinality(Marks(<<>>, Budget)) = 0
    BY <2>1, MarksFinite
  <2> QED BY <2>2, <1>d DEF Accounted
<1> HIDE DEF bytes, budget
<1>1. CASE Alone(c)
  BY <1>1 DEF Alone
<1>2. ASSUME NEW f \in Budget, Sent(c, f)
      PROVE  Goal
  <2>1. f \in Wire /\ f \in Bytes
    BY FramesCount
  <2>2. /\ writer[c] = "up" /\ queued[c] + 1 <= QueueCap
        /\ queued'[c] = queued[c] + 1 /\ chan'[c] = Append(chan[c], f)
    BY <1>2 DEF Sent, Room
  <2>3. /\ Cardinality(Marks(chan'[c], Bytes)) = bytes + 1
        /\ Cardinality(Marks(chan'[c], Budget)) = budget + 1
    BY <1>e, <2>1, <2>2
  <2> QED BY <1>b, <1>c, <1>d, <2>2, <2>3 DEF Accounted
<1>3. CASE Closed(c)
  <2>1. PICK r \in CloseReasons : chan'[c] = Append(chan[c], <<r, 0>>)
    BY <1>3 DEF Closed
  <2>2. /\ <<r, 0>> \in Wire /\ <<r, 0>> \in Bytes /\ <<r, 0>> \notin Budget
    BY FramesCount
  <2>3. /\ Cardinality(Marks(chan'[c], Bytes)) = bytes + 1
        /\ Cardinality(Marks(chan'[c], Budget)) = budget
    BY <1>b, <1>e, <2>1, <2>2
  <2>4. writer'[c] = writer[c] /\ queued'[c] = queued[c] + 1
    BY <1>3 DEF Closed
  <2> QED BY <1>b, <1>c, <2>3, <2>4 DEF Accounted
<1>4. CASE accept(c)
  BY <1>4 DEF accept, connVars
<1>5. CASE client_reject(c)
  BY <1>5 DEF client_reject
<1>6. CASE client_hello(c)
  <2>1. chan'[c] = <<>> /\ queued'[c] = 0
    BY <1>6 DEF client_hello, Go, ClientInStep
  <2> QED BY <2>1, <1>f
<1>7. CASE client_replay(c)
  <2> DEFINE replay == IF alt THEN <<>> ELSE ring
             frames == [i \in DOMAIN replay |-> <<"out", replay[i]>>]
  <2>1. chan[c] = <<>> /\ queued[c] = 0
    BY <1>7 DEF client_replay, Go, ClientInStep
  <2>2. \/ /\ chan' = [chan EXCEPT ![c] = @ \o frames]
           /\ queued' = [queued EXCEPT ![c] = @ + Len(replay)]
        \/ writer' = [writer EXCEPT ![c] = "gone"]
    BY <1>7 DEF client_replay
  <2>3. replay \in Seq(Nat) /\ Len(replay) <= RingCap
    <3>1. /\ <<>> \in Seq(Nat) /\ ring \in Seq(Nat)
          /\ Len(<<>>) <= RingCap /\ Len(ring) <= RingCap
      BY <1>a, <1>d DEF ScreenTypes, SupervisorAssumption
    <3> QED BY <3>1
  <2> HIDE DEF replay
  <2>4. /\ frames \in Seq(Wire) /\ Len(frames) = Len(replay)
        /\ \A i \in DOMAIN frames : frames[i] \in Budget /\ frames[i] \in Bytes
    <3>1. \A i \in DOMAIN replay : /\ <<"out", replay[i]>> \in Budget
                                   /\ <<"out", replay[i]>> \in Bytes
                                   /\ <<"out", replay[i]>> \in Wire
      <4>1. \A i \in DOMAIN replay : replay[i] \in Nat
        BY <2>3
      <4>2. \A n \in Nat : <<"out", n>> \in Budget
        BY FramesCount
      <4> QED BY <4>1, <4>2, FramesCount
    <3> QED BY <2>3, <3>1
  <2> HIDE DEF frames
  <2>5. Marks(frames, Bytes) = 1..Len(frames) /\ Marks(frames, Budget) = 1..Len(frames)
    BY <2>4 DEF Marks
  <2>6. Cardinality(1..Len(frames)) = Len(frames)
    <3>1. Len(frames) \in Nat
      BY <2>4
    <3>2. Cardinality(1..Len(frames)) =
             IF 1 > Len(frames) THEN 0 ELSE Len(frames) - 1 + 1
      BY <3>1, FS_Interval
    <3> QED BY <3>1, <3>2
  <2>7. Accounted(Len(replay), frames)
    BY <2>3, <2>4, <2>5, <2>6, <1>d DEF Accounted
  <2>8. <<>> \o frames = frames
    BY <2>4
  <2>9. CASE /\ chan' = [chan EXCEPT ![c] = @ \o frames]
             /\ queued' = [queued EXCEPT ![c] = @ + Len(replay)]
    <3>1. chan'[c] = frames /\ queued'[c] = Len(replay)
      BY <2>1, <2>3, <2>8, <2>9, <1>a DEF ConnTypes
    <3> QED BY <2>7, <3>1
  <2>10. CASE writer' = [writer EXCEPT ![c] = "gone"]
    BY <2>10, <1>a DEF ConnTypes
  <2> QED BY <2>2, <2>9, <2>10
<1>8. CASE client_size(c)
  BY <1>8 DEF client_size, connVars
<1>9. CASE client_register(c)
  BY <1>9 DEF client_register
<1>10. CASE client_status(c)
  <2>1. /\ <<"status", 0>> \in Wire /\ <<"status", 0>> \in Bytes
        /\ <<"status", 0>> \notin Budget
    BY FramesCount
  <2>2. /\ writer[c] = "up" => chan'[c] = Append(chan[c], <<"status", 0>>)
        /\ queued'[c] = queued[c] + 1 /\ writer' = writer
    BY <1>10, <1>a DEF client_status, ConnTypes
  <2>3. /\ Cardinality(Marks(Append(chan[c], <<"status", 0>>), Bytes)) = bytes + 1
        /\ Cardinality(Marks(Append(chan[c], <<"status", 0>>), Budget)) = budget
    BY <1>b, <1>e, <2>1
  <2> QED BY <1>b, <1>c, <2>2, <2>3 DEF Accounted
<1>11. CASE client_leave(c)
  <2>1. /\ <<"end", 0>> \in Wire /\ <<"end", 0>> \notin Bytes
        /\ <<"end", 0>> \notin Budget
    BY FramesCount
  <2>2. /\ writer[c] = "up" => chan'[c] = Append(chan[c], <<"end", 0>>)
        /\ queued'[c] = queued[c] /\ writer' = writer
    BY <1>11, <1>a DEF client_leave, ConnTypes
  <2>3. /\ Cardinality(Marks(Append(chan[c], <<"end", 0>>), Bytes)) = bytes
        /\ Cardinality(Marks(Append(chan[c], <<"end", 0>>), Budget)) = budget
    BY <1>b, <1>e, <2>1
  <2> QED BY <1>b, <1>c, <2>2, <2>3 DEF Accounted
<1>12. CASE writer_loop(c)
  <2>1. /\ writer[c] = "up" /\ chan[c] /= <<>> /\ chan'[c] = Tail(chan[c])
        /\ queued'[c] = queued[c] - Size(Head(chan[c]))
    BY <1>12, <1>a DEF writer_loop, ConnTypes
  <2>2. /\ Cardinality(Marks(Tail(chan[c]), Bytes)) =
             bytes - IF Head(chan[c]) \in Bytes THEN 1 ELSE 0
        /\ Cardinality(Marks(Tail(chan[c]), Budget)) =
             budget - IF Head(chan[c]) \in Budget THEN 1 ELSE 0
    BY <1>b, <2>1, MarksTail DEF bytes, budget
  <2>3. Size(Head(chan[c])) = IF Head(chan[c]) \in Bytes THEN 1 ELSE 0
    <3>1. Head(chan[c]) \in Wire
      BY <1>b, <2>1
    <3> QED BY <3>1, FramesCount
  <2> QED BY <1>b, <1>c, <1>d, <2>1, <2>2, <2>3 DEF Accounted
<1>13. \A t \in Threads : <<"event", fan[t]>> \in Budget
  <2>1. \A t \in Threads : fan[t] \in Nat
    BY <1>a DEF LogTypes
  <2>2. \A n \in Nat : <<"event", n>> \in Budget
    BY FramesCount
  <2> QED BY <2>1, <2>2
<1>14. <<"out", produced>> \in Budget
  <2>1. produced \in Nat
    BY <1>a DEF ScreenTypes, SupervisorAssumption
  <2>2. \A n \in Nat : <<"out", n>> \in Budget
    BY FramesCount
  <2> QED BY <2>1, <2>2
<1> QED BY <1>1, <1>2, <1>3, <1>4, <1>5, <1>6, <1>7, <1>8, <1>9, <1>10, <1>11,
           <1>12, <1>13, <1>14, ClientMoves DEF Acts

-----------------------------------------------------------------------------
(* What a client is sent.                                                   *)

\* A frame queued is a frame at the end of the stream.
LEMMA QueuedLast ==
    ASSUME NEW s \in Seq(Wire), NEW q \in Seq(Wire), NEW f \in Wire
    PROVE  s \o Append(q, f) = Append(s \o q, f)
OBVIOUS

\* A frame written stays where it was; one that is not leaves a gap.
LEMMA HeadMoves ==
    ASSUME NEW s \in Seq(Wire), NEW q \in Seq(Wire), q /= <<>>
    PROVE  /\ Append(s, Head(q)) \o Tail(q) = s \o q
           /\ Len(s \o Tail(q)) + 1 = Len(s \o q)
           /\ \A i \in DOMAIN (s \o Tail(q)) :
                 (s \o Tail(q))[i] = (s \o q)[IF i < Len(s) + 1 THEN i ELSE i + 1]
<1>1. /\ Tail(q) \in Seq(Wire) /\ Len(Tail(q)) = Len(q) - 1 /\ Len(q) > 0
      /\ \A i \in 1..Len(Tail(q)) : Tail(q)[i] = q[i + 1]
      /\ Head(q) = q[1] /\ Head(q) \in Wire
  OBVIOUS
<1>2. Len(s \o Tail(q)) + 1 = Len(s \o q)
  BY <1>1
<1>3. Append(s, Head(q)) \o Tail(q) = s \o q
  <2> DEFINE a == Append(s, Head(q)) \o Tail(q)
             b == s \o q
  <2>1. a \in Seq(Wire) /\ b \in Seq(Wire) /\ Len(a) = Len(b)
    BY <1>1
  <2>2. ASSUME NEW i \in 1..Len(b)
        PROVE  a[i] = b[i]
    <3>1. CASE i <= Len(s)
      BY <1>1, <3>1
    <3>2. CASE i = Len(s) + 1
      BY <1>1, <3>2
    <3>3. CASE i > Len(s) + 1
      BY <1>1, <3>3
    <3> QED BY <3>1, <3>2, <3>3
  <2> HIDE DEF a, b
  <2>3. a = b
    BY <2>1, <2>2
  <2> QED BY <2>3 DEF a, b
<1>4. ASSUME NEW i \in DOMAIN (s \o Tail(q))
      PROVE  (s \o Tail(q))[i] = (s \o q)[IF i < Len(s) + 1 THEN i ELSE i + 1]
  <2>1. CASE i < Len(s) + 1
    BY <1>1, <2>1
  <2>2. CASE ~(i < Len(s) + 1)
    BY <1>1, <2>2
  <2> QED BY <2>1, <2>2
<1> QED BY <1>2, <1>3, <1>4

\* A frame that could not be written.
Dropped(c) ==
    /\ sock'[c] = "shut"
    /\ Len(Stream(c)') + 1 = Len(Stream(c))
    /\ \E k \in Nat : \A i \in DOMAIN Stream(c)' :
          Stream(c)'[i] = Stream(c)[IF i < k THEN i ELSE i + 1]

\* What a step does to a client's stream.
LEMMA StreamMoves ==
    ASSUME TypeOK, [Next]_vars, NEW c \in Clients, ClientInStep(c)
    PROVE  /\ Stream(c) \in Seq(Wire) /\ Stream(c)' \in Seq(Wire)
           /\ \/ Stream(c)' = Stream(c)
              \/ \E t \in Threads :
                    /\ c \in Controls /\ fan_out(t)
                    /\ Stream(c)' = Append(Stream(c), <<"event", fan[t]>>)
              \/ \E f \in Wire : /\ f[1] /= "event"
                                 /\ Stream(c)' = Append(Stream(c), f)
              \/ Dropped(c)
              \/ \A i \in DOMAIN Stream(c)' : Stream(c)'[i][1] /= "event"
<1>a. ConnTypes /\ ReaderTypes /\ ScreenTypes /\ LogTypes /\ SupervisorAssumption
  BY SupervisorAssumption DEF TypeOK
<1>b. chan[c] \in Seq(Wire) /\ got[c] \in Seq(Wire)
  BY <1>a DEF ConnTypes
<1>c. chan'[c] \in Seq(Wire) /\ got'[c] \in Seq(Wire)
  BY TypesStep DEF TypeOK, ConnTypes
<1>d. Stream(c) \in Seq(Wire) /\ Stream(c)' \in Seq(Wire)
  BY <1>b, <1>c DEF Stream
<1>e. ASSUME NEW f \in Wire, chan'[c] = Append(chan[c], f), got'[c] = got[c]
      PROVE  Stream(c)' = Append(Stream(c), f)
  BY <1>b, <1>e, QueuedLast DEF Stream
<1>f. ASSUME chan'[c] = chan[c], got'[c] = got[c]
      PROVE  Stream(c)' = Stream(c)
  BY <1>f DEF Stream
<1>1. CASE Alone(c)
  BY <1>1, <1>d, <1>f DEF Alone
<1>2. ASSUME NEW t \in Threads, fan_out(t), c \in Controls,
             Sent(c, <<"event", fan[t]>>)
      PROVE  Stream(c)' = Append(Stream(c), <<"event", fan[t]>>)
  <2>1. <<"event", fan[t]>> \in Wire
    BY <1>a DEF LogTypes, Wire, Frames
  <2> QED BY <1>2, <2>1, <1>e DEF Sent
<1>3. ASSUME Sent(c, <<"out", produced>>)
      PROVE  \E f \in Wire : f[1] /= "event" /\ Stream(c)' = Append(Stream(c), f)
  <2> DEFINE f == <<"out", produced>>
  <2>1. f \in Wire /\ f[1] /= "event"
    BY <1>a DEF ScreenTypes, SupervisorAssumption, Wire, Frames
  <2> HIDE DEF f
  <2>2. chan'[c] = Append(chan[c], f) /\ got'[c] = got[c]
    BY <1>3 DEF Sent, f
  <2> QED BY <2>1, <2>2, <1>e
<1>4. ASSUME Closed(c)
      PROVE  \E f \in Wire : f[1] /= "event" /\ Stream(c)' = Append(Stream(c), f)
  <2>1. PICK f \in Wire : f[1] /= "event" /\ chan'[c] = Append(chan[c], f)
    BY <1>4 DEF Closed, Wire, Frames, CloseReasons
  <2> QED BY <1>4, <2>1, <1>e DEF Closed
<1>5. CASE accept(c) \/ client_hello(c) \/ client_size(c) \/ client_register(c)
  <2>1. chan' = chan /\ got' = got
    BY <1>5 DEF accept, client_hello, client_size, client_register, connVars
  <2> QED BY <2>1, <1>d, <1>f
<1>6. CASE client_reject(c)
  <2>1. chan[c] = <<>> /\ got[c] = <<>>
    BY <1>6 DEF client_reject, Go, ClientInStep
  <2>2. chan'[c] = <<>> /\ got'[c] = << <<"protocol", 0>> >>
    <3>1. Append(<<>>, <<"protocol", 0>>) = << <<"protocol", 0>> >>
      OBVIOUS
    <3> QED BY <1>6, <2>1, <3>1, <1>a DEF client_reject, ConnTypes
  <2>3. \A i \in DOMAIN Stream(c)' : Stream(c)'[i] = <<"protocol", 0>>
    BY <2>2 DEF Stream
  <2> QED BY <1>d, <2>3
<1>7. CASE client_replay(c)
  <2> DEFINE replay == IF alt THEN <<>> ELSE ring
             frames == [i \in DOMAIN replay |-> <<"out", replay[i]>>]
  <2>1. chan[c] = <<>> /\ got[c] = <<>>
    BY <1>7 DEF client_replay, Go, ClientInStep
  <2>2. replay \in Seq(Nat)
    <3>1. <<>> \in Seq(Nat) /\ ring \in Seq(Nat)
      BY <1>a DEF ScreenTypes, SupervisorAssumption
    <3> QED BY <3>1
  <2>3. \/ chan' = [chan EXCEPT ![c] = @ \o frames] /\ got' = got
        \/ /\ chan' = chan
           /\ \E w \in 0..(Len(frames) - 2) :
                 got' = [got EXCEPT ![c] = @ \o SubSeq(frames, 1, w)]
    BY <1>7 DEF client_replay
  <2> HIDE DEF replay
  <2>4. /\ frames \in Seq(Wire)
        /\ \A i \in DOMAIN frames : frames[i][1] /= "event"
    <3>1. \A i \in DOMAIN replay : <<"out", replay[i]>> \in Wire
      BY <2>2 DEF Wire, Frames
    <3> QED BY <2>2, <3>1
  <2> HIDE DEF frames
  <2>5. CASE chan' = [chan EXCEPT ![c] = @ \o frames] /\ got' = got
    <3>1. <<>> \o (<<>> \o frames) = frames
      BY <2>4
    <3>2. Stream(c)' = frames
      BY <2>1, <2>5, <3>1, <1>a DEF Stream, ConnTypes
    <3> QED BY <1>d, <2>4, <3>2
  <2>6. CASE /\ chan' = chan
             /\ \E w \in 0..(Len(frames) - 2) :
                   got' = [got EXCEPT ![c] = @ \o SubSeq(frames, 1, w)]
    <3>1. PICK w \in 0..(Len(frames) - 2) :
              got' = [got EXCEPT ![c] = @ \o SubSeq(frames, 1, w)]
      BY <2>6
    <3> DEFINE q == SubSeq(frames, 1, w)
    <3>2. /\ q \in Seq(Wire) /\ Len(q) = w /\ w <= Len(frames)
          /\ \A i \in 1..w : q[i] = frames[i]
      BY <2>4
    <3> HIDE DEF q
    <3>3. (<<>> \o q) \o <<>> = q
      BY <3>2
    <3>4. Stream(c)' = q
      BY <2>1, <2>6, <3>1, <3>3, <1>a DEF Stream, ConnTypes, q
    <3>5. \A i \in DOMAIN q : q[i][1] /= "event"
      BY <2>4, <3>2
    <3> QED BY <1>d, <3>4, <3>5
  <2> QED BY <2>3, <2>5, <2>6
<1>8. CASE client_status(c) \/ client_leave(c)
  <2>1. /\ got' = got
        /\ \/ chan' = chan
           \/ chan' = [chan EXCEPT ![c] = Append(@, <<"status", 0>>)]
           \/ chan' = [chan EXCEPT ![c] = Append(@, <<"end", 0>>)]
    BY <1>8 DEF client_status, client_leave
  <2> DEFINE f == <<"status", 0>>
             g == <<"end", 0>>
  <2>2. f \in Wire /\ g \in Wire /\ f[1] /= "event" /\ g[1] /= "event"
    BY DEF Wire, Frames
  <2> HIDE DEF f, g
  <2>3. \/ chan'[c] = chan[c] \/ chan'[c] = Append(chan[c], f)
        \/ chan'[c] = Append(chan[c], g)
    BY <2>1, <1>a DEF ConnTypes, f, g
  <2> QED BY <2>1, <2>2, <2>3, <1>d, <1>e, <1>f
<1>9. CASE writer_loop(c)
  <2> DEFINE q == chan[c]
             frame == Head(q)
  <2>1. q /= <<>> /\ chan'[c] = Tail(q)
    BY <1>9, <1>a DEF writer_loop, ConnTypes
  <2>2. CASE ~(sock[c] = "shut" \/ frame[1] = "end")
    <3>1. got'[c] = Append(got[c], frame)
      BY <1>9, <2>2, <1>a DEF writer_loop, ConnTypes
    <3>2. Stream(c)' = Stream(c)
      BY <1>b, <2>1, <3>1, HeadMoves DEF Stream
    <3> QED BY <1>d, <3>2
  <2>3. CASE sock[c] = "shut" \/ frame[1] = "end"
    <3>1. got'[c] = got[c] /\ sock'[c] = "shut"
      BY <1>9, <2>3, <1>a DEF writer_loop, ConnTypes
    <3>2. Stream(c)' = got[c] \o Tail(q) /\ Len(got[c]) + 1 \in Nat
      BY <1>b, <2>1, <3>1 DEF Stream
    <3>3. Dropped(c)
      <4> HIDE DEF q
      <4>1. q \in Seq(Wire) /\ Stream(c) = got[c] \o q
        BY <1>b DEF q, Stream
      <4>2. /\ Len(got[c] \o Tail(q)) + 1 = Len(got[c] \o q)
            /\ \A i \in DOMAIN (got[c] \o Tail(q)) :
                  (got[c] \o Tail(q))[i] =
                     (got[c] \o q)[IF i < Len(got[c]) + 1 THEN i ELSE i + 1]
        BY <1>b, <2>1, <4>1, HeadMoves
      <4>3. /\ Len(Stream(c)') + 1 = Len(Stream(c))
            /\ \A i \in DOMAIN Stream(c)' :
                  Stream(c)'[i] =
                     Stream(c)[IF i < Len(got[c]) + 1 THEN i ELSE i + 1]
        BY <3>2, <4>1, <4>2
      <4> QED BY <3>1, <3>2, <4>3 DEF Dropped
    <3> QED BY <1>d, <3>3
  <2> QED BY <2>2, <2>3
<1> QED BY <1>d, <1>1, <1>2, <1>3, <1>4, <1>5, <1>6, <1>7, <1>8, <1>9,
           ClientMoves DEF Acts

-----------------------------------------------------------------------------
(* The event stream of the control clients.                                 *)

\* Line n is on disk and nobody is about to fan it out.
Past(n) == n \in 1..Len(log) /\ \A t \in Threads : fan[t] /= n

PastNext(n) == n \in 1..Len(log') /\ \A t \in Threads : fan'[t] /= n

OneFan == \A t, u \in Threads : fan[t] = fan[u] /\ fan[t] /= 0 => t = u

\* FannedOnce for one client, and ControlSeesLog for one client.
Sound(c) ==
    \A i \in DOMAIN Stream(c) :
        Stream(c)[i][1] = "event" =>
            /\ Past(Stream(c)[i][2])
            /\ \A j \in DOMAIN Stream(c) : Stream(c)[i] = Stream(c)[j] => i = j
Told(c) ==
    c \in clients /\ sock[c] = "open" =>
        \A n \in (joined[c].logged + 1)..Len(log) :
            Copies(c, n) = {} => \E t \in Threads : fan[t] = n

\* A line stays on disk, and fanned out; a line fanned out is past.
LEMMA LinesStep ==
    ASSUME TypeOK, OneFan, [Next]_vars
    PROVE  /\ OneFan'
           /\ \A n : Past(n) => PastNext(n)
           /\ \A n \in Nat, t \in Threads : fan_out(t) /\ fan[t] = n => PastNext(n)
           /\ \A n \in Nat, t \in Threads : n /= 0 /\ fan[t] = n =>
                 (\E u \in Threads : fan'[u] = n) \/ fan_out(t)
           /\ \/ Len(log') = Len(log)
              \/ /\ Len(log') = Len(log) + 1
                 /\ \E t \in Threads : fan'[t] = Len(log')
<1>a. LogTypes
  BY DEF TypeOK
<1>b. Len(log) \in Nat /\ \A t \in Threads : fan[t] \in 0..Len(log)
  BY <1>a DEF LogTypes
<1>1. ASSUME NEW t \in Threads, append(t)
      PROVE  /\ OneFan' /\ \A n : Past(n) => PastNext(n)
             /\ \A u \in Threads : ~fan_out(u)
             /\ \A n \in Nat, u \in Threads : n /= 0 /\ fan[u] = n =>
                   \E w \in Threads : fan'[w] = n
             /\ Len(log') = Len(log) + 1 /\ fan'[t] = Len(log')
  <2>1. /\ fan[t] = 0 /\ log' = Append(log, Head(todo[t]))
        /\ fan' = [fan EXCEPT ![t] = Len(log) + 1]
    BY <1>1 DEF append
  <2>2. Len(log') = Len(log) + 1
    BY <2>1, <1>a DEF LogTypes
  <2>3. /\ fan'[t] = Len(log) + 1
        /\ \A u \in Threads \ {t} : fan'[u] = fan[u]
    BY <2>1, <1>a DEF LogTypes
  <2>4. OneFan'
    BY <2>3, <1>b DEF OneFan
  <2>5. \A n : Past(n) => PastNext(n)
    BY <2>2, <2>3, <1>b DEF Past, PastNext
  <2>6. \A u \in Threads : ~fan_out(u)
    BY <2>2, <1>b DEF fan_out
  <2>7. \A n \in Nat, u \in Threads : n /= 0 /\ fan[u] = n =>
            \E w \in Threads : fan'[w] = n
    BY <2>1, <2>3
  <2> QED BY <2>2, <2>3, <2>4, <2>5, <2>6, <2>7
<1>2. ASSUME NEW t \in Threads, fan_out(t)
      PROVE  /\ OneFan' /\ \A n : Past(n) => PastNext(n)
             /\ \A n \in Nat, u \in Threads : fan_out(u) /\ fan[u] = n => PastNext(n)
             /\ \A n \in Nat, u \in Threads : n /= 0 /\ fan[u] = n =>
                   (\E w \in Threads : fan'[w] = n) \/ fan_out(u)
             /\ Len(log') = Len(log)
  <2>0. ASSUME NEW u \in Threads, fan_out(u)
        PROVE  /\ fan[u] /= 0 /\ log' = log /\ fan'[u] = 0
               /\ \A w \in Threads \ {u} : fan'[w] = fan[w]
    BY <2>0, <1>a DEF fan_out, LogTypes
  <2>1. /\ fan[t] /= 0 /\ log' = log /\ fan'[t] = 0
        /\ \A w \in Threads \ {t} : fan'[w] = fan[w]
    BY <1>2, <2>0
  <2>2. OneFan'
    BY <2>1 DEF OneFan
  <2>3. \A n : Past(n) => PastNext(n)
    BY <2>1, <1>b DEF Past, PastNext
  <2>4. ASSUME NEW n \in Nat, NEW u \in Threads, fan_out(u), fan[u] = n
        PROVE  PastNext(n)
    <3>1. /\ n /= 0 /\ fan'[u] = 0 /\ log' = log
          /\ \A w \in Threads \ {u} : fan'[w] = fan[w]
      BY <2>0, <2>4
    <3>2. \A w \in Threads : fan'[w] /= n
      BY <2>4, <3>1 DEF OneFan
    <3>3. n \in 1..Len(log')
      BY <2>4, <3>1, <1>b
    <3> QED BY <3>2, <3>3 DEF Past, PastNext
  <2> QED BY <1>2, <2>1, <2>2, <2>3, <2>4
<1>3. ASSUME UNCHANGED <<log, fan>>
      PROVE  /\ OneFan' /\ \A n : Past(n) => PastNext(n)
             /\ \A u \in Threads : ~fan_out(u)
             /\ Len(log') = Len(log) /\ fan' = fan
  BY <1>3, <1>a DEF OneFan, Past, PastNext, fan_out, LogTypes
<1>4. \/ \E t \in Threads : append(t) \/ fan_out(t)
      \/ UNCHANGED <<log, fan>>
  BY DEF Next, Log, Client, Pump, accept, client_reject, client_hello,
     client_replay, client_size, client_register, client_resize, client_stop,
     request_stop, client_status, client_leave, peer_closes, writer_loop,
     serve_read, broadcast_screen, broadcast_clients, serve_ends,
     begin_teardown, settle, finish_flush, finish_exit, finish_close,
     finish_unlink, finish_drain, stop_record, stop_spawn_ladder,
     signal_waiter, climb, harness_exits, filter_denies, filter_ends, Gone,
     vars, logVars
<1> QED BY <1>1, <1>2, <1>3, <1>4

\* No client is sent a line twice, or before it is on disk.
LEMMA SoundStep ==
    ASSUME TypeOK, OneFan, [Next]_vars, NEW c \in Clients, ClientInStep(c),
           Sound(c)
    PROVE  Sound(c)'
<1> DEFINE Fine(z) == \A i \in DOMAIN z : z[i][1] = "event" =>
                          /\ PastNext(z[i][2])
                          /\ \A j \in DOMAIN z : z[i] = z[j] => i = j
<1>a. Stream(c) \in Seq(Wire) /\ Stream(c)' \in Seq(Wire)
  BY StreamMoves
<1>b. \A n : Past(n) => PastNext(n)
  BY LinesStep
<1>c. \A i \in DOMAIN Stream(c) : Stream(c)[i][1] = "event" =>
          /\ Past(Stream(c)[i][2])
          /\ \A j \in DOMAIN Stream(c) : Stream(c)[i] = Stream(c)[j] => i = j
  BY DEF Sound
<1>d. Fine(Stream(c)') => Sound(c)'
  BY DEF Sound, Past, PastNext
<1> SUFFICES Fine(Stream(c)')
  BY <1>d
<1>0. PICK s : s = Stream(c)
  OBVIOUS
<1>e. /\ s \in Seq(Wire)
      /\ \A i \in DOMAIN s : s[i][1] = "event" =>
            /\ Past(s[i][2])
            /\ \A j \in DOMAIN s : s[i] = s[j] => i = j
  BY <1>a, <1>c, <1>0
<1>1. Fine(s)
  BY <1>b, <1>e
<1>2. ASSUME NEW t \in Threads, fan_out(t)
      PROVE  Fine(Append(s, <<"event", fan[t]>>))
  <2>1. PICK f : f = <<"event", fan[t]>>
    OBVIOUS
  <2>2. f[2] = fan[t] /\ fan[t] \in Nat /\ f \in Wire
    BY <2>1 DEF TypeOK, LogTypes, Wire, Frames
  <2>3. PastNext(f[2]) /\ ~Past(f[2])
    BY <1>2, <2>2, LinesStep DEF Past
  <2>4. \A i \in DOMAIN s : s[i] /= f
    BY <1>e, <2>1, <2>3
  <2> QED BY <1>e, <1>1, <2>1, <2>2, <2>3, <2>4
<1>3. ASSUME NEW f \in Wire, f[1] /= "event"
      PROVE  Fine(Append(s, f))
  BY <1>e, <1>1, <1>3
<1>4. ASSUME NEW z \in Seq(Wire), NEW k \in Nat, Len(z) + 1 = Len(s),
             \A i \in DOMAIN z : z[i] = s[IF i < k THEN i ELSE i + 1]
      PROVE  Fine(z)
  <2>1. \A i \in DOMAIN z : (IF i < k THEN i ELSE i + 1) \in DOMAIN s
    BY <1>e, <1>4
  <2>2. \A i, j \in DOMAIN z :
            (IF i < k THEN i ELSE i + 1) = (IF j < k THEN j ELSE j + 1) => i = j
    BY <1>4
  <2>3. ASSUME NEW i \in DOMAIN z, z[i][1] = "event"
        PROVE  PastNext(z[i][2]) /\ \A j \in DOMAIN z : z[i] = z[j] => i = j
    <3> DEFINE up(m) == IF m < k THEN m ELSE m + 1
    <3>1. /\ up(i) \in DOMAIN s /\ z[i] = s[up(i)]
          /\ \A j \in DOMAIN z : up(j) \in DOMAIN s /\ z[j] = s[up(j)]
          /\ \A j \in DOMAIN z : up(i) = up(j) => i = j
      BY <1>4, <2>1, <2>2
    <3> HIDE DEF up
    <3> QED BY <1>1, <2>3, <3>1
  <2> QED BY <2>3
<1>5. ASSUME \A i \in DOMAIN Stream(c)' : Stream(c)'[i][1] /= "event"
      PROVE  Fine(Stream(c)')
  BY <1>5
<1>6. ASSUME Dropped(c)
      PROVE  Fine(Stream(c)')
  <2>1. PICK k \in Nat : \A i \in DOMAIN Stream(c)' :
            Stream(c)'[i] = Stream(c)[IF i < k THEN i ELSE i + 1]
    BY <1>6 DEF Dropped
  <2>2. Len(Stream(c)') + 1 = Len(Stream(c))
    BY <1>6 DEF Dropped
  <2> HIDE DEF Fine
  <2> QED BY <1>a, <1>0, <1>4, <2>1, <2>2
<1> HIDE DEF Fine
<1> QED BY <1>0, <1>1, <1>2, <1>3, <1>5, <1>6, StreamMoves

\* A control client misses no line from the one after it registered.
LEMMA ToldStep ==
    ASSUME TypeOK, OneFan, [Next]_vars, NEW c \in Controls, ClientInStep(c),
           Told(c)
    PROVE  Told(c)'
<1> DEFINE Due(logged, s) ==
               \A n \in (logged + 1)..Len(log') :
                   (\A i \in DOMAIN s : s[i] /= <<"event", n>>) =>
                       \E t \in Threads : fan'[t] = n
<1>a. /\ c \in Clients /\ c \notin Terminals
      /\ ConnTypes /\ ReaderTypes /\ LogTypes
  BY SupervisorAssumption DEF SupervisorAssumption, Clients, TypeOK
<1>b. Stream(c) \in Seq(Wire) /\ Stream(c)' \in Seq(Wire)
  BY <1>a, StreamMoves
<1>c. c \in clients /\ sock[c] = "open" =>
          \A n \in (joined[c].logged + 1)..Len(log) :
              (\A i \in DOMAIN Stream(c) : Stream(c)[i] /= <<"event", n>>) =>
                  \E t \in Threads : fan[t] = n
  BY DEF Told, Copies
<1>d. Due(joined'[c].logged, Stream(c)') => Told(c)'
  BY DEF Told, Copies
<1>e. joined[c].logged \in Nat /\ Len(log) \in Nat
  BY <1>a DEF ReaderTypes, LogTypes
<1> SUFFICES ASSUME c \in clients', sock'[c] = "open"
             PROVE  Due(joined'[c].logged, Stream(c)')
  BY <1>d DEF Told
<1>1. ASSUME c \in clients, sock[c] = "open", joined'[c] = joined[c],
             NEW f \in Wire,
             Stream(c)' = Stream(c) \/ Stream(c)' = Append(Stream(c), f),
             \A t \in Threads : fan_out(t) =>
                 Stream(c)' = Append(Stream(c), <<"event", fan[t]>>)
      PROVE  Due(joined'[c].logged, Stream(c)')
  <2> SUFFICES ASSUME NEW n \in (joined[c].logged + 1)..Len(log'),
                      \A i \in DOMAIN Stream(c)' :
                          Stream(c)'[i] /= <<"event", n>>
               PROVE  \E t \in Threads : fan'[t] = n
    BY <1>1
  <2>0. n \in Nat /\ n /= 0
    BY <1>e
  <2>1. \A i \in DOMAIN Stream(c) : Stream(c)[i] /= <<"event", n>>
    BY <1>b, <1>1
  <2>2. CASE n \in (joined[c].logged + 1)..Len(log)
    <3>1. PICK t \in Threads : fan[t] = n
      BY <1>1, <1>c, <2>1, <2>2
    <3>2. (\E u \in Threads : fan'[u] = n) \/ fan_out(t)
      BY <2>0, <3>1, LinesStep
    <3>3. ~fan_out(t)
      <4>1. SUFFICES ASSUME fan_out(t) PROVE FALSE
        OBVIOUS
      <4>2. Stream(c)' = Append(Stream(c), <<"event", n>>)
        BY <1>1, <3>1, <4>1
      <4>3. /\ Len(Stream(c)) + 1 \in DOMAIN Stream(c)'
            /\ Stream(c)'[Len(Stream(c)) + 1] = <<"event", n>>
        BY <1>b, <4>2
      <4> QED BY <4>3
    <3> QED BY <3>2, <3>3
  <2>3. CASE n \notin (joined[c].logged + 1)..Len(log)
    BY <2>3, <1>e, LinesStep
  <2> QED BY <2>2, <2>3
<1>2. \E f : f \in Wire
  BY FramesCount
<1>3. ASSUME Alone(c), \A t \in Threads : ~fan_out(t)
      PROVE  Due(joined'[c].logged, Stream(c)')
  <2>1. c \in clients /\ sock[c] = "open" /\ joined'[c] = joined[c]
    BY <1>3 DEF Alone
  <2>2. Stream(c)' = Stream(c)
    BY <1>3 DEF Alone, Stream
  <2> HIDE DEF Due
  <2> QED BY <1>1, <1>2, <1>3, <2>1, <2>2
<1>4. \A t, u \in Threads : /\ fan_out(t) /\ fan_out(u) => fan[t] = fan[u]
                            /\ fan_out(t) => ~append(u)
                            /\ fan_out(t) => log' = log /\ fan' /= fan
  <2>1. ASSUME NEW t \in Threads, fan_out(t)
        PROVE  fan[t] /= 0 /\ log' = log /\ fan' = [fan EXCEPT ![t] = 0]
    BY <2>1 DEF fan_out
  <2>2. ASSUME NEW u \in Threads, append(u)
        PROVE  log' /= log
    <3>1. Len(log') = Len(log) + 1
      BY <2>2, <1>a DEF append, LogTypes
    <3> QED BY <3>1, <1>e
  <2> QED BY <2>1, <2>2, <1>a DEF LogTypes
<1>5. ASSUME NEW t \in Threads, fan_out(t), Sent(c, <<"event", fan[t]>>)
      PROVE  Due(joined'[c].logged, Stream(c)')
  <2>1. c \in clients /\ sock[c] = "open" /\ joined'[c] = joined[c]
    BY <1>5 DEF Sent
  <2>2. <<"event", fan[t]>> \in Wire
    BY <1>a DEF LogTypes, Wire, Frames
  <2>3. Stream(c)' = Append(Stream(c), <<"event", fan[t]>>)
    BY <1>5, <2>2, <1>a, QueuedLast DEF Sent, Stream, ConnTypes
  <2> HIDE DEF Due
  <2> QED BY <1>1, <1>4, <1>5, <2>1, <2>2, <2>3
<1>6. ASSUME UNCHANGED <<log, fan>>
      PROVE  \A t \in Threads : ~fan_out(t)
  BY <1>6, <1>4
<1>7. CASE accept(c) \/ client_reject(c) \/ client_hello(c) \/ client_replay(c)
           \/ client_size(c)
  <2>1. c \notin clients
    BY <1>7 DEF accept, client_reject, client_hello, client_replay,
                client_size, Go, ClientInStep
  <2> QED BY <1>7, <2>1 DEF accept, client_reject, client_hello,
                client_replay, client_size, connVars
<1>8. CASE client_register(c)
  <2>1. log' = log /\ joined'[c].logged = Len(log)
    BY <1>8, <1>a DEF client_register, ReaderTypes
  <2> QED BY <2>1, <1>e
<1>9. CASE client_status(c)
  <2>1. /\ c \in clients /\ sock[c] = "open" /\ joined' = joined
        /\ UNCHANGED <<log, fan>>
    BY <1>9 DEF client_status, logVars
  <2> DEFINE f == <<"status", 0>>
  <2>2. f \in Wire
    BY DEF Wire, Frames
  <2>3. /\ got'[c] = got[c]
        /\ chan'[c] = chan[c] \/ chan'[c] = Append(chan[c], f)
    BY <1>9, <1>a DEF client_status, ConnTypes
  <2> HIDE DEF f
  <2>4. Stream(c)' = Stream(c) \/ Stream(c)' = Append(Stream(c), f)
    <3>1. CASE chan'[c] = chan[c]
      BY <2>3, <3>1 DEF Stream
    <3>2. CASE chan'[c] = Append(chan[c], f)
      <4>1. chan[c] \in Seq(Wire) /\ got[c] \in Seq(Wire)
        BY <1>a DEF ConnTypes
      <4>2. got[c] \o Append(chan[c], f) = Append(got[c] \o chan[c], f)
        BY <2>2, <4>1, QueuedLast
      <4> QED BY <2>3, <3>2, <4>2 DEF Stream
    <3> QED BY <2>3, <3>1, <3>2
  <2> HIDE DEF Due
  <2> QED BY <1>1, <1>6, <2>1, <2>2, <2>4
<1>10. CASE client_leave(c)
  BY <1>10 DEF client_leave
<1>11. CASE writer_loop(c)
  <2>1. /\ clients' = clients /\ joined' = joined /\ UNCHANGED <<log, fan>>
    BY <1>11 DEF writer_loop, logVars
  <2>2. /\ sock[c] = "open" /\ Head(chan[c])[1] /= "end"
        /\ chan[c] /= <<>> /\ chan'[c] = Tail(chan[c])
        /\ got'[c] = Append(got[c], Head(chan[c]))
    BY <1>11, <1>a DEF writer_loop, ConnTypes
  <2>3. Stream(c)' = Stream(c)
    BY <2>2, <1>a, HeadMoves DEF Stream, ConnTypes
  <2> HIDE DEF Due
  <2> QED BY <1>1, <1>2, <1>6, <2>1, <2>2, <2>3
<1>12. ASSUME broadcast_clients
       PROVE  \A t \in Threads : ~fan_out(t)
  BY <1>6, <1>12 DEF broadcast_clients
<1>13. CASE Closed(c)
  BY <1>13 DEF Closed
<1> HIDE DEF Due
<1> QED BY <1>a, <1>3, <1>4, <1>5, <1>6, <1>7, <1>8, <1>9, <1>10, <1>11, <1>12,
           <1>13, ClientMoves DEF Acts

-----------------------------------------------------------------------------
(* The output of the terminals.                                             *)

\* ReplayedOnly and LiveOutputComplete for one terminal.
Ready(c) ==
    /\ sock[c] = "open" /\ pc[c] \in {"size", "register"} =>
           Len(Stream(c)) = joined[c].replay
    /\ c \in clients => joined[c].fanned <= Fanned
Whole(c) ==
    c \in clients /\ sock[c] = "open" =>
        /\ Len(Stream(c)) = joined[c].replay + (Fanned - joined[c].fanned)
        /\ \A i \in 1..(Fanned - joined[c].fanned) :
              Stream(c)[joined[c].replay + i] = <<"out", joined[c].fanned + i>>

\* A terminal that is kept misses no chunk.
LEMMA OutputStep ==
    ASSUME TypeOK, [Next]_vars, NEW c \in Terminals, ClientInStep(c),
           Ready(c), Whole(c)
    PROVE  Ready(c)' /\ Whole(c)'
<1>a. /\ c \in Clients /\ c \notin Controls
      /\ ConnTypes /\ ReaderTypes /\ LogTypes /\ ScreenTypes /\ PumpTypes
  BY SupervisorAssumption DEF SupervisorAssumption, Clients, TypeOK
<1>b. /\ Stream(c) \in Seq(Wire) /\ chan[c] \in Seq(Wire) /\ got[c] \in Seq(Wire)
      /\ joined[c].replay \in Nat /\ joined[c].fanned \in Nat /\ Fanned \in Nat
      /\ sock[c] \in {"open", "shut"}
  <2>1. Stream(c) \in Seq(Wire)
    BY <1>a, StreamMoves
  <2>2. Fanned \in Nat
    BY <1>a, SupervisorAssumption
       DEF ScreenTypes, PumpTypes, Fanned, SupervisorAssumption
  <2> QED BY <1>a, <2>1, <2>2 DEF ConnTypes, ReaderTypes
<1>1. ASSUME Stream(c)' = Stream(c), joined'[c] = joined[c], pc'[c] = pc[c],
             sock'[c] = "open" => sock[c] = "open",
             c \in clients' => c \in clients, Fanned' = Fanned \/ c \notin clients'
      PROVE  Ready(c)' /\ Whole(c)'
  BY <1>1 DEF Ready, Whole
<1>2. CASE Alone(c) /\ (Fanned' = Fanned \/ c \notin clients')
  <2>1. Stream(c)' = Stream(c)
    BY <1>2 DEF Alone, Stream
  <2> QED BY <1>1, <1>2, <2>1 DEF Alone
<1>3. CASE broadcast_clients /\ Sent(c, <<"out", produced>>)
  <2>1. produced \in Nat /\ Fanned = produced - 1 /\ Fanned' = produced
    BY <1>3, <1>a, SupervisorAssumption
       DEF broadcast_clients, Fanned, screenVars, ScreenTypes,
           SupervisorAssumption
  <2>2. /\ c \in clients /\ pc[c] = "serve" /\ pc'[c] = "serve"
        /\ joined'[c] = joined[c] /\ sock'[c] = sock[c]
    BY <1>3 DEF Sent, ClientInStep
  <2> DEFINE f == <<"out", produced>>
  <2>3. f \in Wire
    BY <2>1 DEF Wire, Frames
  <2>4. Stream(c)' = Append(Stream(c), f)
    BY <1>b, <1>3, <2>3, QueuedLast DEF Sent, Stream
  <2>5. Ready(c)'
    BY <1>b, <2>1, <2>2 DEF Ready
  <2>6. ASSUME sock[c] = "open"
        PROVE  /\ Len(Stream(c)') = joined[c].replay + (Fanned' - joined[c].fanned)
               /\ \A i \in 1..(Fanned' - joined[c].fanned) :
                     Stream(c)'[joined[c].replay + i] =
                         <<"out", joined[c].fanned + i>>
    <3>0. PICK r \in Nat, g \in Nat, k \in Nat, s \in Seq(Wire) :
              r = joined[c].replay /\ g = joined[c].fanned /\ k = Fanned /\ s = Stream(c)
      BY <1>b
    <3>1. /\ Len(s) = r + (k - g) /\ g <= k
          /\ \A i \in 1..(k - g) : s[r + i] = <<"out", g + i>>
      BY <2>2, <2>6, <3>0 DEF Whole, Ready
    <3>2. Stream(c)' = Append(s, f) /\ produced = k + 1 /\ Fanned' = k + 1
      BY <2>1, <2>4, <3>0
    <3>3. ASSUME NEW i \in 1..(k + 1 - g)
          PROVE  Append(s, f)[r + i] = <<"out", g + i>>
      <4>1. CASE i <= k - g
        <5>1. r + i \in 1..Len(s) /\ i \in 1..(k - g)
          BY <3>1, <4>1
        <5>2. Append(s, f)[r + i] = s[r + i]
          BY <2>3, <5>1
        <5> QED BY <3>1, <5>1, <5>2
      <4>2. CASE ~(i <= k - g)
        <5>1. i = k + 1 - g
          BY <3>1, <4>2
        <5>2. r + i = Len(s) + 1 /\ g + i = k + 1
          BY <3>1, <5>1
        <5>3. Append(s, f)[Len(s) + 1] = f
          BY <2>3
        <5> QED BY <3>2, <5>2, <5>3
      <4> QED BY <4>1, <4>2
    <3>4. Len(Append(s, f)) = r + (k + 1 - g)
      BY <2>3, <3>1
    <3> HIDE DEF f
    <3>5. joined[c].replay = r /\ joined[c].fanned = g
      BY <3>0
    <3>6. Fanned' = k + 1
      BY <3>2
    <3>8. Fanned' - joined[c].fanned = k + 1 - g
      BY <3>5, <3>6
    <3>9. Len(Stream(c)') = r + (k + 1 - g)
      BY <3>2, <3>4
    <3>7. ASSUME NEW i \in 1..(Fanned' - joined[c].fanned)
          PROVE  Stream(c)'[joined[c].replay + i] = <<"out", joined[c].fanned + i>>
      <4>1. i \in 1..(k + 1 - g)
        BY <3>7, <3>8
      <4> QED BY <3>0, <3>2, <3>3, <4>1
    <3> QED BY <3>5, <3>7, <3>8, <3>9
  <2>7. Whole(c)'
    BY <2>2, <2>6 DEF Whole
  <2> QED BY <2>5, <2>7
<1>4. CASE Closed(c)
  BY <1>4 DEF Closed, ClientInStep, Ready, Whole
<1>5. CASE accept(c) \/ client_reject(c) \/ client_hello(c)
  <2>1. c \notin clients' /\ pc'[c] \notin {"size", "register"}
    BY <1>5, <1>a DEF accept, client_reject, client_hello, Go, ClientInStep,
       ReaderTypes, connVars
  <2> QED BY <2>1 DEF Ready, Whole
<1>6. CASE client_replay(c)
  <2> DEFINE replay == IF alt THEN <<>> ELSE ring
             frames == [i \in DOMAIN replay |-> <<"out", replay[i]>>]
  <2>1. /\ chan[c] = <<>> /\ got[c] = <<>> /\ c \notin clients
        /\ clients' = clients
    BY <1>6 DEF client_replay, Go, ClientInStep
  <2>2. replay \in Seq(Nat)
    <3>1. <<>> \in Seq(Nat) /\ ring \in Seq(Nat)
      BY <1>a, SupervisorAssumption DEF ScreenTypes, SupervisorAssumption
    <3> QED BY <3>1
  <2>3. \/ /\ chan' = [chan EXCEPT ![c] = @ \o frames] /\ got' = got
           /\ joined' = [joined EXCEPT ![c].replay = Len(replay)]
        \/ pc' = [pc EXCEPT ![c] = "gone"]
    BY <1>6 DEF client_replay, Go
  <2> HIDE DEF replay
  <2>4. frames \in Seq(Wire) /\ Len(frames) = Len(replay)
    <3>1. \A i \in DOMAIN replay : <<"out", replay[i]>> \in Wire
      BY <2>2 DEF Wire, Frames
    <3> QED BY <2>2, <3>1
  <2> HIDE DEF frames
  <2>5. CASE /\ chan' = [chan EXCEPT ![c] = @ \o frames] /\ got' = got
             /\ joined' = [joined EXCEPT ![c].replay = Len(replay)]
    <3>1. <<>> \o (<<>> \o frames) = frames
      BY <2>4
    <3>2. Stream(c)' = frames
      BY <2>1, <2>5, <3>1, <1>a DEF Stream, ConnTypes
    <3>3. joined'[c].replay = Len(replay)
      BY <2>5, <1>a DEF ReaderTypes
    <3> QED BY <2>1, <2>4, <3>2, <3>3 DEF Ready, Whole
  <2>6. CASE pc' = [pc EXCEPT ![c] = "gone"]
    BY <2>1, <2>6, <1>a DEF Ready, Whole, ReaderTypes
  <2> QED BY <2>3, <2>5, <2>6
<1>7. CASE client_size(c)
  <2>1. /\ c \notin clients /\ clients' = clients /\ joined' = joined
        /\ pc[c] = "size" /\ sock' = sock /\ chan' = chan /\ got' = got
    BY <1>7 DEF client_size, Go, ClientInStep, connVars
  <2> QED BY <2>1 DEF Ready, Whole, Stream
<1>8. CASE client_register(c)
  <2>1. /\ pc[c] = "register" /\ sock' = sock /\ chan' = chan /\ got' = got
        /\ joined'[c].replay = joined[c].replay /\ joined'[c].fanned = Fanned
        /\ pc'[c] = "serve" /\ Fanned' = Fanned
    BY <1>8, <1>a DEF client_register, Go, ReaderTypes, pumpVars, screenVars,
       Fanned
  <2>2. Stream(c)' = Stream(c)
    BY <2>1 DEF Stream
  <2>3. sock[c] = "open" => Len(Stream(c)) = joined[c].replay
    BY <2>1 DEF Ready
  <2>4. Ready(c)'
    BY <1>b, <2>1 DEF Ready
  <2>5. Whole(c)'
    BY <1>b, <2>1, <2>2, <2>3 DEF Whole
  <2> QED BY <2>4, <2>5
<1>9. CASE client_status(c)
  BY <1>9, <1>a DEF client_status
<1>10. CASE client_leave(c)
  <2>1. c \notin clients' /\ pc'[c] = "gone"
    BY <1>10, <1>a DEF client_leave, Go, ReaderTypes
  <2> QED BY <2>1 DEF Ready, Whole
<1>11. CASE writer_loop(c)
  <2>1. /\ clients' = clients /\ joined' = joined /\ pc' = pc /\ Fanned' = Fanned
    BY <1>11 DEF writer_loop, pumpVars, screenVars, Fanned
  <2>2. sock'[c] = "open" => sock[c] = "open" /\ Stream(c)' = Stream(c)
    <3>1. SUFFICES ASSUME sock'[c] = "open"
                   PROVE  sock[c] = "open" /\ Stream(c)' = Stream(c)
      OBVIOUS
    <3>2. /\ sock[c] = "open" /\ Head(chan[c])[1] /= "end"
          /\ chan[c] /= <<>> /\ chan'[c] = Tail(chan[c])
          /\ got'[c] = Append(got[c], Head(chan[c]))
      BY <1>11, <3>1, <1>a DEF writer_loop, ConnTypes
    <3> QED BY <1>b, <3>2, HeadMoves DEF Stream
  <2> QED BY <2>1, <2>2 DEF Ready, Whole
<1>12. ASSUME NEW t \in Threads, fan_out(t)
       PROVE  Fanned' = Fanned
  BY <1>12 DEF fan_out, pumpVars, screenVars, Fanned
<1> QED BY <1>a, <1>2, <1>3, <1>4, <1>5, <1>6, <1>7, <1>8, <1>9, <1>10, <1>11,
           <1>12, ClientMoves DEF Acts

-----------------------------------------------------------------------------
(* Refusals on their way to the log.                                        *)

\* A thread that owes no refusal of a row.
LEMMA OwesNone ==
    ASSUME NEW q, NEW n, \A i \in DOMAIN q : q[i].kind /= "denied" \/ q[i].arg.name /= n
    PROVE  Owed(q, n) = 0 /\ Denials(q, n) = {}
BY DEF Owed, Denials

\* A thread that owes one.
LEMMA OwesOne ==
    ASSUME NEW q, NEW n, NEW i \in Denials(q, n),
           \A j \in Denials(q, n) : i = j
    PROVE  Owed(q, n) = q[i].arg.count
<1>1. (CHOOSE j \in Denials(q, n) : TRUE) = i
  <2>1. (CHOOSE j \in Denials(q, n) : TRUE) \in Denials(q, n)
    OBVIOUS
  <2> QED BY <2>1
<1> QED BY <1>1 DEF Owed

\* Plain lines owe nothing.
LEMMA PlainOwes ==
    ASSUME NEW q, \A i \in DOMAIN q : q[i].kind \in Plain
    PROVE  Once(q) /\ \A n \in Names : Owed(q, n) = 0
<1>1. \A n \in Names : Owed(q, n) = 0 /\ Denials(q, n) = {}
  BY OwesNone DEF Plain
<1> QED BY <1>1 DEF Once

\* An empty batch, and the last line.
LEMMA NothingOwed ==
    /\ Once(<<>>) /\ Once(LastLine)
    /\ \A n \in Names : Owed(<<>>, n) = 0 /\ Owed(LastLine, n) = 0
<1>1. \A i \in DOMAIN <<>> : <<>>[i].kind \in Plain
  OBVIOUS
<1>2. \A i \in DOMAIN LastLine : LastLine[i].kind = "exited"
  BY DEF LastLine, Event
<1>3. \A n \in Names : Owed(LastLine, n) = 0 /\ Denials(LastLine, n) = {}
  BY <1>2, OwesNone
<1> QED BY <1>1, <1>3, PlainOwes DEF Once

\* The head of the batch is logged.
LEMMA OwedTail ==
    ASSUME NEW q \in Seq(Lines), q /= <<>>, Once(q), NEW n \in Names,
           \A i \in DOMAIN q : q[i].kind = "denied" =>
               q[i].arg \in [name : Names, count : Nat]
    PROVE  /\ \A i, j \in Denials(Tail(q), n) : i = j
           /\ Owed(Tail(q), n) \in Nat
           /\ Owed(q, n) = Owed(Tail(q), n)
                + IF Head(q).kind = "denied" /\ Head(q).arg.name = n
                  THEN Head(q).arg.count ELSE 0
<1>1. /\ Tail(q) \in Seq(Lines) /\ Len(Tail(q)) = Len(q) - 1
      /\ \A i \in DOMAIN Tail(q) : /\ Tail(q)[i] = q[i + 1]
                                   /\ i + 1 \in DOMAIN q /\ i \in Nat
      /\ Head(q) = q[1] /\ 1 \in DOMAIN q
  OBVIOUS
<1>2. \A i, j \in Denials(q, n) : i = j
  BY DEF Once
<1>3. \A i \in Denials(Tail(q), n) : /\ i + 1 \in Denials(q, n) /\ i /= 0
                                     /\ i \in Nat /\ Tail(q)[i] = q[i + 1]
  BY <1>1 DEF Denials
<1>4. \A i, j \in Denials(Tail(q), n) : i = j
  BY <1>2, <1>3
<1>5. CASE Head(q).kind = "denied" /\ Head(q).arg.name = n
  <2>1. 1 \in Denials(q, n)
    BY <1>1, <1>5 DEF Denials
  <2>2. Denials(Tail(q), n) = {}
    BY <1>2, <1>3, <2>1
  <2>3. Owed(Tail(q), n) = 0
    BY <2>2 DEF Owed
  <2>4. Owed(q, n) = q[1].arg.count
    BY <1>2, <2>1, OwesOne
  <2>5. q[1].arg.count \in Nat
    BY <1>1, <1>5
  <2> QED BY <1>1, <1>4, <1>5, <2>3, <2>4, <2>5
<1>6. CASE ~(Head(q).kind = "denied" /\ Head(q).arg.name = n)
  <2>0. 1 \notin Denials(q, n)
    BY <1>1, <1>6 DEF Denials
  <2>1. CASE Denials(q, n) = {}
    <3>1. Denials(Tail(q), n) = {}
      BY <1>3, <2>1
    <3> QED BY <1>4, <1>6, <2>1, <3>1 DEF Owed
  <2>2. CASE Denials(q, n) /= {}
    <3>1. PICK i \in Denials(q, n) : TRUE
      BY <2>2
    <3>2. /\ i \in 2..Len(q) /\ q[i].kind = "denied" /\ q[i].arg.name = n
          /\ q[i].arg.count \in Nat
      BY <2>0, <3>1 DEF Denials
    <3>3. i - 1 \in DOMAIN Tail(q) /\ Tail(q)[i - 1] = q[i]
      BY <1>1, <3>2
    <3>4. i - 1 \in Denials(Tail(q), n)
      BY <3>2, <3>3 DEF Denials
    <3>5. Owed(Tail(q), n) = Tail(q)[i - 1].arg.count
      BY <1>4, <3>4, OwesOne
    <3>6. Owed(q, n) = q[i].arg.count
      BY <1>2, <3>1, OwesOne
    <3> QED BY <1>4, <1>6, <3>2, <3>3, <3>5, <3>6
  <2> QED BY <2>1, <2>2
<1> QED BY <1>5, <1>6

\* A single refusal.
LEMMA OneRefusal ==
    ASSUME NEW m \in Names, NEW k \in Nat, NEW q,
           q = << Event("denied", [name |-> m, count |-> k]) >>
    PROVE  /\ Once(q)
           /\ \A n \in Names : Owed(q, n) = IF n = m THEN k ELSE 0
           /\ \A i \in DOMAIN q : /\ q[i].kind = "denied" /\ q[i].arg.name = m
                                  /\ q[i].arg \in [name : Names, count : Nat]
<1> DEFINE e == Event("denied", [name |-> m, count |-> k])
<1>1. /\ e.kind = "denied" /\ e.arg.name = m /\ e.arg.count = k
      /\ e.arg \in [name : Names, count : Nat]
  BY DEF Event
<1>2. DOMAIN q = {1} /\ q[1] = e
  OBVIOUS
<1> HIDE DEF e
<1>3. \A n \in Names : Denials(q, n) = IF n = m THEN {1} ELSE {}
  BY <1>1, <1>2 DEF Denials
<1>4. Owed(q, m) = k
  BY <1>1, <1>2, <1>3, OwesOne
<1>5. \A n \in Names : n /= m => Owed(q, n) = 0
  BY <1>3 DEF Owed
<1> QED BY <1>1, <1>2, <1>3, <1>4, <1>5 DEF Once

\* The flushed batch.
LEMMA FlushOwes ==
    ASSUME TallyTypes, NEW q,
           q = SetToSeq({Event("denied", [name |-> n, count |-> tally[n]])
                            : n \in Pending})
    PROVE  /\ Once(q)
           /\ \A n \in Names : Owed(q, n) = Folded(n)
           /\ \A i \in DOMAIN q : /\ q[i].kind = "denied"
                                  /\ q[i].arg \in [name : Names, count : Nat]
<1> DEFINE D(n) == Event("denied", [name |-> n, count |-> tally[n]])
<1>1. /\ Pending \in SUBSET Names /\ tally \in [Names -> Int]
      /\ \A n \in Pending : tally[n] \in Nat
  BY DEF Pending, TallyTypes
<1>2. /\ \A i \in DOMAIN q : \E n \in Pending : q[i] = D(n)
      /\ \A n \in Pending : \E i \in DOMAIN q : q[i] = D(n)
      /\ \A i, j \in DOMAIN q : q[i] = q[j] => i = j
  <2>1. PICK f \in [Names -> Int], S \in SUBSET Names : f = tally /\ S = Pending
    BY <1>1
  <2>2. /\ \A n \in S : f[n] \in Nat
        /\ q = SetToSeq({Event("denied", [name |-> n, count |-> f[n]]) : n \in S})
    BY <1>1, <2>1
  <2>3. /\ \A i \in DOMAIN q : \E n \in S :
              q[i] = Event("denied", [name |-> n, count |-> f[n]])
        /\ \A n \in S : \E i \in DOMAIN q :
              q[i] = Event("denied", [name |-> n, count |-> f[n]])
        /\ \A i, j \in DOMAIN q : q[i] = q[j] => i = j
    BY <2>2, Refusals
  <2> QED BY <2>1, <2>3, Zenon
<1>3. \A n \in Pending : /\ D(n).kind = "denied" /\ D(n).arg.name = n
                         /\ D(n).arg.count = tally[n]
                         /\ D(n).arg \in [name : Names, count : Nat]
  BY <1>1 DEF Event
<1> HIDE DEF D
<1>4. ASSUME NEW n \in Names
      PROVE  (\A i, j \in Denials(q, n) : i = j) /\ Owed(q, n) = Folded(n)
  <2>1. \A i \in Denials(q, n) : n \in Pending /\ q[i] = D(n) /\ i \in DOMAIN q
    BY <1>2, <1>3 DEF Denials
  <2>2. \A i, j \in Denials(q, n) : i = j
    BY <1>2, <2>1
  <2>3. CASE n \in Pending
    <3>1. PICK i \in DOMAIN q : q[i] = D(n)
      BY <1>2, <2>3
    <3>2. i \in Denials(q, n)
      BY <1>3, <2>3, <3>1 DEF Denials
    <3>3. Owed(q, n) = tally[n]
      BY <1>3, <2>2, <2>3, <3>1, <3>2, OwesOne
    <3> QED BY <2>2, <2>3, <3>3 DEF Folded, Pending
  <2>4. CASE n \notin Pending
    <3>1. Owed(q, n) = 0
      BY <2>1, <2>4 DEF Owed
    <3> QED BY <2>2, <2>4, <3>1 DEF Folded, Pending
  <2> QED BY <2>3, <2>4
<1>5. Once(q)
  BY <1>4 DEF Once
<1>6. \A n \in Names : Owed(q, n) = Folded(n)
  BY <1>4
<1>7. \A i \in DOMAIN q : /\ q[i].kind = "denied"
                         /\ q[i].arg \in [name : Names, count : Nat]
  BY <1>2, <1>3
<1> QED BY <1>5, <1>6, <1>7

\* A batch of the supervisor's threads owes a number of refusals.
LEMMA OwedNat ==
    ASSUME NEW t, NEW q, LinesOf(t, q), NEW n \in Names
    PROVE  /\ Owed(q, n) \in Nat
           /\ \A i \in DOMAIN q : q[i].kind = "denied" =>
                  q[i].arg \in [name : Names, count : Nat]
<1>1. \A i \in DOMAIN LastLine : LastLine[i].kind = "exited"
  BY DEF LastLine, Event
<1>2. \A i \in DOMAIN q : q[i].kind = "denied" =>
          q[i].arg \in [name : Names, count : Nat]
  BY <1>1 DEF LinesOf, Plain
<1>3. CASE Denials(q, n) = {}
  BY <1>2, <1>3 DEF Owed
<1>4. CASE Denials(q, n) /= {}
  <2>1. (CHOOSE i \in Denials(q, n) : TRUE) \in Denials(q, n)
    BY <1>4
  <2>2. PICK i \in Denials(q, n) : i = CHOOSE j \in Denials(q, n) : TRUE
    BY <2>1
  <2>3. Owed(q, n) = q[i].arg.count
    BY <1>4, <2>2 DEF Owed
  <2>4. q[i].arg \in [name : Names, count : Nat]
    BY <1>2, <2>2 DEF Denials
  <2> QED BY <1>2, <2>3, <2>4
<1> QED BY <1>3, <1>4

\* The next line of a batch.
LEMMA FirstLine ==
    ASSUME NEW t \in Threads, NEW q \in Seq(Lines), q /= <<>>, LinesOf(t, q)
    PROVE  /\ Head(q).kind \in Plain \cup {"denied", "exited"}
           /\ Head(q).kind = "denied" =>
                  Head(q).arg \in [name : Names, count : Nat]
           /\ Head(q).kind = "exited" =>
                  t = "pump" /\ pump = "close" /\ q = LastLine
           /\ Head(q).kind = "denied" => t \in {"pump", "filter"}
           /\ Tail(q) \in Seq(Lines)
           /\ LinesOf(t, Tail(q))
<1>1. /\ 1 \in DOMAIN q /\ Head(q) = q[1] /\ Tail(q) \in Seq(Lines)
      /\ \A i \in DOMAIN Tail(q) : i + 1 \in DOMAIN q /\ Tail(q)[i] = q[i + 1]
  OBVIOUS
<1>2. CASE t = "pump" /\ pump = "close" /\ q = LastLine
  <2>1. Tail(LastLine) = <<>> /\ Head(LastLine).kind = "exited"
    BY DEF LastLine, Event
  <2>2. \A i \in DOMAIN Tail(q) : FALSE
    BY <1>2, <2>1
  <2> QED BY <1>1, <1>2, <2>1, <2>2 DEF LinesOf
<1>3. CASE ~(t = "pump" /\ pump = "close" /\ q = LastLine)
  <2>1. \A i \in DOMAIN q :
          \/ q[i].kind \in Plain
          \/ /\ q[i].kind = "denied" /\ q[i].arg \in [name : Names, count : Nat]
             /\ \/ t = "pump"
                \/ t = "filter" /\ q[i].arg.name = Syscall
    BY <1>3 DEF LinesOf
  <2>2. LinesOf(t, Tail(q))
    BY <1>1, <2>1 DEF LinesOf
  <2>3. /\ Head(q).kind \in Plain \cup {"denied"}
        /\ Head(q).kind = "denied" =>
             Head(q).arg \in [name : Names, count : Nat] /\ t \in {"pump", "filter"}
    BY <1>1, <2>1 DEF Plain
  <2>4. Head(q).kind /= "exited"
    BY <2>3 DEF Plain
  <2> QED BY <1>1, <2>2, <2>3, <2>4
<1> QED BY <1>2, <1>3

\* What one more line does to a session that has started.
LEMMA Applied ==
    ASSUME NEW r \in Sessions, NEW e,
           e.kind \in Plain \cup {"denied", "exited"},
           e.kind = "denied" => e.arg \in [name : Names, count : Nat]
    PROVE  /\ apply_event(r, e) \in Sessions
           /\ r.state = "exited" => apply_event(r, e) = r
           /\ r.state /= "exited" =>
                /\ e.kind \in Plain =>
                     /\ apply_event(r, e).state /= "exited"
                     /\ apply_event(r, e).denied = r.denied
                /\ e.kind = "denied" =>
                     /\ apply_event(r, e).state /= "exited"
                     /\ \A n \in Names : apply_event(r, e).denied[n] =
                          r.denied[n] + IF n = e.arg.name THEN e.arg.count ELSE 0
                /\ e.kind = "exited" =>
                     /\ apply_event(r, e).state = "exited"
                     /\ apply_event(r, e).denied = r.denied
<1>1. CASE r.state = "exited"
  BY <1>1, ApplyTerminal DEF is_terminal
<1>2. CASE r.state /= "exited"
  <2>0. ~is_terminal(r.state) /\ r.state \in {"running", "stopping"}
    BY <1>2 DEF is_terminal, Sessions
  <2> DEFINE a == apply_event(r, e)
  <2>1. CASE e.kind = "resized"
    <3>1. a = r
      BY <2>0, <2>1, Zenon DEF apply_event
    <3> HIDE DEF a
    <3> QED BY <1>2, <2>1, <3>1 DEF a
  <2>2. CASE e.kind = "denied"
    <3>1. a = [r EXCEPT !.denied[e.arg.name] = r.denied[e.arg.name] + e.arg.count]
      BY <2>0, <2>2, Zenon DEF apply_event
    <3> HIDE DEF a
    <3>2. a.state = r.state /\ a \in Sessions
      BY <2>2, <3>1 DEF Sessions
    <3>3. \A n \in Names : a.denied[n] =
              r.denied[n] + IF n = e.arg.name THEN e.arg.count ELSE 0
      BY <2>2, <3>1 DEF Sessions
    <3> QED BY <1>2, <2>2, <3>2, <3>3 DEF a, Plain
  <2>3. CASE e.kind = "degraded"
    <3>1. a = [r EXCEPT !.degraded = TRUE]
      BY <2>0, <2>3, Zenon DEF apply_event
    <3> HIDE DEF a
    <3>2. a.state = r.state /\ a \in Sessions /\ a.denied = r.denied
      BY <3>1 DEF Sessions
    <3> QED BY <1>2, <2>3, <3>2 DEF a
  <2>4. CASE e.kind = "attached"
    <3>1. a = [r EXCEPT !.clients = r.clients + 1]
      BY <2>0, <2>4, Zenon DEF apply_event
    <3> HIDE DEF a
    <3>2. a.state = r.state /\ a \in Sessions /\ a.denied = r.denied
      BY <3>1 DEF Sessions
    <3> QED BY <1>2, <2>4, <3>2 DEF a
  <2>5. CASE e.kind = "detached"
    <3>1. a = [r EXCEPT !.clients = IF r.clients = 0 THEN 0 ELSE r.clients - 1]
      BY <2>0, <2>5, Zenon DEF apply_event
    <3> HIDE DEF a
    <3>2. a.state = r.state /\ a \in Sessions /\ a.denied = r.denied
      BY <3>1 DEF Sessions
    <3> QED BY <1>2, <2>5, <3>2 DEF a
  <2>6. CASE e.kind = "stop_requested"
    <3>1. a = [r EXCEPT !.state = IF is_live(r.state) THEN "stopping" ELSE r.state]
      BY <2>0, <2>6, Zenon DEF apply_event
    <3> HIDE DEF a
    <3>2. a.state = "stopping" /\ a \in Sessions /\ a.denied = r.denied
      BY <2>0, <3>1 DEF Sessions, is_live
    <3> QED BY <1>2, <2>6, <3>2 DEF a
  <2>7. CASE e.kind = "exited"
    <3>1. a = [r EXCEPT !.state = "exited", !.code = NoLabel, !.clients = 0]
      BY <2>0, <2>7, Zenon DEF apply_event, Ended
    <3> HIDE DEF a
    <3>2. a.state = "exited" /\ a \in Sessions /\ a.denied = r.denied
      BY <3>1 DEF Sessions
    <3> QED BY <1>2, <2>7, <3>2 DEF a, Plain
  <2> QED BY <2>1, <2>2, <2>3, <2>4, <2>5, <2>6, <2>7 DEF Plain
<1> QED BY <1>1, <1>2

\* Everyone else's steps, as the refusals see them: at most some thread goes
\* on to log plain lines.
Elsewhere ==
    /\ UNCHANGED <<log, tally, recorded, filter, settled, pump>>
    /\ \/ todo' = todo
       \/ \E t \in Threads \ {"pump", "filter"}, q \in Seq(Lines) :
             /\ todo' = [todo EXCEPT ![t] = q]
             /\ \A i \in DOMAIN q : q[i].kind \in Plain

\* The steps that the refusals can tell apart.
LEMMA DenialMoves ==
    ASSUME TypeOK, [Next]_vars
    PROVE  \/ Elsewhere \/ \E t \in Threads : append(t)
           \/ filter_denies \/ filter_ends \/ Pump
<1>a. SessTypes /\ Clients \cap {"pump", "filter", "signals"} = {}
  BY SupervisorAssumption DEF TypeOK, SupervisorAssumption
<1>b. Clients \cup {"signals"} \subseteq Threads \ {"pump", "filter"}
  BY <1>a DEF Threads
<1>c. UNCHANGED <<logVars, tallyVars, pump>> => Elsewhere
  BY DEF Elsewhere, logVars, tallyVars
<1>d. ASSUME NEW t \in Clients \cup {"signals"}, NEW q \in Seq(Lines), LogNext(t, q),
             \A i \in DOMAIN q : q[i].kind \in Plain,
             UNCHANGED <<log, tally, recorded, filter, settled, pump>>
      PROVE  Elsewhere
  BY <1>b, <1>d DEF Elsewhere, LogNext
<1>e. \A k \in Kinds, a \in Terminals \cup {NoLabel} : \A i \in DOMAIN <<Event(k, a)>> :
          <<Event(k, a)>>[i].kind = k
  BY LineIs DEF Args
<1>f. /\ <<>> \in Seq(Lines) /\ \A i \in DOMAIN <<>> : <<>>[i].kind \in Plain
      /\ Plain \subseteq Kinds
  BY Singles DEF Plain, Kinds
<1>g. ASSUME NEW nudge \in BOOLEAN, NEW q \in Resizes(nudge)
      PROVE  q \in Seq(Lines) /\ \A i \in DOMAIN q : q[i].kind \in Plain
  <2>1. q \in Seq(Lines)
    BY Batch
  <2>2. PICK r \in Lines : r = Event("resized", NoLabel) /\ r.kind = "resized"
    BY LineIs DEF Kinds, Args
  <2>3. q \in {<<>>, <<r>>, <<r, r>>}
    BY <2>2 DEF Resizes
  <2> QED BY <2>1, <2>2, <2>3 DEF Plain
<1>1. ASSUME NEW t \in Threads, fan_out(t)
      PROVE  Elsewhere
  BY <1>1 DEF fan_out, Elsewhere, tallyVars, pumpVars
<1>2. ASSUME NEW c \in Clients, Client(c)
      PROVE  Elsewhere
  <2>1. CASE \/ accept(c) \/ client_reject(c) \/ client_hello(c) \/ client_replay(c)
             \/ client_status(c) \/ peer_closes(c) \/ writer_loop(c)
    BY <2>1, <1>c DEF accept, client_reject, client_hello, client_replay,
       client_status, peer_closes, writer_loop, pumpVars
  <2>2. CASE client_stop(c)
    BY <2>2, <1>c DEF client_stop, request_stop, pumpVars
  <2>3. CASE client_size(c)
    <3>1. PICK q \in Resizes(alt) : LogNext(c, q)
      BY <2>3 DEF client_size
    <3>2. alt \in BOOLEAN
      BY SupervisorAssumption DEF TypeOK, ScreenTypes, SupervisorAssumption
    <3>3. UNCHANGED <<log, tally, recorded, filter, settled, pump>>
      BY <2>3 DEF client_size, tallyVars, pumpVars
    <3> QED BY <1>d, <1>g, <3>1, <3>2, <3>3
  <2>4. CASE client_resize(c)
    <3>1. PICK q \in Resizes(FALSE) : LogNext(c, q)
      BY <2>4 DEF client_resize
    <3>3. UNCHANGED <<log, tally, recorded, filter, settled, pump>>
      BY <2>4 DEF client_resize, tallyVars, pumpVars
    <3> QED BY <1>d, <1>g, <3>1, <3>3
  <2>5. CASE client_register(c)
    <3>1. PICK q : q = (IF c \in Terminals THEN << Event("attached", c) >> ELSE <<>>)
                   /\ LogNext(c, q)
      BY <2>5 DEF client_register
    <3>2. q \in Seq(Lines) /\ \A i \in DOMAIN q : q[i].kind \in Plain
      BY <3>1, <1>e, <1>f, Batch DEF Plain, Kinds
    <3>3. UNCHANGED <<log, tally, recorded, filter, settled, pump>>
      BY <2>5 DEF client_register, tallyVars, pumpVars
    <3> QED BY <1>d, <3>1, <3>2, <3>3
  <2>6. CASE client_leave(c)
    <3>1. PICK q : q = (IF c \in clients \cap Terminals
                        THEN << Event("detached", c) >> ELSE <<>>)
                   /\ LogNext(c, q)
      BY <2>6 DEF client_leave
    <3>2. q \in Seq(Lines) /\ \A i \in DOMAIN q : q[i].kind \in Plain
      BY <3>1, <1>e, <1>f, Batch DEF Plain, Kinds
    <3>3. UNCHANGED <<log, tally, recorded, filter, settled, pump>>
      BY <2>6 DEF client_leave, tallyVars, pumpVars
    <3> QED BY <1>d, <3>1, <3>2, <3>3
  <2> QED BY <1>2, <2>1, <2>2, <2>3, <2>4, <2>5, <2>6 DEF Client
<1>3. ASSUME stop_record
      PROVE  Elsewhere
  <2>1. PICK q : q = << Event("stop_requested", NoLabel) >> /\ LogNext(stopper, q)
    BY <1>3 DEF stop_record
  <2>2. q \in Seq(Lines) /\ \A i \in DOMAIN q : q[i].kind \in Plain
    BY <2>1, <1>e, Batch DEF Plain, Kinds
  <2>3. stopper \in Clients \cup {"signals"}
    BY <1>3, <1>a DEF stop_record, SessTypes, Clients
  <2>4. UNCHANGED <<log, tally, recorded, filter, settled, pump>>
    BY <1>3 DEF stop_record, tallyVars, pumpVars
  <2> QED BY <1>d, <2>1, <2>2, <2>3, <2>4
<1>4. ASSUME \/ stop_spawn_ladder \/ signal_waiter \/ climb \/ harness_exits
             \/ Gone \/ UNCHANGED vars
      PROVE  Elsewhere
  BY <1>4, <1>c DEF stop_spawn_ladder, signal_waiter, request_stop, climb,
     harness_exits, Gone, vars, pumpVars
<1> QED BY <1>1, <1>2, <1>3, <1>4 DEF Next, Log

\* The log has not moved.
LEMMA SameMeaning ==
    ASSUME log' = log
    PROVE  L' = L /\ (ExitLogged' <=> ExitLogged)
BY DEF L, ExitLogged

\* One more line.
LEMMA LineAdded ==
    ASSUME LogTypes, Meaning, NEW e \in Lines, log' = Append(log, e),
           e.kind \in Plain \cup {"denied", "exited"},
           e.kind = "denied" => e.arg \in [name : Names, count : Nat]
    PROVE  /\ L' = apply_event(L, e) /\ L' \in Sessions
           /\ ExitLogged' <=> L'.state = "exited"
<1>1. L' = apply_event(L, e)
  BY FromLogAppend DEF L, LogTypes
<1>2. L \in Sessions
  BY DEF Meaning
<1>3. /\ log \in Seq(Lines) /\ DOMAIN log' = DOMAIN log \cup {Len(log) + 1}
      /\ log'[Len(log) + 1] = e /\ \A i \in DOMAIN log : log'[i] = log[i]
  BY DEF LogTypes
<1>4. ExitLogged' <=> ExitLogged \/ e.kind = "exited"
  BY <1>3 DEF ExitLogged
<1>5. ExitLogged <=> L.state = "exited"
  BY DEF Meaning
<1>6. L' \in Sessions
  BY <1>1, <1>2, Applied
<1>7. L'.state = "exited" <=> L.state = "exited" \/ e.kind = "exited"
  BY <1>1, <1>2, Applied DEF Plain
<1> QED BY <1>1, <1>4, <1>5, <1>6, <1>7

\* What each thread is about to log keeps its kinds.
LEMMA KindsStep ==
    ASSUME TypeOK, TodoKinds, Meaning, [Next]_vars
    PROVE  TodoKinds'
<1>a. /\ LogTypes /\ TallyTypes /\ todo \in [Threads -> Seq(Lines)]
      /\ {"pump", "filter"} \subseteq Threads
  BY DEF TypeOK, LogTypes, Threads
<1>b. ASSUME NEW t \in Threads, NEW q, LinesOf(t, q), pump' = pump
      PROVE  LinesOf(t, q)'
  BY <1>b DEF LinesOf
<1>c. ASSUME NEW t \in Threads, NEW q, \A i \in DOMAIN q : q[i].kind \in Plain
      PROVE  LinesOf(t, q)' /\ Once(q)
  BY <1>c, PlainOwes DEF LinesOf
<1>e. Once(<<>>) /\ \A i \in DOMAIN <<>> : <<>>[i].kind \in Plain
  BY NothingOwed
\* The batch of one thread changes, and the pump stays where it is.
<1>f. ASSUME NEW t \in Threads, NEW q \in Seq(Lines), todo' = [todo EXCEPT ![t] = q],
             LinesOf(t, q)', t \in {"pump", "filter"} => Once(q), pump' = pump,
             t = "pump" => pump \in {"read", "exit", "close"}
      PROVE  TodoKinds'
  <2>1. /\ \A u \in Threads : u /= t => todo'[u] = todo[u]
        /\ todo'[t] = q
    BY <1>f, <1>a
  <2>2. ASSUME NEW u \in Threads
        PROVE  LinesOf(u, todo[u])'
    <3>1. CASE u = t
      BY <1>f, <2>1, <3>1 DEF LinesOf
    <3>2. CASE u /= t
      BY <1>f, <2>1, <3>2 DEF LinesOf, TodoKinds
    <3> QED BY <3>1, <3>2
  <2>3. Once(todo'["filter"]) /\ Once(todo'["pump"])
    BY <1>a, <1>f, <2>1 DEF TodoKinds
  <2>4. (pump \notin {"read", "exit", "close"} => todo["pump"] = <<>>)'
    BY <1>a, <1>f, <2>1 DEF TodoKinds
  <2> QED BY <2>2, <2>3, <2>4 DEF TodoKinds
\* The pump moves on, and its batch is the new one or was done.
<1>g. ASSUME NEW q \in Seq(Lines), todo' = [todo EXCEPT !["pump"] = q], Once(q),
             LinesOf("pump", q)', pump' \in {"read", "exit", "close"} \/ q = <<>>
      PROVE  TodoKinds'
  <2>1. /\ \A u \in Threads : u /= "pump" => todo'[u] = todo[u]
        /\ todo'["pump"] = q
    BY <1>g, <1>a
  <2>2. ASSUME NEW u \in Threads
        PROVE  LinesOf(u, todo[u])'
    <3>1. CASE u = "pump"
      BY <1>g, <2>1, <3>1 DEF LinesOf
    <3>2. CASE u /= "pump"
      BY <1>g, <2>1, <3>2 DEF LinesOf, TodoKinds
    <3> QED BY <3>1, <3>2
  <2>3. Once(todo'["filter"]) /\ Once(todo'["pump"])
    BY <1>a, <1>g, <2>1 DEF TodoKinds
  <2>4. (pump \notin {"read", "exit", "close"} => todo["pump"] = <<>>)'
    BY <1>g, <2>1
  <2> QED BY <2>2, <2>3, <2>4 DEF TodoKinds
<1>h. ASSUME todo' = todo, todo["pump"] = <<>>
      PROVE  TodoKinds'
  <2>1. todo' = [todo EXCEPT !["pump"] = <<>>]
    BY <1>a, <1>h
  <2>2. LinesOf("pump", <<>>)'
    BY <1>a, <1>c, <1>e
  <2> QED BY <1>e, <1>g, <2>1, <2>2, Singles
<1>1. CASE Elsewhere
  <2>1. CASE todo' = todo
    BY <1>1, <2>1 DEF Elsewhere, TodoKinds, LinesOf
  <2>2. CASE todo' /= todo
    <3>1. PICK t \in Threads \ {"pump", "filter"}, q \in Seq(Lines) :
              /\ todo' = [todo EXCEPT ![t] = q]
              /\ \A i \in DOMAIN q : q[i].kind \in Plain
      BY <1>1, <2>2 DEF Elsewhere
    <3>2. LinesOf(t, q)' /\ pump' = pump
      BY <1>1, <1>c, <3>1 DEF Elsewhere
    <3> QED BY <1>f, <3>1, <3>2
  <2> QED BY <2>1, <2>2
<1>2. ASSUME NEW t \in Threads, append(t)
      PROVE  TodoKinds'
  <2>1. /\ todo' = [todo EXCEPT ![t] = Tail(todo[t])] /\ pump' = pump
        /\ todo[t] /= <<>> /\ todo[t] \in Seq(Lines) /\ LinesOf(t, todo[t])
    BY <1>2, <1>a DEF append, pumpVars, TodoKinds
  <2>2. Tail(todo[t]) \in Seq(Lines) /\ LinesOf(t, Tail(todo[t]))
    BY <2>1, FirstLine
  <2>4. PICK q \in Seq(Lines) : q = Tail(todo[t])
    BY <2>2
  <2>5. LinesOf(t, q)'
    BY <1>b, <2>1, <2>2, <2>4
  <2>6. t \in {"pump", "filter"} => Once(q)
    <3>1. ASSUME t \in {"pump", "filter"}
          PROVE  Once(q)
      <4>1. Once(todo[t])
        BY <3>1 DEF TodoKinds
      <4>2. \A n \in Names : \A i, j \in Denials(Tail(todo[t]), n) : i = j
        BY <2>1, <4>1, OwedTail, OwedNat
      <4> QED BY <2>4, <4>2 DEF Once
    <3> QED BY <3>1
  <2>7. t = "pump" => pump \in {"read", "exit", "close"}
    BY <2>1 DEF TodoKinds
  <2> QED BY <1>f, <2>1, <2>4, <2>5, <2>6, <2>7
\* Tally::record.
<1>r. ASSUME NEW t \in {"pump", "filter"}, NEW n \in Names, record_denial(t, n),
             t = "filter" => n = Syscall, pump' = pump, t = "pump" => pump = "read"
      PROVE  TodoKinds'
  <2>1. CASE todo' = todo
    BY <1>r, <2>1 DEF TodoKinds, LinesOf
  <2>2. CASE todo' /= todo
    <3>1. PICK k, q : /\ k = (IF tally[n] < 0 THEN 1 ELSE tally[n] + 1)
                      /\ q = << Event("denied", [name |-> n, count |-> k]) >>
                      /\ LogNext(t, q)
      BY <1>r, <2>2 DEF record_denial
    <3>2. k \in Nat
      BY <1>a, <3>1 DEF TallyTypes
    <3>3. /\ Once(q)
          /\ \A i \in DOMAIN q : /\ q[i].kind = "denied" /\ q[i].arg.name = n
                                 /\ q[i].arg \in [name : Names, count : Nat]
      BY <3>1, <3>2, OneRefusal
    <3>4. q \in Seq(Lines)
      <4>1. [name |-> n, count |-> k] \in Args
        BY <3>2 DEF Args
      <4>2. Event("denied", [name |-> n, count |-> k]) \in Lines
        BY <4>1, LineIs DEF Kinds
      <4> QED BY <3>1, <4>2, Singles
    <3>5. LinesOf(t, q)'
      BY <1>r, <3>3 DEF LinesOf
    <3> QED BY <1>a, <1>f, <1>r, <3>1, <3>3, <3>4, <3>5 DEF LogNext
  <2> QED BY <2>1, <2>2
<1>s. Syscall \in Names /\ Terminal \in Names
  BY SupervisorAssumption DEF SupervisorAssumption
<1>3. CASE filter_denies
  BY <1>3, <1>r, <1>s DEF filter_denies, pumpVars
<1>4. CASE filter_ends
  <2>1. CASE todo' = todo
    BY <1>4, <2>1 DEF filter_ends, pumpVars, TodoKinds, LinesOf
  <2>2. CASE todo' /= todo
    <3>1. PICK q : q = << Event("degraded", NoLabel) >> /\ LogNext("filter", q)
      BY <1>4, <2>2 DEF filter_ends
    <3>2. q \in Seq(Lines)
      BY <3>1, Batch DEF Kinds
    <3>3. \A i \in DOMAIN q : q[i].kind \in Plain
      BY <3>1 DEF Event, Plain
    <3>4. LinesOf("filter", q)' /\ Once(q)
      BY <1>a, <1>c, <3>3
    <3>5. pump' = pump
      BY <1>4 DEF filter_ends, pumpVars
    <3> QED BY <1>a, <1>f, <3>1, <3>2, <3>4, <3>5 DEF LogNext
  <2> QED BY <2>1, <2>2
<1>5. CASE serve_read
  <2>1. CASE UNCHANGED todo /\ todo["pump"] = <<>>
    BY <1>h, <2>1
  <2>2. CASE record_denial("pump", Terminal) /\ pump' = pump /\ pump = "read"
    BY <1>r, <1>s, <2>2
  <2> QED BY <1>5, <2>1, <2>2 DEF serve_read, Idle
<1>6. CASE \/ broadcast_screen \/ serve_ends \/ begin_teardown \/ settle
           \/ finish_close \/ finish_unlink \/ finish_drain
  <2>1. todo' = todo
    BY <1>6 DEF broadcast_screen, serve_ends, begin_teardown, settle,
       finish_close, finish_unlink, finish_drain, logVars
  <2>2. todo["pump"] = <<>>
    BY <1>6 DEF broadcast_screen, serve_ends, begin_teardown, settle,
       finish_close, finish_unlink, finish_drain, Idle, TodoKinds
  <2> QED BY <1>h, <2>1, <2>2
<1>7. CASE broadcast_clients
  <2>0. PICK S \in SUBSET Terminals :
            LogNext("pump", SetToSeq({Event("detached", c) : c \in S}))
    <3> DEFINE slow == {c \in clients \cap Terminals : ~Room(c)}
    <3>1. LogNext("pump", SetToSeq({Event("detached", c) : c \in slow}))
      BY <1>7 DEF broadcast_clients
    <3>2. slow \in SUBSET Terminals
      OBVIOUS
    <3> HIDE DEF slow
    <3> QED BY <3>1, <3>2
  <2>1. PICK q : q = SetToSeq({Event("detached", c) : c \in S}) /\ LogNext("pump", q)
    BY <2>0
  <2>2. q \in Seq(Lines) /\ \A i \in DOMAIN q : q[i].kind \in Plain
    BY <2>1, Detaches DEF Plain
  <2>3. LinesOf("pump", q)' /\ Once(q)
    BY <1>a, <1>c, <2>2
  <2>4. pump' = "read"
    BY <1>7 DEF broadcast_clients
  <2> QED BY <1>g, <2>1, <2>2, <2>3, <2>4 DEF LogNext
<1>8. CASE finish_flush
  <2>1. PICK q : /\ q = SetToSeq({Event("denied", [name |-> n, count |-> tally[n]])
                                     : n \in Pending})
                 /\ LogNext("pump", q)
    BY <1>8 DEF finish_flush
  <2>2. /\ Once(q)
        /\ \A i \in DOMAIN q : /\ q[i].kind = "denied"
                               /\ q[i].arg \in [name : Names, count : Nat]
    BY <1>a, <2>1, FlushOwes
  <2>3. q \in Seq(Lines)
    <3>1. PICK f \in [Names -> Int], S \in SUBSET Names : f = tally /\ S = Pending
      BY <1>a DEF TallyTypes, Pending
    <3>2. /\ \A n \in S : f[n] \in Nat
          /\ q = SetToSeq({Event("denied", [name |-> n, count |-> f[n]]) : n \in S})
      BY <1>a, <2>1, <3>1 DEF Pending, TallyTypes
    <3> QED BY <3>2, Refusals
  <2>4. LinesOf("pump", q)' /\ pump' = "exit"
    BY <1>8, <2>2 DEF LinesOf, finish_flush
  <2> QED BY <1>g, <2>1, <2>2, <2>3, <2>4 DEF LogNext
<1>9. CASE finish_exit
  <2>1. LogNext("pump", LastLine) /\ pump' = "close"
    BY <1>9 DEF finish_exit, LastLine
  <2>2. LastLine \in Seq(Lines) /\ Once(LastLine)
    BY Batch, NothingOwed DEF LastLine, Kinds
  <2>3. LinesOf("pump", LastLine)'
    BY <2>1 DEF LinesOf, LastLine
  <2> QED BY <1>g, <2>1, <2>2, <2>3 DEF LogNext
<1> QED BY <1>1, <1>2, <1>3, <1>4, <1>5, <1>6, <1>7, <1>8, <1>9, DenialMoves DEF Pump

\* The meaning of the log moves with its lines, and the exit is its last word.
LEMMA MeaningStep ==
    ASSUME TypeOK, TodoKinds, Meaning, [Next]_vars
    PROVE  Meaning'
<1>a. /\ LogTypes /\ todo \in [Threads -> Seq(Lines)] /\ "pump" \in Threads
      /\ L \in Sessions
  BY DEF TypeOK, LogTypes, Threads, Meaning
<1>b. ASSUME log' = log, pump' = pump,
             todo'["pump"] = todo["pump"] \/ pump \notin Quit
      PROVE  Meaning'
  BY <1>b, SameMeaning DEF Meaning
<1>c. ASSUME log' = log, L.state = "exited", pump' \in Quit
      PROVE  Meaning'
  BY <1>c, SameMeaning DEF Meaning
<1>d. ASSUME log' = log, pump \notin Quit, pump' \notin Quit
      PROVE  Meaning'
  BY <1>d, SameMeaning DEF Meaning
<1>1. CASE Elsewhere
  <2>1. log' = log /\ pump' = pump /\ todo'["pump"] = todo["pump"]
    BY <1>1, <1>a DEF Elsewhere
  <2> QED BY <1>b, <2>1
<1>2. ASSUME NEW t \in Threads, append(t)
      PROVE  Meaning'
  <2>1. /\ todo[t] \in Seq(Lines) /\ todo[t] /= <<>> /\ LinesOf(t, todo[t])
        /\ log' = Append(log, Head(todo[t])) /\ pump' = pump
        /\ todo' = [todo EXCEPT ![t] = Tail(todo[t])]
    BY <1>2, <1>a DEF append, pumpVars, TodoKinds
  <2>2. PICK e \in Lines : e = Head(todo[t])
    BY <2>1
  <2>3. /\ e.kind \in Plain \cup {"denied", "exited"}
        /\ e.kind = "denied" => e.arg \in [name : Names, count : Nat]
        /\ e.kind = "exited" => t = "pump" /\ pump = "close"
    BY <2>1, <2>2, FirstLine
  <2>4. /\ L' = apply_event(L, e) /\ L' \in Sessions
        /\ ExitLogged' <=> L'.state = "exited"
    BY <1>a, <2>1, <2>2, <2>3, LineAdded
  <2>5. CASE L.state = "exited"
    <3>1. L' = L
      BY <1>a, <2>3, <2>4, <2>5, Applied
    <3> QED BY <2>1, <2>4, <2>5, <3>1 DEF Meaning
  <2>6. CASE L.state /= "exited" /\ e.kind = "exited"
    <3>1. L'.state = "exited"
      BY <1>a, <2>3, <2>4, <2>6, Applied
    <3> QED BY <2>1, <2>3, <2>4, <2>6, <3>1 DEF Meaning, Quit
  <2>7. CASE L.state /= "exited" /\ e.kind /= "exited"
    <3>1. L'.state /= "exited"
      BY <1>a, <2>3, <2>4, <2>7, Applied
    <3>2. Head(LastLine).kind = "exited"
      BY DEF LastLine, Event
    <3>3. t = "pump" => pump \notin Quit
      BY <2>2, <2>7, <3>2 DEF Meaning
    <3>4. t /= "pump" => todo'["pump"] = todo["pump"]
      BY <1>a, <2>1
    <3> QED BY <2>1, <2>4, <2>7, <3>1, <3>3, <3>4 DEF Meaning
  <2> QED BY <2>5, <2>6, <2>7
<1>3. CASE filter_denies \/ filter_ends
  <2>1. log' = log /\ pump' = pump /\ todo'["pump"] = todo["pump"]
    BY <1>3, <1>a DEF filter_denies, filter_ends, record_denial, LogNext, pumpVars
  <2> QED BY <1>b, <2>1
<1>4. CASE \/ serve_read \/ broadcast_screen \/ broadcast_clients \/ serve_ends
           \/ begin_teardown \/ settle \/ finish_flush
  <2>1. log' = log /\ pump \notin Quit /\ pump' \notin Quit
    BY <1>4 DEF serve_read, broadcast_screen, broadcast_clients, serve_ends,
       begin_teardown, settle, finish_flush, logVars, Quit
  <2> QED BY <1>d, <2>1
<1>5. CASE finish_exit
  <2>1. /\ log' = log /\ pump \notin Quit /\ pump' = "close"
        /\ todo'["pump"] = LastLine
    BY <1>5, <1>a DEF finish_exit, Quit, LogNext, LastLine
  <2> QED BY <2>1, SameMeaning DEF Meaning, Quit
<1>6. CASE finish_close \/ finish_unlink \/ finish_drain
  <2>1. /\ log' = log /\ pump \in Quit /\ pump' \in Quit
        /\ pump /= "close" \/ todo["pump"] = <<>>
    BY <1>6 DEF finish_close, finish_unlink, finish_drain, logVars, Quit, Idle
  <2>2. LastLine /= <<>>
    BY DEF LastLine
  <2>3. L.state = "exited"
    BY <2>1, <2>2 DEF Meaning
  <2> QED BY <1>c, <2>1, <2>3
<1> QED BY <1>1, <1>2, <1>3, <1>4, <1>5, <1>6, DenialMoves DEF Pump

\* What finish flushed stays flushed.
LEMMA FlushedStep ==
    ASSUME TypeOK, TodoKinds, Flushed, [Next]_vars
    PROVE  Flushed'
<1>a. /\ LogTypes /\ TallyTypes /\ PumpTypes /\ todo \in [Threads -> Seq(Lines)]
      /\ {"pump", "filter"} \subseteq Threads
      /\ tally \in [Names -> Int] /\ settled \in BOOLEAN
  BY DEF TypeOK, LogTypes, TallyTypes, Threads
<1>b. ASSUME UNCHANGED <<tally, settled, filter, pump>>, todo'["filter"] = todo["filter"]
      PROVE  Flushed'
  BY <1>b DEF Flushed
<1>s. /\ Syscall \in Names /\ Terminal \in Names /\ Syscall /= Terminal
  BY SupervisorAssumption DEF SupervisorAssumption, Syscall, Terminal
<1>1. CASE Elsewhere
  BY <1>1, <1>a, <1>b DEF Elsewhere
<1>2. ASSUME NEW t \in Threads, append(t)
      PROVE  Flushed'
  <2>1. UNCHANGED <<tally, settled, filter, pump>>
    BY <1>2 DEF append, tallyVars, pumpVars
  <2>2. settled => t /= "filter"
    BY <1>2 DEF append, Flushed
  <2>3. t /= "filter" => todo'["filter"] = todo["filter"]
    BY <1>2, <1>a DEF append
  <2> QED BY <2>1, <2>2, <2>3 DEF Flushed
<1>3. CASE filter_denies
  <2>1. /\ ~settled /\ settled' = settled /\ pump' = pump
        /\ tally'[Terminal] = tally[Terminal]
    BY <1>3, <1>a, <1>s DEF filter_denies, record_denial, Flushed, pumpVars
  <2> QED BY <2>1 DEF Flushed
<1>4. CASE filter_ends
  <2>1. ~settled /\ settled' = settled /\ pump' = pump /\ tally' = tally
    BY <1>4 DEF filter_ends, Flushed, pumpVars
  <2> QED BY <2>1 DEF Flushed
<1>5. CASE \/ serve_read \/ broadcast_screen \/ broadcast_clients \/ serve_ends
           \/ begin_teardown
  <2>1. pump \notin {"flush", "exit"} \cup Quit /\ settled' = settled
    BY <1>5 DEF serve_read, broadcast_screen, broadcast_clients, serve_ends,
       begin_teardown, Quit, tallyVars
  <2>2. ~settled
    BY <2>1 DEF Flushed
  <2>3. pump' \notin {"flush", "exit"} \cup Quit
    BY <1>5 DEF serve_read, broadcast_screen, broadcast_clients, serve_ends,
       begin_teardown, Quit
  <2> QED BY <2>1, <2>2, <2>3 DEF Flushed
<1>6. CASE settle
  <2>1. /\ settled' = (filter = "ended" /\ Idle("filter")) /\ pump' = "flush"
        /\ filter' = filter /\ todo' = todo
    BY <1>6 DEF settle, logVars
  <2> QED BY <2>1 DEF Flushed, Idle, Quit
<1>7. CASE finish_flush
  <2>1. /\ settled' = settled /\ filter' = filter /\ pump' = "exit"
        /\ todo'["filter"] = todo["filter"]
        /\ \A n \in Names : tally'[n] <= 0
    BY <1>7, <1>a DEF finish_flush, LogNext, Pending
  <2> QED BY <1>s, <2>1 DEF Flushed, Quit
<1>8. CASE finish_exit
  <2>1. /\ UNCHANGED <<tally, settled, filter>> /\ pump = "exit" /\ pump' = "close"
        /\ todo'["filter"] = todo["filter"]
    BY <1>8, <1>a DEF finish_exit, LogNext, tallyVars
  <2> QED BY <2>1 DEF Flushed, Quit
<1>9. CASE finish_close \/ finish_unlink \/ finish_drain
  <2>1. /\ UNCHANGED <<tally, settled, filter, todo>>
        /\ pump \in Quit /\ pump' \in Quit /\ pump' /= "flush" /\ pump /= "flush"
    BY <1>9 DEF finish_close, finish_unlink, finish_drain, logVars, tallyVars, Quit
  <2> QED BY <2>1 DEF Flushed
<1> QED BY <1>1, <1>2, <1>3, <1>4, <1>5, <1>6, <1>7, <1>8, <1>9, DenialMoves DEF Pump

\* Tally::record folds a refusal or hands over everything folded.
LEMMA RecordKeeps ==
    ASSUME TallyTypes, LogTypes, NEW t \in {"pump", "filter"}, NEW m \in Names,
           todo[t] = <<>>, record_denial(t, m)
    PROVE  /\ \A u \in Threads : u /= t => todo'[u] = todo[u]
           /\ \A n \in Names : n /= m => /\ recorded'[n] = recorded[n]
                                         /\ tally'[n] = tally[n]
                                         /\ Owed(todo'[t], n) = 0
           /\ recorded'[m] = recorded[m] + 1
           /\ Owed(todo'[t], m) + Folded(m)' = Folded(m) + 1
           /\ Owed(todo'[t], m) \in Nat
<1>1. /\ tally \in [Names -> Int] /\ recorded \in [Names -> Int]
      /\ todo \in [Threads -> Seq(Lines)] /\ t \in Threads
  BY DEF TallyTypes, LogTypes, Threads
<1>2. \A n \in Names : n /= m => recorded'[n] = recorded[n] /\ tally'[n] = tally[n]
  BY <1>1 DEF record_denial
<1>3. recorded'[m] = recorded[m] + 1
  BY <1>1 DEF record_denial
<1>4. CASE tally[m] >= 0 /\ tally' = [tally EXCEPT ![m] = @ + 1] /\ todo' = todo
  <2>1. \A n \in Names : Owed(todo'[t], n) = 0
    BY <1>4, NothingOwed
  <2>2. Folded(m) = tally[m] /\ Folded(m)' = tally[m] + 1
    BY <1>1, <1>4 DEF Folded
  <2> QED BY <1>1, <1>2, <1>3, <1>4, <2>1, <2>2
<1>5. CASE /\ tally' = [tally EXCEPT ![m] = 0]
           /\ LogNext(t, << Event("denied", [name |-> m,
                  count |-> IF tally[m] < 0 THEN 1 ELSE tally[m] + 1]) >>)
  <2>1. PICK k : k = (IF tally[m] < 0 THEN 1 ELSE tally[m] + 1)
    OBVIOUS
  <2>2. k \in Nat /\ k = Folded(m) + 1 /\ Folded(m)' = 0
    BY <1>1, <1>5, <2>1 DEF Folded
  <2>3. PICK q : q = << Event("denied", [name |-> m, count |-> k]) >> /\ LogNext(t, q)
    BY <1>5, <2>1
  <2>4. \A n \in Names : Owed(q, n) = IF n = m THEN k ELSE 0
    BY <2>2, <2>3, OneRefusal
  <2>5. todo'[t] = q /\ \A u \in Threads : u /= t => todo'[u] = todo[u]
    BY <1>1, <2>3 DEF LogNext
  <2>6. Folded(m) \in Nat
    BY <1>1 DEF Folded
  <2> QED BY <1>2, <1>3, <2>2, <2>4, <2>5, <2>6
<1> QED BY <1>4, <1>5 DEF record_denial

\* Nothing is lost between the tally, the threads and the log.
LEMMA BalanceStep ==
    ASSUME TypeOK, TodoKinds, Meaning, Balance, [Next]_vars
    PROVE  Balance'
<1>a. /\ LogTypes /\ TallyTypes /\ todo \in [Threads -> Seq(Lines)]
      /\ {"pump", "filter"} \subseteq Threads /\ L \in Sessions
      /\ tally \in [Names -> Int] /\ recorded \in [Names -> Int]
  BY DEF TypeOK, LogTypes, TallyTypes, Threads, Meaning
<1>b. \A n \in Names : /\ Owed(todo["filter"], n) \in Nat
                       /\ Owed(todo["pump"], n) \in Nat
                       /\ Folded(n) \in Nat /\ L.denied[n] \in Nat
  BY <1>a, OwedNat DEF TodoKinds, Folded, Sessions
<1>s. /\ Syscall \in Names /\ Terminal \in Names /\ Syscall /= Terminal
  BY SupervisorAssumption DEF SupervisorAssumption, Syscall, Terminal
\* The tally stays, and each thread owes what it owed.
<1>c. ASSUME log' = log, UNCHANGED <<tally, recorded>>,
             \A n \in Names : /\ Owed(todo'["filter"], n) = Owed(todo["filter"], n)
                              /\ Owed(todo'["pump"], n) = Owed(todo["pump"], n)
      PROVE  Balance'
  <2>1. L' = L /\ \A n \in Names : Folded(n)' = Folded(n)
    BY <1>c, SameMeaning DEF Folded
  <2> QED BY <1>c, <2>1 DEF Balance
<1>d. ASSUME log' = log, UNCHANGED <<tally, recorded, todo>>
      PROVE  Balance'
  BY <1>c, <1>d
<1>1. CASE Elsewhere
  <2>1. todo'["filter"] = todo["filter"] /\ todo'["pump"] = todo["pump"]
    BY <1>1, <1>a DEF Elsewhere
  <2> QED BY <1>1, <1>c, <2>1 DEF Elsewhere
<1>2. ASSUME NEW t \in Threads, append(t)
      PROVE  Balance'
  <2>0. SUFFICES ASSUME L'.state /= "exited", NEW n \in Names
                 PROVE  recorded'[n] = L'.denied[n] + Owed(todo'["filter"], n)
                            + Owed(todo'["pump"], n) + Folded(n)'
    BY DEF Balance
  <2>1. /\ todo[t] \in Seq(Lines) /\ todo[t] /= <<>> /\ LinesOf(t, todo[t])
        /\ log' = Append(log, Head(todo[t])) /\ UNCHANGED <<tally, recorded>>
        /\ todo' = [todo EXCEPT ![t] = Tail(todo[t])]
    BY <1>2, <1>a DEF append, tallyVars, TodoKinds
  <2>2. PICK e \in Lines : e = Head(todo[t])
    BY <2>1
  <2>3. /\ e.kind \in Plain \cup {"denied", "exited"}
        /\ e.kind = "denied" => e.arg \in [name : Names, count : Nat]
        /\ e.kind = "denied" => t \in {"pump", "filter"}
    BY <2>1, <2>2, FirstLine
  <2>4. L' = apply_event(L, e)
    BY <1>a, <2>1, <2>2, <2>3, LineAdded
  <2>5. L.state /= "exited" /\ e.kind /= "exited"
    BY <1>a, <2>0, <2>3, <2>4, Applied
  <2>6. recorded[n] = L.denied[n] + Owed(todo["filter"], n)
                        + Owed(todo["pump"], n) + Folded(n)
    BY <2>5 DEF Balance
  <2>7. Folded(n)' = Folded(n) /\ recorded'[n] = recorded[n]
    BY <2>1 DEF Folded
  <2> DEFINE x == IF e.kind = "denied" /\ e.arg.name = n THEN e.arg.count ELSE 0
  <2>8. x \in Nat
    BY <2>3
  <2>9. L'.denied[n] = L.denied[n] + x
    <3>1. CASE e.kind = "denied"
      BY <1>a, <1>b, <2>3, <2>4, <2>5, <3>1, Applied
    <3>2. CASE e.kind /= "denied"
      <4>1. e.kind \in Plain
        BY <2>3, <2>5, <3>2
      <4>2. L'.denied = L.denied
        BY <1>a, <2>3, <2>4, <2>5, <4>1, Applied
      <4> QED BY <1>b, <3>2, <4>2
    <3> QED BY <3>1, <3>2
  <2>10. t \in {"pump", "filter"} =>
            /\ Owed(todo'[t], n) \in Nat
            /\ Owed(todo[t], n) = Owed(todo'[t], n) + x
    <3>1. SUFFICES ASSUME t \in {"pump", "filter"}
                   PROVE  /\ Owed(todo'[t], n) \in Nat
                          /\ Owed(todo[t], n) = Owed(todo'[t], n) + x
      OBVIOUS
    <3>2. Once(todo[t])
      BY <3>1 DEF TodoKinds
    <3>3. todo'[t] = Tail(todo[t])
      BY <1>a, <2>1
    <3>4. \A i \in DOMAIN todo[t] : todo[t][i].kind = "denied" =>
              todo[t][i].arg \in [name : Names, count : Nat]
      BY <2>1, OwedNat
    <3> QED BY <2>1, <2>2, <3>2, <3>3, <3>4, OwedTail
  <2>11. \A u \in Threads : u /= t => todo'[u] = todo[u]
    BY <1>a, <2>1
  <2> HIDE DEF x
  <2>12. CASE t = "pump"
    <3>1. todo'["filter"] = todo["filter"]
      BY <1>a, <2>11, <2>12
    <3>2. /\ Owed(todo'["pump"], n) \in Nat
          /\ Owed(todo["pump"], n) = Owed(todo'["pump"], n) + x
      BY <2>10, <2>12
    <3>3. L.denied[n] \in Nat /\ Owed(todo["filter"], n) \in Nat /\ Folded(n) \in Nat
      BY <1>b
    <3> QED BY <2>6, <2>7, <2>8, <2>9, <3>1, <3>2, <3>3
  <2>13. CASE t = "filter"
    <3>1. todo'["pump"] = todo["pump"]
      BY <1>a, <2>11, <2>13
    <3>2. /\ Owed(todo'["filter"], n) \in Nat
          /\ Owed(todo["filter"], n) = Owed(todo'["filter"], n) + x
      BY <2>10, <2>13
    <3>3. L.denied[n] \in Nat /\ Owed(todo["pump"], n) \in Nat /\ Folded(n) \in Nat
      BY <1>b
    <3> QED BY <2>6, <2>7, <2>8, <2>9, <3>1, <3>2, <3>3
  <2>14. CASE t \notin {"pump", "filter"}
    <3>1. x = 0
      BY <2>3, <2>14 DEF x
    <3> QED BY <1>a, <1>b, <2>6, <2>7, <2>9, <2>11, <2>14, <3>1
  <2> QED BY <2>12, <2>13, <2>14
<1>r. ASSUME NEW t \in {"pump", "filter"}, NEW m \in Names, todo[t] = <<>>,
             record_denial(t, m), log' = log
      PROVE  Balance'
  <2>1. L' = L
    BY <1>r, SameMeaning
  <2>2. SUFFICES ASSUME L.state /= "exited", NEW n \in Names
                 PROVE  recorded'[n] = L.denied[n] + Owed(todo'["filter"], n)
                            + Owed(todo'["pump"], n) + Folded(n)'
    BY <2>1 DEF Balance
  <2>3. recorded[n] = L.denied[n] + Owed(todo["filter"], n)
                        + Owed(todo["pump"], n) + Folded(n)
    BY <2>2 DEF Balance
  <2>4. Owed(todo[t], n) = 0
    BY <1>r, NothingOwed
  <2>5. \A u \in Threads : u /= t => todo'[u] = todo[u]
    BY <1>a, <1>r, RecordKeeps
  <2>6. CASE n /= m
    <3>1. /\ recorded'[n] = recorded[n] /\ tally'[n] = tally[n]
          /\ Owed(todo'[t], n) = 0
      BY <1>a, <1>r, <2>6, RecordKeeps
    <3>2. Folded(n)' = Folded(n)
      BY <3>1 DEF Folded
    <3> QED BY <1>a, <2>3, <2>4, <2>5, <3>1, <3>2
  <2>7. CASE n = m
    <3>1. /\ recorded'[n] = recorded[n] + 1
          /\ Owed(todo'[t], n) + Folded(n)' = Folded(n) + 1
          /\ Owed(todo'[t], n) \in Nat
      BY <1>a, <1>r, <2>7, RecordKeeps
    <3>2. tally' \in [Names -> Int]
      BY <1>a, <1>r DEF record_denial
    <3>3. Folded(n)' \in Nat
      BY <3>2 DEF Folded
    <3>4. CASE t = "pump"
      <4>1. todo'["filter"] = todo["filter"]
        BY <1>a, <2>5, <3>4
      <4>2. /\ Owed(todo'["pump"], n) \in Nat /\ Owed(todo["pump"], n) = 0
            /\ Owed(todo'["pump"], n) + Folded(n)' = Folded(n) + 1
        BY <2>4, <3>1, <3>4
      <4>3. L.denied[n] \in Nat /\ Owed(todo["filter"], n) \in Nat /\ Folded(n) \in Nat
        BY <1>b
      <4>4. recorded'[n] = recorded[n] + 1
        BY <3>1
      <4> QED BY <2>3, <3>3, <4>1, <4>2, <4>3, <4>4
    <3>5. CASE t = "filter"
      <4>1. todo'["pump"] = todo["pump"]
        BY <1>a, <2>5, <3>5
      <4>2. /\ Owed(todo'["filter"], n) \in Nat /\ Owed(todo["filter"], n) = 0
            /\ Owed(todo'["filter"], n) + Folded(n)' = Folded(n) + 1
        BY <2>4, <3>1, <3>5
      <4>3. L.denied[n] \in Nat /\ Owed(todo["pump"], n) \in Nat /\ Folded(n) \in Nat
        BY <1>b
      <4>4. recorded'[n] = recorded[n] + 1
        BY <3>1
      <4> QED BY <2>3, <3>3, <4>1, <4>2, <4>3, <4>4
    <3> QED BY <3>4, <3>5
  <2> QED BY <2>6, <2>7
<1>3. CASE filter_denies
  BY <1>3, <1>r, <1>s DEF filter_denies, Idle
<1>4. CASE filter_ends
  <2>1. CASE todo' = todo
    BY <1>4, <1>d, <2>1 DEF filter_ends
  <2>2. CASE todo' /= todo
    <3>1. PICK q : q = << Event("degraded", NoLabel) >> /\ LogNext("filter", q)
      BY <1>4, <2>2 DEF filter_ends
    <3>2. \A i \in DOMAIN q : q[i].kind \in Plain
      BY <3>1 DEF Event, Plain
    <3>3. \A n \in Names : Owed(q, n) = 0 /\ Owed(<<>>, n) = 0
      BY <3>2, PlainOwes, NothingOwed
    <3>4. /\ todo'["filter"] = q /\ todo'["pump"] = todo["pump"]
          /\ todo["filter"] = <<>> /\ log' = log /\ UNCHANGED <<tally, recorded>>
      BY <1>4, <1>a, <3>1 DEF filter_ends, Idle, LogNext
    <3> QED BY <1>c, <3>3, <3>4
  <2> QED BY <2>1, <2>2
<1>5. CASE serve_read
  <2>1. CASE UNCHANGED <<tally, recorded, todo>>
    BY <1>5, <1>d, <2>1 DEF serve_read
  <2>2. CASE record_denial("pump", Terminal)
    BY <1>5, <1>r, <1>s, <2>2 DEF serve_read, Idle
  <2> QED BY <1>5, <2>1, <2>2 DEF serve_read
<1>6. CASE \/ broadcast_screen \/ serve_ends \/ begin_teardown \/ settle
           \/ finish_close \/ finish_unlink \/ finish_drain
  BY <1>6, <1>d DEF broadcast_screen, serve_ends, begin_teardown, settle,
     finish_close, finish_unlink, finish_drain, logVars, tallyVars
\* The pump takes a batch up when it has none.
<1>e. ASSUME NEW q, LogNext("pump", q), todo["pump"] = <<>>, log' = log,
             UNCHANGED <<tally, recorded>>, \A n \in Names : Owed(q, n) = 0
      PROVE  Balance'
  <2>1. todo'["pump"] = q /\ todo'["filter"] = todo["filter"]
    BY <1>a, <1>e DEF LogNext
  <2> QED BY <1>c, <1>e, <2>1, NothingOwed
<1>7. CASE broadcast_clients
  <2>1. PICK S \in SUBSET Terminals :
            LogNext("pump", SetToSeq({Event("detached", c) : c \in S}))
    <3> DEFINE slow == {c \in clients \cap Terminals : ~Room(c)}
    <3>1. LogNext("pump", SetToSeq({Event("detached", c) : c \in slow}))
      BY <1>7 DEF broadcast_clients
    <3>2. slow \in SUBSET Terminals
      OBVIOUS
    <3> HIDE DEF slow
    <3> QED BY <3>1, <3>2
  <2>2. PICK q : q = SetToSeq({Event("detached", c) : c \in S}) /\ LogNext("pump", q)
    BY <2>1
  <2>3. \A i \in DOMAIN q : q[i].kind \in Plain
    BY <2>2, Detaches DEF Plain
  <2>4. \A n \in Names : Owed(q, n) = 0
    BY <2>3, PlainOwes
  <2>5. todo["pump"] = <<>> /\ log' = log /\ UNCHANGED <<tally, recorded>>
    BY <1>7 DEF broadcast_clients, TodoKinds, tallyVars
  <2> QED BY <1>e, <2>2, <2>4, <2>5
<1>8. CASE finish_flush
  <2>1. PICK q : /\ q = SetToSeq({Event("denied", [name |-> n, count |-> tally[n]])
                                     : n \in Pending})
                 /\ LogNext("pump", q)
    BY <1>8 DEF finish_flush
  <2>2. \A n \in Names : Owed(q, n) = Folded(n)
    BY <1>a, <2>1, FlushOwes
  <2>3. /\ todo'["pump"] = q /\ todo'["filter"] = todo["filter"]
        /\ todo["pump"] = <<>>
    BY <1>8, <1>a, <2>1 DEF finish_flush, LogNext, TodoKinds
  <2>4. L' = L /\ recorded' = recorded
    BY <1>8, SameMeaning DEF finish_flush
  <2>5. \A n \in Names : Folded(n)' = 0
    BY <1>8, <1>a DEF finish_flush, Folded, Pending
  <2>6. \A n \in Names : Owed(todo["pump"], n) = 0
    BY <2>3, NothingOwed
  <2> QED BY <1>b, <2>2, <2>3, <2>4, <2>5, <2>6 DEF Balance
<1>9. CASE finish_exit
  <2>1. /\ LogNext("pump", LastLine) /\ todo["pump"] = <<>> /\ log' = log
        /\ UNCHANGED <<tally, recorded>>
    BY <1>9 DEF finish_exit, LastLine, Idle, tallyVars
  <2> QED BY <1>e, <2>1, NothingOwed
<1> QED BY <1>1, <1>2, <1>3, <1>4, <1>5, <1>6, <1>7, <1>8, <1>9, DenialMoves DEF Pump

\* The reading at the exit stays right.
LEMMA SettledStep ==
    ASSUME TypeOK, TodoKinds, Meaning, Balance, Flushed, Settled, [Next]_vars
    PROVE  Settled'
<1>a. /\ LogTypes /\ TallyTypes /\ todo \in [Threads -> Seq(Lines)]
      /\ {"pump", "filter"} \subseteq Threads /\ L \in Sessions
      /\ tally \in [Names -> Int] /\ recorded \in [Names -> Int]
  BY DEF TypeOK, LogTypes, TallyTypes, Threads, Meaning
<1>s. /\ Syscall \in Names /\ Terminal \in Names /\ Syscall /= Terminal
  BY SupervisorAssumption DEF SupervisorAssumption, Syscall, Terminal
<1>1. CASE L.state = "exited"
  <2>1. pump \in Quit
    BY <1>1 DEF Meaning
  <2>2. L' = L
    <3>1. CASE log' = log
      BY <3>1, SameMeaning
    <3>2. ASSUME NEW t \in Threads, append(t)
          PROVE  L' = L
      <4>1. /\ todo[t] \in Seq(Lines) /\ todo[t] /= <<>> /\ LinesOf(t, todo[t])
            /\ log' = Append(log, Head(todo[t]))
        BY <3>2, <1>a DEF append, TodoKinds
      <4>2. PICK e \in Lines : e = Head(todo[t])
        BY <4>1
      <4>3. /\ e.kind \in Plain \cup {"denied", "exited"}
            /\ e.kind = "denied" => e.arg \in [name : Names, count : Nat]
        BY <4>1, <4>2, FirstLine
      <4> QED BY <1>1, <1>a, <4>1, <4>2, <4>3, LineAdded, Applied
    <3>3. log' = log \/ \E t \in Threads : append(t)
      BY DenialMoves DEF Elsewhere, filter_denies, filter_ends, Pump, serve_read,
         broadcast_screen, broadcast_clients, serve_ends, begin_teardown, settle,
         finish_flush, finish_exit, finish_close, finish_unlink, finish_drain,
         logVars
    <3> QED BY <3>1, <3>2, <3>3
  <2>3. settled' = settled /\ recorded'[Terminal] = recorded[Terminal]
    <3>1. CASE Elsewhere \/ \E t \in Threads : append(t)
      BY <3>1 DEF Elsewhere, append, tallyVars
    <3>2. CASE filter_denies \/ filter_ends
      BY <3>2, <1>a, <1>s DEF filter_denies, filter_ends, record_denial
    <3>3. CASE Pump
      BY <3>3, <2>1 DEF Pump, serve_read,
         broadcast_screen, broadcast_clients, serve_ends, begin_teardown, settle,
         finish_flush, finish_exit, finish_close, finish_unlink, finish_drain,
         tallyVars, Quit
    <3> QED BY <3>1, <3>2, <3>3, DenialMoves
  <2>4. settled => recorded'[Syscall] = recorded[Syscall]
    <3>1. CASE Elsewhere \/ \E t \in Threads : append(t)
      BY <3>1 DEF Elsewhere, append, tallyVars
    <3>2. CASE filter_denies \/ filter_ends
      BY <3>2 DEF filter_denies, filter_ends, Flushed
    <3>3. CASE Pump
      BY <3>3, <2>1 DEF Pump, serve_read,
         broadcast_screen, broadcast_clients, serve_ends, begin_teardown, settle,
         finish_flush, finish_exit, finish_close, finish_unlink, finish_drain,
         tallyVars, Quit
    <3> QED BY <3>1, <3>2, <3>3, DenialMoves
  <2> QED BY <1>1, <2>2, <2>3, <2>4 DEF Settled
<1>2. CASE L.state /= "exited" /\ log' = log
  BY <1>2, SameMeaning DEF Settled
<1>3. ASSUME L.state /= "exited", NEW t \in Threads, append(t)
      PROVE  Settled'
  <2>0. SUFFICES ASSUME L'.state = "exited" PROVE Settled'
    BY DEF Settled
  <2>1. /\ todo[t] \in Seq(Lines) /\ todo[t] /= <<>> /\ LinesOf(t, todo[t])
        /\ log' = Append(log, Head(todo[t])) /\ UNCHANGED <<recorded, settled>>
    BY <1>3, <1>a DEF append, tallyVars, TodoKinds
  <2>2. PICK e \in Lines : e = Head(todo[t])
    BY <2>1
  <2>3. /\ e.kind \in Plain \cup {"denied", "exited"}
        /\ e.kind = "denied" => e.arg \in [name : Names, count : Nat]
        /\ e.kind = "exited" => t = "pump" /\ pump = "close" /\ todo[t] = LastLine
    BY <2>1, <2>2, FirstLine
  <2>4. L' = apply_event(L, e)
    BY <1>a, <2>1, <2>2, <2>3, LineAdded
  <2>5. e.kind = "exited" /\ L'.denied = L.denied
    BY <1>3, <1>a, <2>0, <2>3, <2>4, Applied
  <2>6. /\ pump = "close" /\ todo["pump"] = LastLine
        /\ \A n \in Names : Owed(todo["pump"], n) = 0
    BY <2>3, <2>5, NothingOwed
  <2>7. \A n \in Names : recorded[n] = L.denied[n] + Owed(todo["filter"], n)
                             + Owed(todo["pump"], n) + Folded(n)
    BY <1>3 DEF Balance
  <2>8. L.denied \in [Names -> Nat]
    BY <1>a DEF Sessions
  <2>9. Owed(todo["filter"], Terminal) = 0
    <3>1. \A i \in DOMAIN todo["filter"] : \/ todo["filter"][i].kind /= "denied"
                                           \/ todo["filter"][i].arg.name /= Terminal
      BY <1>a, <1>s DEF TodoKinds, LinesOf, Plain
    <3> QED BY <3>1, OwesNone
  <2>10. Folded(Terminal) = 0
    <3>1. tally[Terminal] <= 0 /\ tally[Terminal] \in Int
      BY <1>a, <1>s, <2>6 DEF Flushed, Quit
    <3> QED BY <3>1 DEF Folded
  <2>11. settled => Owed(todo["filter"], Syscall) = 0 /\ Folded(Syscall) = 0
    <3>1. SUFFICES ASSUME settled
                   PROVE  Owed(todo["filter"], Syscall) = 0 /\ Folded(Syscall) = 0
      OBVIOUS
    <3>2. tally[Syscall] <= 0 /\ tally[Syscall] \in Int /\ todo["filter"] = <<>>
      BY <1>a, <1>s, <2>6, <3>1 DEF Flushed
    <3> QED BY <1>s, <3>2, NothingOwed DEF Folded
  <2>12. recorded[Terminal] = L.denied[Terminal]
    BY <1>s, <2>6, <2>7, <2>8, <2>9, <2>10
  <2>13. settled => recorded[Syscall] = L.denied[Syscall]
    BY <1>s, <2>6, <2>7, <2>8, <2>11
  <2> QED BY <2>1, <2>5, <2>12, <2>13 DEF Settled
<1>4. log' = log \/ \E t \in Threads : append(t)
  BY DenialMoves DEF Elsewhere, filter_denies, filter_ends, Pump, serve_read,
     broadcast_screen, broadcast_clients, serve_ends, begin_teardown, settle,
     finish_flush, finish_exit, finish_close, finish_unlink, finish_drain,
     logVars
<1> QED BY <1>1, <1>2, <1>3, <1>4

-----------------------------------------------------------------------------
(* The attaches and detaches of the terminals.                              *)

\* How often a line is among these.
Num(s, e) == Cardinality(Marks(s, {e}))

Attach(c) == Event("attached", c)
Detach(c) == Event("detached", c)
Comings == {"attached", "detached"}
Silent(s) == \A i \in DOMAIN s : s[i].kind \notin Comings

\* A terminal's own thread logs its attach, that thread or the pump its
\* detach.
ComingsOf(t, s) ==
    \A i \in DOMAIN s :
        /\ s[i].kind = "attached" => t \in Terminals /\ s[i].arg = t
        /\ s[i].kind = "detached" =>
               \/ t = "pump"
               \/ t \in Terminals /\ s[i].arg = t

Hands == \A t \in Threads : ComingsOf(t, todo[t])

\* In the log and in the hands of the threads that are to log them, there is
\* one more attach than detach of a terminal while it is registered.
Paired(c) ==
    Num(log, Attach(c)) + Num(todo[c], Attach(c)) =
        Num(log, Detach(c)) + Num(todo[c], Detach(c))
            + Num(todo["pump"], Detach(c)) + (IF c \in clients THEN 1 ELSE 0)

\* finish has not taken the list yet.
ListKept == pump \notin {"unlink", "drain", "gone"}

AttachInv == Hands /\ (ListKept => \A c \in Terminals : Paired(c))

\* What a terminal's lines are.
LEMMA ComingLines ==
    ASSUME NEW c \in Terminals
    PROVE  /\ Attach(c) \in Lines /\ Detach(c) \in Lines
           /\ Attach(c).kind = "attached" /\ Attach(c).arg = c
           /\ Detach(c).kind = "detached" /\ Detach(c).arg = c
BY LineIs DEF Attach, Detach, Args, Kinds

\* A line that is not there, one that is there once, and none at all.
LEMMA NumIs ==
    ASSUME NEW s \in Seq(Lines), NEW e
    PROVE  /\ Num(s, e) \in Nat
           /\ (\A i \in DOMAIN s : s[i] /= e) => Num(s, e) = 0
           /\ \A i \in DOMAIN s :
                 s[i] = e /\ (\A j \in DOMAIN s : s[j] = e => j = i) => Num(s, e) = 1
<1>1. Num(s, e) \in Nat
  BY MarksFinite DEF Num
<1>2. ASSUME \A i \in DOMAIN s : s[i] /= e
      PROVE  Num(s, e) = 0
  <2>1. Marks(s, {e}) = {}
    BY <1>2 DEF Marks
  <2> QED BY <2>1, FS_EmptySet DEF Num
<1>3. ASSUME NEW i \in DOMAIN s, s[i] = e, \A j \in DOMAIN s : s[j] = e => j = i
      PROVE  Num(s, e) = 1
  <2>1. Marks(s, {e}) = {i}
    BY <1>3 DEF Marks
  <2> QED BY <2>1, FS_Singleton DEF Num
<1> QED BY <1>1, <1>2, <1>3

\* A line is appended, or the first one leaves.
LEMMA NumMoves ==
    ASSUME NEW s \in Seq(Lines), NEW e
    PROVE  /\ \A f \in Lines :
                 Num(Append(s, f), e) = Num(s, e) + IF f = e THEN 1 ELSE 0
           /\ s /= <<>> =>
                 Num(Tail(s), e) = Num(s, e) - IF Head(s) = e THEN 1 ELSE 0
<1>1. ASSUME NEW f \in Lines
      PROVE  Num(Append(s, f), e) = Num(s, e) + IF f = e THEN 1 ELSE 0
  BY MarksAppend DEF Num
<1>2. ASSUME s /= <<>>
      PROVE  Num(Tail(s), e) = Num(s, e) - IF Head(s) = e THEN 1 ELSE 0
  BY <1>2, MarksTail DEF Num
<1> QED BY <1>1, <1>2

\* Lines in which nobody comes or goes.
LEMMA SilentNum ==
    ASSUME NEW s \in Seq(Lines), Silent(s), NEW c \in Terminals
    PROVE  Num(s, Attach(c)) = 0 /\ Num(s, Detach(c)) = 0
<1>1. \A i \in DOMAIN s : s[i] /= Attach(c) /\ s[i] /= Detach(c)
  BY ComingLines DEF Silent, Comings
<1> QED BY <1>1, NumIs

\* A thread with nothing to log logs nobody's coming or going.
LEMMA NoComing ==
    \A c \in Terminals : Num(<<>>, Attach(c)) = 0 /\ Num(<<>>, Detach(c)) = 0
<1>1. PICK s \in Seq(Lines) : s = <<>>
  BY Singles
<1>2. Silent(s)
  BY <1>1 DEF Silent
<1> QED BY <1>1, <1>2, SilentNum

\* The line of one terminal says nothing of another.
LEMMA OneComing ==
    ASSUME NEW c \in Terminals, NEW d \in Terminals
    PROVE  /\ Num(<<Attach(c)>>, Attach(d)) = IF c = d THEN 1 ELSE 0
           /\ Num(<<Attach(c)>>, Detach(d)) = 0
           /\ Num(<<Detach(c)>>, Detach(d)) = IF c = d THEN 1 ELSE 0
           /\ Num(<<Detach(c)>>, Attach(d)) = 0
<1>1. PICK a \in Lines, b \in Lines :
          /\ a = Attach(c) /\ a.kind = "attached" /\ a.arg = c
          /\ b = Detach(c) /\ b.kind = "detached" /\ b.arg = c
  BY ComingLines
<1>2. PICK s \in Seq(Lines) : s = <<a>>
  BY Singles
<1>3. PICK r \in Seq(Lines) : r = <<b>>
  BY Singles
<1>4. /\ DOMAIN s = {1} /\ s[1] = a
      /\ DOMAIN r = {1} /\ r[1] = b
  BY <1>2, <1>3
<1>5. /\ a = Attach(d) <=> c = d
      /\ b = Detach(d) <=> c = d
      /\ a /= Detach(d) /\ b /= Attach(d)
  BY <1>1, ComingLines
<1>6. Num(s, Attach(d)) = (IF c = d THEN 1 ELSE 0) /\ Num(s, Detach(d)) = 0
  BY <1>4, <1>5, NumIs
<1>7. Num(r, Detach(d)) = (IF c = d THEN 1 ELSE 0) /\ Num(r, Attach(d)) = 0
  BY <1>4, <1>5, NumIs
<1> QED BY <1>1, <1>2, <1>3, <1>6, <1>7

\* The detaches the broadcast logs: one of each terminal it dropped.
LEMMA DetachedOnce ==
    ASSUME NEW S \in SUBSET Terminals, NEW d \in Terminals,
           NEW q, q = SetToSeq({Event("detached", c) : c \in S})
    PROVE  Num(q, Detach(d)) = IF d \in S THEN 1 ELSE 0
<1> DEFINE f == [c \in S |-> Detach(c)]
           E == {Detach(c) : c \in S}
<1>1. IsFiniteSet(S)
  BY SupervisorAssumption, FS_Subset DEF SupervisorAssumption
<1>2. E = {f[c] : c \in S} /\ f = [c \in S |-> f[c]]
  OBVIOUS
<1>3. IsFiniteSet(E)
  <2> HIDE DEF f, E
  <2> QED BY <1>1, <1>2, FiniteImage
<1>4. Detach(d) \in E <=> d \in S
  <2>1. \A c \in S : Detach(c) = Detach(d) => c = d
    BY ComingLines
  <2> QED BY <2>1
<1>5. q = SetToSeq(E)
  BY DEF Detach
<1> HIDE DEF E
<1>6. /\ q \in Seq(E)
      /\ \A i, j \in DOMAIN q : q[i] = q[j] => i = j
      /\ \A x \in E : \E i \in DOMAIN q : q[i] = x
  BY <1>3, <1>5, Listed
<1>7. q \in Seq(Lines)
  BY Detaches
<1>8. CASE d \in S
  <2>1. PICK i \in DOMAIN q : q[i] = Detach(d)
    BY <1>4, <1>6, <1>8
  <2>2. \A j \in DOMAIN q : q[j] = Detach(d) => j = i
    BY <1>6, <2>1
  <2> QED BY <1>7, <1>8, <2>1, <2>2, NumIs
<1>9. CASE d \notin S
  <2>1. \A i \in DOMAIN q : q[i] \in E
    BY <1>6
  <2>2. \A i \in DOMAIN q : q[i] /= Detach(d)
    BY <1>4, <1>9, <2>1
  <2> QED BY <1>7, <1>9, <2>2, NumIs
<1> QED BY <1>8, <1>9

\* A step in which no terminal comes or goes.
Nobody ==
    /\ UNCHANGED log
    /\ ListKept' => /\ ListKept
                    /\ \A d \in Terminals : d \in clients' <=> d \in clients
    /\ \/ todo' = todo
       \/ \E t \in Threads, q \in Seq(Lines) :
             /\ todo' = [todo EXCEPT ![t] = q]
             /\ Silent(q) /\ Silent(todo[t])

\* The steps that a terminal's coming and going can tell apart.
LEMMA ComingMoves ==
    ASSUME TypeOK, TodoKinds, Hands, [Next]_vars
    PROVE  \/ Nobody \/ broadcast_clients \/ \E t \in Threads : append(t)
           \/ \E c \in Terminals : client_register(c) \/ client_leave(c)
<1>a. /\ SessTypes /\ TallyTypes /\ todo \in [Threads -> Seq(Lines)]
      /\ {"pump", "filter", "signals"} \subseteq Threads
      /\ Clients \subseteq Threads /\ Clients = Terminals \cup Controls
  BY DEF TypeOK, LogTypes, Threads, Clients
<1>b. /\ Terminals \cap (Controls \cup {"pump", "filter", "signals"}) = {}
      /\ Controls \cap {"pump", "filter", "signals"} = {}
      /\ Syscall \in Names /\ Terminal \in Names
  BY SupervisorAssumption DEF SupervisorAssumption, Clients
<1>c. ASSUME UNCHANGED <<log, todo>>, ListKept' => ListKept,
             \A d \in Terminals : d \in clients' <=> d \in clients
      PROVE  Nobody
  BY <1>c DEF Nobody
<1>d. ASSUME NEW t \in Threads, NEW q \in Seq(Lines), LogNext(t, q), Silent(q),
             todo[t] = <<>> \/ t \in Controls \cup {"signals"}, log' = log,
             ListKept' => ListKept,
             \A d \in Terminals : d \in clients' <=> d \in clients
      PROVE  Nobody
  <2>1. Silent(todo[t])
    <3>1. CASE todo[t] = <<>>
      BY <3>1 DEF Silent
    <3>2. CASE t \in Controls \cup {"signals"}
      BY <1>b, <3>2 DEF Hands, ComingsOf, Silent, Comings
    <3> QED BY <1>d, <3>1, <3>2
  <2> QED BY <1>d, <2>1 DEF Nobody, LogNext
<1>e. ASSUME NEW k \in Kinds \ Comings, NEW a \in Args
      PROVE  << Event(k, a) >> \in Seq(Lines) /\ Silent(<< Event(k, a) >>)
  <2>1. PICK e \in Lines : e = Event(k, a) /\ e.kind = k
    BY LineIs
  <2>2. <<e>> \in Seq(Lines) /\ \A i \in DOMAIN <<e>> : <<e>>[i].kind = k
    BY <2>1
  <2> QED BY <2>1, <2>2 DEF Silent
<1>f. <<>> \in Seq(Lines) /\ Silent(<<>>)
  BY Singles DEF Silent
<1>g. NoLabel \in Args
  BY DEF Args
<1>h. ASSUME NEW nudge \in BOOLEAN, NEW q \in Resizes(nudge)
      PROVE  q \in Seq(Lines) /\ Silent(q)
  <2>1. PICK r \in Lines : r = Event("resized", NoLabel) /\ r.kind = "resized"
    BY LineIs DEF Kinds, Args
  <2>2. q \in {<<>>, <<r>>, <<r, r>>}
    BY <2>1 DEF Resizes
  <2>3. q \in Seq(Lines)
    BY Batch
  <2> QED BY <2>1, <2>2, <2>3 DEF Silent, Comings
<1>i. UNCHANGED <<log, todo, pump, clients>> => Nobody
  BY <1>c DEF ListKept
<1>1. ASSUME NEW t \in Threads, fan_out(t)
      PROVE  Nobody
  <2>1. UNCHANGED <<log, todo, pump>>
    BY <1>1 DEF fan_out, pumpVars
  <2>2. \A d \in Terminals : d \in clients' <=> d \in clients
    BY <1>1, <1>b DEF fan_out
  <2> QED BY <1>c, <2>1, <2>2 DEF ListKept
<1>2. ASSUME NEW c \in Clients, Client(c)
      PROVE  Nobody \/ (c \in Terminals /\ (client_register(c) \/ client_leave(c)))
  <2>1. CASE \/ accept(c) \/ client_reject(c) \/ client_hello(c) \/ client_replay(c)
             \/ client_stop(c) \/ client_status(c) \/ peer_closes(c)
             \/ writer_loop(c)
    BY <2>1, <1>i DEF accept, client_reject, client_hello, client_replay,
       client_stop, request_stop, client_status, peer_closes, writer_loop,
       pumpVars, logVars, connVars
  <2>2. CASE client_size(c)
    <3>1. PICK q \in Resizes(alt) : LogNext(c, q)
      BY <2>2 DEF client_size
    <3>2. alt \in BOOLEAN
      BY SupervisorAssumption DEF TypeOK, ScreenTypes, SupervisorAssumption
    <3>3. todo[c] = <<>> /\ UNCHANGED <<log, pump, clients>>
      BY <2>2 DEF client_size, Go, Free, Idle, pumpVars, connVars
    <3> QED BY <1>a, <1>d, <1>h, <3>1, <3>2, <3>3 DEF ListKept
  <2>3. CASE client_resize(c)
    <3>1. PICK q \in Resizes(FALSE) : LogNext(c, q)
      BY <2>3 DEF client_resize
    <3>3. todo[c] = <<>> /\ UNCHANGED <<log, pump, clients>>
      BY <2>3 DEF client_resize, Serving, Free, Idle, pumpVars, connVars
    <3> QED BY <1>a, <1>d, <1>h, <3>1, <3>3 DEF ListKept
  <2>4. CASE client_register(c) /\ c \notin Terminals
    <3>1. /\ LogNext(c, <<>>) /\ todo[c] = <<>> /\ UNCHANGED <<log, pump>>
          /\ clients' = clients \cup {c}
      BY <2>4 DEF client_register, Go, Free, Idle, pumpVars
    <3>2. \A d \in Terminals : d \in clients' <=> d \in clients
      BY <2>4, <3>1
    <3> QED BY <1>a, <1>d, <1>f, <3>1, <3>2 DEF ListKept
  <2>5. CASE client_leave(c) /\ c \notin Terminals
    <3>1. /\ LogNext(c, <<>>) /\ todo[c] = <<>> /\ UNCHANGED <<log, pump>>
          /\ clients' = clients \ {c}
      BY <2>5 DEF client_leave, Go, Free, Idle, pumpVars
    <3>2. \A d \in Terminals : d \in clients' <=> d \in clients
      BY <2>5, <3>1
    <3> QED BY <1>a, <1>d, <1>f, <3>1, <3>2 DEF ListKept
  <2> QED BY <1>2, <2>1, <2>2, <2>3, <2>4, <2>5 DEF Client
<1>3. ASSUME stop_record
      PROVE  Nobody
  <2>1. PICK q : q = << Event("stop_requested", NoLabel) >> /\ LogNext(stopper, q)
    BY <1>3 DEF stop_record
  <2>2. q \in Seq(Lines) /\ Silent(q)
    BY <1>e, <1>g, <2>1 DEF Kinds, Comings
  <2>3. stopper \in Controls \cup {"signals"} /\ stopper \in Threads
    BY <1>3, <1>a DEF stop_record, SessTypes
  <2>4. UNCHANGED <<log, pump, clients>>
    BY <1>3 DEF stop_record, pumpVars, connVars
  <2> QED BY <1>d, <2>1, <2>2, <2>3, <2>4 DEF ListKept
<1>4. ASSUME \/ stop_spawn_ladder \/ signal_waiter \/ climb \/ harness_exits
             \/ Gone \/ UNCHANGED vars
      PROVE  Nobody
  BY <1>4, <1>i DEF stop_spawn_ladder, signal_waiter, request_stop, climb,
     harness_exits, Gone, vars, pumpVars, connVars, logVars
\* Tally::record.
<1>r. ASSUME NEW t \in {"pump", "filter"}, NEW n \in Names, record_denial(t, n),
             todo[t] = <<>>, UNCHANGED <<log, pump, clients>>
      PROVE  Nobody
  <2>1. CASE todo' = todo
    BY <1>i, <1>r, <2>1
  <2>2. CASE todo' /= todo
    <3>1. PICK k, q : /\ k = (IF tally[n] < 0 THEN 1 ELSE tally[n] + 1)
                      /\ q = << Event("denied", [name |-> n, count |-> k]) >>
                      /\ LogNext(t, q)
      BY <1>r, <2>2 DEF record_denial
    <3>2. k \in Nat
      BY <1>a, <3>1 DEF TallyTypes
    <3>3. [name |-> n, count |-> k] \in Args
      BY <3>2 DEF Args
    <3>4. q \in Seq(Lines) /\ Silent(q)
      BY <1>e, <3>1, <3>3 DEF Kinds, Comings
    <3> QED BY <1>a, <1>d, <1>r, <3>1, <3>4 DEF ListKept
  <2> QED BY <2>1, <2>2
<1>5. CASE filter_denies
  <2>1. /\ record_denial("filter", Syscall) /\ todo["filter"] = <<>>
        /\ UNCHANGED <<log, pump, clients>>
    BY <1>5 DEF filter_denies, Idle, pumpVars, connVars
  <2> QED BY <1>b, <1>r, <2>1
<1>6. CASE filter_ends
  <2>0. UNCHANGED <<log, pump, clients>> /\ todo["filter"] = <<>>
    BY <1>6 DEF filter_ends, Idle, pumpVars, connVars
  <2>1. CASE todo' = todo
    BY <1>i, <2>0, <2>1
  <2>2. CASE todo' /= todo
    <3>1. PICK q : q = << Event("degraded", NoLabel) >> /\ LogNext("filter", q)
      BY <1>6, <2>2 DEF filter_ends
    <3>2. q \in Seq(Lines) /\ Silent(q)
      BY <1>e, <1>g, <3>1 DEF Kinds, Comings
    <3> QED BY <1>a, <1>d, <2>0, <3>1, <3>2 DEF ListKept
  <2> QED BY <2>1, <2>2
<1>7. CASE serve_read
  <2>0. UNCHANGED <<log, clients>> /\ todo["pump"] = <<>> /\ pump = "read"
    BY <1>7 DEF serve_read, Idle, connVars
  <2>1. CASE UNCHANGED todo
    BY <1>c, <2>0, <2>1 DEF ListKept
  <2>2. CASE record_denial("pump", Terminal) /\ pump' = pump
    BY <1>b, <1>r, <2>0, <2>2
  <2> QED BY <1>7, <2>1, <2>2 DEF serve_read
<1>8. CASE broadcast_screen \/ serve_ends \/ begin_teardown \/ settle
  <2>1. UNCHANGED <<log, todo, clients>> /\ ListKept
    BY <1>8 DEF broadcast_screen, serve_ends, begin_teardown, settle, logVars,
       connVars, ListKept
  <2> QED BY <1>c, <2>1
<1>9. CASE finish_close \/ finish_unlink \/ finish_drain
  <2>1. UNCHANGED <<log, todo>> /\ ~ListKept'
    BY <1>9 DEF finish_close, finish_unlink, finish_drain, logVars, ListKept
  <2> QED BY <2>1 DEF Nobody
<1>10. CASE finish_flush
  <2>1. PICK q : /\ q = SetToSeq({Event("denied", [name |-> n, count |-> tally[n]])
                                     : n \in Pending})
                 /\ LogNext("pump", q)
    BY <1>10 DEF finish_flush
  <2>2. Silent(q)
    BY <1>a, <2>1, FlushOwes DEF Silent, Comings
  <2>3. q \in Seq(Lines)
    <3>1. PICK f \in [Names -> Int], S \in SUBSET Names : f = tally /\ S = Pending
      BY <1>a DEF TallyTypes, Pending
    <3>2. /\ \A n \in S : f[n] \in Nat
          /\ q = SetToSeq({Event("denied", [name |-> n, count |-> f[n]]) : n \in S})
      BY <1>a, <2>1, <3>1 DEF Pending, TallyTypes
    <3> QED BY <3>2, Refusals
  <2>4. UNCHANGED <<log, clients>> /\ todo["pump"] = <<>> /\ ListKept
    BY <1>10 DEF finish_flush, connVars, TodoKinds, ListKept
  <2> QED BY <1>a, <1>d, <2>1, <2>2, <2>3, <2>4
<1>11. CASE finish_exit
  <2>1. PICK q : q = << Event("exited", NoLabel) >> /\ LogNext("pump", q)
    BY <1>11 DEF finish_exit
  <2>2. q \in Seq(Lines) /\ Silent(q)
    BY <1>e, <1>g, <2>1 DEF Kinds, Comings
  <2>3. UNCHANGED <<log, clients>> /\ todo["pump"] = <<>> /\ ListKept
    BY <1>11 DEF finish_exit, Idle, connVars, ListKept
  <2> QED BY <1>a, <1>d, <2>1, <2>2, <2>3
<1> QED BY <1>1, <1>2, <1>3, <1>4, <1>5, <1>6, <1>7, <1>8, <1>9, <1>10, <1>11
        DEF Next, Log, Pump

\* Whoever removes a terminal from the list logs its detach, and nobody else.
LEMMA AttachStep ==
    ASSUME TypeOK, TodoKinds, AttachInv, [Next]_vars,
           \A c \in Clients : ClientInStep(c)
    PROVE  AttachInv'
<1>a. /\ log \in Seq(Lines) /\ todo \in [Threads -> Seq(Lines)]
      /\ "pump" \in Threads /\ Terminals \subseteq Threads
      /\ Terminals \subseteq Clients
  BY DEF TypeOK, LogTypes, Threads, Clients
<1>b. "pump" \notin Terminals
  BY SupervisorAssumption DEF SupervisorAssumption, Clients
<1>c. Hands /\ (ListKept => \A c \in Terminals : Paired(c))
  BY DEF AttachInv
<1>d. ASSUME NEW t \in Threads, NEW q \in Seq(Lines),
             todo' = [todo EXCEPT ![t] = q], ComingsOf(t, q)
      PROVE  Hands'
  BY <1>a, <1>c, <1>d DEF Hands, ComingsOf
\* What a terminal counts for, from what its lines and the list do.
<1>e. ASSUME NEW s \in Seq(Lines), NEW e
      PROVE  Num(s, e) \in Nat
  BY NumIs
<1>1. CASE Nobody
  <2>1. CASE todo' = todo
    BY <1>1, <1>c, <2>1 DEF Nobody, AttachInv, Hands, Paired
  <2>2. CASE todo' /= todo
    <3>1. PICK t \in Threads, q \in Seq(Lines) :
              /\ todo' = [todo EXCEPT ![t] = q]
              /\ Silent(q) /\ Silent(todo[t])
      BY <1>1, <2>2 DEF Nobody
    <3>2. Hands'
      <4>1. ComingsOf(t, q)
        BY <3>1 DEF Silent, Comings, ComingsOf
      <4> QED BY <1>d, <3>1, <4>1
    <3>3. ASSUME NEW u \in Threads, NEW c \in Terminals
          PROVE  /\ Num(todo'[u], Attach(c)) = Num(todo[u], Attach(c))
                 /\ Num(todo'[u], Detach(c)) = Num(todo[u], Detach(c))
      <4>1. CASE u /= t
        BY <1>a, <3>1, <4>1
      <4>2. CASE u = t
        <5>1. todo'[u] = q /\ todo[u] \in Seq(Lines)
          BY <1>a, <3>1, <4>2
        <5> QED BY <3>1, <4>2, <5>1, SilentNum
      <4> QED BY <4>1, <4>2
    <3>4. ASSUME ListKept', NEW c \in Terminals
          PROVE  Paired(c)'
      BY <1>1, <1>a, <1>c, <3>3, <3>4 DEF Nobody, Paired
    <3> QED BY <3>2, <3>4 DEF AttachInv
  <2> QED BY <2>1, <2>2
<1>2. ASSUME NEW t \in Threads, append(t)
      PROVE  AttachInv'
  <2>1. PICK h : h = Head(todo[t])
    OBVIOUS
  <2>2. PICK q : q = Tail(todo[t])
    OBVIOUS
  <2>3. /\ todo[t] \in Seq(Lines) /\ todo[t] /= <<>>
        /\ todo' = [todo EXCEPT ![t] = q] /\ log' = Append(log, h)
        /\ UNCHANGED <<clients, pump>>
    BY <1>2, <1>a, <2>1, <2>2 DEF append, connVars, pumpVars
  <2>4. /\ h \in Lines /\ q \in Seq(Lines)
        /\ 1 \in DOMAIN todo[t] /\ h = todo[t][1]
        /\ \A i \in DOMAIN q : i + 1 \in DOMAIN todo[t] /\ q[i] = todo[t][i + 1]
    BY <2>1, <2>2, <2>3
  <2>5. ComingsOf(t, todo[t])
    BY <1>c DEF Hands
  <2>6. ComingsOf(t, q)
    BY <2>4, <2>5 DEF ComingsOf
  <2>7. Hands'
    BY <1>d, <2>3, <2>4, <2>6
  <2>8. ASSUME ListKept', NEW c \in Terminals
        PROVE  Paired(c)'
    <3>1. Paired(c)
      BY <1>c, <2>3, <2>8 DEF ListKept
    <3>2. /\ Num(log', Attach(c)) = Num(log, Attach(c))
                                       + IF h = Attach(c) THEN 1 ELSE 0
          /\ Num(log', Detach(c)) = Num(log, Detach(c))
                                       + IF h = Detach(c) THEN 1 ELSE 0
      BY <1>a, <2>3, <2>4, NumMoves
    <3>3. /\ Num(q, Attach(c)) = Num(todo[t], Attach(c))
                                    - IF h = Attach(c) THEN 1 ELSE 0
          /\ Num(q, Detach(c)) = Num(todo[t], Detach(c))
                                    - IF h = Detach(c) THEN 1 ELSE 0
      BY <2>1, <2>2, <2>3, NumMoves
    <3>4. /\ h = Attach(c) => t = c
          /\ h = Detach(c) => t \in {"pump", c}
      BY <2>4, <2>5, ComingLines DEF ComingsOf
    <3>5. todo'[t] = q /\ \A u \in Threads : u /= t => todo'[u] = todo[u]
      BY <1>a, <2>3
    <3>6. /\ todo[c] \in Seq(Lines) /\ todo["pump"] \in Seq(Lines)
      BY <1>a
    <3>7. CASE t = c
      <4>1. todo'[c] = q /\ todo'["pump"] = todo["pump"]
        BY <1>a, <1>b, <3>5, <3>7
      <4>2. Num(log', Attach(c)) + Num(q, Attach(c)) =
                Num(log, Attach(c)) + Num(todo[c], Attach(c))
        <5>1. /\ Num(log, Attach(c)) \in Nat /\ Num(todo[c], Attach(c)) \in Nat
              /\ Num(q, Attach(c)) = Num(todo[c], Attach(c))
                                        - IF h = Attach(c) THEN 1 ELSE 0
          BY <1>a, <1>e, <3>3, <3>6, <3>7
        <5> QED BY <3>2, <5>1
      <4>3. Num(log', Detach(c)) + Num(q, Detach(c)) =
                Num(log, Detach(c)) + Num(todo[c], Detach(c))
        BY <1>a, <1>e, <3>2, <3>3, <3>6, <3>7
      <4> QED BY <2>3, <3>1, <4>1, <4>2, <4>3 DEF Paired
    <3>8. CASE t = "pump"
      <4>1. todo'["pump"] = q /\ todo'[c] = todo[c] /\ h /= Attach(c)
        BY <1>a, <1>b, <3>4, <3>5, <3>8
      <4> QED BY <1>a, <1>e, <2>3, <2>4, <3>1, <3>2, <3>3, <3>6, <3>8, <4>1
              DEF Paired
    <3>9. CASE t \notin {c, "pump"}
      <4>1. /\ todo'["pump"] = todo["pump"] /\ todo'[c] = todo[c]
            /\ h /= Attach(c) /\ h /= Detach(c)
        BY <1>a, <3>4, <3>5, <3>9
      <4> QED BY <1>a, <1>e, <2>3, <3>1, <3>2, <3>6, <4>1 DEF Paired
    <3> QED BY <3>7, <3>8, <3>9
  <2> QED BY <2>7, <2>8 DEF AttachInv
<1>3. ASSUME NEW c \in Terminals, client_register(c)
      PROVE  AttachInv'
  <2>1. /\ todo' = [todo EXCEPT ![c] = << Attach(c) >>] /\ todo[c] = <<>>
        /\ clients' = clients \cup {c} /\ c \notin clients
        /\ UNCHANGED <<log, pump>>
    <3>1. c \notin clients
      BY <1>3, <1>a DEF client_register, Go, ClientInStep
    <3> QED BY <1>3, <3>1 DEF client_register, Go, Free, Idle, LogNext, pumpVars,
               Attach
  <2>2. PICK q \in Seq(Lines) : q = << Attach(c) >>
    BY ComingLines, Singles
  <2>3. ComingsOf(c, q)
    BY <2>2, ComingLines DEF ComingsOf
  <2>4. Hands'
    BY <1>a, <1>d, <2>1, <2>2, <2>3
  <2>5. ASSUME ListKept', NEW d \in Terminals
        PROVE  Paired(d)'
    <3>1. Paired(d)
      BY <1>c, <2>1, <2>5 DEF ListKept
    <3>2. /\ Num(q, Attach(d)) = (IF c = d THEN 1 ELSE 0)
          /\ Num(q, Detach(d)) = 0
      BY <2>2, OneComing
    <3>3. /\ todo'["pump"] = todo["pump"]
          /\ d /= c => todo'[d] = todo[d]
          /\ todo'[c] = q
      BY <1>a, <1>b, <2>1, <2>2
    <3>4. Num(<<>>, Attach(d)) = 0 /\ Num(<<>>, Detach(d)) = 0
      BY NoComing
    <3>5. /\ todo[d] \in Seq(Lines) /\ todo["pump"] \in Seq(Lines)
      BY <1>a
    <3>6. CASE d = c
      <4>1. Num(todo[d], Attach(d)) = 0 /\ Num(todo[d], Detach(d)) = 0
        BY <2>1, <3>4, <3>6
      <4>2. Num(todo'[d], Attach(d)) = 1 /\ Num(todo'[d], Detach(d)) = 0
        BY <3>2, <3>3, <3>6
      <4> QED BY <1>a, <1>e, <2>1, <3>1, <3>3, <3>5, <3>6, <4>1, <4>2 DEF Paired
    <3>7. CASE d /= c
      BY <2>1, <3>1, <3>3, <3>7 DEF Paired
    <3> QED BY <3>6, <3>7
  <2> QED BY <2>4, <2>5 DEF AttachInv
<1>4. ASSUME NEW c \in Terminals, client_leave(c)
      PROVE  AttachInv'
  <2>1. PICK q : /\ q = (IF c \in clients THEN << Detach(c) >> ELSE <<>>)
                 /\ todo' = [todo EXCEPT ![c] = q]
    BY <1>4 DEF client_leave, LogNext, Detach
  <2>2. /\ todo[c] = <<>> /\ clients' = clients \ {c}
        /\ UNCHANGED <<log, pump>>
    BY <1>4 DEF client_leave, Go, Free, Idle, pumpVars
  <2>3. q \in Seq(Lines)
    BY <2>1, ComingLines, Singles
  <2>4. ComingsOf(c, q)
    BY <2>1, ComingLines DEF ComingsOf
  <2>5. Hands'
    BY <1>a, <1>d, <2>1, <2>3, <2>4
  <2>6. ASSUME ListKept', NEW d \in Terminals
        PROVE  Paired(d)'
    <3>1. Paired(d)
      BY <1>c, <2>2, <2>6 DEF ListKept
    <3>4. Num(<<>>, Attach(d)) = 0 /\ Num(<<>>, Detach(d)) = 0
      BY NoComing
    <3>2. /\ Num(q, Attach(d)) = 0
          /\ Num(q, Detach(d)) = IF c = d /\ c \in clients THEN 1 ELSE 0
      BY <2>1, <3>4, OneComing
    <3>3. /\ todo'["pump"] = todo["pump"]
          /\ d /= c => todo'[d] = todo[d]
          /\ todo'[c] = q
      BY <1>a, <1>b, <2>1
    <3>5. /\ todo[d] \in Seq(Lines) /\ todo["pump"] \in Seq(Lines)
      BY <1>a
    <3>6. CASE d = c
      BY <1>a, <1>e, <2>2, <3>1, <3>2, <3>3, <3>4, <3>5, <3>6 DEF Paired
    <3>7. CASE d /= c
      BY <2>2, <3>1, <3>3, <3>7 DEF Paired
    <3> QED BY <3>6, <3>7
  <2> QED BY <2>5, <2>6 DEF AttachInv
<1>5. CASE broadcast_clients
  <2>1. PICK S \in SUBSET Terminals :
            /\ S \subseteq clients /\ clients' = clients \ S
            /\ LogNext("pump", SetToSeq({Event("detached", c) : c \in S}))
    <3> DEFINE slow == {c \in clients \cap Terminals : ~Room(c)}
    <3>1. /\ LogNext("pump", SetToSeq({Event("detached", c) : c \in slow}))
          /\ clients' = clients \ slow
      BY <1>5 DEF broadcast_clients
    <3>2. slow \in SUBSET Terminals /\ slow \subseteq clients
      OBVIOUS
    <3> HIDE DEF slow
    <3> QED BY <3>1, <3>2
  <2>2. PICK q : /\ q = SetToSeq({Event("detached", c) : c \in S})
                 /\ todo' = [todo EXCEPT !["pump"] = q]
    BY <2>1 DEF LogNext
  <2>3. q \in Seq(Lines) /\ \A i \in DOMAIN q : q[i].kind = "detached"
    BY <2>2, Detaches
  <2>4. todo["pump"] = <<>> /\ ListKept /\ log' = log
    BY <1>5 DEF broadcast_clients, TodoKinds, ListKept
  <2>5. Hands'
    BY <1>a, <1>d, <2>2, <2>3 DEF ComingsOf
  <2>6. ASSUME NEW d \in Terminals
        PROVE  Paired(d)'
    <3>1. Paired(d)
      BY <1>c, <2>4
    <3>2. Num(q, Detach(d)) = IF d \in S THEN 1 ELSE 0
      BY <2>2, DetachedOnce
    <3>3. todo'["pump"] = q /\ todo'[d] = todo[d]
      BY <1>a, <1>b, <2>2
    <3>4. Num(<<>>, Detach(d)) = 0
      BY NoComing
    <3>5. todo[d] \in Seq(Lines)
      BY <1>a
    <3>6. d \in clients' <=> d \in clients /\ d \notin S
      BY <2>1
    <3>7. d \in S => d \in clients
      BY <2>1
    <3>8. CASE d \in S
      BY <1>a, <1>e, <2>4, <3>1, <3>2, <3>3, <3>4, <3>5, <3>6, <3>7, <3>8
         DEF Paired
    <3>9. CASE d \notin S
      BY <1>a, <1>e, <2>4, <3>1, <3>2, <3>3, <3>4, <3>5, <3>6, <3>9 DEF Paired
    <3> QED BY <3>8, <3>9
  <2> QED BY <2>5, <2>6 DEF AttachInv
<1> QED BY <1>1, <1>2, <1>3, <1>4, <1>5, <1>c, ComingMoves

-----------------------------------------------------------------------------
(* The theorems.                                                            *)

\* What every step keeps of the connections, their queues and their streams.
ConnInv ==
    /\ TypeOK /\ OneFan
    /\ \A c \in Clients : /\ ClientInStep(c) /\ Sound(c)
                          /\ writer[c] = "up" => Accounted(queued[c], chan[c])
    /\ \A c \in Terminals : Ready(c) /\ Whole(c)
    /\ \A c \in Controls : Told(c)

\* A supervisor that starts has well-typed state.
LEMMA TypesInit ==
    ASSUME Init
    PROVE  TypeOK
<1>a. SupervisorAssumption
  BY SupervisorAssumption
<1>1. SessTypes
  BY DEF Init, SessTypes
<1>2. LogTypes
  <2>1. PICK a \in Lines, b \in Lines, d \in Lines :
            /\ a = Event("created", NoLabel) /\ b = Event("applied", NoLabel)
            /\ d = Event("started", NoLabel)
    BY LineIs DEF Kinds, Args
  <2>2. log = <<a, b, d>>
    BY <2>1 DEF Init
  <2>3. log \in Seq(Lines) /\ Len(log) = 3
    BY <2>2
  <2>4. todo \in [Threads -> Seq(Lines)] /\ fan = [t \in Threads |-> 0]
    BY Singles DEF Init
  <2> QED BY <2>3, <2>4 DEF LogTypes
<1>3. ConnTypes
  <2>1. <<>> \in Seq(Wire)
    OBVIOUS
  <2> QED BY <2>1 DEF Init, ConnTypes
<1>4. ScreenTypes
  <2>1. <<>> \in Seq(1..MaxOutput) /\ Len(<<>>) = 0
    OBVIOUS
  <2> QED BY <1>a, <2>1 DEF Init, ScreenTypes, SupervisorAssumption
<1>5. TallyTypes
  <2>1. tally \in [Names -> Int] /\ recorded \in [Names -> 0..MaxDenials]
    BY <1>a DEF Init, SupervisorAssumption
  <2>2. filter \in {"up", "ended"}
    BY <1>a DEF Init, SupervisorAssumption
  <2>3. tearing_down \in BOOLEAN /\ settled \in BOOLEAN
    BY DEF Init
  <2> QED BY <2>1, <2>2, <2>3 DEF TallyTypes
<1>6. PumpTypes
  BY DEF Init, PumpTypes
<1>7. ReaderTypes
  BY <1>a DEF Init, ReaderTypes, SupervisorAssumption
<1> QED BY <1>1, <1>2, <1>3, <1>4, <1>5, <1>6, <1>7 DEF TypeOK

\* Nobody is connected yet.
LEMMA ConnInit ==
    ASSUME Init
    PROVE  ConnInv
<1>1. TypeOK
  BY TypesInit
<1>2. OneFan
  BY DEF Init, OneFan
<1>3. clients = {} /\ \A c \in Clients : /\ pc[c] = "none" /\ writer[c] = "none"
                                         /\ chan[c] = <<>> /\ got[c] = <<>>
                                         /\ queued[c] = 0
  BY DEF Init
<1>4. \A c \in Clients : ClientInStep(c)
  BY <1>3 DEF ClientInStep
<1>5. ASSUME NEW c \in Clients
      PROVE  Sound(c)
  <2>1. Stream(c) = <<>>
    BY <1>3 DEF Stream
  <2> QED BY <2>1 DEF Sound
<1>6. \A c \in Terminals : Ready(c) /\ Whole(c)
  BY <1>3 DEF Ready, Whole, Clients
<1>7. \A c \in Controls : Told(c)
  BY <1>3 DEF Told
<1> QED BY <1>1, <1>2, <1>3, <1>4, <1>5, <1>6, <1>7 DEF ConnInv

\* Nothing has been refused yet.
LEMMA DenialInit ==
    ASSUME Init
    PROVE  DenialInv
<1>1. TypeOK
  BY TypesInit
<1>a. /\ {"pump", "filter"} \subseteq Threads /\ pump = "read" /\ ~settled
      /\ \A t \in Threads : todo[t] = <<>>
      /\ \A n \in Names : recorded[n] = 0 /\ tally[n] = -1
  BY DEF Init, Threads
<1>2. TodoKinds
  BY <1>a, NothingOwed DEF TodoKinds, LinesOf
<1>3. /\ L = [Creating EXCEPT !.state = "running"] /\ ~ExitLogged
  <2>1. PICK a \in Lines, b \in Lines, d \in Lines :
            /\ a = Event("created", NoLabel) /\ b = Event("applied", NoLabel)
            /\ d = Event("started", NoLabel)
            /\ a.kind = "created" /\ b.kind = "applied" /\ d.kind = "started"
    BY LineIs DEF Kinds, Args
  <2>2. log = <<a, b, d>> /\ <<a, b, d>> = Append(Append(Append(<<>>, a), b), d)
    BY <2>1 DEF Init
  <2>3. ~ExitLogged
    BY <2>1, <2>2 DEF ExitLogged
  <2>4. /\ <<>> \in Seq(Lines) /\ Append(<<>>, a) \in Seq(Lines)
        /\ Append(Append(<<>>, a), b) \in Seq(Lines)
    OBVIOUS
  <2>5. L = apply_event(apply_event(apply_event(Creating, a), b), d)
    <3>1. from_log(Append(<<>>, a)) = apply_event(Creating, a)
      BY <2>4, FromLogAppend, FromLogEmpty
    <3>2. from_log(Append(Append(<<>>, a), b)) =
              apply_event(from_log(Append(<<>>, a)), b)
      BY <2>4, FromLogAppend
    <3>3. from_log(Append(Append(Append(<<>>, a), b), d)) =
              apply_event(from_log(Append(Append(<<>>, a), b)), d)
      BY <2>4, FromLogAppend
    <3>4. L = from_log(Append(Append(Append(<<>>, a), b), d))
      BY <2>2 DEF L
    <3> QED BY <3>1, <3>2, <3>3, <3>4, Zenon
  <2>6. Creating.state = "creating" /\ ~is_terminal("creating")
    BY DEF Creating, is_terminal
  <2>7. apply_event(Creating, a) = Creating
    BY <2>1, <2>6, Zenon DEF apply_event
  <2>8. apply_event(Creating, b) = Creating
    BY <2>1, <2>6, Zenon DEF apply_event
  <2>9. apply_event(Creating, d) = [Creating EXCEPT !.state = "running"]
    BY <2>1, <2>6, Zenon DEF apply_event
  <2> QED BY <2>3, <2>5, <2>7, <2>8, <2>9
<1>4. L \in Sessions /\ L.state = "running" /\ \A n \in Names : L.denied[n] = 0
  BY <1>3 DEF Creating, Sessions
<1>5. Meaning
  BY <1>3, <1>4, <1>a DEF Meaning, Quit
<1>6. Balance
  <2>1. \A n \in Names : Folded(n) = 0
    BY <1>a DEF Folded
  <2> QED BY <1>4, <1>a, <2>1, NothingOwed DEF Balance
<1>7. Flushed
  BY <1>a DEF Flushed, Quit
<1>8. Settled
  BY <1>4 DEF Settled
<1> QED BY <1>1, <1>2, <1>5, <1>6, <1>7, <1>8 DEF DenialInv

\* The state of a supervisor is well typed.
THEOREM TypeCorrect == Spec => []TypeOK
BY TypesInit, TypesStep, PTL DEF Spec

\* The connections, their queues and their streams stay in step, whatever the
\* order in which the threads take the lists' locks.
THEOREM ConnInvariance == Spec => []ConnInv
<1>1. ConnInv /\ [Next]_vars => ConnInv'
  <2>1. SUFFICES ASSUME ConnInv, [Next]_vars PROVE ConnInv'
    OBVIOUS
  <2>2. TypeOK' /\ OneFan'
    BY <2>1, TypesStep, LinesStep DEF ConnInv
  <2>3. ASSUME NEW c \in Clients
        PROVE  ClientInStep(c)' /\ Sound(c)'
    BY <2>1, InStepStep, SoundStep DEF ConnInv
  <2>4. ASSUME NEW c \in Clients
        PROVE  writer'[c] = "up" => Accounted(queued'[c], chan'[c])
    BY <2>1, QueueStep DEF ConnInv
  <2>5. ASSUME NEW c \in Terminals
        PROVE  Ready(c)' /\ Whole(c)'
    BY <2>1, OutputStep DEF ConnInv, Clients
  <2>6. ASSUME NEW c \in Controls
        PROVE  Told(c)'
    BY <2>1, ToldStep DEF ConnInv, Clients
  <2> QED BY <2>2, <2>3, <2>4, <2>5, <2>6 DEF ConnInv, Accounted
<1> QED BY <1>1, ConnInit, PTL DEF Spec

\* While a writer is up, a client's byte counter is what its channel holds,
\* and output and events stay within QUEUE_BYTES: enqueue and writer_loop agree.
THEOREM CountersAreExact == Spec => []QueueAccounted
<1>1. ASSUME ConnInv
      PROVE  QueueAccounted
  <2>1. ASSUME NEW c \in Clients, writer[c] = "up"
        PROVE  /\ queued[c] = Cardinality(Charged(chan[c]))
               /\ Cardinality(Budgeted(chan[c])) <= QueueCap
    <3>1. chan[c] \in Seq(Wire) /\ Accounted(queued[c], chan[c])
      BY <1>1, <2>1 DEF ConnInv, TypeOK, ConnTypes
    <3> QED BY <3>1, MarksAre DEF Accounted
  <2> QED BY <2>1 DEF QueueAccounted
<1> QED BY <1>1, ConnInvariance, PTL

\* A terminal that broadcast keeps misses no chunk after its replay.
THEOREM OutputHasNoHoles == Spec => []LiveOutputComplete
<1>1. ConnInv => LiveOutputComplete
  BY DEF ConnInv, LiveOutputComplete, Connected, Whole
<1> QED BY <1>1, ConnInvariance, PTL

\* log_event brings every connected control client every line, once.
THEOREM EventsReachControls == Spec => []ControlSeesLog
<1>1. ASSUME ConnInv
      PROVE  ControlSeesLog
  <2>1. ASSUME NEW c \in Connected(Controls)
        PROVE  /\ \A n \in (joined[c].logged + 1)..Len(log) :
                     Copies(c, n) = {} => \E t \in Threads : fan[t] = n
               /\ \A i, j \in DOMAIN Stream(c) :
                     Stream(c)[i][1] = "event" /\ Stream(c)[i] = Stream(c)[j] => i = j
    <3>1. c \in clients /\ sock[c] = "open" /\ c \in Controls /\ c \in Clients
      BY <2>1 DEF Connected, Clients
    <3>2. Told(c) /\ Sound(c)
      BY <1>1, <3>1 DEF ConnInv
    <3> QED BY <3>1, <3>2 DEF Told, Sound
  <2> QED BY <2>1 DEF ControlSeesLog
<1> QED BY <1>1, ConnInvariance, PTL

\* A refusal that was recorded is in the tally, in the hands of the thread
\* that logs it, or in the log, until the exit is logged.
THEOREM DenialInvariance == Spec => []DenialInv
<1>1. DenialInv /\ [Next]_vars => DenialInv'
  BY TypesStep, KindsStep, MeaningStep, BalanceStep, FlushedStep, SettledStep
     DEF DenialInv
<1> QED BY <1>1, DenialInit, PTL DEF Spec

\* Every reader of the log has folded every refusal by the time it reads the
\* exit: finish flushes the tally before it, and after the filter has ended.
THEOREM ExitIsTheLastWord == Spec => []DenialsReachTheExit
<1>1. DenialInv => DenialsReachTheExit
  BY DEF DenialInv, Meaning, Settled, DenialsReachTheExit, L
<1> QED BY <1>1, DenialInvariance, PTL

\* A terminal that is registered has one more attach than detach in the log and
\* in the hands of the threads about to log; one that is not has as many.
THEOREM AttachInvariance == Spec => []AttachInv
<1>1. ASSUME Init
      PROVE  AttachInv
  <2>1. /\ clients = {} /\ "pump" \in Threads /\ Terminals \subseteq Threads
        /\ \A t \in Threads : todo[t] = <<>>
    BY <1>1 DEF Init, Threads, Clients
  <2>2. Hands
    BY <2>1 DEF Hands, ComingsOf
  <2>3. log \in Seq(Lines) /\ Silent(log)
    <3>1. PICK a \in Lines, b \in Lines, d \in Lines :
              /\ a = Event("created", NoLabel) /\ b = Event("applied", NoLabel)
              /\ d = Event("started", NoLabel)
              /\ a.kind = "created" /\ b.kind = "applied" /\ d.kind = "started"
      BY LineIs DEF Kinds, Args
    <3>2. log = <<a, b, d>>
      BY <1>1, <3>1 DEF Init
    <3>3. \A i \in DOMAIN log : log[i] \in {a, b, d}
      BY <3>2
    <3> QED BY <3>1, <3>2, <3>3 DEF Silent, Comings
  <2>4. <<>> \in Seq(Lines) /\ Silent(<<>>)
    BY Singles DEF Silent
  <2>5. ASSUME NEW c \in Terminals
        PROVE  Paired(c)
    <3>1. /\ Num(log, Attach(c)) = 0 /\ Num(log, Detach(c)) = 0
          /\ Num(<<>>, Attach(c)) = 0 /\ Num(<<>>, Detach(c)) = 0
      BY <2>3, <2>4, SilentNum
    <3>2. todo[c] = <<>> /\ todo["pump"] = <<>> /\ c \notin clients
      BY <2>1
    <3> QED BY <3>1, <3>2 DEF Paired
  <2> QED BY <2>2, <2>5 DEF AttachInv
<1>2. AttachInv /\ ConnInv /\ DenialInv /\ [Next]_vars => AttachInv'
  BY AttachStep DEF ConnInv, DenialInv
<1> QED BY <1>1, <1>2, ConnInvariance, DenialInvariance, PTL DEF Spec

\* Between log lines, and until finish takes the list, the log holds one more
\* attach than detach of a terminal exactly while it is registered: its reader
\* or the broadcast, whichever removes it, logs the detach, once.
THEOREM AttachesArePaired == Spec => []AttachBalance
<1>1. ASSUME TypeOK, AttachInv
      PROVE  AttachBalance
  <2>1. ASSUME Quiet, pump \notin {"unlink", "drain", "gone"}, NEW c \in Terminals
        PROVE  Count(DOMAIN log, "attached", c) - Count(DOMAIN log, "detached", c)
                   = IF c \in clients THEN 1 ELSE 0
    <3>1. Paired(c) /\ log \in Seq(Lines)
      BY <1>1, <2>1 DEF AttachInv, ListKept, TypeOK, LogTypes
    <3>2. todo[c] = <<>> /\ todo["pump"] = <<>>
      BY <2>1 DEF Quiet, Idle, Threads, Clients
    <3>3. Num(<<>>, Attach(c)) = 0 /\ Num(<<>>, Detach(c)) = 0
      BY NoComing
    <3>4. ASSUME NEW k \in Comings
          PROVE  Count(DOMAIN log, k, c) = Num(log, Event(k, c))
      <4>1. \A i \in DOMAIN log :
                log[i].kind = k /\ log[i].arg = c <=> log[i] = Event(k, c)
        <5>1. ASSUME NEW i \in DOMAIN log
              PROVE  log[i].kind = k /\ log[i].arg = c <=> log[i] = Event(k, c)
          <6>1. log[i] \in Lines
            BY <3>1
          <6>2. PICK e \in Lines : e = log[i]
            BY <6>1
          <6>3. e.kind = k /\ e.arg = c <=> e = Event(k, c)
            BY DEF Lines, Event
          <6> QED BY <6>2, <6>3
        <5> QED BY <5>1
      <4> QED BY <4>1 DEF Count, Num, Marks
    <3>5. /\ Count(DOMAIN log, "attached", c) = Num(log, Attach(c))
          /\ Count(DOMAIN log, "detached", c) = Num(log, Detach(c))
      BY <3>4 DEF Comings, Attach, Detach
    <3>6. Num(log, Attach(c)) \in Nat /\ Num(log, Detach(c)) \in Nat
      BY <3>1, NumIs
    <3> QED BY <3>1, <3>2, <3>3, <3>5, <3>6 DEF Paired
  <2> QED BY <2>1 DEF AttachBalance
<1> QED BY <1>1, TypeCorrect, AttachInvariance, PTL
=============================================================================
