---------------------------- MODULE StreamProofs ----------------------------
(***************************************************************************)
(* The streams of Terminal, for any tokens, keys, read sizes and payload   *)
(* limits: what a wire carries, what the filter lets through, what a cut   *)
(* anywhere leaves of both, and what one client's input and output keep    *)
(* of it under each operation.                                             *)
(*                                                                         *)
(* A wire holds bytes; what they mean is a sequence of frames.  Carries    *)
(* relates the two, as the least relation closed under one more frame.     *)
(***************************************************************************)
EXTENDS Terminal, SequenceTheorems, FiniteSetTheorems, WellFoundedInduction, TLAPS

\* A non-empty set of naturals has a least element.
LEMMA LeastNumber ==
    ASSUME NEW S, S \subseteq Nat, S /= {}
    PROVE  \E n \in S : \A m \in S : n <= m
<1> DEFINE R == {ss \in Nat \X Nat : ss[1] < ss[2]}
<1>1. IsWellFoundedOn(R, Nat)
  BY NatLessThanWellFounded DEF OpToRel
<1>2. \E x \in S : \A y \in S : ~ (<<y, x>> \in R)
  <2> HIDE DEF R
  <2> QED BY <1>1, WFMin
<1>3. PICK x \in S : \A y \in S : ~ (<<y, x>> \in R)
  BY <1>2
<1>4. ASSUME NEW y \in S
      PROVE  x <= y
  <2>1. x \in Nat /\ y \in Nat /\ <<y, x>> \in Nat \X Nat
    BY <1>3
  <2>2. ~ (y < x)
    BY <1>3, <2>1
  <2> QED BY <2>1, <2>2
<1> QED BY <1>3, <1>4

\* A set that holds 0 and with each number its successor holds them all.
LEMMA Induction ==
    ASSUME NEW S, 0 \in S, \A n \in Nat : n \in S => n + 1 \in S
    PROVE  \A n \in Nat : n \in S
<1> SUFFICES ASSUME Nat \ S /= {} PROVE FALSE
  OBVIOUS
<1>1. PICK n \in Nat \ S : \A m \in Nat \ S : n <= m
  BY LeastNumber
<1>2. n /= 0 /\ n - 1 \in Nat /\ n - 1 \in S
  BY <1>1
<1> QED BY <1>1, <1>2

-----------------------------------------------------------------------------
(* Sequences.                                                               *)
Bytes == Seq(Nat)

\* What is taken and what is left of it are the whole.
LEMMA TakeSkip ==
    ASSUME NEW S, NEW s \in Seq(S), NEW n \in Nat
    PROVE  /\ Take(s, n) \in Seq(S) /\ Skip(s, n) \in Seq(S)
           /\ Take(s, n) \o Skip(s, n) = s
           /\ Len(Take(s, n)) = IF n < Len(s) THEN n ELSE Len(s)
           /\ n <= Len(s) => Len(Skip(s, n)) = Len(s) - n
           /\ \A i \in 1..Len(Take(s, n)) : Take(s, n)[i] = s[i]
           /\ \A i \in 1..Len(Skip(s, n)) : Skip(s, n)[i] = s[n + i]
<1> DEFINE k == IF n < Len(s) THEN n ELSE Len(s)
<1>1. k \in 0..Len(s) /\ Len(s) \in Nat
  OBVIOUS
<1>2. Take(s, n) = SubSeq(s, 1, k)
  BY DEF Take
<1>3. Skip(s, n) = SubSeq(s, k + 1, Len(s))
  <2>1. CASE n < Len(s)
    BY <2>1 DEF Skip
  <2>2. CASE ~(n < Len(s))
    <3>1. Skip(s, n) = <<>>
      BY <2>2, <1>1, SubSeqEmpty DEF Skip
    <3>2. SubSeq(s, k + 1, Len(s)) = <<>>
      BY <2>2, <1>1, SubSeqEmpty
    <3> QED BY <3>1, <3>2
  <2> QED BY <2>1, <2>2
<1> HIDE DEF k
<1>4. /\ SubSeq(s, 1, k) \in Seq(S) /\ SubSeq(s, k + 1, Len(s)) \in Seq(S)
      /\ Len(SubSeq(s, 1, k)) = k /\ Len(SubSeq(s, k + 1, Len(s))) = Len(s) - k
      /\ \A i \in 1..k : SubSeq(s, 1, k)[i] = s[i]
      /\ \A i \in 1..(Len(s) - k) : SubSeq(s, k + 1, Len(s))[i] = s[k + i]
  BY <1>1
<1>5. SubSeq(s, 1, k) \o SubSeq(s, k + 1, Len(s)) = SubSeq(s, 1, Len(s))
  <2>1. 1 \in 1..(Len(s) + 1) /\ k \in (1 - 1)..Len(s) /\ Len(s) \in k..Len(s)
    BY <1>1
  <2> QED BY <2>1, ConcatAdjacentSubSeq
<1>6. SubSeq(s, 1, Len(s)) = s
  BY SubSeqFull
<1>7. \A i \in 1..(Len(s) - k) : k = n
  BY <1>1 DEF k
<1>8. Take(s, n) \o Skip(s, n) = s
  BY <1>2, <1>3, <1>5, <1>6
<1>9. \A i \in 1..(Len(s) - k) : SubSeq(s, k + 1, Len(s))[i] = s[n + i]
  BY <1>4, <1>7
<1>10. n <= Len(s) => k = n
  BY <1>1 DEF k
<1>11. Len(Take(s, n)) = IF n < Len(s) THEN n ELSE Len(s)
  BY <1>2, <1>4 DEF k
<1> QED BY <1>1, <1>2, <1>3, <1>4, <1>8, <1>9, <1>10, <1>11

\* Concatenation, as the provers are given it.
LEMMA Joins ==
    ASSUME NEW S, NEW a \in Seq(S), NEW b \in Seq(S)
    PROVE  /\ a \o b \in Seq(S) /\ Len(a \o b) = Len(a) + Len(b)
           /\ \A i \in 1..Len(a) : (a \o b)[i] = a[i]
           /\ \A i \in 1..Len(b) : (a \o b)[Len(a) + i] = b[i]
           /\ a \o <<>> = a /\ <<>> \o a = a
BY ConcatProperties, ConcatEmptySeq

\* An element of a concatenation is one of its parts'.
LEMMA JoinLeft ==
    ASSUME NEW S, NEW a \in Seq(S), NEW b \in Seq(S), NEW i \in 1..Len(a)
    PROVE  (a \o b)[i] = a[i]
OBVIOUS
\* The same of the second part.
LEMMA JoinRight ==
    ASSUME NEW S, NEW a \in Seq(S), NEW b \in Seq(S), NEW i \in 1..Len(b)
    PROVE  (a \o b)[Len(a) + i] = b[i]
OBVIOUS

\* One element.
LEMMA OneLong ==
    ASSUME NEW S, NEW x \in S
    PROVE  <<x>> \in Seq(S) /\ Len(<<x>>) = 1 /\ <<x>>[1] = x
OBVIOUS

\* Equal concatenations whose fronts are equally long.
LEMMA Splits ==
    ASSUME NEW S, NEW a \in Seq(S), NEW b \in Seq(S), NEW c \in Seq(S), NEW d \in Seq(S),
           a \o b = c \o d, Len(a) = Len(c)
    PROVE  a = c /\ b = d
<1>1. Len(b) = Len(d)
  BY Joins
<1>2. \A i \in 1..Len(a) : a[i] = c[i]
  BY Joins
<1>3. ASSUME NEW i \in 1..Len(b)
      PROVE  b[i] = d[i]
  <2>1. (a \o b)[Len(a) + i] = b[i]
    OBVIOUS
  <2>2. (c \o d)[Len(c) + i] = d[i]
    BY <1>1
  <2> QED BY <2>1, <2>2
<1> QED BY <1>1, <1>2, <1>3, SeqEqual

\* A front of a concatenation that is at least as long as the first part.
LEMMA Overlaps ==
    ASSUME NEW S, NEW a \in Seq(S), NEW b \in Seq(S), NEW c \in Seq(S), NEW d \in Seq(S),
           a \o b = c \o d, Len(c) <= Len(a)
    PROVE  Skip(a, Len(c)) \o b = d /\ Take(a, Len(c)) = c
<1>1. Len(c) \in Nat /\ Len(c) <= Len(a)
  OBVIOUS
<1>2. PICK t \in Seq(S), k \in Seq(S) : /\ t = Take(a, Len(c)) /\ k = Skip(a, Len(c))
                                       /\ t \o k = a /\ Len(t) = Len(c)
  BY <1>1, TakeSkip
<1>3. (t \o k) \o b = t \o (k \o b)
  OBVIOUS
<1>4. k \o b \in Seq(S)
  OBVIOUS
<1>5. t \o (k \o b) = c \o d
  BY <1>2, <1>3
<1>6. t = c /\ k \o b = d
  BY <1>2, <1>4, <1>5, Splits
<1> QED BY <1>2, <1>6

\* A front of what is longer.
LEMMA PrefixOfJoin ==
    ASSUME NEW S, NEW a \in Seq(S), NEW b \in Seq(S)
    PROVE  IsPrefix(a, a \o b)
<1>1. Len(a) <= Len(a \o b) /\ a \o b \in Seq(S)
  BY Joins
<1>2. SubSeq(a, 1, Len(a)) = a
  BY SubSeqFull
<1>3. Take(a \o b, Len(a)) = a /\ Skip(a \o b, Len(a)) \o <<>> = b
  <2>1. (a \o b) \o <<>> = a \o b /\ <<>> \in Seq(S)
    BY <1>1, Joins
  <2> QED BY <1>1, <2>1, Overlaps
<1>4. SubSeq(a \o b, 1, Len(a)) = Take(a \o b, Len(a))
  BY <1>1 DEF Take
<1> QED BY <1>1, <1>2, <1>3, <1>4 DEF IsPrefix

\* What a front leaves.
LEMMA PrefixLeaves ==
    ASSUME NEW S, NEW a \in Seq(S), NEW b \in Seq(S), IsPrefix(a, b)
    PROVE  \E r \in Seq(S) : b = a \o r
<1> DEFINE r == Skip(b, Len(a))
<1>1. Len(a) \in Nat /\ Len(a) <= Len(b) /\ Len(b) \in Nat
  BY DEF IsPrefix
<1>2. Take(b, Len(a)) = a
  <2>1. SubSeq(a, 1, Len(a)) = a /\ SubSeq(a, 1, Len(a)) = SubSeq(b, 1, Len(a))
    BY SubSeqFull DEF IsPrefix
  <2> QED BY <2>1, <1>1 DEF Take
<1>3. r \in Seq(S) /\ b = a \o r
  BY <1>1, <1>2, TakeSkip
<1> QED BY <1>3

\* A front of a front, and of what is appended to.
LEMMA PrefixGrows ==
    ASSUME NEW S, NEW a \in Seq(S), NEW b \in Seq(S), NEW c \in Seq(S), IsPrefix(a, b)
    PROVE  IsPrefix(a, b \o c)
<1>1. PICK r \in Seq(S) : b = a \o r
  BY PrefixLeaves
<1>2. b \o c = a \o (r \o c) /\ r \o c \in Seq(S)
  BY <1>1, ConcatAssociative, Joins
<1> QED BY <1>2, PrefixOfJoin

\* A front of a front.
LEMMA PrefixOn ==
    ASSUME NEW S, NEW a \in Seq(S), NEW b \in Seq(S), NEW c \in Seq(S),
           IsPrefix(a, b), IsPrefix(b, c)
    PROVE  IsPrefix(a, c)
<1>1. PICK r \in Seq(S) : c = b \o r
  BY PrefixLeaves
<1> QED BY <1>1, PrefixGrows

-----------------------------------------------------------------------------
(* Frames.                                                                  *)

\* Division with a remainder.
LEMMA Divides ==
    ASSUME NEW n \in Nat, NEW m \in Nat, m > 0
    PROVE  n = m * (n \div m) + (n % m) /\ n \div m \in Nat /\ n % m \in 0..(m - 1)
<1>1. n = m * (n \div m) + (n % m)
  OBVIOUS
<1>2. n \div m \in Nat
  OBVIOUS
<1>3. n % m \in 0..(m - 1)
  OBVIOUS
<1> QED BY <1>1, <1>2, <1>3

\* A number as two bytes and back.
LEMMA TwoBytes ==
    ASSUME NEW n \in Nat
    PROVE  /\ u16(n) \in Bytes /\ Len(u16(n)) = 2
           /\ be16(u16(n)[1], u16(n)[2]) = n
<1>1. \A m \in Nat : m > 0 =>
          n = m * (n \div m) + (n % m) /\ n \div m \in Nat /\ n % m \in 0..(m - 1)
  BY Divides
<1>2. PICK a \in Nat, b \in Nat : a = n \div 256 /\ b = n % 256 /\ 256 * a + b = n
  BY <1>1
<1>3. u16(n) = <<a, b>>
  BY <1>2 DEF u16
<1> QED BY <1>2, <1>3 DEF be16, Bytes

\* The layout of a frame.
LEMMA Layout ==
    ASSUME NEW k \in Nat, NEW p \in Bytes, Len(p) <= MAX_PAYLOAD
    PROVE  /\ encode(k, p) \in Bytes /\ Len(encode(k, p)) = 3 + Len(p)
           /\ encode(k, p)[1] = k
           /\ be16(encode(k, p)[2], encode(k, p)[3]) = Len(p)
           /\ \A i \in 1..Len(p) : encode(k, p)[3 + i] = p[i]
<1>1. Len(p) \in Nat /\ MAX_PAYLOAD \in Nat /\ p \in Seq(Nat)
  BY TerminalAssumption DEF Bytes
<1>2. SubSeq(p, 1, Len(p)) = p
  BY SubSeqFull DEF Bytes
<1>3. encode(k, p) = <<k>> \o u16(Len(p)) \o p
  <2>1. ~(Len(p) > MAX_PAYLOAD)
    BY <1>1
  <2> QED BY <1>2, <2>1, Zenon DEF encode
<1>4. PICK u \in Seq(Nat) : u = u16(Len(p)) /\ Len(u) = 2 /\ be16(u[1], u[2]) = Len(p)
  BY <1>1, TwoBytes DEF Bytes
<1>5. PICK h \in Seq(Nat) : h = <<k>> \o u /\ Len(h) = 3 /\ h[1] = k /\ h[2] = u[1] /\ h[3] = u[2]
  <2>1. PICK o \in Seq(Nat) : o = <<k>> /\ Len(o) = 1 /\ o[1] = k
    BY OneLong
  <2>2. o \o u \in Seq(Nat) /\ Len(o \o u) = 3
    <3>1. o \o u \in Seq(Nat) /\ Len(o \o u) = Len(o) + Len(u)
      BY ConcatProperties
    <3> QED BY <1>4, <2>1, <3>1
  <2>3. 1 \in 1..Len(o) /\ 1 \in 1..Len(u) /\ 2 \in 1..Len(u)
    BY <1>4, <2>1
  <2>4. (o \o u)[1] = o[1] /\ (o \o u)[Len(o) + 1] = u[1] /\ (o \o u)[Len(o) + 2] = u[2]
    BY <2>3, JoinLeft, JoinRight
  <2>5. o \o u = <<k>> \o u /\ Len(o) + 1 = 2 /\ Len(o) + 2 = 3
    BY <2>1
  <2>6. (o \o u)[1] = k /\ (o \o u)[2] = u[1] /\ (o \o u)[3] = u[2]
    BY <2>1, <2>4, <2>5
  <2> QED BY <2>2, <2>5, <2>6
<1>6. h \o p \in Seq(Nat) /\ Len(h \o p) = 3 + Len(p)
  BY <1>1, <1>5
<1>7. (h \o p)[1] = h[1] /\ (h \o p)[2] = h[2] /\ (h \o p)[3] = h[3]
  BY <1>1, <1>5
<1>8. ASSUME NEW i \in 1..Len(p)
      PROVE  (h \o p)[3 + i] = p[i]
  <2>1. (h \o p)[Len(h) + i] = p[i]
    BY <1>1, JoinRight
  <2>2. Len(h) = 3
    BY <1>5
  <2> QED BY <2>1, <2>2
<1>9. encode(k, p) = h \o p
  BY <1>3, <1>4, <1>5
<1> QED BY <1>4, <1>5, <1>6, <1>7, <1>8, <1>9 DEF Bytes

\* A buffer at the front of a stream of frames: a frame it holds is the first
\* of the stream, and what it leaves is the front of the rest.
Begins(dec, rest, k, p, s) == dec \o rest = encode(k, p) \o s /\ pop(dec).used # 0
Gives(dec, rest, k, p, s) ==
    /\ pop(dec).used > 0 /\ pop(dec).kind = k /\ pop(dec).payload = p
    /\ Skip(dec, pop(dec).used) \in Bytes
    /\ Skip(dec, pop(dec).used) \o rest = s
\* It is so.
LEMMA PopWhole ==
    ASSUME NEW dec \in Bytes, NEW rest \in Bytes, NEW k \in Nat, NEW p \in Bytes,
           Len(p) <= MAX_PAYLOAD, NEW s \in Bytes, Begins(dec, rest, k, p, s)
    PROVE  Gives(dec, rest, k, p, s)
<1> USE DEF Begins, Gives
<1> DEFINE e == encode(k, p)
           n == Len(p)
<1>0. n \in Nat
  BY DEF Bytes
<1>1. /\ e \in Seq(Nat) /\ Len(e) = 3 + n /\ e[1] = k /\ be16(e[2], e[3]) = n
      /\ \A i \in 1..n : e[3 + i] = p[i]
  <2>1. e \in Seq(Nat) /\ Len(e) = 3 + n /\ e[1] = k /\ be16(e[2], e[3]) = n
    BY Layout DEF Bytes
  <2>2. \A i \in 1..n : e[3 + i] = p[i]
    BY Layout DEF Bytes
  <2> QED BY <2>1, <2>2
<1>2. /\ dec \in Seq(Nat) /\ rest \in Seq(Nat) /\ s \in Seq(Nat) /\ dec \o rest = e \o s
      /\ Len(dec) \in Nat
  BY DEF Bytes
<1>02. p \in Seq(Nat) /\ Len(p) = n
  BY DEF Bytes
<1> HIDE DEF e, n
<1>3. Len(dec) >= 3
  BY <1>2 DEF pop, HEADER
<1>4. ASSUME NEW i \in 1..3
      PROVE  dec[i] = e[i]
  <2>1. (dec \o rest)[i] = dec[i]
    <3>1. i \in 1..Len(dec)
      BY <1>2, <1>3
    <3> QED BY <1>2, <3>1, JoinLeft
  <2>2. (e \o s)[i] = e[i]
    <3>1. i \in 1..Len(e)
      BY <1>0, <1>1
    <3> QED BY <1>1, <1>2, <3>1, JoinLeft
  <2> QED BY <1>2, <2>1, <2>2
<1>5. be16(dec[2], dec[3]) = n
  BY <1>1, <1>4
<1>6. Len(dec) >= 3 + n
  BY <1>0, <1>1, <1>2, <1>3, <1>5 DEF pop, HEADER
<1>7. pop(dec) = [used |-> 3 + n, kind |-> dec[1], payload |-> SubSeq(dec, 4, 3 + n)]
  BY <1>0, <1>1, <1>2, <1>3, <1>5, <1>6 DEF pop, HEADER
<1>8. Take(dec, Len(e)) = e /\ Skip(dec, Len(e)) \o rest = s
  <2>1. Len(e) <= Len(dec)
    BY <1>1, <1>6
  <2> QED BY <1>1, <1>2, <2>1, Overlaps
<1>9. SubSeq(dec, 4, 3 + n) = p
  <2>1. ASSUME NEW i \in 1..n
        PROVE  dec[3 + i] = p[i]
    <3>1. \A j \in 1..Len(Take(dec, Len(e))) : Take(dec, Len(e))[j] = dec[j]
      BY <1>0, <1>1, <1>2, TakeSkip
    <3>2. 3 + i \in 1..Len(e)
      BY <1>0, <1>1
    <3> QED BY <1>1, <1>8, <3>1, <3>2
  <2>2. SubSeq(dec, 4, 3 + n) \in Seq(Nat) /\ Len(SubSeq(dec, 4, 3 + n)) = n
    BY <1>0, <1>2, <1>6
  <2>3. ASSUME NEW i \in 1..n
        PROVE  SubSeq(dec, 4, 3 + n)[i] = dec[3 + i]
    BY <1>0, <1>2, <1>6
  <2> QED BY <1>02, <2>1, <2>2, <2>3, SeqEqual
<1>10. Skip(dec, Len(e)) \in Bytes
  <2>1. Len(e) \in Nat
    BY <1>0, <1>1
  <2> QED BY <1>2, <2>1, TakeSkip DEF Bytes
<1>11. pop(dec).used = Len(e) /\ pop(dec).kind = dec[1] /\ pop(dec).payload = p
  BY <1>1, <1>7, <1>9
<1>12. dec[1] = k /\ Len(e) > 0
  BY <1>0, <1>1, <1>4
<1> QED BY <1>8, <1>10, <1>11, <1>12

\* A buffer that holds nothing, or less than the first frame, gives none.
LEMMA PopNothing ==
    ASSUME NEW dec \in Bytes, NEW rest \in Bytes, dec \o rest = <<>>
    PROVE  pop(dec).used = 0 /\ dec = <<>> /\ rest = <<>>
<1>1. dec = <<>> /\ rest = <<>>
  BY ConcatEqualIffEmpty DEF Bytes
<1> QED BY <1>1 DEF pop, HEADER

-----------------------------------------------------------------------------
(* What a stream of frames carries.  M says what a frame in the middle of    *)
(* the stream stands for, E the frames that end it.  Carries is the least    *)
(* relation between bytes, what they stand for and the end that holds of the *)
(* empty stream and of a stream with one more frame.                         *)
Things == Nat \cup ({"in"} \X Nat) \cup ({"size"} \X Nat \X Nat)
Items == Seq(Things)
Ends == {"open", "detach", "protocol"} \cup Reasons
Meanings == [code : Bytes, item : Items]
Finals == [code : Bytes, end : Ends \ {"open"}]
Streams == Bytes \X Items \X Ends

Closed(M, E, R) ==
    /\ <<<<>>, <<>>, "open">> \in R
    /\ \A s \in Bytes, it \in Items, m \in M :
          <<s, it, "open">> \in R => <<s \o m.code, it \o m.item, "open">> \in R
    /\ \A s \in Bytes, it \in Items, e \in E :
          <<s, it, "open">> \in R => <<s \o e.code, it, e.end>> \in R
Carries(M, E, s, it, end) ==
    \A R \in SUBSET Streams : Closed(M, E, R) => <<s, it, end>> \in R

\* Nothing carries nothing.
LEMMA CarriesNothing ==
    ASSUME NEW M, NEW E
    PROVE  Carries(M, E, <<>>, <<>>, "open")
BY DEF Carries, Closed

\* One more frame.
LEMMA CarriesMore ==
    ASSUME NEW M, NEW E, NEW s \in Bytes, NEW it \in Items, NEW m \in M,
           Carries(M, E, s, it, "open")
    PROVE  Carries(M, E, s \o m.code, it \o m.item, "open")
BY Zenon DEF Carries, Closed

\* The last frame.
LEMMA CarriesLast ==
    ASSUME NEW M, NEW E, NEW s \in Bytes, NEW it \in Items, NEW e \in E,
           Carries(M, E, s, it, "open")
    PROVE  Carries(M, E, s \o e.code, it, e.end)
BY Zenon DEF Carries, Closed

\* Bytes and items.
LEMMA EmptyOnes == <<>> \in Bytes /\ <<>> \in Items
BY DEF Bytes, Items
\* And their concatenations.
LEMMA JoinBytes ==
    ASSUME NEW a \in Bytes, NEW b \in Bytes
    PROVE  a \o b \in Bytes
BY DEF Bytes
\* And their concatenations.
LEMMA JoinItems ==
    ASSUME NEW a \in Items, NEW b \in Items
    PROVE  a \o b \in Items
BY DEF Items

\* In whatever order.
LEMMA AssocBytes ==
    ASSUME NEW a \in Bytes, NEW b \in Bytes, NEW c \in Bytes
    PROVE  (a \o b) \o c = a \o (b \o c)
BY ConcatAssociative DEF Bytes
\* In whatever order.
LEMMA AssocItems ==
    ASSUME NEW a \in Items, NEW b \in Items, NEW c \in Items
    PROVE  (a \o b) \o c = a \o (b \o c)
BY ConcatAssociative DEF Items
\* With nothing.
LEMMA NoBytes ==
    ASSUME NEW a \in Bytes
    PROVE  a \o <<>> = a /\ <<>> \o a = a
BY ConcatEmptySeq DEF Bytes
\* With nothing.
LEMMA NoItems ==
    ASSUME NEW a \in Items
    PROVE  a \o <<>> = a /\ <<>> \o a = a
BY ConcatEmptySeq DEF Items

\* What is related is what it should be.
LEMMA CarriesType ==
    ASSUME NEW M, NEW E, M \subseteq Meanings, E \subseteq Finals, NEW s, NEW it, NEW end,
           Carries(M, E, s, it, end)
    PROVE  s \in Bytes /\ it \in Items /\ end \in Ends
<1>1. <<<<>>, <<>>, "open">> \in Streams
  BY EmptyOnes DEF Streams, Ends
<1>2. ASSUME NEW a \in Bytes, NEW i \in Items, NEW m \in M
      PROVE  <<a \o m.code, i \o m.item, "open">> \in Streams
  <2>1. m.code \in Bytes /\ m.item \in Items
    BY DEF Meanings
  <2>2. a \o m.code \in Bytes /\ i \o m.item \in Items
    BY <2>1, JoinBytes, JoinItems
  <2> QED BY <2>2 DEF Streams, Ends
<1>3. ASSUME NEW a \in Bytes, NEW i \in Items, NEW e \in E
      PROVE  <<a \o e.code, i, e.end>> \in Streams
  <2>1. e.code \in Bytes /\ e.end \in Ends
    BY DEF Finals
  <2>2. a \o e.code \in Bytes
    BY <2>1, JoinBytes
  <2> QED BY <2>1, <2>2 DEF Streams
<1>4. Closed(M, E, Streams)
  BY <1>1, <1>2, <1>3 DEF Closed
<1>5. <<s, it, end>> \in Streams
  BY <1>4 DEF Carries
<1> QED BY <1>5 DEF Streams

\* The empty stream, one that begins with a frame in the middle, or one that
\* is its last frame.
NextFrame(M, E, s, it, end) ==
    \/ s = <<>> /\ it = <<>> /\ end = "open"
    \/ \E m \in M, r \in Bytes, i \in Items :
          s = m.code \o r /\ it = m.item \o i /\ Carries(M, E, r, i, end)
    \/ \E e \in E : s = e.code /\ it = <<>> /\ end = e.end

\* Every stream is one of these.
LEMMA CarriesFirst ==
    ASSUME NEW M, NEW E, M \subseteq Meanings, E \subseteq Finals, NEW s, NEW it, NEW end,
           Carries(M, E, s, it, end)
    PROVE  NextFrame(M, E, s, it, end)
<1> DEFINE R == {x \in Streams : NextFrame(M, E, x[1], x[2], x[3])}
<1>1. <<<<>>, <<>>, "open">> \in R
  BY EmptyOnes DEF Streams, Ends, NextFrame
<1>2. ASSUME NEW a \in Bytes, NEW i \in Items, NEW m \in M, <<a, i, "open">> \in R
      PROVE  <<a \o m.code, i \o m.item, "open">> \in R
  <2>1. m.code \in Bytes /\ m.item \in Items
    BY DEF Meanings
  <2>2. a \o m.code \in Bytes /\ i \o m.item \in Items
    BY <2>1, JoinBytes, JoinItems
  <2>3. NextFrame(M, E, a, i, "open")
    BY <1>2
  <2>4. CASE a = <<>> /\ i = <<>>
    <3>1. /\ a \o m.code = m.code \o <<>> /\ i \o m.item = m.item \o <<>>
      <4>1. <<>> \o m.code = m.code /\ m.code \o <<>> = m.code
        BY <2>1, Joins DEF Bytes
      <4>2. <<>> \o m.item = m.item /\ m.item \o <<>> = m.item
        BY <2>1, Joins DEF Items
      <4> QED BY <2>4, <4>1, <4>2
    <3>2. NextFrame(M, E, a \o m.code, i \o m.item, "open")
      BY <3>1, EmptyOnes, CarriesNothing, Zenon DEF NextFrame
    <3> QED BY <2>2, <3>2 DEF Streams, Ends
  <2>5. ASSUME NEW n \in M, NEW r \in Bytes, NEW j \in Items,
               a = n.code \o r, i = n.item \o j, Carries(M, E, r, j, "open")
        PROVE  <<a \o m.code, i \o m.item, "open">> \in R
    <3>1. n.code \in Bytes /\ n.item \in Items
      BY DEF Meanings
    <3>2. r \o m.code \in Bytes /\ j \o m.item \in Items
      BY <2>1, JoinBytes, JoinItems
    <3>3. a \o m.code = n.code \o (r \o m.code)
      BY <2>1, <2>5, <3>1, AssocBytes
    <3>4. i \o m.item = n.item \o (j \o m.item)
      BY <2>1, <2>5, <3>1, AssocItems
    <3>5. Carries(M, E, r \o m.code, j \o m.item, "open")
      BY <2>5, CarriesMore
    <3>6. NextFrame(M, E, a \o m.code, i \o m.item, "open")
      BY <3>2, <3>3, <3>4, <3>5, Zenon DEF NextFrame
    <3> QED BY <2>2, <3>6 DEF Streams, Ends
  <2>6. ASSUME NEW e \in E PROVE e.end # "open"
    BY DEF Finals
  <2> QED BY <2>3, <2>4, <2>5, <2>6 DEF NextFrame
<1>3. ASSUME NEW a \in Bytes, NEW i \in Items, NEW e \in E, <<a, i, "open">> \in R
      PROVE  <<a \o e.code, i, e.end>> \in R
  <2>1. e.code \in Bytes /\ e.end \in Ends
    BY DEF Finals
  <2>2. a \o e.code \in Bytes
    BY <2>1, JoinBytes
  <2>3. NextFrame(M, E, a, i, "open")
    BY <1>3
  <2>4. CASE a = <<>> /\ i = <<>>
    <3>1. a \o e.code = e.code
      BY <2>1, <2>4, Joins DEF Bytes
    <3>2. NextFrame(M, E, a \o e.code, i, e.end)
      BY <3>1, <2>4, Zenon DEF NextFrame
    <3> QED BY <2>1, <2>2, <3>2 DEF Streams
  <2>5. ASSUME NEW n \in M, NEW r \in Bytes, NEW j \in Items,
               a = n.code \o r, i = n.item \o j, Carries(M, E, r, j, "open")
        PROVE  <<a \o e.code, i, e.end>> \in R
    <3>1. n.code \in Bytes
      BY DEF Meanings
    <3>2. r \o e.code \in Bytes
      BY <2>1, JoinBytes
    <3>3. a \o e.code = n.code \o (r \o e.code)
      BY <2>1, <2>5, <3>1, AssocBytes
    <3>5. Carries(M, E, r \o e.code, j, e.end)
      BY <2>5, CarriesLast
    <3>6. NextFrame(M, E, a \o e.code, i, e.end)
      BY <2>5, <3>2, <3>3, <3>5, Zenon DEF NextFrame
    <3> QED BY <2>1, <2>2, <3>6 DEF Streams
  <2>6. ASSUME NEW f \in E PROVE f.end # "open"
    BY DEF Finals
  <2> QED BY <2>3, <2>4, <2>5, <2>6 DEF NextFrame
<1>4. Closed(M, E, R) /\ R \in SUBSET Streams
  <2>1. R \in SUBSET Streams
    OBVIOUS
  <2> HIDE DEF R
  <2> QED BY <1>1, <1>2, <1>3, <2>1 DEF Closed
<1>5. <<s, it, end>> \in R
  <2> HIDE DEF R
  <2> QED BY <1>4 DEF Carries
<1> QED BY <1>5

-----------------------------------------------------------------------------
(* The two directions of the socket.                                        *)
Payloads == {p \in Bytes : Len(p) <= MAX_PAYLOAD}
Typed(p) == [code |-> encode(INPUT, p), item |-> AsInput(p)]
Sized(r, c) == [code |-> encode_resize(r, c), item |-> <<<<"size", r, c>>>>]
Greeting == [code |-> encode(HELLO, <<1>>), item |-> <<>>]
Farewell == [code |-> encode(DETACH, <<>>), end |-> "detach"]
Shown(p) == [code |-> encode(OUTPUT, p), item |-> p]
Told(r) == [code |-> encode(CLOSED, <<Code(r)>>), end |-> r]
DownM == {Typed(p) : p \in Payloads} \cup {Sized(r, c) : r \in Nat, c \in Nat} \cup {Greeting}
DownE == {Farewell}
UpM == {Shown(p) : p \in Payloads}
UpE == {Told(r) : r \in Reasons \cup {"protocol"}}

\* Bytes as items.
LEMMA AsInputType ==
    ASSUME NEW b \in Bytes
    PROVE  /\ AsInput(b) \in Items /\ Len(AsInput(b)) = Len(b)
           /\ \A i \in 1..Len(b) : AsInput(b)[i] = <<"in", b[i]>>
<1>1. DOMAIN b = 1..Len(b) /\ Len(b) \in Nat /\ \A i \in 1..Len(b) : b[i] \in Nat
  BY DEF Bytes
<1>2. \A i \in 1..Len(b) : <<"in", b[i]>> \in Things
  BY <1>1 DEF Things
<1> QED BY <1>1, <1>2 DEF AsInput, Items

\* Of what is joined.
LEMMA AsInputJoins ==
    ASSUME NEW a \in Bytes, NEW b \in Bytes
    PROVE  AsInput(a \o b) = AsInput(a) \o AsInput(b)
<1>1. a \o b \in Bytes /\ Len(a \o b) = Len(a) + Len(b) /\ Len(a) \in Nat /\ Len(b) \in Nat
  BY Joins DEF Bytes
<1>2. /\ AsInput(a) \in Seq(Things) /\ AsInput(b) \in Seq(Things)
      /\ AsInput(a \o b) \in Seq(Things) /\ AsInput(a) \o AsInput(b) \in Seq(Things)
      /\ Len(AsInput(a \o b)) = Len(a) + Len(b)
      /\ Len(AsInput(a) \o AsInput(b)) = Len(a) + Len(b)
      /\ Len(AsInput(a)) = Len(a) /\ Len(AsInput(b)) = Len(b)
  <2>1. /\ AsInput(a) \in Seq(Things) /\ AsInput(b) \in Seq(Things)
        /\ AsInput(a \o b) \in Seq(Things)
        /\ Len(AsInput(a \o b)) = Len(a) + Len(b)
        /\ Len(AsInput(a)) = Len(a) /\ Len(AsInput(b)) = Len(b)
    BY <1>1, AsInputType DEF Items
  <2>2. /\ AsInput(a) \o AsInput(b) \in Seq(Things)
        /\ Len(AsInput(a) \o AsInput(b)) = Len(AsInput(a)) + Len(AsInput(b))
    BY <2>1, ConcatProperties
  <2> QED BY <2>1, <2>2
<1>3. ASSUME NEW i \in 1..(Len(a) + Len(b))
      PROVE  AsInput(a \o b)[i] = (AsInput(a) \o AsInput(b))[i]
  <2>1. AsInput(a \o b)[i] = <<"in", (a \o b)[i]>>
    BY <1>1, AsInputType
  <2>2. CASE i <= Len(a)
    <3>1. i \in 1..Len(a) /\ i \in 1..Len(AsInput(a))
      BY <1>1, <1>2, <2>2
    <3>2. (a \o b)[i] = a[i]
      BY <3>1, JoinLeft DEF Bytes
    <3>3. (AsInput(a) \o AsInput(b))[i] = AsInput(a)[i]
      BY <1>2, <3>1, JoinLeft
    <3> QED BY <2>1, <3>1, <3>2, <3>3, AsInputType
  <2>3. CASE i > Len(a)
    <3>1. PICK j \in 1..Len(b) : i = Len(a) + j
      <4>1. i - Len(a) \in 1..Len(b) /\ i = Len(a) + (i - Len(a))
        BY <1>1, <2>3
      <4> QED BY <4>1
    <3>2. (a \o b)[Len(a) + j] = b[j]
      BY JoinRight DEF Bytes
    <3>3. (AsInput(a) \o AsInput(b))[Len(AsInput(a)) + j] = AsInput(b)[j]
      BY <1>2, JoinRight
    <3>4. AsInput(b)[j] = <<"in", b[j]>>
      BY AsInputType
    <3>5. (a \o b)[i] = b[j]
      BY <3>1, <3>2
    <3>6. Len(AsInput(a)) + j = i
      BY <1>2, <3>1
    <3>7. (AsInput(a) \o AsInput(b))[i] = AsInput(b)[j]
      BY <3>3, <3>6
    <3> QED BY <2>1, <3>4, <3>5, <3>7
  <2>4. i <= Len(a) \/ i > Len(a)
    BY <1>1
  <2> QED BY <2>2, <2>3, <2>4
<1> QED BY <1>2, <1>3, SeqEqual

\* What a resize says.
LEMMA ResizeSays ==
    ASSUME NEW r \in Nat, NEW c \in Nat
    PROVE  /\ u16(r) \o u16(c) \in Payloads
           /\ decode_resize(u16(r) \o u16(c)) = <<<<"size", r, c>>>>
           /\ <<<<"size", r, c>>>> \in Items
<1>1. PICK a \in Seq(Nat) : a = u16(r) /\ Len(a) = 2 /\ be16(a[1], a[2]) = r
  BY TwoBytes DEF Bytes
<1>2. PICK b \in Seq(Nat) : b = u16(c) /\ Len(b) = 2 /\ be16(b[1], b[2]) = c
  BY TwoBytes DEF Bytes
<1>3. a \o b \in Seq(Nat) /\ Len(a \o b) = Len(a) + Len(b)
  BY ConcatProperties
<1>4. 1 \in 1..Len(a) /\ 2 \in 1..Len(a) /\ 1 \in 1..Len(b) /\ 2 \in 1..Len(b)
  BY <1>1, <1>2
<1>5. /\ (a \o b)[1] = a[1] /\ (a \o b)[2] = a[2]
      /\ (a \o b)[Len(a) + 1] = b[1] /\ (a \o b)[Len(a) + 2] = b[2]
  BY <1>4, JoinLeft, JoinRight
<1>6. Len(a \o b) = 4 /\ (a \o b)[3] = b[1] /\ (a \o b)[4] = b[2]
  BY <1>1, <1>2, <1>3, <1>5
<1>7. decode_resize(a \o b) = <<<<"size", r, c>>>>
  BY <1>1, <1>2, <1>5, <1>6 DEF decode_resize
<1>8. <<"size", r, c>> \in Things
  BY DEF Things
<1>9. a \o b \in Payloads
  BY <1>3, <1>6, TerminalAssumption DEF Payloads, Bytes
<1> QED BY <1>1, <1>2, <1>7, <1>8, <1>9, OneLong DEF Items

\* The kinds of frames are different numbers.
LEMMA Kinds ==
    /\ INPUT \in Nat /\ RESIZE \in Nat /\ DETACH \in Nat /\ HELLO \in Nat
    /\ OUTPUT \in Nat /\ CLOSED \in Nat
    /\ INPUT # DETACH /\ RESIZE # DETACH /\ HELLO # DETACH /\ INPUT # RESIZE
    /\ HELLO # INPUT /\ HELLO # RESIZE /\ OUTPUT # CLOSED
BY DEF INPUT, RESIZE, DETACH, HELLO, OUTPUT, CLOSED

\* The short payloads.
LEMMA ShortPayloads ==
    /\ <<>> \in Payloads /\ <<1>> \in Payloads
    /\ \A r \in Reasons \cup {"protocol"} : Code(r) \in Nat /\ <<Code(r)>> \in Payloads
<1>1. MAX_PAYLOAD \in Nat /\ MAX_PAYLOAD >= 4
  BY TerminalAssumption
<1>2. ASSUME NEW n \in Nat PROVE <<n>> \in Payloads
  BY <1>1, OneLong DEF Payloads, Bytes
<1>3. ASSUME NEW r \in Reasons \cup {"protocol"} PROVE Code(r) \in Nat
  <2>1. r \in {"exit_0", "exit_n", "stopped", "shutdown", "protocol"}
    BY TerminalAssumption
  <2>2. r = "exit_0" => Code(r) = 1
    BY DEF Code
  <2>3. r = "exit_n" => Code(r) = 2
    BY DEF Code
  <2>4. r = "stopped" => Code(r) = 3
    BY DEF Code
  <2>5. r = "shutdown" => Code(r) = 4
    BY DEF Code
  <2>6. r = "protocol" => Code(r) = 5
    BY DEF Code
  <2> QED BY <2>1, <2>2, <2>3, <2>4, <2>5, <2>6
<1>4. <<>> \in Payloads
  BY <1>1 DEF Payloads, Bytes
<1> QED BY <1>2, <1>3, <1>4

\* The meanings are meanings.
LEMMA MeaningTypes ==
    DownM \subseteq Meanings /\ DownE \subseteq Finals /\ UpM \subseteq Meanings /\ UpE \subseteq Finals
<1>1. ASSUME NEW k \in Nat, NEW p \in Payloads PROVE encode(k, p) \in Bytes
  BY Layout DEF Payloads
<1>2. ASSUME NEW p \in Payloads PROVE Typed(p) \in Meanings /\ Shown(p) \in Meanings
  <2>1. encode(INPUT, p) \in Bytes /\ encode(OUTPUT, p) \in Bytes
    BY <1>1, Kinds
  <2>2. AsInput(p) \in Items
    BY AsInputType DEF Payloads
  <2>3. p \in Items
    BY SeqMonotonic DEF Payloads, Bytes, Items, Things
  <2> QED BY <2>1, <2>2, <2>3 DEF Typed, Shown, Meanings
<1>3. ASSUME NEW r \in Nat, NEW c \in Nat PROVE Sized(r, c) \in Meanings
  BY <1>1, ResizeSays, Kinds DEF Sized, encode_resize, Meanings
<1>4. Greeting \in Meanings
  BY <1>1, Kinds, ShortPayloads, EmptyOnes DEF Greeting, Meanings
<1>5. Farewell \in Finals
  BY <1>1, Kinds, ShortPayloads DEF Farewell, Finals, Ends
<1>6. ASSUME NEW r \in Reasons \cup {"protocol"} PROVE Told(r) \in Finals
  <2>1. r # "open" /\ r \in Ends
    BY TerminalAssumption DEF Ends
  <2>2. encode(CLOSED, <<Code(r)>>) \in Bytes
    BY <1>1, Kinds, ShortPayloads
  <2> QED BY <2>1, <2>2 DEF Told, Finals
<1> QED BY <1>2, <1>3, <1>4, <1>5, <1>6 DEF DownM, DownE, UpM, UpE

\* What the supervisor takes from a client, a frame at a time.
FrameItem(f) ==
    IF f.kind = INPUT THEN AsInput(f.payload)
    ELSE IF f.kind = RESIZE THEN decode_resize(f.payload) ELSE <<>>

\* A frame that the supervisor's decoder gives is the first that was sent; a
\* detach is the last.
LEMMA PopDown ==
    ASSUME NEW dec \in Bytes, NEW rest \in Bytes, NEW it, NEW end,
           Carries(DownM, DownE, dec \o rest, it, end), pop(dec).used # 0
    PROVE  /\ pop(dec).used > 0 /\ Skip(dec, pop(dec).used) \in Bytes
           /\ FrameItem(pop(dec)) \in Items
           /\ IF pop(dec).kind = DETACH
              THEN it = <<>> /\ end = "detach" /\ FrameItem(pop(dec)) = <<>>
              ELSE \E i \in Items :
                      /\ it = FrameItem(pop(dec)) \o i
                      /\ Carries(DownM, DownE, Skip(dec, pop(dec).used) \o rest, i, end)
<1>1. NextFrame(DownM, DownE, dec \o rest, it, end)
  BY CarriesFirst, MeaningTypes
<1>2. dec \o rest # <<>>
  BY PopNothing
<1>3. ASSUME NEW m \in DownM, NEW r \in Bytes, NEW i \in Items,
             dec \o rest = m.code \o r, it = m.item \o i, Carries(DownM, DownE, r, i, end)
      PROVE  /\ pop(dec).used > 0 /\ Skip(dec, pop(dec).used) \in Bytes
             /\ Skip(dec, pop(dec).used) \o rest = r
             /\ pop(dec).kind # DETACH /\ FrameItem(pop(dec)) = m.item /\ m.item \in Items
  <2>0. m.item \in Items
    BY MeaningTypes DEF Meanings
  <2>1. CASE m \in {Typed(p) : p \in Payloads}
    <3>1. PICK p \in Payloads : m = Typed(p)
      BY <2>1
    <3>2. m.code = encode(INPUT, p) /\ m.item = AsInput(p) /\ p \in Bytes /\ Len(p) <= MAX_PAYLOAD
      BY <3>1 DEF Typed, Payloads
    <3>3. /\ pop(dec).used > 0 /\ pop(dec).kind = INPUT /\ pop(dec).payload = p
          /\ Skip(dec, pop(dec).used) \in Bytes /\ Skip(dec, pop(dec).used) \o rest = r
      <4>1. Begins(dec, rest, INPUT, p, r)
        BY <1>3, <3>2 DEF Begins
      <4>2. Gives(dec, rest, INPUT, p, r)
        BY <1>3, <3>2, <4>1, EmptyOnes, Kinds, PopWhole
      <4> QED BY <4>2 DEF Gives
    <3> QED BY <2>0, <3>2, <3>3, Kinds DEF FrameItem
  <2>2. CASE m \in {Sized(a, c) : a \in Nat, c \in Nat}
    <3>1. PICK a \in Nat, c \in Nat : m = Sized(a, c)
      BY <2>2
    <3>2. PICK p \in Payloads : p = u16(a) \o u16(c) /\ decode_resize(p) = <<<<"size", a, c>>>>
      BY ResizeSays
    <3>3. m.code = encode(RESIZE, p) /\ m.item = decode_resize(p) /\ p \in Bytes /\ Len(p) <= MAX_PAYLOAD
      BY <3>1, <3>2 DEF Sized, encode_resize, Payloads
    <3>4. /\ pop(dec).used > 0 /\ pop(dec).kind = RESIZE /\ pop(dec).payload = p
          /\ Skip(dec, pop(dec).used) \in Bytes /\ Skip(dec, pop(dec).used) \o rest = r
      <4>1. Begins(dec, rest, RESIZE, p, r)
        BY <1>3, <3>3 DEF Begins
      <4>2. Gives(dec, rest, RESIZE, p, r)
        BY <1>3, <3>3, <4>1, EmptyOnes, Kinds, PopWhole
      <4> QED BY <4>2 DEF Gives
    <3> QED BY <2>0, <3>3, <3>4, Kinds DEF FrameItem
  <2>3. CASE m = Greeting
    <3>1. m.code = encode(HELLO, <<1>>) /\ m.item = <<>>
      BY <2>3 DEF Greeting
    <3>2. <<1>> \in Bytes /\ Len(<<1>>) <= MAX_PAYLOAD
      BY ShortPayloads DEF Payloads
    <3>3. /\ pop(dec).used > 0 /\ pop(dec).kind = HELLO
          /\ Skip(dec, pop(dec).used) \in Bytes /\ Skip(dec, pop(dec).used) \o rest = r
      <4>1. Begins(dec, rest, HELLO, <<1>>, r)
        BY <1>3, <3>1, <3>2 DEF Begins
      <4>2. Gives(dec, rest, HELLO, <<1>>, r)
        BY <1>3, <3>1, <3>2, <4>1, EmptyOnes, Kinds, PopWhole
      <4> QED BY <4>2 DEF Gives
    <3> QED BY <2>0, <3>1, <3>3, Kinds DEF FrameItem
  <2> QED BY <2>1, <2>2, <2>3 DEF DownM
<1>4. ASSUME NEW e \in DownE, dec \o rest = e.code, it = <<>>, end = e.end
      PROVE  /\ pop(dec).used > 0 /\ Skip(dec, pop(dec).used) \in Bytes
             /\ pop(dec).kind = DETACH /\ end = "detach" /\ FrameItem(pop(dec)) = <<>>
  <2>1. e = Farewell
    BY DEF DownE
  <2>2. e.code = encode(DETACH, <<>>) /\ e.end = "detach"
    BY <2>1 DEF Farewell
  <2>3. <<>> \in Bytes /\ Len(<<>>) <= MAX_PAYLOAD
    BY ShortPayloads DEF Payloads
  <2>4. encode(DETACH, <<>>) \in Bytes
    BY <2>3, Kinds, Layout
  <2>5. dec \o rest = encode(DETACH, <<>>) \o <<>>
    BY <1>4, <2>2, <2>4, NoBytes
  <2>6. /\ pop(dec).used > 0 /\ pop(dec).kind = DETACH
        /\ Skip(dec, pop(dec).used) \in Bytes
    <3>1. Begins(dec, rest, DETACH, <<>>, <<>>)
      BY <2>3, <2>5 DEF Begins
    <3>2. Gives(dec, rest, DETACH, <<>>, <<>>)
      BY <2>3, <2>5, <3>1, EmptyOnes, Kinds, PopWhole
    <3> QED BY <3>2 DEF Gives
  <2> QED BY <1>4, <2>2, <2>6, Kinds DEF FrameItem
<1>5. CASE \E m \in DownM, r \in Bytes, i \in Items :
              dec \o rest = m.code \o r /\ it = m.item \o i /\ Carries(DownM, DownE, r, i, end)
  <2>1. PICK m \in DownM, r \in Bytes, i \in Items :
              dec \o rest = m.code \o r /\ it = m.item \o i /\ Carries(DownM, DownE, r, i, end)
    BY <1>5
  <2>2. /\ pop(dec).used > 0 /\ Skip(dec, pop(dec).used) \in Bytes
        /\ Skip(dec, pop(dec).used) \o rest = r
        /\ pop(dec).kind # DETACH /\ FrameItem(pop(dec)) = m.item /\ m.item \in Items
    BY <1>3, <2>1
  <2> QED BY <2>1, <2>2, Zenon
<1>6. CASE \E e \in DownE : dec \o rest = e.code /\ it = <<>> /\ end = e.end
  <2>1. PICK e \in DownE : dec \o rest = e.code /\ it = <<>> /\ end = e.end
    BY <1>6
  <2> QED BY <1>4, <2>1, EmptyOnes
<1> QED BY <1>1, <1>2, <1>5, <1>6 DEF NextFrame

\* The numbers that stand for the reasons are different.
LEMMA Codes ==
    ASSUME NEW r \in Reasons \cup {"protocol"}
    PROVE  Reason(<<Code(r)>>) = r
<1>1. \A q \in Reasons \cup {"protocol"} :
          q \in {"exit_0", "exit_n", "stopped", "shutdown", "protocol"}
  BY TerminalAssumption
<1>2. /\ Code("exit_0") = 1 /\ Code("exit_n") = 2 /\ Code("stopped") = 3
      /\ Code("shutdown") = 4 /\ Code("protocol") = 5
  BY DEF Code
<1>3. \A q \in Reasons \cup {"protocol"} : Code(q) = Code(r) => q = r
  BY <1>1, <1>2
<1>4. <<Code(r)>>[1] = Code(r)
  OBVIOUS
<1>5. Reason(<<Code(r)>>) = CHOOSE q \in Reasons \cup {"protocol"} : Code(q) = Code(r)
  BY <1>4 DEF Reason
<1> QED BY <1>3, <1>5

\* A frame that the terminal's decoder gives is the first that was sent; the
\* word that the session is over is the last.
LEMMA PopUp ==
    ASSUME NEW dec \in Bytes, NEW rest \in Bytes, NEW it, NEW end,
           Carries(UpM, UpE, dec \o rest, it, end), pop(dec).used # 0
    PROVE  /\ pop(dec).used > 0 /\ Skip(dec, pop(dec).used) \in Bytes
           /\ pop(dec).kind \in {OUTPUT, CLOSED}
           /\ pop(dec).kind = OUTPUT =>
                 /\ pop(dec).payload \in Bytes
                 /\ \E i \in Items :
                      /\ it = pop(dec).payload \o i
                      /\ Carries(UpM, UpE, Skip(dec, pop(dec).used) \o rest, i, end)
           /\ pop(dec).kind = CLOSED =>
                 /\ it = <<>> /\ end \in Reasons \cup {"protocol"}
                 /\ Reason(pop(dec).payload) = end
<1>1. NextFrame(UpM, UpE, dec \o rest, it, end)
  BY CarriesFirst, MeaningTypes
<1>2. dec \o rest # <<>>
  BY PopNothing
<1>3. CASE \E m \in UpM, r \in Bytes, i \in Items :
              dec \o rest = m.code \o r /\ it = m.item \o i /\ Carries(UpM, UpE, r, i, end)
  <2>1. PICK m \in UpM, r \in Bytes, i \in Items :
              dec \o rest = m.code \o r /\ it = m.item \o i /\ Carries(UpM, UpE, r, i, end)
    BY <1>3
  <2>2. PICK p \in Payloads : m = Shown(p)
    BY DEF UpM
  <2>3. m.code = encode(OUTPUT, p) /\ m.item = p /\ p \in Bytes /\ Len(p) <= MAX_PAYLOAD
    BY <2>2 DEF Shown, Payloads
  <2>4. /\ pop(dec).used > 0 /\ pop(dec).kind = OUTPUT /\ pop(dec).payload = p
        /\ Skip(dec, pop(dec).used) \in Bytes /\ Skip(dec, pop(dec).used) \o rest = r
    <3>1. Begins(dec, rest, OUTPUT, p, r)
      BY <2>1, <2>3 DEF Begins
    <3>2. Gives(dec, rest, OUTPUT, p, r)
      BY <2>1, <2>3, <3>1, EmptyOnes, Kinds, PopWhole
    <3> QED BY <3>2 DEF Gives
  <2> QED BY <2>1, <2>3, <2>4, Kinds, Zenon
<1>4. CASE \E e \in UpE : dec \o rest = e.code /\ it = <<>> /\ end = e.end
  <2>1. PICK e \in UpE : dec \o rest = e.code /\ it = <<>> /\ end = e.end
    BY <1>4
  <2>2. PICK q \in Reasons \cup {"protocol"} : e = Told(q)
    BY DEF UpE
  <2>3. e.code = encode(CLOSED, <<Code(q)>>) /\ e.end = q
    BY <2>2 DEF Told
  <2>4. <<Code(q)>> \in Bytes /\ Len(<<Code(q)>>) <= MAX_PAYLOAD
    BY ShortPayloads DEF Payloads
  <2>5. encode(CLOSED, <<Code(q)>>) \in Bytes
    BY <2>4, Kinds, Layout
  <2>6. dec \o rest = encode(CLOSED, <<Code(q)>>) \o <<>>
    BY <2>1, <2>3, <2>5, NoBytes
  <2>7. /\ pop(dec).used > 0 /\ pop(dec).kind = CLOSED /\ pop(dec).payload = <<Code(q)>>
        /\ Skip(dec, pop(dec).used) \in Bytes
    <3>1. Begins(dec, rest, CLOSED, <<Code(q)>>, <<>>)
      BY <2>4, <2>6, EmptyOnes DEF Begins
    <3>2. Gives(dec, rest, CLOSED, <<Code(q)>>, <<>>)
      BY <2>4, <2>6, EmptyOnes, <3>1, EmptyOnes, Kinds, PopWhole
    <3> QED BY <3>2 DEF Gives
  <2> QED BY <2>1, <2>3, <2>7, Kinds, Codes
<1> QED BY <1>1, <1>2, <1>3, <1>4 DEF NextFrame

-----------------------------------------------------------------------------
(* Frames that wait to be sent, and what they stand for.                    *)
Queues == Seq(Bytes) \X Items
QClosed(R) ==
    /\ <<<<>>, <<>>>> \in R
    /\ \A q \in Seq(Bytes), t \in Items, m \in DownM :
          <<q, t>> \in R => <<<<m.code>> \o q, m.item \o t>> \in R
Queue(q, t) == \A R \in SUBSET Queues : QClosed(R) => <<q, t>> \in R

\* Nothing waits.
LEMMA QueueNothing == Queue(<<>>, <<>>)
BY DEF Queue, QClosed

\* A frame before the others.
LEMMA QueueMore ==
    ASSUME NEW q \in Seq(Bytes), NEW t \in Items, NEW m \in DownM, Queue(q, t)
    PROVE  Queue(<<m.code>> \o q, m.item \o t)
BY Zenon DEF Queue, QClosed

\* Codes and items of what goes down.
LEMMA DownParts ==
    ASSUME NEW m \in DownM
    PROVE  m.code \in Bytes /\ m.item \in Items
BY MeaningTypes DEF Meanings

\* A frame before others.
LEMMA Behind ==
    ASSUME NEW x \in Bytes, NEW q \in Seq(Bytes)
    PROVE  /\ <<x>> \o q \in Seq(Bytes) /\ <<x>> \o q # <<>>
           /\ Head(<<x>> \o q) = x /\ Tail(<<x>> \o q) = q
<1>1. PICK o \in Seq(Bytes) : o = <<x>> /\ Len(o) = 1 /\ o[1] = x
  BY OneLong
<1>2. o \o q \in Seq(Bytes) /\ Len(o \o q) = Len(o) + Len(q) /\ Len(q) \in Nat
  BY ConcatProperties
<1>3. Len(o \o q) = 1 + Len(q) /\ o \o q # <<>>
  BY <1>1, <1>2
<1>4. (o \o q)[1] = x
  BY <1>1, JoinLeft
<1>5. /\ Tail(o \o q) \in Seq(Bytes) /\ Len(Tail(o \o q)) = Len(q)
      /\ \A i \in 1..Len(q) : Tail(o \o q)[i] = (o \o q)[i + 1]
  BY <1>2, <1>3, HeadTailProperties
<1>6. ASSUME NEW i \in 1..Len(q)
      PROVE  Tail(o \o q)[i] = q[i]
  <2>1. (o \o q)[Len(o) + i] = q[i]
    BY JoinRight
  <2>2. Len(o) + i = i + 1
    BY <1>1
  <2>3. Tail(o \o q)[i] = (o \o q)[i + 1]
    BY <1>5
  <2> QED BY <2>1, <2>2, <2>3
<1>7. Tail(o \o q) = q
  BY <1>5, <1>6, SeqEqual
<1>8. Head(o \o q) = (o \o q)[1]
  BY <1>2, <1>3
<1> QED BY <1>1, <1>2, <1>3, <1>4, <1>7, <1>8

QueueNext(q, t) ==
    \/ q = <<>> /\ t = <<>>
    \/ \E m \in DownM, r \in Seq(Bytes), u \in Items :
          q = <<m.code>> \o r /\ t = m.item \o u /\ Queue(r, u)
\* Nothing waits, or some frame is the first.
LEMMA QueueFirst ==
    ASSUME NEW q, NEW t, Queue(q, t)
    PROVE  q \in Seq(Bytes) /\ t \in Items /\ QueueNext(q, t)
<1> DEFINE R == {x \in Queues : Queue(x[1], x[2]) /\ QueueNext(x[1], x[2])}
<1>1. <<<<>>, <<>>>> \in R
  <2>1. <<>> \in Seq(Bytes)
    OBVIOUS
  <2> QED BY <2>1, EmptyOnes, QueueNothing DEF Queues, QueueNext
<1>2. ASSUME NEW a \in Seq(Bytes), NEW i \in Items, NEW m \in DownM, <<a, i>> \in R
      PROVE  <<<<m.code>> \o a, m.item \o i>> \in R
  <2>1. Queue(a, i)
    BY <1>2
  <2>2. <<m.code>> \o a \in Seq(Bytes) /\ m.item \o i \in Items
    BY DownParts, Behind, JoinItems
  <2>3. Queue(<<m.code>> \o a, m.item \o i)
    BY <2>1, QueueMore
  <2>4. QueueNext(<<m.code>> \o a, m.item \o i)
    BY <2>1, Zenon DEF QueueNext
  <2> QED BY <2>2, <2>3, <2>4 DEF Queues
<1>3. R \in SUBSET Queues
  OBVIOUS
<1> HIDE DEF R
<1>4. QClosed(R)
  BY <1>1, <1>2 DEF QClosed
<1>5. <<q, t>> \in R
  BY <1>3, <1>4 DEF Queue
<1> QED BY <1>5 DEF R, Queues

-----------------------------------------------------------------------------
(* A payload that is too long for a frame is sent in parts.                 *)

\* The number of parts.
LEMMA PartCount ==
    ASSUME NEW l \in Nat, l > 0
    PROVE  /\ MAX_PAYLOAD \in Nat /\ MAX_PAYLOAD > 0
           /\ (l + MAX_PAYLOAD - 1) \div MAX_PAYLOAD \in Nat
           /\ (l + MAX_PAYLOAD - 1) \div MAX_PAYLOAD >= 1
           /\ MAX_PAYLOAD * ((l + MAX_PAYLOAD - 1) \div MAX_PAYLOAD) >= l
<1>1. MAX_PAYLOAD \in Nat /\ MAX_PAYLOAD >= 4
  BY TerminalAssumption
<1>2. ASSUME NEW m \in Nat, m >= 4, NEW x \in Nat, x = l + m - 1
      PROVE  x \div m \in Nat /\ m * (x \div m) >= l /\ x \div m >= 1
  <2>1. x = m * (x \div m) + (x % m) /\ x \div m \in Nat /\ x % m \in 0..(m - 1)
    BY <1>2, Divides
  <2>2. PICK d \in Nat, r \in 0..(m - 1) : d = x \div m /\ r = x % m /\ x = m * d + r
    BY <2>1
  <2>3. m * d >= l
    BY <1>2, <2>2
  <2>4. d # 0
    BY <2>3
  <2> QED BY <2>2, <2>3, <2>4
<1> QED BY <1>1, <1>2

\* Each part fits a frame and follows the one before.
LEMMA PartSplit ==
    ASSUME NEW b \in Bytes, b # <<>>,
           NEW i \in 1..((Len(b) + MAX_PAYLOAD - 1) \div MAX_PAYLOAD)
    PROVE  /\ Parts(b)[i] \in Payloads
           /\ MAX_PAYLOAD * i \in Nat /\ MAX_PAYLOAD * (i - 1) \in Nat
           /\ Skip(b, MAX_PAYLOAD * (i - 1)) = Parts(b)[i] \o Skip(b, MAX_PAYLOAD * i)
           /\ Take(b, MAX_PAYLOAD * i) = Take(b, MAX_PAYLOAD * (i - 1)) \o Parts(b)[i]
<1>1. Len(b) \in Nat /\ Len(b) > 0 /\ b \in Seq(Nat)
  BY DEF Bytes
<1>2. PICK n \in Nat : /\ n = (Len(b) + MAX_PAYLOAD - 1) \div MAX_PAYLOAD
                       /\ MAX_PAYLOAD \in Nat /\ MAX_PAYLOAD > 0
  BY <1>1, PartCount
<1>3. i \in 1..n
  BY <1>2
<1>4. PICK lo \in Nat, hi \in Nat : lo = MAX_PAYLOAD * (i - 1) /\ hi = MAX_PAYLOAD * i /\ hi = lo + MAX_PAYLOAD
  BY <1>2, <1>3
<1>5. lo < Len(b)
  <2>1. ASSUME NEW x \in Nat, x = Len(b) + MAX_PAYLOAD - 1
        PROVE  x = MAX_PAYLOAD * (x \div MAX_PAYLOAD) + (x % MAX_PAYLOAD) /\ x % MAX_PAYLOAD \in 0..(MAX_PAYLOAD - 1)
    BY <1>2, Divides
  <2>2. MAX_PAYLOAD * n <= Len(b) + MAX_PAYLOAD - 1
    <3>0. Len(b) + MAX_PAYLOAD - 1 \in Nat
      BY <1>1, <1>2
    <3>1. PICK x \in Nat : x = Len(b) + MAX_PAYLOAD - 1
      BY <3>0
    <3>2. n = x \div MAX_PAYLOAD
      BY <1>2, <3>1
    <3>3. PICK r \in 0..(MAX_PAYLOAD - 1) : x = MAX_PAYLOAD * n + r
      BY <2>1, <3>1, <3>2
    <3> QED BY <1>2, <3>1, <3>3
  <2>3. hi <= MAX_PAYLOAD * n
    BY <1>2, <1>3, <1>4
  <2> QED BY <1>1, <1>2, <1>4, <2>2, <2>3
<1>6. PICK k \in Nat : k = (IF hi < Len(b) THEN hi ELSE Len(b)) /\ lo <= k /\ k <= Len(b) /\ k <= hi
  BY <1>1, <1>2, <1>4, <1>5
<1>7. Parts(b)[i] = SubSeq(b, lo + 1, k)
  <2>1. Parts(b)[i] = SubSeq(b, MAX_PAYLOAD * (i - 1) + 1,
                             IF MAX_PAYLOAD * i < Len(b) THEN MAX_PAYLOAD * i ELSE Len(b))
    BY <1>2, <1>3 DEF Parts
  <2> QED BY <1>4, <1>6, <2>1
<1>8. /\ SubSeq(b, lo + 1, k) \in Seq(Nat) /\ Len(SubSeq(b, lo + 1, k)) = k - lo
  BY <1>1, <1>6
<1>9. Parts(b)[i] \in Payloads
  BY <1>2, <1>4, <1>6, <1>7, <1>8 DEF Payloads, Bytes
<1>10. Skip(b, lo) = SubSeq(b, lo + 1, Len(b))
  BY DEF Skip
<1>11. Skip(b, hi) = SubSeq(b, k + 1, Len(b))
  <2>1. CASE hi < Len(b)
    BY <1>6, <2>1 DEF Skip
  <2>2. CASE ~(hi < Len(b))
    <3>1. k = Len(b) /\ hi + 1 > Len(b) /\ k + 1 > Len(b)
      BY <1>1, <1>6, <2>2
    <3>2. Skip(b, hi) = <<>>
      BY <1>1, <3>1, SubSeqEmpty DEF Skip
    <3>3. SubSeq(b, k + 1, Len(b)) = <<>>
      BY <1>1, <3>1, SubSeqEmpty
    <3> QED BY <3>2, <3>3
  <2> QED BY <2>1, <2>2
<1>12. SubSeq(b, lo + 1, k) \o SubSeq(b, k + 1, Len(b)) = SubSeq(b, lo + 1, Len(b))
  <2>1. lo + 1 \in 1..(Len(b) + 1) /\ k \in ((lo + 1) - 1)..Len(b) /\ Len(b) \in k..Len(b)
    BY <1>1, <1>5, <1>6
  <2> QED BY <1>1, <2>1, ConcatAdjacentSubSeq
<1>13. Take(b, hi) = SubSeq(b, 1, k)
  BY <1>6 DEF Take
<1>14. Take(b, lo) = SubSeq(b, 1, lo)
  BY <1>5 DEF Take
<1>15. SubSeq(b, 1, lo) \o SubSeq(b, lo + 1, k) = SubSeq(b, 1, k)
  <2>1. 1 \in 1..(Len(b) + 1) /\ lo \in (1 - 1)..Len(b) /\ k \in lo..Len(b)
    BY <1>1, <1>5, <1>6
  <2> QED BY <1>1, <2>1, ConcatAdjacentSubSeq
<1>16. Skip(b, lo) = Parts(b)[i] \o Skip(b, hi) /\ Take(b, hi) = Take(b, lo) \o Parts(b)[i]
  BY <1>7, <1>10, <1>11, <1>12, <1>13, <1>14, <1>15
<1> QED BY <1>4, <1>9, <1>16

\* The frames of a long payload.
LEMMA ChunkFrames ==
    ASSUME NEW k \in Nat, NEW b \in Bytes, b # <<>>
    PROVE  \E n \in Nat \ {0} :
              /\ n = (Len(b) + MAX_PAYLOAD - 1) \div MAX_PAYLOAD
              /\ chunks(k, b) \in Seq(Bytes) /\ Len(chunks(k, b)) = n
              /\ \A i \in 1..n : chunks(k, b)[i] = encode(k, Parts(b)[i])
              /\ MAX_PAYLOAD * n \in Nat /\ MAX_PAYLOAD * n >= Len(b)
<1>1. Len(b) \in Nat /\ Len(b) > 0
  BY DEF Bytes
<1>2. PICK n \in Nat : /\ n = (Len(b) + MAX_PAYLOAD - 1) \div MAX_PAYLOAD
                       /\ n >= 1 /\ MAX_PAYLOAD * n >= Len(b) /\ MAX_PAYLOAD \in Nat
  BY <1>1, PartCount
<1>3. DOMAIN Parts(b) = 1..n
  BY <1>2 DEF Parts
<1>4. chunks(k, b) = [i \in 1..n |-> encode(k, Parts(b)[i])]
  BY <1>3 DEF chunks
<1>5. ASSUME NEW i \in 1..n PROVE encode(k, Parts(b)[i]) \in Bytes
  <2>1. Parts(b)[i] \in Payloads
    BY <1>2, PartSplit
  <2> QED BY <2>1, Layout DEF Payloads
<1>6. chunks(k, b) \in Seq(Bytes) /\ Len(chunks(k, b)) = n
  BY <1>4, <1>5
<1>7. \A i \in 1..n : chunks(k, b)[i] = encode(k, Parts(b)[i])
  BY <1>4
<1>8. MAX_PAYLOAD * n \in Nat
  BY <1>2
<1>9. n \in Nat \ {0}
  BY <1>2
<1> WITNESS n \in Nat \ {0}
<1> QED BY <1>2, <1>6, <1>7, <1>8

\* What is typed waits as frames that stand for it.
LEMMA ChunksQueue ==
    ASSUME NEW b \in Bytes, b # <<>>
    PROVE  Queue(chunks(INPUT, b), AsInput(b))
<1>1. PICK n \in Nat \ {0} :
          /\ n = (Len(b) + MAX_PAYLOAD - 1) \div MAX_PAYLOAD
          /\ chunks(INPUT, b) \in Seq(Bytes) /\ Len(chunks(INPUT, b)) = n
          /\ \A i \in 1..n : chunks(INPUT, b)[i] = encode(INPUT, Parts(b)[i])
          /\ MAX_PAYLOAD * n \in Nat /\ MAX_PAYLOAD * n >= Len(b)
  BY ChunkFrames, Kinds
<1>2. PICK q \in Seq(Bytes) : q = chunks(INPUT, b)
  BY <1>1
<1> DEFINE From(j) == SubSeq(q, n - j + 1, n)
           Left(j) == Skip(b, MAX_PAYLOAD * (n - j))
           S == {j \in Nat : j <= n => Queue(From(j), AsInput(Left(j)))}
<1>3. 0 \in S
  <2>1. From(0) = <<>>
    <3>1. n - 0 + 1 > n /\ n \in Int /\ n - 0 + 1 \in Int
      OBVIOUS
    <3> QED BY <3>1, SubSeqEmpty
  <2>2. n - 0 = n
    OBVIOUS
  <2>3. Left(0) = <<>>
    <3>1. Skip(b, MAX_PAYLOAD * n) = <<>>
      <4>1. MAX_PAYLOAD * n + 1 > Len(b) /\ MAX_PAYLOAD * n + 1 \in Int /\ Len(b) \in Int
        BY <1>1 DEF Bytes
      <4> QED BY <4>1, SubSeqEmpty DEF Skip
    <3> QED BY <2>2, <3>1
  <2>4. AsInput(<<>>) = <<>>
    <3>1. AsInput(<<>>) \in Seq(Things) /\ Len(AsInput(<<>>)) = 0
      BY EmptyOnes, AsInputType DEF Items
    <3> QED BY <3>1
  <2>5. Queue(From(0), AsInput(Left(0)))
    BY <2>1, <2>3, <2>4, QueueNothing
  <2> QED BY <2>5
<1>4. ASSUME NEW j \in Nat, j \in S
      PROVE  j + 1 \in S
  <2> SUFFICES ASSUME j + 1 <= n PROVE Queue(From(j + 1), AsInput(Left(j + 1)))
    OBVIOUS
  <2>1. PICK i \in 1..n : i = n - j /\ n - (j + 1) + 1 = i /\ n - j + 1 = i + 1 /\ n - (j + 1) = i - 1
    OBVIOUS
  <2>2. Queue(From(j), AsInput(Left(j)))
    BY <1>4
  <2>3. From(j + 1) = SubSeq(q, i, n) /\ From(j) = SubSeq(q, i + 1, n)
    BY <2>1
  <2>4. Left(j + 1) = Skip(b, MAX_PAYLOAD * (i - 1)) /\ Left(j) = Skip(b, MAX_PAYLOAD * i)
    BY <2>1
  <2>5. PICK p \in Payloads : /\ p = Parts(b)[i]
                              /\ MAX_PAYLOAD * i \in Nat /\ MAX_PAYLOAD * (i - 1) \in Nat
                              /\ Skip(b, MAX_PAYLOAD * (i - 1)) = p \o Skip(b, MAX_PAYLOAD * i)
    BY <1>1, PartSplit
  <2>6. Len(q) = n /\ q[i] = encode(INPUT, p)
    BY <1>1, <1>2, <2>5
  <2>7. SubSeq(q, i, n) = <<q[i]>> \o SubSeq(q, i + 1, n)
    <3>1. i \in 1..Len(q) /\ n \in i..Len(q)
      BY <2>6
    <3> QED BY <3>1, SubSeqRecursiveFirst
  <2>8. p \in Bytes /\ Left(j) \in Bytes
    BY <2>4, <2>5, TakeSkip DEF Payloads, Bytes
  <2>9. AsInput(Left(j + 1)) = AsInput(p) \o AsInput(Left(j))
    <3>1. Left(j + 1) = p \o Left(j)
      BY <2>4, <2>5
    <3>2. AsInput(p \o Left(j)) = AsInput(p) \o AsInput(Left(j))
      <4> HIDE DEF Left
      <4> QED BY <2>8, AsInputJoins
    <3> HIDE DEF Left
    <3> QED BY <3>1, <3>2
  <2>10. Typed(p) \in DownM /\ Typed(p).code = encode(INPUT, p) /\ Typed(p).item = AsInput(p)
    BY DEF DownM, Typed
  <2>11. From(j) \in Seq(Bytes) /\ AsInput(Left(j)) \in Items
    BY <2>2, QueueFirst
  <2> HIDE DEF From, Left
  <2>12. Queue(<<Typed(p).code>> \o From(j), Typed(p).item \o AsInput(Left(j)))
    BY <2>2, <2>10, <2>11, QueueMore
  <2> QED BY <2>3, <2>6, <2>7, <2>9, <2>10, <2>12
<1> HIDE DEF S
<1>5. n \in S
  BY <1>3, <1>4, Induction
<1>6. Queue(From(n), AsInput(Left(n)))
  BY <1>5 DEF S
<1>7. From(n) = q
  <2>1. n - n + 1 = 1 /\ n = Len(q)
    BY <1>1, <1>2
  <2> QED BY <2>1, SubSeqFull
<1>8. Left(n) = b
  <2>1. MAX_PAYLOAD * (n - n) = 0
    BY TerminalAssumption
  <2>2. Skip(b, 0) = b
    BY SubSeqFull DEF Skip, Bytes
  <2> QED BY <2>1, <2>2
<1> QED BY <1>2, <1>6, <1>7, <1>8

\* The joined frames exist, and are joined one by one.
IsFlat(f, q, k) == f = [i \in 1..k |-> IF i = 1 THEN q[i] ELSE f[i - 1] \o q[i]]

\* FlattenSeq's recursive function exists.
LEMMA FlatExists ==
    ASSUME NEW q, NEW k \in Nat
    PROVE  \E f : IsFlat(f, q, k)
<1> DEFINE S == {n \in Nat : \E f : IsFlat(f, q, n)}
<1>1. 0 \in S
  <2> DEFINE f == [n \in 1..0 |-> <<>>]
  <2>1. IsFlat(f, q, 0)
    BY DEF IsFlat
  <2> QED BY <2>1
<1>2. ASSUME NEW n \in Nat, n \in S
      PROVE  n + 1 \in S
  <2>1. PICK f : IsFlat(f, q, n)
    BY <1>2
  <2> DEFINE g == [i \in 1..(n + 1) |->
                      IF i = n + 1 THEN (IF i = 1 THEN q[i] ELSE f[n] \o q[i]) ELSE f[i]]
  <2>2. ASSUME NEW i \in 1..(n + 1)
        PROVE  g[i] = IF i = 1 THEN q[i] ELSE g[i - 1] \o q[i]
    <3>1. CASE i = n + 1
      <4>1. i # 1 => i - 1 = n /\ n \in 1..(n + 1) /\ n # n + 1
        BY <3>1
      <4>2. g[i] = (IF i = 1 THEN q[i] ELSE f[n] \o q[i]) /\ (i # 1 => g[n] = f[n])
        BY <3>1, <4>1
      <4> QED BY <4>1, <4>2
    <3>2. CASE i # n + 1
      <4>1. /\ i \in 1..n
            /\ i # 1 => i - 1 \in 1..n /\ i - 1 \in 1..(n + 1) /\ i - 1 # n + 1
        BY <3>2
      <4>2. g[i] = f[i] /\ (i # 1 => g[i - 1] = f[i - 1])
        BY <4>1, <3>2
      <4>3. f[i] = IF i = 1 THEN q[i] ELSE f[i - 1] \o q[i]
        BY <2>1, <4>1 DEF IsFlat
      <4> QED BY <4>2, <4>3
    <3> QED BY <3>1, <3>2
  <2> HIDE DEF g
  <2>3. g = [i \in 1..(n + 1) |-> g[i]]
    BY DEF g
  <2>4. IsFlat(g, q, n + 1)
    BY <2>2, <2>3, Zenon DEF IsFlat
  <2> QED BY <2>4
<1> HIDE DEF S
<1>3. k \in S
  BY <1>1, <1>2, Induction
<1> QED BY <1>3 DEF S

\* FlattenSeq is its last value.
LEMMA FlatIs ==
    ASSUME NEW q, Len(q) \in Nat, Len(q) # 0
    PROVE  \E f : IsFlat(f, q, Len(q)) /\ FlattenSeq(q) = f[Len(q)]
<1>1. \E f : IsFlat(f, q, Len(q))
  BY FlatExists
<1>2. PICK f : f = CHOOSE g : IsFlat(g, q, Len(q))
  OBVIOUS
<1>3. IsFlat(f, q, Len(q))
  BY <1>1, <1>2, Zenon
<1>4. FlattenSeq(q) = f[Len(q)]
  BY <1>2, Zenon DEF FlattenSeq, IsFlat
<1> QED BY <1>3, <1>4

\* The output of a session, sent to a terminal in frames.
LEMMA ChunksCarried ==
    ASSUME NEW b \in Bytes, b # <<>>, NEW s \in Bytes, NEW it \in Items,
           Carries(UpM, UpE, s, it, "open")
    PROVE  /\ FlattenSeq(chunks(OUTPUT, b)) \in Bytes
           /\ Carries(UpM, UpE, s \o FlattenSeq(chunks(OUTPUT, b)), it \o b, "open")
<1>1. PICK n \in Nat \ {0} :
          /\ n = (Len(b) + MAX_PAYLOAD - 1) \div MAX_PAYLOAD
          /\ chunks(OUTPUT, b) \in Seq(Bytes) /\ Len(chunks(OUTPUT, b)) = n
          /\ \A i \in 1..n : chunks(OUTPUT, b)[i] = encode(OUTPUT, Parts(b)[i])
          /\ MAX_PAYLOAD * n \in Nat /\ MAX_PAYLOAD * n >= Len(b)
  BY ChunkFrames, Kinds
<1>2. PICK q \in Seq(Bytes) : q = chunks(OUTPUT, b)
  BY <1>1
<1>3. PICK f : IsFlat(f, q, n) /\ FlattenSeq(q) = f[n]
  BY <1>1, <1>2, FlatIs
<1> DEFINE T(i) == Take(b, MAX_PAYLOAD * i)
           Good(i) == /\ f[i] \in Bytes /\ T(i) \in Bytes
                      /\ Carries(UpM, UpE, s \o f[i], it \o T(i), "open")
           S == {j \in Nat : j + 1 <= n => Good(j + 1)}
<1>4. ASSUME NEW i \in 1..n
      PROVE  \E p \in Payloads :
                /\ p \in Bytes /\ p \in Items /\ q[i] = Shown(p).code /\ Shown(p).code \in Bytes
                /\ Shown(p).item = p /\ Shown(p) \in UpM
                /\ T(i) = T(i - 1) \o p /\ T(i - 1) \in Bytes
  <2>1. PICK p \in Payloads : /\ p = Parts(b)[i]
                              /\ MAX_PAYLOAD * i \in Nat /\ MAX_PAYLOAD * (i - 1) \in Nat
                              /\ T(i) = T(i - 1) \o p
    BY <1>1, PartSplit
  <2>2. T(i - 1) \in Bytes
    BY <2>1, TakeSkip DEF Bytes
  <2>3. p \in Bytes /\ p \in Items
    BY SeqMonotonic DEF Payloads, Bytes, Items, Things
  <2>4. q[i] = encode(OUTPUT, p) /\ encode(OUTPUT, p) \in Bytes
    BY <1>1, <1>2, <2>1, <2>3, Kinds, Layout DEF Payloads
  <2>5. Shown(p).code = encode(OUTPUT, p) /\ Shown(p).item = p /\ Shown(p) \in UpM
    BY DEF Shown, UpM
  <2> QED BY <2>1, <2>2, <2>3, <2>4, <2>5
<1>5. ASSUME NEW x \in Bytes PROVE x \in Items
  BY SeqMonotonic DEF Bytes, Items, Things
<1>6. T(0) = <<>>
  <2>1. MAX_PAYLOAD * 0 = 0 /\ 0 \in Nat
    BY TerminalAssumption
  <2>2. Take(b, 0) \in Seq(Nat) /\ Len(Take(b, 0)) = 0
    <3>1. Len(b) > 0
      BY DEF Bytes
    <3> QED BY <2>1, <3>1, TakeSkip DEF Bytes
  <2>3. Take(b, 0) = <<>>
    BY <2>2
  <2> QED BY <2>1, <2>3
<1>7. 0 \in S
  <2>1. 1 \in 1..n /\ 0 + 1 = 1 /\ 1 - 1 = 0
    OBVIOUS
  <2>2. PICK p \in Payloads : /\ p \in Bytes /\ p \in Items /\ q[1] = Shown(p).code
                              /\ Shown(p).code \in Bytes
                              /\ Shown(p).item = p /\ Shown(p) \in UpM
                              /\ T(1) = T(0) \o p
    BY <1>4, <2>1
  <2>3. f[1] = q[1]
    BY <1>3, <2>1 DEF IsFlat
  <2> HIDE DEF T
  <2>4. T(1) = p
    BY <1>6, <2>2, NoBytes
  <2>5. Carries(UpM, UpE, s \o Shown(p).code, it \o Shown(p).item, "open")
    BY <2>2, CarriesMore
  <2>6. Good(1)
    BY <2>2, <2>3, <2>4, <2>5
  <2> HIDE DEF Good
  <2> QED BY <2>1, <2>6
<1>8. ASSUME NEW j \in Nat, j \in S
      PROVE  j + 1 \in S
  <2> SUFFICES ASSUME j + 1 + 1 <= n PROVE Good(j + 1 + 1)
    OBVIOUS
  <2>1. PICK i \in 1..n : i = j + 1 + 1 /\ i - 1 = j + 1 /\ i # 1
    OBVIOUS
  <2>2. Good(i - 1)
    <3> HIDE DEF Good
    <3> QED BY <1>8, <2>1
  <2>3. PICK p \in Payloads : /\ p \in Bytes /\ p \in Items /\ q[i] = Shown(p).code
                              /\ Shown(p).code \in Bytes
                              /\ Shown(p).item = p /\ Shown(p) \in UpM
                              /\ T(i) = T(i - 1) \o p
    BY <1>4
  <2>4. f[i] = f[i - 1] \o q[i]
    BY <1>3, <2>1 DEF IsFlat
  <2> HIDE DEF T
  <2>5. f[i - 1] \in Bytes /\ T(i - 1) \in Bytes /\ T(i - 1) \in Items
    BY <1>5, <2>2
  <2>6. Carries(UpM, UpE, (s \o f[i - 1]) \o Shown(p).code, (it \o T(i - 1)) \o Shown(p).item, "open")
    <3>1. s \o f[i - 1] \in Bytes /\ it \o T(i - 1) \in Items
      BY <2>5, JoinBytes, JoinItems
    <3> QED BY <2>2, <2>3, <3>1, CarriesMore
  <2>7. (s \o f[i - 1]) \o Shown(p).code = s \o f[i]
    <3>1. (s \o f[i - 1]) \o Shown(p).code = s \o (f[i - 1] \o Shown(p).code)
      BY <2>3, <2>5, AssocBytes
    <3> QED BY <2>3, <2>4, <3>1
  <2>8. (it \o T(i - 1)) \o Shown(p).item = it \o T(i)
    <3>1. (it \o T(i - 1)) \o p = it \o (T(i - 1) \o p)
      BY <2>3, <2>5, AssocItems
    <3> QED BY <2>3, <3>1
  <2>9. f[i] \in Bytes /\ T(i) \in Bytes
    BY <2>3, <2>4, <2>5, JoinBytes
  <2>10. Good(i)
    BY <2>6, <2>7, <2>8, <2>9
  <2> HIDE DEF Good
  <2> QED BY <2>1, <2>10
<1> HIDE DEF S
<1>9. n - 1 \in S
  BY <1>7, <1>8, Induction
<1>10. Good(n)
  <2> HIDE DEF Good
  <2>1. n - 1 + 1 = n
    OBVIOUS
  <2> QED BY <1>9, <2>1 DEF S
<1>11. T(n) = b
  <2>1. ~(MAX_PAYLOAD * n < Len(b))
    BY <1>1 DEF Bytes
  <2> QED BY <2>1, SubSeqFull DEF Take, Bytes
<1> HIDE DEF T
<1> QED BY <1>2, <1>3, <1>10, <1>11

-----------------------------------------------------------------------------
(* The host dialect.                                                        *)
HostTyped(b) == [code |-> host_input(b), item |-> AsInput(b)]
HostSized(r, c) == [code |-> host_resize(r, c), item |-> <<<<"size", r, c>>>>]
HostM == {HostTyped(b) : b \in Bytes} \cup {HostSized(r, c) : r \in Nat, c \in Nat}

\* The layout of the app's input.
LEMMA HostInputLayout ==
    ASSUME NEW b \in Bytes
    PROVE  /\ host_input(b) \in Bytes /\ Len(host_input(b)) = 5 + Len(b)
           /\ host_input(b)[1] = TAG_INPUT
           /\ be16(host_input(b)[4], host_input(b)[5]) = Len(b)
           /\ \A i \in 1..Len(b) : host_input(b)[5 + i] = b[i]
<1>1. b \in Seq(Nat) /\ Len(b) \in Nat
  BY DEF Bytes
<1>2. PICK t \in Seq(Nat) : t = <<TAG_INPUT, 0, 0>> /\ Len(t) = 3 /\ t[1] = TAG_INPUT
  <2>1. <<TAG_INPUT, 0, 0>> \in Seq(Nat)
    BY DEF TAG_INPUT
  <2>2. Len(<<TAG_INPUT, 0, 0>>) = 3 /\ <<TAG_INPUT, 0, 0>>[1] = TAG_INPUT
    OBVIOUS
  <2> QED BY <2>1, <2>2
<1>3. PICK u \in Seq(Nat) : u = u16(Len(b)) /\ Len(u) = 2 /\ be16(u[1], u[2]) = Len(b)
  BY <1>1, TwoBytes DEF Bytes
<1>4. PICK h \in Seq(Nat) : h = t \o u /\ Len(h) = 5 /\ h[1] = TAG_INPUT /\ h[4] = u[1] /\ h[5] = u[2]
  <2>1. t \o u \in Seq(Nat) /\ Len(t \o u) = Len(t) + Len(u)
    BY ConcatProperties
  <2>2. 1 \in 1..Len(t) /\ 1 \in 1..Len(u) /\ 2 \in 1..Len(u)
    BY <1>2, <1>3
  <2>3. (t \o u)[1] = t[1] /\ (t \o u)[Len(t) + 1] = u[1] /\ (t \o u)[Len(t) + 2] = u[2]
    BY <2>2, JoinLeft, JoinRight
  <2>4. Len(t) + 1 = 4 /\ Len(t) + 2 = 5 /\ Len(t) + Len(u) = 5
    BY <1>2, <1>3
  <2>5. (t \o u)[1] = TAG_INPUT /\ (t \o u)[4] = u[1] /\ (t \o u)[5] = u[2] /\ Len(t \o u) = 5
    BY <1>2, <2>1, <2>3, <2>4
  <2> QED BY <2>1, <2>5
<1>5. h \o b \in Seq(Nat) /\ Len(h \o b) = Len(h) + Len(b)
  BY <1>1, ConcatProperties
<1>6. ASSUME NEW i \in 1..5 PROVE (h \o b)[i] = h[i]
  BY <1>1, <1>4, JoinLeft
<1>7. ASSUME NEW i \in 1..Len(b) PROVE (h \o b)[5 + i] = b[i]
  <2>1. (h \o b)[Len(h) + i] = b[i]
    BY <1>1, JoinRight
  <2> QED BY <1>4, <2>1
<1>8. host_input(b) = h \o b
  BY <1>2, <1>3, <1>4 DEF host_input
<1>a. 1 \in 1..5 /\ 4 \in 1..5 /\ 5 \in 1..5
  OBVIOUS
<1>9. (h \o b)[1] = h[1] /\ (h \o b)[4] = h[4] /\ (h \o b)[5] = h[5] /\ Len(h \o b) = 5 + Len(b)
  BY <1>a, <1>4, <1>5, <1>6
<1> QED BY <1>3, <1>4, <1>5, <1>7, <1>8, <1>9 DEF Bytes

\* The layout of the app's window size.
LEMMA HostResizeLayout ==
    ASSUME NEW r \in Nat, NEW c \in Nat
    PROVE  /\ host_resize(r, c) \in Bytes /\ Len(host_resize(r, c)) = 5
           /\ host_resize(r, c)[1] = TAG_RESIZE
           /\ be16(host_resize(r, c)[2], host_resize(r, c)[3]) = r
           /\ be16(host_resize(r, c)[4], host_resize(r, c)[5]) = c
<1>0. TAG_RESIZE \in Nat
  BY DEF TAG_RESIZE
<1>1. PICK t \in Seq(Nat) : t = <<TAG_RESIZE>> /\ Len(t) = 1 /\ t[1] = TAG_RESIZE
  BY <1>0, OneLong
<1>2. PICK u \in Seq(Nat) : u = u16(r) /\ Len(u) = 2 /\ be16(u[1], u[2]) = r
  BY TwoBytes DEF Bytes
<1>3. PICK v \in Seq(Nat) : v = u16(c) /\ Len(v) = 2 /\ be16(v[1], v[2]) = c
  BY TwoBytes DEF Bytes
<1>4. PICK h \in Seq(Nat) : h = t \o u /\ Len(h) = 3 /\ h[1] = TAG_RESIZE /\ h[2] = u[1] /\ h[3] = u[2]
  <2>1. t \o u \in Seq(Nat) /\ Len(t \o u) = Len(t) + Len(u)
    BY ConcatProperties
  <2>2. 1 \in 1..Len(t) /\ 1 \in 1..Len(u) /\ 2 \in 1..Len(u)
    BY <1>1, <1>2
  <2>3. (t \o u)[1] = t[1] /\ (t \o u)[Len(t) + 1] = u[1] /\ (t \o u)[Len(t) + 2] = u[2]
    BY <2>2, JoinLeft, JoinRight
  <2>4. Len(t) + 1 = 2 /\ Len(t) + 2 = 3 /\ Len(t) + Len(u) = 3
    BY <1>1, <1>2
  <2>5. (t \o u)[1] = TAG_RESIZE /\ (t \o u)[2] = u[1] /\ (t \o u)[3] = u[2] /\ Len(t \o u) = 3
    BY <1>1, <2>1, <2>3, <2>4
  <2> QED BY <2>1, <2>5
<1>5. h \o v \in Seq(Nat) /\ Len(h \o v) = Len(h) + Len(v)
  BY ConcatProperties
<1>6. ASSUME NEW i \in 1..3 PROVE (h \o v)[i] = h[i]
  BY <1>4, JoinLeft
<1>7. ASSUME NEW i \in 1..2 PROVE (h \o v)[3 + i] = v[i]
  <2>1. i \in 1..Len(v)
    BY <1>3
  <2>2. (h \o v)[Len(h) + i] = v[i]
    BY <2>1, JoinRight
  <2> QED BY <1>4, <2>2
<1>8. host_resize(r, c) = h \o v
  BY <1>1, <1>2, <1>3, <1>4 DEF host_resize
<1>a. 1 \in 1..3 /\ 2 \in 1..3 /\ 3 \in 1..3 /\ 1 \in 1..2 /\ 2 \in 1..2
  OBVIOUS
<1>9. /\ (h \o v)[1] = h[1] /\ (h \o v)[2] = h[2] /\ (h \o v)[3] = h[3]
      /\ (h \o v)[3 + 1] = v[1] /\ (h \o v)[3 + 2] = v[2]
  BY <1>6, <1>7, <1>a
<1>10. Len(h \o v) = 5 /\ (h \o v)[4] = v[1] /\ (h \o v)[5] = v[2]
  BY <1>3, <1>4, <1>5, <1>9
<1> QED BY <1>2, <1>3, <1>4, <1>5, <1>8, <1>9, <1>10 DEF Bytes

\* The meanings are meanings.
LEMMA HostTypes == HostM \subseteq Meanings /\ {} \subseteq Finals
<1>1. ASSUME NEW b \in Bytes PROVE HostTyped(b) \in Meanings
  BY HostInputLayout, AsInputType DEF HostTyped, Meanings
<1>2. ASSUME NEW r \in Nat, NEW c \in Nat PROVE HostSized(r, c) \in Meanings
  BY HostResizeLayout, ResizeSays DEF HostSized, Meanings
<1> QED BY <1>1, <1>2 DEF HostM

\* A front of a stream: its elements are those of the first frame, as far as both go.
LEMMA FrontElements ==
    ASSUME NEW a \in Bytes, NEW b \in Bytes, NEW c \in Bytes, NEW d \in Bytes,
           a \o b = c \o d, NEW i \in Nat, 1 <= i, i <= Len(a), i <= Len(c)
    PROVE  a[i] = c[i]
<1>1. i \in 1..Len(a) /\ i \in 1..Len(c)
  BY DEF Bytes
<1>2. (a \o b)[i] = a[i]
  BY <1>1, JoinLeft DEF Bytes
<1>3. (c \o d)[i] = c[i]
  BY <1>1, JoinLeft DEF Bytes
<1> QED BY <1>2, <1>3

\* What the attach of the app has read, at the front of what it was sent: it
\* is well formed, and a frame that it finds is the first that was sent.
LEMMA DecodeHost ==
    ASSUME NEW buf \in Bytes, NEW rest \in Bytes, NEW it,
           Carries(HostM, {}, buf \o rest, it, "open")
    PROVE  /\ ~decode_frame(buf).bad
           /\ decode_frame(buf).used = 0 /\ rest = <<>> => it = <<>>
           /\ decode_frame(buf).used # 0 =>
                 /\ Skip(buf, decode_frame(buf).used) \in Bytes
                 /\ \E t \in Items, i \in Items :
                       /\ it = t \o i /\ Queue(decode_frame(buf).frames, t)
                       /\ Carries(HostM, {}, Skip(buf, decode_frame(buf).used) \o rest, i, "open")
<1>1. NextFrame(HostM, {}, buf \o rest, it, "open")
  BY CarriesFirst, HostTypes
<1>0. buf \in Seq(Nat) /\ Len(buf) \in Nat /\ rest \in Seq(Nat)
  BY DEF Bytes
<1>2. CASE buf \o rest = <<>> /\ it = <<>>
  <2>1. buf = <<>> /\ rest = <<>>
    BY <1>2, ConcatEqualIffEmpty DEF Bytes
  <2>2. Len(buf) < 5
    BY <2>1
  <2>3. decode_frame(buf).used = 0 /\ (decode_frame(buf).bad <=> buf # <<>> /\ buf[1] \notin {TAG_INPUT, TAG_RESIZE})
    BY <2>2 DEF decode_frame
  <2> QED BY <1>2, <2>1, <2>3
<1>3. ASSUME NEW b \in Bytes, NEW r \in Bytes, NEW i \in Items,
             buf \o rest = host_input(b) \o r, it = AsInput(b) \o i, Carries(HostM, {}, r, i, "open")
      PROVE  /\ ~decode_frame(buf).bad
             /\ decode_frame(buf).used = 0 => rest # <<>>
             /\ decode_frame(buf).used # 0 =>
                   /\ Skip(buf, decode_frame(buf).used) \in Bytes
                   /\ Queue(decode_frame(buf).frames, AsInput(b))
                   /\ Skip(buf, decode_frame(buf).used) \o rest = r
  <2>1. PICK e \in Seq(Nat) :
            /\ e = host_input(b) /\ Len(e) = 5 + Len(b) /\ e[1] = TAG_INPUT
            /\ be16(e[4], e[5]) = Len(b)
    BY HostInputLayout DEF Bytes
  <2>a. \A j \in 1..Len(b) : e[5 + j] = b[j]
    BY <2>1, HostInputLayout
  <2>b. Len(b) \in Nat /\ b \in Seq(Nat) /\ e \in Bytes
    BY DEF Bytes
  <2>c. buf \o rest = e \o r
    BY <1>3, <2>1
  <2>2. ASSUME NEW j \in 1..5, j <= Len(buf)
        PROVE  buf[j] = e[j]
    <3>1. j \in Nat /\ 1 <= j /\ j <= Len(e)
      BY <2>1, <2>b
    <3> QED BY <2>2, <2>b, <2>c, <3>1, FrontElements
  <2>3. Len(buf) > 0 => buf[1] = TAG_INPUT
    BY <1>0, <2>1, <2>2
  <2>4. CASE Len(buf) < 5
    <3>1. decode_frame(buf).used = 0 /\ (decode_frame(buf).bad <=> buf # <<>> /\ buf[1] \notin {TAG_INPUT, TAG_RESIZE})
      BY <2>4 DEF decode_frame
    <3>2. rest # <<>>
      <4>1. SUFFICES ASSUME rest = <<>> PROVE FALSE
        OBVIOUS
      <4>2. buf = e \o r
        BY <1>3, <2>1, <4>1, NoBytes
      <4>3. Len(e \o r) = Len(e) + Len(r) /\ Len(r) \in Nat
        BY ConcatProperties DEF Bytes
      <4> QED BY <1>0, <2>1, <2>4, <2>b, <4>2, <4>3
    <3> QED BY <1>0, <2>3, <3>1, <3>2
  <2>5. CASE ~(Len(buf) < 5)
    <3>0. /\ 1 \in 1..5 /\ 4 \in 1..5 /\ 5 \in 1..5
          /\ 1 <= Len(buf) /\ 4 <= Len(buf) /\ 5 <= Len(buf)
      BY <1>0, <2>5
    <3>e. buf[1] = e[1] /\ buf[4] = e[4] /\ buf[5] = e[5]
      BY <2>2, <3>0
    <3>1. buf[1] = TAG_INPUT /\ be16(buf[4], buf[5]) = Len(b)
      BY <2>1, <3>e
    <3>2. CASE Len(buf) < 5 + Len(b)
      <4>1. decode_frame(buf) = [used |-> 0, bad |-> FALSE]
        BY <2>5, <3>1, <3>2 DEF decode_frame
      <4>2. rest # <<>>
        <5>1. SUFFICES ASSUME rest = <<>> PROVE FALSE
          OBVIOUS
        <5>2. buf = e \o r
          BY <1>3, <2>1, <5>1, NoBytes
        <5>3. Len(e \o r) = Len(e) + Len(r) /\ Len(r) \in Nat
          BY ConcatProperties DEF Bytes
        <5> QED BY <1>0, <2>1, <2>b, <3>2, <5>2, <5>3
      <4> QED BY <4>1, <4>2
    <3>3. CASE ~(Len(buf) < 5 + Len(b))
      <4> DEFINE x == SubSeq(buf, 6, 5 + Len(b))
      <4>1. /\ decode_frame(buf).used = Len(e) /\ ~decode_frame(buf).bad
            /\ decode_frame(buf).frames = IF x = <<>> THEN <<>> ELSE chunks(INPUT, x)
        BY <2>1, <2>5, <2>b, <3>1, <3>3 DEF decode_frame, TAG_INPUT, TAG_RESIZE
      <4>2. Take(buf, Len(e)) = e /\ Skip(buf, Len(e)) \o rest = r
        <5>1. Len(e) <= Len(buf)
          BY <1>0, <2>1, <2>b, <3>3
        <5> QED BY <1>0, <1>3, <2>1, <5>1, Overlaps DEF Bytes
      <4>3. x = b
        <5>1. x \in Seq(Nat) /\ Len(x) = Len(b)
          BY <1>0, <2>b, <3>3
        <5>2. ASSUME NEW j \in 1..Len(b)
              PROVE  x[j] = b[j]
          <6>1. x[j] = buf[5 + j]
            BY <1>0, <2>b, <3>3
          <6>2. 5 + j \in Nat /\ 5 + j <= Len(buf) /\ 5 + j <= Len(e) /\ 1 <= 5 + j
            BY <1>0, <2>1, <2>b, <3>3
          <6>3. buf[5 + j] = e[5 + j]
            BY <2>b, <2>c, <6>2, FrontElements
          <6> QED BY <2>a, <6>1, <6>3
        <5> HIDE DEF x
        <5> QED BY <2>b, <5>1, <5>2, SeqEqual
      <4> HIDE DEF x
      <4>4. Queue(decode_frame(buf).frames, AsInput(b))
        <5>1. CASE b = <<>>
          <6>1. AsInput(b) \in Seq(Things) /\ Len(AsInput(b)) = 0
            BY <5>1, AsInputType DEF Items
          <6>2. AsInput(b) = <<>>
            BY <6>1
          <6> QED BY <4>1, <4>3, <5>1, <6>2, QueueNothing
        <5>2. CASE b # <<>>
          BY <4>1, <4>3, <5>2, ChunksQueue
        <5> QED BY <5>1, <5>2
      <4>5. Skip(buf, Len(e)) \in Bytes
        BY <1>0, <2>1, <2>b, TakeSkip DEF Bytes
      <4>6. Len(e) # 0
        BY <2>1, <2>b
      <4> QED BY <4>1, <4>2, <4>4, <4>5, <4>6
    <3> QED BY <3>2, <3>3
  <2> QED BY <2>4, <2>5
<1>4. ASSUME NEW a \in Nat, NEW c \in Nat, NEW r \in Bytes, NEW i \in Items,
             buf \o rest = host_resize(a, c) \o r
      PROVE  /\ ~decode_frame(buf).bad
             /\ decode_frame(buf).used = 0 => rest # <<>>
             /\ decode_frame(buf).used # 0 =>
                   /\ Skip(buf, decode_frame(buf).used) \in Bytes
                   /\ Queue(decode_frame(buf).frames, <<<<"size", a, c>>>>)
                   /\ Skip(buf, decode_frame(buf).used) \o rest = r
  <2>1. PICK e \in Seq(Nat) :
            /\ e = host_resize(a, c) /\ Len(e) = 5 /\ e[1] = TAG_RESIZE
            /\ be16(e[2], e[3]) = a /\ be16(e[4], e[5]) = c
    BY HostResizeLayout DEF Bytes
  <2>b. e \in Bytes
    BY DEF Bytes
  <2>c. buf \o rest = e \o r
    BY <1>4, <2>1
  <2>2. ASSUME NEW j \in 1..5, j <= Len(buf)
        PROVE  buf[j] = e[j]
    <3>1. j \in Nat /\ 1 <= j /\ j <= Len(e)
      BY <2>1
    <3> QED BY <2>2, <2>b, <2>c, <3>1, FrontElements
  <2>3. Len(buf) > 0 => buf[1] = TAG_RESIZE
    BY <1>0, <2>1, <2>2
  <2>4. CASE Len(buf) < 5
    <3>1. decode_frame(buf).used = 0 /\ (decode_frame(buf).bad <=> buf # <<>> /\ buf[1] \notin {TAG_INPUT, TAG_RESIZE})
      BY <2>4 DEF decode_frame
    <3>2. rest # <<>>
      <4>1. SUFFICES ASSUME rest = <<>> PROVE FALSE
        OBVIOUS
      <4>2. buf = e \o r
        BY <1>4, <2>1, <4>1, NoBytes
      <4>3. Len(e \o r) = Len(e) + Len(r) /\ Len(r) \in Nat
        BY ConcatProperties DEF Bytes
      <4> QED BY <1>0, <2>1, <2>4, <2>b, <4>2, <4>3
    <3> QED BY <1>0, <2>3, <3>1, <3>2
  <2>5. CASE ~(Len(buf) < 5)
    <3>0. /\ 1 \in 1..5 /\ 2 \in 1..5 /\ 3 \in 1..5 /\ 4 \in 1..5 /\ 5 \in 1..5
          /\ 1 <= Len(buf) /\ 2 <= Len(buf) /\ 3 <= Len(buf) /\ 4 <= Len(buf) /\ 5 <= Len(buf)
      BY <1>0, <2>5
    <3>e. buf[1] = e[1] /\ buf[2] = e[2] /\ buf[3] = e[3] /\ buf[4] = e[4] /\ buf[5] = e[5]
      BY <2>2, <3>0
    <3>1. buf[1] = TAG_RESIZE /\ be16(buf[2], buf[3]) = a /\ be16(buf[4], buf[5]) = c
      BY <2>1, <3>e
    <3>2. /\ decode_frame(buf).used = 5 /\ ~decode_frame(buf).bad
          /\ decode_frame(buf).frames = <<encode_resize(a, c)>>
      BY <1>0, <2>5, <3>1 DEF decode_frame, TAG_INPUT, TAG_RESIZE
    <3>3. Skip(buf, 5) \o rest = r /\ Skip(buf, 5) \in Bytes
      <4>1. Len(e) <= Len(buf)
        BY <1>0, <2>1, <2>5
      <4>2. Skip(buf, Len(e)) \o rest = r
        BY <1>0, <1>4, <2>1, <4>1, Overlaps DEF Bytes
      <4> QED BY <1>0, <2>1, <4>2, TakeSkip DEF Bytes
    <3>4. Queue(<<encode_resize(a, c)>>, <<<<"size", a, c>>>>)
      <4>1. Sized(a, c) \in DownM /\ Sized(a, c).code = encode_resize(a, c) /\ Sized(a, c).item = <<<<"size", a, c>>>>
        <5>1. Sized(a, c).code = encode_resize(a, c) /\ Sized(a, c).item = <<<<"size", a, c>>>>
          BY DEF Sized
        <5>2. Sized(a, c) \in DownM
          BY DEF DownM
        <5> QED BY <5>1, <5>2
      <4>2. <<>> \in Seq(Bytes) /\ <<>> \in Items
        BY EmptyOnes
      <4>3. Queue(<<Sized(a, c).code>> \o <<>>, Sized(a, c).item \o <<>>)
        BY <4>1, <4>2, QueueNothing, QueueMore
      <4>4. <<Sized(a, c).code>> \o <<>> = <<Sized(a, c).code>> /\ Sized(a, c).item \o <<>> = Sized(a, c).item
        <5>1. Sized(a, c).code \in Bytes /\ Sized(a, c).item \in Items
          BY <4>1, DownParts
        <5>2. <<Sized(a, c).code>> \in Seq(Bytes)
          BY <5>1, OneLong
        <5> QED BY <5>1, <5>2, ConcatEmptySeq, NoItems
      <4> QED BY <4>1, <4>3, <4>4
    <3> QED BY <3>2, <3>3, <3>4
  <2> QED BY <2>4, <2>5
<1>5. CASE \E m \in HostM, r \in Bytes, i \in Items :
              buf \o rest = m.code \o r /\ it = m.item \o i /\ Carries(HostM, {}, r, i, "open")
  <2>1. PICK m \in HostM, r \in Bytes, i \in Items :
              buf \o rest = m.code \o r /\ it = m.item \o i /\ Carries(HostM, {}, r, i, "open")
    BY <1>5
  <2>2. m.item \in Items
    BY HostTypes DEF Meanings
  <2>3. /\ ~decode_frame(buf).bad
        /\ decode_frame(buf).used = 0 => rest # <<>>
        /\ decode_frame(buf).used # 0 =>
              /\ Skip(buf, decode_frame(buf).used) \in Bytes
              /\ Queue(decode_frame(buf).frames, m.item)
              /\ Skip(buf, decode_frame(buf).used) \o rest = r
    <3>1. CASE m \in {HostTyped(b) : b \in Bytes}
      <4>1. PICK b \in Bytes : m = HostTyped(b)
        BY <3>1
      <4>2. m.code = host_input(b) /\ m.item = AsInput(b)
        BY <4>1 DEF HostTyped
      <4> QED BY <1>3, <2>1, <4>2
    <3>2. CASE m \in {HostSized(a, c) : a \in Nat, c \in Nat}
      <4>1. PICK a \in Nat, c \in Nat : m = HostSized(a, c)
        BY <3>2
      <4>2. m.code = host_resize(a, c) /\ m.item = <<<<"size", a, c>>>>
        BY <4>1 DEF HostSized
      <4> QED BY <1>4, <2>1, <4>2
    <3> QED BY <3>1, <3>2 DEF HostM
  <2> QED BY <2>1, <2>2, <2>3, Zenon
<1> QED BY <1>1, <1>2, <1>5 DEF NextFrame


-----------------------------------------------------------------------------
(* The filter.  Two filters that differ in what they forwarded so far, and  *)
(* in what the state they are in does not read, go on alike: the one that   *)
(* is ahead by o stays ahead by o.                                          *)
Names == {"", "title", "window", "clipboard", "query_echo"}
States == {"Ground", "Utf8C2", "Esc", "Csi", "OscId", "DcsId", "Str", "StrEsc", "StrC2"}
Filters == [state : States, buf : Bytes, csi_over : BOOLEAN, osc_num : Int,
            osc_seen : BOOLEAN, osc_over : BOOLEAN, dcs_over : BOOLEAN,
            str_drop : BOOLEAN, str_bel : BOOLEAN, out : Bytes, dropped : Seq(Names)]
Ahead(f, g, o) == f \in Filters /\ g \in Filters /\ o \in Bytes /\ f.out = o \o g.out
Held(f, g) ==
    /\ f.buf = g.buf /\ f.csi_over = g.csi_over /\ f.osc_num = g.osc_num
    /\ f.osc_seen = g.osc_seen /\ f.osc_over = g.osc_over /\ f.dcs_over = g.dcs_over
Strs(f, g) == f.str_drop = g.str_drop /\ f.str_bel = g.str_bel
Same(f, g, o) ==
    /\ Ahead(f, g, o) /\ f.state = g.state
    /\ f.state \in {"Csi", "OscId", "DcsId"} => Held(f, g)
    /\ f.state \in {"Str", "StrEsc", "StrC2"} => Strs(f, g)

\* The names are names.
LEMMA CsiNames == ASSUME NEW p, NEW b PROVE csi_decision(p, b) \in Names
<1>1. csi_decision(p, b) \in {"", "title", "window"}
  <2>1. CASE b # 116
    BY <2>1 DEF csi_decision
  <2>2. CASE b = 116
    BY <2>2 DEF csi_decision
  <2> QED BY <2>1, <2>2
<1> QED BY <1>1 DEF Names
\* The names are names.
LEMMA OscNames == ASSUME NEW s, NEW n PROVE osc_decision(s, n) \in Names
BY DEF osc_decision, Names

\* In another state.
LEMMA InType ==
    ASSUME NEW f \in Filters, NEW s \in States
    PROVE  /\ In(f, s) \in Filters /\ In(f, s).state = s /\ In(f, s).out = f.out
           /\ Held(In(f, s), f) /\ Strs(In(f, s), f)
BY DEF In, Filters, Held, Strs
\* Forwarded.
LEMMA ForwardType ==
    ASSUME NEW f \in Filters, NEW x \in Bytes
    PROVE  /\ Forward(f, x) \in Filters /\ Forward(f, x).state = f.state
           /\ Forward(f, x).out = f.out \o x
           /\ Held(Forward(f, x), f) /\ Strs(Forward(f, x), f)
<1>1. f.out \o x \in Bytes
  BY JoinBytes DEF Filters
<1> QED BY <1>1 DEF Forward, Filters, Held, Strs
\* Dropped.
LEMMA DropType ==
    ASSUME NEW f \in Filters, NEW n \in Names
    PROVE  /\ Drop(f, n) \in Filters /\ Drop(f, n).state = f.state /\ Drop(f, n).out = f.out
           /\ Held(Drop(f, n), f) /\ Strs(Drop(f, n), f)
<1>1. Append(f.dropped, n) \in Seq(Names)
  BY AppendProperties DEF Filters
<1> QED BY <1>1 DEF Drop, Filters, Held, Strs
\* A sequence opens.
Opened(h, x, s) ==
    /\ h.state = s /\ h.buf = x /\ h.csi_over = FALSE /\ h.osc_num = 0
    /\ h.osc_seen = FALSE /\ h.osc_over = FALSE /\ h.dcs_over = FALSE
\* It is held from its start.
LEMMA OpenType ==
    ASSUME NEW f \in Filters, NEW x \in Bytes, NEW s \in States
    PROVE  open(f, x, s) \in Filters /\ open(f, x, s).out = f.out /\ Opened(open(f, x, s), x, s)
<1>0. FALSE \in BOOLEAN /\ 0 \in Int
  OBVIOUS
<1>1. open(f, x, s) \in Filters
  BY <1>0, ZenonT(30) DEF open, Filters
<1>7. open(f, x, s).out = f.out
  BY DEF open, Filters
<1>2. open(f, x, s).state = s /\ open(f, x, s).buf = x /\ open(f, x, s).osc_num = 0
  BY DEF open, Filters
<1>3. open(f, x, s).csi_over = FALSE
  BY DEF open, Filters
<1>4. open(f, x, s).osc_seen = FALSE
  BY DEF open, Filters
<1>5. open(f, x, s).osc_over = FALSE
  BY DEF open, Filters
<1>6. open(f, x, s).dcs_over = FALSE
  BY DEF open, Filters
<1> QED BY <1>1, <1>2, <1>3, <1>4, <1>5, <1>6, <1>7 DEF Opened
\* A string is entered.
LEMMA EnterType ==
    ASSUME NEW f \in Filters, NEW d \in BOOLEAN, NEW b \in BOOLEAN
    PROVE  /\ enter_str(f, d, b) \in Filters /\ enter_str(f, d, b).state = "Str"
           /\ enter_str(f, d, b).out = f.out
           /\ enter_str(f, d, b).str_drop = d /\ enter_str(f, d, b).str_bel = b
<1>1. <<>> \in Bytes
  BY EmptyOnes
<1> QED BY <1>1 DEF enter_str, Filters, States

\* Held and Strs are equivalences.
LEMMA Alike ==
    ASSUME NEW f, NEW g, NEW h, NEW k
    PROVE  /\ Held(f, h) /\ Held(g, k) /\ Held(f, g) => Held(h, k)
           /\ Held(h, f) /\ Held(k, g) /\ Held(f, g) => Held(h, k)
           /\ Strs(h, f) /\ Strs(k, g) /\ Strs(f, g) => Strs(h, k)
BY DEF Held, Strs

\* In another state, both.
LEMMA InAhead ==
    ASSUME NEW f, NEW g, NEW o, Ahead(f, g, o), NEW s \in States
    PROVE  /\ Ahead(In(f, s), In(g, s), o) /\ In(f, s).state = s /\ In(g, s).state = s
           /\ Held(f, g) => Held(In(f, s), In(g, s))
           /\ Strs(f, g) => Strs(In(f, s), In(g, s))
<1>1. f \in Filters /\ g \in Filters
  BY DEF Ahead
<1>2. /\ In(f, s) \in Filters /\ In(f, s).state = s /\ In(f, s).out = f.out
      /\ Held(In(f, s), f) /\ Strs(In(f, s), f)
  BY <1>1, InType
<1>3. /\ In(g, s) \in Filters /\ In(g, s).state = s /\ In(g, s).out = g.out
      /\ Held(In(g, s), g) /\ Strs(In(g, s), g)
  BY <1>1, InType
<1>4. Ahead(In(f, s), In(g, s), o)
  BY <1>2, <1>3 DEF Ahead
<1> QED BY <1>2, <1>3, <1>4, Alike
\* Forwarded, both.
LEMMA ForwardAhead ==
    ASSUME NEW f, NEW g, NEW o, Ahead(f, g, o), NEW x \in Bytes
    PROVE  /\ Ahead(Forward(f, x), Forward(g, x), o)
           /\ Forward(f, x).state = f.state /\ Forward(g, x).state = g.state
           /\ Held(f, g) => Held(Forward(f, x), Forward(g, x))
           /\ Strs(f, g) => Strs(Forward(f, x), Forward(g, x))
<1>1. f \in Filters /\ g \in Filters /\ o \in Bytes /\ f.out = o \o g.out
  BY DEF Ahead
<1>2. /\ Forward(f, x) \in Filters /\ Forward(f, x).state = f.state
      /\ Forward(f, x).out = f.out \o x
      /\ Held(Forward(f, x), f) /\ Strs(Forward(f, x), f)
  BY <1>1, ForwardType
<1>3. /\ Forward(g, x) \in Filters /\ Forward(g, x).state = g.state
      /\ Forward(g, x).out = g.out \o x
      /\ Held(Forward(g, x), g) /\ Strs(Forward(g, x), g)
  BY <1>1, ForwardType
<1>5. g.out \in Bytes
  BY <1>1 DEF Filters
<1>6. (o \o g.out) \o x = o \o (g.out \o x)
  BY <1>1, <1>5, AssocBytes
<1>4. Ahead(Forward(f, x), Forward(g, x), o)
  BY <1>1, <1>2, <1>3, <1>6 DEF Ahead
<1> QED BY <1>2, <1>3, <1>4, Alike
\* Dropped, both.
LEMMA DropAhead ==
    ASSUME NEW f, NEW g, NEW o, Ahead(f, g, o), NEW n \in Names
    PROVE  /\ Ahead(Drop(f, n), Drop(g, n), o)
           /\ Drop(f, n).state = f.state /\ Drop(g, n).state = g.state
           /\ Held(f, g) => Held(Drop(f, n), Drop(g, n))
           /\ Strs(f, g) => Strs(Drop(f, n), Drop(g, n))
<1>1. f \in Filters /\ g \in Filters /\ o \in Bytes /\ f.out = o \o g.out
  BY DEF Ahead
<1>2. /\ Drop(f, n) \in Filters /\ Drop(f, n).state = f.state /\ Drop(f, n).out = f.out
      /\ Held(Drop(f, n), f) /\ Strs(Drop(f, n), f)
  BY <1>1, DropType
<1>3. /\ Drop(g, n) \in Filters /\ Drop(g, n).state = g.state /\ Drop(g, n).out = g.out
      /\ Held(Drop(g, n), g) /\ Strs(Drop(g, n), g)
  BY <1>1, DropType
<1>4. Ahead(Drop(f, n), Drop(g, n), o)
  BY <1>1, <1>2, <1>3 DEF Ahead
<1> QED BY <1>2, <1>3, <1>4, Alike
\* A sequence opens, in both.
LEMMA OpenSame ==
    ASSUME NEW f, NEW g, NEW o, Ahead(f, g, o), NEW x \in Bytes, NEW s \in {"Csi", "OscId", "DcsId"}
    PROVE  Same(open(f, x, s), open(g, x, s), o)
<1>1. f \in Filters /\ g \in Filters /\ o \in Bytes /\ f.out = o \o g.out
  BY DEF Ahead
<1>2. s \in States
  BY DEF States
<1>3. open(f, x, s) \in Filters /\ open(f, x, s).out = f.out /\ Opened(open(f, x, s), x, s)
  BY <1>1, <1>2, OpenType
<1>4. open(g, x, s) \in Filters /\ open(g, x, s).out = g.out /\ Opened(open(g, x, s), x, s)
  BY <1>1, <1>2, OpenType
<1>5. Held(open(f, x, s), open(g, x, s)) /\ open(f, x, s).state = s /\ open(g, x, s).state = s
  BY <1>3, <1>4 DEF Held, Opened
<1> QED BY <1>1, <1>3, <1>4, <1>5 DEF Same, Ahead
\* A string is entered, in both.
LEMMA EnterAhead ==
    ASSUME NEW f, NEW g, NEW o, Ahead(f, g, o), NEW d \in BOOLEAN, NEW b \in BOOLEAN
    PROVE  /\ Ahead(enter_str(f, d, b), enter_str(g, d, b), o)
           /\ Strs(enter_str(f, d, b), enter_str(g, d, b))
           /\ Same(enter_str(f, d, b), enter_str(g, d, b), o)
<1>1. f \in Filters /\ g \in Filters /\ o \in Bytes /\ f.out = o \o g.out
  BY DEF Ahead
<1>3. /\ enter_str(f, d, b) \in Filters /\ enter_str(f, d, b).state = "Str"
      /\ enter_str(f, d, b).out = f.out
      /\ enter_str(f, d, b).str_drop = d /\ enter_str(f, d, b).str_bel = b
  BY <1>1, EnterType
<1>4. /\ enter_str(g, d, b) \in Filters /\ enter_str(g, d, b).state = "Str"
      /\ enter_str(g, d, b).out = g.out
      /\ enter_str(g, d, b).str_drop = d /\ enter_str(g, d, b).str_bel = b
  BY <1>1, EnterType
<1> QED BY <1>1, <1>3, <1>4 DEF Same, Ahead, Strs

\* Bytes of two.
LEMMA Pairs ==
    ASSUME NEW x \in Nat, NEW y \in Nat
    PROVE  <<x>> \in Bytes /\ <<x, y>> \in Bytes
BY DEF Bytes
\* The controls are bytes.
LEMMA Controls == ESC \in Nat /\ C2 \in Nat /\ ESC # C2
BY DEF ESC, C2

\* A byte in the ground state: what went before does not matter.
LEMMA GroundSame ==
    ASSUME NEW f, NEW g, NEW o, Ahead(f, g, o), NEW b \in Nat
    PROVE  Same(Ground(f, b), Ground(g, b), o)
<1>1. CASE b = ESC
  <2>1. Ground(f, b) = In(f, "Esc") /\ Ground(g, b) = In(g, "Esc")
    BY <1>1, Controls DEF Ground
  <2>2. Ahead(In(f, "Esc"), In(g, "Esc"), o) /\ In(f, "Esc").state = "Esc" /\ In(g, "Esc").state = "Esc"
    BY InAhead DEF States
  <2> QED BY <2>1, <2>2 DEF Same
<1>2. CASE b = C2
  <2>1. Ground(f, b) = In(f, "Utf8C2") /\ Ground(g, b) = In(g, "Utf8C2")
    BY <1>2, Controls DEF Ground
  <2>2. Ahead(In(f, "Utf8C2"), In(g, "Utf8C2"), o) /\ In(f, "Utf8C2").state = "Utf8C2" /\ In(g, "Utf8C2").state = "Utf8C2"
    BY InAhead DEF States
  <2> QED BY <2>1, <2>2 DEF Same
<1>3. CASE b # ESC /\ b # C2
  <2>1. Ground(f, b) = Forward(In(f, "Ground"), <<b>>) /\ Ground(g, b) = Forward(In(g, "Ground"), <<b>>)
    BY <1>3 DEF Ground
  <2>2. Ahead(In(f, "Ground"), In(g, "Ground"), o) /\ In(f, "Ground").state = "Ground" /\ In(g, "Ground").state = "Ground"
    BY InAhead DEF States
  <2>3. /\ Ahead(Forward(In(f, "Ground"), <<b>>), Forward(In(g, "Ground"), <<b>>), o)
        /\ Forward(In(f, "Ground"), <<b>>).state = "Ground" /\ Forward(In(g, "Ground"), <<b>>).state = "Ground"
    BY <2>2, Pairs, ForwardAhead
  <2> QED BY <2>1, <2>3 DEF Same
<1> QED BY <1>1, <1>2, <1>3

\* After the first byte of a two-byte character.
LEMMA Utf8C2Same ==
    ASSUME NEW f, NEW g, NEW o, Ahead(f, g, o), NEW b \in Nat
    PROVE  Same(Utf8C2(f, b), Utf8C2(g, b), o)
<1>0. <<C2, 155>> \in Bytes /\ <<C2, 157>> \in Bytes /\ <<C2, 144>> \in Bytes /\ <<C2, b>> \in Bytes /\ <<C2>> \in Bytes
  BY Pairs, Controls
<1>1. CASE b = 155
  <2>1. Utf8C2(f, b) = open(f, <<C2, 155>>, "Csi") /\ Utf8C2(g, b) = open(g, <<C2, 155>>, "Csi")
    BY <1>1 DEF Utf8C2, continuation
  <2> QED BY <1>0, <2>1, OpenSame
<1>2. CASE b = 157
  <2>1. Utf8C2(f, b) = open(f, <<C2, 157>>, "OscId") /\ Utf8C2(g, b) = open(g, <<C2, 157>>, "OscId")
    BY <1>2 DEF Utf8C2, continuation
  <2> QED BY <1>0, <2>1, OpenSame
<1>3. CASE b = 144
  <2>1. Utf8C2(f, b) = open(f, <<C2, 144>>, "DcsId") /\ Utf8C2(g, b) = open(g, <<C2, 144>>, "DcsId")
    BY <1>3 DEF Utf8C2, continuation
  <2> QED BY <1>0, <2>1, OpenSame
<1>4. CASE continuation(b) /\ b \notin {144, 155, 157}
  <2>1. /\ Utf8C2(f, b) = Forward(In(f, "Ground"), <<C2, b>>)
        /\ Utf8C2(g, b) = Forward(In(g, "Ground"), <<C2, b>>)
    BY <1>4 DEF Utf8C2
  <2>2. Ahead(In(f, "Ground"), In(g, "Ground"), o) /\ In(f, "Ground").state = "Ground" /\ In(g, "Ground").state = "Ground"
    BY InAhead DEF States
  <2>3. /\ Ahead(Forward(In(f, "Ground"), <<C2, b>>), Forward(In(g, "Ground"), <<C2, b>>), o)
        /\ Forward(In(f, "Ground"), <<C2, b>>).state = "Ground" /\ Forward(In(g, "Ground"), <<C2, b>>).state = "Ground"
    <3>1. <<C2, b>> \in Bytes
      BY <1>0
    <3> QED BY <2>2, <3>1, ForwardAhead
  <2> QED BY <2>1, <2>3 DEF Same
<1>5. CASE ~continuation(b) /\ b \notin {144, 155, 157}
  <2>1. Utf8C2(f, b) = Ground(Forward(f, <<C2>>), b) /\ Utf8C2(g, b) = Ground(Forward(g, <<C2>>), b)
    BY <1>5 DEF Utf8C2
  <2>2. Ahead(Forward(f, <<C2>>), Forward(g, <<C2>>), o)
    BY <1>0, ForwardAhead
  <2> QED BY <2>1, <2>2, GroundSame
<1> QED BY <1>1, <1>2, <1>3, <1>4, <1>5

\* After an escape.
LEMMA EscSame ==
    ASSUME NEW f, NEW g, NEW o, Ahead(f, g, o), NEW b \in Nat
    PROVE  Same(Esc(f, b), Esc(g, b), o)
<1>0. <<ESC, 91>> \in Bytes /\ <<ESC, 93>> \in Bytes /\ <<ESC, 80>> \in Bytes /\ <<ESC>> \in Bytes
  BY Pairs, Controls
<1>1. CASE b = 91
  <2>1. Esc(f, b) = open(f, <<ESC, 91>>, "Csi") /\ Esc(g, b) = open(g, <<ESC, 91>>, "Csi")
    BY <1>1 DEF Esc
  <2> QED BY <1>0, <2>1, OpenSame
<1>2. CASE b = 93
  <2>1. Esc(f, b) = open(f, <<ESC, 93>>, "OscId") /\ Esc(g, b) = open(g, <<ESC, 93>>, "OscId")
    BY <1>2 DEF Esc
  <2> QED BY <1>0, <2>1, OpenSame
<1>3. CASE b = 80
  <2>1. Esc(f, b) = open(f, <<ESC, 80>>, "DcsId") /\ Esc(g, b) = open(g, <<ESC, 80>>, "DcsId")
    BY <1>3 DEF Esc
  <2> QED BY <1>0, <2>1, OpenSame
<1>4. CASE b \notin {91, 93, 80}
  <2>1. Esc(f, b) = Ground(Forward(f, <<ESC>>), b) /\ Esc(g, b) = Ground(Forward(g, <<ESC>>), b)
    BY <1>4 DEF Esc
  <2>2. Ahead(Forward(f, <<ESC>>), Forward(g, <<ESC>>), o)
    BY <1>0, ForwardAhead
  <2> QED BY <2>1, <2>2, GroundSame
<1> QED BY <1>1, <1>2, <1>3, <1>4

\* A CSI ends.
LEMMA ClosedAhead ==
    ASSUME NEW f, NEW g, NEW o, Ahead(f, g, o)
    PROVE  /\ Ahead(csi_closed(f), csi_closed(g), o)
           /\ csi_closed(f).state = "Ground" /\ csi_closed(g).state = "Ground"
<1>0. <<>> \in Bytes /\ "Ground" \in States /\ FALSE \in BOOLEAN
  BY EmptyOnes DEF States
<1>1. ASSUME NEW h \in Filters
      PROVE  csi_closed(h) \in Filters /\ csi_closed(h).state = "Ground" /\ csi_closed(h).out = h.out
  BY <1>0 DEF csi_closed, Filters
<1> QED BY <1>1 DEF Ahead

\* A byte of a CSI is kept.
LEMMA HeldSame ==
    ASSUME NEW f, NEW g, NEW o, Ahead(f, g, o), Held(f, g), NEW b \in Nat
    PROVE  /\ Ahead(csi_held(f, b), csi_held(g, b), o) /\ Held(csi_held(f, b), csi_held(g, b))
           /\ csi_held(f, b).state = f.state /\ csi_held(g, b).state = g.state
<1>1. f \in Filters /\ g \in Filters
  BY DEF Ahead
<1>2. CASE f.csi_over
  <2>1. g.csi_over
    BY <1>2 DEF Held
  <2>2. csi_held(f, b) = f /\ csi_held(g, b) = g
    BY <1>2, <2>1 DEF csi_held
  <2> QED BY <2>2
<1>3. CASE ~f.csi_over
  <2>1. ~g.csi_over
    BY <1>3 DEF Held
  <2> DEFINE more == Len(f.buf) + 1 >= CSI_CAP
             buf == Append(f.buf, b)
  <2>2. buf \in Bytes /\ more \in BOOLEAN
    <3>1. f.buf \in Seq(Nat)
      BY <1>1 DEF Filters, Bytes
    <3> QED BY <3>1, AppendProperties DEF Bytes
  <2>3. csi_held(f, b) = [f EXCEPT !.buf = buf, !.csi_over = more]
    BY <1>1, <1>3 DEF csi_held
  <2>4. csi_held(g, b) = [g EXCEPT !.buf = buf, !.csi_over = more]
    BY <1>1, <2>1 DEF csi_held, Held
  <2> HIDE DEF buf, more
  <2>5. ASSUME NEW h \in Filters, NEW k, k = [h EXCEPT !.buf = buf, !.csi_over = more]
        PROVE  /\ k \in Filters /\ k.state = h.state /\ k.out = h.out /\ k.buf = buf
               /\ k.csi_over = more /\ k.osc_num = h.osc_num /\ k.osc_seen = h.osc_seen
               /\ k.osc_over = h.osc_over /\ k.dcs_over = h.dcs_over
    BY <2>2, <2>5 DEF Filters
  <2>6. /\ csi_held(f, b) \in Filters /\ csi_held(f, b).state = f.state
        /\ csi_held(f, b).out = f.out /\ csi_held(f, b).buf = buf
        /\ csi_held(f, b).csi_over = more /\ csi_held(f, b).osc_num = f.osc_num
        /\ csi_held(f, b).osc_seen = f.osc_seen
        /\ csi_held(f, b).osc_over = f.osc_over /\ csi_held(f, b).dcs_over = f.dcs_over
    BY <1>1, <2>3, <2>5
  <2>7. /\ csi_held(g, b) \in Filters /\ csi_held(g, b).state = g.state
        /\ csi_held(g, b).out = g.out /\ csi_held(g, b).buf = buf
        /\ csi_held(g, b).csi_over = more /\ csi_held(g, b).osc_num = g.osc_num
        /\ csi_held(g, b).osc_seen = g.osc_seen
        /\ csi_held(g, b).osc_over = g.osc_over /\ csi_held(g, b).dcs_over = g.dcs_over
    BY <1>1, <2>4, <2>5
  <2>8. Held(csi_held(f, b), csi_held(g, b))
    BY <2>6, <2>7 DEF Held
  <2>9. Ahead(csi_held(f, b), csi_held(g, b), o)
    BY <2>6, <2>7 DEF Ahead
  <2> QED BY <2>6, <2>7, <2>8, <2>9
<1> QED BY <1>2, <1>3

\* A byte of a CSI.
LEMMA CsiSame ==
    ASSUME NEW f, NEW g, NEW o, Ahead(f, g, o), Held(f, g), f.state = "Csi", g.state = "Csi",
           NEW b \in Nat
    PROVE  Same(Csi(f, b), Csi(g, b), o)
<1>0. /\ f \in Filters /\ g \in Filters /\ f.buf = g.buf /\ f.buf \in Bytes
      /\ (f.csi_over <=> g.csi_over)
  BY DEF Ahead, Filters, Held
<1>1. CASE final(b)
  <2> DEFINE name == csi_decision(f.buf, b)
             all == Append(f.buf, b)
             F == IF name # "" \/ f.csi_over THEN Drop(f, name) ELSE Forward(f, all)
             G == IF name # "" \/ f.csi_over THEN Drop(g, name) ELSE Forward(g, all)
  <2>1. name \in Names
    BY CsiNames
  <2>2. all \in Bytes
    BY <1>0, AppendProperties DEF Bytes
  <2>a. ~parameter(b) /\ b \notin C0 /\ b # DEL
    BY <1>1 DEF final, parameter, C0, DEL
  <2>3. Csi(f, b) = csi_closed(F)
    BY <1>1, <2>a DEF Csi
  <2>4. Csi(g, b) = csi_closed(G)
    <3>1. Csi(g, b) = csi_closed(IF csi_decision(g.buf, b) # "" \/ g.csi_over
                                   THEN Drop(g, csi_decision(g.buf, b))
                                   ELSE Forward(g, Append(g.buf, b)))
      BY <1>1, <2>a DEF Csi
    <3> QED BY <1>0, <3>1
  <2> HIDE DEF name, all
  <2>5. Ahead(F, G, o)
    <3>1. CASE name # "" \/ f.csi_over
      BY <2>1, <3>1, DropAhead
    <3>2. CASE ~(name # "" \/ f.csi_over)
      BY <2>2, <3>2, ForwardAhead
    <3> QED BY <3>1, <3>2
  <2> HIDE DEF F, G
  <2> QED BY <2>3, <2>4, <2>5, ClosedAhead DEF Same
<1>2. CASE parameter(b)
  <2>1. Csi(f, b) = csi_held(f, b) /\ Csi(g, b) = csi_held(g, b)
    BY <1>2 DEF Csi, final, parameter, C0, DEL
  <2>2. /\ Ahead(csi_held(f, b), csi_held(g, b), o) /\ Held(csi_held(f, b), csi_held(g, b))
        /\ csi_held(f, b).state = "Csi" /\ csi_held(g, b).state = "Csi"
    BY HeldSame
  <2> QED BY <2>1, <2>2 DEF Same
<1>3. CASE b \in C0
  <2>0. <<b>> \in Bytes
    BY Pairs
  <2>a. ~parameter(b) /\ ~final(b) /\ b # DEL
    BY <1>3 DEF final, parameter, C0, DEL
  <2>1. Csi(f, b) = Forward(f, <<b>>) /\ Csi(g, b) = Forward(g, <<b>>)
    BY <1>3, <2>a DEF Csi
  <2>2. /\ Ahead(Forward(f, <<b>>), Forward(g, <<b>>), o) /\ Held(Forward(f, <<b>>), Forward(g, <<b>>))
        /\ Forward(f, <<b>>).state = "Csi" /\ Forward(g, <<b>>).state = "Csi"
    BY <2>0, ForwardAhead
  <2> QED BY <2>1, <2>2 DEF Same
<1>4. CASE b = DEL
  <2>1. Csi(f, b) = f /\ Csi(g, b) = g
    BY <1>4 DEF Csi, final, parameter, C0, DEL
  <2> QED BY <2>1 DEF Same
<1>5. CASE ~final(b) /\ ~parameter(b) /\ b \notin C0 /\ b # DEL
  <2> DEFINE F == IF f.csi_over THEN f ELSE Forward(f, f.buf)
             G == IF f.csi_over THEN g ELSE Forward(g, f.buf)
  <2>1. Csi(f, b) = Ground(csi_closed(F), b)
    BY <1>5 DEF Csi
  <2>2. Csi(g, b) = Ground(csi_closed(G), b)
    <3>1. Csi(g, b) = Ground(csi_closed(IF g.csi_over THEN g ELSE Forward(g, g.buf)), b)
      BY <1>5 DEF Csi
    <3> QED BY <1>0, <3>1
  <2>5. Ahead(F, G, o)
    <3>1. CASE f.csi_over
      BY <3>1
    <3>2. CASE ~f.csi_over
      BY <1>0, <3>2, ForwardAhead
    <3> QED BY <3>1, <3>2
  <2> HIDE DEF F, G
  <2>6. Ahead(csi_closed(F), csi_closed(G), o)
    BY <2>5, ClosedAhead
  <2> QED BY <2>1, <2>2, <2>6, GroundSame
<1> QED BY <1>1, <1>2, <1>3, <1>4, <1>5

\* A byte that a string forwards, unless it is dropped.
LEMMA PassAhead ==
    ASSUME NEW f, NEW g, NEW o, Ahead(f, g, o), Strs(f, g), NEW x \in Bytes, NEW F, NEW G,
           F = IF f.str_drop THEN f ELSE Forward(f, x),
           G = IF g.str_drop THEN g ELSE Forward(g, x)
    PROVE  Ahead(F, G, o) /\ Strs(F, G)
<1>0. f.str_drop <=> g.str_drop
  BY DEF Strs
<1>1. CASE f.str_drop
  BY <1>0, <1>1
<1>2. CASE ~f.str_drop
  BY <1>0, <1>2, ForwardAhead
<1> QED BY <1>1, <1>2

\* In a state of a string, both.
LEMMA InStr ==
    ASSUME NEW f, NEW g, NEW o, Ahead(f, g, o), Strs(f, g),
           NEW s \in {"Ground", "Str", "StrEsc", "StrC2"}
    PROVE  Same(In(f, s), In(g, s), o)
<1>1. s \in States
  BY DEF States
<1>2. /\ Ahead(In(f, s), In(g, s), o) /\ In(f, s).state = s /\ In(g, s).state = s
      /\ Strs(In(f, s), In(g, s))
  BY <1>1, InAhead
<1> QED BY <1>2 DEF Same

\* A byte of a string.
LEMMA StrSame ==
    ASSUME NEW f, NEW g, NEW o, Ahead(f, g, o), Strs(f, g), NEW b \in Nat
    PROVE  Same(Str(f, b), Str(g, b), o)
<1>1. CASE b = ESC
  <2>1. Str(f, b) = In(f, "StrEsc") /\ Str(g, b) = In(g, "StrEsc")
    BY <1>1, Controls DEF Str
  <2> QED BY <2>1, InStr
<1>2. CASE b = C2
  <2>1. Str(f, b) = In(f, "StrC2") /\ Str(g, b) = In(g, "StrC2")
    BY <1>2, Controls DEF Str
  <2> QED BY <2>1, InStr
<1>3. CASE b # ESC /\ b # C2
  <2>0. <<b>> \in Bytes
    BY Pairs
  <2> DEFINE F == IF f.str_drop THEN f ELSE Forward(f, <<b>>)
             G == IF g.str_drop THEN g ELSE Forward(g, <<b>>)
  <2>1. Str(f, b) = IF b = BEL /\ f.str_bel THEN In(F, "Ground") ELSE In(F, "Str")
    BY <1>3 DEF Str
  <2>2. Str(g, b) = IF b = BEL /\ g.str_bel THEN In(G, "Ground") ELSE In(G, "Str")
    BY <1>3 DEF Str
  <2>3. Ahead(F, G, o) /\ Strs(F, G)
    BY <2>0, PassAhead
  <2> HIDE DEF F, G
  <2>4. f.str_bel <=> g.str_bel
    BY DEF Strs
  <2>5. Same(In(F, "Ground"), In(G, "Ground"), o) /\ Same(In(F, "Str"), In(G, "Str"), o)
    BY <2>3, InStr
  <2> QED BY <2>1, <2>2, <2>4, <2>5
<1> QED BY <1>1, <1>2, <1>3

\* After an escape in a string.
LEMMA StrEscSame ==
    ASSUME NEW f, NEW g, NEW o, Ahead(f, g, o), Strs(f, g), NEW b \in Nat
    PROVE  Same(StrEsc(f, b), StrEsc(g, b), o)
<1>1. CASE b # 92
  <2>1. StrEsc(f, b) = Esc(f, b) /\ StrEsc(g, b) = Esc(g, b)
    BY <1>1 DEF StrEsc
  <2> QED BY <2>1, EscSame
<1>2. CASE b = 92
  <2>0. <<ESC, b>> \in Bytes
    BY Pairs, Controls
  <2> DEFINE F == IF f.str_drop THEN f ELSE Forward(f, <<ESC, b>>)
             G == IF g.str_drop THEN g ELSE Forward(g, <<ESC, b>>)
  <2>1. StrEsc(f, b) = In(F, "Ground") /\ StrEsc(g, b) = In(G, "Ground")
    BY <1>2 DEF StrEsc
  <2>3. Ahead(F, G, o) /\ Strs(F, G)
    BY <2>0, PassAhead
  <2> HIDE DEF F, G
  <2> QED BY <2>1, <2>3, InStr
<1> QED BY <1>1, <1>2

\* After the first byte of a two-byte character in a string.
LEMMA StrC2Same ==
    ASSUME NEW f, NEW g, NEW o, Ahead(f, g, o), Strs(f, g), NEW b \in Nat
    PROVE  Same(StrC2(f, b), StrC2(g, b), o)
<1>0. <<C2, b>> \in Bytes /\ <<C2>> \in Bytes
  BY Pairs, Controls
<1>1. CASE continuation(b)
  <2> DEFINE F == IF f.str_drop THEN f ELSE Forward(f, <<C2, b>>)
             G == IF g.str_drop THEN g ELSE Forward(g, <<C2, b>>)
             s == IF b = 156 THEN "Ground" ELSE "Str"
  <2>1. StrC2(f, b) = In(F, s) /\ StrC2(g, b) = In(G, s)
    BY <1>1 DEF StrC2
  <2>3. Ahead(F, G, o) /\ Strs(F, G)
    BY <1>0, PassAhead
  <2>4. s \in {"Ground", "Str", "StrEsc", "StrC2"}
    OBVIOUS
  <2> HIDE DEF F, G, s
  <2> QED BY <2>1, <2>3, <2>4, InStr
<1>2. CASE ~continuation(b)
  <2> DEFINE F == IF f.str_drop THEN f ELSE Forward(f, <<C2>>)
             G == IF g.str_drop THEN g ELSE Forward(g, <<C2>>)
  <2>1. StrC2(f, b) = Str(F, b) /\ StrC2(g, b) = Str(G, b)
    BY <1>2 DEF StrC2
  <2>3. Ahead(F, G, o) /\ Strs(F, G)
    BY <1>0, PassAhead
  <2> HIDE DEF F, G
  <2> QED BY <2>1, <2>3, StrSame
<1> QED BY <1>1, <1>2

\* A digit of the number of an OSC.
LEMMA DigitSame ==
    ASSUME NEW f, NEW g, NEW o, Ahead(f, g, o), Held(f, g), NEW b \in Nat
    PROVE  /\ Ahead(osc_digit(f, b), osc_digit(g, b), o) /\ Held(osc_digit(f, b), osc_digit(g, b))
           /\ osc_digit(f, b).state = f.state /\ osc_digit(g, b).state = g.state
<1>1. f \in Filters /\ g \in Filters /\ f.buf \in Bytes /\ f.osc_num \in Int
  BY DEF Ahead, Filters
<1>2. /\ f.buf = g.buf /\ (f.osc_over <=> g.osc_over) /\ f.osc_num = g.osc_num
      /\ f.csi_over = g.csi_over /\ f.dcs_over = g.dcs_over
  BY DEF Held
<1>3. saturating(f.osc_num, b) \in Int
  <2>1. U32_MAX \in Int
    BY FilterAssumption
  <2>2. 10 * f.osc_num + b - 48 \in Int
    BY <1>1
  <2> QED BY <2>1, <2>2 DEF saturating
<1>4. PICK n \in Int : n = saturating(f.osc_num, b)
  BY <1>3
<1>5. CASE f.osc_over
  <2>1. osc_digit(f, b) = [f EXCEPT !.osc_seen = TRUE, !.osc_num = n]
    BY <1>1, <1>4, <1>5 DEF osc_digit, Filters
  <2>2. osc_digit(g, b) = [g EXCEPT !.osc_seen = TRUE, !.osc_num = n]
    BY <1>1, <1>2, <1>4, <1>5 DEF osc_digit, Filters
  <2>5. ASSUME NEW h \in Filters, NEW k, k = [h EXCEPT !.osc_seen = TRUE, !.osc_num = n]
        PROVE  /\ k \in Filters /\ k.state = h.state /\ k.out = h.out /\ k.buf = h.buf
               /\ k.csi_over = h.csi_over /\ k.osc_num = n /\ k.osc_seen = TRUE
               /\ k.osc_over = h.osc_over /\ k.dcs_over = h.dcs_over
    BY <2>5 DEF Filters
  <2>6. /\ osc_digit(f, b) \in Filters /\ osc_digit(f, b).state = f.state
        /\ osc_digit(f, b).out = f.out /\ osc_digit(f, b).buf = f.buf
        /\ osc_digit(f, b).csi_over = f.csi_over /\ osc_digit(f, b).osc_num = n
        /\ osc_digit(f, b).osc_seen = TRUE
        /\ osc_digit(f, b).osc_over = f.osc_over /\ osc_digit(f, b).dcs_over = f.dcs_over
    BY <1>1, <2>1, <2>5
  <2>7. /\ osc_digit(g, b) \in Filters /\ osc_digit(g, b).state = g.state
        /\ osc_digit(g, b).out = g.out /\ osc_digit(g, b).buf = g.buf
        /\ osc_digit(g, b).csi_over = g.csi_over /\ osc_digit(g, b).osc_num = n
        /\ osc_digit(g, b).osc_seen = TRUE
        /\ osc_digit(g, b).osc_over = g.osc_over /\ osc_digit(g, b).dcs_over = g.dcs_over
    BY <1>1, <2>2, <2>5
  <2>8. Held(osc_digit(f, b), osc_digit(g, b))
    BY <2>6, <2>7 DEF Held
  <2>9. Ahead(osc_digit(f, b), osc_digit(g, b), o)
    BY <2>6, <2>7 DEF Ahead
  <2> QED BY <2>6, <2>7, <2>8, <2>9
<1>6. CASE ~f.osc_over
  <2> DEFINE more == Len(f.buf) + 1 >= OSC_ID_CAP
             buf == Append(f.buf, b)
  <2>0. buf \in Bytes /\ more \in BOOLEAN
    BY <1>1, AppendProperties DEF Bytes
  <2>1. osc_digit(f, b) = [[f EXCEPT !.osc_seen = TRUE, !.osc_num = n] EXCEPT !.buf = buf, !.osc_over = more]
    BY <1>1, <1>4, <1>6 DEF osc_digit, Filters
  <2>2. osc_digit(g, b) = [[g EXCEPT !.osc_seen = TRUE, !.osc_num = n] EXCEPT !.buf = buf, !.osc_over = more]
    BY <1>1, <1>2, <1>4, <1>6 DEF osc_digit, Filters
  <2> HIDE DEF buf, more
  <2>5. ASSUME NEW h \in Filters, NEW k,
               k = [[h EXCEPT !.osc_seen = TRUE, !.osc_num = n] EXCEPT !.buf = buf, !.osc_over = more]
        PROVE  /\ k \in Filters /\ k.state = h.state /\ k.out = h.out /\ k.buf = buf
               /\ k.csi_over = h.csi_over /\ k.osc_num = n /\ k.osc_seen = TRUE
               /\ k.osc_over = more /\ k.dcs_over = h.dcs_over
    BY <2>0, <2>5 DEF Filters
  <2>6. /\ osc_digit(f, b) \in Filters /\ osc_digit(f, b).state = f.state
        /\ osc_digit(f, b).out = f.out /\ osc_digit(f, b).buf = buf
        /\ osc_digit(f, b).csi_over = f.csi_over /\ osc_digit(f, b).osc_num = n
        /\ osc_digit(f, b).osc_seen = TRUE
        /\ osc_digit(f, b).osc_over = more /\ osc_digit(f, b).dcs_over = f.dcs_over
    BY <1>1, <2>1, <2>5
  <2>7. /\ osc_digit(g, b) \in Filters /\ osc_digit(g, b).state = g.state
        /\ osc_digit(g, b).out = g.out /\ osc_digit(g, b).buf = buf
        /\ osc_digit(g, b).csi_over = g.csi_over /\ osc_digit(g, b).osc_num = n
        /\ osc_digit(g, b).osc_seen = TRUE
        /\ osc_digit(g, b).osc_over = more /\ osc_digit(g, b).dcs_over = g.dcs_over
    BY <1>1, <2>2, <2>5
  <2>8. Held(osc_digit(f, b), osc_digit(g, b))
    BY <1>2, <2>6, <2>7 DEF Held
  <2>9. Ahead(osc_digit(f, b), osc_digit(g, b), o)
    BY <2>6, <2>7 DEF Ahead
  <2> QED BY <2>6, <2>7, <2>8, <2>9
<1> QED BY <1>5, <1>6

\* A byte of the number of an OSC.
LEMMA OscIdSame ==
    ASSUME NEW f, NEW g, NEW o, Ahead(f, g, o), Held(f, g), f.state = "OscId", g.state = "OscId",
           NEW b \in Nat
    PROVE  Same(OscId(f, b), OscId(g, b), o)
<1>0. /\ f \in Filters /\ g \in Filters /\ f.buf = g.buf /\ f.buf \in Bytes
      /\ (f.osc_over <=> g.osc_over) /\ f.osc_seen = g.osc_seen /\ f.osc_num = g.osc_num
  BY DEF Ahead, Filters, Held
<1>1. CASE digit(b)
  <2>0. b \notin (C0 \ {BEL}) \cup {DEL}
    BY <1>1 DEF digit, C0, DEL
  <2>1. OscId(f, b) = osc_digit(f, b) /\ OscId(g, b) = osc_digit(g, b)
    BY <1>1, <2>0 DEF OscId
  <2>2. /\ Ahead(osc_digit(f, b), osc_digit(g, b), o) /\ Held(osc_digit(f, b), osc_digit(g, b))
        /\ osc_digit(f, b).state = "OscId" /\ osc_digit(g, b).state = "OscId"
    BY DigitSame
  <2> QED BY <2>1, <2>2 DEF Same
<1>2. CASE b \in (C0 \ {BEL}) \cup {DEL}
  <2>0. ~digit(b)
    BY <1>2 DEF digit, C0, DEL
  <2>1. OscId(f, b) = f /\ OscId(g, b) = g
    BY <1>2, <2>0 DEF OscId
  <2> QED BY <2>1 DEF Same
<1>3. CASE ~digit(b) /\ b \notin (C0 \ {BEL}) \cup {DEL}
  <2> DEFINE name == osc_decision(f.osc_seen, f.osc_num)
             F == enter_str(Drop(f, name), TRUE, TRUE)
             G == enter_str(Drop(g, name), TRUE, TRUE)
             H == enter_str(Forward(f, f.buf), FALSE, TRUE)
             K == enter_str(Forward(g, f.buf), FALSE, TRUE)
  <2>1. OscId(f, b) = IF name = "" /\ ~f.osc_over THEN Str(H, b)
                      ELSE IF b \in {BEL, ESC, C2} THEN Str(F, b) ELSE F
    BY <1>3 DEF OscId
  <2>2. OscId(g, b) = IF name = "" /\ ~f.osc_over THEN Str(K, b)
                      ELSE IF b \in {BEL, ESC, C2} THEN Str(G, b) ELSE G
    <3>1. OscId(g, b) = IF osc_decision(g.osc_seen, g.osc_num) = "" /\ ~g.osc_over
                          THEN Str(enter_str(Forward(g, g.buf), FALSE, TRUE), b)
                        ELSE IF b \in {BEL, ESC, C2}
                          THEN Str(enter_str(Drop(g, osc_decision(g.osc_seen, g.osc_num)), TRUE, TRUE), b)
                          ELSE enter_str(Drop(g, osc_decision(g.osc_seen, g.osc_num)), TRUE, TRUE)
      BY <1>3 DEF OscId
    <3> QED BY <1>0, <3>1
  <2>3. Ahead(Drop(f, name), Drop(g, name), o)
    <3>1. name \in Names
      BY OscNames
    <3> HIDE DEF name
    <3> QED BY <3>1, DropAhead
  <2>4. Ahead(F, G, o) /\ Strs(F, G) /\ Same(F, G, o)
    <3> HIDE DEF name
    <3> QED BY <2>3, EnterAhead
  <2>5. Ahead(Forward(f, f.buf), Forward(g, f.buf), o)
    BY <1>0, ForwardAhead
  <2>6. Ahead(H, K, o) /\ Strs(H, K)
    BY <2>5, EnterAhead
  <2> HIDE DEF name, F, G, H, K
  <2>7. Same(Str(H, b), Str(K, b), o) /\ Same(Str(F, b), Str(G, b), o)
    BY <2>4, <2>6, StrSame
  <2> QED BY <2>1, <2>2, <2>4, <2>7
<1> QED BY <1>1, <1>2, <1>3

\* A byte of the name of a DCS.
LEMMA DcsIdSame ==
    ASSUME NEW f, NEW g, NEW o, Ahead(f, g, o), Held(f, g), f.state = "DcsId", g.state = "DcsId",
           NEW b \in Nat
    PROVE  Same(DcsId(f, b), DcsId(g, b), o)
<1>0. /\ f \in Filters /\ g \in Filters /\ f.buf = g.buf /\ f.buf \in Bytes
      /\ (f.dcs_over <=> g.dcs_over)
  BY DEF Ahead, Filters, Held
<1>a. Append(f.buf, b) \in Bytes
  BY <1>0, AppendProperties DEF Bytes
<1> DEFINE F == enter_str(Drop(f, "query_echo"), TRUE, FALSE)
           G == enter_str(Drop(g, "query_echo"), TRUE, FALSE)
<1>b. Ahead(F, G, o) /\ Strs(F, G) /\ Same(F, G, o)
  <2>1. Ahead(Drop(f, "query_echo"), Drop(g, "query_echo"), o)
    BY DropAhead DEF Names
  <2> QED BY <2>1, EnterAhead
<1>1. CASE parameter(b)
  <2>0. ~final(b) /\ b \notin C0 \cup {DEL}
    BY <1>1 DEF final, parameter, C0, DEL
  <2>1. CASE f.dcs_over
    <3>1. DcsId(f, b) = f /\ DcsId(g, b) = g
      BY <1>0, <1>1, <2>0, <2>1 DEF DcsId
    <3> QED BY <3>1 DEF Same
  <2>2. CASE ~f.dcs_over
    <3> DEFINE more == Len(f.buf) + 1 >= OSC_ID_CAP
               buf == Append(f.buf, b)
    <3>1. DcsId(f, b) = [f EXCEPT !.buf = buf, !.dcs_over = more]
      BY <1>0, <1>1, <2>0, <2>2 DEF DcsId
    <3>2. DcsId(g, b) = [g EXCEPT !.buf = buf, !.dcs_over = more]
      <4>1. DcsId(g, b) = [g EXCEPT !.buf = Append(g.buf, b), !.dcs_over = Len(g.buf) + 1 >= OSC_ID_CAP]
        BY <1>0, <1>1, <2>0, <2>2 DEF DcsId
      <4> QED BY <1>0, <4>1
    <3>3. more \in BOOLEAN /\ buf \in Bytes
      BY <1>a
    <3> HIDE DEF more, buf
    <3>4. ASSUME NEW h \in Filters, NEW k, k = [h EXCEPT !.buf = buf, !.dcs_over = more]
          PROVE  /\ k \in Filters /\ k.state = h.state /\ k.out = h.out /\ k.buf = buf
                 /\ k.csi_over = h.csi_over /\ k.osc_num = h.osc_num /\ k.osc_seen = h.osc_seen
                 /\ k.osc_over = h.osc_over /\ k.dcs_over = more
      BY <3>3, <3>4 DEF Filters
    <3>8. /\ DcsId(f, b).buf = buf /\ DcsId(f, b).csi_over = f.csi_over
          /\ DcsId(f, b).osc_num = f.osc_num /\ DcsId(f, b).osc_seen = f.osc_seen
          /\ DcsId(f, b).osc_over = f.osc_over /\ DcsId(f, b).dcs_over = more
      BY <1>0, <3>1, <3>4
    <3>9. /\ DcsId(g, b).buf = buf /\ DcsId(g, b).csi_over = g.csi_over
          /\ DcsId(g, b).osc_num = g.osc_num /\ DcsId(g, b).osc_seen = g.osc_seen
          /\ DcsId(g, b).osc_over = g.osc_over /\ DcsId(g, b).dcs_over = more
      BY <1>0, <3>2, <3>4
    <3>5. Held(DcsId(f, b), DcsId(g, b))
      BY <3>8, <3>9 DEF Held
    <3>6. /\ DcsId(f, b) \in Filters /\ DcsId(f, b).state = "DcsId" /\ DcsId(f, b).out = f.out
          /\ DcsId(g, b) \in Filters /\ DcsId(g, b).state = "DcsId" /\ DcsId(g, b).out = g.out
      BY <1>0, <3>1, <3>2, <3>4
    <3>7. Ahead(DcsId(f, b), DcsId(g, b), o)
      BY <3>6 DEF Ahead
    <3> QED BY <3>5, <3>6, <3>7 DEF Same
  <2> QED BY <2>1, <2>2
<1>2. CASE final(b)
  <2>0. ~parameter(b) /\ b \notin C0 \cup {DEL}
    BY <1>2 DEF final, parameter, C0, DEL
  <2> DEFINE e == f.dcs_over \/ (b = 113 /\ Last(f.buf) \in {36, 43})
             H == enter_str(Forward(f, Append(f.buf, b)), FALSE, FALSE)
             K == enter_str(Forward(g, Append(f.buf, b)), FALSE, FALSE)
  <2>1. DcsId(f, b) = IF e THEN F ELSE H
    BY <1>2, <2>0 DEF DcsId
  <2>2. DcsId(g, b) = IF e THEN G ELSE K
    <3>1. DcsId(g, b) = IF g.dcs_over \/ (b = 113 /\ Last(g.buf) \in {36, 43}) THEN G
                        ELSE enter_str(Forward(g, Append(g.buf, b)), FALSE, FALSE)
      BY <1>2, <2>0 DEF DcsId
    <3> QED BY <1>0, <3>1
  <2>3. Ahead(Forward(f, Append(f.buf, b)), Forward(g, Append(f.buf, b)), o)
    BY <1>a, ForwardAhead
  <2>4. Same(H, K, o)
    BY <2>3, EnterAhead
  <2> HIDE DEF e, F, G, H, K
  <2> QED BY <1>b, <2>1, <2>2, <2>4
<1>3. CASE b \in C0 \cup {DEL}
  <2>0. ~parameter(b) /\ ~final(b)
    BY <1>3 DEF final, parameter, C0, DEL
  <2>1. DcsId(f, b) = f /\ DcsId(g, b) = g
    BY <1>3, <2>0 DEF DcsId
  <2> QED BY <2>1 DEF Same
<1>4. CASE ~parameter(b) /\ ~final(b) /\ b \notin C0 \cup {DEL}
  <2> DEFINE H == enter_str(Forward(f, f.buf), FALSE, FALSE)
             K == enter_str(Forward(g, f.buf), FALSE, FALSE)
  <2>1. DcsId(f, b) = Str(IF f.dcs_over THEN F ELSE H, b)
    BY <1>4 DEF DcsId
  <2>2. DcsId(g, b) = Str(IF f.dcs_over THEN G ELSE K, b)
    <3>1. DcsId(g, b) = Str(IF g.dcs_over THEN G ELSE enter_str(Forward(g, g.buf), FALSE, FALSE), b)
      BY <1>4 DEF DcsId
    <3> QED BY <1>0, <3>1
  <2>3. Ahead(Forward(f, f.buf), Forward(g, f.buf), o)
    BY <1>0, ForwardAhead
  <2>4. Ahead(H, K, o) /\ Strs(H, K)
    BY <2>3, EnterAhead
  <2> HIDE DEF F, G, H, K
  <2>5. Same(Str(H, b), Str(K, b), o) /\ Same(Str(F, b), Str(G, b), o)
    BY <1>b, <2>4, StrSame
  <2> QED BY <2>1, <2>2, <2>5
<1> QED BY <1>1, <1>2, <1>3, <1>4

\* A byte.
LEMMA StepSame ==
    ASSUME NEW f, NEW g, NEW o, Same(f, g, o), NEW b \in Nat
    PROVE  Same(step(f, b), step(g, b), o)
<1>0. Ahead(f, g, o) /\ f.state = g.state /\ f.state \in States
  BY DEF Same, Ahead, Filters
<1>1. CASE f.state = "Ground"
  <2>1. step(f, b) = Ground(f, b) /\ step(g, b) = Ground(g, b)
    BY <1>0, <1>1 DEF step
  <2> QED BY <1>0, <2>1, GroundSame
<1>2. CASE f.state = "Utf8C2"
  <2>1. step(f, b) = Utf8C2(f, b) /\ step(g, b) = Utf8C2(g, b)
    BY <1>0, <1>2 DEF step
  <2> QED BY <1>0, <2>1, Utf8C2Same
<1>3. CASE f.state = "Esc"
  <2>1. step(f, b) = Esc(f, b) /\ step(g, b) = Esc(g, b)
    BY <1>0, <1>3 DEF step
  <2> QED BY <1>0, <2>1, EscSame
<1>4. CASE f.state = "Csi"
  <2>1. step(f, b) = Csi(f, b) /\ step(g, b) = Csi(g, b)
    BY <1>0, <1>4 DEF step
  <2>2. Held(f, g)
    BY <1>4 DEF Same
  <2> QED BY <1>0, <1>4, <2>1, <2>2, CsiSame
<1>5. CASE f.state = "OscId"
  <2>1. step(f, b) = OscId(f, b) /\ step(g, b) = OscId(g, b)
    BY <1>0, <1>5 DEF step
  <2>2. Held(f, g)
    BY <1>5 DEF Same
  <2> QED BY <1>0, <1>5, <2>1, <2>2, OscIdSame
<1>6. CASE f.state = "DcsId"
  <2>1. step(f, b) = DcsId(f, b) /\ step(g, b) = DcsId(g, b)
    BY <1>0, <1>6 DEF step
  <2>2. Held(f, g)
    BY <1>6 DEF Same
  <2> QED BY <1>0, <1>6, <2>1, <2>2, DcsIdSame
<1>7. CASE f.state = "Str"
  <2>1. step(f, b) = Str(f, b) /\ step(g, b) = Str(g, b)
    BY <1>0, <1>7 DEF step
  <2>2. Strs(f, g)
    BY <1>7 DEF Same
  <2> QED BY <1>0, <2>1, <2>2, StrSame
<1>8. CASE f.state = "StrEsc"
  <2>1. step(f, b) = StrEsc(f, b) /\ step(g, b) = StrEsc(g, b)
    BY <1>0, <1>8 DEF step
  <2>2. Strs(f, g)
    BY <1>8 DEF Same
  <2> QED BY <1>0, <2>1, <2>2, StrEscSame
<1>9. CASE f.state = "StrC2"
  <2>1. step(f, b) = StrC2(f, b) /\ step(g, b) = StrC2(g, b)
    BY <1>0, <1>9 DEF step
  <2>2. Strs(f, g)
    BY <1>9 DEF Same
  <2> QED BY <1>0, <2>1, <2>2, StrC2Same
<1> QED BY <1>0, <1>1, <1>2, <1>3, <1>4, <1>5, <1>6, <1>7, <1>8, <1>9 DEF States

\* A chunk: what was forwarded before is cleared, then byte by byte.
Clear(f) == [f EXCEPT !.out = <<>>, !.dropped = <<>>]
IsFed(h, f, s, k) == h = [n \in 0..k |-> IF n = 0 THEN Clear(f) ELSE step(h[n - 1], s[n])]

\* Such a function exists.
LEMMA FedExists ==
    ASSUME NEW f, NEW s, NEW k \in Nat
    PROVE  \E h : IsFed(h, f, s, k)
<1> DEFINE S == {n \in Nat : \E h : IsFed(h, f, s, n)}
<1>1. 0 \in S
  <2> DEFINE h == [n \in 0..0 |-> Clear(f)]
  <2>1. h = [n \in 0..0 |-> IF n = 0 THEN Clear(f) ELSE step(h[n - 1], s[n])]
    OBVIOUS
  <2>2. IsFed(h, f, s, 0)
    BY <2>1 DEF IsFed
  <2> QED BY <2>2
<1>2. ASSUME NEW n \in Nat, n \in S
      PROVE  n + 1 \in S
  <2>1. PICK h : IsFed(h, f, s, n)
    BY <1>2
  <2> DEFINE g == [i \in 0..(n + 1) |-> IF i = n + 1 THEN step(h[n], s[n + 1]) ELSE h[i]]
  <2>2. ASSUME NEW i \in 0..(n + 1)
        PROVE  g[i] = IF i = 0 THEN Clear(f) ELSE step(g[i - 1], s[i])
    <3>1. CASE i = n + 1
      <4>1. n \in 0..(n + 1) /\ n # n + 1 /\ i - 1 = n /\ i # 0
        BY <3>1
      <4>2. g[n] = h[n] /\ g[i] = step(h[n], s[n + 1])
        BY <3>1, <4>1
      <4> QED BY <3>1, <4>1, <4>2
    <3>2. CASE i # n + 1
      <4>1. /\ i \in 0..n
            /\ i # 0 => i - 1 \in 0..n /\ i - 1 \in 0..(n + 1) /\ i - 1 # n + 1
        BY <3>2
      <4>2. g[i] = h[i] /\ (i # 0 => g[i - 1] = h[i - 1])
        BY <4>1, <3>2
      <4>3. h[i] = IF i = 0 THEN Clear(f) ELSE step(h[i - 1], s[i])
        BY <2>1, <4>1 DEF IsFed
      <4> QED BY <4>2, <4>3
    <3> QED BY <3>1, <3>2
  <2> HIDE DEF g
  <2>3. g = [i \in 0..(n + 1) |-> g[i]]
    BY DEF g
  <2>4. IsFed(g, f, s, n + 1)
    BY <2>2, <2>3, Zenon DEF IsFed
  <2> QED BY <2>4
<1> HIDE DEF S
<1>3. k \in S
  BY <1>1, <1>2, Induction
<1> QED BY <1>3 DEF S

\* The filter after a chunk is its last value.
LEMMA FedIs ==
    ASSUME NEW f, NEW s \in Bytes
    PROVE  \E h : IsFed(h, f, s, Len(s)) /\ feed(f, s) = h[Len(s)]
<1>0. Len(s) \in Nat
  BY DEF Bytes
<1>1. \E h : IsFed(h, f, s, Len(s))
  BY <1>0, FedExists
<1>2. PICK h : h = CHOOSE g : IsFed(g, f, s, Len(s))
  OBVIOUS
<1>3. IsFed(h, f, s, Len(s))
  BY <1>1, <1>2, Zenon
<1>4. feed(f, s) = h[Len(s)]
  BY <1>2, Zenon DEF feed, IsFed, Clear
<1> QED BY <1>3, <1>4

\* The values for the front of a chunk.
LEMMA FedFront ==
    ASSUME NEW f, NEW a \in Bytes, NEW b \in Bytes, NEW h, NEW k,
           IsFed(h, f, a, Len(a)), IsFed(k, f, a \o b, Len(a \o b))
    PROVE  k[Len(a)] = h[Len(a)]
<1>0. Len(a) \in Nat /\ Len(b) \in Nat /\ Len(a \o b) = Len(a) + Len(b) /\ a \in Seq(Nat) /\ b \in Seq(Nat)
  BY ConcatProperties DEF Bytes
<1> DEFINE S == {n \in Nat : n <= Len(a) => k[n] = h[n]}
<1>1. 0 \in S
  <2>1. 0 \in 0..Len(a) /\ 0 \in 0..Len(a \o b)
    BY <1>0
  <2> QED BY <2>1 DEF IsFed
<1>2. ASSUME NEW n \in Nat, n \in S
      PROVE  n + 1 \in S
  <2> SUFFICES ASSUME n + 1 <= Len(a) PROVE k[n + 1] = h[n + 1]
    OBVIOUS
  <2>1. /\ n + 1 \in 0..Len(a) /\ n + 1 \in 0..Len(a \o b) /\ n + 1 # 0 /\ n + 1 - 1 = n
        /\ n + 1 \in 1..Len(a)
    BY <1>0
  <2>2. (a \o b)[n + 1] = a[n + 1]
    BY <1>0, <2>1, JoinLeft
  <2>3. k[n] = h[n]
    BY <1>2, <2>1
  <2>4. k[n + 1] = step(k[n], (a \o b)[n + 1])
    BY <2>1 DEF IsFed
  <2>5. h[n + 1] = step(h[n], a[n + 1])
    BY <2>1 DEF IsFed
  <2> QED BY <2>2, <2>3, <2>4, <2>5
<1> HIDE DEF S
<1>3. Len(a) \in S
  BY <1>0, <1>1, <1>2, Induction
<1> QED BY <1>0, <1>3 DEF S

\* Two filters that were alike, one ahead by o, are so after the same bytes.
LEMMA FeedAhead ==
    ASSUME NEW f, NEW g, NEW o, NEW a \in Bytes, NEW b \in Bytes,
           Same(feed(f, a), Clear(g), o)
    PROVE  Same(feed(f, a \o b), feed(g, b), o)
<1>0. /\ Len(a) \in Nat /\ Len(b) \in Nat /\ Len(a \o b) = Len(a) + Len(b)
      /\ a \in Seq(Nat) /\ b \in Seq(Nat) /\ a \o b \in Bytes
  BY ConcatProperties DEF Bytes
<1>1. PICK h : IsFed(h, f, a, Len(a)) /\ feed(f, a) = h[Len(a)]
  BY FedIs
<1>2. PICK k : IsFed(k, f, a \o b, Len(a \o b)) /\ feed(f, a \o b) = k[Len(a \o b)]
  BY <1>0, FedIs
<1>3. PICK m : IsFed(m, g, b, Len(b)) /\ feed(g, b) = m[Len(b)]
  BY FedIs
<1> DEFINE S == {n \in Nat : n <= Len(b) => Same(k[Len(a) + n], m[n], o)}
<1>4. 0 \in S
  <2>1. k[Len(a)] = feed(f, a)
    BY <1>1, <1>2, FedFront
  <2>2. 0 \in 0..Len(b)
    BY <1>0
  <2>3. m[0] = Clear(g)
    BY <1>3, <2>2 DEF IsFed
  <2>4. Len(a) + 0 = Len(a)
    BY <1>0
  <2> QED BY <2>1, <2>3, <2>4
<1>5. ASSUME NEW n \in Nat, n \in S
      PROVE  n + 1 \in S
  <2> SUFFICES ASSUME n + 1 <= Len(b) PROVE Same(k[Len(a) + (n + 1)], m[n + 1], o)
    OBVIOUS
  <2>1. /\ n + 1 \in 0..Len(b) /\ Len(a) + (n + 1) \in 0..Len(a \o b) /\ n + 1 # 0 /\ n + 1 - 1 = n
        /\ n + 1 \in 1..Len(b) /\ Len(a) + (n + 1) # 0 /\ Len(a) + (n + 1) - 1 = Len(a) + n
    BY <1>0
  <2>2. (a \o b)[Len(a) + (n + 1)] = b[n + 1] /\ b[n + 1] \in Nat
    BY <1>0, <2>1, JoinRight
  <2>3. Same(k[Len(a) + n], m[n], o)
    BY <1>5, <2>1
  <2>7. ASSUME NEW i \in 0..Len(a \o b), i # 0
        PROVE  k[i] = step(k[i - 1], (a \o b)[i])
    BY <1>2, <2>7 DEF IsFed
  <2>4. k[Len(a) + (n + 1)] = step(k[Len(a) + n], (a \o b)[Len(a) + (n + 1)])
    BY <2>1, <2>7
  <2>5. m[n + 1] = step(m[n], b[n + 1])
    BY <1>3, <2>1 DEF IsFed
  <2>6. Same(step(k[Len(a) + n], b[n + 1]), step(m[n], b[n + 1]), o)
    BY <2>2, <2>3, StepSame
  <2> QED BY <2>2, <2>4, <2>5, <2>6
<1> HIDE DEF S
<1>6. Len(b) \in S
  BY <1>0, <1>4, <1>5, Induction
<1>7. Same(k[Len(a) + Len(b)], m[Len(b)], o)
  BY <1>0, <1>6 DEF S
<1> QED BY <1>0, <1>2, <1>3, <1>7

\* A cleared filter.
LEMMA ClearType ==
    ASSUME NEW f \in Filters
    PROVE  /\ Clear(f) \in Filters /\ Clear(f).out = <<>> /\ Clear(f).state = f.state
           /\ Held(Clear(f), f) /\ Strs(Clear(f), f) /\ Clear(Clear(f)) = Clear(f)
<1>0. <<>> \in Bytes /\ <<>> \in Seq(Names)
  BY EmptyOnes
<1>1. Clear(f) \in Filters /\ Clear(f).out = <<>> /\ Clear(f).state = f.state
  BY <1>0 DEF Clear, Filters
<1>2. Held(Clear(f), f) /\ Strs(Clear(f), f)
  BY DEF Clear, Filters, Held, Strs
<1>3. Clear(f).dropped = <<>>
  BY DEF Clear, Filters
<1>4. ASSUME NEW h \in Filters, h.out = <<>>, h.dropped = <<>>
      PROVE  Clear(h) = h
  BY <1>4 DEF Clear, Filters
<1> QED BY <1>1, <1>2, <1>3, <1>4

\* A chunk of nothing.
LEMMA FeedNothing == ASSUME NEW f PROVE feed(f, <<>>) = Clear(f)
<1>0. <<>> \in Bytes /\ Len(<<>>) = 0
  BY EmptyOnes
<1>1. PICK h : IsFed(h, f, <<>>, Len(<<>>)) /\ feed(f, <<>>) = h[Len(<<>>)]
  BY <1>0, FedIs
<1>2. 0 \in 0..0
  OBVIOUS
<1> QED BY <1>0, <1>1, <1>2 DEF IsFed

\* The filter after a chunk is a filter; and only what its state reads of the
\* filter before matters.
LEMMA FeedSame ==
    ASSUME NEW f \in Filters, NEW g \in Filters, NEW b \in Bytes, f.state = g.state,
           f.state = "Ground" \/ f = g
    PROVE  /\ feed(f, b) \in Filters /\ feed(f, b).out = feed(g, b).out
           /\ feed(f, b).state = feed(g, b).state
<1>0. <<>> \in Bytes /\ <<>> \o <<>> = <<>> /\ <<>> \o b = b
  BY EmptyOnes, NoBytes
<1>1. Clear(f) \in Filters /\ Clear(f).out = <<>> /\ Clear(f).state = f.state
  BY ClearType
<1>2. Clear(g) \in Filters /\ Clear(g).out = <<>> /\ Clear(g).state = g.state
  BY ClearType
<1>3. Same(Clear(f), Clear(g), <<>>)
  <2>1. Ahead(Clear(f), Clear(g), <<>>)
    BY <1>0, <1>1, <1>2 DEF Ahead
  <2>2. CASE f.state = "Ground"
    BY <1>1, <1>2, <2>1, <2>2 DEF Same
  <2>3. CASE f = g
    <3>1. Held(Clear(f), Clear(g)) /\ Strs(Clear(f), Clear(g))
      BY <2>3 DEF Held, Strs
    <3> QED BY <1>1, <1>2, <2>1, <3>1 DEF Same
  <2> QED BY <2>2, <2>3
<1>4. Same(feed(f, <<>>), Clear(g), <<>>)
  BY <1>3, FeedNothing
<1>5. Same(feed(f, b), feed(g, b), <<>>)
  BY <1>0, <1>4, FeedAhead
<1>6. feed(f, b) \in Filters /\ feed(g, b) \in Filters /\ feed(f, b).out = <<>> \o feed(g, b).out /\ feed(f, b).state = feed(g, b).state
  BY <1>5 DEF Same, Ahead
<1>7. feed(g, b).out \in Bytes
  BY <1>6 DEF Filters
<1> QED BY <1>6, <1>7, NoBytes

\* Two chunks are as one.
LEMMA FeedJoins ==
    ASSUME NEW f \in Filters, NEW a \in Bytes, NEW b \in Bytes
    PROVE  /\ feed(f, a \o b).out = feed(f, a).out \o feed(feed(f, a), b).out
           /\ feed(f, a \o b).state = feed(feed(f, a), b).state
<1>1. feed(f, a) \in Filters
  BY FeedSame
<1>2. PICK m \in Filters : m = feed(f, a)
  BY <1>1
<1>3. m.out \in Bytes
  BY DEF Filters
<1>4. /\ Clear(m) \in Filters /\ Clear(m).out = <<>> /\ Clear(m).state = m.state
      /\ Held(Clear(m), m) /\ Strs(Clear(m), m)
  BY ClearType
<1>5. Same(m, Clear(m), m.out)
  <2>1. m.out = m.out \o <<>>
    BY <1>3, NoBytes
  <2>2. Held(m, Clear(m)) /\ Strs(m, Clear(m))
    BY <1>4 DEF Held, Strs
  <2> QED BY <1>3, <1>4, <2>1, <2>2 DEF Same, Ahead
<1>6. Same(feed(f, a \o b), feed(m, b), m.out)
  BY <1>2, <1>5, FeedAhead
<1> QED BY <1>2, <1>6 DEF Same, Ahead

-----------------------------------------------------------------------------
(* Sequences of sequences, joined.                                          *)

\* One more.
LEMMA FlatMore ==
    ASSUME NEW T, NEW q \in Seq(Seq(T)), NEW x \in Seq(T)
    PROVE  /\ FlattenSeq(q) \in Seq(T)
           /\ FlattenSeq(Append(q, x)) = FlattenSeq(q) \o x
<1>0. /\ Len(q) \in Nat /\ Append(q, x) \in Seq(Seq(T)) /\ Len(Append(q, x)) = Len(q) + 1
      /\ \A i \in 1..Len(q) : Append(q, x)[i] = q[i]
      /\ Append(q, x)[Len(q) + 1] = x
  BY AppendProperties
<1>1. PICK g : /\ IsFlat(g, Append(q, x), Len(q) + 1)
               /\ FlattenSeq(Append(q, x)) = g[Len(q) + 1]
  <2>1. Len(Append(q, x)) \in Nat /\ Len(Append(q, x)) # 0
    BY <1>0
  <2> QED BY <1>0, <2>1, FlatIs
<1>2. CASE Len(q) = 0
  <2>1. q = <<>>
    BY <1>2
  <2>2. FlattenSeq(q) = <<>>
    BY <1>2, <2>1 DEF FlattenSeq
  <2>3. 1 \in 1..1 /\ Len(q) + 1 = 1
    BY <1>2
  <2>4. g[1] = Append(q, x)[1]
    BY <1>1, <2>3 DEF IsFlat
  <2>5. g[1] = x
    BY <1>0, <2>3, <2>4
  <2>6. <<>> \o x = x /\ <<>> \in Seq(T)
    BY ConcatEmptySeq
  <2> QED BY <1>1, <2>2, <2>3, <2>5, <2>6
<1>3. CASE Len(q) # 0
  <2>1. PICK f : IsFlat(f, q, Len(q)) /\ FlattenSeq(q) = f[Len(q)]
    BY <1>0, <1>3, FlatIs
  <2> DEFINE S == {n \in Nat : n + 1 <= Len(q) => g[n + 1] = f[n + 1] /\ f[n + 1] \in Seq(T)}
  <2>a. ASSUME NEW i \in 1..Len(q)
        PROVE  f[i] = IF i = 1 THEN q[i] ELSE f[i - 1] \o q[i]
    BY <2>1 DEF IsFlat
  <2>b. ASSUME NEW i \in 1..(Len(q) + 1)
        PROVE  g[i] = IF i = 1 THEN Append(q, x)[i] ELSE g[i - 1] \o Append(q, x)[i]
    BY <1>1 DEF IsFlat
  <2>2. 0 \in S
    <3>1. 1 \in 1..Len(q) /\ 1 \in 1..(Len(q) + 1) /\ 0 + 1 = 1
      BY <1>0, <1>3
    <3>2. g[1] = Append(q, x)[1] /\ f[1] = q[1] /\ q[1] \in Seq(T)
      BY <2>a, <2>b, <3>1
    <3> QED BY <1>0, <3>1, <3>2
  <2>3. ASSUME NEW n \in Nat, n \in S
        PROVE  n + 1 \in S
    <3> SUFFICES ASSUME n + 1 + 1 <= Len(q)
                 PROVE  g[n + 1 + 1] = f[n + 1 + 1] /\ f[n + 1 + 1] \in Seq(T)
      OBVIOUS
    <3>1. PICK i \in 1..Len(q) : /\ i = n + 1 + 1 /\ i \in 1..(Len(q) + 1) /\ i # 1
                                 /\ i - 1 = n + 1 /\ n + 1 <= Len(q)
      BY <1>0
    <3>2. g[i - 1] = f[i - 1] /\ f[i - 1] \in Seq(T)
      BY <2>3, <3>1
    <3>3. g[i] = g[i - 1] \o Append(q, x)[i] /\ f[i] = f[i - 1] \o q[i]
      BY <2>a, <2>b, <3>1
    <3>4. q[i] \in Seq(T) /\ Append(q, x)[i] = q[i]
      BY <1>0, <3>1
    <3>5. f[i - 1] \o q[i] \in Seq(T)
      BY <3>2, <3>4, ConcatProperties
    <3> QED BY <3>1, <3>2, <3>3, <3>4, <3>5
  <2> HIDE DEF S
  <2>4. Len(q) - 1 \in S
    <3>1. Len(q) - 1 \in Nat
      BY <1>0, <1>3
    <3> QED BY <2>2, <2>3, <3>1, Induction
  <2>5. g[Len(q)] = f[Len(q)] /\ f[Len(q)] \in Seq(T)
    <3>1. Len(q) - 1 + 1 = Len(q)
      BY <1>0
    <3> QED BY <1>0, <2>4, <3>1 DEF S
  <2>6. g[Len(q) + 1] = g[Len(q)] \o x
    <3>1. PICK i \in 1..(Len(q) + 1) : i = Len(q) + 1 /\ i # 1 /\ i - 1 = Len(q)
      BY <1>0, <1>3
    <3>2. g[i] = g[i - 1] \o Append(q, x)[i]
      BY <2>b, <3>1
    <3> QED BY <1>0, <3>1, <3>2
  <2> QED BY <1>1, <2>1, <2>5, <2>6
<1> QED BY <1>2, <1>3

\* Nothing.
LEMMA FlatNothing == ASSUME NEW T PROVE FlattenSeq(<<>>) = <<>>
BY DEF FlattenSeq

\* A sequence that is not empty ends with its last element.
WithLast(T, s) == \E r \in Seq(T), x \in T : s = Append(r, x) /\ Len(r) + 1 = Len(s) /\ s = r \o <<x>>
\* It does.
LEMMA LastOne ==
    ASSUME NEW T, NEW s \in Seq(T), Len(s) # 0
    PROVE  WithLast(T, s)
<1>0. Len(s) \in Nat /\ Len(s) - 1 \in Nat
  OBVIOUS
<1>4. PICK n \in Nat : n + 1 = Len(s)
  BY <1>0
<1> DEFINE r == SubSeq(s, 1, n)
           x == s[n + 1]
<1>1. x \in T /\ r \in Seq(T) /\ Len(r) = n
  BY <1>4
<1>2. s = Append(r, x)
  BY <1>4
<1>3. Append(r, x) = r \o <<x>>
  BY <1>1, AppendIsConcat
<1> HIDE DEF r, x
<1> QED BY <1>1, <1>2, <1>3, <1>4 DEF WithLast

\* What the harness drew, token by token.
DrawnOf(w) == FlattenSeq([i \in DOMAIN w |-> w[i].drawn])
\* One more token.
LEMMA DrawnMore ==
    ASSUME NEW w \in Seq(Tokens), NEW tok \in Tokens
    PROVE  DrawnOf(w) \in Bytes /\ DrawnOf(Append(w, tok)) = DrawnOf(w) \o tok.drawn
<1>1. ASSUME NEW t \in Tokens PROVE t.drawn \in Seq(Nat)
  BY TokensAssumption
<1> DEFINE q == [i \in DOMAIN w |-> w[i].drawn]
           p == [i \in DOMAIN Append(w, tok) |-> Append(w, tok)[i].drawn]
<1>2. q \in Seq(Seq(Nat)) /\ Len(q) = Len(w)
  BY <1>1
<1>3. p = Append(q, tok.drawn)
  <2>1. Append(q, tok.drawn) \in Seq(Seq(Nat)) /\ p \in Seq(Seq(Nat)) /\ Len(p) = Len(w) + 1 /\ Len(Append(q, tok.drawn)) = Len(w) + 1
    BY <1>1, <1>2
  <2>2. ASSUME NEW i \in 1..(Len(w) + 1)
        PROVE  p[i] = Append(q, tok.drawn)[i]
    BY <1>1, <1>2
  <2> HIDE DEF p, q
  <2> QED BY <2>1, <2>2, SeqEqual
<1> HIDE DEF p, q
<1>4. FlattenSeq(q) \in Seq(Nat) /\ FlattenSeq(p) = FlattenSeq(q) \o tok.drawn
  BY <1>1, <1>2, <1>3, FlatMore
<1> QED BY <1>4 DEF DrawnOf, Bytes, p, q
\* Nothing was written.
LEMMA DrawnNothing == DrawnOf(<<>>) = <<>>
<1>1. [i \in DOMAIN <<>> |-> <<>>[i].drawn] = <<>>
  OBVIOUS
<1> QED BY <1>1, FlatNothing DEF DrawnOf

-----------------------------------------------------------------------------
(* The keys among the things that a session is given.                       *)
IsKey(x) == x[1] = "in"
One(x) == IF IsKey(x) THEN <<x>> ELSE <<>>
KeysOf(g) == FlattenSeq([i \in DOMAIN g |-> IF g[i][1] = "in" THEN <<g[i]>> ELSE <<>>])
K(c, g) == IF c \in Tabs THEN KeysOf(g) ELSE g

\* One more thing.
LEMMA KeysMore ==
    ASSUME NEW g \in Items, NEW x \in Things
    PROVE  /\ KeysOf(g) \in Items /\ One(x) \in Items
           /\ KeysOf(Append(g, x)) = KeysOf(g) \o One(x)
<1>1. ASSUME NEW t \in Things PROVE One(t) \in Seq(Things)
  BY DEF One
<1> DEFINE q == [i \in DOMAIN g |-> One(g[i])]
           p == [i \in DOMAIN Append(g, x) |-> One(Append(g, x)[i])]
<1>0. g \in Seq(Things)
  BY DEF Items
<1>2. q \in Seq(Seq(Things)) /\ Len(q) = Len(g)
  <2>1. \A i \in 1..Len(g) : One(g[i]) \in Seq(Things)
    BY <1>0, <1>1
  <2> QED BY <1>0, <2>1
<1>3. p = Append(q, One(x))
  <2>1. Append(q, One(x)) \in Seq(Seq(Things)) /\ p \in Seq(Seq(Things)) /\ Len(p) = Len(g) + 1 /\ Len(Append(q, One(x))) = Len(g) + 1
    BY <1>0, <1>1, <1>2
  <2>2. ASSUME NEW i \in 1..(Len(g) + 1)
        PROVE  p[i] = Append(q, One(x))[i]
    BY <1>0, <1>1, <1>2
  <2> HIDE DEF p, q
  <2> QED BY <2>1, <2>2, SeqEqual
<1>5. KeysOf(g) = FlattenSeq(q) /\ KeysOf(Append(g, x)) = FlattenSeq(p)
  BY DEF KeysOf, One, IsKey
<1> HIDE DEF p, q
<1>4. FlattenSeq(q) \in Seq(Things) /\ FlattenSeq(p) = FlattenSeq(q) \o One(x)
  BY <1>1, <1>2, <1>3, FlatMore
<1> QED BY <1>1, <1>4, <1>5 DEF Items
\* Nothing.
LEMMA KeysNothing == KeysOf(<<>>) = <<>>
<1>1. [i \in DOMAIN <<>> |-> IF <<>>[i][1] = "in" THEN <<<<>>[i]>> ELSE <<>>] = <<>>
  OBVIOUS
<1> QED BY <1>1, FlatNothing DEF KeysOf

\* Of what is joined.
LEMMA KeysJoin ==
    ASSUME NEW a \in Items, NEW b \in Items
    PROVE  KeysOf(a \o b) = KeysOf(a) \o KeysOf(b) /\ KeysOf(a) \in Items
<1>0. 0 \in Things
  BY DEF Things
<1>a. \A g \in Items : KeysOf(g) \in Items
  BY <1>0, KeysMore
<1> DEFINE S == {n \in Nat : \A s \in Items : Len(s) = n => KeysOf(a \o s) = KeysOf(a) \o KeysOf(s)}
<1>1. 0 \in S
  <2> SUFFICES ASSUME NEW s \in Items, Len(s) = 0 PROVE KeysOf(a \o s) = KeysOf(a) \o KeysOf(s)
    OBVIOUS
  <2>1. s = <<>>
    BY DEF Items
  <2> QED BY <1>a, <2>1, NoItems, KeysNothing
<1>2. ASSUME NEW n \in Nat, n \in S
      PROVE  n + 1 \in S
  <2> SUFFICES ASSUME NEW s \in Items, Len(s) = n + 1 PROVE KeysOf(a \o s) = KeysOf(a) \o KeysOf(s)
    OBVIOUS
  <2>0. s \in Seq(Things)
    BY DEF Items
  <2>a. WithLast(Things, s)
    BY <2>0, LastOne
  <2>1. PICK r \in Seq(Things), x \in Things : s = Append(r, x) /\ Len(r) = n /\ s = r \o <<x>>
    BY <2>a DEF WithLast
  <2>2. r \in Items /\ a \o r \in Items
    BY JoinItems DEF Items
  <2>3. KeysOf(a \o r) = KeysOf(a) \o KeysOf(r)
    BY <1>2, <2>1, <2>2
  <2>4. a \o s = Append(a \o r, x)
    <3>1. <<x>> \in Items
      BY DEF Items
    <3>2. a \o (r \o <<x>>) = (a \o r) \o <<x>>
      BY <2>2, <3>1, AssocItems
    <3>3. Append(a \o r, x) = (a \o r) \o <<x>>
      BY <2>2, AppendIsConcat DEF Items
    <3> QED BY <2>1, <3>2, <3>3
  <2>5. KeysOf(Append(a \o r, x)) = KeysOf(a \o r) \o One(x) /\ KeysOf(Append(r, x)) = KeysOf(r) \o One(x) /\ One(x) \in Items
    BY <2>2, KeysMore
  <2>7. KeysOf(a) \in Items /\ KeysOf(r) \in Items
    BY <1>a, <2>2
  <2>6. (KeysOf(a) \o KeysOf(r)) \o One(x) = KeysOf(a) \o (KeysOf(r) \o One(x))
    BY <2>5, <2>7, AssocItems
  <2> QED BY <2>1, <2>3, <2>4, <2>5, <2>6
<1> HIDE DEF S
<1>3. Len(b) \in Nat
  BY DEF Items
<1>4. Len(b) \in S
  BY <1>1, <1>2, <1>3, Induction
<1> QED BY <1>a, <1>4 DEF S

\* Typed bytes are keys.
LEMMA KeysTyped ==
    ASSUME NEW b \in Bytes
    PROVE  KeysOf(AsInput(b)) = AsInput(b)
<1> DEFINE S == {n \in Nat : \A s \in Bytes : Len(s) = n => KeysOf(AsInput(s)) = AsInput(s)}
<1>1. 0 \in S
  <2> SUFFICES ASSUME NEW s \in Bytes, Len(s) = 0 PROVE KeysOf(AsInput(s)) = AsInput(s)
    OBVIOUS
  <2>1. AsInput(s) \in Seq(Things) /\ Len(AsInput(s)) = 0
    BY AsInputType DEF Items
  <2>2. AsInput(s) = <<>>
    BY <2>1
  <2> QED BY <2>2, KeysNothing
<1>2. ASSUME NEW n \in Nat, n \in S
      PROVE  n + 1 \in S
  <2> SUFFICES ASSUME NEW s \in Bytes, Len(s) = n + 1 PROVE KeysOf(AsInput(s)) = AsInput(s)
    OBVIOUS
  <2>0. s \in Seq(Nat)
    BY DEF Bytes
  <2>a. WithLast(Nat, s)
    BY <2>0, LastOne
  <2>b. PICK r \in Seq(Nat), x \in Nat : s = Append(r, x) /\ Len(r) + 1 = Len(s) /\ s = r \o <<x>>
    BY <2>a, Zenon DEF WithLast
  <2>1. s = Append(r, x) /\ Len(r) = n /\ s = r \o <<x>>
    BY <2>b
  <2>2. r \in Bytes /\ <<x>> \in Bytes
    BY Pairs DEF Bytes
  <2>3. AsInput(s) = AsInput(r) \o AsInput(<<x>>)
    BY <2>1, <2>2, AsInputJoins
  <2>4. AsInput(<<x>>) = <<<<"in", x>>>>
    BY DEF AsInput
  <2>5. <<"in", x>> \in Things /\ AsInput(r) \in Items
    BY <2>2, AsInputType DEF Things
  <2>6. AsInput(s) = Append(AsInput(r), <<"in", x>>)
    BY <2>3, <2>4, <2>5, AppendIsConcat DEF Items
  <2>7. KeysOf(AsInput(s)) = KeysOf(AsInput(r)) \o One(<<"in", x>>)
    BY <2>5, <2>6, KeysMore
  <2>8. One(<<"in", x>>) = <<<<"in", x>>>>
    BY DEF One, IsKey
  <2>9. KeysOf(AsInput(r)) = AsInput(r)
    BY <1>2, <2>1, <2>2
  <2> QED BY <2>3, <2>4, <2>7, <2>8, <2>9
<1> HIDE DEF S
<1>3. Len(b) \in Nat
  BY DEF Bytes
<1>4. Len(b) \in S
  BY <1>1, <1>2, <1>3, Induction
<1> QED BY <1>4 DEF S
\* A window size is none.
LEMMA KeysSized ==
    ASSUME NEW r \in Nat, NEW c \in Nat
    PROVE  KeysOf(<<<<"size", r, c>>>>) = <<>>
<1>1. <<"size", r, c>> \in Things /\ <<>> \in Items
  BY EmptyOnes DEF Things
<1>2. Append(<<>>, <<"size", r, c>>) = <<<<"size", r, c>>>>
  OBVIOUS
<1>3. KeysOf(<<<<"size", r, c>>>>) = KeysOf(<<>>) \o One(<<"size", r, c>>)
  BY <1>1, <1>2, KeysMore
<1>4. One(<<"size", r, c>>) = <<>>
  BY DEF One, IsKey
<1> QED BY <1>1, <1>3, <1>4, KeysNothing, NoItems

\* Of what is joined.
LEMMA KJoin ==
    ASSUME NEW c, NEW a \in Items, NEW b \in Items
    PROVE  K(c, a \o b) = K(c, a) \o K(c, b) /\ K(c, a) \in Items
BY KeysJoin DEF K
\* Of typed bytes.
LEMMA KTyped == ASSUME NEW c, NEW b \in Bytes PROVE K(c, AsInput(b)) = AsInput(b)
BY KeysTyped DEF K
\* Of nothing.
LEMMA KNothing == ASSUME NEW c PROVE K(c, <<>>) = <<>>
BY KeysNothing DEF K

-----------------------------------------------------------------------------
(* The detach key.                                                          *)

\* Where something is first.
LEMMA PositionIs ==
    ASSUME NEW T, NEW s \in Seq(T), NEW x
    PROVE  /\ position(s, x) \in 0..Len(s)
           /\ position(s, x) = 0 => \A i \in 1..Len(s) : s[i] # x
           /\ position(s, x) # 0 => /\ s[position(s, x)] = x
                                    /\ \A i \in 1..Len(s) : i < position(s, x) => s[i] # x
<1> DEFINE I == {i \in 1..Len(s) : s[i] = x}
<1>1. position(s, x) = IF I # {} THEN Min(I) ELSE 0
  BY DEF position, SelectInSeq
<1>2. CASE I = {}
  BY <1>1, <1>2
<1>3. CASE I # {}
  <2>1. I \subseteq Nat
    OBVIOUS
  <2>2. \E n \in I : \A m \in I : n <= m
    <3> HIDE DEF I
    <3> QED BY <1>3, <2>1, LeastNumber
  <2>3. Min(I) \in I /\ \A m \in I : Min(I) <= m
    <3> HIDE DEF I
    <3> QED BY <2>2, Zenon DEF Min
  <2>4. position(s, x) \in I /\ \A m \in I : position(s, x) <= m
    <3> HIDE DEF I
    <3> QED BY <1>1, <1>3, <2>3
  <2> HIDE DEF position
  <2>5. position(s, x) \in 1..Len(s) /\ s[position(s, x)] = x
    BY <2>4
  <2>6. ASSUME NEW i \in 1..Len(s), i < position(s, x) PROVE s[i] # x
    BY <2>4, <2>5, <2>6
  <2> QED BY <2>5, <2>6
<1> QED BY <1>2, <1>3

TheKey == <<"in", DETACH_KEY>>
HasKey(s) == \E i \in 1..Len(s) : s[i] = TheKey
MeantOf(c, s) ==
    LET at == position(s, TheKey)
    IN  IF c \in Tabs /\ at > 0 THEN Take(s, at - 1) ELSE s
\* A first key.
FirstKey(s, a, r) == a \in Items /\ r \in Items /\ s = a \o (<<TheKey>> \o r) /\ ~HasKey(a)

\* The key is a thing.
LEMMA KeyType == TheKey \in Things /\ <<TheKey>> \in Items /\ HasKey(<<TheKey>>)
<1>1. TheKey \in Things
  BY DEF TheKey, Things, DETACH_KEY
<1>2. <<TheKey>> \in Seq(Things) /\ Len(<<TheKey>>) = 1 /\ <<TheKey>>[1] = TheKey
  BY <1>1, OneLong
<1>3. 1 \in 1..Len(<<TheKey>>)
  BY <1>2
<1> QED BY <1>1, <1>2, <1>3 DEF Items, HasKey
\* Nothing has no key.
LEMMA NoKey == ~HasKey(<<>>)
BY DEF HasKey
\* Of what is joined.
LEMMA KeyJoin ==
    ASSUME NEW a \in Items, NEW b \in Items
    PROVE  HasKey(a \o b) <=> HasKey(a) \/ HasKey(b)
<1>0. /\ a \in Seq(Things) /\ b \in Seq(Things) /\ Len(a) \in Nat /\ Len(b) \in Nat
      /\ Len(a \o b) = Len(a) + Len(b)
  BY ConcatProperties DEF Items
<1>1. ASSUME HasKey(a) PROVE HasKey(a \o b)
  <2>1. PICK i \in 1..Len(a) : a[i] = TheKey
    BY <1>1 DEF HasKey
  <2>2. (a \o b)[i] = a[i] /\ i \in 1..Len(a \o b)
    BY <1>0, JoinLeft
  <2> QED BY <2>1, <2>2 DEF HasKey
<1>2. ASSUME HasKey(b) PROVE HasKey(a \o b)
  <2>1. PICK i \in 1..Len(b) : b[i] = TheKey
    BY <1>2 DEF HasKey
  <2>2. (a \o b)[Len(a) + i] = b[i] /\ Len(a) + i \in 1..Len(a \o b)
    BY <1>0, JoinRight
  <2> QED BY <2>1, <2>2 DEF HasKey
<1>3. ASSUME HasKey(a \o b) PROVE HasKey(a) \/ HasKey(b)
  <2>1. PICK i \in 1..Len(a \o b) : (a \o b)[i] = TheKey
    BY <1>3 DEF HasKey
  <2>2. CASE i <= Len(a)
    <3>1. i \in 1..Len(a)
      BY <1>0, <2>2
    <3>2. (a \o b)[i] = a[i]
      BY <1>0, <3>1, JoinLeft
    <3> QED BY <2>1, <3>1, <3>2 DEF HasKey
  <2>3. CASE ~(i <= Len(a))
    <3>1. i - Len(a) \in 1..Len(b) /\ Len(a) + (i - Len(a)) = i
      BY <1>0, <2>3
    <3>2. (a \o b)[Len(a) + (i - Len(a))] = b[i - Len(a)]
      BY <1>0, <3>1, JoinRight
    <3> QED BY <2>1, <3>1, <3>2 DEF HasKey
  <2> QED BY <2>2, <2>3
<1> QED BY <1>1, <1>2, <1>3

\* Where there is a key there is a first.
LEMMA KeySplit ==
    ASSUME NEW s \in Items, HasKey(s)
    PROVE  \E a, r : FirstKey(s, a, r)
<1>0. s \in Seq(Things) /\ Len(s) \in Nat
  BY DEF Items
<1>1. PICK p \in 1..Len(s) : s[p] = TheKey /\ \A i \in 1..Len(s) : i < p => s[i] # TheKey
  <2>1. position(s, TheKey) # 0
    BY <1>0, PositionIs DEF HasKey
  <2>2. position(s, TheKey) \in 1..Len(s)
    BY <1>0, <2>1, PositionIs
  <2> QED BY <1>0, <2>1, <2>2, PositionIs
<1>2. p - 1 \in Nat /\ p - 1 < Len(s) /\ p - 1 <= Len(s)
  BY <1>0
<1>3. PICK a \in Seq(Things), b \in Seq(Things) :
          /\ s = a \o b /\ Len(a) = p - 1 /\ Len(b) = Len(s) - (p - 1)
          /\ \A i \in 1..Len(a) : a[i] = s[i]
          /\ \A i \in 1..Len(b) : b[i] = s[p - 1 + i]
  <2>1. PICK n \in Nat : n = p - 1 /\ n < Len(s) /\ n <= Len(s)
    BY <1>2
  <2>2. /\ Take(s, n) \in Seq(Things) /\ Skip(s, n) \in Seq(Things) /\ Take(s, n) \o Skip(s, n) = s
        /\ Len(Take(s, n)) = n /\ Len(Skip(s, n)) = Len(s) - n
        /\ \A i \in 1..Len(Take(s, n)) : Take(s, n)[i] = s[i]
        /\ \A i \in 1..Len(Skip(s, n)) : Skip(s, n)[i] = s[n + i]
    BY <1>0, <2>1, TakeSkip
  <2> QED BY <2>1, <2>2
<1>4. 1 \in 1..Len(b) /\ p - 1 + 1 = p /\ Len(b) # 0
  BY <1>0, <1>3
<1>5. b[1] = TheKey
  BY <1>1, <1>3, <1>4
<1>6. PICK r \in Seq(Things) : b = <<TheKey>> \o r
  <2>1. b # <<>>
    BY <1>4
  <2>2. Tail(b) \in Seq(Things) /\ Head(b) = TheKey /\ b = <<Head(b)>> \o Tail(b)
    BY <1>5, <2>1
  <2> QED BY <2>2
<1>7. ~HasKey(a)
  <2>1. ASSUME NEW i \in 1..Len(a) PROVE a[i] # TheKey
    <3>1. i \in 1..Len(s) /\ i < p
      BY <1>0, <1>3
    <3> QED BY <1>1, <1>3, <3>1
  <2> QED BY <2>1 DEF HasKey
<1> QED BY <1>3, <1>6, <1>7 DEF FirstKey, Items

\* What a tab's user meant is what is before the first key.
LEMMA MeantSplit ==
    ASSUME NEW c \in Tabs, NEW s \in Items, NEW a, NEW r, FirstKey(s, a, r)
    PROVE  MeantOf(c, s) = a
<1>0. /\ s \in Seq(Things) /\ Len(s) \in Nat /\ a \in Seq(Things) /\ Len(a) \in Nat
      /\ r \in Seq(Things) /\ Len(r) \in Nat /\ s = a \o (<<TheKey>> \o r) /\ ~HasKey(a)
  BY DEF Items, FirstKey
<1>1. PICK b \in Seq(Things) : b = <<TheKey>> \o r /\ s = a \o b /\ Len(b) = 1 + Len(r) /\ b[1] = TheKey
  <2>1. PICK t \in Seq(Things) : t = <<TheKey>> /\ Len(t) = 1 /\ t[1] = TheKey
    BY KeyType, OneLong
  <2>2. t \o r \in Seq(Things) /\ Len(t \o r) = Len(t) + Len(r)
    BY <1>0, ConcatProperties
  <2>3. 1 \in 1..Len(t)
    BY <2>1
  <2>4. (t \o r)[1] = t[1]
    BY <1>0, <2>3, JoinLeft
  <2> QED BY <1>0, <2>1, <2>2, <2>4
<1>2. PICK n \in Nat : n = Len(a) + 1
  BY <1>0
<1>3. s[n] = TheKey /\ n \in 1..Len(s) /\ n # 0
  <2>1. Len(s) = Len(a) + Len(b) /\ 1 \in 1..Len(b)
    BY <1>0, <1>1, ConcatProperties
  <2>2. (a \o b)[Len(a) + 1] = b[1]
    BY <1>0, <2>1, JoinRight
  <2> QED BY <1>0, <1>1, <1>2, <2>1, <2>2
<1>4. ASSUME NEW i \in 1..Len(s), i < n PROVE s[i] # TheKey
  <2>1. i \in 1..Len(a)
    BY <1>0, <1>2, <1>4
  <2>2. (a \o b)[i] = a[i]
    BY <1>0, <2>1, JoinLeft
  <2> QED BY <1>0, <1>1, <2>1, <2>2 DEF HasKey
<1>5. position(s, TheKey) = n
  <2>1. s \in Seq(Things)
    BY <1>0
  <2>2. PICK p \in 0..Len(s) :
            /\ p = position(s, TheKey)
            /\ p = 0 => \A i \in 1..Len(s) : s[i] # TheKey
            /\ p # 0 => s[p] = TheKey
            /\ p # 0 => \A i \in 1..Len(s) : i < p => s[i] # TheKey
    BY <2>1, PositionIs
  <2>3. p # 0
    BY <1>3, <2>2
  <2>6. p \in 1..Len(s)
    BY <2>3
  <2>4. ~(p < n)
    BY <1>4, <2>2, <2>3, <2>6
  <2>5. ~(n < p)
    BY <1>3, <2>2, <2>3
  <2> QED BY <1>0, <2>2, <2>4, <2>5
<1>6. MeantOf(c, s) = Take(s, n - 1) /\ n - 1 = Len(a)
  BY <1>0, <1>2, <1>5 DEF MeantOf
<1>7. Take(s, Len(a)) = a
  <2>1. s \o <<>> = s /\ <<>> \in Seq(Things)
    BY <1>0, ConcatEmptySeq
  <2>2. Len(a) <= Len(s)
    BY <1>0, <1>2, <1>3
  <2> QED BY <1>0, <1>1, <2>1, <2>2, Overlaps
<1> QED BY <1>6, <1>7
\* All of it when there is no key.
LEMMA MeantAll ==
    ASSUME NEW c, NEW s \in Items, c \notin Tabs \/ ~HasKey(s)
    PROVE  MeantOf(c, s) = s
<1>1. CASE c \notin Tabs
  BY <1>1 DEF MeantOf
<1>2. CASE ~HasKey(s)
  <2>0. s \in Seq(Things)
    BY DEF Items
  <2>1. position(s, TheKey) \in 0..Len(s) /\ (position(s, TheKey) # 0 => s[position(s, TheKey)] = TheKey)
    BY <2>0, PositionIs
  <2>2. position(s, TheKey) = 0
    <3>1. SUFFICES ASSUME position(s, TheKey) # 0 PROVE FALSE
      OBVIOUS
    <3>2. position(s, TheKey) \in 1..Len(s)
      BY <2>0, <2>1, <3>1
    <3> QED BY <1>2, <2>1, <3>1, <3>2 DEF HasKey
  <2> QED BY <2>2 DEF MeantOf
<1> QED BY <1>1, <1>2

\* More is given: what was meant stays, and is all that is when a tab's key
\* was among what was given before.
LEMMA MeantMore ==
    ASSUME NEW c, NEW s \in Items, NEW m \in Items
    PROVE  /\ c \in Tabs /\ HasKey(s) => MeantOf(c, s \o m) = MeantOf(c, s) /\ HasKey(s \o m)
           /\ MeantOf(c, s) \in Items
           /\ IsPrefix(MeantOf(c, s), MeantOf(c, s \o m))
<1>0. s \o m \in Items
  BY JoinItems
<1>1. CASE c \in Tabs /\ HasKey(s)
  <2>1. PICK a, r : FirstKey(s, a, r)
    BY <1>1, KeySplit
  <2>2. a \in Items /\ r \in Items /\ s = a \o (<<TheKey>> \o r) /\ ~HasKey(a)
    BY <2>1 DEF FirstKey
  <2>3. /\ (a \o (<<TheKey>> \o r)) \o m = a \o ((<<TheKey>> \o r) \o m)
        /\ (<<TheKey>> \o r) \o m = <<TheKey>> \o (r \o m) /\ r \o m \in Items
    <3>1. <<TheKey>> \in Items /\ <<TheKey>> \o r \in Items /\ r \o m \in Items
      BY <2>2, KeyType, JoinItems
    <3>2. (<<TheKey>> \o r) \o m = <<TheKey>> \o (r \o m)
      BY <2>2, <3>1, AssocItems
    <3>3. PICK t \in Items : t = <<TheKey>> \o r
      BY <3>1
    <3>4. (a \o t) \o m = a \o (t \o m)
      BY <2>2, AssocItems
    <3> QED BY <3>1, <3>2, <3>3, <3>4
  <2>4. FirstKey(s \o m, a, r \o m)
    BY <2>2, <2>3 DEF FirstKey
  <2>5. MeantOf(c, s) = a /\ MeantOf(c, s \o m) = a
    BY <1>0, <1>1, <2>1, <2>4, MeantSplit
  <2>6. IsPrefix(a, a \o <<>>) /\ a \o <<>> = a
    BY <2>2, EmptyOnes, NoItems, PrefixOfJoin DEF Items
  <2> QED BY <1>1, <2>2, <2>5, <2>6, KeyJoin
<1>2. CASE ~(c \in Tabs /\ HasKey(s))
  <2>1. MeantOf(c, s) = s
    BY <1>2, MeantAll
  <2>2. IsPrefix(s, s \o m)
    BY PrefixOfJoin DEF Items
  <2>3. CASE c \in Tabs /\ HasKey(m)
    <3>1. PICK a, r : FirstKey(m, a, r)
      BY <2>3, KeySplit
    <3>2. a \in Items /\ r \in Items /\ m = a \o (<<TheKey>> \o r) /\ ~HasKey(a)
      BY <3>1 DEF FirstKey
    <3>3. <<TheKey>> \o r \in Items
      BY <3>2, KeyType, JoinItems
    <3>4. s \o (a \o (<<TheKey>> \o r)) = (s \o a) \o (<<TheKey>> \o r) /\ s \o a \in Items
      <4>1. PICK t \in Items : t = <<TheKey>> \o r
        BY <3>3
      <4>2. s \o (a \o t) = (s \o a) \o t
        BY <3>2, AssocItems
      <4> QED BY <3>2, <4>1, <4>2, JoinItems
    <3>5. ~HasKey(s \o a)
      BY <1>2, <2>3, <3>2, KeyJoin
    <3>6. FirstKey(s \o m, s \o a, r)
      BY <3>2, <3>4, <3>5 DEF FirstKey
    <3>7. MeantOf(c, s \o m) = s \o a
      BY <1>0, <2>3, <3>6, MeantSplit
    <3>8. IsPrefix(s, s \o a)
      BY <3>2, PrefixOfJoin DEF Items
    <3> QED BY <1>2, <2>1, <3>7, <3>8
  <2>4. CASE ~(c \in Tabs /\ HasKey(m))
    <3>1. MeantOf(c, s \o m) = s \o m
      BY <1>0, <1>2, <2>4, MeantAll, KeyJoin
    <3> QED BY <1>2, <2>1, <2>2, <3>1
  <2> QED BY <2>3, <2>4
<1> QED BY <1>1, <1>2

-----------------------------------------------------------------------------
(* The input of a client c: a is its attach, d the bytes on their way to    *)
(* the supervisor, v the supervisor's thread for it, g what the session was *)
(* given and i what the user gave.                                          *)
Mains == {"off", "connect", "raw", "save", "install", "hello", "loop", "read", "parse",
          "send", "leave", "detach", "sleep", "ending", "gone"}
Saids == {"", "not_running", "no_raw_mode", "no_hello", "detached", "cannot_write", "lost",
          "killed", "protocol"} \cup Reasons
Endings == [at : {"no", "swap", "set", "exit"}, said : Saids, code : Nat]
Attach == [sess : Sessions \cup {""}, main : Mains, out : {"none", "run", "ending"},
           stdin : Bytes, eof : BOOLEAN, buf : Bytes, todo : Seq(Bytes),
           next : {"", "loop", "parse", "leave"}, dec : Bytes, screen : Bytes,
           LEAVING : BOOLEAN, RESIZED : BOOLEAN, SAVED : BOOLEAN, tty : {"cooked", "raw"},
           win : Nat, ending : [Enders -> Endings], said : Saids, code : Nat]
Servers == [at : {"none", "hello", "replayed", "serve", "detached", "gone"}, dec : Bytes,
            due : Bytes, from : Nat, upto : Nat, since : Nat]

Open(v) == v.at \in {"none", "hello", "replayed", "serve"}
\* Nothing that the user still gives is for the session.
Settled(c, a, i) == a.eof \/ (c \in Tabs /\ HasKey(i))
\* The attach has read all that is for the session.
Leaves(a) == a.main \in {"leave", "detach", "sleep"} \/ (a.main = "send" /\ a.next = "leave")
Past(a) == a.main \in {"sleep", "ending", "gone"}
Sent(c, g, w, t) == K(c, (g \o w) \o t)
\* What it has not read, or not made frames of.
Rest(c, a, x) ==
    IF c \in Tabs THEN x = AsInput(a.stdin)
    ELSE Carries(HostM, {}, a.buf \o a.stdin, x, "open")
\* Before it leaves: what was given is what was sent and what it has not read.
Coming(c, a, g, i, w, t) ==
    /\ ~Leaves(a)
    /\ c \in Tabs => ~HasKey(Sent(c, g, w, t))
    /\ \E x \in Items : Rest(c, a, x) /\ i = Sent(c, g, w, t) \o x
\* After: what was meant is what was sent.
Done(c, a, g, i, w, t) ==
    /\ Leaves(a) \/ Past(a)
    /\ Settled(c, a, i) /\ MeantOf(c, i) = Sent(c, g, w, t)
Flow(c, a, d, v, g, i, w, t, e) ==
    /\ w \in Items /\ t \in Items /\ e \in Ends
    /\ Carries(DownM, DownE, v.dec \o d, w, e) /\ Queue(a.todo, t)
    /\ e = "open" \/ (/\ e = "detach" /\ a.LEAVING /\ Past(a) /\ a.todo = <<>>
                      /\ Done(c, a, g, i, w, t))
    /\ Coming(c, a, g, i, w, t) \/ Done(c, a, g, i, w, t)
Flows(c, a, d, v, g, i) == \E w, t, e : Flow(c, a, d, v, g, i, w, t, e)
Over(c, a, v, g, i) ==
    /\ IsPrefix(K(c, g), MeantOf(c, i))
    /\ v.at = "detached" => K(c, g) = MeantOf(c, i) /\ a.LEAVING /\ Settled(c, a, i)
InputOk(c, a, d, v, g, i) ==
    /\ Open(v) => Flows(c, a, d, v, g, i)
    /\ ~Open(v) => Over(c, a, v, g, i)

\* The attach goes on, and reads and sends nothing.
Goes(a, b) ==
    /\ b.stdin = a.stdin /\ b.buf = a.buf
    /\ a.eof => b.eof
    /\ a.LEAVING => b.LEAVING
    /\ Leaves(b) => Leaves(a)
    /\ Leaves(a) => Leaves(b) \/ Past(b)
    /\ Past(a) => Past(b)
Still(a, b) == Goes(a, b) /\ b.todo = a.todo

\* Then the input is as it was.
LEMMA StillComing ==
    ASSUME NEW c, NEW a, NEW b, Goes(a, b), NEW g, NEW i, NEW w, NEW t
    PROVE  /\ Coming(c, a, g, i, w, t) => Coming(c, b, g, i, w, t)
           /\ Done(c, a, g, i, w, t) => Done(c, b, g, i, w, t)
<1>1. \A x : Rest(c, a, x) => Rest(c, b, x)
  BY DEF Goes, Rest
<1>2. ASSUME Coming(c, a, g, i, w, t) PROVE Coming(c, b, g, i, w, t)
  BY <1>1, <1>2 DEF Coming, Goes
<1>3. ASSUME Done(c, a, g, i, w, t) PROVE Done(c, b, g, i, w, t)
  BY <1>3 DEF Done, Settled, Goes
<1> QED BY <1>2, <1>3
\* The bytes to the supervisor may be cut at another place, too.
LEMMA StillFlows ==
    ASSUME NEW c, NEW a, NEW b, Still(a, b), NEW g, NEW i, NEW d, NEW v, NEW f, NEW u,
           v.dec \o d = u.dec \o f, Flows(c, a, d, v, g, i)
    PROVE  Flows(c, b, f, u, g, i)
<1>1. PICK w, t, e : Flow(c, a, d, v, g, i, w, t, e)
  BY DEF Flows
<1>2. Flow(c, b, f, u, g, i, w, t, e)
  <2>1. /\ Coming(c, a, g, i, w, t) => Coming(c, b, g, i, w, t)
        /\ Done(c, a, g, i, w, t) => Done(c, b, g, i, w, t)
    BY StillComing DEF Still
  <2>2. (a.LEAVING => b.LEAVING) /\ (Past(a) => Past(b)) /\ b.todo = a.todo
    BY DEF Still, Goes
  <2>3. Carries(DownM, DownE, u.dec \o f, w, e)
    BY <1>1 DEF Flow
  <2> QED BY <1>1, <2>1, <2>2, <2>3 DEF Flow
<1> QED BY <1>2 DEF Flows
\* The same when it is over.
LEMMA StillOver ==
    ASSUME NEW c, NEW a, NEW b, Still(a, b), NEW g, NEW i, NEW v, Over(c, a, v, g, i)
    PROVE  Over(c, b, v, g, i)
BY DEF Over, Still, Goes, Settled
\* Both.
LEMMA StillOk ==
    ASSUME NEW c, NEW a, NEW b, Still(a, b), NEW g, NEW i, NEW d, NEW v,
           InputOk(c, a, d, v, g, i)
    PROVE  InputOk(c, b, d, v, g, i)
<1>1. CASE Open(v)
  BY <1>1, StillFlows DEF InputOk
<1>2. CASE ~Open(v)
  BY <1>2, StillOver DEF InputOk
<1> QED BY <1>1, <1>2
\* The thread of the supervisor reads.
SameJoin(x, y, z, w) == x \o y = z \o w

\* What is read and what is left join to what there was.
LEMMA ReadJoin ==
    ASSUME NEW c, NEW a, NEW g, NEW i, NEW d, NEW v, NEW e, NEW x,
           SameJoin(v.dec, d, x.dec, e), Open(v), Open(x), InputOk(c, a, d, v, g, i)
    PROVE  InputOk(c, a, e, x, g, i)
<1>1. PICK w, t, z : Flow(c, a, d, v, g, i, w, t, z)
  BY DEF InputOk, Flows
<1>2. Carries(DownM, DownE, x.dec \o e, w, z)
  BY <1>1 DEF Flow, SameJoin
<1>3. Flow(c, a, e, x, g, i, w, t, z)
  BY <1>1, <1>2 DEF Flow
<1> QED BY <1>3 DEF InputOk, Flows

Extends(a, b) == \E m \in Items : b = a \o m
\* What was sent and not seen, behind what was seen.
LEMMA SentJoins ==
    ASSUME NEW c, NEW g \in Items, NEW w \in Items, NEW t \in Items
    PROVE  /\ Sent(c, g, w, t) \in Items /\ K(c, g) \in Items
           /\ Extends(K(c, g), Sent(c, g, w, t))
           /\ g \o w \in Items /\ (g \o w) \o t \in Items
<1>1. g \o w \in Items /\ w \o t \in Items /\ (g \o w) \o t \in Items
  BY JoinItems
<1>2. (g \o w) \o t = g \o (w \o t)
  BY AssocItems
<1>3. K(c, g \o (w \o t)) = K(c, g) \o K(c, w \o t) /\ K(c, g) \in Items /\ K(c, w \o t) \in Items
  BY <1>1, KJoin
<1>4. Sent(c, g, w, t) = K(c, g) \o K(c, w \o t)
  BY <1>2, <1>3 DEF Sent
<1> QED BY <1>1, <1>3, <1>4, JoinItems DEF Extends

\* What is sent is a part of what is meant.
LEMMA SentIsMeant ==
    ASSUME NEW c, NEW a, NEW g \in Items, NEW i \in Items, NEW w \in Items, NEW t \in Items,
           Coming(c, a, g, i, w, t) \/ Done(c, a, g, i, w, t)
    PROVE  IsPrefix(K(c, g), MeantOf(c, i)) /\ MeantOf(c, i) \in Items
<1>1. PICK m \in Items : Sent(c, g, w, t) = K(c, g) \o m
  <2>1. Extends(K(c, g), Sent(c, g, w, t))
    BY SentJoins
  <2> QED BY <2>1 DEF Extends
<1>2. Sent(c, g, w, t) \in Items /\ K(c, g) \in Items
  BY SentJoins
<1>3. IsPrefix(K(c, g), Sent(c, g, w, t))
  BY <1>1, <1>2, PrefixOfJoin DEF Items
<1>4. CASE Done(c, a, g, i, w, t)
  BY <1>2, <1>3, <1>4 DEF Done
<1>5. CASE Coming(c, a, g, i, w, t)
  <2>1. PICK x \in Items : i = Sent(c, g, w, t) \o x /\ (c \in Tabs => ~HasKey(Sent(c, g, w, t)))
    BY <1>5 DEF Coming
  <2>2. MeantOf(c, Sent(c, g, w, t)) = Sent(c, g, w, t)
    BY <1>2, <2>1, MeantAll
  <2>3. IsPrefix(Sent(c, g, w, t), MeantOf(c, i)) /\ MeantOf(c, i) \in Items
    <3>1. IsPrefix(MeantOf(c, Sent(c, g, w, t)), MeantOf(c, Sent(c, g, w, t) \o x))
      BY <1>2, MeantMore
    <3>2. MeantOf(c, i) \in Items
      BY <1>2, MeantMore
    <3> QED BY <2>1, <2>2, <3>1, <3>2
  <2>4. PICK r \in Items : MeantOf(c, i) = Sent(c, g, w, t) \o r
    BY <1>2, <2>3, PrefixLeaves DEF Items
  <2>5. (K(c, g) \o m) \o r = K(c, g) \o (m \o r) /\ m \o r \in Items
    <3>1. m \o r \in Items
      BY JoinItems
    <3>2. PICK k \in Items : k = K(c, g)
      BY <1>2
    <3>3. (k \o m) \o r = k \o (m \o r)
      BY AssocItems
    <3> QED BY <3>1, <3>2, <3>3
  <2>6. IsPrefix(K(c, g), K(c, g) \o (m \o r))
    BY <1>2, <2>5, PrefixOfJoin DEF Items
  <2> QED BY <1>1, <2>3, <2>4, <2>5, <2>6
<1> QED BY <1>4, <1>5

\* The supervisor leaves a client.
LEMMA GoneOk ==
    ASSUME NEW c, NEW a, NEW g \in Items, NEW i \in Items, NEW d, NEW v, NEW f, NEW u,
           InputOk(c, a, d, v, g, i), u.at = "gone"
    PROVE  InputOk(c, a, f, u, g, i)
<1>0. ~Open(u)
  BY DEF Open
<1>1. CASE Open(v)
  <2>1. PICK w, t, e : Flow(c, a, d, v, g, i, w, t, e)
    BY <1>1 DEF InputOk, Flows
  <2>2. IsPrefix(K(c, g), MeantOf(c, i))
    BY <2>1, SentIsMeant DEF Flow
  <2> QED BY <1>0, <2>2 DEF InputOk, Over
<1>2. CASE ~Open(v)
  BY <1>0, <1>2 DEF InputOk, Over
<1> QED BY <1>1, <1>2

\* A frame is written to the socket, and what waits is less by as much, if
\* the session is to have anything of it at all.
LEMMA FlowWrites ==
    ASSUME NEW c, NEW a, NEW b, NEW g \in Items, NEW i, NEW d \in Bytes, NEW v \in Servers,
           NEW w, NEW t, NEW e, NEW m \in DownM, NEW u \in Items,
           Flow(c, a, d, v, g, i, w, t, e), ~Past(a), Goes(a, b),
           Queue(b.todo, u), Sent(c, g, w \o m.item, u) = Sent(c, g, w, t)
    PROVE  Flows(c, b, d \o m.code, v, g, i)
<1>2. /\ w \in Items /\ t \in Items /\ e = "open" /\ Queue(a.todo, t)
      /\ Carries(DownM, DownE, v.dec \o d, w, "open")
      /\ Coming(c, a, g, i, w, t) \/ Done(c, a, g, i, w, t)
  BY DEF Flow
<1>4. m.code \in Bytes /\ m.item \in Items /\ v.dec \in Bytes /\ v.dec \o d \in Bytes
  BY DownParts, JoinBytes DEF Servers
<1>5. Carries(DownM, DownE, (v.dec \o d) \o m.code, w \o m.item, "open") /\ w \o m.item \in Items
  BY <1>2, <1>4, CarriesMore, JoinItems
<1>6. (v.dec \o d) \o m.code = v.dec \o (d \o m.code)
  BY <1>4, AssocBytes
<1>7. Coming(c, b, g, i, w, t) \/ Done(c, b, g, i, w, t)
  BY <1>2, StillComing
<1>8. Coming(c, b, g, i, w \o m.item, u) \/ Done(c, b, g, i, w \o m.item, u)
  BY <1>7 DEF Coming, Done
<1>9. "open" \in Ends
  BY DEF Ends
<1>10. Flow(c, b, d \o m.code, v, g, i, w \o m.item, u, "open")
  BY <1>5, <1>6, <1>8, <1>9 DEF Flow
<1> QED BY <1>10 DEF Flows
\* The same of whatever is on its way.
LEMMA WriteOk ==
    ASSUME NEW c, NEW a, NEW b, NEW g \in Items, NEW i, NEW d \in Bytes, NEW v \in Servers,
           NEW m \in DownM, InputOk(c, a, d, v, g, i), Open(v), ~Past(a), Goes(a, b),
           \A w \in Items, t \in Items : Queue(a.todo, t) =>
              \E u \in Items : Queue(b.todo, u) /\ Sent(c, g, w \o m.item, u) = Sent(c, g, w, t)
    PROVE  InputOk(c, b, d \o m.code, v, g, i)
<1>1. PICK w, t, e : Flow(c, a, d, v, g, i, w, t, e)
  BY DEF InputOk, Flows
<1>2. w \in Items /\ t \in Items /\ Queue(a.todo, t)
  BY <1>1 DEF Flow
<1>3. PICK u \in Items : Queue(b.todo, u) /\ Sent(c, g, w \o m.item, u) = Sent(c, g, w, t)
  BY <1>2
<1>4. Flows(c, b, d \o m.code, v, g, i)
  BY <1>1, <1>3, FlowWrites
<1> QED BY <1>4 DEF InputOk

\* The hello.
LEMMA HelloOk ==
    ASSUME NEW c, NEW a, NEW b, NEW g \in Items, NEW i, NEW d \in Bytes, NEW v \in Servers,
           InputOk(c, a, d, v, g, i), Open(v), ~Past(a), Still(a, b)
    PROVE  InputOk(c, b, d \o encode(HELLO, <<1>>), v, g, i)
<1>1. Greeting \in DownM /\ Greeting.code = encode(HELLO, <<1>>) /\ Greeting.item = <<>>
  BY DEF DownM, Greeting
<1>2. ASSUME NEW w \in Items, NEW t \in Items, Queue(a.todo, t)
      PROVE  \E u \in Items : Queue(b.todo, u) /\ Sent(c, g, w \o Greeting.item, u) = Sent(c, g, w, t)
  <2>1. w \o Greeting.item = w
    BY <1>1, NoItems
  <2> QED BY <1>2, <2>1 DEF Still
<1>3. InputOk(c, b, d \o Greeting.code, v, g, i)
  BY <1>1, <1>2, WriteOk DEF Still
<1> QED BY <1>1, <1>3

\* A window size, sent by a tab.
LEMMA ResizeOk ==
    ASSUME NEW c \in Tabs, NEW a, NEW b, NEW g \in Items, NEW i, NEW d \in Bytes, NEW v \in Servers,
           InputOk(c, a, d, v, g, i), Open(v), ~Past(a), Still(a, b), a.todo = <<>>, NEW n \in Nat
    PROVE  InputOk(c, b, d \o encode_resize(n, n), v, g, i)
<1>0. PICK m \in DownM : m.code = encode_resize(n, n) /\ m.item = <<<<"size", n, n>>>>
  <2>1. Sized(n, n).code = encode_resize(n, n) /\ Sized(n, n).item = <<<<"size", n, n>>>>
    BY DEF Sized
  <2>2. Sized(n, n) \in DownM
    BY DEF DownM
  <2> QED BY <2>1, <2>2
<1>2. ASSUME NEW w \in Items, NEW t \in Items, Queue(a.todo, t)
      PROVE  \E u \in Items : Queue(b.todo, u) /\ Sent(c, g, w \o m.item, u) = Sent(c, g, w, t)
  <2>1. t = <<>>
    <3>1. Queue(<<>>, t)
      BY <1>2
    <3>2. QueueNext(<<>>, t)
      BY <3>1, QueueFirst
    <3>3. ASSUME NEW x \in DownM, NEW r \in Seq(Bytes) PROVE <<>> # <<x.code>> \o r
      BY DownParts, Behind
    <3> QED BY <3>2, <3>3 DEF QueueNext
  <2>2. m.item \in Items /\ w \o m.item \in Items /\ g \o w \in Items /\ g \o (w \o m.item) \in Items
    BY DownParts, JoinItems
  <2>3. (g \o (w \o m.item)) \o <<>> = (g \o w) \o m.item
    BY <2>2, NoItems, AssocItems
  <2>4. K(c, (g \o w) \o m.item) = K(c, g \o w) \o K(c, m.item) /\ K(c, g \o w) \in Items
    BY <2>2, KJoin
  <2>5. K(c, m.item) = <<>>
    BY <1>0, KeysSized DEF K
  <2>6. K(c, g \o w) \o <<>> = K(c, g \o w)
    BY <2>4, NoItems
  <2>7. (g \o w) \o <<>> = g \o w
    BY <2>2, NoItems
  <2>8. Sent(c, g, w \o m.item, <<>>) = Sent(c, g, w, <<>>)
    BY <2>3, <2>4, <2>5, <2>6, <2>7 DEF Sent
  <2> QED BY <1>2, <2>1, <2>8 DEF Still
<1>3. InputOk(c, b, d \o m.code, v, g, i)
  BY <1>2, WriteOk DEF Still
<1> QED BY <1>0, <1>3

\* The first frame that waits.
LEMMA SendOk ==
    ASSUME NEW c, NEW a, NEW b, NEW g \in Items, NEW i, NEW d \in Bytes, NEW v \in Servers,
           InputOk(c, a, d, v, g, i), Open(v), ~Past(a), Goes(a, b), a.todo # <<>>,
           b.todo = Tail(a.todo)
    PROVE  InputOk(c, b, d \o Head(a.todo), v, g, i)
<1>1. PICK w, t, e : Flow(c, a, d, v, g, i, w, t, e)
  BY DEF InputOk, Flows
<1>2. w \in Items /\ t \in Items /\ Queue(a.todo, t)
  BY <1>1 DEF Flow
<1>3. QueueNext(a.todo, t)
  BY <1>2, QueueFirst
<1>4. PICK m \in DownM, r \in Seq(Bytes), u \in Items :
          a.todo = <<m.code>> \o r /\ t = m.item \o u /\ Queue(r, u)
  BY <1>3 DEF QueueNext
<1>5. m.code \in Bytes /\ m.item \in Items /\ Head(a.todo) = m.code /\ Tail(a.todo) = r
  BY <1>4, DownParts, Behind
<1>6. (g \o (w \o m.item)) \o u = (g \o w) \o (m.item \o u)
  <2>0. PICK y \in Items : y = m.item
    BY <1>5
  <2>a. w \in Items
    BY <1>2
  <2>b. g \o w \in Items
    BY <2>a, JoinItems
  <2>c. g \o (w \o y) = (g \o w) \o y
    BY <2>a, AssocItems
  <2>1. g \o w \in Items /\ g \o (w \o y) = (g \o w) \o y
    BY <2>b, <2>c
  <2>2. PICK x \in Items : x = g \o w
    BY <2>1
  <2>3. (x \o y) \o u = x \o (y \o u)
    BY AssocItems
  <2> QED BY <2>0, <2>1, <2>2, <2>3
<1>7. Sent(c, g, w \o m.item, u) = Sent(c, g, w, t)
  BY <1>4, <1>6 DEF Sent
<1>8. Flows(c, b, d \o m.code, v, g, i)
  BY <1>1, <1>4, <1>5, <1>7, FlowWrites
<1> QED BY <1>5, <1>8 DEF InputOk

\* Nothing that waits stands for nothing.
LEMMA QueueEmpty == ASSUME NEW t, Queue(<<>>, t) PROVE t = <<>>
<1>1. QueueNext(<<>>, t)
  BY QueueFirst
<1>2. ASSUME NEW x \in DownM, NEW r \in Seq(Bytes) PROVE <<>> # <<x.code>> \o r
  BY DownParts, Behind
<1> QED BY <1>1, <1>2 DEF QueueNext
\* A single frame that waits.
LEMMA QueueOne ==
    ASSUME NEW m \in DownM
    PROVE  Queue(<<m.code>>, m.item) /\ <<m.code>> \in Seq(Bytes)
<1>1. m.code \in Bytes /\ m.item \in Items
  BY DownParts
<1>0. <<>> \in Seq(Bytes)
  OBVIOUS
<1>2. Queue(<<m.code>> \o <<>>, m.item \o <<>>)
  BY <1>0, EmptyOnes, QueueNothing, QueueMore
<1>3. <<m.code>> \in Seq(Bytes) /\ <<m.code>> \o <<>> = <<m.code>>
  BY <1>1, OneLong, ConcatEmptySeq
<1> QED BY <1>1, <1>2, <1>3, NoItems
\* No bytes, no items.
LEMMA NoInput == AsInput(<<>>) = <<>>
<1>1. AsInput(<<>>) \in Seq(Things) /\ Len(AsInput(<<>>)) = 0
  BY EmptyOnes, AsInputType DEF Items
<1> QED BY <1>1

\* An attach that sends nothing more that is for the session.
LEMMA OverGoes ==
    ASSUME NEW c, NEW a, NEW b, NEW g, NEW i, NEW v, Over(c, a, v, g, i),
           a.LEAVING => b.LEAVING, a.eof => b.eof
    PROVE  Over(c, b, v, g, i)
BY DEF Over, Settled

\* The farewell.
LEMMA FarewellOk ==
    ASSUME NEW c, NEW a, NEW b, NEW g \in Items, NEW i, NEW d \in Bytes, NEW v \in Servers,
           InputOk(c, a, d, v, g, i), Open(v), a.main = "detach", a.LEAVING, a.todo = <<>>,
           b.main = "sleep", Still(a, b)
    PROVE  InputOk(c, b, d \o encode(DETACH, <<>>), v, g, i)
<1>1. PICK w, t, e : Flow(c, a, d, v, g, i, w, t, e)
  BY DEF InputOk, Flows
<1>2. ~Past(a) /\ Leaves(a)
  BY DEF Past, Leaves
<1>3. /\ w \in Items /\ t \in Items /\ e = "open" /\ Queue(a.todo, t)
      /\ Carries(DownM, DownE, v.dec \o d, w, "open") /\ Done(c, a, g, i, w, t)
  BY <1>1, <1>2 DEF Flow, Coming
<1>4. v.dec \in Bytes /\ v.dec \o d \in Bytes /\ encode(DETACH, <<>>) \in Bytes
  <2>1. encode(DETACH, <<>>) \in Bytes
    BY ShortPayloads, Kinds, Layout DEF Payloads
  <2>2. v.dec \in Bytes
    BY DEF Servers
  <2> QED BY <2>1, <2>2, JoinBytes
<1>5. Farewell \in DownE /\ Farewell.code = encode(DETACH, <<>>) /\ Farewell.end = "detach"
  BY DEF DownE, Farewell
<1>6. Carries(DownM, DownE, (v.dec \o d) \o encode(DETACH, <<>>), w, "detach")
  BY <1>3, <1>4, <1>5, CarriesLast
<1>7. (v.dec \o d) \o encode(DETACH, <<>>) = v.dec \o (d \o encode(DETACH, <<>>))
  BY <1>4, AssocBytes
<1>8. Done(c, b, g, i, w, t) /\ Past(b) /\ b.LEAVING /\ b.todo = <<>> /\ Queue(b.todo, t)
  BY <1>3, StillComing DEF Still, Goes, Past
<1>9. "detach" \in Ends
  BY DEF Ends
<1>10. Flow(c, b, d \o encode(DETACH, <<>>), v, g, i, w, t, "detach")
  BY <1>3, <1>6, <1>7, <1>8, <1>9 DEF Flow
<1> QED BY <1>10 DEF InputOk, Flows

\* w is on its way and x is what has not been read.
Reads(c, a, g, i, d, v, w, x) ==
    /\ Carries(DownM, DownE, v.dec \o d, w, "open")
    /\ c \in Tabs => ~HasKey(K(c, g \o w))
    /\ Rest(c, a, x) /\ i = K(c, g \o w) \o x
    /\ g \o w \in Items /\ K(c, g \o w) \in Items
    /\ (g \o w) \o <<>> = g \o w
\* When the attach reads, nothing waits and nothing was done.
LEMMA Reading ==
    ASSUME NEW c, NEW a, NEW g \in Items, NEW i, NEW d, NEW v, InputOk(c, a, d, v, g, i), Open(v),
           a.main \in {"read", "parse"}, a.todo = <<>>
    PROVE  \E w \in Items, x \in Items : Reads(c, a, g, i, d, v, w, x)
<1>1. PICK w, t, e : Flow(c, a, d, v, g, i, w, t, e)
  BY DEF InputOk, Flows
<1>2. ~Past(a) /\ ~Leaves(a)
  BY DEF Past, Leaves
<1>3. /\ w \in Items /\ e = "open" /\ Queue(<<>>, t)
      /\ Carries(DownM, DownE, v.dec \o d, w, "open") /\ Coming(c, a, g, i, w, t)
  BY <1>1, <1>2 DEF Flow, Done
<1>4. t = <<>>
  BY <1>3, QueueEmpty
<1>5. g \o w \in Items /\ (g \o w) \o <<>> = g \o w
  BY <1>3, JoinItems, NoItems
<1>6. K(c, g \o w) \in Items
  <2>1. PICK y \in Items : y = g \o w
    BY <1>5
  <2> QED BY <2>1, KJoin
<1>7. Sent(c, g, w, t) = K(c, g \o w)
  BY <1>4, <1>5 DEF Sent
<1>8. PICK x \in Items : Rest(c, a, x) /\ i = K(c, g \o w) \o x
  BY <1>3, <1>7 DEF Coming
<1>9. c \in Tabs => ~HasKey(K(c, g \o w))
  BY <1>3, <1>7 DEF Coming
<1>10. Reads(c, a, g, i, d, v, w, x)
  BY <1>3, <1>5, <1>6, <1>8, <1>9 DEF Reads
<1> QED BY <1>3, <1>8, <1>10

\* What was read and is not more than what was given.
LEMMA ReadOn ==
    ASSUME NEW c, NEW b, NEW g, NEW i, NEW d, NEW v, Open(v), NEW w \in Items, NEW t \in Items,
           Carries(DownM, DownE, v.dec \o d, w, "open"), Queue(b.todo, t),
           Coming(c, b, g, i, w, t) \/ Done(c, b, g, i, w, t)
    PROVE  InputOk(c, b, d, v, g, i)
<1>1. "open" \in Ends
  BY DEF Ends
<1>2. Flow(c, b, d, v, g, i, w, t, "open")
  BY <1>1 DEF Flow
<1> QED BY <1>2 DEF InputOk, Flows

Joined(x, a, b) == x = a \o b
\* What is sent, and what it leads to.
LEMMA SentMore ==
    ASSUME NEW c, NEW g \in Items, NEW w \in Items, NEW t \in Items, K(c, t) = t
    PROVE  Joined(Sent(c, g, w, t), K(c, g \o w), t)
<1>1. PICK y \in Items : y = g \o w
  BY JoinItems
<1>2. K(c, y \o t) = K(c, y) \o K(c, t)
  BY KJoin
<1> QED BY <1>1, <1>2 DEF Sent, Joined

\* The end of the input.
LEMMA EofOk ==
    ASSUME NEW c, NEW a, NEW b, NEW g \in Items, NEW i \in Items, NEW d \in Bytes, NEW v \in Servers,
           InputOk(c, a, d, v, g, i), a.main = "read", a.todo = <<>>, a.stdin = <<>>, a.eof,
           a.buf \in Bytes, c \notin Tabs => decode_frame(a.buf).used = 0,
           b.main = "leave", b.todo = <<>>, b.eof, a.LEAVING => b.LEAVING
    PROVE  InputOk(c, b, d, v, g, i)
<1>1. CASE ~Open(v)
  BY <1>1, OverGoes DEF InputOk
<1>2. CASE Open(v)
  <2>0. PICK w \in Items, x \in Items : Reads(c, a, g, i, d, v, w, x)
    BY <1>2, Reading
  <2>1. /\ Carries(DownM, DownE, v.dec \o d, w, "open")
        /\ c \in Tabs => ~HasKey(K(c, g \o w))
        /\ Rest(c, a, x) /\ i = K(c, g \o w) \o x
        /\ g \o w \in Items /\ K(c, g \o w) \in Items
        /\ (g \o w) \o <<>> = g \o w
    BY <2>0 DEF Reads
  <2>2. x = <<>>
    <3>1. CASE c \in Tabs
      BY <2>1, <3>1, NoInput DEF Rest
    <3>2. CASE c \notin Tabs
      <4>1. Carries(HostM, {}, a.buf \o <<>>, x, "open")
        BY <2>1, <3>2 DEF Rest
      <4>2. decode_frame(a.buf).used = 0
        BY <3>2
      <4> QED BY <4>1, <4>2, EmptyOnes, DecodeHost
    <3> QED BY <3>1, <3>2
  <2>3. i = K(c, g \o w)
    BY <2>1, <2>2, NoItems
  <2>4. MeantOf(c, i) = i
    BY <2>1, <2>3, MeantAll
  <2>5. Sent(c, g, w, <<>>) = K(c, g \o w)
    BY <2>1 DEF Sent
  <2>6. Done(c, b, g, i, w, <<>>)
    BY <2>3, <2>4, <2>5 DEF Done, Leaves, Settled
  <2> QED BY <1>2, <2>1, <2>6, EmptyOnes, QueueNothing, ReadOn
<1> QED BY <1>1, <1>2

\* The app's attach reads.
LEMMA HostReadOk ==
    ASSUME NEW c, c \notin Tabs, NEW a, NEW b, NEW g \in Items, NEW i \in Items,
           NEW d \in Bytes, NEW v \in Servers, NEW n \in Nat,
           InputOk(c, a, d, v, g, i), a.main = "read", a.todo = <<>>, a.buf \in Bytes, a.stdin \in Bytes,
           b.main = "parse", b.todo = <<>>, a.eof => b.eof, a.LEAVING => b.LEAVING,
           b.buf = a.buf \o Take(a.stdin, n), b.stdin = Skip(a.stdin, n)
    PROVE  InputOk(c, b, d, v, g, i)
<1>1. CASE ~Open(v)
  BY <1>1, OverGoes DEF InputOk
<1>2. CASE Open(v)
  <2>0. PICK w \in Items, x \in Items : Reads(c, a, g, i, d, v, w, x)
    BY <1>2, Reading
  <2>1. /\ Carries(DownM, DownE, v.dec \o d, w, "open")
        /\ c \in Tabs => ~HasKey(K(c, g \o w))
        /\ Rest(c, a, x) /\ i = K(c, g \o w) \o x
        /\ g \o w \in Items /\ K(c, g \o w) \in Items
        /\ (g \o w) \o <<>> = g \o w
    BY <2>0 DEF Reads
  <2>2. b.buf \o b.stdin = a.buf \o a.stdin
    <3>1. /\ Take(a.stdin, n) \in Bytes /\ Skip(a.stdin, n) \in Bytes
          /\ Take(a.stdin, n) \o Skip(a.stdin, n) = a.stdin
      BY TakeSkip DEF Bytes
    <3>2. PICK y \in Bytes, z \in Bytes : y = Take(a.stdin, n) /\ z = Skip(a.stdin, n) /\ y \o z = a.stdin
      BY <3>1
    <3>3. (a.buf \o y) \o z = a.buf \o (y \o z)
      BY AssocBytes
    <3> QED BY <3>2, <3>3
  <2>3. Rest(c, b, x)
    BY <2>1, <2>2 DEF Rest
  <2>4. Sent(c, g, w, <<>>) = K(c, g \o w)
    BY <2>1 DEF Sent
  <2>5. Coming(c, b, g, i, w, <<>>)
    BY <2>1, <2>3, <2>4 DEF Coming, Leaves
  <2> QED BY <1>2, <2>1, <2>5, EmptyOnes, QueueNothing, ReadOn
<1> QED BY <1>1, <1>2

\* What it takes of f, with r still to come, when they carry x.
HostTakes(f, r, x) ==
    \E t \in Items, y \in Items :
       /\ x = t \o y /\ Queue(decode_frame(f).frames, t)
       /\ Carries(HostM, {}, Skip(f, decode_frame(f).used) \o r, y, "open")
\* It takes a frame.
LEMMA TakeHost ==
    ASSUME NEW f \in Bytes, NEW r \in Bytes, NEW x, Carries(HostM, {}, f \o r, x, "open")
    PROVE  decode_frame(f).used # 0 => HostTakes(f, r, x) /\ Skip(f, decode_frame(f).used) \in Bytes
<1>1. /\ ~decode_frame(f).bad
      /\ decode_frame(f).used = 0 /\ r = <<>> => x = <<>>
      /\ decode_frame(f).used # 0 =>
            /\ Skip(f, decode_frame(f).used) \in Bytes
            /\ \E t \in Items, i \in Items :
                  /\ x = t \o i /\ Queue(decode_frame(f).frames, t)
                  /\ Carries(HostM, {}, Skip(f, decode_frame(f).used) \o r, i, "open")
  BY DecodeHost
<1> QED BY <1>1, Zenon DEF HostTakes

\* The same of an attach.
LEMMA HostParseOk ==
    ASSUME NEW c, c \notin Tabs, NEW a, NEW b, NEW g \in Items, NEW i \in Items,
           NEW d \in Bytes, NEW v \in Servers,
           InputOk(c, a, d, v, g, i), a.main = "parse", a.todo = <<>>, a.buf \in Bytes, a.stdin \in Bytes,
           b.main = "send", b.next = "parse", a.eof => b.eof, a.LEAVING => b.LEAVING,
           decode_frame(a.buf).used # 0, b.todo = decode_frame(a.buf).frames,
           b.buf = Skip(a.buf, decode_frame(a.buf).used), b.stdin = a.stdin
    PROVE  InputOk(c, b, d, v, g, i)
<1>1. CASE ~Open(v)
  BY <1>1, OverGoes DEF InputOk
<1>2. CASE Open(v)
  <2>0. PICK w \in Items, x \in Items : Reads(c, a, g, i, d, v, w, x)
    BY <1>2, Reading
  <2>1. /\ Carries(DownM, DownE, v.dec \o d, w, "open")
        /\ Rest(c, a, x) /\ i = K(c, g \o w) \o x
        /\ g \o w \in Items
    BY <2>0 DEF Reads
  <2>2. Carries(HostM, {}, a.buf \o a.stdin, x, "open")
    BY <2>1 DEF Rest
  <2>a. PICK f \in Bytes, r \in Bytes : f = a.buf /\ r = a.stdin
    OBVIOUS
  <2>b. Carries(HostM, {}, f \o r, x, "open") /\ decode_frame(f).used # 0
    BY <2>2, <2>a
  <2>c. HostTakes(f, r, x)
    BY <2>b, TakeHost
  <2>3. PICK t \in Items, y \in Items :
              /\ x = t \o y /\ Queue(decode_frame(a.buf).frames, t)
              /\ Carries(HostM, {}, Skip(a.buf, decode_frame(a.buf).used) \o a.stdin, y, "open")
    BY <2>a, <2>c DEF HostTakes
  <2>4. Rest(c, b, y)
    BY <2>3 DEF Rest
  <2>5. Sent(c, g, w, t) = (g \o w) \o t /\ K(c, g \o w) = g \o w
    BY DEF Sent, K
  <2>6. i = Sent(c, g, w, t) \o y
    <3>1. PICK z \in Items : z = g \o w
      BY <2>1
    <3>2. (z \o t) \o y = z \o (t \o y)
      BY AssocItems
    <3> QED BY <2>1, <2>3, <2>5, <3>1, <3>2
  <2>7. Coming(c, b, g, i, w, t)
    BY <2>4, <2>6 DEF Coming, Leaves
  <2> QED BY <1>2, <2>1, <2>3, <2>7, ReadOn
<1> QED BY <1>1, <1>2

\* The detach key, among typed bytes.
LEMMA KeyByte ==
    ASSUME NEW b \in Bytes
    PROVE  /\ HasKey(AsInput(b)) <=> \E i \in 1..Len(b) : b[i] = DETACH_KEY
           /\ DETACH_KEY \in Nat /\ AsInput(<<DETACH_KEY>>) = <<TheKey>>
<1>1. /\ AsInput(b) \in Seq(Things) /\ Len(AsInput(b)) = Len(b)
      /\ \A i \in 1..Len(b) : AsInput(b)[i] = <<"in", b[i]>>
  BY AsInputType DEF Items
<1>2. \A i \in 1..Len(b) : AsInput(b)[i] = TheKey <=> b[i] = DETACH_KEY
  BY <1>1 DEF TheKey
<1>3. DETACH_KEY \in Nat
  BY DEF DETACH_KEY
<1>4. AsInput(<<DETACH_KEY>>) = <<TheKey>>
  BY DEF AsInput, TheKey
<1> QED BY <1>1, <1>2, <1>3, <1>4 DEF HasKey

\* Where the key is in what was read: f is before it, r after.
KeyAt(b, p, f, r) ==
    /\ f \in Bytes /\ r \in Bytes /\ f = Take(b, p - 1) /\ Len(f) = p - 1
    /\ b = f \o (<<DETACH_KEY>> \o r) /\ ~HasKey(AsInput(f))
\* It is the first.
LEMMA ChunkKey ==
    ASSUME NEW s \in Bytes
    PROVE  /\ position(s, DETACH_KEY) \in Nat
           /\ position(s, DETACH_KEY) = 0 => ~HasKey(AsInput(s))
           /\ position(s, DETACH_KEY) # 0 => \E f, r : KeyAt(s, position(s, DETACH_KEY), f, r)
<1>0. s \in Seq(Nat) /\ Len(s) \in Nat
  BY DEF Bytes
<1>a. position(s, DETACH_KEY) \in 0..Len(s)
  BY <1>0, PositionIs
<1>b. ASSUME position(s, DETACH_KEY) = 0 PROVE ~HasKey(AsInput(s))
  BY <1>0, <1>b, PositionIs, KeyByte
<1>c. ASSUME position(s, DETACH_KEY) # 0 PROVE \E f, r : KeyAt(s, position(s, DETACH_KEY), f, r)
  <2>1. PICK p \in 1..Len(s) : /\ p = position(s, DETACH_KEY) /\ s[p] = DETACH_KEY
                               /\ \A i \in 1..Len(s) : i < p => s[i] # DETACH_KEY
    BY <1>0, <1>a, <1>c, PositionIs
  <2>2. PICK n \in Nat : n = p - 1 /\ n < Len(s) /\ n <= Len(s) /\ n + 1 = p
    BY <1>0
  <2>3. /\ Take(s, n) \in Seq(Nat) /\ Skip(s, n) \in Seq(Nat) /\ Take(s, n) \o Skip(s, n) = s
        /\ Len(Take(s, n)) = n /\ Len(Skip(s, n)) = Len(s) - n
        /\ \A i \in 1..Len(Take(s, n)) : Take(s, n)[i] = s[i]
        /\ \A i \in 1..Len(Skip(s, n)) : Skip(s, n)[i] = s[n + i]
    BY <1>0, <2>2, TakeSkip
  <2>4. PICK f \in Bytes, b \in Bytes :
            /\ f = Take(s, n) /\ s = f \o b /\ Len(f) = n /\ Len(b) = Len(s) - n
            /\ \A i \in 1..Len(f) : f[i] = s[i]
            /\ \A i \in 1..Len(b) : b[i] = s[n + i]
    BY <2>3 DEF Bytes
  <2>5. 1 \in 1..Len(b) /\ Len(b) # 0
    BY <1>0, <2>2, <2>4
  <2>6. b[1] = DETACH_KEY
    BY <2>1, <2>2, <2>4, <2>5
  <2>7. PICK r \in Bytes : b = <<DETACH_KEY>> \o r
    <3>1. b # <<>> /\ b \in Seq(Nat)
      BY <2>5 DEF Bytes
    <3>2. Tail(b) \in Seq(Nat) /\ Head(b) = DETACH_KEY /\ b = <<Head(b)>> \o Tail(b)
      BY <2>6, <3>1
    <3> QED BY <3>2 DEF Bytes
  <2>8. ~HasKey(AsInput(f))
    <3>1. ASSUME NEW i \in 1..Len(f) PROVE f[i] # DETACH_KEY
      <4>1. i \in 1..Len(s) /\ i < p
        BY <1>0, <2>2, <2>4
      <4> QED BY <2>1, <2>4, <4>1
    <3> QED BY <3>1, KeyByte
  <2>9. KeyAt(s, p, f, r)
    BY <2>2, <2>4, <2>7, <2>8 DEF KeyAt
  <2> QED BY <2>1, <2>9
<1> QED BY <1>0, <1>a, <1>b, <1>c

\* More that was typed.
LEMMA TypedOn ==
    ASSUME NEW k \in Items, NEW s \in Bytes, NEW r \in Bytes
    PROVE  /\ k \o AsInput(s \o r) = (k \o AsInput(s)) \o AsInput(r)
           /\ AsInput(s) \in Items /\ AsInput(r) \in Items /\ k \o AsInput(s) \in Items
<1>1. PICK x \in Items, y \in Items : x = AsInput(s) /\ y = AsInput(r)
  BY AsInputType
<1>2. AsInput(s \o r) = x \o y
  BY <1>1, AsInputJoins
<1>3. (k \o x) \o y = k \o (x \o y) /\ k \o x \in Items
  BY AssocItems, JoinItems
<1> QED BY <1>1, <1>2, <1>3

\* What is sent, when the last of it was typed.
LEMMA SentTyped ==
    ASSUME NEW c, NEW g \in Items, NEW w \in Items, NEW s \in Bytes
    PROVE  Joined(Sent(c, g, w, AsInput(s)), K(c, g \o w), AsInput(s))
<1>1. PICK t \in Items : t = AsInput(s)
  BY AsInputType
<1>2. K(c, t) = t
  BY <1>1, KTyped
<1>3. Joined(Sent(c, g, w, t), K(c, g \o w), t)
  BY <1>2, SentMore
<1> QED BY <1>1, <1>3

Regrouped(f, o, r, x) ==
    /\ (f \o (o \o r)) \o x = f \o (o \o (r \o x))
    /\ o \o (r \o x) \in Bytes /\ r \o x \in Bytes
\* Four parts, grouped in another way.
LEMMA Regroup ==
    ASSUME NEW f \in Bytes, NEW o \in Bytes, NEW r \in Bytes, NEW x \in Bytes
    PROVE  Regrouped(f, o, r, x)
<1>1. PICK u \in Bytes, z \in Bytes : u = o \o r /\ z = r \o x
  BY JoinBytes
<1>2. (f \o u) \o x = f \o (u \o x)
  BY AssocBytes
<1>3. (o \o r) \o x = o \o (r \o x)
  BY AssocBytes
<1>4. o \o z \in Bytes
  BY JoinBytes
<1> QED BY <1>1, <1>2, <1>3, <1>4 DEF Regrouped

KeyIn(c, k, s, rest, f) ==
    /\ HasKey(k \o AsInput(s \o rest))
    /\ MeantOf(c, k \o AsInput(s \o rest)) = k \o AsInput(f)
\* The key was typed.
LEMMA KeyTyped ==
    ASSUME NEW c, c \in Tabs, NEW k \in Items, NEW p \in Nat, NEW s \in Bytes, NEW rest \in Bytes,
           NEW f, NEW r, KeyAt(s, p, f, r), ~HasKey(k)
    PROVE  KeyIn(c, k, s, rest, f)
<1>0. PICK f1 \in Bytes, r1 \in Bytes : f1 = f /\ r1 = r
  BY DEF KeyAt
<1>1. s = f1 \o (<<DETACH_KEY>> \o r1) /\ ~HasKey(AsInput(f1))
  BY <1>0 DEF KeyAt
<1>2. PICK o \in Bytes : o = <<DETACH_KEY>> /\ AsInput(o) = <<TheKey>>
  BY KeyByte, OneLong DEF Bytes
<1>3. PICK q \in Bytes : q = o \o (r1 \o rest) /\ s \o rest = f1 \o q /\ r1 \o rest \in Bytes
  <2>1. Regrouped(f1, o, r1, rest)
    BY Regroup
  <2> QED BY <1>1, <1>2, <2>1 DEF Regrouped
<1>4. PICK z \in Bytes : z = r1 \o rest
  BY <1>3
<1>5. AsInput(q) = <<TheKey>> \o AsInput(z) /\ AsInput(z) \in Items /\ AsInput(f1) \in Items
  <2>1. AsInput(o \o z) = AsInput(o) \o AsInput(z)
    BY AsInputJoins
  <2>2. AsInput(z) \in Items /\ AsInput(f1) \in Items
    BY AsInputType
  <2> QED BY <1>2, <1>3, <1>4, <2>1, <2>2
<1>6. k \o AsInput(f1 \o q) = (k \o AsInput(f1)) \o AsInput(q)
  BY <1>1, TypedOn
<1>7. PICK m \in Items, y \in Items : m = k \o AsInput(f1) /\ y = AsInput(z) /\ ~HasKey(m)
  <2>1. PICK x \in Items : x = AsInput(f1) /\ ~HasKey(x)
    BY <1>1, <1>5
  <2>2. k \o x \in Items /\ ~HasKey(k \o x)
    BY <2>1, JoinItems, KeyJoin
  <2> QED BY <1>5, <2>1, <2>2
<1>8. PICK i \in Items : i = m \o (<<TheKey>> \o y) /\ HasKey(i)
  <2>1. PICK h \in Items : h = <<TheKey>> /\ HasKey(h)
    BY KeyType
  <2>2. h \o y \in Items /\ HasKey(h \o y)
    BY <2>1, JoinItems, KeyJoin
  <2>3. PICK u \in Items : u = h \o y /\ HasKey(u)
    BY <2>2
  <2>4. m \o u \in Items /\ HasKey(m \o u)
    BY <2>3, JoinItems, KeyJoin
  <2> QED BY <2>1, <2>3, <2>4
<1>9. k \o AsInput(s \o rest) = i
  BY <1>3, <1>5, <1>6, <1>7, <1>8
<1>10. FirstKey(i, m, y)
  BY <1>7, <1>8 DEF FirstKey
<1>11. MeantOf(c, i) = m
  BY <1>10, MeantSplit
<1> QED BY <1>0, <1>7, <1>8, <1>9, <1>11 DEF KeyIn

\* A tab's attach reads s, and rest is left.
TabReads(a, b, s, rest) ==
    LET at == position(s, DETACH_KEY)
    IN  /\ a.main = "read" /\ a.todo = <<>>
        /\ b.main = "send" /\ (a.eof => b.eof) /\ (a.LEAVING => b.LEAVING)
        /\ a.stdin = s \o rest /\ b.stdin = rest
        /\ b.todo = IF at = 1 THEN <<>>
                    ELSE IF at > 1 THEN <<encode(INPUT, Take(s, at - 1))>>
                    ELSE chunks(INPUT, s)
        /\ b.next = IF at > 0 THEN "leave" ELSE "loop"
\* There was no key in it.
LEMMA NoKeyRead ==
    ASSUME NEW c, c \in Tabs, NEW a, NEW b, NEW g \in Items, NEW i \in Items,
           NEW d \in Bytes, NEW v \in Servers, InputOk(c, a, d, v, g, i),
           NEW s \in Bytes, NEW rest \in Bytes, s # <<>>, TabReads(a, b, s, rest),
           position(s, DETACH_KEY) = 0
    PROVE  InputOk(c, b, d, v, g, i) /\ b.todo \in Seq(Bytes)
<1>1. /\ a.main = "read" /\ a.todo = <<>> /\ a.stdin = s \o rest /\ b.stdin = rest
      /\ b.todo = chunks(INPUT, s) /\ b.next = "loop" /\ b.main = "send"
      /\ (a.eof => b.eof) /\ (a.LEAVING => b.LEAVING)
  BY DEF TabReads
<1>2. Queue(b.todo, AsInput(s)) /\ b.todo \in Seq(Bytes)
  BY <1>1, ChunksQueue, QueueFirst
<1>3. CASE ~Open(v)
  BY <1>1, <1>2, <1>3, OverGoes DEF InputOk
<1>4. CASE Open(v)
  <2>0. PICK w \in Items, x \in Items : Reads(c, a, g, i, d, v, w, x)
    BY <1>1, <1>4, Reading
  <2>1. /\ Carries(DownM, DownE, v.dec \o d, w, "open")
        /\ c \in Tabs => ~HasKey(K(c, g \o w))
        /\ Rest(c, a, x) /\ i = K(c, g \o w) \o x
        /\ g \o w \in Items /\ K(c, g \o w) \in Items
        /\ (g \o w) \o <<>> = g \o w
    BY <2>0 DEF Reads
  <2>2. PICK k \in Items, t \in Items, y \in Items : k = K(c, g \o w) /\ t = AsInput(s) /\ y = AsInput(rest)
    BY <2>1, AsInputType
  <2>3. Sent(c, g, w, t) = k \o t
    <3>1. Joined(Sent(c, g, w, AsInput(s)), K(c, g \o w), AsInput(s))
      BY SentTyped
    <3> QED BY <2>2, <3>1 DEF Joined
  <2>4. i = Sent(c, g, w, t) \o y
    <3>1. i = k \o AsInput(s \o rest)
      BY <1>1, <2>1, <2>2 DEF Rest
    <3>2. k \o AsInput(s \o rest) = (k \o AsInput(s)) \o AsInput(rest)
      BY TypedOn
    <3> QED BY <2>2, <2>3, <3>1, <3>2
  <2>5. ~HasKey(Sent(c, g, w, t))
    <3>1. ~HasKey(t)
      BY <2>2, ChunkKey
    <3>2. ~HasKey(k)
      BY <2>1, <2>2
    <3> QED BY <2>3, <3>1, <3>2, KeyJoin
  <2>6. Rest(c, b, y) /\ ~Leaves(b)
    BY <1>1, <2>2 DEF Rest, Leaves
  <2>7. Coming(c, b, g, i, w, t)
    BY <2>4, <2>5, <2>6 DEF Coming
  <2>8. Queue(b.todo, t)
    BY <1>2, <2>2
  <2> QED BY <1>2, <1>4, <2>1, <2>7, <2>8, ReadOn
<1> QED BY <1>3, <1>4
\* There was one.
LEMMA KeyRead ==
    ASSUME NEW c, c \in Tabs, NEW a, NEW b, NEW g \in Items, NEW i \in Items,
           NEW d \in Bytes, NEW v \in Servers, InputOk(c, a, d, v, g, i),
           NEW s \in Bytes, NEW rest \in Bytes, Len(s) <= MAX_PAYLOAD, TabReads(a, b, s, rest),
           NEW p \in Nat, p = position(s, DETACH_KEY), p # 0
    PROVE  InputOk(c, b, d, v, g, i) /\ b.todo \in Seq(Bytes)
<1>0. p > 0 /\ (p = 1 \/ p > 1)
  OBVIOUS
<1>1. /\ a.main = "read" /\ a.todo = <<>> /\ a.stdin = s \o rest /\ b.stdin = rest
      /\ b.todo = (IF p = 1 THEN <<>> ELSE IF p > 1 THEN <<encode(INPUT, Take(s, p - 1))>>
                   ELSE chunks(INPUT, s))
      /\ b.next = "leave" /\ b.main = "send" /\ (a.eof => b.eof) /\ (a.LEAVING => b.LEAVING)
  BY <1>0 DEF TabReads
<1>2. PICK f, r : KeyAt(s, p, f, r)
  BY ChunkKey
<1>3. /\ f \in Bytes /\ r \in Bytes /\ f = Take(s, p - 1) /\ Len(f) = p - 1
      /\ s = f \o (<<DETACH_KEY>> \o r) /\ ~HasKey(AsInput(f))
  BY <1>2 DEF KeyAt
<1>4. Queue(b.todo, AsInput(f)) /\ b.todo \in Seq(Bytes)
  <2>1. CASE p = 1
    <3>1. f = <<>> /\ b.todo = <<>>
      BY <1>1, <1>3, <2>1 DEF Bytes
    <3>2. <<>> \in Seq(Bytes)
      OBVIOUS
    <3> QED BY <3>1, <3>2, NoInput, QueueNothing
  <2>2. CASE p > 1
    <3>1. b.todo = <<encode(INPUT, f)>>
      BY <1>1, <1>3, <2>2
    <3>2. f \in Payloads
      <4>1. DETACH_KEY \in Nat
        BY KeyByte
      <4>2. <<DETACH_KEY>> \o r \in Seq(Nat)
        BY <1>3, <4>1, OneLong, Joins DEF Bytes
      <4>3. Len(f) <= Len(s)
        BY <1>3, <4>2, Joins DEF Bytes
      <4>4. Len(f) <= MAX_PAYLOAD
        BY <1>3, <4>3, TerminalAssumption DEF Bytes
      <4> QED BY <1>3, <4>4 DEF Payloads
    <3>3. Typed(f) \in DownM /\ Typed(f).code = encode(INPUT, f) /\ Typed(f).item = AsInput(f)
      BY <3>2 DEF DownM, Typed
    <3> QED BY <3>1, <3>3, QueueOne
  <2> QED BY <1>0, <2>1, <2>2
<1>5. CASE ~Open(v)
  BY <1>1, <1>4, <1>5, OverGoes DEF InputOk
<1>6. CASE Open(v)
  <2>0. PICK w \in Items, x \in Items : Reads(c, a, g, i, d, v, w, x)
    BY <1>1, <1>6, Reading
  <2>1. /\ Carries(DownM, DownE, v.dec \o d, w, "open")
        /\ c \in Tabs => ~HasKey(K(c, g \o w))
        /\ Rest(c, a, x) /\ i = K(c, g \o w) \o x
        /\ g \o w \in Items /\ K(c, g \o w) \in Items
        /\ (g \o w) \o <<>> = g \o w
    BY <2>0 DEF Reads
  <2>2. PICK k \in Items, t \in Items : k = K(c, g \o w) /\ t = AsInput(f) /\ ~HasKey(k)
    BY <1>3, <2>1, AsInputType
  <2>3. Sent(c, g, w, t) = k \o t
    <3>1. Joined(Sent(c, g, w, AsInput(f)), K(c, g \o w), AsInput(f))
      BY <1>3, SentTyped
    <3> QED BY <2>2, <3>1 DEF Joined
  <2>4. i = k \o AsInput(s \o rest)
    BY <1>1, <2>1, <2>2 DEF Rest
  <2>5. HasKey(i) /\ MeantOf(c, i) = Sent(c, g, w, t)
    <3>1. KeyIn(c, k, s, rest, f)
      BY <1>2, <2>2, KeyTyped
    <3> QED BY <2>2, <2>3, <2>4, <3>1 DEF KeyIn
  <2>6. Done(c, b, g, i, w, t)
    BY <1>1, <2>5 DEF Done, Leaves, Settled
  <2>7. Queue(b.todo, t)
    BY <1>4, <2>2
  <2> QED BY <1>4, <1>6, <2>1, <2>6, <2>7, ReadOn
<1> QED BY <1>5, <1>6

Grouped(x, y, z) == (x \o y) \o z = x \o (y \o z) /\ y \o z \in Items
\* Three parts, grouped in another way.
LEMMA Group ==
    ASSUME NEW x \in Items, NEW y \in Items, NEW z \in Items
    PROVE  Grouped(x, y, z)
<1>1. (x \o y) \o z = x \o (y \o z)
  BY AssocItems
<1>2. y \o z \in Items
  BY JoinItems
<1> QED BY <1>1, <1>2 DEF Grouped

\* What the supervisor takes of the bytes dec, with r to come, when they
\* carry w and end with e.
TakesFrame(dec, r, w, e) ==
    LET f == pop(dec)
    IN  /\ f.used > 0 /\ Skip(dec, f.used) \in Bytes /\ FrameItem(f) \in Items
        /\ IF f.kind = DETACH
           THEN w = <<>> /\ e = "detach" /\ FrameItem(f) = <<>>
           ELSE \E x \in Items : /\ Joined(w, FrameItem(f), x)
                                 /\ Carries(DownM, DownE, Skip(dec, f.used) \o r, x, e)
\* It does.
LEMMA TakeFrame ==
    ASSUME NEW dec \in Bytes, NEW r \in Bytes, NEW w, NEW e,
           Carries(DownM, DownE, dec \o r, w, e), pop(dec).used # 0
    PROVE  TakesFrame(dec, r, w, e)
<1>1. /\ pop(dec).used > 0 /\ Skip(dec, pop(dec).used) \in Bytes
      /\ FrameItem(pop(dec)) \in Items
      /\ IF pop(dec).kind = DETACH
         THEN w = <<>> /\ e = "detach" /\ FrameItem(pop(dec)) = <<>>
         ELSE \E i \in Items :
                 /\ w = FrameItem(pop(dec)) \o i
                 /\ Carries(DownM, DownE, Skip(dec, pop(dec).used) \o r, i, e)
  BY PopDown
<1> QED BY <1>1, Zenon DEF TakesFrame, Joined

\* A frame in the middle: what was on its way is with the session.
LEMMA FrameMoves ==
    ASSUME NEW c, NEW g \in Items, NEW m \in Items, NEW x \in Items, NEW w \in Items, NEW t \in Items,
           Joined(w, m, x)
    PROVE  Sent(c, g \o m, x, t) = Sent(c, g, w, t) /\ g \o m \in Items
<1>1. (g \o m) \o x = g \o (m \o x) /\ g \o m \in Items
  BY AssocItems, JoinItems
<1> QED BY <1>1 DEF Sent, Joined

\* The supervisor takes a frame of a client.
Took(v) == [v EXCEPT !.at = IF pop(v.dec).kind = DETACH THEN "detached" ELSE "serve",
                     !.dec = Skip(@, pop(v.dec).used)]
Has(g, v) == g \o FrameItem(pop(v.dec))

\* A client stays good when the supervisor takes a frame of it.
LEMMA ClientFrameOk ==
    ASSUME NEW c, NEW a, NEW g \in Items, NEW i \in Items, NEW d \in Bytes, NEW v \in Servers,
           NEW u, NEW h, InputOk(c, a, d, v, g, i), v.at = "serve", pop(v.dec).used # 0,
           u = Took(v), h = Has(g, v)
    PROVE  InputOk(c, a, d, u, h, i) /\ u \in Servers /\ h \in Items
<1>0. v.dec \in Bytes /\ Open(v)
  BY DEF Servers, Open
<1>7. /\ u.at = (IF pop(v.dec).kind = DETACH THEN "detached" ELSE "serve")
      /\ u.dec = Skip(v.dec, pop(v.dec).used)
      /\ Skip(v.dec, pop(v.dec).used) \in Bytes => u \in Servers
  <2>1. PICK x, y : x = Skip(v.dec, pop(v.dec).used)
                    /\ y = IF pop(v.dec).kind = DETACH THEN "detached" ELSE "serve"
    OBVIOUS
  <2>2. u = [v EXCEPT !.at = y, !.dec = x]
    BY <2>1 DEF Took
  <2>3. u.at = y /\ u.dec = x /\ (x \in Bytes => u \in Servers)
    BY <2>1, <2>2 DEF Servers
  <2> QED BY <2>1, <2>3
<1>1. PICK w, t, e : Flow(c, a, d, v, g, i, w, t, e)
  BY <1>0 DEF InputOk, Flows
<1>2. /\ w \in Items /\ t \in Items /\ e \in Ends /\ Queue(a.todo, t)
      /\ Carries(DownM, DownE, v.dec \o d, w, e)
      /\ e = "open" \/ (e = "detach" /\ a.LEAVING /\ Past(a) /\ a.todo = <<>> /\ Done(c, a, g, i, w, t))
      /\ Coming(c, a, g, i, w, t) \/ Done(c, a, g, i, w, t)
  BY <1>1 DEF Flow
<1>3. TakesFrame(v.dec, d, w, e)
  BY <1>0, <1>2, TakeFrame
<1>4. Skip(v.dec, pop(v.dec).used) \in Bytes /\ FrameItem(pop(v.dec)) \in Items
  BY <1>3 DEF TakesFrame
<1>5. CASE pop(v.dec).kind = DETACH
  <2>1. w = <<>> /\ e = "detach" /\ FrameItem(pop(v.dec)) = <<>>
    BY <1>3, <1>5 DEF TakesFrame
  <2>2. u.at = "detached" /\ u \in Servers /\ ~Open(u)
    BY <1>4, <1>5, <1>7 DEF Open
  <2>3. h = g
    BY <2>1, NoItems DEF Has
  <2>4. a.LEAVING /\ a.todo = <<>> /\ Done(c, a, g, i, w, t)
    BY <1>2, <2>1
  <2>5. t = <<>>
    <3>1. Queue(<<>>, t)
      BY <1>2, <2>4
    <3> QED BY <3>1, QueueEmpty
  <2>6. K(c, g) = MeantOf(c, i) /\ Settled(c, a, i)
    <3>1. (g \o <<>>) \o <<>> = g
      BY NoItems
    <3> QED BY <2>1, <2>4, <2>5, <3>1 DEF Done, Sent
  <2>7. IsPrefix(K(c, g), K(c, g))
    <3>1. PICK k \in Items : k = K(c, g)
      BY <1>2, SentJoins
    <3>2. IsPrefix(k, k \o <<>>) /\ k \o <<>> = k
      BY EmptyOnes, NoItems, PrefixOfJoin DEF Items
    <3> QED BY <3>1, <3>2
  <2>8. Over(c, a, u, h, i)
    BY <2>3, <2>4, <2>6, <2>7 DEF Over
  <2> QED BY <2>2, <2>3, <2>8 DEF InputOk
<1>6. CASE pop(v.dec).kind # DETACH
  <2>1. PICK x \in Items : /\ Joined(w, FrameItem(pop(v.dec)), x)
                           /\ Carries(DownM, DownE, Skip(v.dec, pop(v.dec).used) \o d, x, e)
    BY <1>3, <1>6 DEF TakesFrame
  <2>2. u.at = "serve" /\ u.dec = Skip(v.dec, pop(v.dec).used) /\ u \in Servers /\ Open(u)
    BY <1>4, <1>6, <1>7 DEF Open
  <2>3. Sent(c, h, x, t) = Sent(c, g, w, t) /\ h \in Items
    <3>1. PICK m \in Items : m = FrameItem(pop(v.dec)) /\ Joined(w, m, x)
      BY <1>4, <2>1
    <3>2. Sent(c, g \o m, x, t) = Sent(c, g, w, t) /\ g \o m \in Items
      BY <1>2, <3>1, FrameMoves
    <3>3. h = g \o m
      BY <3>1 DEF Has
    <3> QED BY <3>2, <3>3
  <2>4. /\ Coming(c, a, g, i, w, t) => Coming(c, a, h, i, x, t)
        /\ Done(c, a, g, i, w, t) => Done(c, a, h, i, x, t)
    BY <2>3 DEF Coming, Done
  <2>5. Flow(c, a, d, u, h, i, x, t, e)
    BY <1>2, <2>1, <2>2, <2>4 DEF Flow
  <2> QED BY <2>2, <2>3, <2>5 DEF InputOk, Flows
<1> QED BY <1>5, <1>6

\* More is given, and what was meant is more by as much or was all.
LEMMA OverGrows ==
    ASSUME NEW c, NEW a, NEW b, NEW g \in Items, NEW i \in Items, NEW m \in Items, NEW j, NEW v,
           Over(c, a, v, g, i), Joined(j, i, m), ~a.eof, a.LEAVING => b.LEAVING
    PROVE  Over(c, b, v, g, j)
<1>1. /\ c \in Tabs /\ HasKey(i) => MeantOf(c, j) = MeantOf(c, i) /\ HasKey(j)
      /\ MeantOf(c, i) \in Items /\ IsPrefix(MeantOf(c, i), MeantOf(c, j))
  BY MeantMore DEF Joined
<1>2. MeantOf(c, j) \in Items
  <2>1. j \in Items
    BY JoinItems DEF Joined
  <2> QED BY <2>1, EmptyOnes, MeantMore
<1>3. PICK x \in Items : Joined(MeantOf(c, j), MeantOf(c, i), x)
  BY <1>1, <1>2, PrefixLeaves DEF Items, Joined
<1>4. IsPrefix(K(c, g), MeantOf(c, j))
  <2>1. PICK k \in Items, n \in Items : k = K(c, g) /\ n = MeantOf(c, i) /\ IsPrefix(k, n)
    <3>1. K(c, g) \in Items
      BY EmptyOnes, KJoin
    <3> QED BY <1>1, <3>1 DEF Over
  <2>2. IsPrefix(k, n \o x)
    BY <2>1, PrefixGrows DEF Items
  <2> QED BY <1>3, <2>1, <2>2 DEF Joined
<1>5. ASSUME v.at = "detached"
      PROVE  K(c, g) = MeantOf(c, j) /\ b.LEAVING /\ Settled(c, b, j)
  BY <1>1, <1>5 DEF Over, Settled
<1> QED BY <1>4, <1>5 DEF Over

\* The user of a tab types.
LEMMA TypeKeysOk ==
    ASSUME NEW c, c \in Tabs, NEW a, NEW b, NEW g \in Items, NEW i \in Items, NEW d \in Bytes,
           NEW v \in Servers, NEW s \in Bytes, InputOk(c, a, d, v, g, i), ~a.eof, a.stdin \in Bytes,
           b.stdin = a.stdin \o s, b.buf = a.buf, b.todo = a.todo, b.main = a.main,
           b.next = a.next, b.LEAVING = a.LEAVING
    PROVE  InputOk(c, b, d, v, g, i \o AsInput(s))
<1>0. PICK m \in Items, j \in Items : m = AsInput(s) /\ Joined(j, i, m)
  BY AsInputType, JoinItems DEF Joined
<1>1. CASE ~Open(v)
  <2>1. Over(c, b, v, g, j)
    BY <1>0, <1>1, OverGrows DEF InputOk
  <2> QED BY <1>0, <1>1, <2>1 DEF InputOk, Joined
<1>2. CASE Open(v)
  <2>1. PICK w, t, e : Flow(c, a, d, v, g, i, w, t, e)
    BY <1>2 DEF InputOk, Flows
  <2>2. (Leaves(a) <=> Leaves(b)) /\ (Past(a) <=> Past(b))
    BY DEF Leaves, Past
  <2>3. ASSUME Coming(c, a, g, i, w, t) PROVE Coming(c, b, g, j, w, t)
    <3>1. PICK x \in Items : Rest(c, a, x) /\ i = Sent(c, g, w, t) \o x
      BY <2>3 DEF Coming
    <3>2. PICK y \in Items : y = Sent(c, g, w, t)
      BY <2>1, SentJoins DEF Flow
    <3>a. Grouped(y, x, m)
      BY Group
    <3>3. (y \o x) \o m = y \o (x \o m) /\ x \o m \in Items
      BY <3>a DEF Grouped
    <3>4. j = Sent(c, g, w, t) \o (x \o m)
      BY <1>0, <3>1, <3>2, <3>3 DEF Joined
    <3>5. Rest(c, b, x \o m)
      <4>1. AsInput(a.stdin \o s) = AsInput(a.stdin) \o AsInput(s)
        BY AsInputJoins
      <4> QED BY <1>0, <3>1, <4>1 DEF Rest
    <3> QED BY <2>2, <2>3, <3>3, <3>4, <3>5 DEF Coming
  <2>4. ASSUME Done(c, a, g, i, w, t) PROVE Done(c, b, g, j, w, t)
    <3>1. HasKey(i)
      BY <2>4 DEF Done, Settled
    <3>2. MeantOf(c, j) = MeantOf(c, i) /\ HasKey(j)
      BY <1>0, <3>1, MeantMore DEF Joined
    <3> QED BY <2>2, <2>4, <3>2 DEF Done, Settled
  <2>5. Flow(c, b, d, v, g, j, w, t, e)
    BY <2>1, <2>2, <2>3, <2>4 DEF Flow
  <2> QED BY <1>0, <1>2, <2>5 DEF InputOk, Flows, Joined
<1> QED BY <1>1, <1>2

\* The app writes a frame to an attach that is there.
LEMMA HostFrameOk ==
    ASSUME NEW c, c \notin Tabs, NEW a, NEW b, NEW g \in Items, NEW i \in Items, NEW d \in Bytes,
           NEW v \in Servers, NEW n \in HostM, InputOk(c, a, d, v, g, i), ~a.eof,
           a.stdin \in Bytes, a.buf \in Bytes,
           b.stdin = a.stdin \o n.code, b.buf = a.buf, b.todo = a.todo, b.main = a.main,
           b.next = a.next, b.LEAVING = a.LEAVING
    PROVE  InputOk(c, b, d, v, g, i \o n.item)
<1>a. n.code \in Bytes /\ n.item \in Items
  BY HostTypes DEF Meanings
<1>0. PICK m \in Items, j \in Items : m = n.item /\ Joined(j, i, m)
  BY <1>a, JoinItems DEF Joined
<1>1. CASE ~Open(v)
  <2>1. Over(c, b, v, g, j)
    BY <1>0, <1>1, OverGrows DEF InputOk
  <2> QED BY <1>0, <1>1, <2>1 DEF InputOk, Joined
<1>2. CASE Open(v)
  <2>1. PICK w, t, e : Flow(c, a, d, v, g, i, w, t, e)
    BY <1>2 DEF InputOk, Flows
  <2>2. (Leaves(a) <=> Leaves(b)) /\ (Past(a) <=> Past(b))
    BY DEF Leaves, Past
  <2>3. ~Done(c, a, g, i, w, t)
    BY DEF Done, Settled
  <2>4. Coming(c, a, g, i, w, t) /\ e = "open"
    BY <2>1, <2>3 DEF Flow
  <2>5. Coming(c, b, g, j, w, t)
    <3>1. PICK x \in Items : Rest(c, a, x) /\ i = Sent(c, g, w, t) \o x
      BY <2>4 DEF Coming
    <3>2. PICK y \in Items : y = Sent(c, g, w, t)
      BY <2>1, SentJoins DEF Flow
    <3>a. Grouped(y, x, m)
      BY Group
    <3>3. (y \o x) \o m = y \o (x \o m) /\ x \o m \in Items
      BY <3>a DEF Grouped
    <3>4. j = Sent(c, g, w, t) \o (x \o m)
      BY <1>0, <3>1, <3>2, <3>3 DEF Joined
    <3>5. Rest(c, b, x \o m)
      <4>1. Carries(HostM, {}, a.buf \o a.stdin, x, "open") /\ a.buf \o a.stdin \in Bytes
        BY <3>1, JoinBytes DEF Rest
      <4>2. Carries(HostM, {}, (a.buf \o a.stdin) \o n.code, x \o n.item, "open")
        BY <4>1, CarriesMore
      <4>3. (a.buf \o a.stdin) \o n.code = a.buf \o (a.stdin \o n.code)
        BY <1>a, AssocBytes
      <4> QED BY <1>0, <4>2, <4>3 DEF Rest
    <3> QED BY <2>2, <2>4, <3>3, <3>4, <3>5 DEF Coming
  <2>6. Flow(c, b, d, v, g, j, w, t, e)
    BY <2>1, <2>2, <2>4, <2>5 DEF Flow
  <2> QED BY <1>0, <1>2, <2>6 DEF InputOk, Flows, Joined
<1> QED BY <1>1, <1>2

\* Nothing was given, sent or said.
LEMMA FreshOk ==
    ASSUME NEW c, NEW a, NEW v, a.stdin = <<>>, a.buf = <<>>, a.todo = <<>>,
           a.main = "off", v.at = "none", v.dec = <<>>
    PROVE  InputOk(c, a, <<>>, v, <<>>, <<>>)
<1>1. Sent(c, <<>>, <<>>, <<>>) = <<>>
  BY EmptyOnes, NoItems, KNothing DEF Sent
<1>2. Rest(c, a, <<>>)
  <2>1. <<>> \o <<>> = <<>>
    BY EmptyOnes, NoBytes
  <2> QED BY <2>1, NoInput, CarriesNothing DEF Rest
<1>3. Coming(c, a, <<>>, <<>>, <<>>, <<>>)
  <2>1. <<>> \o <<>> = <<>>
    BY EmptyOnes, NoItems
  <2> QED BY <1>1, <1>2, <2>1, EmptyOnes, NoKey DEF Coming, Leaves
<1>4. Carries(DownM, DownE, <<>> \o <<>>, <<>>, "open")
  <2>1. <<>> \o <<>> = <<>>
    BY EmptyOnes, NoBytes
  <2> QED BY <2>1, CarriesNothing
<1>5. Open(v) /\ v.dec \o <<>> = <<>> \o <<>>
  BY DEF Open
<1> QED BY <1>3, <1>4, <1>5, EmptyOnes, QueueNothing, ReadOn

-----------------------------------------------------------------------------
(* The output of a client: a is its attach, u the bytes on their way to it, *)
(* v the supervisor's thread for it, r what of the output was due to it     *)
(* so far and q whether that is all there will be.                          *)

\* What was due: what a terminal has shown, what is on its way to it, and
\* what it is not to have.
Line(r, x, w, z) == r = x \o (w \o z)
\* The terminal still reads.
Live(a) == a.main \notin {"off", "gone"} /\ a.out \in {"none", "run"}
Shows(a, u, v, r, q, w, z, e) ==
    /\ w \in Bytes /\ z \in Bytes /\ e \in Ends
    /\ Carries(UpM, UpE, a.dec \o u, w, e) /\ Line(r, a.screen, w, z)
    /\ v.at \in {"replayed", "serve"} => e = "open" /\ z = <<>>
    /\ v.at \in {"none", "hello"} => e = "open" /\ w = <<>> /\ a.screen = <<>>
    /\ e \in Reasons => z = <<>> /\ q
\* It was told why the session ended.
Knows(a) == a.said \in Reasons \/ a.ending["out"].said \in Reasons
OutputOk(a, u, v, r, q) ==
    /\ IsPrefix(a.screen, r)
    /\ Live(a) => \E w, z, e : Shows(a, u, v, r, q, w, z, e)
    /\ Knows(a) => a.screen = r /\ q /\ ~Live(a)

\* What is on its way is shown.
LEMMA LineShown ==
    ASSUME NEW r, NEW x \in Bytes, NEW p \in Bytes, NEW i \in Bytes, NEW z \in Bytes,
           Line(r, x, p \o i, z)
    PROVE  Line(r, x \o p, i, z)
<1>1. (p \o i) \o z = p \o (i \o z) /\ i \o z \in Bytes
  BY AssocBytes, JoinBytes
<1>2. PICK y \in Bytes : y = i \o z
  BY <1>1
<1>3. (x \o p) \o y = x \o (p \o y)
  BY AssocBytes
<1> QED BY <1>1, <1>2, <1>3 DEF Line
\* More is due.
LEMMA LineGrows ==
    ASSUME NEW r \in Bytes, NEW x \in Bytes, NEW w \in Bytes, NEW z \in Bytes, NEW o \in Bytes,
           Line(r, x, w, z)
    PROVE  Line(r \o o, x, w, z \o o) /\ (z = <<>> => Line(r \o o, x, w \o o, <<>>))
<1>1. w \o z \in Bytes /\ (w \o z) \o o = w \o (z \o o) /\ z \o o \in Bytes
  BY AssocBytes, JoinBytes
<1>2. PICK y \in Bytes : y = w \o z
  BY <1>1
<1>3. (x \o y) \o o = x \o (y \o o)
  BY AssocBytes
<1>4. Line(r \o o, x, w, z \o o)
  BY <1>1, <1>2, <1>3 DEF Line
<1>5. ASSUME z = <<>> PROVE Line(r \o o, x, w \o o, <<>>)
  <2>1. z \o o = o /\ w \o o \in Bytes
    BY <1>5, NoBytes, JoinBytes
  <2>2. (w \o o) \o <<>> = w \o o
    BY <2>1, NoBytes
  <2> QED BY <1>4, <2>1, <2>2 DEF Line
<1> QED BY <1>4, <1>5
\* What was shown is a front of it, and all of it when nothing is left.
LEMMA LineFront ==
    ASSUME NEW r \in Bytes, NEW x \in Bytes, NEW w \in Bytes, NEW z \in Bytes, Line(r, x, w, z)
    PROVE  IsPrefix(x, r) /\ (w = <<>> /\ z = <<>> => x = r)
<1>1. w \o z \in Bytes
  BY JoinBytes
<1>2. IsPrefix(x, x \o (w \o z))
  BY <1>1, PrefixOfJoin DEF Bytes
<1>3. ASSUME w = <<>>, z = <<>> PROVE x = r
  <2>1. w \o z = <<>>
    BY <1>3, NoBytes, EmptyOnes
  <2> QED BY <2>1, NoBytes DEF Line
<1> QED BY <1>2, <1>3 DEF Line
\* Nothing was shown.
LEMMA LineStarts == ASSUME NEW r \in Bytes PROVE Line(r, <<>>, <<>>, r) /\ Line(r, <<>>, r, <<>>)
<1>1. <<>> \o r = r /\ r \o <<>> = r
  BY NoBytes
<1> QED BY <1>1 DEF Line

\* A terminal that shows nothing more.
LEMMA ShownOk ==
    ASSUME NEW a, NEW b, NEW d, NEW u, NEW v, NEW x, NEW r, NEW q, NEW p, OutputOk(a, d, v, r, q),
           b.screen = a.screen, Live(b) => Live(a) /\ SameJoin(b.dec, u, a.dec, d),
           Knows(b) => Knows(a), q => p,
           \/ x.at = v.at \/ x.at \in {"gone", "detached"}
           \/ v.at = "none" /\ x.at = "hello"
    PROVE  OutputOk(b, u, x, r, p)
<1>1. ASSUME Live(b) PROVE \E w, z, e : Shows(b, u, x, r, p, w, z, e)
  <2>1. PICK w, z, e : Shows(a, d, v, r, q, w, z, e)
    BY <1>1 DEF OutputOk
  <2>2. Carries(UpM, UpE, b.dec \o u, w, e)
    BY <1>1, <2>1 DEF Shows, SameJoin
  <2>3. Shows(b, u, x, r, p, w, z, e)
    BY <2>1, <2>2 DEF Shows
  <2> QED BY <2>3
<1> QED BY <1>1 DEF OutputOk

\* A terminal that has nothing yet.
LEMMA FreshShown ==
    ASSUME NEW a, NEW v, NEW r \in Bytes, NEW q, a.screen = <<>>, a.dec = <<>>,
           v.at \in {"none", "hello"}, ~Knows(a)
    PROVE  OutputOk(a, <<>>, v, r, q)
<1>1. Carries(UpM, UpE, <<>> \o <<>>, <<>>, "open")
  BY CarriesNothing, NoBytes, EmptyOnes
<1>2. IsPrefix(<<>>, r)
  BY LineStarts, LineFront, EmptyOnes
<1>3. "open" \in Ends /\ "open" \notin Reasons
  BY TerminalAssumption DEF Ends
<1>4. Shows(a, <<>>, v, r, q, <<>>, r, "open")
  BY <1>1, <1>3, LineStarts, EmptyOnes DEF Shows
<1> QED BY <1>2, <1>4 DEF OutputOk

\* The last conditions on a client's attach and thread.
Taken(a, b) == b.main = a.main /\ b.out = a.out /\ b.said = a.said /\ b.ending = a.ending

\* A frame of output is shown.
LEMMA OutputFrameOk ==
    ASSUME NEW a, NEW b, NEW u \in Bytes, NEW v, NEW r \in Bytes, NEW q, OutputOk(a, u, v, r, q),
           a.dec \in Bytes, a.screen \in Bytes, Live(a), pop(a.dec).used # 0, pop(a.dec).kind = OUTPUT,
           Taken(a, b), b.dec = Skip(a.dec, pop(a.dec).used), b.screen = a.screen \o pop(a.dec).payload
    PROVE  OutputOk(b, u, v, r, q) /\ b.dec \in Bytes /\ b.screen \in Bytes
<1>1. PICK w, z, e : Shows(a, u, v, r, q, w, z, e)
  BY DEF OutputOk
<1>2. Carries(UpM, UpE, a.dec \o u, w, e) /\ w \in Bytes /\ z \in Bytes /\ Line(r, a.screen, w, z)
  BY <1>1 DEF Shows
<1>3. /\ b.dec \in Bytes /\ pop(a.dec).payload \in Bytes
      /\ \E i \in Items : /\ w = pop(a.dec).payload \o i
                          /\ Carries(UpM, UpE, b.dec \o u, i, e)
  BY <1>2, PopUp
<1>4. PICK p \in Bytes : p = pop(a.dec).payload
  BY <1>3
<1>5. PICK i \in Items : w = p \o i /\ Carries(UpM, UpE, b.dec \o u, i, e)
  BY <1>3, <1>4
<1>6. i \in Bytes
  <2>1. p \in Seq(Nat) /\ p \o i \in Seq(Nat) /\ i \in Seq(Things)
    BY <1>2, <1>4, <1>5 DEF Bytes, Items
  <2>2. \A n \in 1..Len(i) : i[n] \in Nat
    <3>1. \A n \in 1..Len(i) : (p \o i)[Len(p) + n] = i[n] /\ Len(p) + n \in 1..Len(p \o i)
      BY <2>1
    <3>2. \A n \in 1..Len(p \o i) : (p \o i)[n] \in Nat
      BY <2>1
    <3> QED BY <3>1, <3>2
  <2> QED BY <2>1, <2>2 DEF Bytes
<1>7. Line(r, b.screen, i, z) /\ b.screen \in Bytes
  BY <1>2, <1>4, <1>5, <1>6, LineShown, JoinBytes
<1>8. IsPrefix(b.screen, r)
  BY <1>2, <1>6, <1>7, LineFront
<1>9. v.at \in {"none", "hello"} => i = <<>> /\ b.screen = <<>>
  <2>1. p \o i = <<>> => p = <<>> /\ i = <<>>
    BY <1>4, <1>6 DEF Bytes
  <2>2. p = <<>> => b.screen = a.screen
    BY <1>4, NoBytes
  <2> QED BY <1>1, <1>5, <2>1, <2>2 DEF Shows
<1>12. e \in Ends /\ (v.at \in {"replayed", "serve"} => e = "open" /\ z = <<>>)
       /\ (v.at \in {"none", "hello"} => e = "open") /\ (e \in Reasons => z = <<>> /\ q)
  BY <1>1 DEF Shows
<1>10. Shows(b, u, v, r, q, i, z, e)
  BY <1>2, <1>5, <1>6, <1>7, <1>9, <1>12 DEF Shows
<1>11. ~Knows(b)
  BY DEF OutputOk, Knows, Taken
<1> QED BY <1>3, <1>7, <1>8, <1>10, <1>11 DEF OutputOk

\* The word that the session is over is read.
LEMMA ClosedFrameOk ==
    ASSUME NEW a, NEW b, NEW u \in Bytes, NEW v, NEW r \in Bytes, NEW q, OutputOk(a, u, v, r, q),
           a.dec \in Bytes, a.screen \in Bytes, Live(a), pop(a.dec).used # 0, pop(a.dec).kind = CLOSED,
           b.screen = a.screen, ~Live(b), b.said = a.said,
           b.ending["out"].said = Reason(pop(a.dec).payload)
    PROVE  /\ OutputOk(b, u, v, r, q) /\ Reason(pop(a.dec).payload) \in Reasons \cup {"protocol"}
           /\ Skip(a.dec, pop(a.dec).used) \in Bytes
<1>1. PICK w, z, e : Shows(a, u, v, r, q, w, z, e)
  BY DEF OutputOk
<1>2. Carries(UpM, UpE, a.dec \o u, w, e) /\ w \in Bytes /\ z \in Bytes /\ Line(r, a.screen, w, z)
  BY <1>1 DEF Shows
<1>3. /\ w = <<>> /\ e \in Reasons \cup {"protocol"} /\ Reason(pop(a.dec).payload) = e
      /\ Skip(a.dec, pop(a.dec).used) \in Bytes
  BY <1>2, PopUp
<1>4. e \in Reasons => a.screen = r /\ q
  <2>1. w = <<>> /\ z = <<>> => a.screen = r
    BY <1>2, LineFront
  <2> QED BY <1>1, <1>3, <2>1 DEF Shows
<1>5. ~Knows(a)
  BY DEF OutputOk
<1>6. Knows(b) => b.screen = r /\ q
  BY <1>3, <1>4, <1>5 DEF Knows
<1> QED BY <1>3, <1>6 DEF OutputOk

\* Output on its way.
Output(u, o) == IF o = <<>> THEN u ELSE u \o FlattenSeq(chunks(OUTPUT, o))

\* Output that is sent to a terminal is output it was not shown yet.
LEMMA SentOk ==
    ASSUME NEW a, NEW u \in Bytes, NEW v, NEW r \in Bytes, NEW q, NEW p, NEW o \in Bytes, o # <<>>,
           OutputOk(a, u, v, r, q), a.screen \in Bytes, a.dec \in Bytes, v.at = "serve", ~q,
           NEW x, x.at = v.at, NEW y, Joined(y, r, o)
    PROVE  OutputOk(a, Output(u, o), x, y, p) /\ Output(u, o) \in Bytes
<1>4. y = r \o o /\ Output(u, o) = u \o FlattenSeq(chunks(OUTPUT, o))
  BY DEF Joined, Output
<1>1. IsPrefix(a.screen, r \o o)
  BY PrefixGrows DEF OutputOk, Bytes
<1>0. FlattenSeq(chunks(OUTPUT, o)) \in Bytes
  BY ChunksCarried, CarriesNothing, EmptyOnes
<1>2. ASSUME Live(a) PROVE \E w, z, e : Shows(a, u \o FlattenSeq(chunks(OUTPUT, o)), x, r \o o, p, w, z, e)
  <2>1. PICK w, z, e : Shows(a, u, v, r, q, w, z, e)
    BY <1>2 DEF OutputOk
  <2>2. /\ w \in Bytes /\ z = <<>> /\ Line(r, a.screen, w, z) /\ e = "open"
        /\ Carries(UpM, UpE, a.dec \o u, w, e)
    BY <2>1 DEF Shows
  <2>3. Line(r \o o, a.screen, w \o o, <<>>) /\ w \o o \in Bytes
    BY <2>2, LineGrows, JoinBytes, EmptyOnes
  <2>4. w \in Items /\ a.dec \o u \in Bytes
    BY <2>2, CarriesType, MeaningTypes, JoinBytes
  <2>5. Carries(UpM, UpE, (a.dec \o u) \o FlattenSeq(chunks(OUTPUT, o)), w \o o, "open")
    BY <2>2, <2>4, ChunksCarried
  <2>6. (a.dec \o u) \o FlattenSeq(chunks(OUTPUT, o)) = a.dec \o (u \o FlattenSeq(chunks(OUTPUT, o)))
    BY <1>0, AssocBytes
  <2>7. Carries(UpM, UpE, a.dec \o (u \o FlattenSeq(chunks(OUTPUT, o))), w \o o, "open")
    BY <2>5, <2>6
  <2>8. e \notin Reasons
    BY <2>2, TerminalAssumption
  <2>9. Shows(a, u \o FlattenSeq(chunks(OUTPUT, o)), x, r \o o, p, w \o o, <<>>, "open")
    BY <2>1, <2>2, <2>3, <2>7, <2>8, EmptyOnes DEF Shows
  <2> QED BY <2>9
<1>3. u \o FlattenSeq(chunks(OUTPUT, o)) \in Bytes
  BY <1>0, JoinBytes
<1>5. OutputOk(a, u \o FlattenSeq(chunks(OUTPUT, o)), x, r \o o, p)
  BY <1>1, <1>2 DEF OutputOk
<1> QED BY <1>3, <1>4, <1>5

Nothing(s) == s = <<>>
\* At its hello a terminal is sent what is replayed to it.
LEMMA LateOk ==
    ASSUME NEW a, NEW u \in Bytes, NEW v, NEW x, NEW r \in Bytes, NEW q, NEW p, NEW m,
           Nothing(m), OutputOk(a, u, v, m, q), a.screen \in Bytes, a.dec \in Bytes, v.at = "hello",
           x.at = "replayed", ~q
    PROVE  OutputOk(a, Output(u, r), x, r, p) /\ Output(u, r) \in Bytes
<1> DEFINE f == Output(u, r)
<1>0. f = IF r = <<>> THEN u ELSE u \o FlattenSeq(chunks(OUTPUT, r))
  BY DEF Output
<1>9. OutputOk(a, u, v, <<>>, q)
  BY DEF Nothing
<1>1. r # <<>> => FlattenSeq(chunks(OUTPUT, r)) \in Bytes
  BY ChunksCarried, CarriesNothing, EmptyOnes
<1>2. f \in Bytes
  BY <1>0, <1>1, JoinBytes
<1>3. ASSUME Live(a) PROVE \E w, z, e : Shows(a, f, x, r, p, w, z, e)
  <2>1. PICK w, z, e : Shows(a, u, v, <<>>, q, w, z, e)
    BY <1>3, <1>9 DEF OutputOk
  <2>2. /\ w = <<>> /\ a.screen = <<>> /\ e = "open" /\ Carries(UpM, UpE, a.dec \o u, <<>>, "open")
    BY <2>1 DEF Shows
  <2>3. Carries(UpM, UpE, a.dec \o f, r, "open")
    <3>1. CASE r = <<>>
      BY <1>0, <2>2, <3>1
    <3>2. CASE r # <<>>
      <4>1. a.dec \o u \in Bytes /\ <<>> \in Items /\ <<>> \o r = r
        BY JoinBytes, EmptyOnes, NoBytes
      <4>2. Carries(UpM, UpE, (a.dec \o u) \o FlattenSeq(chunks(OUTPUT, r)), r, "open")
        BY <2>2, <3>2, <4>1, ChunksCarried
      <4>3. (a.dec \o u) \o FlattenSeq(chunks(OUTPUT, r)) = a.dec \o (u \o FlattenSeq(chunks(OUTPUT, r)))
        BY <1>1, <3>2, AssocBytes
      <4> QED BY <1>0, <3>2, <4>2, <4>3
    <3> QED BY <3>1, <3>2
  <2>4. Line(r, a.screen, r, <<>>)
    BY <2>2, LineStarts
  <2>5. "open" \in Ends /\ "open" \notin Reasons
    BY TerminalAssumption DEF Ends
  <2>6. Shows(a, f, x, r, p, r, <<>>, "open")
    BY <2>3, <2>4, <2>5, EmptyOnes DEF Shows
  <2> QED BY <2>6
<1>4. IsPrefix(a.screen, r)
  <2>1. a.screen = <<>>
    <3>1. PICK s \in Bytes : s = a.screen /\ IsPrefix(s, <<>>)
      BY <1>9 DEF OutputOk
    <3>2. Len(s) = 0
      BY <3>1 DEF IsPrefix, Bytes
    <3> QED BY <3>1, <3>2 DEF Bytes
  <2> QED BY <2>1, LineStarts, LineFront, EmptyOnes
<1>5. ~Knows(a)
  BY <1>9 DEF OutputOk
<1> QED BY <1>2, <1>3, <1>4, <1>5 DEF OutputOk

\* A terminal is told of the end, for a reason only when it was sent all.
Word(u, t) == u \o encode(CLOSED, <<Code(t)>>)

\* A terminal that is told of the end has been sent all, if it is given a reason.
LEMMA ToldOk ==
    ASSUME NEW a, NEW u \in Bytes, NEW v, NEW x, NEW r \in Bytes, NEW q, NEW p, OutputOk(a, u, v, r, q),
           NEW t \in Reasons \cup {"protocol"}, a.dec \in Bytes, v.at \in {"hello", "serve"},
           x.at = "gone", q => p, t \in Reasons => v.at = "serve" /\ p
    PROVE  OutputOk(a, Word(u, t), x, r, p) /\ Word(u, t) \in Bytes
<1>1. Told(t) \in UpE /\ Told(t).code = encode(CLOSED, <<Code(t)>>) /\ Told(t).end = t
  BY DEF UpE, Told
<1>2. Told(t).code \in Bytes /\ t \in Ends
  BY <1>1, MeaningTypes DEF Finals
<1>3. ASSUME Live(a) PROVE \E w, z, e : Shows(a, u \o Told(t).code, x, r, p, w, z, e)
  <2>1. PICK w, z, e : Shows(a, u, v, r, q, w, z, e)
    BY <1>3 DEF OutputOk
  <2>2. /\ e = "open" /\ Carries(UpM, UpE, a.dec \o u, w, "open") /\ (t \in Reasons => z = <<>>)
        /\ w \in Items /\ a.dec \o u \in Bytes
    <3>1. w \in Items
      BY <2>1, CarriesType, MeaningTypes DEF Shows
    <3> QED BY <2>1, <3>1, JoinBytes DEF Shows
  <2>3. Carries(UpM, UpE, (a.dec \o u) \o Told(t).code, w, t)
    BY <1>1, <2>2, CarriesLast
  <2>4. (a.dec \o u) \o Told(t).code = a.dec \o (u \o Told(t).code)
    BY <1>2, AssocBytes
  <2>5. Carries(UpM, UpE, a.dec \o (u \o Told(t).code), w, t)
    BY <2>3, <2>4
  <2>6. Shows(a, u \o Told(t).code, x, r, p, w, z, t)
    BY <1>2, <2>1, <2>2, <2>5 DEF Shows
  <2> QED BY <2>6
<1>4. OutputOk(a, u \o Told(t).code, x, r, p)
  BY <1>3 DEF OutputOk
<1>5. u \o Told(t).code \in Bytes /\ Word(u, t) = u \o Told(t).code
  BY <1>1, <1>2, JoinBytes DEF Word
<1> QED BY <1>4, <1>5

-----------------------------------------------------------------------------
(* The filter of a session: w is what its harness wrote, y what of it the   *)
(* supervisor has not read, f the filter and r what the ring was given.     *)
FilterOk(w, y, f, r) ==
    /\ w \in Seq(Tokens) /\ y \in Bytes /\ r \in Bytes /\ f \in Filters
    /\ f = Clear(f) /\ feed(f, y).state = "Ground"
    /\ Joined(DrawnOf(w), r, feed(f, y).out)

\* At the start.
LEMMA FilterStarts == FilterOk(<<>>, <<>>, VtFilter, <<>>)
<1>0. <<>> \in Bytes /\ <<>> \in Seq(Names)
  BY EmptyOnes
<1>1. VtFilter \in Filters /\ VtFilter = Clear(VtFilter) /\ VtFilter.out = <<>> /\ VtFilter.state = "Ground"
  <2>1. VtFilter \in Filters
    BY <1>0 DEF VtFilter, Filters, States
  <2>2. VtFilter.out = <<>> /\ VtFilter.dropped = <<>> /\ VtFilter.state = "Ground"
    BY DEF VtFilter
  <2>3. ASSUME NEW h \in Filters, h.out = <<>>, h.dropped = <<>>
        PROVE  h = Clear(h)
    BY <2>3 DEF Clear, Filters
  <2> QED BY <2>1, <2>2, <2>3
<1>2. feed(VtFilter, <<>>) = VtFilter
  BY <1>1, FeedNothing
<1>3. <<>> = <<>> \o <<>> /\ <<>> \in Seq(Tokens)
  BY NoBytes, EmptyOnes
<1> QED BY <1>1, <1>2, <1>3, DrawnNothing, EmptyOnes DEF FilterOk, Joined

\* Two chunks are as one, and a chunk is cut anywhere.
FedJoined(f, a, b) ==
    /\ feed(f, a \o b).out = feed(f, a).out \o feed(feed(f, a), b).out
    /\ feed(f, a \o b).state = feed(feed(f, a), b).state

\* The filter, of two chunks in turn, is as of the two at once.
LEMMA FeedTwice ==
    ASSUME NEW f \in Filters, NEW a \in Bytes, NEW b \in Bytes PROVE FedJoined(f, a, b)
BY FeedJoins DEF FedJoined
\* Bytes, cut.
LEMMA CutBytes ==
    ASSUME NEW s \in Bytes, NEW n \in Nat
    PROVE  Take(s, n) \in Bytes /\ Skip(s, n) \in Bytes /\ Joined(s, Take(s, n), Skip(s, n))
BY TakeSkip DEF Bytes, Joined
\* And three of them, joined.
JoinedOn(x, y, z) == (x \o y) \o z = x \o (y \o z) /\ x \o y \in Bytes

\* Joining is associative, and stays among the bytes.
LEMMA JoinOn ==
    ASSUME NEW x \in Bytes, NEW y \in Bytes, NEW z \in Bytes PROVE JoinedOn(x, y, z)
<1>1. (x \o y) \o z = x \o (y \o z)
  BY AssocBytes
<1>2. x \o y \in Bytes
  BY JoinBytes
<1> QED BY <1>1, <1>2 DEF JoinedOn

\* A cleared filter does what the filter does.
LEMMA FeedCleared ==
    ASSUME NEW f \in Filters, NEW b \in Bytes
    PROVE  /\ feed(Clear(f), b).out = feed(f, b).out
           /\ feed(Clear(f), b).state = feed(f, b).state
<1>1. Clear(f) \in Filters /\ Clear(f).out = <<>> /\ Clear(Clear(f)) = Clear(f)
  BY ClearType
<1>2. PICK g \in Filters : g = Clear(f) /\ Clear(g) = g /\ g.out = <<>>
  BY <1>1
<1>3. <<>> \o <<>> = <<>> /\ <<>> \o b = b /\ <<>> \in Bytes
  BY EmptyOnes, NoBytes
<1>4. Same(g, g, <<>>)
  BY <1>2, <1>3 DEF Same, Ahead, Held, Strs
<1>5. Same(feed(f, <<>>), Clear(g), <<>>)
  BY <1>2, <1>4, FeedNothing
<1>6. Same(feed(f, b), feed(g, b), <<>>)
  BY <1>3, <1>5, FeedAhead
<1>7. feed(g, b) \in Filters /\ feed(f, b).out = <<>> \o feed(g, b).out /\ feed(f, b).state = feed(g, b).state
  BY <1>6 DEF Same, Ahead
<1>8. feed(g, b).out \in Bytes
  BY <1>7 DEF Filters
<1> QED BY <1>2, <1>7, <1>8, NoBytes

\* The harness writes.
LEMMA FilterWrites ==
    ASSUME NEW w, NEW y, NEW f, NEW r, FilterOk(w, y, f, r), NEW tok \in Tokens
    PROVE  FilterOk(Append(w, tok), y \o tok.bytes, f, r)
<1>1. /\ w \in Seq(Tokens) /\ y \in Bytes /\ r \in Bytes /\ f \in Filters /\ f = Clear(f)
      /\ feed(f, y).state = "Ground" /\ Joined(DrawnOf(w), r, feed(f, y).out)
  BY DEF FilterOk
<1>2. tok.bytes \in Bytes /\ tok.drawn \in Bytes
  BY TokensAssumption DEF Bytes
<1>3. feed(VtFilter, tok.bytes).out = tok.drawn /\ feed(VtFilter, tok.bytes).state = "Ground"
  BY TokensAssumption
<1>4. VtFilter \in Filters /\ VtFilter.state = "Ground"
  BY FilterStarts DEF FilterOk, VtFilter
<1>5. PICK g \in Filters : g = feed(f, y)
  BY <1>1, FeedSame
<1>6. feed(g, tok.bytes).out = tok.drawn /\ feed(g, tok.bytes).state = "Ground"
  BY <1>1, <1>2, <1>3, <1>4, <1>5, FeedSame
<1>7. /\ feed(f, y \o tok.bytes).out = g.out \o tok.drawn /\ feed(f, y \o tok.bytes).state = "Ground"
  <2>1. FedJoined(f, y, tok.bytes)
    BY <1>1, <1>2, FeedTwice
  <2> QED BY <1>5, <1>6, <2>1 DEF FedJoined
<1>8. g.out \in Bytes
  BY DEF Filters
<1>9. (r \o g.out) \o tok.drawn = r \o (g.out \o tok.drawn)
  BY <1>1, <1>2, <1>8, AssocBytes
<1>10. DrawnOf(Append(w, tok)) = DrawnOf(w) \o tok.drawn
  BY <1>1, DrawnMore
<1>11. Joined(DrawnOf(Append(w, tok)), r, feed(f, y \o tok.bytes).out)
  BY <1>1, <1>5, <1>7, <1>9, <1>10 DEF Joined
<1>12. Append(w, tok) \in Seq(Tokens) /\ y \o tok.bytes \in Bytes
  BY <1>1, <1>2, JoinBytes
<1> QED BY <1>1, <1>7, <1>11, <1>12 DEF FilterOk

\* The supervisor reads.
LEMMA FilterReads ==
    ASSUME NEW w, NEW y, NEW f, NEW r, FilterOk(w, y, f, r), NEW n \in Nat,
           NEW v, Joined(v, r, feed(f, Take(y, n)).out)
    PROVE  FilterOk(w, Skip(y, n), Clear(feed(f, Take(y, n))), v)
<1>1. /\ w \in Seq(Tokens) /\ y \in Bytes /\ r \in Bytes /\ f \in Filters
      /\ feed(f, y).state = "Ground" /\ Joined(DrawnOf(w), r, feed(f, y).out)
  BY DEF FilterOk
<1>2. PICK x \in Bytes, z \in Bytes : x = Take(y, n) /\ z = Skip(y, n) /\ Joined(y, x, z)
  BY <1>1, CutBytes
<1>3. PICK h \in Filters : h = feed(f, x)
  BY <1>1, FeedSame
<1>4. PICK g \in Filters : g = Clear(h) /\ g = Clear(g)
  BY ClearType
<1>5. feed(g, z).out = feed(h, z).out /\ feed(g, z).state = feed(h, z).state
  BY <1>4, FeedCleared
<1>6. feed(f, y).out = h.out \o feed(g, z).out /\ feed(g, z).state = "Ground"
  <2>1. FedJoined(f, x, z)
    BY <1>1, FeedTwice
  <2> QED BY <1>1, <1>2, <1>3, <1>5, <2>1 DEF FedJoined, Joined
<1>7. h.out \in Bytes /\ feed(g, z).out \in Bytes
  <2>1. feed(g, z) \in Filters
    BY FeedSame
  <2> QED BY <2>1 DEF Filters
<1>8. (r \o h.out) \o feed(g, z).out = r \o (h.out \o feed(g, z).out) /\ r \o h.out \in Bytes
  <2>1. JoinedOn(r, h.out, feed(g, z).out)
    BY <1>1, <1>7, JoinOn
  <2> QED BY <2>1 DEF JoinedOn
<1>9. Joined(DrawnOf(w), r \o h.out, feed(g, z).out)
  BY <1>1, <1>6, <1>8 DEF Joined
<1>10. FilterOk(w, z, g, r \o h.out)
  BY <1>1, <1>4, <1>6, <1>8, <1>9 DEF FilterOk
<1>11. v = r \o h.out
  BY <1>2, <1>3 DEF Joined
<1> QED BY <1>2, <1>3, <1>4, <1>10, <1>11

\* What the ring was given is a front of what was drawn, and all of it when
\* nothing is left to read.
LEMMA FilterShows ==
    ASSUME NEW w, NEW y, NEW f, NEW r, FilterOk(w, y, f, r)
    PROVE  \E z \in Bytes : /\ r \in Bytes /\ Joined(DrawnOf(w), r, z)
                            /\ y = <<>> => r = DrawnOf(w)
<1>1. /\ y \in Bytes /\ r \in Bytes /\ f \in Filters /\ f = Clear(f)
      /\ Joined(DrawnOf(w), r, feed(f, y).out)
  BY DEF FilterOk
<1>2. feed(f, y) \in Filters /\ f.out = <<>>
  BY <1>1, FeedSame, ClearType
<1>3. feed(f, y).out \in Bytes
  BY <1>2 DEF Filters
<1>5. ASSUME y = <<>> PROVE r = DrawnOf(w)
  BY <1>1, <1>2, <1>5, FeedNothing, NoBytes DEF Joined
<1> QED BY <1>1, <1>3, <1>5

-----------------------------------------------------------------------------
(* What of a session's output is due to a client: v is the supervisor's     *)
(* thread for it, y what the ring was given and f what of that is not yet   *)
(* on its way.                                                              *)
DueOf(v, y) == Skip(Take(y, v.upto), v.from) \o Skip(y, v.since)
\* The end of y.
EndOf(f, y) == Len(f) <= Len(y) /\ f = Skip(y, Len(y) - Len(f))
SeamOk(v, y, f) ==
    /\ v.at \in {"none", "hello"} => v.due = <<>>
    /\ v.at = "replayed" => v.due = Skip(Take(y, v.upto), v.from)
    /\ v.at = "serve" => Joined(DueOf(v, y), v.due, f)
    /\ v.upto <= Len(y) /\ v.since <= Len(y) /\ IsPrefix(v.due, DueOf(v, y))

\* More output is behind a place in it.
LEMMA CutsGrow ==
    ASSUME NEW y \in Bytes, NEW o \in Bytes, NEW n \in Nat, n <= Len(y)
    PROVE  /\ Take(y \o o, n) = Take(y, n)
           /\ Joined(Skip(y \o o, n), Skip(y, n), o)
           /\ n <= Len(y \o o)
<1>1. PICK z \in Bytes : z = y \o o
  BY JoinBytes
<1>2. Len(y) \in Nat /\ Len(o) \in Nat /\ Len(z) \in Nat /\ Len(z) = Len(y) + Len(o)
  BY <1>1, Joins DEF Bytes
<1>3. n <= Len(z)
  BY <1>2
<1>4. PICK t \in Bytes, p \in Bytes : /\ t = Take(y, n) /\ p = Skip(y, n) /\ Len(t) = n
                                    /\ Joined(y, t, p)
  BY <1>2, TakeSkip DEF Bytes, Joined
<1>5. PICK u \in Bytes, q \in Bytes : /\ u = Take(z, n) /\ q = Skip(z, n) /\ Len(u) = n
                                    /\ Joined(z, u, q)
  <2>1. PICK m \in Nat : m = Len(z) /\ n <= m
    BY <1>2, <1>3
  <2>2. PICK u \in Bytes, q \in Bytes : u = Take(z, n) /\ q = Skip(z, n) /\ Joined(z, u, q)
    BY CutBytes
  <2>3. Len(u) = IF n < m THEN n ELSE m
    BY <2>1, <2>2, TakeSkip DEF Bytes
  <2>4. Len(u) = n
    BY <2>1, <2>3
  <2> QED BY <2>2, <2>4
<1>6. PICK r \in Bytes : r = p \o o
  BY JoinBytes
<1>7. Joined(z, t, r)
  <2>1. JoinedOn(t, p, o)
    BY JoinOn
  <2> QED BY <1>1, <1>4, <1>6, <2>1 DEF JoinedOn, Joined
<1>8. t = u /\ r = q
  <2>1. t \o r = u \o q
    BY <1>5, <1>7 DEF Joined
  <2> QED BY <1>4, <1>5, <2>1, Splits DEF Bytes
<1> QED BY <1>1, <1>3, <1>4, <1>5, <1>6, <1>8 DEF Joined

\* What is due is bytes, and grows by what comes.
LEMMA DueGrows ==
    ASSUME NEW v \in Servers, NEW y \in Bytes, NEW o \in Bytes,
           v.upto <= Len(y), v.since <= Len(y)
    PROVE  /\ DueOf(v, y) \in Bytes /\ Joined(DueOf(v, y \o o), DueOf(v, y), o)
           /\ Take(y \o o, v.upto) = Take(y, v.upto)
           /\ v.upto <= Len(y \o o) /\ v.since <= Len(y \o o)
<1>1. v.upto \in Nat /\ v.from \in Nat /\ v.since \in Nat
  BY DEF Servers
<1>2. /\ Take(y \o o, v.upto) = Take(y, v.upto) /\ v.upto <= Len(y \o o)
      /\ Joined(Skip(y \o o, v.since), Skip(y, v.since), o) /\ v.since <= Len(y \o o)
  BY <1>1, CutsGrow
<1>3. PICK p \in Bytes, q \in Bytes : p = Skip(Take(y, v.upto), v.from) /\ q = Skip(y, v.since)
  <2>1. PICK t \in Bytes : t = Take(y, v.upto)
    BY <1>1, CutBytes
  <2>2. Skip(t, v.from) \in Bytes /\ Skip(y, v.since) \in Bytes
    BY <1>1, CutBytes
  <2> QED BY <2>1, <2>2
<1>4. JoinedOn(p, q, o)
  BY JoinOn
<1>5. DueOf(v, y) = p \o q
  BY <1>3 DEF DueOf
<1>6. DueOf(v, y \o o) = p \o (q \o o)
  BY <1>2, <1>3 DEF DueOf, Joined
<1> QED BY <1>2, <1>4, <1>5, <1>6 DEF JoinedOn, Joined

\* What a step of a client's thread leaves alone that is no part of its hello.
SameDue(v, x) == x.due = v.due /\ x.from = v.from /\ x.upto = v.upto /\ x.since = v.since
\* Then what is due to it is as it was.
LEMMA SeamStill ==
    ASSUME NEW v, NEW x, NEW y, NEW f, SeamOk(v, y, f), SameDue(v, x),
           \/ x.at = v.at \/ x.at \in {"gone", "detached"}
           \/ v.at = "none" /\ x.at = "hello"
    PROVE  SeamOk(x, y, f) /\ DueOf(x, y) = DueOf(v, y)
BY DEF SeamOk, SameDue, DueOf

\* No output was ever due.
LEMMA SeamStarts ==
    ASSUME NEW y \in Bytes, NEW f
    PROVE  SeamOk(Unserved, y, f) /\ Unserved \in Servers
<1>1. Unserved \in Servers
  BY EmptyOnes DEF Unserved, Servers
<1>2. PICK v \in Servers : v = Unserved
  BY <1>1
<1>3. v.at = "none" /\ v.due = <<>> /\ v.upto = 0 /\ v.since = 0
  BY <1>2 DEF Unserved
<1>4. 0 <= Len(y)
  BY DEF Bytes
<1>5. PICK d \in Bytes : d = DueOf(v, y)
  BY <1>3, <1>4, EmptyOnes, DueGrows
<1>6. IsPrefix(<<>>, d)
  BY LineStarts, LineFront, EmptyOnes
<1> QED BY <1>1, <1>2, <1>3, <1>4, <1>5, <1>6 DEF SeamOk

\* More is pushed to the ring, and waits.
LEMMA SeamReads ==
    ASSUME NEW v \in Servers, NEW y \in Bytes, NEW o \in Bytes, SeamOk(v, y, <<>>)
    PROVE  SeamOk(v, y \o o, o)
<1>1. v.upto <= Len(y) /\ v.since <= Len(y) /\ v.due \in Bytes
  BY DEF SeamOk, Servers
<1>2. PICK d \in Bytes, e \in Bytes : d = DueOf(v, y) /\ e = DueOf(v, y \o o)
  BY <1>1, DueGrows, JoinBytes DEF Joined
<1>3. /\ e = d \o o /\ Take(y \o o, v.upto) = Take(y, v.upto)
      /\ v.upto <= Len(y \o o) /\ v.since <= Len(y \o o)
  BY <1>1, <1>2, DueGrows DEF Joined
<1>4. IsPrefix(v.due, e)
  BY <1>1, <1>2, <1>3, PrefixGrows DEF SeamOk, Bytes
<1>5. v.at = "serve" => d = v.due
  BY <1>1, <1>2, NoBytes DEF SeamOk, Joined
<1>6. v.at = "serve" => Joined(e, v.due, o)
  BY <1>3, <1>5 DEF Joined
<1> QED BY <1>2, <1>3, <1>4, <1>6 DEF SeamOk
\* It waits at the end of the ring.
LEMMA EndWaits ==
    ASSUME NEW y \in Bytes, NEW o \in Bytes
    PROVE  EndOf(o, y \o o) /\ EndOf(<<>>, y)
<1>1. /\ Len(y) \in Nat /\ Len(o) \in Nat /\ Len(y \o o) = Len(y) + Len(o)
      /\ Len(y) <= Len(y)
  BY Joins DEF Bytes
<1>2. Joined(Skip(y \o o, Len(y)), Skip(y, Len(y)), o)
  BY <1>1, CutsGrow
<1>3. Skip(y, Len(y)) = <<>>
  BY <1>1, SubSeqEmpty DEF Skip
<1>4. Skip(y \o o, Len(y)) = o
  BY <1>2, <1>3, NoBytes DEF Joined
<1>5. Len(y \o o) - Len(o) = Len(y) /\ Len(o) <= Len(y \o o)
  BY <1>1
<1>6. EndOf(o, y \o o)
  BY <1>4, <1>5 DEF EndOf
<1>7. Len(<<>>) = 0 /\ Len(y) - 0 = Len(y) /\ 0 <= Len(y)
  BY <1>1
<1> QED BY <1>3, <1>6, <1>7 DEF EndOf

\* What waited is sent.
LEMMA SeamSends ==
    ASSUME NEW v \in Servers, NEW y \in Bytes, NEW o \in Bytes, SeamOk(v, y, o),
           v.at = "serve", NEW x, NEW d \in Bytes, Joined(d, v.due, o), x.due = d,
           x.at = v.at, x.upto = v.upto, x.from = v.from, x.since = v.since
    PROVE  SeamOk(x, y, <<>>)
<1>1. v.upto <= Len(y) /\ v.since <= Len(y) /\ v.due \in Bytes /\ Joined(DueOf(v, y), v.due, o)
  BY DEF SeamOk, Servers
<1>2. d = v.due \o o
  BY DEF Joined
<1>4. /\ x.due = d /\ x.upto = v.upto /\ x.from = v.from /\ x.since = v.since /\ x.at = v.at
  OBVIOUS
<1>5. DueOf(x, y) = d
  BY <1>1, <1>2, <1>4 DEF DueOf, Joined
<1>6. IsPrefix(d, d \o <<>>) /\ d \o <<>> = d
  BY NoBytes, EmptyOnes, PrefixOfJoin DEF Bytes
<1> QED BY <1>1, <1>2, <1>4, <1>5, <1>6 DEF SeamOk, Joined
\* And is nothing to the others.
LEMMA SeamUnsent ==
    ASSUME NEW v, NEW y, NEW o, NEW f, SeamOk(v, y, o), v.at # "serve"
    PROVE  SeamOk(v, y, f)
BY DEF SeamOk

\* A replay: a suffix of what the ring was given.
LEMMA SeamReplays ==
    ASSUME NEW y \in Bytes, NEW f, NEW o \in Bytes, EndOf(o, y), NEW x \in Servers,
           x.at = "replayed", x.due = o, x.upto = Len(y), x.from = Len(y) - Len(o), x.since = 0
    PROVE  SeamOk(x, y, f)
<1>1. Len(y) \in Nat /\ Len(o) \in Nat /\ Len(o) <= Len(y) /\ o = Skip(y, Len(y) - Len(o))
  BY DEF Bytes, EndOf
<1>2. Take(y, Len(y)) = y
  <2>1. y \in Seq(Nat)
    BY DEF Bytes
  <2> QED BY <1>1, <2>1, SubSeqFull DEF Take
<1>3. PICK q \in Bytes : q = Skip(y, 0)
  BY CutBytes
<1>4. DueOf(x, y) = o \o q
  BY <1>1, <1>2, <1>3 DEF DueOf
<1>5. IsPrefix(o, o \o q)
  BY PrefixOfJoin DEF Bytes
<1> QED BY <1>1, <1>2, <1>4, <1>5 DEF SeamOk
\* Its place in the list: what waits is sent to it too.
LEMMA SeamRegisters ==
    ASSUME NEW v \in Servers, NEW y \in Bytes, NEW f \in Bytes, SeamOk(v, y, f), EndOf(f, y),
           v.at = "replayed", NEW n \in Nat, n = Len(y) - Len(f), NEW x,
           x.at = "serve", x.due = v.due, x.upto = v.upto, x.from = v.from, x.since = n
    PROVE  SeamOk(x, y, f)
<1>1. Len(y) \in Nat /\ Len(f) \in Nat /\ Len(f) <= Len(y) /\ f = Skip(y, Len(y) - Len(f))
  BY DEF Bytes, EndOf
<1>2. n <= Len(y)
  BY <1>1
<1>4. v.due \in Bytes
  BY DEF Servers
<1>5. DueOf(x, y) = v.due \o f
  BY <1>1, <1>2, <1>4 DEF DueOf, SeamOk
<1>6. IsPrefix(v.due, v.due \o f)
  BY <1>4, PrefixOfJoin DEF Bytes
<1>7. x.upto <= Len(y)
  BY <1>4 DEF SeamOk
<1> QED BY <1>2, <1>4, <1>5, <1>6, <1>7 DEF SeamOk, Joined

\* A client that was sent what is due to it was sent a front of what it is to
\* see, and all of it when nothing is left to read.
LEMMA SeamShows ==
    ASSUME NEW v \in Servers, NEW y \in Bytes, NEW f, SeamOk(v, y, f),
           NEW o \in Bytes, NEW t, Joined(t, y, o), NEW x \in Bytes, IsPrefix(x, v.due)
    PROVE  IsPrefix(x, DueOf(v, t))
<1>1. v.upto <= Len(y) /\ v.since <= Len(y) /\ v.due \in Bytes /\ IsPrefix(v.due, DueOf(v, y))
  BY DEF SeamOk, Servers
<1>2. PICK d \in Bytes, e \in Bytes : d = DueOf(v, y) /\ e = DueOf(v, t) /\ e = d \o o
  <2>1. PICK z : z = y \o o /\ t = z
    BY DEF Joined
  <2>2. DueOf(v, y) \in Bytes /\ Joined(DueOf(v, y \o o), DueOf(v, y), o)
    BY <1>1, DueGrows
  <2> QED BY <2>1, <2>2, JoinBytes DEF Joined
<1>4. IsPrefix(x, d)
  <2>1. PICK u \in Bytes : u = v.due /\ IsPrefix(x, u) /\ IsPrefix(u, d)
    BY <1>1, <1>2
  <2> QED BY <2>1, PrefixOn DEF Bytes
<1> QED BY <1>2, <1>4, PrefixGrows DEF Bytes
=============================================================================
