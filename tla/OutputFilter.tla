----------------------------- MODULE OutputFilter -----------------------------
(***************************************************************************)
(* The filter between the PTY and the terminals (willie-sess:              *)
(* vt_filter.rs): a byte automaton that withholds the escape sequences     *)
(* which act on the host and forwards the rest.  It keeps its state        *)
(* between reads, because a sequence may be split over two of them.  Bytes *)
(* are numbers, as the code compares them; the filter's state, what it     *)
(* has forwarded and the names of what it dropped are one record.          *)
(***************************************************************************)
EXTENDS Integers, Sequences, SequencesExt

CONSTANTS
    OSC_ID_CAP, CSI_CAP,    \* bytes held while a sequence is identified
    U32_MAX                 \* where a number saturates

ASSUME FilterAssumption == {OSC_ID_CAP, CSI_CAP, U32_MAX} \subseteq Nat

BEL == 7
ESC == 27
DEL == 127
C2 == 194
\* The C0 controls less CAN, SUB and ESC: those inside a sequence leave it open.
C0 == (0..31) \ {24, 26, ESC}
digit(b) == b \in 48..57
parameter(b) == b \in 32..63
final(b) == b \in 64..126
continuation(b) == b \in 128..191

VtFilter == [state |-> "Ground", buf |-> <<>>, csi_over |-> FALSE,
             osc_num |-> 0, osc_seen |-> FALSE, osc_over |-> FALSE,
             dcs_over |-> FALSE, str_drop |-> FALSE, str_bel |-> FALSE,
             out |-> <<>>, dropped |-> <<>>]

In(f, state) == [f EXCEPT !.state = state]
Forward(f, bytes) == [f EXCEPT !.out = @ \o bytes]
Drop(f, name) == IF name = "" THEN f ELSE [f EXCEPT !.dropped = Append(@, name)]

\* Seeded fault: the number of the sequence before is kept.
open_keeps_number(f, introducer, state) ==
    [f EXCEPT !.state = state, !.buf = introducer, !.csi_over = FALSE,
              !.osc_over = FALSE, !.dcs_over = FALSE]
open(f, introducer, state) ==
    [f EXCEPT !.state = state, !.buf = introducer, !.csi_over = FALSE,
              !.osc_num = 0, !.osc_seen = FALSE, !.osc_over = FALSE,
              !.dcs_over = FALSE]

enter_str(f, drop, bel) ==
    [f EXCEPT !.state = "Str", !.str_drop = drop, !.str_bel = bel, !.buf = <<>>]

-----------------------------------------------------------------------------
(* What acts on the host: the name of its class, "" when it passes.         *)
saturating(n, b) == IF 10 * n + b - 48 > U32_MAX THEN U32_MAX ELSE 10 * n + b - 48

\* A `t` final: `>` sets the title modes; of the window operations, named by
\* the first number, only the reports of a fixed form pass.
csi_decision(prefix, b) ==
    LET content == SubSeq(prefix, 3, Len(prefix))
        start == SelectInSeq(content, LAMBDA c : c \notin {60, 61, 63})
        rest == SubSeq(content, IF start = 0 THEN Len(content) + 1 ELSE start,
                       Len(content))
        stop == SelectInSeq(rest, LAMBDA c : ~digit(c))
        num == FoldLeft(saturating, 0, IF stop = 0 THEN rest ELSE SubSeq(rest, 1, stop - 1))
    IN  IF b # 116 THEN ""
        ELSE IF content # <<>> /\ content[1] = 62 THEN "title"
        ELSE IF num \in {11, 13, 14, 16, 18, 19} THEN "" ELSE "window"

\* No number is read as the number 0.
osc_decision(seen, num) ==
    LET n == IF seen THEN num ELSE 0
    IN  IF n = 52 THEN "clipboard" ELSE IF n \in 0..2 THEN "title" ELSE ""

-----------------------------------------------------------------------------
(* One byte in each state.  A byte that ends a state is handed to another;  *)
(* the operators are in the order of those hand-overs.                      *)
Ground(f, b) ==
    CASE b = ESC -> In(f, "Esc")
      [] b = C2  -> In(f, "Utf8C2")
      [] OTHER   -> Forward(In(f, "Ground"), <<b>>)

Utf8C2(f, b) ==
    CASE b = 155 -> open(f, <<C2, 155>>, "Csi")
      [] b = 157 -> open(f, <<C2, 157>>, "OscId")
      [] b = 144 -> open(f, <<C2, 144>>, "DcsId")
      [] continuation(b) /\ b \notin {144, 155, 157} ->
            Forward(In(f, "Ground"), <<C2, b>>)
      [] OTHER -> Ground(Forward(f, <<C2>>), b)

Esc(f, b) ==
    CASE b = 91 -> open(f, <<ESC, 91>>, "Csi")
      [] b = 93 -> open(f, <<ESC, 93>>, "OscId")
      [] b = 80 -> open(f, <<ESC, 80>>, "DcsId")
      [] OTHER  -> Ground(Forward(f, <<ESC>>), b)

\* The buffer freezes at its cap; what is over it can no longer be forwarded.
csi_held(f, b) ==
    IF f.csi_over THEN f
    ELSE [f EXCEPT !.buf = Append(@, b), !.csi_over = Len(f.buf) + 1 >= CSI_CAP]
csi_closed(f) == [f EXCEPT !.buf = <<>>, !.csi_over = FALSE, !.state = "Ground"]

Csi(f, b) ==
    CASE final(b) ->
            LET name == csi_decision(f.buf, b)
            IN  csi_closed(IF name # "" \/ f.csi_over THEN Drop(f, name)
                           ELSE Forward(f, Append(f.buf, b)))
      [] parameter(b) -> csi_held(f, b)
      [] b \in C0 -> Forward(f, <<b>>)
      [] b = DEL -> f
      [] OTHER -> Ground(csi_closed(IF f.csi_over THEN f ELSE Forward(f, f.buf)), b)

Str(f, b) ==
    CASE b = ESC -> In(f, "StrEsc")
      [] b = C2 -> In(f, "StrC2")
      [] OTHER -> LET g == IF f.str_drop THEN f ELSE Forward(f, <<b>>)
                  IN  IF b = BEL /\ f.str_bel THEN In(g, "Ground") ELSE In(g, "Str")

StrEsc(f, b) ==
    IF b # 92 THEN Esc(f, b)
    ELSE In(IF f.str_drop THEN f ELSE Forward(f, <<ESC, b>>), "Ground")

StrC2(f, b) ==
    IF continuation(b)
      THEN In(IF f.str_drop THEN f ELSE Forward(f, <<C2, b>>),
              IF b = 156 THEN "Ground" ELSE "Str")
      ELSE Str(IF f.str_drop THEN f ELSE Forward(f, <<C2>>), b)

osc_digit(f, b) ==
    LET g == [f EXCEPT !.osc_seen = TRUE, !.osc_num = saturating(@, b)]
    IN  IF f.osc_over THEN g
        ELSE [g EXCEPT !.buf = Append(@, b), !.osc_over = Len(f.buf) + 1 >= OSC_ID_CAP]

OscId(f, b) ==
    LET name == osc_decision(f.osc_seen, f.osc_num)
        over == enter_str(Drop(f, name), TRUE, TRUE)
    IN  CASE digit(b) -> osc_digit(f, b)
          [] b \in (C0 \ {BEL}) \cup {DEL} -> f
          [] OTHER -> IF name = "" /\ ~f.osc_over
                        THEN Str(enter_str(Forward(f, f.buf), FALSE, TRUE), b)
                      ELSE IF b \in {BEL, ESC, C2} THEN Str(over, b) ELSE over

DcsId(f, b) ==
    LET echo == enter_str(Drop(f, "query_echo"), TRUE, FALSE)
    IN  CASE parameter(b) ->
                IF f.dcs_over THEN f
                ELSE [f EXCEPT !.buf = Append(@, b),
                               !.dcs_over = Len(f.buf) + 1 >= OSC_ID_CAP]
          [] final(b) ->
                IF f.dcs_over \/ (b = 113 /\ Last(f.buf) \in {36, 43}) THEN echo
                ELSE enter_str(Forward(f, Append(f.buf, b)), FALSE, FALSE)
          [] b \in C0 \cup {DEL} -> f
          [] OTHER -> Str(IF f.dcs_over THEN echo
                          ELSE enter_str(Forward(f, f.buf), FALSE, FALSE), b)

step(f, b) ==
    CASE f.state = "Ground" -> Ground(f, b)
      [] f.state = "Utf8C2" -> Utf8C2(f, b)
      [] f.state = "Esc"    -> Esc(f, b)
      [] f.state = "Csi"    -> Csi(f, b)
      [] f.state = "OscId"  -> OscId(f, b)
      [] f.state = "DcsId"  -> DcsId(f, b)
      [] f.state = "Str"    -> Str(f, b)
      [] f.state = "StrEsc" -> StrEsc(f, b)
      [] f.state = "StrC2"  -> StrC2(f, b)

\* One chunk: what was forwarded and dropped for the one before is cleared.
feed(f, input) ==
    LET after[n \in 0..Len(input)] ==
            IF n = 0 THEN [f EXCEPT !.out = <<>>, !.dropped = <<>>]
            ELSE step(after[n - 1], input[n])
    IN  after[Len(input)]
=============================================================================
