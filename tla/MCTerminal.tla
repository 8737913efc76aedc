----------------------------- MODULE MCTerminal -----------------------------
EXTENDS Terminal, TLC
Perms == Permutations(Hosts) \cup Permutations(Sessions)
\* A hyperlink (OSC 8) after a title (OSC 0); a colour and a size report
\* around a window operation (CSI t); an image and a query (DCS).
Link == <<ESC, 93, 56, 59, C2, 156>>
Title == <<ESC, 93, 48, 59, BEL>>
Colour == <<ESC, 91, 49, 109>>
Report == <<C2, 155, 49, 56, 116>>
Window == <<ESC, 91, 50, 116>>
Image == <<ESC, 80, 113, 97, ESC, 92>>
Ask == <<C2, 144, 36, 113, 97, ESC, 92>>
SmallTokens == {[bytes |-> Title \o Link, drawn |-> Link],
                [bytes |-> Colour \o Window \o Report, drawn |-> Colour \o Report],
                [bytes |-> Image \o Ask, drawn |-> Image]}
SmallKeys == {<<97, 98, 99, 100, 101, 102, DETACH_KEY, 103>>}
=============================================================================
