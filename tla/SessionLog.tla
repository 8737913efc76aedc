----------------------------- MODULE SessionLog -----------------------------
(***************************************************************************)
(* willie-core/src/session.rs: what one session's event log means.  The    *)
(* supervisor, the daemon's live control connection and the daemon's scan  *)
(* of the disk all read a session through this one fold.                   *)
(*                                                                         *)
(* An event is [kind, arg]; arg is the terminal of an attach or a detach,  *)
(* [name, count] of a denial, the label of a rename, the code of a         *)
(* failure.  Times, pids, exit codes and the mechanism lists are left out. *)
(***************************************************************************)
EXTENDS Integers, SequencesExt

CONSTANTS Names,     \* the (class, name) rows a sandbox denial may have
          NoLabel    \* Option::None for a label or a failure code

Event(kind, arg) == [kind |-> kind, arg |-> arg]

SessionStates == {"creating", "running", "stopping", "exited", "failed"}

\* SessionState::is_live and SessionState::is_terminal.
is_live(state) == state \in {"running", "stopping"}
is_terminal(state) == state \in {"exited", "failed"}

\* from_log's starting value: a session whose log is still empty.
Creating == [state |-> "creating", code |-> NoLabel, clients |-> 0,
             label |-> NoLabel, denied |-> [n \in Names |-> 0],
             degraded |-> FALSE]

Ended(session, state, code) ==
    [session EXCEPT !.state = state, !.code = code, !.clients = 0]

\* Events after a terminal state are ignored.
apply_event(session, e) ==
    IF is_terminal(session.state) THEN session
    ELSE CASE e.kind \in {"created", "applied", "resized"} -> session
           [] e.kind = "denied" ->
                [session EXCEPT !.denied[e.arg.name] = @ + e.arg.count]
           [] e.kind = "degraded" -> [session EXCEPT !.degraded = TRUE]
           [] e.kind = "started" -> [session EXCEPT !.state = "running"]
           [] e.kind = "renamed" -> [session EXCEPT !.label = e.arg]
           [] e.kind = "attached" -> [session EXCEPT !.clients = @ + 1]
           [] e.kind = "detached" ->
                [session EXCEPT !.clients = IF @ = 0 THEN 0 ELSE @ - 1]
           [] e.kind = "stop_requested" ->
                [session EXCEPT !.state = IF is_live(@) THEN "stopping" ELSE @]
           [] e.kind = "exited" -> Ended(session, "exited", NoLabel)
           [] e.kind = "failed" -> Ended(session, "failed", e.arg)

\* The session a log describes.
from_log(log) ==
    LET fold[n \in 0..Len(log)] ==
            IF n = 0 THEN Creating ELSE apply_event(fold[n - 1], log[n])
    IN  fold[Len(log)]
=============================================================================
