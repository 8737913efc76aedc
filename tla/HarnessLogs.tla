----------------------------- MODULE HarnessLogs -----------------------------
(***************************************************************************)
(* What the daemon reads of the harness's own logs: a session's title      *)
(* (willied/src/session_title.rs, sessions.rs title_untitled_agent_        *)
(* sessions) and its usage (the usage plugin with its part of handlers.rs).*)
(*                                                                         *)
(* One project's workspace and one harness, so one log directory.  A log   *)
(* is a sequence of lines that the harness appends to, one file per        *)
(* conversation, named here by the session that began it.  Nothing says    *)
(* which session a log belongs to: both readers go by its modified time,   *)
(* in whole seconds.                                                       *)
(***************************************************************************)
EXTENDS Naturals, SequencesExt

CONSTANTS
    Sessions,
    Counts,         \* the usage blocks a harness may write for a session
    SideCounts,     \* and those of a sidechain
    TAIL_BYTES,     \* how much of a log's end is read, in lines
    HEAD_BYTES,     \* how much of a log's front is read, in lines
    MAX_U64,        \* the largest number of tokens
    ContextWindow,  \* the context window of a model that is known
    MaxTime,        \* bound: seconds
    MaxLines,       \* bound: lines of all logs
    MaxRestarts,    \* bound: restarts of the daemon
    None

ASSUME HarnessLogsAssumption ==
    /\ {TAIL_BYTES, HEAD_BYTES, MAX_U64, ContextWindow} \subseteq Nat \ {0}
    /\ {MaxTime, MaxLines, MaxRestarts} \subseteq Nat
    /\ None \notin Nat /\ None \notin Sessions /\ None \notin Counts

VARIABLES
    index,      \* State.sessions
    untitled,   \* SessionOps.untitled: finished sessions that are given up
    scan,       \* title_untitled_agent_sessions under way
    clock,
    dir,        \* the log directory: modified time and lines of each log
    conv,       \* the log a session's harness writes
    restarts,
    wrote,      \* history: when a session's harness wrote
    first,      \* history: the first prompt that went to a log, and where
    newest      \* history: the last usage that went to a log, and its age

daemonVars == <<index, untitled, scan>>
worldVars == <<clock, dir, conv>>
historyVars == <<wrote, first, newest>>
logsVars == <<daemonVars, worldVars, restarts, historyVars>>

-----------------------------------------------------------------------------
(* Lines.  A line that does not parse, because the harness has not finished *)
(* it or because a read began in its middle, is torn.                       *)
Torn == [kind |-> "torn"]
Prompt(s) == [kind |-> "prompt", by |-> s]  \* a user record with text
Usage(c) == [kind |-> "usage", counts |-> c]
\* A line that neither reader takes, though it carries a usage.
Sidechain(c) == [kind |-> "side", counts |-> c]
Lines(s) == {Prompt(s)} \cup {Usage(c) : c \in Counts} \cup {Sidechain(c) : c \in SideCounts}

\* The cut line at the edge of what is read does not parse.
read_tail(lines) == IF Len(lines) <= TAIL_BYTES THEN lines
                    ELSE <<Torn>> \o SubSeq(lines, Len(lines) - TAIL_BYTES + 1, Len(lines))
read_head(lines) == IF Len(lines) <= HEAD_BYTES THEN lines
                    ELSE SubSeq(lines, 1, HEAD_BYTES) \o <<Torn>>

-----------------------------------------------------------------------------
(* read.rs: the newest usage of a tail.                                     *)
saturating_add(a, b) == Min({a + b, MAX_U64})

context_window_for(model) == IF model = "claude" THEN ContextWindow ELSE None

NO_DATA == [tokens |-> 0, context_pct |-> None]
SessionReading(c) ==
    LET side == saturating_add(saturating_add(c.input, c.cache_creation), c.cache_read)
        window == context_window_for(c.model)
    IN [tokens |-> saturating_add(side, c.output),
        context_pct |-> IF window = None THEN None
                        ELSE Min({(side * 100) \div window, 100})]

\* Seeded fault: a sidechain's usage counts.
project_session_sidechain(tail) ==
    LET i == SelectLastInSeq(tail, LAMBDA l : l.kind \in {"usage", "side"})
    IN IF i = 0 THEN NO_DATA ELSE SessionReading(tail[i].counts)

project_session(tail) ==
    LET i == SelectLastInSeq(tail, LAMBDA l : l.kind = "usage")
    IN IF i = 0 THEN NO_DATA ELSE SessionReading(tail[i].counts)

\* list_jsonl, in whatever order the directory gives its files.
list_jsonl == {f \in Sessions : dir[f].lines # <<>>}
pick_log(window) == {f \in list_jsonl : dir[f].mtime \in window[1]..window[2]}

\* enrich_usage_targets: a session that is still live has an open window,
\* which `snapshot` ends now; a shell has no log.
enrich_usage_targets == {s \in Sessions : index[s].state # "none" /\ index[s].kind = "agent"}
window_of(s) == <<index[s].created, IF index[s].finished = None THEN clock ELSE index[s].finished>>

\* What usage.snapshot may say of a session: one answer for each order of the
\* directory.
read_session(s) ==
    LET logs == pick_log(window_of(s)) IN
    IF logs = {} THEN {NO_DATA}
    ELSE {project_session(read_tail(dir[f].lines)) : f \in logs}

-----------------------------------------------------------------------------
(* session_title.rs: the first prompt of a head.                            *)
first_prompt(head) ==
    LET i == SelectInSeq(head, LAMBDA l : l.kind = "prompt")
    IN IF i = 0 THEN None ELSE head[i].by

\* The logs that were modified last, of those modified since; a tie is the
\* directory's to break.
pick_log_for(since) ==
    LET logs == {f \in list_jsonl : dir[f].mtime >= since}
    IN {f \in logs : \A g \in logs : dir[g].mtime <= dir[f].mtime}
first_prompt_for(since) ==
    IF pick_log_for(since) = {} THEN {None}
    ELSE {first_prompt(read_head(dir[f].lines)) : f \in pick_log_for(since)}

-----------------------------------------------------------------------------
(* title_untitled_agent_sessions, which session.list and state.snapshot    *)
(* call: the candidates are chosen under the lock, and each is read and put *)
(* back after it, while sessions and harnesses go on.                       *)
Live(s) == index[s].state = "running"
Terminal(s) == index[s].state = "ended"
since(s) == IF index[s].started # None THEN index[s].started ELSE index[s].created

NoScan == [left |-> {}, at |-> None, finished |-> FALSE, found |-> None]
candidates == {s \in Sessions : /\ index[s].kind = "agent" /\ index[s].title = None
                                /\ Live(s) \/ Terminal(s)
                                /\ s \notin untitled}
title_begin ==
    /\ scan = NoScan /\ candidates # {}
    /\ scan' = [NoScan EXCEPT !.left = {[id |-> s, since |-> since(s), finished |-> Terminal(s)] :
                                          s \in candidates}]
    /\ UNCHANGED <<index, untitled, worldVars, restarts, historyVars>>
title_read(c) ==
    /\ scan.at = None /\ c \in scan.left
    /\ \E t \in first_prompt_for(c.since) :
          scan' = [left |-> scan.left \ {c}, at |-> c.id, finished |-> c.finished, found |-> t]
    /\ UNCHANGED <<index, untitled, worldVars, restarts, historyVars>>

\* Seeded fault: whether the session is over is asked after its log was read.
title_put_asks_late ==
    /\ scan.at # None
    /\ IF scan.found # None
       THEN index' = [index EXCEPT ![scan.at].title = scan.found] /\ UNCHANGED untitled
       ELSE /\ untitled' = IF Terminal(scan.at) THEN untitled \cup {scan.at} ELSE untitled
            /\ UNCHANGED index
    /\ scan' = [NoScan EXCEPT !.left = scan.left]
    /\ UNCHANGED <<worldVars, restarts, historyVars>>

title_put ==
    /\ scan.at # None
    /\ IF scan.found # None
       THEN index' = [index EXCEPT ![scan.at].title = scan.found] /\ UNCHANGED untitled
       ELSE /\ untitled' = IF scan.finished THEN untitled \cup {scan.at} ELSE untitled
            /\ UNCHANGED index
    /\ scan' = [NoScan EXCEPT !.left = scan.left]
    /\ UNCHANGED <<worldVars, restarts, historyVars>>

-----------------------------------------------------------------------------
(* The sessions, as SessionIndex has them, and their harnesses.             *)

\* resume_decision: a fresh conversation, or (--continue) the most recent one
\* of the workspace.
recent == {f \in list_jsonl : \A g \in list_jsonl : dir[g].mtime <= dir[f].mtime}
resume_decision(s, resume) == IF resume /\ recent # {} THEN recent ELSE {s}

create(s, kind, resume) ==
    /\ index[s].state = "none"
    /\ kind = "shell" => ~resume
    /\ \E f \in resume_decision(s, resume) : conv' = [conv EXCEPT ![s] = f]
    /\ index' = [index EXCEPT ![s].state = "creating", ![s].kind = kind, ![s].created = clock]
    /\ UNCHANGED <<untitled, scan, clock, dir, restarts, historyVars>>
started(s) ==
    /\ index[s].state = "creating"
    /\ index' = [index EXCEPT ![s].state = "running", ![s].started = clock]
    /\ UNCHANGED <<untitled, scan, worldVars, restarts, historyVars>>
ended(s) ==
    /\ index[s].state \in {"creating", "running"}
    /\ index' = [index EXCEPT ![s].state = "ended", ![s].finished = clock]
    /\ UNCHANGED <<untitled, scan, worldVars, restarts, historyVars>>
\* from_log: a title is not in a session's log, and nothing else keeps it.
restarted ==
    /\ restarts < MaxRestarts /\ restarts' = restarts + 1
    /\ index' = [s \in Sessions |-> [index[s] EXCEPT !.title = None]]
    /\ untitled' = {} /\ scan' = NoScan
    /\ UNCHANGED <<worldVars, historyVars>>

\* A harness appends a line, at once or in two writes.
Half(f) == Len(dir[f].lines) > 0 /\ Last(dir[f].lines) = Torn
Append1(f, l) == IF Half(f) THEN Front(dir[f].lines) \o <<l>> ELSE dir[f].lines \o <<l>>
harness_writes(s, l) ==
    LET f == conv[s] IN
    /\ Live(s) /\ index[s].kind = "agent"
    /\ Half(f) \/ FoldFunction(LAMBDA log, n : n + Len(log.lines), 0, dir) < MaxLines
    /\ l = Torn => ~Half(f)
    /\ dir' = [dir EXCEPT ![f] = [mtime |-> clock, lines |-> Append1(f, l)]]
    /\ wrote' = [wrote EXCEPT ![s] = @ \cup {clock}]
    /\ first' = IF l.kind = "prompt" /\ first[f].by = None
                THEN [first EXCEPT ![f] = [by |-> s, at |-> Len(Append1(f, l))]] ELSE first
    /\ newest' = IF l.kind = "usage" THEN [newest EXCEPT ![f] = [counts |-> l.counts, age |-> 0]]
                 ELSE IF Half(f) THEN newest ELSE [newest EXCEPT ![f].age = @ + 1]
    /\ UNCHANGED <<daemonVars, clock, conv, restarts>>
tick == /\ clock < MaxTime /\ clock' = clock + 1
        /\ UNCHANGED <<daemonVars, dir, conv, restarts, historyVars>>

-----------------------------------------------------------------------------
LogsInit ==
    /\ index = [s \in Sessions |-> [state |-> "none", kind |-> "agent", created |-> 0,
                                    started |-> None, finished |-> None, title |-> None]]
    /\ untitled = {} /\ scan = NoScan /\ clock = 0 /\ restarts = 0
    /\ dir = [f \in Sessions |-> [mtime |-> 0, lines |-> <<>>]]
    /\ conv = [s \in Sessions |-> s]
    /\ wrote = [s \in Sessions |-> {}]
    /\ first = [f \in Sessions |-> [by |-> None, at |-> 0]]
    /\ newest = [f \in Sessions |-> [counts |-> None, age |-> 0]]
LogsNext ==
    \/ \E s \in Sessions, k \in {"agent", "shell"}, r \in BOOLEAN : create(s, k, r)
    \/ \E s \in Sessions : started(s) \/ ended(s)
    \/ \E s \in Sessions : \E l \in Lines(s) \cup {Torn} : harness_writes(s, l)
    \/ title_begin \/ (\E c \in scan.left : title_read(c)) \/ title_put
    \/ restarted \/ tick
LogsSpec == LogsInit /\ [][LogsNext]_logsVars

-----------------------------------------------------------------------------
(* Properties.                                                              *)

\* The session was on its own: no other harness wrote in these seconds, nor went
\* on with its conversation later.
AloneIn(s, from, to) ==
    \A o \in Sessions \ {s} : /\ wrote[o] \cap (from..to) = {}
                              /\ conv[o] = conv[s] => \A t \in wrote[o] : t < from
Alone(s) == AloneIn(s, index[s].created, window_of(s)[2])

\* docs/ARCHITECTURE.md 3.2: for one session at a time attribution "is exact".
\* Whatever is torn, cut or a sidechain, whenever the session is asked about,
\* a session that was on its own is credited with the last usage of its
\* conversation (as long as the tail reaches it), and before it wrote with nothing.
UsageIsOwn ==
    \A s \in enrich_usage_targets : Alone(s) =>
        read_session(s) =
            {IF wrote[s] # {} /\ newest[conv[s]].counts # None /\ newest[conv[s]].age < TAIL_BYTES
             THEN SessionReading(newest[conv[s]].counts) ELSE NO_DATA}

\* A session after which nobody else wrote has its own first prompt for a
\* title or none yet, and is given up only if it never had one to find.
LatestTitleIsOwn ==
    \A s \in Sessions : AloneIn(s, since(s), MaxTime) =>
        LET own == first[conv[s]]
        IN /\ index[s].title \in {None, own.by}
           /\ s \in untitled => wrote[s] = {} \/ own.by = None \/ own.at > HEAD_BYTES

-----------------------------------------------------------------------------
(* What the documentation says and the code does not do.                    *)

\* Sessions that ran one at a time have each its own first prompt for a title:
\* "for one session at a time that is exact" (docs/ARCHITECTURE.md 3.2).
OneAtATime ==
    \A s, o \in enrich_usage_targets : s # o =>
        window_of(s)[2] < index[o].created \/ window_of(o)[2] < index[s].created
TitleIsOwn ==
    OneAtATime => \A s \in Sessions : index[s].title \in {None, first[conv[s]].by}
=============================================================================
