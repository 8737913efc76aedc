------------------------------ MODULE JobBoard ------------------------------
(***************************************************************************)
(* What the job runner promises those who submit to it, without threads,   *)
(* slots, wakeups or cancel flags: a job is accepted only while its owner  *)
(* has no other, starts only among fewer than Limit others and only while  *)
(* the board is open, may be told to stop at any time, and is shown an end *)
(* that says whether it ever started and whether it had been told.         *)
(***************************************************************************)
EXTENDS Integers, FiniteSets

CONSTANTS JobIds, Owners, Nobody, Limit

VARIABLES
    stage,   \* how far each job is
    of,      \* who a job was accepted for
    begun,   \* the jobs that ever started
    told,    \* the jobs told to stop
    shown,   \* what a client reads of each job
    open     \* may a job still be accepted or start?

board == <<stage, of, begun, told, shown, open>>

Stages == {"absent", "queued", "started", "settled", "freed", "over"}
Live == {j \in JobIds : stage[j] \in {"queued", "started", "settled"}}
Started == {j \in JobIds : stage[j] = "started"}

Move(j, from, to) == stage[j] = from /\ stage' = [stage EXCEPT ![j] = to]

Init == /\ stage = [j \in JobIds |-> "absent"]
        /\ of = [j \in JobIds |-> Nobody]
        /\ begun = {}
        /\ told = {}
        /\ shown = [j \in JobIds |-> "absent"]
        /\ open = TRUE

Accept(j, p) ==
    /\ open
    /\ \A k \in Live : of[k] /= p
    /\ Move(j, "absent", "queued")
    /\ of' = [of EXCEPT ![j] = p]
    /\ shown' = [shown EXCEPT ![j] = "running"]
    /\ UNCHANGED <<begun, told, open>>

Start(j) ==
    /\ open
    /\ j \notin told
    /\ Cardinality(Started) < Limit
    /\ Move(j, "queued", "started")
    /\ begun' = begun \cup {j}
    /\ UNCHANGED <<of, told, shown, open>>

\* A job told to stop before it started never starts.
Drop(j) ==
    /\ j \in told
    /\ Move(j, "queued", "settled")
    /\ UNCHANGED <<of, begun, told, shown, open>>

Finish(j) ==
    /\ Move(j, "started", "settled")
    /\ UNCHANGED <<of, begun, told, shown, open>>

\* From here on the owner may have another job.
Free(j) ==
    /\ Move(j, "settled", "freed")
    /\ UNCHANGED <<of, begun, told, shown, open>>

\* The ends a client may read: a job that never started says so, and only one
\* that was told to stop says it was interrupted.
Ends(j) == IF j \notin begun THEN {"cancelled"}
           ELSE {"done", "failed", "job_panicked"}
                \cup {o \in {"interrupted"} : j \in told}

Publish(j) ==
    /\ Move(j, "freed", "over")
    /\ \E o \in Ends(j) : shown' = [shown EXCEPT ![j] = o]
    /\ UNCHANGED <<of, begun, told, open>>

Tell(j) ==
    /\ open
    /\ stage[j] \in {"queued", "started", "settled", "freed"}
    /\ told' = told \cup {j}
    /\ UNCHANGED <<stage, of, begun, shown, open>>

\* Every job still at work or waiting is told.
Close ==
    /\ open
    /\ open' = FALSE
    /\ \E S \in SUBSET JobIds : Live \subseteq S /\ told' = told \cup S
    /\ UNCHANGED <<stage, of, begun, shown>>

Next == \/ \E j \in JobIds : \/ \E p \in Owners : Accept(j, p)
                             \/ Start(j) \/ Drop(j) \/ Finish(j)
                             \/ Free(j) \/ Publish(j) \/ Tell(j)
        \/ Close

Spec == Init /\ [][Next]_board
=============================================================================
