-------------------------------- MODULE Jobs --------------------------------
(***************************************************************************)
(* willied/src/jobs.rs: the background job runner.  One dispatcher thread  *)
(* submits, cancels and finally shuts the daemon down; every submitted job *)
(* has a worker thread of its own that waits for a slot of the pool, runs  *)
(* its work, drops its Cleanup guard and only then publishes its result.   *)
(*                                                                         *)
(* A job is in `cancels` exactly while the runner's map has its key;       *)
(* `tripped` holds the jobs whose Cancel flag is set; `jobs` is what       *)
(* state.rs's index shows a client.                                        *)
(***************************************************************************)
EXTENDS Integers, FiniteSets

CONSTANTS
    JobIds,     \* the jobs that may ever be submitted (bound)
    Projects,
    Global,     \* the owner of a project-less job: a tool install
    Limit       \* Pool.limit

ASSUME JobsAssumption == /\ IsFiniteSet(JobIds)
                         /\ Global \notin Projects
                         /\ Limit \in Nat \ {0}

VARIABLES
    worker,      \* the worker thread's program counter, per job
    owner,       \* Job.project_id
    outcome,     \* what the worker is about to publish
    running,     \* Pool.running
    busy,        \* Runner.busy
    tool_busy,   \* Runner.tool_busy
    cancels,     \* keys of Runner.cancels
    tripped,     \* jobs whose Cancel flag is set
    jobs,        \* State.jobs: "absent", "running" or the final state
    submitting,  \* jobs between the busy test and spawn_job's registration
    daemon,      \* "serving", "draining" (joining the writer) or "exited"
    writer,      \* the stdout writer thread: "up" or "broken"
    watching,    \* some session's watch threads are up (sessions.rs)
    ran          \* history: jobs whose work closure was entered

vars == <<worker, owner, outcome, running, busy, tool_busy, cancels, tripped,
          jobs, submitting, daemon, writer, watching, ran>>

Outcomes == {"done", "failed", "interrupted", "job_panicked", "cancelled"}
WorkerSteps == {"none", "acquire", "parked", "check", "work", "release",
                "notify", "unbusy", "uncancel", "emit", "ended"}

TypeOK == /\ worker \in [JobIds -> WorkerSteps]
          /\ owner \in [JobIds -> Projects \cup {Global}]
          /\ outcome \in [JobIds -> Outcomes \cup {"none"}]
          /\ running \in Nat
          /\ busy \subseteq Projects
          /\ tool_busy \in BOOLEAN
          /\ cancels \subseteq JobIds
          /\ tripped \subseteq JobIds
          /\ jobs \in [JobIds -> Outcomes \cup {"absent", "running"}]
          /\ submitting \subseteq JobIds
          /\ daemon \in {"serving", "draining", "exited"}
          /\ writer \in {"up", "broken"}
          /\ watching \in BOOLEAN
          /\ ran \subseteq JobIds

Init == /\ worker = [j \in JobIds |-> "none"]
        /\ owner = [j \in JobIds |-> Global]
        /\ outcome = [j \in JobIds |-> "none"]
        /\ running = 0
        /\ busy = {}
        /\ tool_busy = FALSE
        /\ cancels = {}
        /\ tripped = {}
        /\ jobs = [j \in JobIds |-> "absent"]
        /\ submitting = {}
        /\ daemon = "serving"
        /\ writer = "up"
        /\ watching = FALSE
        /\ ran = {}

-----------------------------------------------------------------------------
(* The dispatcher thread.                                                   *)

\* An id no submit has used: JobId::new().
Fresh(j) == worker[j] = "none" /\ j \notin submitting

DispatcherIdle == daemon = "serving" /\ submitting = {}

\* Seeded fault: the busy test and the insertion come apart.
submit_unclaimed(j, p) ==
    /\ DispatcherIdle /\ Fresh(j)
    /\ p \notin busy
    /\ owner' = [owner EXCEPT ![j] = p]
    /\ submitting' = {j}
    /\ UNCHANGED <<worker, outcome, running, busy, tool_busy, cancels, tripped,
                   jobs, daemon, writer, watching, ran>>

\* Runner::submit up to spawn_job: the test-and-set on the busy set.  A
\* project already in it is refused (project_busy) and nothing changes.
submit(j, p) ==
    /\ DispatcherIdle /\ Fresh(j)
    /\ p \notin busy
    /\ busy' = busy \cup {p}
    /\ owner' = [owner EXCEPT ![j] = p]
    /\ submitting' = {j}
    /\ UNCHANGED <<worker, outcome, running, tool_busy, cancels, tripped, jobs,
                   daemon, writer, watching, ran>>

\* Runner::submit_global: the swap on tool_busy guards the one global job.
submit_global(j) ==
    /\ DispatcherIdle /\ Fresh(j)
    /\ ~tool_busy
    /\ tool_busy' = TRUE
    /\ owner' = [owner EXCEPT ![j] = Global]
    /\ submitting' = {j}
    /\ UNCHANGED <<worker, outcome, running, busy, cancels, tripped, jobs,
                   daemon, writer, watching, ran>>

\* spawn_job: register the cancel flag, publish the job as running, start
\* the worker thread.
spawn_job(j) ==
    /\ daemon = "serving" /\ j \in submitting
    /\ cancels' = cancels \cup {j}
    /\ jobs' = [jobs EXCEPT ![j] = "running"]
    /\ worker' = [worker EXCEPT ![j] = "acquire"]
    /\ submitting' = {}
    /\ UNCHANGED <<owner, outcome, running, busy, tool_busy, tripped, daemon,
                   writer, watching, ran>>

\* Runner::cancel: a no-op once the job left the map.
cancel(j) ==
    /\ DispatcherIdle
    /\ j \in cancels
    /\ tripped' = tripped \cup {j}
    /\ UNCHANGED <<worker, owner, outcome, running, busy, tool_busy, cancels,
                   jobs, submitting, daemon, writer, watching, ran>>

\* Runner::shutdown, then main drops its senders and joins the writer.
shutdown ==
    /\ DispatcherIdle
    /\ tripped' = tripped \cup cancels
    /\ daemon' = "draining"
    /\ UNCHANGED <<worker, owner, outcome, running, busy, tool_busy, cancels,
                   jobs, submitting, writer, watching, ran>>

\* The writer ends when every Outbound clone is dropped, and each live worker
\* and each watch thread holds one, or when it could not write; then the
\* process exits.
join_writer ==
    /\ daemon = "draining"
    /\ \/ writer = "broken"
       \/ ~watching /\ \A j \in JobIds : worker[j] \in {"none", "ended"}
    /\ daemon' = "exited"
    /\ UNCHANGED <<worker, owner, outcome, running, busy, tool_busy, cancels,
                   tripped, jobs, submitting, writer, watching, ran>>

\* Outbound's writer thread gives up at the first failed write.
writer_breaks ==
    /\ daemon /= "exited" /\ writer = "up"
    /\ writer' = "broken"
    /\ UNCHANGED <<worker, owner, outcome, running, busy, tool_busy, cancels,
                   tripped, jobs, submitting, daemon, watching, ran>>

\* SessionOps::watch clones Outbound into the threads that follow a session;
\* the session's end ends them.
session_watched ==
    /\ DispatcherIdle /\ ~watching
    /\ watching' = TRUE
    /\ UNCHANGED <<worker, owner, outcome, running, busy, tool_busy, cancels,
                   tripped, jobs, submitting, daemon, writer, ran>>

session_ends ==
    /\ daemon /= "exited" /\ watching
    /\ watching' = FALSE
    /\ UNCHANGED <<worker, owner, outcome, running, busy, tool_busy, cancels,
                   tripped, jobs, submitting, daemon, writer, ran>>

-----------------------------------------------------------------------------
(* Worker j's thread.  At(j, here, there) moves its program counter.        *)

At(j, here, there) ==
    /\ daemon /= "exited"
    /\ worker[j] = here
    /\ worker' = [worker EXCEPT ![j] = there]

\* Seeded fault: the pool admits one job too many.
acquire_off_by_one(j) ==
    /\ running <= Limit
    /\ At(j, "acquire", "check")
    /\ running' = running + 1
    /\ UNCHANGED <<owner, outcome, busy, tool_busy, cancels, tripped, jobs,
                   submitting, daemon, writer, watching, ran>>

\* Pool::acquire, one evaluation of its loop: take a slot or wait.
acquire(j) ==
    \/ /\ running < Limit
       /\ At(j, "acquire", "check")
       /\ running' = running + 1
       /\ UNCHANGED <<owner, outcome, busy, tool_busy, cancels, tripped, jobs,
                      submitting, daemon, writer, watching, ran>>
    \/ /\ running >= Limit
       /\ At(j, "acquire", "parked")
       /\ UNCHANGED <<owner, outcome, running, busy, tool_busy, cancels,
                      tripped, jobs, submitting, daemon, writer, watching,
                      ran>>

\* A condition variable may wake a waiter that nobody notified.
spurious_wakeup(j) ==
    /\ At(j, "parked", "acquire")
    /\ UNCHANGED <<owner, outcome, running, busy, tool_busy, cancels, tripped,
                   jobs, submitting, daemon, writer, watching, ran>>

\* With the slot held: a flag already tripped ends the job unrun.
check_cancel(j) ==
    \/ /\ j \in tripped
       /\ At(j, "check", "release")
       /\ outcome' = [outcome EXCEPT ![j] = "cancelled"]
       /\ UNCHANGED <<owner, running, busy, tool_busy, cancels, tripped, jobs,
                      submitting, daemon, writer, watching, ran>>
    \/ /\ j \notin tripped
       /\ At(j, "check", "work")
       /\ ran' = ran \cup {j}
       /\ UNCHANGED <<owner, outcome, running, busy, tool_busy, cancels,
                      tripped, jobs, submitting, daemon, writer, watching>>

\* work(&cancel) under catch_unwind: any outcome, a panic included; only a
\* tripped flag makes it report an interruption.
work(j) ==
    /\ At(j, "work", "release")
    /\ \E o \in {"done", "failed", "interrupted", "job_panicked"} :
          /\ o = "interrupted" => j \in tripped
          /\ outcome' = [outcome EXCEPT ![j] = o]
    /\ UNCHANGED <<owner, running, busy, tool_busy, cancels, tripped, jobs,
                   submitting, daemon, writer, watching, ran>>

\* Cleanup::drop, first half of Pool::release: give the slot back.
release(j) ==
    /\ At(j, "release", "notify")
    /\ running' = running - 1
    /\ UNCHANGED <<owner, outcome, busy, tool_busy, cancels, tripped, jobs,
                   submitting, daemon, writer, watching, ran>>

\* Seeded fault: the slot is returned without waking a waiter.
no_notify(j) ==
    /\ At(j, "notify", "unbusy")
    /\ UNCHANGED <<owner, outcome, running, busy, tool_busy, cancels, tripped,
                   jobs, submitting, daemon, writer, watching, ran>>

\* Pool::release, second half: notify_one wakes some waiter, if any.
notify_one(j) ==
    LET waiters == {k \in JobIds : worker[k] = "parked"}
        woken == IF waiters = {} THEN {{}} ELSE {{k} : k \in waiters}
    IN  /\ daemon /= "exited"
        /\ worker[j] = "notify"
        /\ \E w \in woken :
              worker' = [k \in JobIds |-> IF k \in w THEN "acquire"
                                          ELSE IF k = j THEN "unbusy"
                                          ELSE worker[k]]
        /\ UNCHANGED <<owner, outcome, running, busy, tool_busy, cancels,
                       tripped, jobs, submitting, daemon, writer, watching,
                       ran>>

\* Seeded fault: a cancelled job's busy entry is leaked.
clear_busy_unless_cancelled(j) ==
    /\ At(j, "unbusy", "uncancel")
    /\ IF outcome[j] = "cancelled" THEN UNCHANGED <<busy, tool_busy>>
       ELSE /\ busy' = busy \ {owner[j]}
            /\ tool_busy' = (tool_busy /\ owner[j] /= Global)
    /\ UNCHANGED <<owner, outcome, running, cancels, tripped, jobs, submitting,
                   daemon, writer, watching, ran>>

\* Cleanup::drop: clear the project's busy entry, or the global flag.
clear_busy(j) ==
    /\ At(j, "unbusy", "uncancel")
    /\ busy' = busy \ {owner[j]}
    /\ tool_busy' = (tool_busy /\ owner[j] /= Global)
    /\ UNCHANGED <<owner, outcome, running, cancels, tripped, jobs, submitting,
                   daemon, writer, watching, ran>>

\* Cleanup::drop: the cancel flag leaves the map.
clear_cancel(j) ==
    /\ At(j, "uncancel", "emit")
    /\ cancels' = cancels \ {j}
    /\ UNCHANGED <<owner, outcome, running, busy, tool_busy, tripped, jobs,
                   submitting, daemon, writer, watching, ran>>

\* The last thing a worker does: publish the final state.
emit_final(j) ==
    /\ At(j, "emit", "ended")
    /\ jobs' = [jobs EXCEPT ![j] = outcome[j]]
    /\ UNCHANGED <<owner, outcome, running, busy, tool_busy, cancels, tripped,
                   submitting, daemon, writer, watching, ran>>

Worker(j) == \/ acquire(j) \/ check_cancel(j) \/ work(j) \/ release(j)
             \/ notify_one(j) \/ clear_busy(j) \/ clear_cancel(j)
             \/ emit_final(j)

Exited == daemon = "exited" /\ UNCHANGED vars

Next == \/ \E j \in JobIds : \/ \E p \in Projects : submit(j, p)
                             \/ submit_global(j)
                             \/ spawn_job(j)
                             \/ cancel(j)
                             \/ spurious_wakeup(j)
                             \/ Worker(j)
        \/ shutdown
        \/ join_writer
        \/ writer_breaks
        \/ session_watched \/ session_ends
        \/ Exited

Spec == Init /\ [][Next]_vars

\* Threads are scheduled, work returns (every git command it runs ends) and
\* main runs on once its loop ended.  Nothing makes a client submit, cancel
\* or close stdin, no session need ever end, and no wakeup comes unless
\* somebody notifies.
FairSpec == /\ Spec
            /\ \A j \in JobIds : WF_vars(spawn_job(j)) /\ WF_vars(Worker(j))
            /\ WF_vars(join_writer)

-----------------------------------------------------------------------------
(* Properties.                                                              *)

\* Worker steps between taking a slot and giving it back.
HoldSlot == {"check", "work", "release"}

\* Worker steps from the spawn to the busy entry being cleared.
InFlight == {"acquire", "parked", "check", "work", "release", "notify",
             "unbusy"}

Holders == {j \in JobIds : worker[j] \in HoldSlot}
Claims(p) == {j \in JobIds : /\ owner[j] = p
                             /\ worker[j] \in InFlight \/ j \in submitting}

\* The pool's counter is exactly the number of workers between acquire and
\* Cleanup's release, and never exceeds the limit: a slot is neither leaked by
\* a panic or a cancelled job nor given out twice by a wakeup that races a
\* newcomer.
PoolSound == running = Cardinality(Holders) /\ running <= Limit

\* One job per project at a time (and one global job), and a project is busy
\* exactly while a job claims it: Cleanup neither leaves a wedged project
\* behind nor frees one whose job still works.
ExclusiveOwner ==
    /\ \A p \in Projects : p \in busy <=> Claims(p) /= {}
    /\ tool_busy <=> Claims(Global) /= {}
    /\ \A p \in Projects \cup {Global} : \A j, k \in Claims(p) : j = k

\* What a client reads in a finished job is what happened: `cancelled` means
\* the work never ran, `interrupted` that it ran and was told to stop, any
\* other end that it ran.
OutcomeHonest ==
    \A j \in JobIds :
        /\ jobs[j] = "cancelled" => j \in tripped /\ j \notin ran
        /\ jobs[j] = "interrupted" => j \in tripped \cap ran
        /\ jobs[j] \in {"done", "failed", "job_panicked"} => j \in ran

\* Once shutdown tripped the registered flags no further job enters its work,
\* not even one that was still queued for a slot.
NoWorkAfterShutdown == [][daemon /= "serving" => ran' = ran]_vars

\* Every submitted job is eventually published finished, whatever waits for
\* the pool, unless the process exits over a broken stdout first.
EveryJobEnds ==
    \A j \in JobIds :
        worker[j] = "acquire" ~>
            (worker[j] = "ended" \/ (daemon = "exited" /\ writer = "broken"))

\* A daemon that is told to end and follows no session does end: no queued,
\* cancelled or panicked job keeps the writer's join waiting.
ShutdownCompletes ==
    daemon = "draining" /\ ~watching ~> daemon = "exited"

-----------------------------------------------------------------------------
(* The promise kept.                                                        *)

\* How far a submitter would say a job is: a submit that has not spawned its
\* worker is not seen yet, and a slot or a wakeup never is.
StageOf(w) == CASE w = "none" -> "absent"
                [] w \in {"acquire", "parked", "check"} -> "queued"
                [] w = "work" -> "started"
                [] w \in {"release", "notify", "unbusy"} -> "settled"
                [] w \in {"uncancel", "emit"} -> "freed"
                [] w = "ended" -> "over"

Board == INSTANCE JobBoard WITH
             Owners <- Projects \cup {Global},
             Nobody <- Global,
             stage <- [j \in JobIds |-> StageOf(worker[j])],
             of <- [j \in JobIds |-> IF worker[j] = "none" THEN Global
                                     ELSE owner[j]],
             begun <- ran,
             told <- tripped,
             shown <- jobs,
             open <- daemon = "serving"

\* The runner's threads, pool, busy set and cancel flags implement JobBoard:
\* whatever submit, cancel, Cleanup and shutdown interleave into, a submitter
\* sees one job per owner, Limit at work, none starting once told to stop or
\* once the daemon ends, and an end that matches what happened.
ImplementsBoard == Board!Spec

-----------------------------------------------------------------------------
(* What the documentation says and the code does not do.                    *)

\* "The daemon exits when its stdin reaches EOF", and on daemon.shutdown it
\* "replies, then exits 0".
DaemonExits == daemon = "draining" ~> daemon = "exited"
=============================================================================
