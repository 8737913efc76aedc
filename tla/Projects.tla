------------------------------ MODULE Projects ------------------------------
(***************************************************************************)
(* willied/src/projects.rs with store.rs, git.rs, state.rs and the start   *)
(* of main.rs: the project registry, its files, the git jobs and the two   *)
(* kinds of repository they move commits between.                          *)
(*                                                                         *)
(* The dispatcher thread runs one handler at a time; a job runs on a       *)
(* worker thread with a CLONE of the record taken when it was submitted,   *)
(* and puts an edited copy of that clone back.  The runner's busy set      *)
(* (Jobs.tla) keeps two jobs off one project; nothing keeps `rename`,      *)
(* `set_sandbox` or the presence refresh off a project with a job.         *)
(*                                                                         *)
(* A history is the set of commits reachable from a head: an ancestor is a *)
(* subset, two heads have diverged when neither contains the other.  All   *)
(* checkouts have the same folder name, so every second slug needs its     *)
(* numeric suffix; a slug is that number.                                  *)
(***************************************************************************)
EXTENDS Integers, FiniteSets

CONSTANTS
    Ids,        \* the project ids that may ever be made (bound)
    Sources,    \* Windows checkouts, told apart by source_key
    Commits,
    Root,       \* the commit every checkout starts from
    Names,
    Profiles,   \* readable [sandbox] tables
    Default,    \* SandboxProfile::default()
    MaxCalls,   \* bound: requests the dispatcher accepts
    MaxMoves,   \* bound: steps of the people and agents in the repositories
    MaxCrashes  \* bound: daemon deaths

ASSUME ProjectsAssumption == /\ IsFiniteSet(Ids) /\ IsFiniteSet(Sources)
                             /\ Root \in Commits
                             /\ Default \in Profiles
                             /\ {MaxCalls, MaxMoves, MaxCrashes} \subseteq Nat

VARIABLES
    projects,   \* State.projects
    disk,       \* projects/<id>.toml
    win,        \* the Windows checkouts
    ws,         \* the directories under workspaces_dir, by slug
    job,        \* the job in flight for a project (its entry in the busy set)
    op,         \* the handler the dispatcher is in the middle of
    daemon,     \* "up" or "down"
    calls, moves, crashes,
    skipped,    \* history: add jobs cancelled before their work began
    stale,      \* history: projects an older clone was put back over
    ghosts      \* history: projects whose file outlives their removal

repos == <<win, ws>>
rest == <<daemon, moves, crashes>>
life == <<calls, rest>>
history == <<skipped, stale, ghosts>>
vars == <<projects, disk, repos, job, op, life, history>>

Nothing == [none |-> TRUE]
Slugs == 1..Cardinality(Ids)

\* core/project.rs.  Of source_present the model keeps the path the flag was
\* computed for; `problem` is whether sandbox_problem is set.
ProjectStates == {"preparing", "ready", "failed"}
Project == [name: Names, slug: Slugs, source: Sources, state: ProjectStates,
            present: Sources,
            sandbox: Profiles, problem: BOOLEAN]

\* What a file holds: sandbox_problem is never written, and the [sandbox]
\* table may be one that does not parse.
Broken == "unreadable"
Record == [name: Names, slug: Slugs, source: Sources, state: ProjectStates,
           present: Sources,
           sandbox: Profiles \cup {Broken}]

Checkout == [repo: BOOLEAN, commits: SUBSET Commits, dirty: BOOLEAN,
             attached: BOOLEAN, updateInstead: BOOLEAN]
Workspace == [head: SUBSET Commits, dirty: BOOLEAN,
              remote: Sources \cup {Nothing}, ready: BOOLEAN]

Kinds == {"add", "sync", "update", "remove", "relocate"}
Steps == {"queued", "clone", "remotes", "config", "finish", "inspect", "fetch",
          "push", "merge", "guard", "delete", "forget", "gone", "head",
          "set_url", "save", "emit"}

-----------------------------------------------------------------------------
(* git.rs: what the wrapper reports of a checkout.                          *)

is_repo(s) == win[s].repo
has_commits(s) == win[s].commits # {}
current_branch_ok(s) == win[s].attached
head_contains(s, commits) == win[s].repo /\ commits \subseteq win[s].commits

-----------------------------------------------------------------------------
(* core/project.rs and store.rs.                                            *)

\* slug_for: the bare name, or the smallest suffix from 2 up that is free.
slug_for(taken) == CHOOSE n \in Slugs \ taken :
                       \A m \in Slugs \ taken : n <= m

\* Seeded fault: the record is written as it stands.
save_plain(i, p) ==
    [name |-> p.name, slug |-> p.slug, source |-> p.source,
     state |-> p.state, present |-> p.present, sandbox |-> p.sandbox]

\* store::save: a record whose table could not be read keeps the table the
\* file has now; sandbox_problem is dropped.
save(i, p) ==
    [name |-> p.name, slug |-> p.slug, source |-> p.source,
     state |-> p.state, present |-> p.present,
     sandbox |-> IF p.problem /\ disk[i] # Nothing THEN disk[i].sandbox
                                                   ELSE p.sandbox]

\* store::load_all for one file: a table that does not parse becomes the
\* default profile and a sandbox_problem.
load(r) ==
    IF r = Nothing THEN Nothing ELSE
    [name |-> r.name, slug |-> r.slug, source |-> r.source,
     state |-> r.state, present |-> r.present,
     sandbox |-> IF r.sandbox = Broken THEN Default ELSE r.sandbox,
     problem |-> r.sandbox = Broken]

Registered == {i \in Ids : projects[i] # Nothing}
Idle == daemon = "up" /\ op = Nothing
Call == Idle /\ calls < MaxCalls /\ calls' = calls + 1
\* ProjectId::new(): an id nothing has seen.
Fresh(i) == /\ projects[i] = Nothing /\ disk[i] = Nothing /\ job[i] = Nothing
            /\ i \notin ghosts

\* What Runner::submit was given, and where the work is.
Task == [kind: Kinds, rec: Project, step: Steps, cancelled: BOOLEAN,
         to: Sources, mode: {"keep", "delete", "force"},
         fetched: SUBSET Commits]

\* The handlers that let the lock go half-way.
Edit == [kind: {"edit", "sandbox"}, id: Ids, step: {"save", "emit"},
         rec: Project]
Refresh ==
    (UNION {[kind: {"presence"}, sources: [S -> Sources]] : S \in SUBSET Ids})
      \cup (UNION {[kind: {"apply"}, flags: [S -> Sources]] : S \in SUBSET Ids})

RecordTypes == /\ projects \in [Ids -> Project \cup {Nothing}]
               /\ disk \in [Ids -> Record \cup {Nothing}]
RepoTypes == /\ win \in [Sources -> Checkout]
             /\ ws \in [Slugs -> Workspace \cup {Nothing}]
JobTypes == job \in [Ids -> Task \cup {Nothing}]
OpTypes == op \in Edit \cup Refresh \cup {Nothing}
LifeTypes == /\ daemon \in {"up", "down"}
             /\ calls \in 0..MaxCalls /\ moves \in 0..MaxMoves
             /\ crashes \in 0..MaxCrashes
             /\ skipped \subseteq Ids /\ stale \subseteq Ids
             /\ ghosts \subseteq Ids

TypeOK == RecordTypes /\ RepoTypes /\ JobTypes /\ OpTypes /\ LifeTypes

Init ==
    /\ projects = [i \in Ids |-> Nothing]
    /\ disk = [i \in Ids |-> Nothing]
    /\ win = [s \in Sources |-> [repo |-> TRUE, commits |-> {Root},
                                 dirty |-> FALSE, attached |-> TRUE,
                                 updateInstead |-> FALSE]]
    /\ ws = [n \in Slugs |-> Nothing]
    /\ job = [i \in Ids |-> Nothing]
    /\ op = Nothing
    /\ daemon = "up"
    /\ calls = 0 /\ moves = 0 /\ crashes = 0
    /\ skipped = {} /\ stale = {} /\ ghosts = {}

-----------------------------------------------------------------------------
(* The handlers, on the dispatcher thread.                                  *)

\* Runner::submit with the record this handler cloned; a busy project is
\* refused.
Submit(i, kind, rec, to, mode) ==
    /\ job[i] = Nothing
    /\ job' = [job EXCEPT ![i] = [kind |-> kind, rec |-> rec, step |-> "queued",
                                  cancelled |-> FALSE, to |-> to, mode |-> mode,
                                  fetched |-> {}]]

\* Ops::add.  Every check comes before the record exists; the save may fail
\* and only be logged.
add(i, s, name) ==
    /\ Call /\ Fresh(i)
    /\ is_repo(s) /\ has_commits(s)
    /\ \A k \in Registered : projects[k].source # s
    /\ current_branch_ok(s)
    /\ LET slug == slug_for({projects[k].slug : k \in Registered})
           rec == [name |-> name, slug |-> slug, source |-> s,
                   state |-> "preparing",
                   present |-> s,
                   sandbox |-> Default, problem |-> FALSE]
       IN /\ ws[slug] = Nothing
          /\ disk' \in {disk, [disk EXCEPT ![i] = save(i, rec)]}
          /\ projects' = [projects EXCEPT ![i] = rec]
          /\ Submit(i, "add", rec, s, "keep")
    /\ skipped' = skipped \ {i} /\ stale' = stale \ {i}
    /\ UNCHANGED <<op, ghosts, repos, rest>>

\* Ops::sync_to_windows.
sync_to_windows(i) ==
    /\ Call /\ i \in Registered
    /\ Submit(i, "sync", projects[i], projects[i].source, "keep")
    /\ UNCHANGED <<projects, disk, op, repos, rest, history>>

\* Ops::update_from_windows.
update_from_windows(i) ==
    /\ Call /\ i \in Registered
    /\ Submit(i, "update", projects[i], projects[i].source, "keep")
    /\ UNCHANGED <<projects, disk, op, repos, rest, history>>

\* Ops::remove.  The refusal under a live session belongs to the sessions:
\* SessionIndex.tla models it; here a project may have none at any time.
remove(i, mode) ==
    /\ Call /\ i \in Registered
    /\ Submit(i, "remove", projects[i], projects[i].source, mode)
    /\ UNCHANGED <<projects, disk, op, repos, rest, history>>

\* Ops::relocate: the new path must be a repository; whether it is already
\* registered is not asked.
relocate(i, s) ==
    /\ Call /\ i \in Registered
    /\ is_repo(s)
    /\ Submit(i, "relocate", projects[i], s, "keep")
    /\ UNCHANGED <<projects, disk, op, repos, rest, history>>

\* Ops::cancel_job and Ops::shutdown trip the flag; the job notices at its
\* next check.
cancel_job(i) ==
    /\ Call /\ job[i] # Nothing /\ ~job[i].cancelled
    /\ job' = [job EXCEPT ![i].cancelled = TRUE]
    /\ UNCHANGED <<projects, disk, op, repos, rest, history>>

\* Ops::rename and Ops::set_sandbox up to store::save: get_project clones
\* the record under the lock and lets the lock go.
rename(i, name) ==
    /\ Call /\ i \in Registered
    /\ op' = [kind |-> "edit", id |-> i, step |-> "save",
              rec |-> [projects[i] EXCEPT !.name = name]]
    /\ UNCHANGED <<projects, disk, job, repos, rest, history>>

\* The profile has been resolved, so it is one that can be applied.
set_sandbox(i, profile) ==
    /\ Call /\ i \in Registered
    /\ op' = [kind |-> "sandbox", id |-> i, step |-> "save",
              rec |-> [projects[i] EXCEPT !.sandbox = profile,
                                          !.problem = FALSE]]
    /\ UNCHANGED <<projects, disk, job, repos, rest, history>>

\* run_remove has unlinked the file and is about to drop the record.
Forgotten(i) == job[i] # Nothing /\ job[i].step = "gone"

\* store::save in a handler: a failure is returned (state_write_failed) and
\* the record in memory stays as it was.
EditSave ==
    /\ daemon = "up" /\ op # Nothing /\ op.kind \in {"edit", "sandbox"}
    /\ op.step = "save"
    /\ \/ /\ disk' = [disk EXCEPT ![op.id] = save(op.id, op.rec)]
          /\ op' = [op EXCEPT !.step = "emit"]
          /\ ghosts' = IF projects[op.id] = Nothing \/ Forgotten(op.id)
                       THEN ghosts \cup {op.id} ELSE ghosts
       \/ /\ op' = Nothing
          /\ UNCHANGED <<disk, ghosts>>
    /\ UNCHANGED <<projects, job, skipped, stale, repos, life>>

\* state::emit with upsert_project: the clone goes back whatever the index
\* holds by now.
EditEmit ==
    /\ daemon = "up" /\ op # Nothing /\ op.kind \in {"edit", "sandbox"}
    /\ op.step = "emit"
    /\ projects' = [projects EXCEPT ![op.id] = op.rec]
    /\ stale' = IF \/ projects[op.id] = Nothing
                   \/ projects[op.id].source # op.rec.source
                   \/ projects[op.id].state # op.rec.state
                THEN stale \cup {op.id} ELSE stale
    /\ op' = Nothing
    /\ UNCHANGED <<disk, job, skipped, ghosts, repos, life>>

\* Ops::refresh_source_present: snapshot_sources under the lock...
snapshot_sources ==
    /\ Call /\ Registered # {}
    /\ op' = [kind |-> "presence",
              sources |-> [i \in Registered |-> projects[i].source]]
    /\ UNCHANGED <<projects, disk, job, repos, rest, history>>

\* ...compute_presence with no lock held...
compute_presence ==
    /\ daemon = "up" /\ op # Nothing /\ op.kind = "presence"
    /\ op' = [kind |-> "apply",
              flags |-> op.sources]
    /\ UNCHANGED <<projects, disk, job, repos, life, history>>

\* Seeded fault: the flag is stored whatever the source is by now.
apply_presence_any ==
    /\ daemon = "up" /\ op # Nothing /\ op.kind = "apply"
    /\ projects' = [i \in Ids |->
           IF i \in DOMAIN op.flags /\ projects[i] # Nothing
           THEN [projects[i] EXCEPT !.present = op.flags[i]]
           ELSE projects[i]]
    /\ op' = Nothing
    /\ UNCHANGED <<disk, job, repos, life, history>>

\* ...apply_presence: a project removed or relocated meanwhile is skipped.
apply_presence ==
    /\ daemon = "up" /\ op # Nothing /\ op.kind = "apply"
    /\ projects' = [i \in Ids |->
           IF /\ i \in DOMAIN op.flags
              /\ projects[i] # Nothing
              /\ projects[i].source = op.flags[i]
           THEN [projects[i] EXCEPT !.present = op.flags[i]]
           ELSE projects[i]]
    /\ op' = Nothing
    /\ UNCHANGED <<disk, job, repos, life, history>>

-----------------------------------------------------------------------------
(* The jobs' work, on a worker thread.  A step runs from one check of the   *)
(* cancel flag to the next; check_cancelled comes first in it.              *)

At(i, kind, step) == /\ daemon = "up" /\ job[i] # Nothing
                     /\ job[i].kind = kind /\ job[i].step = step

Goto(i, step) == job' = [job EXCEPT ![i].step = step]
End(i) == job' = [job EXCEPT ![i] = Nothing]
Work(i) == job[i].rec.slug

\* Where the work of each kind of job begins.
FirstStep == [add |-> "clone", sync |-> "inspect", update |-> "fetch",
              remove |-> "guard", relocate |-> "head"]

\* spawn_job's own test: a job cancelled before its work began never runs.
start(i) ==
    /\ daemon = "up" /\ job[i] # Nothing /\ job[i].step = "queued"
    /\ IF job[i].cancelled
       THEN /\ End(i)
            /\ skipped' = IF job[i].kind = "add" THEN skipped \cup {i}
                                                 ELSE skipped
       ELSE /\ Goto(i, FirstStep[job[i].kind])
            /\ UNCHANGED skipped
    /\ UNCHANGED <<projects, disk, op, stale, ghosts, repos, life>>

\* check_cancelled: the project itself becomes Failed { interrupted }.
Checked == {"clone", "remotes", "config", "finish", "inspect", "fetch", "push",
            "merge", "guard", "delete", "head", "set_url"}
check_cancelled(i) ==
    /\ daemon = "up" /\ job[i] # Nothing /\ job[i].step \in Checked
    /\ job[i].cancelled
    /\ job' = [job EXCEPT ![i].step = "save", ![i].rec.state = "failed"]
    /\ UNCHANGED <<projects, disk, op, repos, life, history>>

Running(i, kind, step) == At(i, kind, step) /\ ~job[i].cancelled

\* update_project: save_or_log (a failure is only logged)...
JobSave(i) ==
    /\ daemon = "up" /\ job[i] # Nothing /\ job[i].step = "save"
    /\ disk' \in {disk, [disk EXCEPT ![i] = save(i, job[i].rec)]}
    /\ Goto(i, "emit")
    /\ UNCHANGED <<projects, op, repos, life, history>>

\* ...then the upsert, over whatever a handler edited since the submit.
JobEmit(i) ==
    /\ daemon = "up" /\ job[i] # Nothing /\ job[i].step = "emit"
    /\ projects' = [projects EXCEPT ![i] = job[i].rec]
    /\ stale' = IF \/ projects[i] = Nothing
                   \/ projects[i].sandbox # job[i].rec.sandbox
                   \/ projects[i].problem # job[i].rec.problem
                THEN stale \cup {i} ELSE stale
    /\ End(i)
    /\ UNCHANGED <<disk, op, skipped, ghosts, repos, life>>

\* add_fail: like an interruption, with git's code.
add_fail(i) == job' = [job EXCEPT ![i].step = "save", ![i].rec.state = "failed"]

\* run_add: clone...
AddClone(i) ==
    /\ Running(i, "add", "clone")
    /\ \/ /\ win[job[i].to].repo /\ ws[Work(i)] = Nothing
          /\ ws' = [ws EXCEPT ![Work(i)] =
                       [head |-> win[job[i].to].commits,
                        dirty |-> FALSE, remote |-> Nothing,
                        ready |-> FALSE]]
          /\ Goto(i, "remotes")
       \/ /\ add_fail(i)
          /\ UNCHANGED ws
    /\ UNCHANGED <<projects, disk, win, op, life, history>>

\* ...rename origin to windows and copy the other remotes...
AddRemotes(i) ==
    /\ Running(i, "add", "remotes")
    /\ \/ /\ ws[Work(i)] # Nothing
          /\ ws' = [ws EXCEPT ![Work(i)].remote = job[i].to]
          /\ Goto(i, "config") \/ add_fail(i)
       \/ /\ add_fail(i)
          /\ UNCHANGED ws
    /\ UNCHANGED <<projects, disk, win, op, life, history>>

\* Seeded fault: the failure of the last configuration command is ignored.
AddConfig_unchecked(i) ==
    /\ Running(i, "add", "config")
    /\ \/ /\ ws' = [ws EXCEPT ![Work(i)].ready = TRUE]
          /\ win' = [win EXCEPT ![job[i].to].updateInstead = TRUE]
       \/ UNCHANGED repos
    /\ Goto(i, "finish")
    /\ UNCHANGED <<projects, disk, op, life, history>>

\* ...turn line-ending translation off in the clone and updateInstead on in
\* the source...
AddConfig(i) ==
    /\ Running(i, "add", "config")
    /\ \/ /\ ws[Work(i)] # Nothing
          /\ ws' = [ws EXCEPT ![Work(i)].ready = TRUE]
          /\ win' = [win EXCEPT ![job[i].to].updateInstead = TRUE]
          /\ Goto(i, "finish")
       \/ /\ add_fail(i)
          /\ UNCHANGED repos
    /\ UNCHANGED <<projects, disk, op, life, history>>

\* ...and mark_ready.
mark_ready(i) ==
    /\ Running(i, "add", "finish")
    /\ job' = [job EXCEPT ![i].step = "save", ![i].rec.state = "ready"]
    /\ UNCHANGED <<projects, disk, op, repos, life, history>>

\* run_sync: refuse a missing, dirty or branch-mismatched checkout...
SyncInspect(i) ==
    /\ Running(i, "sync", "inspect")
    /\ \/ /\ is_repo(job[i].to) /\ ~win[job[i].to].dirty
          /\ win[job[i].to].attached
          /\ Goto(i, "fetch")
       \/ End(i)
    /\ UNCHANGED <<projects, disk, op, repos, life, history>>

\* `git fetch windows`: what the remote, not the record, points at.
Fetch(i, next) == /\ ws[Work(i)] # Nothing /\ ws[Work(i)].remote # Nothing
                  /\ win[ws[Work(i)].remote].repo
                  /\ job' = [job EXCEPT
                        ![i].fetched = win[ws[Work(i)].remote].commits,
                        ![i].step = next]

\* ...fetch, and refuse a checkout with commits the workspace lacks...
SyncFetch(i) ==
    /\ Running(i, "sync", "fetch")
    /\ \/ /\ Fetch(i, "push")
          /\ win[ws[Work(i)].remote].commits \subseteq ws[Work(i)].head
       \/ End(i)
    /\ UNCHANGED <<projects, disk, op, repos, life, history>>

\* ...else push.  git itself refuses a push that is no fast-forward, and
\* with updateInstead one into a dirty tree; without it, one into the branch
\* that is checked out.
SyncPush(i) ==
    /\ Running(i, "sync", "push")
    /\ \/ LET to == ws[Work(i)].remote
          IN /\ ws[Work(i)] # Nothing
             /\ win[to].repo
             /\ win[to].commits \subseteq ws[Work(i)].head
             /\ win[to].attached => win[to].updateInstead /\ ~win[to].dirty
             /\ win' = [win EXCEPT ![to].commits = ws[Work(i)].head]
       \/ UNCHANGED win
    /\ End(i)
    /\ UNCHANGED <<projects, disk, ws, op, life, history>>

\* run_update: refuse a missing checkout, else fetch...
UpdateFetch(i) ==
    /\ Running(i, "update", "fetch")
    /\ \/ /\ is_repo(job[i].to)
          /\ Fetch(i, "merge")
       \/ End(i)
    /\ UNCHANGED <<projects, disk, op, repos, life, history>>

\* Seeded fault: the workspace is made to match what was fetched.
UpdateMerge_reset(i) ==
    /\ Running(i, "update", "merge")
    /\ ws[Work(i)] # Nothing
    /\ ws' = [ws EXCEPT ![Work(i)].head = job[i].fetched]
    /\ End(i)
    /\ UNCHANGED <<projects, disk, win, op, life, history>>

\* ...and merge --ff-only: behind moves up, ahead or equal stays, diverged
\* is refused.
UpdateMerge(i) ==
    /\ Running(i, "update", "merge")
    /\ \/ /\ ws[Work(i)] # Nothing
          /\ ws[Work(i)].head \subseteq job[i].fetched
          /\ ws' = [ws EXCEPT ![Work(i)].head = job[i].fetched]
       \/ UNCHANGED ws
    /\ End(i)
    /\ UNCHANGED <<projects, disk, win, op, life, history>>

\* run_remove: refuse a dirty workspace unless forced...
RemoveGuard(i) ==
    /\ Running(i, "remove", "guard")
    /\ IF job[i].mode = "delete"
       THEN \/ /\ ws[Work(i)] # Nothing /\ ~ws[Work(i)].dirty
               /\ Goto(i, "delete")
            \/ End(i)
       ELSE Goto(i, "delete")
    /\ UNCHANGED <<projects, disk, op, repos, life, history>>

\* ...delete it when asked to (a failure ends the job)...
RemoveDelete(i) ==
    /\ Running(i, "remove", "delete")
    /\ \/ /\ job[i].mode # "keep" /\ ws[Work(i)] # Nothing
          /\ ws' = [ws EXCEPT ![Work(i)] = Nothing]
          /\ Goto(i, "forget")
       \/ /\ job[i].mode # "keep"
          /\ End(i)
          /\ UNCHANGED ws
       \/ /\ job[i].mode = "keep"
          /\ Goto(i, "forget")
          /\ UNCHANGED ws
    /\ UNCHANGED <<projects, disk, win, op, life, history>>

\* ...store::delete_or_log: a file that cannot be unlinked stays...
RemoveForget(i) ==
    /\ At(i, "remove", "forget")
    /\ \/ /\ disk' = [disk EXCEPT ![i] = Nothing]
          /\ UNCHANGED ghosts
       \/ /\ disk[i] # Nothing
          /\ ghosts' = ghosts \cup {i}
          /\ UNCHANGED disk
    /\ Goto(i, "gone")
    /\ UNCHANGED <<projects, op, skipped, stale, repos, life>>

\* ...and remove_project.
RemoveEmit(i) ==
    /\ At(i, "remove", "gone")
    /\ projects' = [projects EXCEPT ![i] = Nothing]
    /\ End(i)
    /\ UNCHANGED <<disk, op, repos, life, history>>

\* run_relocate: the new checkout must contain the workspace's commit...
RelocateHead(i) ==
    /\ Running(i, "relocate", "head")
    /\ \/ /\ ws[Work(i)] # Nothing
          /\ head_contains(job[i].to, ws[Work(i)].head)
          /\ Goto(i, "set_url")
       \/ End(i)
    /\ UNCHANGED <<projects, disk, op, repos, life, history>>

\* ...then the remote is pointed at it, and the record is edited.
RelocateSetUrl(i) ==
    /\ Running(i, "relocate", "set_url")
    /\ \/ /\ ws[Work(i)] # Nothing /\ ws[Work(i)].remote # Nothing
          /\ ws' = [ws EXCEPT ![Work(i)].remote = job[i].to]
          /\ job' = [job EXCEPT ![i].step = "save",
                        ![i].rec.source = job[i].to,
                        ![i].rec.present = job[i].to]
       \/ /\ End(i)
          /\ UNCHANGED ws
    /\ UNCHANGED <<projects, disk, win, op, life, history>>

-----------------------------------------------------------------------------
(* The daemon's life: killed at any step, started on the files it left.     *)

crash ==
    /\ daemon = "up" /\ crashes < MaxCrashes
    /\ daemon' = "down" /\ crashes' = crashes + 1
    /\ job' = [i \in Ids |-> Nothing]
    /\ op' = Nothing
    /\ projects' = [i \in Ids |-> Nothing]
    /\ UNCHANGED <<disk, calls, moves, repos, history>>

\* Seeded fault: a project found preparing is left preparing.
interrupt_preparing_none(p) == p

\* main.rs: a project found preparing at start has no job left to finish it.
interrupt_preparing(p) ==
    IF p # Nothing /\ p.state = "preparing" THEN [p EXCEPT !.state = "failed"]
                                            ELSE p

\* State::load, then interrupt_preparing with its save_or_log.
restart ==
    /\ daemon = "down"
    /\ daemon' = "up"
    /\ projects' = [i \in Ids |-> interrupt_preparing(load(disk[i]))]
    /\ LET stuck == {i \in Ids : projects'[i] # load(disk[i])}
       IN \E written \in SUBSET stuck :
             disk' = [i \in Ids |-> IF i \in written
                                    THEN save(i, projects'[i]) ELSE disk[i]]
    /\ UNCHANGED <<job, op, calls, moves, crashes, repos, history>>

-----------------------------------------------------------------------------
(* What people and agents do in the repositories and the files (external). *)

Move == moves < MaxMoves /\ moves' = moves + 1

WinCommit(s, c) ==
    /\ Move /\ win[s].repo
    /\ c \notin UNION {win[t].commits : t \in Sources}
    /\ \A n \in Slugs : ws[n] # Nothing => c \notin ws[n].head
    /\ win' = [win EXCEPT ![s].commits = @ \cup {c}]
    /\ UNCHANGED <<projects, disk, ws, job, op, calls, daemon, crashes, history>>

\* Edits, a branch switch, the folder moved away and back.
WinChange(s) ==
    /\ Move
    /\ \/ win' = [win EXCEPT ![s].dirty = ~@]
       \/ win' = [win EXCEPT ![s].attached = ~@]
       \/ win' = [win EXCEPT ![s].repo = ~@]
    /\ UNCHANGED <<projects, disk, ws, job, op, calls, daemon, crashes, history>>

WorkspaceCommit(n, c) ==
    /\ Move /\ ws[n] # Nothing
    /\ c \notin UNION {win[t].commits : t \in Sources}
    /\ \A m \in Slugs : ws[m] # Nothing => c \notin ws[m].head
    /\ ws' = [ws EXCEPT ![n].head = @ \cup {c}]
    /\ UNCHANGED <<projects, disk, win, job, op, calls, daemon, crashes, history>>

WorkspaceEdit(n) ==
    /\ Move /\ ws[n] # Nothing
    /\ ws' = [ws EXCEPT ![n].dirty = ~@]
    /\ UNCHANGED <<projects, disk, win, job, op, calls, daemon, crashes, history>>

\* A person edits a [sandbox] table into something that does not parse.
HandEdit(i) ==
    /\ Move /\ disk[i] # Nothing /\ disk[i].sandbox # Broken
    /\ disk' = [disk EXCEPT ![i].sandbox = Broken]
    /\ UNCHANGED <<projects, job, op, calls, daemon, crashes, repos, history>>

-----------------------------------------------------------------------------
Dispatcher ==
    \/ \E i \in Ids, s \in Sources, n \in Names : add(i, s, n)
    \/ \E i \in Ids : sync_to_windows(i)
    \/ \E i \in Ids : update_from_windows(i)
    \/ \E i \in Ids, m \in {"keep", "delete", "force"} : remove(i, m)
    \/ \E i \in Ids, s \in Sources : relocate(i, s)
    \/ \E i \in Ids : cancel_job(i)
    \/ \E i \in Ids, n \in Names : rename(i, n)
    \/ \E i \in Ids, f \in Profiles : set_sandbox(i, f)
    \/ EditSave \/ EditEmit
    \/ snapshot_sources \/ compute_presence \/ apply_presence

Worker(i) ==
    \/ start(i) \/ check_cancelled(i) \/ JobSave(i) \/ JobEmit(i)
    \/ AddClone(i) \/ AddRemotes(i) \/ AddConfig(i) \/ mark_ready(i)
    \/ SyncInspect(i) \/ SyncFetch(i) \/ SyncPush(i)
    \/ UpdateFetch(i) \/ UpdateMerge(i)
    \/ RemoveGuard(i) \/ RemoveDelete(i) \/ RemoveForget(i) \/ RemoveEmit(i)
    \/ RelocateHead(i) \/ RelocateSetUrl(i)

People ==
    \/ \E s \in Sources, c \in Commits : WinCommit(s, c)
    \/ \E s \in Sources : WinChange(s)
    \/ \E n \in Slugs, c \in Commits : WorkspaceCommit(n, c)
    \/ \E n \in Slugs : WorkspaceEdit(n)
    \/ \E i \in Ids : HandEdit(i)

Next == Dispatcher \/ (\E i \in Ids : Worker(i)) \/ People \/ crash \/ restart

Spec == Init /\ [][Next]_vars

-----------------------------------------------------------------------------
(* Properties.                                                              *)

\* source_present is a statement about the path the project has: a refresh
\* that stated its flags while a relocate job changed the source does not
\* leave the old path's flag on the new one (apply_presence).
PresenceDescribesItsSource ==
    \A i \in Registered : projects[i].present = projects[i].source

\* A [sandbox] table that a person wrote and the daemon could not read stays
\* in the file through renames, jobs and restarts, until set_sandbox
\* replaces it (store::save).
HandTableKept ==
    [][\A i \in Ids :
          /\ daemon = "up" /\ i \in Registered \ stale
          /\ projects[i].problem
          /\ disk[i] # Nothing /\ disk[i].sandbox = Broken
          /\ ~(op # Nothing /\ op.kind = "sandbox" /\ op.id = i)
          => disk'[i] = Nothing \/ disk'[i].sandbox = Broken]_vars

\* A project shown, or stored, as ready has a workspace whose every setup
\* command succeeded (or one its removal deleted): an add that failed, was
\* cancelled or died half-way never passes for a finished one.
ReadyWasSetUp ==
    \A i \in Ids \ ghosts : \A p \in {projects[i], disk[i]} \ {Nothing} :
        p.state = "ready" => ws[p.slug] = Nothing \/ ws[p.slug].ready

\* A project shown preparing has its add job in flight, across daemon deaths,
\* except after the two holes the code has: the job was cancelled before it
\* began, or a rename put an older clone back over the job's result.
PreparingHasAWorker ==
    \A i \in Registered \ (skipped \cup stale) :
        projects[i].state = "preparing"
            => job[i] # Nothing /\ job[i].kind = "add"

\* Commits made in a workspace survive every operation but a removal that
\* was asked to delete it: updates only fast-forward.
WorkspaceKeepsCommits ==
    [][\A n \in Slugs : ws[n] # Nothing =>
          IF ws'[n] # Nothing THEN ws[n].head \subseteq ws'[n].head
          ELSE \E i \in Ids : /\ job[i] # Nothing /\ job[i].kind = "remove"
                              /\ job[i].mode # "keep" /\ Work(i) = n]_vars

=============================================================================
