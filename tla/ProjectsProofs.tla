--------------------------- MODULE ProjectsProofs ---------------------------
(***************************************************************************)
(* The safety of what the daemon keeps of a project and of what it reads   *)
(* in a project's logs: of Projects, for any number of projects, checkouts *)
(* and commits, and any number of requests, edits and crashes; and of      *)
(* HarnessLogs, for any number of sessions and lines, and any sizes of     *)
(* what is read.  The two have no state in common.                         *)
(*                                                                         *)
(* A project's record exists in up to four copies: in the index, in its    *)
(* file, in the clone its job works on and in the clone a handler is about *)
(* to put back.  The first argument is about all of them at once.          *)
(*                                                                         *)
(* Who wrote a log is guessed from its modified time.  The second argument *)
(* follows each line from who wrote it, and when, to what is said of it.   *)
(***************************************************************************)
EXTENDS Projects, HarnessLogs, SequenceTheorems, FiniteSetTheorems, WellFoundedInduction, TLAPS

\* The clone of project i that its job holds, and the one a handler holds.
JobClone(i) == IF job[i] = Nothing THEN Nothing ELSE job[i].rec
EditClone(i) == IF op \in Edit /\ op.id = i THEN op.rec ELSE Nothing
Copies(i) == {projects[i], disk[i], JobClone(i), EditClone(i)} \ {Nothing}

\* The copies state the presence of the source they name.
PresenceInv == \A i \in Ids : \A p \in Copies(i) : p.present = p.source

\* A job is on a project the index knows, and its step is one of its kind's.
Building == {"queued", "clone", "remotes", "config", "finish"}
JobShape(j) ==
    /\ j.kind = "add" => j.step \in Building \cup {"save", "emit"}
    /\ j.step \in {"forget", "gone"} => j.kind = "remove"
JobInv ==
    /\ daemon = "down" => /\ op = Nothing
                          /\ \A i \in Ids : projects[i] = Nothing /\ job[i] = Nothing
    /\ \A i \in Ids : job[i] # Nothing => /\ projects[i] # Nothing
                                          /\ JobShape(job[i])

\* Whatever is preparing is being prepared, or is one of the known holes.
PreparingInv ==
    \A i \in Ids :
        /\ projects[i] # Nothing /\ projects[i].state = "preparing" =>
              \/ job[i] # Nothing /\ job[i].kind = "add"
              \/ i \in skipped \cup stale
        /\ job[i] # Nothing /\ job[i].rec.state = "preparing" =>
              \/ job[i].kind = "add" /\ job[i].step \in Building
              \/ i \in skipped \cup stale

\* A removed project leaves nothing behind, and the copies of the others agree
\* on their workspace, which is nobody else's.
SlugInv ==
    /\ \A i \in Ids \ ghosts :
          /\ daemon = "up" /\ disk[i] # Nothing => projects[i] # Nothing
          /\ job[i] # Nothing /\ job[i].step = "gone" => disk[i] = Nothing
    /\ \A i \in Ids : job[i] # Nothing /\ job[i].kind = "add" => i \notin ghosts
    /\ \A i \in Ids : \A p, q \in Copies(i) : p.slug = q.slug
    /\ \A i, k \in Ids \ ghosts : \A p \in Copies(i), q \in Copies(k) :
          i # k => p.slug # q.slug

SetUp(n) == ws[n] = Nothing \/ ws[n].ready

\* Only a workspace that was set up belongs to a ready project.
ReadyInv ==
    /\ \A i \in Ids \ ghosts : \A p \in Copies(i) : p.state = "ready" => SetUp(p.slug)
    /\ \A i \in Ids :
          job[i] # Nothing /\ job[i].kind = "add" /\ job[i].step \in Building =>
              /\ \A p \in Copies(i) : p.state # "ready"
              /\ job[i].step = "finish" => SetUp(job[i].rec.slug)

\* An unreadable table is known to whoever is about to save the record.
TableInv ==
    \A i \in Ids \ stale : projects[i] # Nothing =>
        /\ projects[i].problem /\ job[i] # Nothing => job[i].rec.problem
        /\ op \in Edit /\ op.id = i =>
              /\ op.kind = "edit" => op.rec.problem = projects[i].problem
              /\ op.kind = "sandbox" => ~op.rec.problem


-----------------------------------------------------------------------------
(* Records.                                                                 *)

\* Nothing is no record.
LEMMA Distinct ==
    /\ \A p \in Project : p # Nothing
    /\ \A p \in Record : p # Nothing
    /\ \A p \in Task : p # Nothing /\ p.rec \in Project
    /\ \A p \in Workspace : p # Nothing
    /\ \A p \in Edit : p # Nothing /\ p.rec \in Project
                       /\ p.kind \in {"edit", "sandbox"} /\ p.id \in Ids
    /\ \A p \in Refresh : p # Nothing /\ p.kind \in {"presence", "apply"}
<1>1. \A p \in Project : p # Nothing
  BY DEF Project, Nothing
<1>2. \A p \in Record : p # Nothing
  BY DEF Record, Nothing
<1>3. \A p \in Task : p # Nothing /\ p.rec \in Project
  BY DEF Task, Nothing
<1>4. \A p \in Workspace : p # Nothing
  BY DEF Workspace, Nothing
<1>5. \A p \in Edit : p # Nothing /\ p.rec \in Project
                      /\ p.kind \in {"edit", "sandbox"} /\ p.id \in Ids
  BY DEF Edit, Nothing
<1>6. \A p \in Refresh : p # Nothing /\ p.kind \in {"presence", "apply"}
  BY DEF Refresh, Nothing
<1> QED BY <1>1, <1>2, <1>3, <1>4, <1>5, <1>6

\* What store::save writes.
LEMMA Saved ==
    ASSUME RecordTypes, NEW i \in Ids, NEW p \in Project
    PROVE  /\ save(i, p) \in Record /\ save(i, p) # Nothing
           /\ save(i, p).slug = p.slug /\ save(i, p).source = p.source
           /\ save(i, p).state = p.state /\ save(i, p).present = p.present
           /\ p.problem /\ disk[i] # Nothing =>
                  save(i, p).sandbox = disk[i].sandbox
<1>1. /\ p.name \in Names /\ p.slug \in Slugs /\ p.source \in Sources
      /\ p.state \in ProjectStates /\ p.present \in Sources
      /\ p.sandbox \in Profiles
  BY DEF Project
<1>2. disk[i] # Nothing => disk[i].sandbox \in Profiles \cup {Broken}
  BY DEF RecordTypes, Record
<1>3. save(i, p) \in Record
  BY <1>1, <1>2 DEF save, Record
<1> QED BY <1>3, Distinct DEF save

\* What store::load_all reads.
LEMMA Loaded ==
    ASSUME NEW r \in Record
    PROVE  /\ load(r) \in Project
           /\ load(r).slug = r.slug /\ load(r).source = r.source
           /\ load(r).state = r.state /\ load(r).present = r.present
<1>1. r # Nothing
  BY Distinct
<1>2. /\ r.name \in Names /\ r.slug \in Slugs /\ r.source \in Sources
      /\ r.state \in ProjectStates /\ r.present \in Sources
      /\ r.sandbox \in Profiles \cup {Broken} /\ Default \in Profiles
  BY ProjectsAssumption DEF Record, ProjectsAssumption
<1>3. (r.sandbox = Broken) \in BOOLEAN
  OBVIOUS
<1> QED BY <1>1, <1>2, <1>3 DEF load, Project

\* interrupt_preparing keeps everything but the state it ends.
LEMMA Interrupted ==
    ASSUME NEW p \in Project
    PROVE  /\ interrupt_preparing(p) \in Project
           /\ interrupt_preparing(p).slug = p.slug
           /\ interrupt_preparing(p).source = p.source
           /\ interrupt_preparing(p).present = p.present
           /\ interrupt_preparing(p).state # "preparing"
           /\ \/ interrupt_preparing(p).state = p.state
              \/ interrupt_preparing(p).state = "failed"
BY Distinct DEF interrupt_preparing, Project, ProjectStates

\* A record whose state alone was changed...
LEMMA Changed ==
    ASSUME NEW p \in Project, NEW st \in ProjectStates, NEW q,
           q = [p EXCEPT !.state = st]
    PROVE  /\ q \in Project /\ q.state = st /\ q.slug = p.slug
           /\ q.source = p.source /\ q.present = p.present
           /\ q.problem = p.problem
BY DEF Project

\* ...its source...
LEMMA Moved ==
    ASSUME NEW p \in Project, NEW s \in Sources, NEW q,
           q = [p EXCEPT !.source = s, !.present = s]
    PROVE  /\ q \in Project /\ q.state = p.state /\ q.slug = p.slug
           /\ q.source = s /\ q.present = s
           /\ q.problem = p.problem
BY DEF Project

\* ...or its flag.
LEMMA Marked ==
    ASSUME NEW p \in Project, NEW s \in Sources, NEW q,
           q = [p EXCEPT !.present = s]
    PROVE  /\ q \in Project /\ q.state = p.state /\ q.slug = p.slug
           /\ q.source = p.source /\ q.present = s
           /\ q.problem = p.problem
BY DEF Project

\* The smallest free suffix is free: there are as many as project ids.
LEMMA FreeSlug ==
    ASSUME RecordTypes, NEW i \in Ids, projects[i] = Nothing,
           NEW taken, taken = {projects[k].slug : k \in Registered}
    PROVE  slug_for(taken) \in Slugs /\ slug_for(taken) \notin taken
<1> DEFINE n == Cardinality(Ids)
           f == [k \in Registered |-> projects[k].slug]
<1>1. IsFiniteSet(Ids) /\ n \in Nat
  BY ProjectsAssumption, FS_CardinalityType DEF ProjectsAssumption
<1>2. Registered \in SUBSET (Ids \ {i})
  BY DEF Registered
<1>3. IsFiniteSet(Ids \ {i}) /\ Cardinality(Ids \ {i}) = n - 1
  BY <1>1, FS_RemoveElement
<1>4. IsFiniteSet(Registered) /\ Cardinality(Registered) <= n - 1
      /\ Cardinality(Registered) \in Nat
  BY <1>2, <1>3, FS_Subset, FS_CardinalityType
<1>5. f \in Surjection(Registered, taken)
  BY DEF Surjection
<1>6. IsFiniteSet(taken) /\ Cardinality(taken) <= Cardinality(Registered)
  <2> HIDE DEF f
  <2> QED BY <1>4, <1>5, FS_Surjection
<1>7. Cardinality(taken) \in Nat
  BY <1>6, FS_CardinalityType
<1>8. Cardinality(Slugs) = n
  <2>1. Slugs = 1..n
    BY DEF Slugs
  <2> HIDE DEF n
  <2>2. Cardinality(1..n) = n
    BY <1>1, FS_Interval
  <2> QED BY <2>1, <2>2
<1>9. Slugs \ taken # {}
  <2>1. SUFFICES ASSUME Slugs \ taken = {} PROVE FALSE
    OBVIOUS
  <2>2. Slugs \in SUBSET taken
    BY <2>1
  <2>3. Cardinality(Slugs) <= Cardinality(taken)
    BY <1>6, <2>2, FS_Subset
  <2> HIDE DEF n
  <2> QED BY <1>1, <1>4, <1>6, <1>7, <1>8, <2>3
<1>10. \E s \in Slugs \ taken : \A m \in Slugs \ taken : s <= m
  <2> DEFINE R == {ss \in Nat \X Nat : ss[1] < ss[2]}
             S == Slugs \ taken
  <2>1. IsWellFoundedOn(R, Nat)
    BY NatLessThanWellFounded DEF OpToRel
  <2>2. S \subseteq Nat /\ S # {}
    BY <1>1, <1>9 DEF Slugs
  <2>3. \E x \in S : \A y \in S : ~ (<<y, x>> \in R)
    <3> HIDE DEF R, S
    <3> QED BY <2>1, <2>2, WFMin
  <2>4. \E x \in S : \A y \in S : x <= y
    <3>1. PICK x \in S : \A y \in S : ~ (<<y, x>> \in R)
      BY <2>3
    <3>2. ASSUME NEW y \in S
          PROVE  x <= y
      <4>1. x \in Nat /\ y \in Nat /\ <<y, x>> \in Nat \X Nat
        BY <2>2, <3>1, <3>2
      <4>2. ~ (y < x)
        BY <3>1, <4>1
      <4> QED BY <4>1, <4>2
    <3> QED BY <3>1, <3>2
  <2> QED BY <2>4
<1> QED BY <1>10 DEF slug_for

-----------------------------------------------------------------------------
(* How a job's entry may change.                                            *)

Others(i) == \A k \in Ids \ {i} : job'[k] = job[k]
Still == UNCHANGED <<projects, disk, op, daemon, skipped, stale, ghosts>>

\* One entry of the busy set is replaced.
LEMMA JobSet ==
    ASSUME JobTypes, NEW i \in Ids, NEW r \in Task \cup {Nothing},
           job' = [job EXCEPT ![i] = r]
    PROVE  JobTypes' /\ Others(i) /\ job'[i] = r
BY DEF JobTypes, Others

\* A job goes to its next step (Goto).
LEMMA JobGoto ==
    ASSUME JobTypes, NEW i \in Ids, job[i] # Nothing, NEW st \in Steps,
           Goto(i, st)
    PROVE  /\ JobTypes' /\ Others(i)
           /\ job[i] \in Task /\ job'[i] \in Task /\ job'[i] # Nothing
           /\ job'[i].kind = job[i].kind /\ job'[i].rec = job[i].rec
           /\ job'[i].mode = job[i].mode /\ job'[i].step = st
<1> DEFINE r == [job[i] EXCEPT !.step = st]
<1>1. job[i] \in Task
  BY DEF JobTypes
<1>2. /\ r \in Task /\ r.kind = job[i].kind /\ r.rec = job[i].rec
      /\ r.mode = job[i].mode /\ r.step = st
  BY <1>1 DEF Task
<1>3. job' = [job EXCEPT ![i] = r]
  BY DEF Goto
<1> HIDE DEF r
<1>4. JobTypes' /\ Others(i) /\ job'[i] = r
  BY <1>2, <1>3, JobSet
<1> QED BY <1>1, <1>2, <1>4, Distinct

\* A job is cancelled.
LEMMA JobCancel ==
    ASSUME JobTypes, NEW i \in Ids, job[i] # Nothing,
           job' = [job EXCEPT ![i].cancelled = TRUE]
    PROVE  /\ JobTypes' /\ Others(i)
           /\ job[i] \in Task /\ job'[i] \in Task /\ job'[i] # Nothing
           /\ job'[i].kind = job[i].kind /\ job'[i].rec = job[i].rec
           /\ job'[i].step = job[i].step
<1> DEFINE r == [job[i] EXCEPT !.cancelled = TRUE]
<1>1. job[i] \in Task
  BY DEF JobTypes
<1>2. /\ r \in Task /\ r.kind = job[i].kind /\ r.rec = job[i].rec
      /\ r.step = job[i].step
  BY <1>1 DEF Task
<1>3. job' = [job EXCEPT ![i] = r]
  OBVIOUS
<1> HIDE DEF r
<1>4. JobTypes' /\ Others(i) /\ job'[i] = r
  BY <1>2, <1>3, JobSet
<1> QED BY <1>1, <1>2, <1>4, Distinct

\* A job notes what git fetched.
LEMMA JobFetch ==
    ASSUME JobTypes, NEW i \in Ids, job[i] # Nothing, NEW st \in Steps,
           NEW f \in SUBSET Commits,
           job' = [job EXCEPT ![i].fetched = f, ![i].step = st]
    PROVE  /\ JobTypes' /\ Others(i)
           /\ job[i] \in Task /\ job'[i] \in Task /\ job'[i] # Nothing
           /\ job'[i].kind = job[i].kind /\ job'[i].rec = job[i].rec
           /\ job'[i].step = st
<1> DEFINE r == [[job[i] EXCEPT !.fetched = f] EXCEPT !.step = st]
<1>1. job[i] \in Task
  BY DEF JobTypes
<1>2. /\ r \in Task /\ r.kind = job[i].kind /\ r.rec = job[i].rec
      /\ r.step = st
  BY <1>1 DEF Task
<1>3. job' = [job EXCEPT ![i] = r]
  BY DEF JobTypes
<1> HIDE DEF r
<1>4. JobTypes' /\ Others(i) /\ job'[i] = r
  BY <1>2, <1>3, JobSet
<1> QED BY <1>1, <1>2, <1>4, Distinct

\* A job ends with a state for its project.
LEMMA JobVerdict ==
    ASSUME JobTypes, NEW i \in Ids, job[i] # Nothing, NEW st \in ProjectStates,
           job' = [job EXCEPT ![i].step = "save", ![i].rec.state = st]
    PROVE  /\ JobTypes' /\ Others(i)
           /\ job[i] \in Task /\ job'[i] \in Task /\ job'[i] # Nothing
           /\ job'[i].kind = job[i].kind /\ job'[i].step = "save"
           /\ job'[i].rec = [job[i].rec EXCEPT !.state = st]
<1> DEFINE p == [job[i].rec EXCEPT !.state = st]
           r == [[job[i] EXCEPT !.step = "save"] EXCEPT !.rec = p]
<1>1. job[i] \in Task /\ job[i].rec \in Project
  BY Distinct DEF JobTypes
<1>2. p \in Project
  BY <1>1, Changed
<1>3. job' = [job EXCEPT ![i] = r]
  BY <1>1 DEF JobTypes, Task
<1>4. "save" \in Steps
  BY DEF Steps
<1> HIDE DEF p
<1>5. r \in Task /\ r.kind = job[i].kind /\ r.step = "save" /\ r.rec = p
  BY <1>1, <1>2, <1>4 DEF Task
<1> HIDE DEF r
<1>6. JobTypes' /\ Others(i) /\ job'[i] = r
  BY <1>3, <1>5, JobSet
<1> QED BY <1>1, <1>5, <1>6, Distinct DEF p

\* A job ends with a source for its project.
LEMMA JobMoved ==
    ASSUME JobTypes, NEW i \in Ids, job[i] # Nothing, NEW s \in Sources,
           job' = [job EXCEPT ![i].step = "save", ![i].rec.source = s,
                              ![i].rec.present = s]
    PROVE  /\ JobTypes' /\ Others(i)
           /\ job[i] \in Task /\ job'[i] \in Task /\ job'[i] # Nothing
           /\ job'[i].kind = job[i].kind /\ job'[i].step = "save"
           /\ job'[i].rec = [job[i].rec EXCEPT !.source = s, !.present = s]
<1> DEFINE p == [job[i].rec EXCEPT !.source = s, !.present = s]
           r == [[job[i] EXCEPT !.step = "save"] EXCEPT !.rec = p]
<1>1. job[i] \in Task /\ job[i].rec \in Project
  BY Distinct DEF JobTypes
<1>2. p \in Project
  BY <1>1, Moved
<1>3. job' = [job EXCEPT ![i] = r]
  BY <1>1 DEF JobTypes, Task
<1>4. "save" \in Steps
  BY DEF Steps
<1> HIDE DEF p
<1>5. r \in Task /\ r.kind = job[i].kind /\ r.step = "save" /\ r.rec = p
  BY <1>1, <1>2, <1>4 DEF Task
<1> HIDE DEF r
<1>6. JobTypes' /\ Others(i) /\ job'[i] = r
  BY <1>3, <1>5, JobSet
<1> QED BY <1>1, <1>5, <1>6, Distinct DEF p

\* A job ends (End).
LEMMA JobEnd ==
    ASSUME JobTypes, NEW i \in Ids, End(i)
    PROVE  JobTypes' /\ Others(i) /\ job'[i] = Nothing
BY JobSet DEF End

\* A job is submitted (Submit).
LEMMA JobSubmit ==
    ASSUME JobTypes, NEW i \in Ids, NEW kind \in Kinds, NEW rec \in Project,
           NEW to \in Sources, NEW mode \in {"keep", "delete", "force"},
           Submit(i, kind, rec, to, mode)
    PROVE  /\ JobTypes' /\ Others(i)
           /\ job[i] = Nothing /\ job'[i] \in Task /\ job'[i] # Nothing
           /\ job'[i].kind = kind /\ job'[i].rec = rec
           /\ job'[i].step = "queued"
<1> DEFINE r == [kind |-> kind, rec |-> rec, step |-> "queued",
                 cancelled |-> FALSE, to |-> to, mode |-> mode,
                 fetched |-> {}]
<1>1. "queued" \in Steps /\ FALSE \in BOOLEAN /\ {} \in SUBSET Commits
  BY DEF Steps
<1>2. r \in Task /\ r.kind = kind /\ r.rec = rec /\ r.step = "queued"
  BY <1>1 DEF Task
<1>3. job' = [job EXCEPT ![i] = r] /\ job[i] = Nothing
  BY DEF Submit
<1> HIDE DEF r
<1>4. JobTypes' /\ Others(i) /\ job'[i] = r
  BY <1>2, <1>3, JobSet
<1> QED BY <1>2, <1>3, <1>4, Distinct

-----------------------------------------------------------------------------
(* How a workspace may change.                                              *)

\* It stays, gains commits, is deleted by a removal, or is made by an add.
Fate(n) ==
    \/ ws'[n] = ws[n]
    \/ /\ ws[n] # Nothing /\ ws'[n] # Nothing
       /\ ws[n].head \subseteq ws'[n].head
       /\ ws[n].ready => ws'[n].ready
    \/ /\ ws'[n] = Nothing
       /\ \E i \in Ids : /\ job[i] # Nothing /\ job[i].kind = "remove"
                         /\ job[i].mode # "keep" /\ Work(i) = n
    \/ /\ ws[n] = Nothing
       /\ \E i \in Ids : /\ job[i] # Nothing /\ job[i].kind = "add"
                         /\ job[i].step = "clone" /\ Work(i) = n
Fates == \A n \in Slugs : Fate(n)

\* One workspace is replaced.
LEMMA WorkspaceSet ==
    ASSUME RepoTypes, NEW n \in Slugs, NEW w \in Workspace \cup {Nothing},
           ws' = [ws EXCEPT ![n] = w]
    PROVE  /\ ws' \in [Slugs -> Workspace \cup {Nothing}] /\ ws'[n] = w
           /\ \A m \in Slugs \ {n} : ws'[m] = ws[m]
BY DEF RepoTypes

\* The edits a step makes in a workspace that exists.
LEMMA Edited ==
    ASSUME NEW w \in Workspace
    PROVE  /\ w.head \in SUBSET Commits
           /\ [w EXCEPT !.ready = TRUE] \in Workspace
           /\ [w EXCEPT !.ready = TRUE].head = w.head
           /\ [w EXCEPT !.ready = TRUE].ready
BY DEF Workspace

\* A workspace gets another head.
LEMMA Headed ==
    ASSUME NEW w \in Workspace, NEW h \in SUBSET Commits
    PROVE  /\ [w EXCEPT !.head = h] \in Workspace
           /\ [w EXCEPT !.head = h].head = h
           /\ [w EXCEPT !.head = h].ready = w.ready
BY DEF Workspace

\* A workspace gets another `windows` remote.
LEMMA Pointed ==
    ASSUME NEW w \in Workspace, NEW s \in Sources
    PROVE  /\ [w EXCEPT !.remote = s] \in Workspace
           /\ [w EXCEPT !.remote = s].head = w.head
           /\ [w EXCEPT !.remote = s].ready = w.ready
BY DEF Workspace

\* A workspace that is edited and loses no commit meets one of its fates.
LEMMA WorkspaceEdited ==
    ASSUME RepoTypes, NEW n \in Slugs, NEW w \in Workspace, ws[n] # Nothing,
           ws[n].head \subseteq w.head, ws[n].ready => w.ready,
           ws' = [ws EXCEPT ![n] = w]
    PROVE  /\ ws' \in [Slugs -> Workspace \cup {Nothing}]
           /\ Fates /\ ws'[n] = w
<1>1. /\ ws' \in [Slugs -> Workspace \cup {Nothing}] /\ ws'[n] = w
      /\ \A m \in Slugs \ {n} : ws'[m] = ws[m]
  BY WorkspaceSet
<1>2. w # Nothing
  BY Distinct
<1>3. ASSUME NEW m \in Slugs PROVE Fate(m)
  BY <1>1, <1>2 DEF Fate
<1> QED BY <1>1, <1>3 DEF Fates

\* A step that leaves the workspaces alone.
LEMMA WorkspaceSame ==
    ASSUME RepoTypes, UNCHANGED ws
    PROVE  ws' \in [Slugs -> Workspace \cup {Nothing}] /\ Fates
BY DEF RepoTypes, Fates, Fate

\* What a worker does to the repositories.
LEMMA WorkerRepos ==
    ASSUME TypeOK, NEW i \in Ids, Worker(i)
    PROVE  RepoTypes' /\ Fates
<1> USE DEF TypeOK
<1>0. job[i] # Nothing => job[i] \in Task /\ Work(i) \in Slugs
                          /\ job[i].to \in Sources
                          /\ job[i].fetched \in SUBSET Commits
  BY DEF JobTypes, Task, Project, Work
<1>1. ASSUME UNCHANGED repos PROVE RepoTypes' /\ Fates
  BY <1>1, WorkspaceSame DEF repos, RepoTypes
<1>2. ASSUME UNCHANGED win, ws' \in [Slugs -> Workspace \cup {Nothing}]
      PROVE  RepoTypes'
  BY <1>2 DEF RepoTypes
<1>3. ASSUME ws[Work(i)] # Nothing, job[i] # Nothing
      PROVE  ws[Work(i)] \in Workspace
  BY <1>0, <1>3 DEF RepoTypes
<1>4. CASE AddClone(i)
  <2>1. job[i] # Nothing /\ job[i].kind = "add" /\ job[i].step = "clone" /\ win' = win
    BY <1>4 DEF AddClone, Running, At
  <2>2. CASE UNCHANGED ws
    BY <1>2, <2>1, <2>2, WorkspaceSame
  <2>3. CASE ~UNCHANGED ws
    <3> DEFINE w == [head |-> win[job[i].to].commits, dirty |-> FALSE,
                     remote |-> Nothing, ready |-> FALSE]
    <3>1. ws[Work(i)] = Nothing /\ ws' = [ws EXCEPT ![Work(i)] = w]
      BY <1>4, <2>3 DEF AddClone
    <3>2. w \in Workspace
      BY <1>0, <2>1 DEF RepoTypes, Checkout, Workspace
    <3> HIDE DEF w
    <3>3. /\ ws' \in [Slugs -> Workspace \cup {Nothing}]
          /\ \A m \in Slugs \ {Work(i)} : ws'[m] = ws[m]
      BY <1>0, <2>1, <3>1, <3>2, WorkspaceSet
    <3>4. ASSUME NEW m \in Slugs PROVE Fate(m)
      BY <2>1, <3>1, <3>3 DEF Fate
    <3> QED BY <1>2, <2>1, <3>3, <3>4 DEF Fates
  <2> QED BY <2>2, <2>3
<1>5. CASE AddRemotes(i)
  <2>1. job[i] # Nothing /\ win' = win
    BY <1>5 DEF AddRemotes, Running, At
  <2>2. CASE UNCHANGED ws
    BY <1>2, <2>1, <2>2, WorkspaceSame
  <2>3. CASE ~UNCHANGED ws
    <3> DEFINE w == [ws[Work(i)] EXCEPT !.remote = job[i].to]
    <3>1. ws[Work(i)] # Nothing /\ ws' = [ws EXCEPT ![Work(i)] = w]
      BY <1>5, <2>3 DEF AddRemotes
    <3>2. ws[Work(i)] \in Workspace /\ job[i].to \in Sources
      BY <1>0, <1>3, <2>1, <3>1
    <3>3. w \in Workspace /\ w.head = ws[Work(i)].head /\ w.ready = ws[Work(i)].ready
      BY <3>2, Pointed
    <3> HIDE DEF w
    <3> QED BY <1>0, <1>2, <2>1, <3>1, <3>3, WorkspaceEdited
  <2> QED BY <2>2, <2>3
<1>6. CASE AddConfig(i)
  <2>1. job[i] # Nothing
    BY <1>6 DEF AddConfig, Running, At
  <2>2. CASE UNCHANGED repos
    BY <1>1, <2>2
  <2>3. CASE ~UNCHANGED repos
    <3> DEFINE w == [ws[Work(i)] EXCEPT !.ready = TRUE]
    <3>1. /\ ws[Work(i)] # Nothing /\ ws' = [ws EXCEPT ![Work(i)] = w]
          /\ win' = [win EXCEPT ![job[i].to].updateInstead = TRUE]
      BY <1>6, <2>3 DEF AddConfig
    <3>2. w \in Workspace /\ w.head = ws[Work(i)].head /\ w.ready
      BY <1>0, <1>3, <2>1, <3>1, Edited
    <3>3. win' \in [Sources -> Checkout]
      BY <3>1 DEF RepoTypes, Checkout
    <3> HIDE DEF w
    <3>4. ws' \in [Slugs -> Workspace \cup {Nothing}] /\ Fates
      BY <1>0, <2>1, <3>1, <3>2, WorkspaceEdited
    <3> QED BY <3>3, <3>4 DEF RepoTypes
  <2> QED BY <2>2, <2>3
<1>7. CASE SyncPush(i)
  <2>1. job[i] # Nothing /\ ws' = ws
    BY <1>7 DEF SyncPush, Running, At
  <2>2. ws' \in [Slugs -> Workspace \cup {Nothing}] /\ Fates
    BY <2>1, WorkspaceSame
  <2>3. CASE win' = win
    BY <1>1, <2>1, <2>3 DEF repos
  <2>4. CASE win' # win
    <3> DEFINE to == ws[Work(i)].remote
               h == ws[Work(i)].head
    <3>1. ws[Work(i)] # Nothing /\ win' = [win EXCEPT ![to].commits = h]
      BY <1>7, <2>4 DEF SyncPush
    <3>2. h \in SUBSET Commits
      BY <1>3, <2>1, <3>1, Edited
    <3> HIDE DEF to, h
    <3>3. win' \in [Sources -> Checkout]
      BY <3>1, <3>2 DEF RepoTypes, Checkout
    <3> QED BY <2>2, <3>3 DEF RepoTypes
  <2> QED BY <2>3, <2>4
<1>8. CASE UpdateMerge(i)
  <2>1. job[i] # Nothing /\ win' = win
    BY <1>8 DEF UpdateMerge, Running, At
  <2>2. CASE UNCHANGED ws
    BY <1>2, <2>1, <2>2, WorkspaceSame
  <2>3. CASE ~UNCHANGED ws
    <3> DEFINE w == [ws[Work(i)] EXCEPT !.head = job[i].fetched]
    <3>1. /\ ws[Work(i)] # Nothing /\ ws' = [ws EXCEPT ![Work(i)] = w]
          /\ ws[Work(i)].head \subseteq job[i].fetched
      BY <1>8, <2>3 DEF UpdateMerge
    <3>2. ws[Work(i)] \in Workspace /\ job[i].fetched \in SUBSET Commits
      BY <1>0, <1>3, <2>1, <3>1
    <3>3. w \in Workspace /\ w.head = job[i].fetched /\ w.ready = ws[Work(i)].ready
      BY <3>2, Headed
    <3> HIDE DEF w
    <3> QED BY <1>0, <1>2, <2>1, <3>1, <3>3, WorkspaceEdited
  <2> QED BY <2>2, <2>3
<1>9. CASE RemoveDelete(i)
  <2>1. job[i] # Nothing /\ win' = win /\ job[i].kind = "remove"
    BY <1>9 DEF RemoveDelete, Running, At
  <2>2. CASE UNCHANGED ws
    BY <1>2, <2>1, <2>2, WorkspaceSame
  <2>3. CASE ~UNCHANGED ws
    <3>1. job[i].mode # "keep" /\ ws' = [ws EXCEPT ![Work(i)] = Nothing]
      BY <1>9, <2>3 DEF RemoveDelete
    <3>2. /\ ws' \in [Slugs -> Workspace \cup {Nothing}]
          /\ ws'[Work(i)] = Nothing
          /\ \A m \in Slugs \ {Work(i)} : ws'[m] = ws[m]
      BY <1>0, <2>1, <3>1, WorkspaceSet
    <3>3. ASSUME NEW m \in Slugs PROVE Fate(m)
      BY <2>1, <3>1, <3>2 DEF Fate
    <3> QED BY <1>2, <2>1, <3>2, <3>3 DEF Fates
  <2> QED BY <2>2, <2>3
<1>10. CASE RelocateSetUrl(i)
  <2>1. job[i] # Nothing /\ win' = win
    BY <1>10 DEF RelocateSetUrl, Running, At
  <2>2. CASE UNCHANGED ws
    BY <1>2, <2>1, <2>2, WorkspaceSame
  <2>3. CASE ~UNCHANGED ws
    <3> DEFINE w == [ws[Work(i)] EXCEPT !.remote = job[i].to]
    <3>1. ws[Work(i)] # Nothing /\ ws' = [ws EXCEPT ![Work(i)] = w]
      BY <1>10, <2>3 DEF RelocateSetUrl
    <3>2. ws[Work(i)] \in Workspace /\ job[i].to \in Sources
      BY <1>0, <1>3, <2>1, <3>1
    <3>3. w \in Workspace /\ w.head = ws[Work(i)].head /\ w.ready = ws[Work(i)].ready
      BY <3>2, Pointed
    <3> HIDE DEF w
    <3> QED BY <1>0, <1>2, <2>1, <3>1, <3>3, WorkspaceEdited
  <2> QED BY <2>2, <2>3
<1>11. CASE ~(AddClone(i) \/ AddRemotes(i) \/ AddConfig(i) \/ SyncPush(i)
              \/ UpdateMerge(i) \/ RemoveDelete(i) \/ RelocateSetUrl(i))
  <2>1. UNCHANGED repos
    BY <1>11 DEF Worker, start, check_cancelled, JobSave, JobEmit, mark_ready,
                 SyncInspect, SyncFetch, UpdateFetch, RemoveGuard,
                 RemoveForget, RemoveEmit, RelocateHead
  <2> QED BY <1>1, <2>1
<1> QED BY <1>4, <1>5, <1>6, <1>7, <1>8, <1>9, <1>10, <1>11

\* What everybody else does to them.
LEMMA OtherRepos ==
    ASSUME TypeOK, Dispatcher \/ People \/ crash \/ restart \/ UNCHANGED vars
    PROVE  RepoTypes' /\ Fates
<1> USE DEF TypeOK
<1>1. ASSUME UNCHANGED repos PROVE RepoTypes' /\ Fates
  BY <1>1, WorkspaceSame DEF repos, RepoTypes
<1>2. ASSUME UNCHANGED ws, win' \in [Sources -> Checkout]
      PROVE  RepoTypes' /\ Fates
  BY <1>2, WorkspaceSame DEF RepoTypes
<1>3. CASE Dispatcher
  <2>1. UNCHANGED repos
    BY <1>3 DEF Dispatcher, add, sync_to_windows, update_from_windows, remove,
                relocate, cancel_job, rename, set_sandbox, EditSave, EditEmit,
                snapshot_sources, compute_presence, apply_presence
  <2> QED BY <1>1, <2>1
<1>4. CASE crash \/ restart \/ UNCHANGED vars
  BY <1>1, <1>4 DEF crash, restart, vars, repos
<1>5. ASSUME NEW s \in Sources, NEW c \in Commits, WinCommit(s, c)
      PROVE  RepoTypes' /\ Fates
  <2>1. win[s] \in Checkout
    BY DEF RepoTypes
  <2>2. win' = [win EXCEPT ![s].commits = win[s].commits \cup {c}] /\ ws' = ws
    BY <1>5 DEF WinCommit
  <2>3. win[s].commits \cup {c} \in SUBSET Commits
    BY <2>1 DEF Checkout
  <2>4. win' \in [Sources -> Checkout]
    BY <2>2, <2>3 DEF RepoTypes, Checkout
  <2> QED BY <1>2, <2>2, <2>4
<1>6. ASSUME NEW s \in Sources, WinChange(s)
      PROVE  RepoTypes' /\ Fates
  <2>1. win[s] \in Checkout
    BY DEF RepoTypes
  <2>2. /\ ws' = ws
        /\ \/ win' = [win EXCEPT ![s].dirty = ~win[s].dirty]
           \/ win' = [win EXCEPT ![s].attached = ~win[s].attached]
           \/ win' = [win EXCEPT ![s].repo = ~win[s].repo]
    BY <1>6 DEF WinChange
  <2>3. \A b \in BOOLEAN :
           /\ [win[s] EXCEPT !.dirty = b] \in Checkout
           /\ [win[s] EXCEPT !.attached = b] \in Checkout
           /\ [win[s] EXCEPT !.repo = b] \in Checkout
    BY <2>1 DEF Checkout
  <2>4. PICK r \in Checkout : win' = [win EXCEPT ![s] = r]
    <3>1. /\ (~win[s].dirty) \in BOOLEAN /\ (~win[s].attached) \in BOOLEAN
          /\ (~win[s].repo) \in BOOLEAN
      OBVIOUS
    <3>2. CASE win' = [win EXCEPT ![s].dirty = ~win[s].dirty]
      BY <2>3, <3>1, <3>2
    <3>3. CASE win' = [win EXCEPT ![s].attached = ~win[s].attached]
      BY <2>3, <3>1, <3>3
    <3>4. CASE win' = [win EXCEPT ![s].repo = ~win[s].repo]
      BY <2>3, <3>1, <3>4
    <3> QED BY <2>2, <3>2, <3>3, <3>4
  <2>5. win' \in [Sources -> Checkout]
    BY <2>4 DEF RepoTypes
  <2> QED BY <1>2, <2>2, <2>5
<1>7. ASSUME NEW n \in Slugs, NEW c \in Commits, WorkspaceCommit(n, c)
      PROVE  RepoTypes' /\ Fates
  <2> DEFINE w == [ws[n] EXCEPT !.head = ws[n].head \cup {c}]
  <2>1. ws[n] # Nothing /\ ws' = [ws EXCEPT ![n] = w] /\ win' = win
    BY <1>7 DEF WorkspaceCommit
  <2>2. ws[n] \in Workspace
    BY <2>1 DEF RepoTypes
  <2>3. ws[n].head \cup {c} \in SUBSET Commits
    BY <2>2, Edited
  <2>4. w \in Workspace /\ w.head = ws[n].head \cup {c} /\ w.ready = ws[n].ready
    BY <2>2, <2>3, Headed
  <2> HIDE DEF w
  <2>5. ws' \in [Slugs -> Workspace \cup {Nothing}] /\ Fates
    BY <2>1, <2>4, WorkspaceEdited
  <2> QED BY <2>1, <2>5 DEF RepoTypes
<1>8. ASSUME NEW n \in Slugs, WorkspaceEdit(n)
      PROVE  RepoTypes' /\ Fates
  <2> DEFINE w == [ws[n] EXCEPT !.dirty = ~ws[n].dirty]
  <2>1. ws[n] # Nothing /\ ws' = [ws EXCEPT ![n] = w] /\ win' = win
    BY <1>8 DEF WorkspaceEdit
  <2>2. ws[n] \in Workspace /\ (~ws[n].dirty) \in BOOLEAN
    BY <2>1 DEF RepoTypes
  <2>3. w \in Workspace /\ w.head = ws[n].head /\ w.ready = ws[n].ready
    BY <2>2 DEF Workspace
  <2> HIDE DEF w
  <2>4. ws' \in [Slugs -> Workspace \cup {Nothing}] /\ Fates
    BY <2>1, <2>3, WorkspaceEdited
  <2> QED BY <2>1, <2>4 DEF RepoTypes
<1>9. ASSUME NEW i \in Ids, HandEdit(i) PROVE RepoTypes' /\ Fates
  BY <1>1, <1>9 DEF HandEdit
<1> QED BY <1>3, <1>4, <1>5, <1>6, <1>7, <1>8, <1>9 DEF People

-----------------------------------------------------------------------------
(* The steps, told apart by what they do to the copies of a record.         *)

\* The job keeps its clone.
Carried(i) ==
    /\ job[i] # Nothing /\ job'[i] # Nothing
    /\ job'[i].kind = job[i].kind /\ job'[i].rec = job[i].rec
    /\ Others(i)

\* The job moves on, or is cancelled.
Advances(i) ==
    /\ Carried(i) /\ Still
    /\ \/ job'[i].step = job[i].step
       \/ /\ job'[i].step \notin {"gone", "save", "emit"}
          /\ job[i].kind = "add" =>
                job[i].step \in Building /\ job'[i].step \in Building
          /\ job'[i].step = "forget" => job[i].kind = "remove"
          /\ job'[i].step = "finish" => ws'[job[i].rec.slug].ready

\* The job has what it will put back.
Concludes(i) ==
    /\ job[i] # Nothing /\ job'[i] # Nothing /\ Others(i) /\ Still
    /\ job'[i].kind = job[i].kind /\ job'[i].step = "save"
    /\ job[i].kind = "add" => job[i].step \in Building
    /\ job'[i].rec.slug = job[i].rec.slug
    /\ job'[i].rec.problem = job[i].rec.problem
    /\ \/ /\ job'[i].rec.state = "failed"
          /\ job'[i].rec.source = job[i].rec.source
          /\ job'[i].rec.present = job[i].rec.present
       \/ /\ job'[i].rec.state = "ready"
          /\ job'[i].rec.source = job[i].rec.source
          /\ job'[i].rec.present = job[i].rec.present
          /\ job[i].kind = "add" /\ job[i].step = "finish"
       \/ /\ job'[i].rec.state = job[i].rec.state
          /\ job'[i].rec.present = job'[i].rec.source
          /\ job[i].kind # "add"

\* The job ends and puts nothing back.
Drops(i) ==
    /\ job[i] # Nothing /\ job'[i] = Nothing /\ Others(i)
    /\ UNCHANGED <<projects, disk, op, daemon, stale, ghosts>>
    /\ skipped \subseteq skipped'
    /\ job[i].kind = "add" => i \in skipped'

Saves(i) == JobSave(i) /\ Carried(i) /\ job'[i].step = "emit"
Emits(i) == JobEmit(i) /\ job'[i] = Nothing /\ Others(i)
Forgets(i) == RemoveForget(i) /\ Carried(i) /\ job'[i].step = "gone"
Leaves(i) == RemoveEmit(i) /\ job'[i] = Nothing /\ Others(i)

WorkerStep(i) == \/ Advances(i) \/ Concludes(i) \/ Drops(i)
                 \/ Saves(i) \/ Emits(i) \/ Forgets(i) \/ Leaves(i)

\* A job is submitted on the record the index holds.
Submits(i) ==
    /\ projects[i] # Nothing /\ job[i] = Nothing /\ job'[i] # Nothing
    /\ job'[i].rec = projects[i] /\ job'[i].kind # "add"
    /\ job'[i].step = "queued"
    /\ Others(i) /\ Still

\* A handler clones the record the index holds.
Clones(i) ==
    /\ projects[i] # Nothing /\ op \notin Edit /\ daemon = "up"
    /\ op' \in Edit /\ op'.id = i
    /\ op'.rec.slug = projects[i].slug /\ op'.rec.state = projects[i].state
    /\ op'.rec.source = projects[i].source
    /\ op'.rec.present = projects[i].present
    /\ op'.kind = "edit" => op'.rec.problem = projects[i].problem
    /\ op'.kind = "sandbox" => ~op'.rec.problem
    /\ UNCHANGED <<projects, disk, job, daemon, skipped, stale, ghosts>>

\* The records rest.
Rests ==
    /\ UNCHANGED <<projects, disk, job, daemon, skipped, stale, ghosts>>
    /\ op' = op \/ (daemon = "up" /\ op' \notin Edit)

\* The handler's clone is in the file.
EditSaves ==
    /\ daemon = "up" /\ op \in Edit /\ op' \in Edit
    /\ op'.id = op.id /\ op'.rec = op.rec /\ op'.kind = op.kind
    /\ disk' = [disk EXCEPT ![op.id] = save(op.id, op.rec)]
    /\ ghosts' = IF projects[op.id] = Nothing \/ Forgotten(op.id)
                 THEN ghosts \cup {op.id} ELSE ghosts
    /\ UNCHANGED <<projects, job, daemon, skipped, stale>>

Step ==
    \/ \E i \in Ids : WorkerStep(i) \/ Submits(i) \/ Clones(i) \/ HandEdit(i)
    \/ Rests \/ EditSaves \/ (EditEmit /\ op \in Edit) \/ apply_presence
    \/ crash \/ restart

\* The steps of a worker.
LEMMA WorkerShapes ==
    ASSUME TypeOK, JobInv, NEW i \in Ids, Worker(i)
    PROVE  JobTypes' /\ WorkerStep(i)
<1> USE DEF TypeOK
<1>0. /\ job[i] # Nothing => job[i] \in Task /\ job[i].rec \in Project
                             /\ job[i].to \in Sources /\ job[i].kind \in Kinds
                             /\ JobShape(job[i])
      /\ JobTypes
  BY DEF JobTypes, Task, JobInv
<1>1. ASSUME NEW st \in Steps, job[i] # Nothing, Goto(i, st), Still,
             st \notin {"gone", "save", "emit"},
             job[i].kind = "add" => job[i].step \in Building /\ st \in Building,
             st = "forget" => job[i].kind = "remove",
             st = "finish" => ws'[job[i].rec.slug].ready
      PROVE  JobTypes' /\ WorkerStep(i)
  <2>1. JobTypes' /\ Carried(i) /\ job'[i].step = st
    BY <1>0, <1>1, JobGoto DEF Carried
  <2>2. Advances(i)
    BY <1>1, <2>1 DEF Advances
  <2> QED BY <2>1, <2>2 DEF WorkerStep
<1>2. ASSUME job[i] # Nothing, End(i), Still, job[i].kind # "add"
      PROVE  JobTypes' /\ WorkerStep(i)
  <2>1. JobTypes' /\ Others(i) /\ job'[i] = Nothing
    BY <1>0, <1>2, JobEnd
  <2> QED BY <1>2, <2>1 DEF WorkerStep, Drops, Still
<1>3. ASSUME job[i] # Nothing, Still,
             job' = [job EXCEPT ![i].step = "save", ![i].rec.state = "failed"],
             job[i].kind = "add" => job[i].step \in Building
      PROVE  JobTypes' /\ WorkerStep(i)
  <2>1. "failed" \in ProjectStates
    BY DEF ProjectStates
  <2>2. /\ JobTypes' /\ Others(i) /\ job'[i] # Nothing
        /\ job'[i].kind = job[i].kind /\ job'[i].step = "save"
        /\ job'[i].rec = [job[i].rec EXCEPT !.state = "failed"]
    BY <1>0, <1>3, <2>1, JobVerdict
  <2>3. /\ job'[i].rec.slug = job[i].rec.slug
        /\ job'[i].rec.problem = job[i].rec.problem
        /\ job'[i].rec.state = "failed"
        /\ job'[i].rec.source = job[i].rec.source
        /\ job'[i].rec.present = job[i].rec.present
    BY <1>0, <1>3, <2>1, <2>2, Changed
  <2>4. Concludes(i)
    BY <1>3, <2>2, <2>3 DEF Concludes
  <2> QED BY <2>2, <2>4 DEF WorkerStep
<1>4. CASE start(i)
  <2>1. /\ job[i] # Nothing /\ job[i].step = "queued"
        /\ UNCHANGED <<projects, disk, op, daemon, stale, ghosts>>
    BY <1>4 DEF start, life, rest
  <2>2. CASE job[i].cancelled
    <3>1. End(i) /\ skipped' = IF job[i].kind = "add" THEN skipped \cup {i}
                                                      ELSE skipped
      BY <1>4, <2>2 DEF start
    <3>2. JobTypes' /\ Others(i) /\ job'[i] = Nothing
      BY <1>0, <3>1, JobEnd
    <3> QED BY <2>1, <3>1, <3>2 DEF WorkerStep, Drops
  <2>3. CASE ~job[i].cancelled
    <3>1. Goto(i, FirstStep[job[i].kind]) /\ Still
      BY <1>4, <2>1, <2>3 DEF start, Still
    <3>2. /\ FirstStep[job[i].kind] \in Steps
          /\ FirstStep[job[i].kind] \notin {"gone", "save", "emit", "forget", "finish"}
          /\ job[i].kind = "add" => FirstStep[job[i].kind] = "clone"
      BY <1>0, <2>1 DEF FirstStep, Kinds, Steps
    <3>3. "clone" \in Building /\ "queued" \in Building
      BY DEF Building
    <3> QED BY <1>1, <2>1, <3>1, <3>2, <3>3
  <2> QED BY <2>2, <2>3
<1>5. CASE check_cancelled(i)
  <2>1. /\ job[i] # Nothing /\ Still /\ job[i].step \in Checked
        /\ job' = [job EXCEPT ![i].step = "save", ![i].rec.state = "failed"]
    BY <1>5 DEF check_cancelled, Still, life, rest, history
  <2>2. job[i].kind = "add" => job[i].step \in Building
    BY <1>0, <2>1 DEF JobShape, Checked, Building
  <2> QED BY <1>3, <2>1, <2>2
<1>6. CASE JobSave(i)
  <2>1. job[i] # Nothing /\ Goto(i, "emit") /\ "emit" \in Steps
    BY <1>6 DEF JobSave, Steps
  <2>2. JobTypes' /\ Carried(i) /\ job'[i].step = "emit"
    BY <1>0, <2>1, JobGoto DEF Carried
  <2> QED BY <1>6, <2>2 DEF WorkerStep, Saves
<1>7. CASE JobEmit(i)
  <2>1. JobTypes' /\ Others(i) /\ job'[i] = Nothing
    BY <1>0, <1>7, JobEnd DEF JobEmit
  <2> QED BY <1>7, <2>1 DEF WorkerStep, Emits
<1>8. CASE AddClone(i)
  <2>1. job[i] # Nothing /\ job[i].kind = "add" /\ job[i].step = "clone" /\ Still
    BY <1>8 DEF AddClone, Running, At, Still, life, rest, history
  <2>2. /\ "clone" \in Building /\ "remotes" \in Building /\ "remotes" \in Steps
    BY DEF Building, Steps
  <2>3. Goto(i, "remotes") \/ add_fail(i)
    BY <1>8 DEF AddClone
  <2> QED BY <1>1, <1>3, <2>1, <2>2, <2>3 DEF add_fail
<1>9. CASE AddRemotes(i)
  <2>1. job[i] # Nothing /\ job[i].kind = "add" /\ job[i].step = "remotes" /\ Still
    BY <1>9 DEF AddRemotes, Running, At, Still, life, rest, history
  <2>2. /\ "config" \in Building /\ "remotes" \in Building /\ "config" \in Steps
    BY DEF Building, Steps
  <2>3. Goto(i, "config") \/ add_fail(i)
    BY <1>9 DEF AddRemotes
  <2> QED BY <1>1, <1>3, <2>1, <2>2, <2>3 DEF add_fail
<1>10. CASE AddConfig(i)
  <2>1. job[i] # Nothing /\ job[i].kind = "add" /\ job[i].step = "config" /\ Still
    BY <1>10 DEF AddConfig, Running, At, Still, life, rest, history
  <2>2. /\ "config" \in Building /\ "finish" \in Building /\ "finish" \in Steps
    BY DEF Building, Steps
  <2>3. \/ /\ Goto(i, "finish") /\ ws[Work(i)] # Nothing
           /\ ws' = [ws EXCEPT ![Work(i)].ready = TRUE]
        \/ add_fail(i)
    BY <1>10 DEF AddConfig
  <2>4. ASSUME ws[Work(i)] # Nothing, ws' = [ws EXCEPT ![Work(i)].ready = TRUE]
        PROVE  ws'[job[i].rec.slug].ready
    <3>1. Work(i) \in Slugs /\ Work(i) = job[i].rec.slug
      BY <1>0, <2>1 DEF Work, Project
    <3>2. ws[Work(i)] \in Workspace
      BY <2>4, <3>1 DEF RepoTypes
    <3>3. ws'[Work(i)] = [ws[Work(i)] EXCEPT !.ready = TRUE]
      BY <2>4, <3>1 DEF RepoTypes
    <3> QED BY <3>1, <3>2, <3>3, Edited
  <2> QED BY <1>1, <1>3, <2>1, <2>2, <2>3, <2>4 DEF add_fail
<1>11. CASE mark_ready(i)
  <2>1. /\ job[i] # Nothing /\ job[i].kind = "add" /\ job[i].step = "finish" /\ Still
        /\ job' = [job EXCEPT ![i].step = "save", ![i].rec.state = "ready"]
    BY <1>11 DEF mark_ready, Running, At, Still, life, rest, history
  <2>2. "ready" \in ProjectStates /\ "finish" \in Building
    BY DEF ProjectStates, Building
  <2>3. /\ JobTypes' /\ Others(i) /\ job'[i] # Nothing
        /\ job'[i].kind = job[i].kind /\ job'[i].step = "save"
        /\ job'[i].rec = [job[i].rec EXCEPT !.state = "ready"]
    BY <1>0, <2>1, <2>2, JobVerdict
  <2>4. /\ job'[i].rec.slug = job[i].rec.slug
        /\ job'[i].rec.problem = job[i].rec.problem
        /\ job'[i].rec.state = "ready"
        /\ job'[i].rec.source = job[i].rec.source
        /\ job'[i].rec.present = job[i].rec.present
    BY <1>0, <2>1, <2>2, <2>3, Changed
  <2>5. Concludes(i)
    BY <2>1, <2>2, <2>3, <2>4 DEF Concludes
  <2> QED BY <2>3, <2>5 DEF WorkerStep
<1>12. CASE SyncInspect(i)
  <2>1. job[i] # Nothing /\ job[i].kind = "sync" /\ Still
    BY <1>12 DEF SyncInspect, Running, At, Still, life, rest, history
  <2>2. "fetch" \in Steps
    BY DEF Steps
  <2>3. Goto(i, "fetch") \/ End(i)
    BY <1>12 DEF SyncInspect
  <2> QED BY <1>1, <1>2, <2>1, <2>2, <2>3
<1>13. ASSUME NEW st \in {"push", "merge"}, job[i] # Nothing,
              job[i].kind # "add", Fetch(i, st), Still
       PROVE  JobTypes' /\ WorkerStep(i)
  <2> DEFINE f == win[ws[Work(i)].remote].commits
  <2>1. ws[Work(i)].remote \in Sources
    <3>1. Work(i) \in Slugs
      BY <1>0, <1>13 DEF Work, Project
    <3>2. ws[Work(i)] \in Workspace /\ ws[Work(i)].remote # Nothing
      BY <1>13, <3>1 DEF Fetch, RepoTypes
    <3> QED BY <3>2 DEF Workspace
  <2>2. f \in SUBSET Commits
    BY <2>1 DEF RepoTypes, Checkout
  <2>3. job' = [job EXCEPT ![i].fetched = f, ![i].step = st] /\ st \in Steps
    BY <1>13 DEF Fetch, Steps
  <2> HIDE DEF f
  <2>4. JobTypes' /\ Carried(i) /\ job'[i].step = st
    BY <1>0, <1>13, <2>2, <2>3, JobFetch DEF Carried
  <2>5. Advances(i)
    BY <1>13, <2>4 DEF Advances
  <2> QED BY <2>4, <2>5 DEF WorkerStep
<1>14. CASE SyncFetch(i)
  <2>1. job[i] # Nothing /\ job[i].kind = "sync" /\ Still
    BY <1>14 DEF SyncFetch, Running, At, Still, life, rest, history
  <2>2. Fetch(i, "push") \/ End(i)
    BY <1>14 DEF SyncFetch
  <2> QED BY <1>2, <1>13, <2>1, <2>2
<1>15. CASE SyncPush(i)
  <2>1. job[i] # Nothing /\ job[i].kind = "sync" /\ Still /\ End(i)
    BY <1>15 DEF SyncPush, Running, At, Still, life, rest, history
  <2> QED BY <1>2, <2>1
<1>16. CASE UpdateFetch(i)
  <2>1. job[i] # Nothing /\ job[i].kind = "update" /\ Still
    BY <1>16 DEF UpdateFetch, Running, At, Still, life, rest, history
  <2>2. Fetch(i, "merge") \/ End(i)
    BY <1>16 DEF UpdateFetch
  <2> QED BY <1>2, <1>13, <2>1, <2>2
<1>17. CASE UpdateMerge(i)
  <2>1. job[i] # Nothing /\ job[i].kind = "update" /\ Still /\ End(i)
    BY <1>17 DEF UpdateMerge, Running, At, Still, life, rest, history
  <2> QED BY <1>2, <2>1
<1>18. CASE RemoveGuard(i)
  <2>1. job[i] # Nothing /\ job[i].kind = "remove" /\ Still
    BY <1>18 DEF RemoveGuard, Running, At, Still, life, rest, history
  <2>2. "delete" \in Steps
    BY DEF Steps
  <2>3. Goto(i, "delete") \/ End(i)
    BY <1>18 DEF RemoveGuard
  <2> QED BY <1>1, <1>2, <2>1, <2>2, <2>3
<1>19. CASE RemoveDelete(i)
  <2>1. job[i] # Nothing /\ job[i].kind = "remove" /\ Still
    BY <1>19 DEF RemoveDelete, Running, At, Still, life, rest, history
  <2>2. "forget" \in Steps
    BY DEF Steps
  <2>3. Goto(i, "forget") \/ End(i)
    BY <1>19 DEF RemoveDelete
  <2> QED BY <1>1, <1>2, <2>1, <2>2, <2>3
<1>20. CASE RemoveForget(i)
  <2>1. job[i] # Nothing /\ Goto(i, "gone") /\ "gone" \in Steps
    BY <1>20 DEF RemoveForget, At, Steps
  <2>2. JobTypes' /\ Carried(i) /\ job'[i].step = "gone"
    BY <1>0, <2>1, JobGoto DEF Carried
  <2> QED BY <1>20, <2>2 DEF WorkerStep, Forgets
<1>21. CASE RemoveEmit(i)
  <2>1. JobTypes' /\ Others(i) /\ job'[i] = Nothing
    BY <1>0, <1>21, JobEnd DEF RemoveEmit
  <2> QED BY <1>21, <2>1 DEF WorkerStep, Leaves
<1>22. CASE RelocateHead(i)
  <2>1. job[i] # Nothing /\ job[i].kind = "relocate" /\ Still
    BY <1>22 DEF RelocateHead, Running, At, Still, life, rest, history
  <2>2. "set_url" \in Steps
    BY DEF Steps
  <2>3. Goto(i, "set_url") \/ End(i)
    BY <1>22 DEF RelocateHead
  <2> QED BY <1>1, <1>2, <2>1, <2>2, <2>3
<1>23. CASE RelocateSetUrl(i)
  <2>1. job[i] # Nothing /\ job[i].kind = "relocate" /\ Still
    BY <1>23 DEF RelocateSetUrl, Running, At, Still, life, rest, history
  <2>2. CASE End(i)
    BY <1>2, <2>1, <2>2
  <2>3. CASE job' = [job EXCEPT ![i].step = "save", ![i].rec.source = job[i].to,
                                ![i].rec.present = job[i].to]
    <3>1. /\ JobTypes' /\ Others(i) /\ job'[i] # Nothing
          /\ job'[i].kind = job[i].kind /\ job'[i].step = "save"
          /\ job'[i].rec = [job[i].rec EXCEPT !.source = job[i].to,
                                              !.present = job[i].to]
      BY <1>0, <2>1, <2>3, JobMoved
    <3>2. /\ job'[i].rec.slug = job[i].rec.slug
          /\ job'[i].rec.problem = job[i].rec.problem
          /\ job'[i].rec.state = job[i].rec.state
          /\ job'[i].rec.source = job'[i].rec.present
      <4> DEFINE p == job[i].rec
                 q == job'[i].rec
                 s == job[i].to
      <4>1. p \in Project /\ s \in Sources /\ q = [p EXCEPT !.source = s, !.present = s]
        BY <1>0, <2>1, <3>1
      <4> HIDE DEF p, q, s
      <4>2. /\ q.state = p.state /\ q.slug = p.slug
            /\ q.source = q.present /\ q.problem = p.problem
        BY <4>1 DEF Project
      <4> QED BY <4>2 DEF p, q
    <3>3. Concludes(i)
      BY <2>1, <3>1, <3>2 DEF Concludes
    <3> QED BY <3>1, <3>3 DEF WorkerStep
  <2> QED BY <1>23, <2>2, <2>3 DEF RelocateSetUrl
<1> QED BY <1>4, <1>5, <1>6, <1>7, <1>8, <1>9, <1>10, <1>11, <1>12, <1>14,
           <1>15, <1>16, <1>17, <1>18, <1>19, <1>20, <1>21, <1>22, <1>23
        DEF Worker

-----------------------------------------------------------------------------
(* The other steps, and the types.                                          *)

\* The handler in progress, by its kind.
LEMMA OpKinds ==
    ASSUME OpTypes
    PROVE  /\ op # Nothing /\ op.kind \in {"edit", "sandbox"} <=> op \in Edit
           /\ Nothing \notin Edit /\ \A p \in Refresh : p \notin Edit
           /\ op # Nothing /\ op.kind = "presence" =>
                 \E S \in SUBSET Ids : op.sources \in [S -> Sources]
           /\ op # Nothing /\ op.kind = "apply" =>
                 \E S \in SUBSET Ids : op.flags \in [S -> Sources]
<1>1. op \in Edit \/ op \in Refresh \/ op = Nothing
  BY DEF OpTypes
<1>2. \A p \in Refresh : p # Nothing /\ p.kind \in {"presence", "apply"}
  BY Distinct
<1>3. \A p \in Edit : p # Nothing /\ p.kind \in {"edit", "sandbox"}
  BY Distinct
<1>4. \A p \in Refresh : p.kind = "presence" =>
         \E S \in SUBSET Ids : p.sources \in [S -> Sources]
  BY DEF Refresh
<1>5. \A p \in Refresh : p.kind = "apply" =>
         \E S \in SUBSET Ids : p.flags \in [S -> Sources]
  BY DEF Refresh
<1>6. \A p \in Refresh : p \notin Edit
  BY <1>2, <1>3
<1> QED BY <1>1, <1>2, <1>3, <1>4, <1>5, <1>6

\* A handler takes a clone.
LEMMA CloneTaken ==
    ASSUME NEW i \in Ids, NEW k \in {"edit", "sandbox"}, NEW p \in Project,
           NEW q, q = [kind |-> k, id |-> i, step |-> "save", rec |-> p]
    PROVE  q \in Edit /\ q.id = i /\ q.kind = k /\ q.rec = p
BY DEF Edit

\* The steps of everybody else, but `add`.
LEMMA OtherShapes ==
    ASSUME TypeOK, Dispatcher \/ People \/ crash \/ restart \/ UNCHANGED vars,
           ~ \E i \in Ids, s \in Sources, n \in Names : add(i, s, n)
    PROVE  JobTypes' /\ OpTypes' /\ Step
<1> USE DEF TypeOK
<1>0. \A i \in Ids : projects[i] # Nothing =>
         projects[i] \in Project /\ projects[i].source \in Sources
  BY DEF RecordTypes, Project
<1>1. ASSUME NEW i \in Ids, NEW kind \in Kinds \ {"add"}, NEW to \in Sources,
             NEW mode \in {"keep", "delete", "force"}, i \in Registered,
             Submit(i, kind, projects[i], to, mode), Still
      PROVE  JobTypes' /\ OpTypes' /\ Step
  <2>1. projects[i] # Nothing /\ projects[i] \in Project
    BY <1>0, <1>1 DEF Registered
  <2>2. /\ JobTypes' /\ Others(i) /\ job[i] = Nothing /\ job'[i] # Nothing
        /\ job'[i].kind = kind /\ job'[i].rec = projects[i]
        /\ job'[i].step = "queued"
    BY <1>1, <2>1, JobSubmit
  <2>3. Submits(i)
    BY <1>1, <2>1, <2>2 DEF Submits
  <2> QED BY <1>1, <2>2, <2>3 DEF Step, Still, OpTypes
<1>2. ASSUME NEW i \in Ids, sync_to_windows(i) PROVE JobTypes' /\ OpTypes' /\ Step
  <2>1. /\ i \in Registered /\ Still
        /\ Submit(i, "sync", projects[i], projects[i].source, "keep")
    BY <1>2 DEF sync_to_windows, Still, rest, history
  <2>2. projects[i].source \in Sources /\ "sync" \in Kinds \ {"add"}
    BY <1>0, <2>1 DEF Registered, Kinds
  <2> QED BY <1>1, <2>1, <2>2
<1>3. ASSUME NEW i \in Ids, update_from_windows(i)
      PROVE  JobTypes' /\ OpTypes' /\ Step
  <2>1. /\ i \in Registered /\ Still
        /\ Submit(i, "update", projects[i], projects[i].source, "keep")
    BY <1>3 DEF update_from_windows, Still, rest, history
  <2>2. projects[i].source \in Sources /\ "update" \in Kinds \ {"add"}
    BY <1>0, <2>1 DEF Registered, Kinds
  <2> QED BY <1>1, <2>1, <2>2
<1>4. ASSUME NEW i \in Ids, NEW m \in {"keep", "delete", "force"}, remove(i, m)
      PROVE  JobTypes' /\ OpTypes' /\ Step
  <2>1. /\ i \in Registered /\ Still
        /\ Submit(i, "remove", projects[i], projects[i].source, m)
    BY <1>4 DEF remove, Still, rest, history
  <2>2. projects[i].source \in Sources /\ "remove" \in Kinds \ {"add"}
    BY <1>0, <2>1 DEF Registered, Kinds
  <2> QED BY <1>1, <2>1, <2>2
<1>5. ASSUME NEW i \in Ids, NEW s \in Sources, relocate(i, s)
      PROVE  JobTypes' /\ OpTypes' /\ Step
  <2>1. /\ i \in Registered /\ Still
        /\ Submit(i, "relocate", projects[i], s, "keep")
    BY <1>5 DEF relocate, Still, rest, history
  <2>2. "relocate" \in Kinds \ {"add"}
    BY DEF Kinds
  <2> QED BY <1>1, <2>1, <2>2
<1>6. ASSUME NEW i \in Ids, cancel_job(i) PROVE JobTypes' /\ OpTypes' /\ Step
  <2>1. /\ job[i] # Nothing /\ Still
        /\ job' = [job EXCEPT ![i].cancelled = TRUE]
    BY <1>6 DEF cancel_job, Still, rest, history
  <2>2. JobTypes' /\ Carried(i) /\ job'[i].step = job[i].step
    BY <2>1, JobCancel DEF Carried
  <2>3. Advances(i)
    BY <2>1, <2>2 DEF Advances
  <2> QED BY <2>1, <2>2, <2>3 DEF Step, WorkerStep, Still, OpTypes
<1>7. ASSUME NEW i \in Ids, NEW n \in Names, rename(i, n)
      PROVE  JobTypes' /\ OpTypes' /\ Step
  <2> DEFINE p == [projects[i] EXCEPT !.name = n]
  <2>1. /\ projects[i] # Nothing /\ op = Nothing /\ daemon = "up"
        /\ op' = [kind |-> "edit", id |-> i, step |-> "save", rec |-> p]
        /\ UNCHANGED <<projects, disk, job, daemon, skipped, stale, ghosts>>
    BY <1>7 DEF rename, Call, Idle, Registered, rest, history
  <2>2. /\ p \in Project /\ p.slug = projects[i].slug
        /\ p.state = projects[i].state /\ p.source = projects[i].source
        /\ p.present = projects[i].present /\ p.problem = projects[i].problem
    BY <1>0, <2>1 DEF Project
  <2> HIDE DEF p
  <2>3. op' \in Edit /\ op'.id = i /\ op'.rec = p /\ op'.kind = "edit"
    BY <2>1, <2>2, CloneTaken
  <2>4. op \notin Edit
    BY <2>1, OpKinds
  <2>5. Clones(i)
    BY <2>1, <2>2, <2>3, <2>4 DEF Clones
  <2> QED BY <2>1, <2>3, <2>5 DEF Step, OpTypes, JobTypes
<1>8. ASSUME NEW i \in Ids, NEW f \in Profiles, set_sandbox(i, f)
      PROVE  JobTypes' /\ OpTypes' /\ Step
  <2> DEFINE p == [projects[i] EXCEPT !.sandbox = f, !.problem = FALSE]
  <2>1. /\ projects[i] # Nothing /\ op = Nothing /\ daemon = "up"
        /\ op' = [kind |-> "sandbox", id |-> i, step |-> "save", rec |-> p]
        /\ UNCHANGED <<projects, disk, job, daemon, skipped, stale, ghosts>>
    BY <1>8 DEF set_sandbox, Call, Idle, Registered, rest, history
  <2>2. /\ p \in Project /\ p.slug = projects[i].slug
        /\ p.state = projects[i].state /\ p.source = projects[i].source
        /\ p.present = projects[i].present /\ ~p.problem
    BY <1>0, <2>1 DEF Project
  <2> HIDE DEF p
  <2>3. op' \in Edit /\ op'.id = i /\ op'.rec = p /\ op'.kind = "sandbox"
    BY <2>1, <2>2, CloneTaken
  <2>4. op \notin Edit
    BY <2>1, OpKinds
  <2>5. Clones(i)
    BY <2>1, <2>2, <2>3, <2>4 DEF Clones
  <2> QED BY <2>1, <2>3, <2>5 DEF Step, OpTypes, JobTypes
<1>9. CASE EditSave
  <2>1. /\ op \in Edit /\ daemon = "up"
        /\ UNCHANGED <<projects, job, daemon, skipped, stale>>
    BY <1>9, OpKinds DEF EditSave, life, rest
  <2>2. CASE op' = Nothing /\ UNCHANGED <<disk, ghosts>>
    <3>1. Rests
      BY <2>1, <2>2, OpKinds DEF Rests
    <3> QED BY <2>1, <2>2, <3>1 DEF Step, OpTypes, JobTypes
  <2>3. CASE /\ disk' = [disk EXCEPT ![op.id] = save(op.id, op.rec)]
             /\ op' = [op EXCEPT !.step = "emit"]
             /\ ghosts' = IF projects[op.id] = Nothing \/ Forgotten(op.id)
                          THEN ghosts \cup {op.id} ELSE ghosts
    <3>1. /\ op' \in Edit /\ op'.id = op.id /\ op'.rec = op.rec
          /\ op'.kind = op.kind
      BY <2>1, <2>3 DEF Edit
    <3>2. EditSaves
      BY <2>1, <2>3, <3>1 DEF EditSaves
    <3> QED BY <2>1, <3>1, <3>2 DEF Step, OpTypes, JobTypes
  <2> QED BY <1>9, <2>2, <2>3 DEF EditSave
<1>10. CASE EditEmit
  <2>1. op \in Edit /\ op' = Nothing /\ job' = job
    BY <1>10, OpKinds DEF EditEmit
  <2> QED BY <1>10, <2>1 DEF Step, OpTypes, JobTypes
<1>11. CASE snapshot_sources
  <2> DEFINE f == [i \in Registered |-> projects[i].source]
  <2>1. /\ daemon = "up" /\ op' = [kind |-> "presence", sources |-> f]
        /\ UNCHANGED <<projects, disk, job, daemon, skipped, stale, ghosts>>
    BY <1>11 DEF snapshot_sources, Call, Idle, rest, history
  <2>2. Registered \in SUBSET Ids /\ f \in [Registered -> Sources]
    BY <1>0 DEF Registered
  <2> HIDE DEF f
  <2>3. op' \in Refresh
    BY <2>1, <2>2 DEF Refresh
  <2>4. Rests
    BY <2>1, <2>3, OpKinds DEF Rests
  <2> QED BY <2>1, <2>3, <2>4 DEF Step, OpTypes, JobTypes
<1>12. CASE compute_presence
  <2>1. /\ daemon = "up" /\ op' = [kind |-> "apply", flags |-> op.sources]
        /\ op # Nothing /\ op.kind = "presence"
        /\ UNCHANGED <<projects, disk, job, daemon, skipped, stale, ghosts>>
    BY <1>12 DEF compute_presence, life, rest, history
  <2>2. PICK S \in SUBSET Ids : op.sources \in [S -> Sources]
    BY <2>1, OpKinds
  <2>3. op' \in Refresh
    BY <2>1, <2>2 DEF Refresh
  <2>4. Rests
    BY <2>1, <2>3, OpKinds DEF Rests
  <2> QED BY <2>1, <2>3, <2>4 DEF Step, OpTypes, JobTypes
<1>13. CASE apply_presence
  <2>1. op' = Nothing /\ job' = job
    BY <1>13 DEF apply_presence
  <2> QED BY <1>13, <2>1 DEF Step, OpTypes, JobTypes
<1>14. CASE Dispatcher
  <2>1. ~ \E i \in Ids, s \in Sources, n \in Names : add(i, s, n)
    OBVIOUS
  <2> QED BY <1>2, <1>3, <1>4, <1>5, <1>6, <1>7, <1>8, <1>9, <1>10, <1>11,
             <1>12, <1>13, <1>14, <2>1 DEF Dispatcher
<1>15. CASE crash
  BY <1>15 DEF crash, Step, OpTypes, JobTypes
<1>16. CASE restart
  BY <1>16 DEF restart, Step, OpTypes, JobTypes
<1>17. CASE UNCHANGED vars
  BY <1>17 DEF vars, life, rest, history, Step, Rests, OpTypes, JobTypes
<1>18. CASE People
  <2>1. ASSUME NEW i \in Ids, HandEdit(i)
        PROVE  JobTypes' /\ OpTypes' /\ Step
    BY <2>1 DEF HandEdit, Step, OpTypes, JobTypes
  <2>2. CASE \/ \E s \in Sources, c \in Commits : WinCommit(s, c)
             \/ \E s \in Sources : WinChange(s)
             \/ \E n \in Slugs, c \in Commits : WorkspaceCommit(n, c)
             \/ \E n \in Slugs : WorkspaceEdit(n)
    <3>1. UNCHANGED <<projects, disk, job, op, daemon, history>>
      BY <2>2 DEF WinCommit, WinChange, WorkspaceCommit, WorkspaceEdit
    <3> QED BY <3>1 DEF history, Step, Rests, OpTypes, JobTypes
  <2> QED BY <1>18, <2>1, <2>2 DEF People
<1> QED BY <1>14, <1>15, <1>16, <1>17, <1>18

\* A project is added.
Adds(i) ==
    /\ daemon = "up" /\ op = Nothing /\ Fresh(i)
    /\ projects'[i] # Nothing /\ job'[i] # Nothing
    /\ job'[i].rec = projects'[i] /\ job'[i].kind = "add"
    /\ job'[i].step = "queued"
    /\ projects'[i].state = "preparing"
    /\ projects'[i].present = projects'[i].source
    /\ \A k \in Ids : projects[k] # Nothing => projects[k].slug # projects'[i].slug
    /\ \/ disk'[i] = Nothing
       \/ /\ disk'[i].state = "preparing"
          /\ disk'[i].slug = projects'[i].slug
          /\ disk'[i].present = disk'[i].source
    /\ \A k \in Ids \ {i} : projects'[k] = projects[k] /\ disk'[k] = disk[k]
    /\ projects'[i].problem = FALSE
    /\ Others(i) /\ UNCHANGED <<op, daemon, ghosts>>
    /\ skipped' = skipped \ {i} /\ stale' = stale \ {i}

\* The step that adds one.
LEMMA AddShape ==
    ASSUME TypeOK, NEW i \in Ids, NEW s \in Sources, NEW nm \in Names,
           add(i, s, nm)
    PROVE  JobTypes' /\ OpTypes' /\ RecordTypes' /\ Adds(i)
<1> USE DEF TypeOK
<1> DEFINE taken == {projects[k].slug : k \in Registered}
           rec == [name |-> nm, slug |-> slug_for(taken), source |-> s,
                   state |-> "preparing", present |-> s,
                   sandbox |-> Default, problem |-> FALSE]
<1>1. /\ daemon = "up" /\ op = Nothing /\ Fresh(i)
      /\ disk' \in {disk, [disk EXCEPT ![i] = save(i, rec)]}
      /\ projects' = [projects EXCEPT ![i] = rec]
      /\ Submit(i, "add", rec, s, "keep")
      /\ skipped' = skipped \ {i} /\ stale' = stale \ {i}
      /\ UNCHANGED <<op, daemon, ghosts>>
  BY DEF add, Call, Idle, rest
<1>2. projects[i] = Nothing /\ disk[i] = Nothing
  BY <1>1 DEF Fresh
<1>3. slug_for(taken) \in Slugs /\ slug_for(taken) \notin taken
  <2> HIDE DEF taken
  <2>1. taken = {projects[k].slug : k \in Registered}
    BY DEF taken
  <2> QED BY <1>2, <2>1, FreeSlug
<1>4. \A k \in Ids : projects[k] # Nothing => projects[k].slug \in taken
  BY DEF Registered
<1> HIDE DEF taken
<1>5. "preparing" \in ProjectStates /\ Default \in Profiles /\ FALSE \in BOOLEAN
  BY ProjectsAssumption DEF ProjectsAssumption, ProjectStates
<1>6. /\ rec \in Project /\ rec.slug = slug_for(taken) /\ rec.source = s
      /\ rec.present = s /\ rec.state = "preparing" /\ rec.problem = FALSE
  BY <1>3, <1>5 DEF Project
<1> HIDE DEF rec
<1>7. /\ save(i, rec) \in Record /\ save(i, rec).slug = rec.slug
      /\ save(i, rec).state = "preparing"
      /\ save(i, rec).present = save(i, rec).source
  BY <1>6, Saved
<1>8. /\ JobTypes' /\ Others(i) /\ job'[i] # Nothing
      /\ job'[i].kind = "add" /\ job'[i].rec = rec /\ job'[i].step = "queued"
  <2>1. "add" \in Kinds
    BY DEF Kinds
  <2> QED BY <1>1, <1>6, <2>1, JobSubmit
<1>9. projects' \in [Ids -> Project \cup {Nothing}] /\ projects'[i] = rec
      /\ \A k \in Ids \ {i} : projects'[k] = projects[k]
  BY <1>1, <1>6 DEF RecordTypes
<1>10. disk' \in [Ids -> Record \cup {Nothing}]
      /\ disk'[i] \in {Nothing, save(i, rec)}
      /\ \A k \in Ids \ {i} : disk'[k] = disk[k]
  BY <1>1, <1>2, <1>7 DEF RecordTypes
<1>11. rec # Nothing
  BY <1>6, Distinct
<1>12. Adds(i)
  BY <1>1, <1>3, <1>4, <1>6, <1>7, <1>8, <1>9, <1>10, <1>11 DEF Adds
<1> QED BY <1>1, <1>8, <1>9, <1>10, <1>12 DEF RecordTypes, OpTypes

\* The records keep their types.
LEMMA RecordStep ==
    ASSUME TypeOK, Step
    PROVE  RecordTypes'
<1> USE DEF TypeOK
<1>1. ASSUME UNCHANGED <<projects, disk>> PROVE RecordTypes'
  BY <1>1 DEF RecordTypes
<1>2. ASSUME UNCHANGED disk, NEW i \in Ids, NEW p \in Project \cup {Nothing},
             projects' = [projects EXCEPT ![i] = p]
      PROVE  RecordTypes'
  BY <1>2 DEF RecordTypes
<1>3. ASSUME UNCHANGED projects, NEW i \in Ids, NEW r \in Record \cup {Nothing},
             disk' = [disk EXCEPT ![i] = r]
      PROVE  RecordTypes'
  BY <1>3 DEF RecordTypes
<1>4. ASSUME NEW i \in Ids, job[i] # Nothing PROVE job[i].rec \in Project
  BY <1>4, Distinct DEF JobTypes
<1>5. ASSUME NEW i \in Ids, WorkerStep(i) PROVE RecordTypes'
  <2>1. CASE Advances(i) \/ Concludes(i) \/ Drops(i)
    BY <1>1, <2>1 DEF Advances, Concludes, Drops, Still
  <2>2. CASE Saves(i)
    <3>1. /\ job[i] # Nothing /\ projects' = projects
          /\ disk' \in {disk, [disk EXCEPT ![i] = save(i, job[i].rec)]}
      BY <2>2 DEF Saves, JobSave
    <3>2. save(i, job[i].rec) \in Record
      BY <1>4, <3>1, Saved
    <3> QED BY <1>1, <1>3, <3>1, <3>2
  <2>3. CASE Emits(i)
    BY <1>2, <1>4, <2>3 DEF Emits, JobEmit
  <2>4. CASE Forgets(i)
    <3>1. projects' = projects /\ (disk' = disk \/ disk' = [disk EXCEPT ![i] = Nothing])
      BY <2>4 DEF Forgets, RemoveForget
    <3> QED BY <1>1, <1>3, <3>1
  <2>5. CASE Leaves(i)
    BY <1>2, <2>5 DEF Leaves, RemoveEmit
  <2> QED BY <1>5, <2>1, <2>2, <2>3, <2>4, <2>5 DEF WorkerStep
<1>6. ASSUME NEW i \in Ids, Submits(i) \/ Clones(i) PROVE RecordTypes'
  BY <1>1, <1>6 DEF Submits, Clones, Still
<1>7. ASSUME NEW i \in Ids, HandEdit(i) PROVE RecordTypes'
  <2> DEFINE r == [disk[i] EXCEPT !.sandbox = Broken]
  <2>1. disk[i] # Nothing /\ projects' = projects /\ disk' = [disk EXCEPT ![i] = r]
    BY <1>7 DEF HandEdit
  <2>2. disk[i] \in Record
    BY <2>1 DEF RecordTypes
  <2>3. r \in Record
    BY <2>2 DEF Record
  <2> HIDE DEF r
  <2> QED BY <1>3, <2>1, <2>3
<1>8. CASE Rests
  BY <1>1, <1>8 DEF Rests
<1>9. CASE EditSaves
  <2>1. op.id \in Ids /\ op.rec \in Project
    BY <1>9, Distinct DEF EditSaves
  <2>2. save(op.id, op.rec) \in Record
    BY <2>1, Saved
  <2> QED BY <1>3, <1>9, <2>1, <2>2 DEF EditSaves
<1>10. CASE EditEmit /\ op \in Edit
  <2>1. op.id \in Ids /\ op.rec \in Project
    BY <1>10, Distinct
  <2> QED BY <1>2, <1>10, <2>1 DEF EditEmit
<1>11. CASE apply_presence
  <2>1. ASSUME NEW i \in Ids PROVE projects'[i] \in Project \cup {Nothing}
    <3>1. CASE projects'[i] = projects[i]
      BY <3>1 DEF RecordTypes
    <3>2. CASE projects'[i] # projects[i]
      <4>1. /\ projects[i] # Nothing
            /\ projects'[i] = [projects[i] EXCEPT !.present = op.flags[i]]
            /\ projects[i].source = op.flags[i]
        BY <1>11, <3>2 DEF apply_presence
      <4>2. projects[i] \in Project
        BY <4>1 DEF RecordTypes
      <4>3. op.flags[i] \in Sources
        BY <4>1, <4>2 DEF Project
      <4> QED BY <4>1, <4>2, <4>3 DEF Project
    <3> QED BY <3>1, <3>2
  <2>2. projects' \in [Ids -> Project \cup {Nothing}]
    <3>1. projects' = [i \in Ids |-> projects'[i]]
      BY <1>11 DEF apply_presence
    <3> QED BY <2>1, <3>1
  <2> QED BY <1>11, <2>2 DEF apply_presence, RecordTypes
<1>12. CASE crash
  BY <1>12 DEF crash, RecordTypes
<1>13. CASE restart
  <2>1. ASSUME NEW i \in Ids
        PROVE  interrupt_preparing(load(disk[i])) \in Project \cup {Nothing}
    <3>1. CASE disk[i] = Nothing
      BY <3>1 DEF interrupt_preparing, load
    <3>2. CASE disk[i] # Nothing
      <4>1. load(disk[i]) \in Project
        BY <3>2, Loaded DEF RecordTypes
      <4> QED BY <4>1, Interrupted
    <3> QED BY <3>1, <3>2
  <2>2. projects' \in [Ids -> Project \cup {Nothing}]
    BY <1>13, <2>1 DEF restart
  <2>3. PICK written \in SUBSET {i \in Ids : projects'[i] # load(disk[i])} :
           disk' = [i \in Ids |-> IF i \in written
                                  THEN save(i, projects'[i]) ELSE disk[i]]
    BY <1>13 DEF restart
  <2>4. ASSUME NEW i \in written PROVE save(i, projects'[i]) \in Record
    <3>1. i \in Ids /\ projects'[i] # load(disk[i])
      BY <2>3, <2>4
    <3>2. projects'[i] # Nothing
      <4>1. projects'[i] = interrupt_preparing(load(disk[i]))
        BY <1>13, <3>1 DEF restart
      <4>2. disk[i] # Nothing
        BY <3>1, <4>1 DEF interrupt_preparing, load
      <4>3. load(disk[i]) \in Project
        BY <3>1, <4>2, Loaded DEF RecordTypes
      <4>4. projects'[i] \in Project
        BY <4>1, <4>3, Interrupted
      <4> QED BY <4>4, Distinct
    <3>3. projects'[i] \in Project
      BY <2>2, <3>1, <3>2
    <3> QED BY <3>1, <3>3, Saved
  <2>5. disk' \in [Ids -> Record \cup {Nothing}]
    BY <2>3, <2>4 DEF RecordTypes
  <2> QED BY <2>2, <2>5 DEF RecordTypes
<1> QED BY <1>5, <1>6, <1>7, <1>8, <1>9, <1>10, <1>11, <1>12, <1>13 DEF Step

\* The daemon's life and the bounds.
LEMMA LifeStep ==
    ASSUME TypeOK, [Next]_vars
    PROVE  LifeTypes'
<1> USE DEF TypeOK
<1>0. MaxCalls \in Nat /\ MaxMoves \in Nat /\ MaxCrashes \in Nat
  BY ProjectsAssumption DEF ProjectsAssumption
<1>1. CASE Dispatcher
  <2>1. UNCHANGED rest
    BY <1>1 DEF Dispatcher, add, sync_to_windows, update_from_windows, remove,
                relocate, cancel_job, rename, set_sandbox, EditSave, EditEmit,
                snapshot_sources, compute_presence, apply_presence, life
  <2>2. calls' = calls \/ (calls < MaxCalls /\ calls' = calls + 1)
    BY <1>1 DEF Dispatcher, add, sync_to_windows, update_from_windows, remove,
                relocate, cancel_job, rename, set_sandbox, EditSave, EditEmit,
                snapshot_sources, compute_presence, apply_presence, life, Call
  <2>3. calls' \in 0..MaxCalls
    BY <1>0, <2>2 DEF LifeTypes
  <2>4. op \in Edit => op.id \in Ids
    BY Distinct
  <2>5. skipped' \subseteq Ids /\ stale' \subseteq Ids /\ ghosts' \subseteq Ids
    <3>1. CASE EditSave
      BY <2>4, <3>1, OpKinds DEF EditSave, LifeTypes
    <3>2. CASE EditEmit
      BY <2>4, <3>2, OpKinds DEF EditEmit, LifeTypes
    <3>3. CASE ~EditSave /\ ~EditEmit
      BY <1>1, <3>3 DEF Dispatcher, add, sync_to_windows, update_from_windows,
                  remove, relocate, cancel_job, rename, set_sandbox,
                  snapshot_sources, compute_presence, apply_presence, history,
                  LifeTypes
    <3> QED BY <3>1, <3>2, <3>3
  <2> QED BY <2>1, <2>3, <2>5 DEF LifeTypes, rest
<1>2. ASSUME NEW i \in Ids, Worker(i) PROVE LifeTypes'
  <2>1. UNCHANGED life
    BY <1>2 DEF Worker, start, check_cancelled, JobSave, JobEmit, AddClone,
         AddRemotes, AddConfig, mark_ready, SyncInspect, SyncFetch, SyncPush,
         UpdateFetch, UpdateMerge, RemoveGuard, RemoveDelete, RemoveForget,
         RemoveEmit, RelocateHead, RelocateSetUrl
  <2>2. skipped' \subseteq Ids /\ stale' \subseteq Ids /\ ghosts' \subseteq Ids
    BY <1>2 DEF Worker, start, check_cancelled, JobSave, JobEmit, AddClone,
         AddRemotes, AddConfig, mark_ready, SyncInspect, SyncFetch, SyncPush,
         UpdateFetch, UpdateMerge, RemoveGuard, RemoveDelete, RemoveForget,
         RemoveEmit, RelocateHead, RelocateSetUrl, history, LifeTypes
  <2> QED BY <2>1, <2>2 DEF life, rest, LifeTypes
<1>3. CASE People
  <2>1. /\ moves < MaxMoves /\ moves' = moves + 1
        /\ UNCHANGED <<calls, daemon, crashes, history>>
    BY <1>3 DEF People, WinCommit, WinChange, WorkspaceCommit, WorkspaceEdit,
                HandEdit, Move
  <2>2. moves' \in 0..MaxMoves
    BY <1>0, <2>1 DEF LifeTypes
  <2> QED BY <2>1, <2>2 DEF LifeTypes, history
<1>4. CASE crash
  <2>1. crashes' \in 0..MaxCrashes
    BY <1>0, <1>4 DEF crash, LifeTypes
  <2> QED BY <1>4, <2>1 DEF crash, LifeTypes, history
<1>5. CASE restart
  BY <1>5 DEF restart, LifeTypes, history
<1>6. CASE UNCHANGED vars
  BY <1>6 DEF vars, life, rest, history, LifeTypes
<1> QED BY <1>1, <1>2, <1>3, <1>4, <1>5, <1>6 DEF Next

\* Every step but `add` is one of the shapes, and keeps the types.
LEMMA Shapes ==
    ASSUME TypeOK, JobInv, [Next]_vars
    PROVE  TypeOK' /\ Fates /\ (Step \/ \E i \in Ids : Adds(i))
<1>1. RepoTypes' /\ Fates
  BY WorkerRepos, OtherRepos DEF Next
<1>2. LifeTypes'
  BY LifeStep
<1>3. ASSUME NEW i \in Ids, Worker(i)
      PROVE  JobTypes' /\ OpTypes' /\ Step
  <2>1. JobTypes' /\ WorkerStep(i)
    BY <1>3, WorkerShapes
  <2>2. UNCHANGED op
    BY <1>3 DEF Worker, start, check_cancelled, JobSave, JobEmit, AddClone,
         AddRemotes, AddConfig, mark_ready, SyncInspect, SyncFetch, SyncPush,
         UpdateFetch, UpdateMerge, RemoveGuard, RemoveDelete, RemoveForget,
         RemoveEmit, RelocateHead, RelocateSetUrl
  <2> QED BY <2>1, <2>2 DEF Step, TypeOK, OpTypes
<1>4. CASE \E i \in Ids, s \in Sources, n \in Names : add(i, s, n)
  <2>1. PICK i \in Ids, s \in Sources, n \in Names : add(i, s, n)
    BY <1>4
  <2>2. JobTypes' /\ OpTypes' /\ RecordTypes' /\ Adds(i)
    BY <2>1, AddShape
  <2> QED BY <1>1, <1>2, <2>2 DEF TypeOK
<1>5. CASE ~ \E i \in Ids, s \in Sources, n \in Names : add(i, s, n)
  <2>1. JobTypes' /\ OpTypes' /\ Step
    BY <1>3, <1>5, OtherShapes DEF Next
  <2>2. RecordTypes'
    BY <2>1, RecordStep
  <2> QED BY <1>1, <1>2, <2>1, <2>2 DEF TypeOK
<1> QED BY <1>4, <1>5

-----------------------------------------------------------------------------
(* A job is on a project the index knows.                                   *)

\* The index after a refresh of the flags.
LEMMA Applied ==
    ASSUME RecordTypes, apply_presence, NEW i \in Ids
    PROVE  \/ projects'[i] = projects[i]
           \/ /\ projects[i] \in Project /\ projects[i] # Nothing
              /\ projects'[i] \in Project /\ projects'[i] # Nothing
              /\ projects'[i].present = projects'[i].source
              /\ projects'[i].source = projects[i].source
              /\ projects'[i].slug = projects[i].slug
              /\ projects'[i].state = projects[i].state
              /\ projects'[i].problem = projects[i].problem
<1>1. SUFFICES ASSUME projects'[i] # projects[i]
               PROVE  /\ projects[i] \in Project /\ projects[i] # Nothing
                      /\ projects'[i] \in Project /\ projects'[i] # Nothing
                      /\ projects'[i].present = projects'[i].source
                      /\ projects'[i].source = projects[i].source
                      /\ projects'[i].slug = projects[i].slug
                      /\ projects'[i].state = projects[i].state
                      /\ projects'[i].problem = projects[i].problem
  OBVIOUS
<1> DEFINE s == op.flags[i]
           p == projects[i]
           q == projects'[i]
<1>2. p # Nothing /\ q = [p EXCEPT !.present = s] /\ p.source = s
  BY <1>1 DEF apply_presence
<1>3. p \in Project
  BY <1>2 DEF RecordTypes
<1>4. s \in Sources
  BY <1>2, <1>3 DEF Project
<1> HIDE DEF s, p, q
<1>5. /\ q \in Project /\ q.state = p.state /\ q.slug = p.slug
      /\ q.source = p.source /\ q.present = s /\ q.problem = p.problem
  BY <1>2, <1>3, <1>4, Marked
<1>6. q # Nothing
  BY <1>5, Distinct
<1> QED BY <1>2, <1>3, <1>5, <1>6 DEF p, q

\* The records after a restart.
LEMMA Restarted ==
    ASSUME RecordTypes, restart, NEW i \in Ids
    PROVE  /\ disk[i] = Nothing => projects'[i] = Nothing /\ disk'[i] = Nothing
           /\ disk[i] # Nothing =>
                 /\ projects'[i] # Nothing /\ disk'[i] # Nothing
                 /\ projects'[i].state # "preparing"
                 /\ projects'[i].slug = disk[i].slug
                 /\ projects'[i].present = disk[i].present
                 /\ projects'[i].source = disk[i].source
                 /\ projects'[i].state \in {disk[i].state, "failed"}
                 /\ disk'[i].slug = disk[i].slug
                 /\ disk'[i].present = disk[i].present
                 /\ disk'[i].source = disk[i].source
                 /\ disk'[i].state \in {disk[i].state, "failed"}
<1> DEFINE l == load(disk[i])
           p == projects'[i]
<1>1. p = interrupt_preparing(l)
  BY DEF restart
<1>2. PICK written \in SUBSET {k \in Ids : projects'[k] # load(disk[k])} :
           disk' = [k \in Ids |-> IF k \in written
                                  THEN save(k, projects'[k]) ELSE disk[k]]
  BY DEF restart
<1>3. disk'[i] = disk[i] \/ (p # l /\ disk'[i] = save(i, p))
  BY <1>2
<1>4. CASE disk[i] = Nothing
  <2>1. l = Nothing
    BY <1>4 DEF load
  <2>2. p = Nothing
    BY <1>1, <2>1 DEF interrupt_preparing
  <2> QED BY <1>3, <1>4, <2>1, <2>2
<1>5. CASE disk[i] # Nothing
  <2>1. disk[i] \in Record
    BY <1>5 DEF RecordTypes
  <2>2. /\ l \in Project /\ l.slug = disk[i].slug /\ l.source = disk[i].source
        /\ l.state = disk[i].state /\ l.present = disk[i].present
    BY <2>1, Loaded
  <2> HIDE DEF l, p
  <2>3. /\ p \in Project /\ p.slug = l.slug /\ p.source = l.source
        /\ p.present = l.present /\ p.state # "preparing"
        /\ p.state = l.state \/ p.state = "failed"
    BY <1>1, <2>2, Interrupted
  <2>4. /\ save(i, p) # Nothing /\ save(i, p).slug = p.slug
        /\ save(i, p).source = p.source /\ save(i, p).state = p.state
        /\ save(i, p).present = p.present
    BY <2>3, Saved
  <2>5. p # Nothing
    BY <2>3, Distinct
  <2> QED BY <1>3, <1>5, <2>2, <2>3, <2>4, <2>5 DEF p
<1> QED BY <1>4, <1>5

\* One copy is replaced in the index, or in the files.
LEMMA PutBack ==
    ASSUME RecordTypes, NEW i \in Ids
    PROVE  /\ \A p : projects' = [projects EXCEPT ![i] = p] =>
                 /\ projects'[i] = p
                 /\ \A k \in Ids \ {i} : projects'[k] = projects[k]
           /\ \A r : disk' = [disk EXCEPT ![i] = r] =>
                 /\ disk'[i] = r
                 /\ \A k \in Ids \ {i} : disk'[k] = disk[k]
BY DEF RecordTypes

\* JobInv survives a step.
LEMMA JobInvStep ==
    ASSUME TypeOK, JobInv, Step \/ \E i \in Ids : Adds(i)
    PROVE  JobInv'
<1> USE DEF TypeOK
<1>1. ASSUME NEW i \in Ids, job[i] # Nothing
      PROVE  /\ daemon # "down" /\ projects[i] # Nothing /\ JobShape(job[i])
             /\ job[i].rec # Nothing
  BY <1>1, Distinct DEF JobInv, JobTypes
<1>2. ASSUME NEW i \in Ids, Others(i), projects' = projects, daemon' = daemon,
             op' = op, job[i] # Nothing,
             job'[i] # Nothing => JobShape(job'[i])
      PROVE  JobInv'
  BY <1>1, <1>2 DEF JobInv, Others, JobShape
<1>3. ASSUME NEW i \in Ids, WorkerStep(i) PROVE JobInv'
  <2>1. CASE Advances(i)
    <3>1. JobShape(job'[i])
      BY <1>1, <2>1 DEF Advances, Carried, JobShape
    <3> QED BY <1>2, <2>1, <3>1 DEF Advances, Carried, Still
  <2>2. CASE Concludes(i)
    <3>1. JobShape(job'[i])
      BY <2>2 DEF Concludes, JobShape
    <3> QED BY <1>2, <2>2, <3>1 DEF Concludes, Still
  <2>3. CASE Drops(i)
    BY <1>2, <2>3 DEF Drops
  <2>4. CASE Saves(i)
    <3>1. JobShape(job'[i])
      BY <2>4 DEF Saves, JobShape
    <3> QED BY <1>2, <2>4, <3>1 DEF Saves, JobSave, Carried, life, rest
  <2>5. CASE Emits(i)
    <3>1. /\ job[i] # Nothing /\ job'[i] = Nothing /\ Others(i) /\ op' = op
          /\ daemon' = daemon /\ projects' = [projects EXCEPT ![i] = job[i].rec]
      BY <2>5 DEF Emits, JobEmit, life, rest
    <3>2. \A k \in Ids \ {i} : projects'[k] = projects[k]
      BY <3>1, PutBack
    <3> QED BY <1>1, <3>1, <3>2 DEF JobInv, Others, JobShape
  <2>6. CASE Forgets(i)
    <3>1. job[i].kind = "remove" /\ job'[i].kind = "remove"
      BY <2>6 DEF Forgets, Carried, RemoveForget, At
    <3>2. JobShape(job'[i])
      BY <2>6, <3>1 DEF Forgets, JobShape
    <3> QED BY <1>2, <2>6, <3>2 DEF Forgets, RemoveForget, Carried, life, rest
  <2>7. CASE Leaves(i)
    <3>1. /\ job[i] # Nothing /\ job'[i] = Nothing /\ Others(i) /\ op' = op
          /\ daemon' = daemon /\ projects' = [projects EXCEPT ![i] = Nothing]
      BY <2>7 DEF Leaves, RemoveEmit, At, life, rest
    <3>2. \A k \in Ids \ {i} : projects'[k] = projects[k]
      BY <3>1, PutBack
    <3> QED BY <1>1, <3>1, <3>2 DEF JobInv, Others, JobShape
  <2> QED BY <1>3, <2>1, <2>2, <2>3, <2>4, <2>5, <2>6, <2>7 DEF WorkerStep
<1>4. ASSUME NEW i \in Ids, Submits(i) PROVE JobInv'
  <2>1. JobShape(job'[i])
    BY <1>4 DEF Submits, JobShape
  <2> QED BY <1>1, <1>4, <2>1 DEF JobInv, Submits, Others, Still, JobShape
<1>5. ASSUME NEW i \in Ids, Clones(i) PROVE JobInv'
  BY <1>5 DEF JobInv, Clones, JobShape
<1>6. ASSUME NEW i \in Ids, HandEdit(i) PROVE JobInv'
  BY <1>6 DEF JobInv, HandEdit, JobShape
<1>7. CASE Rests
  BY <1>7 DEF JobInv, Rests, JobShape
<1>8. CASE EditSaves
  BY <1>8 DEF JobInv, EditSaves, JobShape
<1>9. CASE EditEmit /\ op \in Edit
  <2>1. op.id \in Ids /\ op.rec # Nothing
    BY <1>9, Distinct
  <2>2. /\ projects'[op.id] = op.rec /\ daemon' = "up" /\ job' = job
        /\ \A k \in Ids \ {op.id} : projects'[k] = projects[k]
    BY <1>9, <2>1, PutBack DEF EditEmit, life, rest
  <2> QED BY <2>1, <2>2 DEF JobInv, JobShape
<1>10. CASE apply_presence
  <2>1. \A k \in Ids : projects[k] # Nothing => projects'[k] # Nothing
    BY <1>10, Applied
  <2>2. daemon' = "up" /\ job' = job
    BY <1>10 DEF apply_presence, life, rest
  <2> QED BY <2>1, <2>2 DEF JobInv, JobShape
<1>11. CASE crash
  BY <1>11 DEF JobInv, crash, JobShape
<1>12. CASE restart
  <2>1. daemon' = "up" /\ \A k \in Ids : job'[k] = Nothing
    BY <1>12 DEF JobInv, restart
  <2> QED BY <2>1 DEF JobInv, JobShape
<1>13. ASSUME NEW i \in Ids, Adds(i) PROVE JobInv'
  <2>1. JobShape(job'[i])
    BY <1>13 DEF Adds, JobShape, Building
  <2> QED BY <1>1, <1>13, <2>1 DEF JobInv, Adds, Others, JobShape
<1> QED BY <1>3, <1>4, <1>5, <1>6, <1>7, <1>8, <1>9, <1>10, <1>11, <1>12, <1>13
        DEF Step

-----------------------------------------------------------------------------
(* Where the copies of a record come from.                                  *)

\* A record made from q: another state only by failing, another source only
\* with its flag.
Descends(p, q) ==
    /\ p.slug = q.slug
    /\ p.state = q.state \/ p.state = "failed"
    /\ p.present = p.source \/ (p.present = q.present /\ p.source = q.source)

\* A copy comes from one there was, or is the result of an add.
Lineage(i, p) ==
    \/ \E q \in Copies(i) : Descends(p, q)
    \/ /\ job[i] # Nothing /\ job[i].kind = "add" /\ job[i].step = "finish"
       /\ job'[i] # Nothing /\ job'[i].step = "save"
       /\ p.slug = job[i].rec.slug
       /\ p.present = job[i].rec.present /\ p.source = job[i].rec.source

FromBefore(i) ==
    /\ projects'[i] # Nothing => Lineage(i, projects'[i])
    /\ disk'[i] # Nothing => Lineage(i, disk'[i])
    /\ job'[i] # Nothing => Lineage(i, job'[i].rec)
    /\ op' \in Edit /\ op'.id = i => Lineage(i, op'.rec)

\* The four places a copy may be in.
LEMMA Places ==
    ASSUME TypeOK, NEW i \in Ids
    PROVE  /\ projects[i] # Nothing => projects[i] \in Copies(i)
           /\ disk[i] # Nothing => disk[i] \in Copies(i)
           /\ job[i] # Nothing => job[i].rec \in Copies(i)
           /\ op \in Edit /\ op.id = i => op.rec \in Copies(i)
           /\ \A p \in Copies(i) :
                 \/ projects[i] # Nothing /\ p = projects[i]
                 \/ disk[i] # Nothing /\ p = disk[i]
                 \/ job[i] # Nothing /\ p = job[i].rec
                 \/ op \in Edit /\ op.id = i /\ p = op.rec
<1>1. job[i] # Nothing => job[i].rec # Nothing
  BY Distinct DEF TypeOK, JobTypes
<1>2. op \in Edit => op.rec # Nothing
  BY Distinct
<1> QED BY <1>1, <1>2 DEF Copies, JobClone, EditClone

\* Every copy after a step but `add` has such a line.
LEMMA CopiesStep ==
    ASSUME TypeOK, TypeOK', JobInv, Step, NEW i \in Ids
    PROVE  FromBefore(i)
<1>0. /\ projects[i] # Nothing => projects[i] \in Copies(i)
      /\ disk[i] # Nothing => disk[i] \in Copies(i)
      /\ job[i] # Nothing => job[i].rec \in Copies(i)
      /\ op \in Edit /\ op.id = i => op.rec \in Copies(i)
  BY Places
<1>1. \A p \in Copies(i) : Lineage(i, p)
  BY DEF Lineage, Descends
<1>2. projects'[i] = projects[i] => (projects'[i] # Nothing => Lineage(i, projects'[i]))
  BY <1>0, <1>1
<1>3. disk'[i] = disk[i] => (disk'[i] # Nothing => Lineage(i, disk'[i]))
  BY <1>0, <1>1
<1>4. (job'[i] # Nothing => job[i] # Nothing /\ job'[i].rec = job[i].rec)
         => (job'[i] # Nothing => Lineage(i, job'[i].rec))
  BY <1>0, <1>1
<1>5. (op' \in Edit => op \in Edit /\ op'.id = op.id /\ op'.rec = op.rec)
         => (op' \in Edit /\ op'.id = i => Lineage(i, op'.rec))
  BY <1>0, <1>1
<1>6. ASSUME NEW q \in Copies(i), q \in Project
      PROVE  Lineage(i, save(i, q))
  <2>1. Descends(save(i, q), q)
    BY <1>6, Saved DEF Descends, TypeOK
  <2> QED BY <2>1 DEF Lineage
<1>7. ASSUME NEW k \in Ids, WorkerStep(k) PROVE FromBefore(i)
  <2>1. k # i => job'[i] = job[i]
    BY <1>7 DEF WorkerStep, Advances, Concludes, Drops, Saves, Emits, Forgets,
                Leaves, Carried, Others
  <2>2. UNCHANGED op
    BY <1>7 DEF WorkerStep, Advances, Concludes, Drops, Saves, Emits, Forgets,
                Leaves, Still, JobSave, JobEmit, RemoveForget, RemoveEmit
  <2>3. CASE Advances(k)
    <3>1. job'[i] # Nothing => job[i] # Nothing /\ job'[i].rec = job[i].rec
      BY <2>1, <2>3 DEF Advances, Carried
    <3>2. UNCHANGED <<projects, disk>>
      BY <2>3 DEF Advances, Still
    <3> QED BY <1>2, <1>3, <1>4, <1>5, <2>2, <3>1, <3>2 DEF FromBefore
  <2>4. CASE Concludes(k)
    <3>1. UNCHANGED <<projects, disk>>
      BY <2>4 DEF Concludes, Still
    <3>2. job'[i] # Nothing => Lineage(i, job'[i].rec)
      <4>1. CASE k # i
        BY <1>4, <2>1, <4>1
      <4>2. CASE k = i
        <5>1. CASE /\ job'[i].rec.state = "ready"
                   /\ job'[i].rec.source = job[i].rec.source
                   /\ job'[i].rec.present = job[i].rec.present
                   /\ job[i].kind = "add" /\ job[i].step = "finish"
          BY <2>4, <4>2, <5>1 DEF Concludes, Lineage
        <5>2. CASE ~ (/\ job'[i].rec.state = "ready"
                      /\ job'[i].rec.source = job[i].rec.source
                      /\ job'[i].rec.present = job[i].rec.present
                      /\ job[i].kind = "add" /\ job[i].step = "finish")
          <6>1. Descends(job'[i].rec, job[i].rec) /\ job[i] # Nothing
            BY <2>4, <4>2, <5>2 DEF Concludes, Descends
          <6> QED BY <1>0, <6>1 DEF Lineage
        <5> QED BY <5>1, <5>2
      <4> QED BY <4>1, <4>2
    <3> QED BY <1>2, <1>3, <1>5, <2>2, <3>1, <3>2 DEF FromBefore
  <2>5. CASE Drops(k)
    <3>1. job'[i] # Nothing => job[i] # Nothing /\ job'[i].rec = job[i].rec
      BY <2>1, <2>5 DEF Drops
    <3>2. UNCHANGED <<projects, disk>>
      BY <2>5 DEF Drops
    <3> QED BY <1>2, <1>3, <1>4, <1>5, <2>2, <3>1, <3>2 DEF FromBefore
  <2>6. CASE Saves(k)
    <3>1. job'[i] # Nothing => job[i] # Nothing /\ job'[i].rec = job[i].rec
      BY <2>1, <2>6 DEF Saves, Carried
    <3>2. /\ projects' = projects /\ job[k] # Nothing
          /\ disk' \in {disk, [disk EXCEPT ![k] = save(k, job[k].rec)]}
      BY <2>6 DEF Saves, JobSave
    <3>3. job[k].rec \in Project
      BY <3>2, Distinct DEF TypeOK, JobTypes
    <3>4. disk'[i] # Nothing => Lineage(i, disk'[i])
      <4>1. disk'[i] = disk[i] \/ (k = i /\ disk'[i] = save(i, job[i].rec))
        BY <3>2, PutBack DEF TypeOK
      <4> QED BY <1>0, <1>3, <1>6, <3>2, <3>3, <4>1
    <3> QED BY <1>2, <1>4, <1>5, <2>2, <3>1, <3>2, <3>4 DEF FromBefore
  <2>7. CASE Emits(k)
    <3>1. job'[i] # Nothing => job[i] # Nothing /\ job'[i].rec = job[i].rec
      BY <2>1, <2>7 DEF Emits
    <3>2. /\ disk' = disk /\ job[k] # Nothing
          /\ projects' = [projects EXCEPT ![k] = job[k].rec]
      BY <2>7 DEF Emits, JobEmit
    <3>3. projects'[i] = projects[i] \/ (k = i /\ projects'[i] = job[i].rec)
      BY <3>2, PutBack DEF TypeOK
    <3>4. projects'[i] # Nothing => Lineage(i, projects'[i])
      BY <1>0, <1>1, <1>2, <3>2, <3>3
    <3> QED BY <1>3, <1>4, <1>5, <2>2, <3>1, <3>2, <3>4 DEF FromBefore
  <2>8. CASE Forgets(k)
    <3>1. job'[i] # Nothing => job[i] # Nothing /\ job'[i].rec = job[i].rec
      BY <2>1, <2>8 DEF Forgets, Carried
    <3>2. projects' = projects /\ (disk' = disk \/ disk' = [disk EXCEPT ![k] = Nothing])
      BY <2>8 DEF Forgets, RemoveForget
    <3>3. disk'[i] # Nothing => Lineage(i, disk'[i])
      <4>1. disk'[i] = disk[i] \/ disk'[i] = Nothing
        BY <3>2, PutBack DEF TypeOK
      <4> QED BY <1>3, <4>1
    <3> QED BY <1>2, <1>4, <1>5, <2>2, <3>1, <3>2, <3>3 DEF FromBefore
  <2>9. CASE Leaves(k)
    <3>1. job'[i] # Nothing => job[i] # Nothing /\ job'[i].rec = job[i].rec
      BY <2>1, <2>9 DEF Leaves
    <3>2. disk' = disk /\ projects' = [projects EXCEPT ![k] = Nothing]
      BY <2>9 DEF Leaves, RemoveEmit
    <3>3. projects'[i] = projects[i] \/ projects'[i] = Nothing
      BY <3>2, PutBack DEF TypeOK
    <3> QED BY <1>2, <1>3, <1>4, <1>5, <2>2, <3>1, <3>2, <3>3 DEF FromBefore
  <2> QED BY <1>7, <2>3, <2>4, <2>5, <2>6, <2>7, <2>8, <2>9 DEF WorkerStep
<1>8. ASSUME NEW k \in Ids, Submits(k) PROVE FromBefore(i)
  <2>1. UNCHANGED <<projects, disk, op>>
    BY <1>8 DEF Submits, Still
  <2>2. job'[i] = job[i] \/ (projects[i] # Nothing /\ job'[i].rec = projects[i])
    BY <1>8 DEF Submits, Others
  <2>3. job'[i] # Nothing => Lineage(i, job'[i].rec)
    BY <1>0, <1>1, <1>4, <2>2
  <2> QED BY <1>2, <1>3, <1>5, <2>1, <2>3 DEF FromBefore
<1>9. ASSUME NEW k \in Ids, Clones(k) PROVE FromBefore(i)
  <2>1. UNCHANGED <<projects, disk, job>> /\ op'.id = k /\ projects[k] # Nothing
    BY <1>9 DEF Clones
  <2>2. Descends(op'.rec, projects[k])
    BY <1>9 DEF Clones, Descends
  <2>3. op' \in Edit /\ op'.id = i => Lineage(i, op'.rec)
    BY <1>0, <2>1, <2>2 DEF Lineage
  <2> QED BY <1>2, <1>3, <1>4, <2>1, <2>3 DEF FromBefore
<1>10. ASSUME NEW k \in Ids, HandEdit(k) PROVE FromBefore(i)
  <2>1. /\ UNCHANGED <<projects, job, op>> /\ disk[k] # Nothing
        /\ disk' = [disk EXCEPT ![k] = [disk[k] EXCEPT !.sandbox = Broken]]
    BY <1>10 DEF HandEdit
  <2>2. \/ disk'[i] = disk[i]
        \/ k = i /\ disk'[i] = [disk[i] EXCEPT !.sandbox = Broken]
    BY <2>1, PutBack DEF TypeOK
  <2>3. ASSUME k = i, disk'[i] = [disk[i] EXCEPT !.sandbox = Broken]
        PROVE  Lineage(i, disk'[i])
    <3>1. disk[i] \in Record
      BY <2>1, <2>3 DEF TypeOK, RecordTypes
    <3>2. Descends(disk'[i], disk[i])
      BY <2>3, <3>1 DEF Descends, Record
    <3> QED BY <1>0, <2>1, <2>3, <3>2 DEF Lineage
  <2> QED BY <1>2, <1>3, <1>4, <1>5, <2>1, <2>2, <2>3 DEF FromBefore
<1>11. CASE Rests
  BY <1>2, <1>3, <1>4, <1>5, <1>11 DEF FromBefore, Rests
<1>12. CASE EditSaves
  <2>1. /\ UNCHANGED <<projects, job>> /\ op \in Edit
        /\ op'.id = op.id /\ op'.rec = op.rec
        /\ disk' = [disk EXCEPT ![op.id] = save(op.id, op.rec)]
    BY <1>12 DEF EditSaves
  <2>2. op.id \in Ids /\ op.rec \in Project
    BY <2>1, Distinct
  <2>3. disk'[i] = disk[i] \/ (op.id = i /\ disk'[i] = save(i, op.rec))
    BY <2>1, <2>2, PutBack DEF TypeOK
  <2>4. disk'[i] # Nothing => Lineage(i, disk'[i])
    BY <1>0, <1>3, <1>6, <2>1, <2>2, <2>3
  <2> QED BY <1>2, <1>4, <1>5, <2>1, <2>4 DEF FromBefore
<1>13. CASE EditEmit /\ op \in Edit
  <2>1. /\ UNCHANGED <<disk, job>> /\ op' = Nothing
        /\ projects' = [projects EXCEPT ![op.id] = op.rec]
    BY <1>13 DEF EditEmit
  <2>2. op.id \in Ids
    BY <1>13, Distinct
  <2>3. projects'[i] = projects[i] \/ (op.id = i /\ projects'[i] = op.rec)
    BY <2>1, <2>2, PutBack DEF TypeOK
  <2>4. projects'[i] # Nothing => Lineage(i, projects'[i])
    BY <1>0, <1>1, <1>2, <1>13, <2>3
  <2>5. op' \notin Edit
    BY <2>1, Distinct
  <2> QED BY <1>3, <1>4, <1>5, <2>1, <2>4, <2>5 DEF FromBefore
<1>14. CASE apply_presence
  <2>1. UNCHANGED <<disk, job>> /\ op' = Nothing
    BY <1>14 DEF apply_presence
  <2>2. projects'[i] # projects[i] => /\ projects[i] # Nothing
                                      /\ Descends(projects'[i], projects[i])
    BY <1>14, Applied DEF TypeOK, Descends
  <2>3. projects'[i] # Nothing => Lineage(i, projects'[i])
    BY <1>0, <1>2, <2>2 DEF Lineage
  <2>4. op' \notin Edit
    BY <2>1, Distinct
  <2> QED BY <1>3, <1>4, <1>5, <2>1, <2>3, <2>4 DEF FromBefore
<1>15. CASE crash
  <2>1. /\ disk' = disk /\ job'[i] = Nothing /\ op' = Nothing
        /\ projects'[i] = Nothing
    BY <1>15 DEF crash
  <2>2. op' \notin Edit
    BY <2>1, Distinct
  <2> QED BY <1>3, <2>1, <2>2 DEF FromBefore
<1>16. CASE restart
  <2>1. UNCHANGED <<job, op>>
    BY <1>16 DEF restart
  <2>2. disk[i] # Nothing => /\ Descends(projects'[i], disk[i])
                             /\ Descends(disk'[i], disk[i])
    BY <1>16, Restarted DEF TypeOK, Descends
  <2>3. disk[i] = Nothing => projects'[i] = Nothing /\ disk'[i] = Nothing
    BY <1>16, Restarted DEF TypeOK
  <2>4. /\ projects'[i] # Nothing => Lineage(i, projects'[i])
        /\ disk'[i] # Nothing => Lineage(i, disk'[i])
    BY <1>0, <2>2, <2>3 DEF Lineage
  <2> QED BY <1>4, <1>5, <2>1, <2>4 DEF FromBefore
<1> QED BY <1>7, <1>8, <1>9, <1>10, <1>11, <1>12, <1>13, <1>14, <1>15, <1>16
        DEF Step

-----------------------------------------------------------------------------
(* The flags describe the path a record names.                              *)

\* The copies after a step.
LEMMA CopiesAfter ==
    ASSUME TypeOK, TypeOK', JobInv, Step, NEW i \in Ids, NEW p \in Copies(i)'
    PROVE  Lineage(i, p)
<1>1. FromBefore(i)
  BY CopiesStep
<1>2. \/ projects'[i] # Nothing /\ p = projects'[i]
      \/ disk'[i] # Nothing /\ p = disk'[i]
      \/ job'[i] # Nothing /\ p = job'[i].rec
      \/ op' \in Edit /\ op'.id = i /\ p = op'.rec
  BY DEF Copies, JobClone, EditClone
<1> QED BY <1>1, <1>2 DEF FromBefore

\* The copies after an `add`.
LEMMA AddCopies ==
    ASSUME TypeOK, NEW i \in Ids, Adds(i)
    PROVE  /\ \A p \in Copies(i)' : /\ p.slug = projects'[i].slug
                                    /\ p.state = "preparing"
                                    /\ p.present = p.source
           /\ \A k \in Ids \ {i} : Copies(k)' \subseteq Copies(k)
<1>1. op' = Nothing /\ op' \notin Edit
  BY Distinct DEF Adds
<1>2. ASSUME NEW p \in Copies(i)'
      PROVE  /\ p.slug = projects'[i].slug /\ p.state = "preparing"
             /\ p.present = p.source
  <2>1. \/ p = projects'[i] \/ (disk'[i] # Nothing /\ p = disk'[i])
        \/ job'[i] # Nothing /\ p = job'[i].rec
    BY <1>1, <1>2 DEF Copies, JobClone, EditClone
  <2> QED BY <2>1 DEF Adds
<1>3. ASSUME NEW k \in Ids \ {i}, NEW p \in Copies(k)' PROVE p \in Copies(k)
  <2>1. p # Nothing /\ (p = projects'[k] \/ p = disk'[k]
                        \/ (job'[k] # Nothing /\ p = job'[k].rec))
    BY <1>1, <1>3 DEF Copies, JobClone, EditClone
  <2>2. /\ projects'[k] = projects[k] /\ disk'[k] = disk[k]
        /\ job'[k] = job[k]
    BY DEF Adds, Others
  <2> QED BY <2>1, <2>2 DEF Copies, JobClone
<1> QED BY <1>2, <1>3

\* PresenceInv survives a step.
LEMMA PresenceStep ==
    ASSUME TypeOK, TypeOK', JobInv, PresenceInv, Step \/ \E i \in Ids : Adds(i)
    PROVE  PresenceInv'
<1>1. CASE Step
  <2>1. ASSUME NEW i \in Ids, NEW p \in Copies(i)' PROVE p.present = p.source
    <3>1. Lineage(i, p)
      BY <1>1, <2>1, CopiesAfter
    <3>2. job[i] # Nothing => job[i].rec.present = job[i].rec.source
      BY Places DEF PresenceInv
    <3> QED BY <3>1, <3>2 DEF Lineage, Descends, PresenceInv
  <2> QED BY <2>1 DEF PresenceInv
<1>2. ASSUME NEW i \in Ids, Adds(i) PROVE PresenceInv'
  <2>1. ASSUME NEW k \in Ids, NEW p \in Copies(k)' PROVE p.present = p.source
    <3>1. CASE k = i
      BY <1>2, <2>1, <3>1, AddCopies
    <3>2. CASE k # i
      BY <1>2, <2>1, <3>2, AddCopies DEF PresenceInv
    <3> QED BY <3>1, <3>2
  <2> QED BY <2>1 DEF PresenceInv
<1> QED BY <1>1, <1>2

-----------------------------------------------------------------------------
(* Whose a workspace is.                                                    *)

\* The jobs after a step but `add`, and the ghosts.
JobLine(i) ==
    job'[i] # Nothing =>
        /\ job'[i].kind = "add" => job[i] # Nothing /\ job[i].kind = "add"
        /\ job'[i].kind = "add" /\ job'[i].step \in Building =>
              /\ job[i].step \in Building /\ job'[i].rec = job[i].rec
              /\ job'[i].step = "finish" =>
                    job[i].step = "finish" \/ ws'[job[i].rec.slug].ready
        /\ job'[i].step = "gone" =>
              job[i] # Nothing /\ (job[i].step = "gone" \/ Forgets(i))

\* Every job has such a line.
LEMMA JobsStep ==
    ASSUME TypeOK, JobInv, Step, NEW i \in Ids
    PROVE  JobLine(i)
<1>1. ASSUME job'[i] = job[i] PROVE JobLine(i)
  BY <1>1 DEF JobLine
<1>2. ASSUME NEW k \in Ids, WorkerStep(k) PROVE JobLine(i)
  <2>1. k # i => job'[i] = job[i]
    BY <1>2 DEF WorkerStep, Advances, Concludes, Drops, Saves, Emits, Forgets,
                Leaves, Carried, Others
  <2>2. CASE k = i
    <3>1. CASE Advances(i)
      BY <3>1 DEF Advances, Carried, JobLine
    <3>2. CASE Concludes(i)
      BY <3>2 DEF Concludes, JobLine, Building
    <3>3. CASE Saves(i)
      BY <3>3 DEF Saves, Carried, JobLine, Building
    <3>4. CASE Forgets(i)
      BY <3>4 DEF Forgets, Carried, JobLine, Building
    <3>5. CASE job'[i] = Nothing
      BY <3>5 DEF JobLine
    <3> QED BY <1>2, <2>2, <3>1, <3>2, <3>3, <3>4, <3>5
            DEF WorkerStep, Drops, Emits, Leaves
  <2> QED BY <1>1, <2>1, <2>2
<1>3. ASSUME NEW k \in Ids, Submits(k) PROVE JobLine(i)
  <2>1. CASE k = i
    BY <1>3, <2>1 DEF Submits, JobLine
  <2>2. CASE k # i
    BY <1>1, <1>3, <2>2 DEF Submits, Others
  <2> QED BY <2>1, <2>2
<1>4. ASSUME NEW k \in Ids, Clones(k) \/ HandEdit(k) PROVE JobLine(i)
  BY <1>1, <1>4 DEF Clones, HandEdit
<1>5. CASE Rests \/ EditSaves \/ EditEmit \/ apply_presence \/ restart
  BY <1>1, <1>5 DEF Rests, EditSaves, EditEmit, apply_presence, restart
<1>6. CASE crash
  BY <1>6 DEF crash, JobLine
<1> QED BY <1>2, <1>3, <1>4, <1>5, <1>6 DEF Step

\* A removed project is remembered as such.
LEMMA GhostsGrow ==
    ASSUME Step \/ \E i \in Ids : Adds(i)
    PROVE  ghosts \subseteq ghosts'
<1>1. ASSUME NEW i \in Ids, WorkerStep(i) PROVE ghosts \subseteq ghosts'
  BY <1>1 DEF WorkerStep, Advances, Concludes, Drops, Saves, Emits, Forgets,
              Leaves, Still, JobSave, JobEmit, RemoveForget, RemoveEmit, history
<1>2. ASSUME NEW i \in Ids, Submits(i) \/ Clones(i) \/ HandEdit(i) \/ Adds(i)
      PROVE  ghosts \subseteq ghosts'
  BY <1>2 DEF Submits, Clones, HandEdit, Adds, Still, history
<1>3. ASSUME Rests \/ EditSaves \/ EditEmit \/ apply_presence \/ crash \/ restart
      PROVE  ghosts \subseteq ghosts'
  BY <1>3 DEF Rests, EditSaves, EditEmit, apply_presence, crash, restart, history
<1> QED BY <1>1, <1>2, <1>3 DEF Step

\* The parts of SlugInv that say what a removed project leaves.
Remains == /\ \A i \in Ids \ ghosts :
                 /\ daemon = "up" /\ disk[i] # Nothing => projects[i] # Nothing
                 /\ job[i] # Nothing /\ job[i].step = "gone" => disk[i] = Nothing
           /\ \A i \in Ids : job[i] # Nothing /\ job[i].kind = "add" => i \notin ghosts

\* They survive a step but `add`.
LEMMA RemainsStep ==
    ASSUME TypeOK, TypeOK', JobInv, Remains, Step
    PROVE  Remains'
<1> USE DEF TypeOK
<1>0. \A i \in Ids : job[i] # Nothing => /\ projects[i] # Nothing
                                         /\ job[i].rec # Nothing
  BY Distinct DEF JobInv, JobTypes
<1>1. ghosts \subseteq ghosts'
  BY GhostsGrow
<1>2. \A i \in Ids : JobLine(i)
  BY JobsStep
<1>3. ASSUME NEW i \in Ids, job'[i] # Nothing, job'[i].kind = "add", i \in ghosts'
      PROVE  FALSE
  <2>1. job[i] # Nothing /\ job[i].kind = "add" /\ i \notin ghosts
    BY <1>2, <1>3 DEF JobLine, Remains
  <2>2. CASE \E k \in Ids : Forgets(k)
    <3>1. PICK k \in Ids : Forgets(k)
      BY <2>2
    <3>2. ghosts' \subseteq ghosts \cup {k} /\ job[k].kind = "remove"
      BY <3>1 DEF Forgets, RemoveForget, At
    <3> QED BY <1>3, <2>1, <3>2
  <2>3. CASE EditSaves
    <3>1. i = op.id /\ (projects[i] = Nothing \/ Forgotten(i))
      BY <1>3, <2>1, <2>3 DEF EditSaves
    <3>2. Forgotten(i) => job[i].kind = "remove"
      BY DEF Forgotten, JobInv, JobShape
    <3> QED BY <1>0, <2>1, <3>1, <3>2
  <2>4. CASE ~(\E k \in Ids : Forgets(k)) /\ ~EditSaves
    <3>1. ghosts' = ghosts
      BY <2>4 DEF Step, WorkerStep, Advances, Concludes, Drops, Saves, Emits,
         Leaves, Still, JobSave, JobEmit, RemoveEmit, history, Submits, Clones,
         HandEdit, Rests, EditEmit, apply_presence, crash, restart
    <3> QED BY <1>3, <2>1, <3>1
  <2> QED BY <2>2, <2>3, <2>4
<1>4. ASSUME NEW i \in Ids \ ghosts', daemon' = "up", disk'[i] # Nothing,
             projects'[i] = Nothing
      PROVE  FALSE
  <2>0. i \notin ghosts
    BY <1>1, <1>4
  <2>1. ASSUME daemon = "up", disk'[i] = disk[i],
               projects[i] # Nothing => projects'[i] # Nothing
        PROVE  FALSE
    BY <1>4, <2>0, <2>1 DEF Remains
  <2>2. ASSUME NEW k \in Ids, WorkerStep(k) PROVE FALSE
    <3>0. daemon = "up"
      <4>1. job[k] # Nothing
        BY <2>2 DEF WorkerStep, Advances, Concludes, Drops, Saves, Emits, Forgets,
                    Leaves, Carried, JobEmit, RemoveEmit, At
      <4> QED BY <4>1 DEF JobInv, LifeTypes
    <3>1. CASE Advances(k) \/ Concludes(k) \/ Drops(k)
      BY <2>1, <3>0, <3>1 DEF Advances, Concludes, Drops, Still
    <3>2. CASE Saves(k)
      <4>1. /\ job[k] # Nothing /\ projects' = projects
            /\ disk' \in {disk, [disk EXCEPT ![k] = save(k, job[k].rec)]}
        BY <3>2 DEF Saves, JobSave
      <4>2. disk'[i] = disk[i] \/ i = k
        BY <4>1, PutBack
      <4> QED BY <1>0, <1>4, <2>1, <3>0, <4>1, <4>2
    <3>3. CASE Emits(k)
      <4>1. /\ job[k] # Nothing /\ disk' = disk
            /\ projects' = [projects EXCEPT ![k] = job[k].rec]
        BY <3>3 DEF Emits, JobEmit
      <4>2. projects'[i] = projects[i] \/ (i = k /\ projects'[i] = job[k].rec)
        BY <4>1, PutBack
      <4> QED BY <1>0, <1>4, <2>1, <3>0, <4>1, <4>2
    <3>4. CASE Forgets(k)
      <4>1. /\ projects' = projects
            /\ disk' = disk \/ disk' = [disk EXCEPT ![k] = Nothing]
        BY <3>4 DEF Forgets, RemoveForget
      <4>2. disk'[i] = disk[i] \/ disk'[i] = Nothing
        BY <4>1, PutBack
      <4> QED BY <1>4, <2>1, <3>0, <4>1, <4>2
    <3>5. CASE Leaves(k)
      <4>1. /\ job[k] # Nothing /\ job[k].step = "gone" /\ disk' = disk
            /\ projects' = [projects EXCEPT ![k] = Nothing]
        BY <3>5 DEF Leaves, RemoveEmit, At
      <4>2. projects'[i] = projects[i] \/ i = k
        BY <4>1, PutBack
      <4> QED BY <1>4, <2>0, <2>1, <3>0, <4>1, <4>2 DEF Remains
    <3> QED BY <2>2, <3>1, <3>2, <3>3, <3>4, <3>5 DEF WorkerStep
  <2>3. ASSUME NEW k \in Ids, Submits(k) \/ Clones(k) PROVE FALSE
    BY <1>4, <2>1, <2>3 DEF Submits, Clones, Still
  <2>4. ASSUME NEW k \in Ids, HandEdit(k) PROVE FALSE
    <3>1. /\ UNCHANGED <<projects, daemon>> /\ disk[k] # Nothing
          /\ disk' = [disk EXCEPT ![k] = [disk[k] EXCEPT !.sandbox = Broken]]
      BY <2>4 DEF HandEdit
    <3>2. disk[i] # Nothing
      BY <1>4, <3>1, PutBack
    <3> QED BY <1>4, <2>0, <3>1, <3>2 DEF Remains
  <2>5. CASE Rests
    BY <1>4, <2>1, <2>5 DEF Rests
  <2>6. CASE EditSaves
    <3>1. /\ UNCHANGED <<projects, daemon>> /\ op \in Edit
          /\ disk' = [disk EXCEPT ![op.id] = save(op.id, op.rec)]
          /\ projects[op.id] = Nothing => op.id \in ghosts'
      BY <2>6 DEF EditSaves
    <3>2. op.id \in Ids
      BY <3>1, Distinct
    <3>3. disk'[i] = disk[i] \/ i = op.id
      BY <3>1, <3>2, PutBack
    <3> QED BY <1>4, <2>1, <3>1, <3>3
  <2>7. CASE EditEmit /\ op \in Edit
    <3>1. /\ disk' = disk /\ projects' = [projects EXCEPT ![op.id] = op.rec]
          /\ daemon = "up"
      BY <2>7 DEF EditEmit
    <3>2. op.id \in Ids /\ op.rec # Nothing
      BY <2>7, Distinct
    <3>3. projects'[i] = projects[i] \/ projects'[i] = op.rec
      BY <3>1, <3>2, PutBack
    <3> QED BY <1>4, <2>1, <3>1, <3>2, <3>3
  <2>8. CASE apply_presence
    <3>1. projects[i] # Nothing => projects'[i] # Nothing
      BY <2>8, Applied
    <3> QED BY <2>1, <2>8, <3>1 DEF apply_presence
  <2>9. CASE crash
    BY <1>4, <2>9 DEF crash
  <2>10. CASE restart
    BY <1>4, <2>10, Restarted
  <2> QED BY <2>2, <2>3, <2>4, <2>5, <2>6, <2>7, <2>8, <2>9, <2>10 DEF Step
<1>5. ASSUME NEW i \in Ids \ ghosts', job'[i] # Nothing, job'[i].step = "gone",
             disk'[i] # Nothing
      PROVE  FALSE
  <2>0. i \notin ghosts /\ job[i] # Nothing /\ (job[i].step = "gone" \/ Forgets(i))
    BY <1>1, <1>2, <1>5 DEF JobLine
  <2>1. CASE Forgets(i)
    <3>1. disk' = [disk EXCEPT ![i] = Nothing] \/ i \in ghosts'
      BY <2>1 DEF Forgets, RemoveForget
    <3> QED BY <1>5, <3>1, PutBack
  <2>2. CASE ~Forgets(i)
    <3>0. disk[i] = Nothing /\ disk'[i] # disk[i] /\ job[i].step = "gone"
      BY <1>5, <2>0, <2>2 DEF Remains
    <3>1. ASSUME NEW k \in Ids, WorkerStep(k) PROVE FALSE
      <4>1. CASE Advances(k) \/ Concludes(k) \/ Drops(k) \/ Emits(k) \/ Leaves(k)
        BY <3>0, <4>1 DEF Advances, Concludes, Drops, Still, Emits, Leaves,
                          JobEmit, RemoveEmit
      <4>2. CASE Saves(k)
        <5>1. /\ job[k].step = "save"
              /\ disk' \in {disk, [disk EXCEPT ![k] = save(k, job[k].rec)]}
          BY <4>2 DEF Saves, JobSave
        <5>2. i = k
          BY <3>0, <5>1, PutBack
        <5> QED BY <3>0, <5>1, <5>2
      <4>3. CASE Forgets(k)
        <5>1. disk' = disk \/ disk' = [disk EXCEPT ![k] = Nothing]
          BY <4>3 DEF Forgets, RemoveForget
        <5> QED BY <1>5, <3>0, <5>1, PutBack
      <4> QED BY <3>1, <4>1, <4>2, <4>3 DEF WorkerStep
    <3>2. ASSUME NEW k \in Ids, Submits(k) \/ Clones(k) PROVE FALSE
      BY <3>0, <3>2 DEF Submits, Clones, Still
    <3>3. ASSUME NEW k \in Ids, HandEdit(k) PROVE FALSE
      <4>1. /\ disk[k] # Nothing
            /\ disk' = [disk EXCEPT ![k] = [disk[k] EXCEPT !.sandbox = Broken]]
        BY <3>3 DEF HandEdit
      <4> QED BY <3>0, <4>1, PutBack
    <3>4. CASE Rests \/ EditEmit \/ apply_presence \/ crash
      BY <3>0, <3>4 DEF Rests, EditEmit, apply_presence, crash
    <3>5. CASE EditSaves
      <4>1. /\ op \in Edit
            /\ disk' = [disk EXCEPT ![op.id] = save(op.id, op.rec)]
            /\ Forgotten(op.id) => op.id \in ghosts'
        BY <3>5 DEF EditSaves
      <4>2. op.id \in Ids
        BY <4>1, Distinct
      <4>3. i = op.id
        BY <3>0, <4>1, <4>2, PutBack
      <4> QED BY <1>5, <2>0, <3>0, <4>1, <4>3 DEF Forgotten
    <3>6. CASE restart
      BY <3>0, <3>6, Restarted
    <3> QED BY <3>1, <3>2, <3>3, <3>4, <3>5, <3>6 DEF Step
  <2> QED BY <2>1, <2>2
<1> QED BY <1>3, <1>4, <1>5 DEF Remains

\* SlugInv survives a step.
LEMMA SlugStep ==
    ASSUME TypeOK, TypeOK', JobInv, SlugInv, Step \/ \E i \in Ids : Adds(i)
    PROVE  SlugInv'
<1>1. Remains
  BY DEF SlugInv, Remains
<1>2. ghosts \subseteq ghosts'
  BY GhostsGrow
<1>3. CASE Step
  <2>1. Remains'
    BY <1>1, <1>3, RemainsStep
  <2>2. ASSUME NEW i \in Ids, NEW p \in Copies(i)'
        PROVE  \E q \in Copies(i) : p.slug = q.slug
    <3>1. Lineage(i, p)
      BY <1>3, <2>2, CopiesAfter
    <3>2. job[i] # Nothing => job[i].rec \in Copies(i)
      BY Places
    <3> QED BY <3>1, <3>2 DEF Lineage, Descends
  <2>3. \A i \in Ids : \A p, q \in Copies(i) : p.slug = q.slug
    BY DEF SlugInv
  <2>4. \A i, k \in Ids \ ghosts : \A p \in Copies(i), q \in Copies(k) :
           i # k => p.slug # q.slug
    BY DEF SlugInv
  <2>5. ASSUME NEW i \in Ids, NEW p \in Copies(i)', NEW q \in Copies(i)'
        PROVE  p.slug = q.slug
    BY <2>2, <2>3, <2>5
  <2>6. ASSUME NEW i \in Ids \ ghosts', NEW k \in Ids \ ghosts',
               NEW p \in Copies(i)', NEW q \in Copies(k)', i # k
        PROVE  p.slug # q.slug
    <3>1. i \in Ids \ ghosts /\ k \in Ids \ ghosts
      BY <1>2
    <3>2. PICK p0 \in Copies(i) : p.slug = p0.slug
      BY <2>2, <2>6
    <3>3. PICK q0 \in Copies(k) : q.slug = q0.slug
      BY <2>2, <2>6
    <3> QED BY <2>4, <2>6, <3>1, <3>2, <3>3
  <2> QED BY <2>1, <2>5, <2>6 DEF SlugInv, Remains
<1>4. ASSUME NEW i \in Ids, Adds(i) PROVE SlugInv'
  <2>1. /\ \A p \in Copies(i)' : p.slug = projects'[i].slug
        /\ \A k \in Ids \ {i} : Copies(k)' \subseteq Copies(k)
    BY <1>4, AddCopies
  <2>2. ASSUME NEW k \in Ids \ {i}, k \notin ghosts, NEW p \in Copies(k)
        PROVE  p.slug # projects'[i].slug
    <3>1. op \notin Edit /\ daemon = "up"
      BY <1>4, Distinct DEF Adds
    <3>2. projects[k] # Nothing
      <4>1. job[k] # Nothing => projects[k] # Nothing
        BY DEF JobInv
      <4> QED BY <1>1, <2>2, <3>1, <4>1, Places DEF Remains
    <3>3. p.slug = projects[k].slug
      BY <2>2, <3>2, Places DEF SlugInv
    <3> QED BY <1>4, <3>2, <3>3 DEF Adds
  <2>3. Remains'
    <3>1. projects'[i] # Nothing /\ job'[i].step = "queued" /\ i \notin ghosts
      BY <1>4 DEF Adds, Fresh
    <3>2. \A k \in Ids \ {i} : /\ projects'[k] = projects[k]
                               /\ disk'[k] = disk[k] /\ job'[k] = job[k]
      BY <1>4 DEF Adds, Others
    <3>3. ghosts' = ghosts /\ daemon' = daemon
      BY <1>4 DEF Adds
    <3> QED BY <1>1, <3>1, <3>2, <3>3 DEF Remains
  <2>4. \A k \in Ids : \A p, q \in Copies(k)' : p.slug = q.slug
    BY <2>1 DEF SlugInv
  <2>5. ASSUME NEW j \in Ids \ ghosts', NEW k \in Ids \ ghosts',
               NEW p \in Copies(j)', NEW q \in Copies(k)', j # k
        PROVE  p.slug # q.slug
    <3>1. j \notin ghosts /\ k \notin ghosts
      BY <1>2
    <3>2. CASE j = i
      <4>1. q \in Copies(k) /\ p.slug = projects'[i].slug
        BY <2>1, <2>5, <3>2
      <4> QED BY <2>2, <2>5, <3>1, <3>2, <4>1
    <3>3. CASE k = i
      <4>1. p \in Copies(j) /\ q.slug = projects'[i].slug
        BY <2>1, <2>5, <3>3
      <4>2. p.slug # projects'[i].slug
        BY <2>2, <2>5, <3>1, <3>3, <4>1
      <4> QED BY <4>1, <4>2
    <3>4. CASE j # i /\ k # i
      <4>1. p \in Copies(j) /\ q \in Copies(k)
        BY <2>1, <2>5, <3>4
      <4> QED BY <2>5, <3>1, <4>1 DEF SlugInv
    <3> QED BY <3>2, <3>3, <3>4
  <2> QED BY <2>3, <2>4, <2>5 DEF SlugInv, Remains
<1> QED BY <1>3, <1>4

-----------------------------------------------------------------------------
(* A ready project has a workspace that was set up.                         *)

\* A workspace that no add is about to clone stays set up.
LEMMA StaysSetUp ==
    ASSUME Fates, NEW n \in Slugs, SetUp(n),
           \A k \in Ids : ~(/\ job[k] # Nothing /\ job[k].kind = "add"
                            /\ job[k].step = "clone" /\ Work(k) = n)
    PROVE  ws'[n] = Nothing \/ ws'[n].ready
BY DEF Fates, Fate, SetUp

\* ReadyInv survives a step.
LEMMA ReadyStep ==
    ASSUME TypeOK, TypeOK', JobInv, SlugInv, ReadyInv, Fates,
           Step \/ \E i \in Ids : Adds(i)
    PROVE  ReadyInv'
<1>1. ghosts \subseteq ghosts'
  BY GhostsGrow
<1>2. \A i \in Ids : job[i] # Nothing /\ job[i].kind = "add" => i \in Ids \ ghosts
  BY DEF SlugInv
<1>3. \A i \in Ids : job[i] # Nothing => job[i].rec \in Copies(i)
                                         /\ Work(i) = job[i].rec.slug
  BY Places DEF Work
<1>4. ASSUME NEW i \in Ids \ ghosts, NEW q \in Copies(i), q.state = "ready"
      PROVE  ws'[q.slug] = Nothing \/ ws'[q.slug].ready
  <2>1. SetUp(q.slug)
    BY <1>4 DEF ReadyInv
  <2>2. q.slug \in Slugs
    BY <1>4, Places, Distinct DEF TypeOK, RecordTypes, JobTypes, Project, Record
  <2>3. ASSUME NEW k \in Ids, job[k] # Nothing, job[k].kind = "add",
               job[k].step = "clone", Work(k) = q.slug
        PROVE  FALSE
    <3>1. k = i
      BY <1>2, <1>3, <1>4, <2>3 DEF SlugInv
    <3>2. job[i].step \in Building
      BY <2>3, <3>1 DEF Building
    <3> QED BY <1>4, <2>3, <3>1, <3>2 DEF ReadyInv
  <2> QED BY <2>1, <2>2, <2>3, StaysSetUp
<1>5. ASSUME NEW i \in Ids, job[i] # Nothing, job[i].kind = "add",
             job[i].step = "finish"
      PROVE  ws'[job[i].rec.slug] = Nothing \/ ws'[job[i].rec.slug].ready
  <2>1. SetUp(job[i].rec.slug)
    BY <1>5 DEF ReadyInv, Building
  <2>2. job[i].rec.slug \in Slugs
    BY <1>5, Distinct DEF TypeOK, JobTypes, Project
  <2>3. ASSUME NEW k \in Ids, job[k] # Nothing, job[k].kind = "add",
               job[k].step = "clone", Work(k) = job[i].rec.slug
        PROVE  FALSE
    <3>1. k = i
      BY <1>2, <1>3, <1>5, <2>3 DEF SlugInv
    <3> QED BY <1>5, <2>3, <3>1
  <2> QED BY <2>1, <2>2, <2>3, StaysSetUp
<1>6. CASE Step
  <2>1. ASSUME NEW i \in Ids \ ghosts', NEW p \in Copies(i)', p.state = "ready"
        PROVE  ws'[p.slug] = Nothing \/ ws'[p.slug].ready
    <3>1. Lineage(i, p) /\ i \in Ids \ ghosts
      BY <1>1, <1>6, <2>1, CopiesAfter
    <3>2. CASE \E q \in Copies(i) : Descends(p, q)
      <4>1. PICK q \in Copies(i) : p.slug = q.slug /\ q.state = "ready"
        BY <2>1, <3>2 DEF Descends
      <4> QED BY <1>4, <3>1, <4>1
    <3>3. CASE /\ job[i] # Nothing /\ job[i].kind = "add"
               /\ job[i].step = "finish" /\ p.slug = job[i].rec.slug
      BY <1>5, <3>3
    <3> QED BY <3>1, <3>2, <3>3 DEF Lineage
  <2>2. ASSUME NEW i \in Ids, job'[i] # Nothing, job'[i].kind = "add",
               job'[i].step \in Building
        PROVE  /\ \A p \in Copies(i)' : p.state # "ready"
               /\ job'[i].step = "finish" =>
                     \/ ws'[job'[i].rec.slug] = Nothing
                     \/ ws'[job'[i].rec.slug].ready
    <3>1. /\ job[i] # Nothing /\ job[i].kind = "add"
          /\ job[i].step \in Building /\ job'[i].rec = job[i].rec
          /\ job'[i].step = "finish" =>
                job[i].step = "finish" \/ ws'[job[i].rec.slug].ready
      BY <1>6, <2>2, JobsStep DEF JobLine
    <3>2. ASSUME NEW p \in Copies(i)' PROVE p.state # "ready"
      <4>1. Lineage(i, p)
        BY <1>6, <3>2, CopiesAfter
      <4>2. job'[i].step # "save"
        BY <2>2 DEF Building
      <4>3. PICK q \in Copies(i) : p.state = q.state \/ p.state = "failed"
        BY <4>1, <4>2 DEF Lineage, Descends
      <4> QED BY <3>1, <4>3 DEF ReadyInv
    <3> QED BY <1>5, <3>1, <3>2
  <2> QED BY <2>1, <2>2 DEF ReadyInv, SetUp
<1>7. ASSUME NEW i \in Ids, Adds(i) PROVE ReadyInv'
  <2>1. /\ \A p \in Copies(i)' : p.state = "preparing"
        /\ \A k \in Ids \ {i} : Copies(k)' \subseteq Copies(k) /\ job'[k] = job[k]
        /\ job'[i].step = "queued" /\ job'[i].rec = projects'[i]
    BY <1>7, AddCopies DEF Adds, Others
  <2>2. ASSUME NEW k \in Ids \ ghosts', NEW p \in Copies(k)', p.state = "ready"
        PROVE  ws'[p.slug] = Nothing \/ ws'[p.slug].ready
    <3>1. p \in Copies(k) /\ k \in Ids \ ghosts
      BY <1>1, <2>1, <2>2
    <3> QED BY <1>4, <2>2, <3>1
  <2>3. ASSUME NEW k \in Ids, job'[k] # Nothing, job'[k].kind = "add",
               job'[k].step \in Building
        PROVE  /\ \A p \in Copies(k)' : p.state # "ready"
               /\ job'[k].step = "finish" =>
                     \/ ws'[job'[k].rec.slug] = Nothing
                     \/ ws'[job'[k].rec.slug].ready
    <3>1. CASE k = i
      BY <2>1, <3>1
    <3>2. CASE k # i
      BY <1>5, <2>1, <2>3, <3>2 DEF ReadyInv
    <3> QED BY <3>1, <3>2
  <2> QED BY <2>2, <2>3 DEF ReadyInv, SetUp
<1> QED BY <1>6, <1>7

-----------------------------------------------------------------------------
(* What is preparing is being prepared.                                     *)

Hole == skipped \cup stale

\* PreparingInv survives a step.
LEMMA PreparingStep ==
    ASSUME TypeOK, TypeOK', JobInv, PreparingInv, Step \/ \E i \in Ids : Adds(i)
    PROVE  PreparingInv'
<1> USE DEF TypeOK
<1>0. ASSUME NEW i \in Ids
      PROVE  /\ projects[i] # Nothing /\ projects[i].state = "preparing" =>
                   (job[i] # Nothing /\ job[i].kind = "add") \/ i \in Hole
             /\ job[i] # Nothing /\ job[i].rec.state = "preparing" =>
                   (job[i].kind = "add" /\ job[i].step \in Building) \/ i \in Hole
  BY DEF PreparingInv, Hole
<1>1. SUFFICES ASSUME NEW i \in Ids
               PROVE  /\ projects'[i] # Nothing /\ projects'[i].state = "preparing" =>
                            (job'[i] # Nothing /\ job'[i].kind = "add") \/ i \in Hole'
                      /\ job'[i] # Nothing /\ job'[i].rec.state = "preparing" =>
                            \/ job'[i].kind = "add" /\ job'[i].step \in Building
                            \/ i \in Hole'
  BY DEF PreparingInv, Hole
<1> DEFINE Good ==
        /\ projects'[i] # Nothing /\ projects'[i].state = "preparing" =>
              (job'[i] # Nothing /\ job'[i].kind = "add") \/ i \in Hole'
        /\ job'[i] # Nothing /\ job'[i].rec.state = "preparing" =>
              \/ job'[i].kind = "add" /\ job'[i].step \in Building
              \/ i \in Hole'
<1>2. ASSUME projects'[i] = projects[i], job'[i] = job[i], i \in Hole => i \in Hole'
      PROVE  Good
  BY <1>0, <1>2
<1>3. ASSUME NEW k \in Ids, WorkerStep(k) PROVE Good
  <2>1. CASE Advances(k)
    <3>1. projects' = projects /\ Hole' = Hole /\ Others(k)
      BY <2>1 DEF Advances, Still, Carried, Hole
    <3>2. CASE k # i
      BY <1>2, <3>1, <3>2 DEF Others
    <3>3. CASE k = i
      <4>1. /\ job[i] # Nothing /\ job'[i].kind = job[i].kind
            /\ job'[i].rec = job[i].rec
            /\ \/ job'[i].step = job[i].step
               \/ job[i].kind = "add" => job'[i].step \in Building
        BY <2>1, <3>3 DEF Advances, Carried
      <4> QED BY <1>0, <3>1, <3>3, <4>1, <2>1 DEF Advances, Carried
    <3> QED BY <3>2, <3>3
  <2>2. CASE Concludes(k)
    <3>1. projects' = projects /\ Hole' = Hole /\ Others(k)
      BY <2>2 DEF Concludes, Still, Hole
    <3>2. CASE k # i
      BY <1>2, <3>1, <3>2 DEF Others
    <3>3. CASE k = i
      BY <1>0, <2>2, <3>1, <3>3 DEF Concludes
    <3> QED BY <3>2, <3>3
  <2>3. CASE Drops(k)
    <3>1. /\ projects' = projects /\ Others(k) /\ job'[k] = Nothing
          /\ Hole \subseteq Hole'
          /\ job[k].kind = "add" => k \in Hole'
      BY <2>3 DEF Drops, Hole
    <3>2. CASE k # i
      BY <1>2, <3>1, <3>2 DEF Others
    <3>3. CASE k = i
      BY <1>0, <3>1, <3>3
    <3> QED BY <3>2, <3>3
  <2>4. CASE Saves(k)
    <3>1. /\ projects' = projects /\ Others(k) /\ Hole' = Hole
          /\ job[k] # Nothing /\ job[k].step = "save"
          /\ job'[k] # Nothing
          /\ job'[k].kind = job[k].kind /\ job'[k].rec = job[k].rec
      BY <2>4 DEF Saves, JobSave, Carried, Hole, history
    <3>2. CASE k # i
      BY <1>2, <3>1, <3>2 DEF Others
    <3>3. CASE k = i
      <4>1. job[i].step \notin Building
        BY <3>1, <3>3 DEF Building
      <4> QED BY <1>0, <3>1, <3>3, <4>1
    <3> QED BY <3>2, <3>3
  <2>5. CASE Emits(k)
    <3>1. /\ projects' = [projects EXCEPT ![k] = job[k].rec]
          /\ Others(k) /\ job[k] # Nothing /\ job'[k] = Nothing
          /\ job[k].step = "emit" /\ Hole \subseteq Hole'
      BY <2>5 DEF Emits, JobEmit, Hole
    <3>2. /\ projects'[k] = job[k].rec
          /\ \A j \in Ids \ {k} : projects'[j] = projects[j]
      BY <3>1, PutBack
    <3>3. CASE k # i
      BY <1>2, <3>1, <3>2, <3>3 DEF Others
    <3>4. CASE k = i
      <4>1. job[i].step \notin Building
        BY <3>1, <3>4 DEF Building
      <4> QED BY <1>0, <3>1, <3>2, <3>4, <4>1
    <3> QED BY <3>3, <3>4
  <2>6. CASE Forgets(k)
    <3>1. /\ projects' = projects /\ Others(k) /\ Hole' = Hole
          /\ job[k] # Nothing /\ job[k].kind = "remove" /\ job'[k] # Nothing
          /\ job'[k].kind = job[k].kind /\ job'[k].rec = job[k].rec
      BY <2>6 DEF Forgets, RemoveForget, At, Carried, Hole
    <3>2. CASE k # i
      BY <1>2, <3>1, <3>2 DEF Others
    <3>3. CASE k = i
      BY <1>0, <3>1, <3>3
    <3> QED BY <3>2, <3>3
  <2>7. CASE Leaves(k)
    <3>1. /\ projects' = [projects EXCEPT ![k] = Nothing]
          /\ Others(k) /\ job'[k] = Nothing /\ Hole' = Hole
      BY <2>7 DEF Leaves, RemoveEmit, Hole, history
    <3>2. /\ projects'[k] = Nothing
          /\ \A j \in Ids \ {k} : projects'[j] = projects[j]
      BY <3>1, PutBack
    <3>3. CASE k # i
      BY <1>2, <3>1, <3>2, <3>3 DEF Others
    <3>4. CASE k = i
      BY <3>1, <3>2, <3>4
    <3> QED BY <3>3, <3>4
  <2> HIDE DEF Good
  <2> QED BY <1>3, <2>1, <2>2, <2>3, <2>4, <2>5, <2>6, <2>7 DEF WorkerStep
<1>4. ASSUME NEW k \in Ids, Submits(k) PROVE Good
  <2>1. /\ projects' = projects /\ Hole' = Hole /\ Others(k)
        /\ job[k] = Nothing /\ projects[k] # Nothing
        /\ job'[k].rec = projects[k]
    BY <1>4 DEF Submits, Still, Hole
  <2>2. CASE k # i
    BY <1>2, <2>1, <2>2 DEF Others
  <2>3. CASE k = i
    BY <1>0, <2>1, <2>3
  <2> QED BY <2>2, <2>3
<1>5. ASSUME NEW k \in Ids, Clones(k) \/ HandEdit(k) PROVE Good
  <2>1. UNCHANGED <<projects, job>> /\ Hole' = Hole
    BY <1>5 DEF Clones, HandEdit, history, Hole
  <2> QED BY <1>2, <2>1
<1>6. ASSUME Rests \/ EditSaves PROVE Good
  <2>1. UNCHANGED <<projects, job>> /\ Hole' = Hole
    BY <1>6 DEF Rests, EditSaves, Hole
  <2> QED BY <1>2, <2>1
<1>7. ASSUME EditEmit /\ op \in Edit PROVE Good
  <2>1. /\ projects' = [projects EXCEPT ![op.id] = op.rec] /\ job' = job
        /\ Hole \subseteq Hole'
        /\ \/ op.id \in Hole'
           \/ projects[op.id] # Nothing /\ projects[op.id].state = op.rec.state
    BY <1>7 DEF EditEmit, Hole
  <2>2. op.id \in Ids
    BY <1>7, Distinct
  <2>3. /\ projects'[op.id] = op.rec
        /\ \A j \in Ids \ {op.id} : projects'[j] = projects[j]
    BY <2>1, <2>2, PutBack
  <2>4. CASE op.id # i
    BY <1>2, <2>1, <2>3, <2>4
  <2>5. CASE op.id = i
    BY <1>0, <2>1, <2>3, <2>5
  <2> QED BY <2>4, <2>5
<1>8. ASSUME apply_presence PROVE Good
  <2>1. /\ projects'[i] # Nothing => projects[i] # Nothing
                                     /\ projects'[i].state = projects[i].state
        /\ job' = job /\ Hole' = Hole
    BY <1>8, Applied DEF apply_presence, history, Hole
  <2> QED BY <1>0, <2>1
<1>9. ASSUME crash PROVE Good
  BY <1>9 DEF crash
<1>10. ASSUME restart PROVE Good
  <2>1. projects'[i] # Nothing => projects'[i].state # "preparing"
    BY <1>10, Restarted
  <2>2. job'[i] = job[i] /\ Hole' = Hole
    BY <1>10 DEF restart, history, Hole
  <2> QED BY <1>0, <2>1, <2>2
<1>11. ASSUME NEW k \in Ids, Adds(k) PROVE Good
  <2>1. CASE k = i
    BY <1>11, <2>1 DEF Adds, Building
  <2>2. CASE k # i
    <3>1. projects'[i] = projects[i] /\ job'[i] = job[i]
          /\ (i \in Hole => i \in Hole')
      BY <1>11, <2>2 DEF Adds, Others, Hole
    <3> QED BY <1>2, <3>1
  <2> QED BY <2>1, <2>2
<1> HIDE DEF Good
<1>12. Good
  BY <1>3, <1>4, <1>5, <1>6, <1>7, <1>8, <1>9, <1>10, <1>11 DEF Step
<1> QED BY <1>12 DEF Good

-----------------------------------------------------------------------------
(* A table somebody wrote by hand.                                          *)

\* TableInv survives a step.
LEMMA TableStep ==
    ASSUME TypeOK, TypeOK', JobInv, TableInv, Step \/ \E i \in Ids : Adds(i)
    PROVE  TableInv'
<1> USE DEF TypeOK
<1>1. SUFFICES ASSUME NEW i \in Ids, i \notin stale', projects'[i] # Nothing
               PROVE  /\ projects'[i].problem /\ job'[i] # Nothing =>
                            job'[i].rec.problem
                      /\ op' \in Edit /\ op'.id = i =>
                            /\ op'.kind = "edit" =>
                                  op'.rec.problem = projects'[i].problem
                            /\ op'.kind = "sandbox" => ~op'.rec.problem
  BY DEF TableInv
<1> DEFINE JobKnows == projects'[i].problem /\ job'[i] # Nothing =>
                          job'[i].rec.problem
           EditKnows == op' \in Edit /\ op'.id = i =>
                          /\ op'.kind = "edit" =>
                                op'.rec.problem = projects'[i].problem
                          /\ op'.kind = "sandbox" => ~op'.rec.problem
<1>2. ASSUME i \notin stale, projects[i] # Nothing,
             projects'[i].problem = projects[i].problem
      PROVE  /\ (job'[i] # Nothing => /\ job[i] # Nothing
                                      /\ job'[i].rec.problem = job[i].rec.problem)
                   => JobKnows
             /\ (op' \in Edit /\ op'.id = i =>
                    /\ op \in Edit /\ op.id = i
                    /\ op'.kind = op.kind /\ op'.rec = op.rec)
                   => EditKnows
  BY <1>2 DEF TableInv
<1>3. ASSUME NEW k \in Ids, WorkerStep(k) PROVE JobKnows /\ EditKnows
  <2>0. /\ op' = op /\ stale \subseteq stale'
        /\ k # i => job'[i] = job[i]
    BY <1>3 DEF WorkerStep, Advances, Concludes, Drops, Saves, Emits, Forgets,
         Leaves, Still, Carried, Others, JobSave, JobEmit, RemoveForget,
         RemoveEmit, history
  <2>1. CASE Emits(k)
    <3>1. /\ projects' = [projects EXCEPT ![k] = job[k].rec] /\ job'[k] = Nothing
          /\ \/ k \in stale'
             \/ /\ projects[k] # Nothing
                /\ projects[k].problem = job[k].rec.problem
      BY <2>1 DEF Emits, JobEmit
    <3>2. /\ projects'[k] = job[k].rec
          /\ \A j \in Ids \ {k} : projects'[j] = projects[j]
      BY <3>1, PutBack
    <3>3. projects[i] # Nothing /\ projects'[i].problem = projects[i].problem
      BY <1>1, <3>1, <3>2
    <3> QED BY <1>1, <1>2, <2>0, <3>1, <3>3
  <2>2. CASE Leaves(k)
    <3>1. projects' = [projects EXCEPT ![k] = Nothing]
      BY <2>2 DEF Leaves, RemoveEmit
    <3>2. k # i /\ projects'[i] = projects[i]
      BY <1>1, <3>1, PutBack
    <3> QED BY <1>1, <1>2, <2>0, <3>2
  <2>3. CASE Advances(k) \/ Concludes(k) \/ Drops(k) \/ Saves(k) \/ Forgets(k)
    <3>1. projects' = projects
      BY <2>3 DEF Advances, Concludes, Drops, Saves, Forgets, Still, JobSave,
                  RemoveForget
    <3>2. job'[i] # Nothing => /\ job[i] # Nothing
                               /\ job'[i].rec.problem = job[i].rec.problem
      BY <2>0, <2>3 DEF Advances, Concludes, Drops, Saves, Forgets, Carried
    <3> QED BY <1>1, <1>2, <2>0, <3>1, <3>2
  <2> HIDE DEF JobKnows, EditKnows
  <2> QED BY <1>3, <2>1, <2>2, <2>3 DEF WorkerStep
<1>4. ASSUME NEW k \in Ids, Submits(k) PROVE JobKnows /\ EditKnows
  <2>1. /\ projects' = projects /\ op' = op /\ stale' = stale
        /\ job'[i] = job[i] \/ job'[i].rec = projects[i]
    BY <1>4 DEF Submits, Still, Others
  <2> QED BY <1>1, <1>2, <2>1
<1>5. ASSUME NEW k \in Ids, Clones(k) PROVE JobKnows /\ EditKnows
  <2>1. /\ UNCHANGED <<projects, job, stale>> /\ op'.id = k
        /\ op'.kind = "edit" => op'.rec.problem = projects[k].problem
        /\ op'.kind = "sandbox" => ~op'.rec.problem
    BY <1>5 DEF Clones
  <2> QED BY <1>1, <1>2, <2>1
<1>6. ASSUME NEW k \in Ids, HandEdit(k) PROVE JobKnows /\ EditKnows
  BY <1>1, <1>2, <1>6 DEF HandEdit, history
<1>7. ASSUME Rests PROVE JobKnows /\ EditKnows
  <2>1. UNCHANGED <<projects, job, stale>> /\ (op' = op \/ op' \notin Edit)
    BY <1>7 DEF Rests
  <2> QED BY <1>1, <1>2, <2>1
<1>8. ASSUME EditSaves PROVE JobKnows /\ EditKnows
  <2>1. /\ UNCHANGED <<projects, job, stale>> /\ op \in Edit
        /\ op'.id = op.id /\ op'.kind = op.kind /\ op'.rec = op.rec
    BY <1>8 DEF EditSaves
  <2> QED BY <1>1, <1>2, <2>1
<1>9. ASSUME EditEmit /\ op \in Edit PROVE JobKnows /\ EditKnows
  <2>1. /\ projects' = [projects EXCEPT ![op.id] = op.rec] /\ job' = job
        /\ op' = Nothing /\ stale \subseteq stale'
        /\ projects[op.id] = Nothing => op.id \in stale'
    BY <1>9 DEF EditEmit
  <2>2. op.id \in Ids /\ op.kind \in {"edit", "sandbox"} /\ op' \notin Edit
    BY <1>9, <2>1, Distinct
  <2>3. /\ projects'[op.id] = op.rec
        /\ \A j \in Ids \ {op.id} : projects'[j] = projects[j]
    BY <2>1, <2>2, PutBack
  <2>4. CASE op.id # i
    BY <1>1, <1>2, <2>1, <2>2, <2>3, <2>4
  <2>5. CASE op.id = i
    <3>1. projects[i] # Nothing /\ i \notin stale
      BY <1>1, <2>1, <2>5
    <3>2. /\ op.kind = "edit" => op.rec.problem = projects[i].problem
          /\ op.kind = "sandbox" => ~op.rec.problem
      BY <1>9, <2>5, <3>1 DEF TableInv
    <3>3. CASE op.kind = "edit"
      BY <1>2, <2>1, <2>2, <2>3, <2>5, <3>1, <3>2, <3>3
    <3>4. CASE op.kind = "sandbox"
      BY <2>2, <2>3, <2>5, <3>2, <3>4
    <3> QED BY <2>2, <3>3, <3>4
  <2> QED BY <2>4, <2>5
<1>10. ASSUME apply_presence PROVE JobKnows /\ EditKnows
  <2>1. /\ projects[i] # Nothing /\ projects'[i].problem = projects[i].problem
        /\ job' = job /\ op' = Nothing /\ stale' = stale
    BY <1>1, <1>10, Applied DEF apply_presence, history
  <2>2. op' \notin Edit
    BY <2>1, Distinct
  <2> QED BY <1>1, <1>2, <2>1, <2>2
<1>11. ASSUME crash PROVE JobKnows /\ EditKnows
  BY <1>1, <1>11 DEF crash
<1>12. ASSUME restart PROVE JobKnows /\ EditKnows
  <2>1. job'[i] = Nothing /\ op' = Nothing
    BY <1>12 DEF restart, JobInv
  <2>2. op' \notin Edit
    BY <2>1, Distinct
  <2> QED BY <2>1, <2>2
<1>13. ASSUME NEW k \in Ids, Adds(k) PROVE JobKnows /\ EditKnows
  <2>1. op' = Nothing /\ op' \notin Edit
    BY <1>13, Distinct DEF Adds
  <2>2. CASE k = i
    BY <1>13, <2>1, <2>2 DEF Adds
  <2>3. CASE k # i
    <3>1. projects'[i] = projects[i] /\ job'[i] = job[i] /\ i \notin stale
      BY <1>1, <1>13, <2>3 DEF Adds, Others
    <3> QED BY <1>1, <1>2, <2>1, <3>1
  <2> QED BY <2>2, <2>3
<1> HIDE DEF JobKnows, EditKnows
<1>14. JobKnows /\ EditKnows
  BY <1>3, <1>4, <1>5, <1>6, <1>7, <1>8, <1>9, <1>10, <1>11, <1>12, <1>13 DEF Step
<1> QED BY <1>14 DEF JobKnows, EditKnows

\* What a step does to a table that could not be read.
LEMMA TableKept ==
    ASSUME TypeOK, JobInv, TableInv, Step \/ \E k \in Ids : Adds(k),
           NEW i \in Ids, daemon = "up", i \in Registered \ stale,
           projects[i].problem, disk[i] # Nothing, disk[i].sandbox = Broken,
           ~(op # Nothing /\ op.kind = "sandbox" /\ op.id = i)
    PROVE  disk'[i] = Nothing \/ disk'[i].sandbox = Broken
<1> USE DEF TypeOK
<1>0. projects[i] # Nothing
  BY DEF Registered
<1>1. ASSUME NEW p \in Project, p.problem
      PROVE  save(i, p).sandbox = Broken
  BY <1>1, Saved
<1>2. ASSUME disk'[i] = disk[i]
      PROVE  disk'[i] = Nothing \/ disk'[i].sandbox = Broken
  BY <1>2
<1>3. ASSUME NEW k \in Ids, WorkerStep(k)
      PROVE  disk'[i] = Nothing \/ disk'[i].sandbox = Broken
  <2>1. CASE Saves(k)
    <3>1. /\ job[k] # Nothing
          /\ disk' \in {disk, [disk EXCEPT ![k] = save(k, job[k].rec)]}
      BY <2>1 DEF Saves, JobSave
    <3>2. disk'[i] = disk[i] \/ (k = i /\ disk'[i] = save(i, job[i].rec))
      BY <3>1, PutBack
    <3>3. k = i => job[i].rec \in Project /\ job[i].rec.problem
      BY <1>0, <3>1, Distinct DEF TableInv, JobTypes
    <3> QED BY <1>1, <1>2, <3>2, <3>3
  <2>2. CASE Forgets(k)
    <3>1. disk' = disk \/ disk' = [disk EXCEPT ![k] = Nothing]
      BY <2>2 DEF Forgets, RemoveForget
    <3> QED BY <1>2, <3>1, PutBack
  <2>3. CASE ~Saves(k) /\ ~Forgets(k)
    <3>1. disk' = disk
      BY <1>3, <2>3 DEF WorkerStep, Advances, Concludes, Drops, Emits, Leaves,
                        Still, JobEmit, RemoveEmit
    <3> QED BY <1>2, <3>1
  <2> QED BY <2>1, <2>2, <2>3
<1>4. ASSUME NEW k \in Ids, Submits(k) \/ Clones(k)
      PROVE  disk'[i] = Nothing \/ disk'[i].sandbox = Broken
  BY <1>2, <1>4 DEF Submits, Clones, Still
<1>5. ASSUME NEW k \in Ids, HandEdit(k)
      PROVE  disk'[i] = Nothing \/ disk'[i].sandbox = Broken
  <2>1. /\ disk[k] # Nothing /\ disk[k].sandbox # Broken
        /\ disk' = [disk EXCEPT ![k] = [disk[k] EXCEPT !.sandbox = Broken]]
    BY <1>5 DEF HandEdit
  <2>2. k # i
    BY <2>1
  <2> QED BY <1>2, <2>1, <2>2, PutBack
<1>6. CASE Rests \/ EditEmit \/ apply_presence \/ crash
  BY <1>2, <1>6 DEF Rests, EditEmit, apply_presence, crash
<1>7. CASE EditSaves
  <2>1. op \in Edit /\ disk' = [disk EXCEPT ![op.id] = save(op.id, op.rec)]
    BY <1>7 DEF EditSaves
  <2>2. /\ op.id \in Ids /\ op.rec \in Project /\ op # Nothing
        /\ op.kind \in {"edit", "sandbox"}
    BY <2>1, Distinct
  <2>3. disk'[i] = disk[i] \/ (op.id = i /\ disk'[i] = save(i, op.rec))
    BY <2>1, <2>2, PutBack
  <2>4. op.id = i => op.rec.problem
    <3>1. op.id = i => op.kind = "edit"
      BY <2>2
    <3> QED BY <1>0, <2>1, <3>1 DEF TableInv
  <2> QED BY <1>1, <1>2, <2>2, <2>3, <2>4
<1>8. CASE restart
  BY <1>8 DEF restart
<1>9. ASSUME NEW k \in Ids, Adds(k)
      PROVE  disk'[i] = Nothing \/ disk'[i].sandbox = Broken
  <2>1. k # i
    BY <1>0, <1>9 DEF Adds, Fresh
  <2> QED BY <1>2, <1>9, <2>1 DEF Adds
<1> QED BY <1>3, <1>4, <1>5, <1>6, <1>7, <1>8, <1>9 DEF Step

-----------------------------------------------------------------------------
(* The theorems.                                                            *)

Inv == /\ TypeOK /\ JobInv /\ PresenceInv /\ PreparingInv /\ SlugInv
       /\ ReadyInv /\ TableInv

\* The initial state satisfies the invariant.
LEMMA InvInit == Init => Inv
<1> SUFFICES ASSUME Init PROVE Inv
  OBVIOUS
<1>1. op \notin Edit
  BY Distinct DEF Init
<1>2. \A i \in Ids : Copies(i) = {}
  BY <1>1 DEF Init, Copies, JobClone, EditClone
<1>3. TypeOK
  <2>1. RecordTypes /\ JobTypes /\ OpTypes
    BY DEF Init, RecordTypes, JobTypes, OpTypes
  <2>2. {Root} \in SUBSET Commits
    BY ProjectsAssumption DEF ProjectsAssumption
  <2>3. RepoTypes
    BY <2>2 DEF Init, RepoTypes, Checkout
  <2>4. MaxCalls \in Nat /\ MaxMoves \in Nat /\ MaxCrashes \in Nat
    BY ProjectsAssumption DEF ProjectsAssumption
  <2>5. LifeTypes
    BY <2>4 DEF Init, LifeTypes
  <2> QED BY <2>1, <2>3, <2>5 DEF TypeOK
<1>4. \A i \in Ids : job[i] = Nothing /\ projects[i] = Nothing /\ disk[i] = Nothing
  BY DEF Init
<1>5. daemon = "up"
  BY DEF Init
<1>6. JobInv /\ PreparingInv /\ TableInv
  BY <1>4, <1>5 DEF JobInv, PreparingInv, TableInv
<1>7. PresenceInv /\ SlugInv /\ ReadyInv
  BY <1>2, <1>4 DEF PresenceInv, SlugInv, ReadyInv
<1> QED BY <1>3, <1>6, <1>7 DEF Inv

\* Every step keeps it.
LEMMA InvNext == Inv /\ [Next]_vars => Inv'
<1> SUFFICES ASSUME Inv, [Next]_vars PROVE Inv'
  OBVIOUS
<1> USE DEF Inv
<1>1. TypeOK' /\ Fates /\ (Step \/ \E i \in Ids : Adds(i))
  BY Shapes
<1>2. JobInv'
  BY <1>1, JobInvStep
<1>3. PresenceInv'
  BY <1>1, PresenceStep
<1>4. PreparingInv'
  BY <1>1, PreparingStep
<1>5. SlugInv'
  BY <1>1, SlugStep
<1>6. ReadyInv'
  BY <1>1, ReadyStep
<1>7. TableInv'
  BY <1>1, TableStep
<1> QED BY <1>1, <1>2, <1>3, <1>4, <1>5, <1>6, <1>7

\* The invariant about all the copies of a record: what the index, the file,
\* the job and the handler hold agree on the workspace, which is no other
\* project's, and none of them calls it ready before it was set up.
THEOREM Invariance == Spec => []Inv
BY InvInit, InvNext, PTL DEF Spec

\* The registry, the files, the repositories, the jobs and the handler in
\* progress keep their types.
THEOREM TypeCorrect == Spec => []TypeOK
<1>1. Inv => TypeOK
  BY DEF Inv
<1> QED BY <1>1, Invariance, PTL

\* source_present describes the path the project has, whatever refresh and
\* relocation overlap (apply_presence skips a source that changed).
THEOREM FlagsDescribeTheirSource == Spec => []PresenceDescribesItsSource
<1>1. Inv => PresenceDescribesItsSource
  BY Places DEF Inv, PresenceInv, PresenceDescribesItsSource, Registered
<1> QED BY <1>1, Invariance, PTL

\* A project shown or stored as ready has a workspace whose every setup
\* command succeeded (run_add's mark_ready comes after them all).
THEOREM ReadyIsSetUp == Spec => []ReadyWasSetUp
<1>1. Inv => ReadyWasSetUp
  <2> SUFFICES ASSUME Inv, NEW i \in Ids \ ghosts,
                      NEW p \in {projects[i], disk[i]} \ {Nothing},
                      p.state = "ready"
               PROVE  ws[p.slug] = Nothing \/ ws[p.slug].ready
    BY DEF ReadyWasSetUp
  <2>1. p \in Copies(i)
    BY Places DEF Inv
  <2> QED BY <2>1 DEF Inv, ReadyInv, SetUp
<1> QED BY <1>1, Invariance, PTL

\* A project shown preparing has its add job in flight, across crashes and
\* restarts, but for the two holes (interrupt_preparing closes the third).
THEOREM PreparingIsWorkedOn == Spec => []PreparingHasAWorker
<1>1. Inv => PreparingHasAWorker
  BY DEF Inv, PreparingInv, PreparingHasAWorker, Registered
<1> QED BY <1>1, Invariance, PTL

\* No step loses a commit of a workspace but a removal that was asked to
\* delete it: updates fast-forward (run_update), adds clone into nothing.
THEOREM CommitsSurvive == Spec => WorkspaceKeepsCommits
<1>1. ASSUME Inv, [Next]_vars
      PROVE  [\A n \in Slugs : ws[n] # Nothing =>
                IF ws'[n] # Nothing THEN ws[n].head \subseteq ws'[n].head
                ELSE \E i \in Ids : /\ job[i] # Nothing /\ job[i].kind = "remove"
                                    /\ job[i].mode # "keep" /\ Work(i) = n]_vars
  <2>1. Fates
    BY <1>1, Shapes DEF Inv
  <2> QED BY <2>1 DEF Fates, Fate
<1> QED BY <1>1, Invariance, PTL DEF Spec, WorkspaceKeepsCommits

\* A [sandbox] table the daemon could not read stays in the file through
\* renames, jobs and refreshes, until set_sandbox replaces it (store::save).
THEOREM TablesSurvive == Spec => HandTableKept
<1>1. ASSUME Inv, [Next]_vars
      PROVE  [\A i \in Ids :
                /\ daemon = "up" /\ i \in Registered \ stale
                /\ projects[i].problem
                /\ disk[i] # Nothing /\ disk[i].sandbox = Broken
                /\ ~(op # Nothing /\ op.kind = "sandbox" /\ op.id = i)
                => disk'[i] = Nothing \/ disk'[i].sandbox = Broken]_vars
  <2>1. Step \/ \E k \in Ids : Adds(k)
    BY <1>1, Shapes DEF Inv
  <2> QED BY <1>1, <2>1, TableKept DEF Inv
<1> QED BY <1>1, Invariance, PTL DEF Spec, HandTableKept

-----------------------------------------------------------------------------
(* What the daemon reads of a harness's log.                                *)

Written == (UNION {Lines(s) : s \in Sessions}) \cup {Torn}
Read == Seq(Written)
UsageLine(l) == l.kind = "usage"
PromptLine(l) == l.kind = "prompt"

\* Who is in the index, and what a log is.
Listed == [state : {"none", "creating", "running", "ended"}, kind : {"agent", "shell"},
           created : Nat, started : Nat \cup {None}, finished : Nat \cup {None},
           title : Sessions \cup {None}]
LogsTypes ==
    /\ index \in [Sessions -> Listed] /\ untitled \subseteq Sessions
    /\ clock \in Nat /\ clock <= MaxTime
    /\ dir \in [Sessions -> [mtime : Nat, lines : Read]]
    /\ conv \in [Sessions -> Sessions]
    /\ wrote \in [Sessions -> SUBSET Nat]
    /\ first \in [Sessions -> [by : Sessions \cup {None}, at : Nat]]
    /\ newest \in [Sessions -> [counts : Counts \cup {None}, age : Nat]]
    /\ scan \in [left : SUBSET [id : Sessions, since : Nat, finished : BOOLEAN],
                 at : Sessions \cup {None}, finished : BOOLEAN, found : Sessions \cup {None}]

\* The history says where a log's first prompt and its last usage are.
FirstIs(lines, p) ==
    /\ p.by = None => \A i \in 1..Len(lines) : ~PromptLine(lines[i])
    /\ p.by # None => /\ p.at \in 1..Len(lines) /\ lines[p.at] = Prompt(p.by)
                      /\ \A i \in 1..Len(lines) : i < p.at => ~PromptLine(lines[i])
NewestIs(lines, u) ==
    /\ u.counts = None => \A i \in 1..Len(lines) : ~UsageLine(lines[i])
    /\ u.counts # None => /\ u.age < Len(lines) /\ lines[Len(lines) - u.age] = Usage(u.counts)
                          /\ \A i \in 1..Len(lines) : i > Len(lines) - u.age => ~UsageLine(lines[i])
LinesInv == \A f \in Sessions : FirstIs(dir[f].lines, first[f]) /\ NewestIs(dir[f].lines, newest[f])

\* When a session ran, and when its harness wrote.
Ran(s) == index[s].state \in {"running", "ended"}
TimesInv ==
    \A s \in Sessions :
        /\ index[s].created <= clock
        /\ index[s].state \in {"none", "creating"} => index[s].started = None
        /\ index[s].state = "running" => index[s].started # None
        /\ index[s].started # None => index[s].created <= index[s].started /\ index[s].started <= clock
        /\ index[s].state = "ended" <=> index[s].finished # None
        /\ index[s].finished # None => index[s].created <= index[s].finished /\ index[s].finished <= clock
        /\ dir[s].mtime <= clock
WritesInv ==
    /\ \A f \in Sessions : dir[f].lines # <<>> =>
          \E o \in Sessions : conv[o] = f /\ dir[f].mtime \in wrote[o]
    /\ \A o \in Sessions : \A t \in wrote[o] :
          /\ Ran(o) /\ index[o].started # None /\ index[o].started <= t
          /\ index[o].finished # None => t <= index[o].finished
          /\ t <= dir[conv[o]].mtime /\ dir[conv[o]].lines # <<>>

\* What is said of a session after which nobody else wrote: in the index, and
\* by a scan that has yet to put it there.
Own(s) == AloneIn(s, since(s), MaxTime)
GivenUp(s) == wrote[s] = {} \/ first[conv[s]].by = None \/ first[conv[s]].at > HEAD_BYTES
TitlesInv ==
    /\ \A s \in Sessions : /\ index[s].title # None => Ran(s)
                           /\ Own(s) => index[s].title \in {None, first[conv[s]].by}
    /\ \A s \in untitled : index[s].state = "ended" /\ (Own(s) => GivenUp(s))
ScanInv ==
    /\ \A c \in scan.left : /\ Ran(c.id) /\ c.since = since(c.id)
                            /\ c.finished => index[c.id].state = "ended"
    /\ scan.at # None =>
          /\ Ran(scan.at)
          /\ scan.finished => index[scan.at].state = "ended"
          /\ Own(scan.at) /\ scan.found # None => scan.found = first[conv[scan.at]].by
          /\ Own(scan.at) /\ scan.found = None /\ scan.finished => GivenUp(scan.at)

LogsInv == LogsTypes /\ LinesInv /\ TimesInv /\ WritesInv /\ TitlesInv /\ ScanInv

\* A line and its kind: of the lines of a log the torn one, the prompts and the
\* usages are told apart.
LEMMA LineKinds ==
    /\ Torn \in Written /\ ~PromptLine(Torn) /\ ~UsageLine(Torn)
    /\ \A s \in Sessions : Prompt(s) \in Written /\ PromptLine(Prompt(s)) /\ ~UsageLine(Prompt(s))
    /\ \A c \in Counts : UsageLine(Usage(c)) /\ ~PromptLine(Usage(c))
    /\ \A c \in SideCounts : ~UsageLine(Sidechain(c)) /\ ~PromptLine(Sidechain(c))
BY DEF Written, Lines, Torn, Prompt, Usage, Sidechain, PromptLine, UsageLine

\* What a harness writes.
LEMMA LineWritten ==
    ASSUME NEW s \in Sessions, NEW l \in Lines(s) \cup {Torn}
    PROVE  /\ l \in Written
           /\ l.kind = "prompt" => l = Prompt(s)
           /\ l.kind = "usage" => l.counts \in Counts /\ l = Usage(l.counts)
           /\ l.kind = "prompt" <=> PromptLine(l)
           /\ l.kind = "usage" <=> UsageLine(l)
<1>1. l \in Written
  BY DEF Written
<1>2. \/ l = Torn \/ l = Prompt(s) \/ (\E c \in Counts : l = Usage(c))
      \/ \E c \in SideCounts : l = Sidechain(c)
  BY DEF Lines
<1>3. \A c : Usage(c).counts = c /\ Usage(c).kind = "usage"
  BY DEF Usage
<1>4. Torn.kind = "torn" /\ Prompt(s).kind = "prompt" /\ \A c : Sidechain(c).kind = "side"
  BY DEF Torn, Prompt, Sidechain
<1> QED BY <1>1, <1>2, <1>3, <1>4 DEF PromptLine, UsageLine

\* A line is appended, or ends the one that was half written.
LEMMA Appended ==
    ASSUME NEW f \in Sessions, NEW l \in Written, dir[f].lines \in Read
    PROVE  LET a == dir[f].lines  b == Append1(f, l)
           IN  /\ b \in Read /\ Len(b) >= 1 /\ b[Len(b)] = l
               /\ \A i \in 1..Len(b) : i < Len(b) => i \in 1..Len(a) /\ b[i] = a[i]
               /\ Half(f) => Len(b) = Len(a) /\ a[Len(a)] = Torn
               /\ ~Half(f) => Len(b) = Len(a) + 1
<1>1. PICK a \in Read : a = dir[f].lines
  OBVIOUS
<1>2. CASE Half(f)
  <2>1. Len(a) > 0 /\ a[Len(a)] = Torn
    BY <1>1, <1>2 DEF Half, Last
  <2>2. Append1(f, l) = SubSeq(a, 1, Len(a) - 1) \o <<l>>
    BY <1>1, <1>2 DEF Append1, Front
  <2>3. PICK c : c = SubSeq(a, 1, Len(a) - 1)
    OBVIOUS
  <2>4. c \in Read /\ Len(c) = Len(a) - 1 /\ \A i \in 1..(Len(a) - 1) : c[i] = a[i]
    <3>1. PICK k : k = Len(a) - 1
      OBVIOUS
    <3>2. k \in Nat /\ \A i \in 1..k : a[i] \in Written
      BY <2>1, <3>1 DEF Read
    <3>3. /\ SubSeq(a, 1, k) \in Seq(Written)
          /\ Len(SubSeq(a, 1, k)) = IF 1 <= k THEN k - 1 + 1 ELSE 0
          /\ \A i \in 1..(k - 1 + 1) : SubSeq(a, 1, k)[i] = a[1 + i - 1]
      BY <3>2, SubSeqProperties
    <3>4. k - 1 + 1 = k /\ (1 <= k \/ k = 0) /\ \A i \in 1..k : 1 + i - 1 = i
      BY <3>2
    <3>5. c \in Read /\ Len(c) = k
      BY <2>3, <3>1, <3>3, <3>4 DEF Read
    <3>6. \A i \in 1..k : c[i] = a[i]
      <4>1. c = SubSeq(a, 1, k)
        BY <2>3, <3>1
      <4> QED BY <3>3, <3>4, <4>1
    <3> QED BY <3>1, <3>5, <3>6
  <2>5. PICK b : b = Append1(f, l)
    OBVIOUS
  <2>6. b = c \o <<l>>
    BY <2>2, <2>3, <2>5
  <2>7. b \in Read /\ Len(b) = Len(a) /\ b[Len(b)] = l /\ \A i \in 1..(Len(b) - 1) : b[i] = c[i]
    BY <2>1, <2>4, <2>6 DEF Read
  <2>8. \A i \in 1..Len(b) : i < Len(b) => i \in 1..Len(a) /\ b[i] = a[i]
    BY <2>1, <2>4, <2>7 DEF Read
  <2>9. Len(b) >= 1
    BY <2>1, <2>7 DEF Read
  <2> QED BY <1>1, <1>2, <2>1, <2>5, <2>7, <2>8, <2>9
<1>3. CASE ~Half(f)
  <2>1. Append1(f, l) = a \o <<l>>
    BY <1>1, <1>3 DEF Append1
  <2>2. PICK b : b = Append1(f, l)
    OBVIOUS
  <2>3. /\ b \in Read /\ Len(b) = Len(a) + 1 /\ b[Len(b)] = l
        /\ \A i \in 1..Len(a) : b[i] = a[i]
    BY <2>1, <2>2 DEF Read
  <2>4. \A i \in 1..Len(b) : i < Len(b) => i \in 1..Len(a) /\ b[i] = a[i]
    BY <2>3 DEF Read
  <2> QED BY <1>1, <1>3, <2>2, <2>3, <2>4 DEF Read
<1> QED BY <1>2, <1>3

-----------------------------------------------------------------------------
(* The readers.                                                             *)

\* The least and the greatest of some places in a line.
LEMMA LeastAndGreatest ==
    ASSUME NEW n \in Nat, NEW I \in SUBSET (1..n), I # {}
    PROVE  /\ Min(I) \in I /\ \A j \in I : Min(I) <= j
           /\ Max(I) \in I /\ \A j \in I : Max(I) >= j
<1> DEFINE R == OpToRel(<, Nat)
           D == {n - i : i \in I}
<1>1. \A S \in SUBSET Nat : S # {} => \E x \in S : \A y \in S : ~(<<y, x>> \in R)
  <2>1. IsWellFoundedOn(R, Nat)
    BY NatLessThanWellFounded
  <2> QED BY <2>1, WFMin
<1>2. \A x, y \in Nat : y < x => <<y, x>> \in R
  BY DEF OpToRel
<1> HIDE DEF R
<1>3. \A S \in SUBSET Nat : S # {} => \E x \in S : \A y \in S : x <= y
  <2> SUFFICES ASSUME NEW S \in SUBSET Nat, S # {} PROVE \E x \in S : \A y \in S : x <= y
    OBVIOUS
  <2>1. PICK x \in S : \A y \in S : ~(<<y, x>> \in R)
    BY <1>1
  <2>2. \A y \in S : ~(y < x)
    BY <1>2, <2>1
  <2> QED BY <2>2
<1>4. I \in SUBSET Nat /\ D \in SUBSET Nat /\ D # {}
  <2>1. \A i \in 1..n : i \in Nat /\ n - i \in Nat
    OBVIOUS
  <2> QED BY <2>1
<1>5. \E k \in I : \A j \in I : k <= j
  BY <1>3, <1>4
<1>6. PICK d \in D : \A e \in D : d <= e
  <2> HIDE DEF D
  <2> QED BY <1>3, <1>4
<1>7. PICK k \in I : d = n - k
  BY <1>6
<1>8. \A j \in I : k >= j
  <2> TAKE j \in I
  <2>1. n - j \in D
    OBVIOUS
  <2>2. d <= n - j
    BY <1>6, <2>1
  <2> QED BY <1>7, <2>2
<1> QED BY <1>5, <1>7, <1>8, Zenon DEF Min, Max

\* The first prompt of a head.
LEMMA PromptFound ==
    ASSUME NEW h \in Read
    PROVE  /\ (\A i \in 1..Len(h) : ~PromptLine(h[i])) => first_prompt(h) = None
           /\ \A k \in 1..Len(h) :
                 PromptLine(h[k]) /\ (\A i \in 1..Len(h) : i < k => ~PromptLine(h[i]))
                 => first_prompt(h) = h[k].by
<1> DEFINE I == {i \in 1..Len(h) : h[i].kind = "prompt"}
           at == IF I # {} THEN Min(I) ELSE 0
<1>1. first_prompt(h) = IF at = 0 THEN None ELSE h[at].by
  BY DEF first_prompt, SelectInSeq
<1>2. I \in SUBSET (1..Len(h)) /\ Len(h) \in Nat
  BY DEF Read
<1>3. \A i \in 1..Len(h) : i \in I <=> PromptLine(h[i])
  BY DEF PromptLine
<1> HIDE DEF I
<1>4. CASE I = {}
  BY <1>1, <1>3, <1>4
<1>5. CASE I # {}
  <2>1. at \in I /\ \A j \in I : at <= j
    BY <1>2, <1>5, LeastAndGreatest
  <2> HIDE DEF at
  <2>2. at \in 1..Len(h) /\ PromptLine(h[at])
    BY <1>2, <1>3, <2>1
  <2>3. first_prompt(h) = h[at].by
    BY <1>1, <2>2
  <2>4. ASSUME NEW k \in 1..Len(h), PromptLine(h[k]), \A i \in 1..Len(h) : i < k => ~PromptLine(h[i])
        PROVE  k = at
    <3>1. k \in I
      BY <1>3, <2>4
    <3>2. at <= k /\ ~(at < k)
      BY <2>1, <2>2, <2>4, <3>1
    <3> QED BY <2>2, <3>2
  <2> QED BY <2>2, <2>3, <2>4
<1> QED BY <1>4, <1>5

\* The last usage of a tail.
LEMMA UsageFound ==
    ASSUME NEW h \in Read
    PROVE  /\ (\A i \in 1..Len(h) : ~UsageLine(h[i])) => project_session(h) = NO_DATA
           /\ \A k \in 1..Len(h) :
                 UsageLine(h[k]) /\ (\A i \in 1..Len(h) : i > k => ~UsageLine(h[i]))
                 => project_session(h) = SessionReading(h[k].counts)
<1> DEFINE I == {i \in 1..Len(h) : h[i].kind = "usage"}
           at == IF I # {} THEN Max(I) ELSE 0
<1>1. project_session(h) = IF at = 0 THEN NO_DATA ELSE SessionReading(h[at].counts)
  BY DEF project_session, SelectLastInSeq
<1>2. I \in SUBSET (1..Len(h)) /\ Len(h) \in Nat
  BY DEF Read
<1>3. \A i \in 1..Len(h) : i \in I <=> UsageLine(h[i])
  BY DEF UsageLine
<1> HIDE DEF I
<1>4. CASE I = {}
  BY <1>1, <1>3, <1>4
<1>5. CASE I # {}
  <2>1. at \in I /\ \A j \in I : at >= j
    BY <1>2, <1>5, LeastAndGreatest
  <2> HIDE DEF at
  <2>2. at \in 1..Len(h) /\ UsageLine(h[at])
    BY <1>2, <1>3, <2>1
  <2>3. project_session(h) = SessionReading(h[at].counts)
    BY <1>1, <2>2
  <2>4. ASSUME NEW k \in 1..Len(h), UsageLine(h[k]), \A i \in 1..Len(h) : i > k => ~UsageLine(h[i])
        PROVE  k = at
    <3>1. k \in I
      BY <1>3, <2>4
    <3>2. at >= k /\ ~(at > k)
      BY <2>1, <2>2, <2>4, <3>1
    <3> QED BY <2>2, <3>2
  <2> QED BY <2>2, <2>3, <2>4
<1> QED BY <1>4, <1>5

-----------------------------------------------------------------------------
(* What the properties say follows from the invariant.                      *)

\* A part of a log's end, and the cut line before it.
LEMMA TailRead ==
    ASSUME NEW a \in Read
    PROVE  LET t == read_tail(a)  k == Len(t) - Len(a)
           IN  /\ t \in Read /\ k <= 1
               /\ Len(a) <= TAIL_BYTES => t = a
               /\ Len(a) > TAIL_BYTES =>
                     /\ Len(t) = TAIL_BYTES + 1 /\ t[1] = Torn
                     /\ \A i \in 1..TAIL_BYTES : t[i + 1] = a[Len(a) - TAIL_BYTES + i]
<1>1. TAIL_BYTES \in Nat /\ TAIL_BYTES > 0 /\ Len(a) \in Nat
  BY HarnessLogsAssumption DEF HarnessLogsAssumption, Read
<1>2. CASE Len(a) <= TAIL_BYTES
  BY <1>1, <1>2 DEF read_tail
<1>3. CASE Len(a) > TAIL_BYTES
  <2>1. PICK m \in Nat : m = Len(a) - TAIL_BYTES + 1
    BY <1>1, <1>3
  <2>2. PICK c : c = SubSeq(a, m, Len(a))
    OBVIOUS
  <2>3. /\ c \in Seq(Written) /\ Len(c) = TAIL_BYTES
        /\ \A i \in 1..TAIL_BYTES : c[i] = a[Len(a) - TAIL_BYTES + i]
    <3>1. \A i \in m..Len(a) : a[i] \in Written
      BY <1>1, <1>3, <2>1 DEF Read
    <3>2. /\ c \in Seq(Written)
          /\ Len(c) = IF m <= Len(a) THEN Len(a) - m + 1 ELSE 0
          /\ \A i \in 1..(Len(a) - m + 1) : c[i] = a[m + i - 1]
      BY <1>1, <2>1, <2>2, <3>1, SubSeqProperties
    <3>3. m <= Len(a) /\ Len(a) - m + 1 = TAIL_BYTES
      BY <1>1, <1>3, <2>1
    <3>4. \A i \in 1..TAIL_BYTES : m + i - 1 = Len(a) - TAIL_BYTES + i
      BY <1>1, <2>1
    <3> QED BY <3>2, <3>3, <3>4
  <2>4. PICK t : t = <<Torn>> \o c
    OBVIOUS
  <2>5. read_tail(a) = t
    BY <1>1, <1>3, <2>1, <2>2, <2>4 DEF read_tail
  <2>6. Torn \in Written
    BY LineKinds
  <2>7. t \in Seq(Written) /\ Len(t) = TAIL_BYTES + 1 /\ t[1] = Torn
        /\ \A i \in 1..TAIL_BYTES : t[i + 1] = c[i]
    BY <1>1, <2>3, <2>4, <2>6
  <2>8. \A i \in 1..TAIL_BYTES : t[i + 1] = a[Len(a) - TAIL_BYTES + i]
    BY <2>3, <2>7
  <2>9. t \in Read /\ Len(t) - Len(a) <= 1 /\ ~(Len(a) <= TAIL_BYTES)
    BY <1>1, <1>3, <2>7 DEF Read
  <2> QED BY <1>3, <2>5, <2>7, <2>8, <2>9
<1> QED BY <1>1, <1>2, <1>3

\* A part of a log's front, and the cut line after it.
LEMMA HeadRead ==
    ASSUME NEW a \in Read
    PROVE  LET h == read_head(a)
           IN  /\ h \in Read
               /\ \A i \in 1..Len(h) : i <= HEAD_BYTES => i \in 1..Len(a) /\ h[i] = a[i]
               /\ \A i \in 1..Len(h) : i > HEAD_BYTES => h[i] = Torn
               /\ \A i \in 1..Len(a) : i <= HEAD_BYTES => i \in 1..Len(h)
<1>1. HEAD_BYTES \in Nat /\ HEAD_BYTES > 0 /\ Len(a) \in Nat
  BY HarnessLogsAssumption DEF HarnessLogsAssumption, Read
<1>2. CASE Len(a) <= HEAD_BYTES
  BY <1>1, <1>2 DEF read_head
<1>3. CASE Len(a) > HEAD_BYTES
  <2>2. PICK c : c = SubSeq(a, 1, HEAD_BYTES)
    OBVIOUS
  <2>3. /\ c \in Seq(Written) /\ Len(c) = HEAD_BYTES
        /\ \A i \in 1..HEAD_BYTES : c[i] = a[i]
    <3>1. \A i \in 1..HEAD_BYTES : a[i] \in Written
      BY <1>1, <1>3 DEF Read
    <3>2. /\ c \in Seq(Written)
          /\ Len(c) = IF 1 <= HEAD_BYTES THEN HEAD_BYTES - 1 + 1 ELSE 0
          /\ \A i \in 1..(HEAD_BYTES - 1 + 1) : c[i] = a[1 + i - 1]
      BY <1>1, <2>2, <3>1, SubSeqProperties
    <3>3. 1 <= HEAD_BYTES /\ HEAD_BYTES - 1 + 1 = HEAD_BYTES
      BY <1>1
    <3>4. \A i \in 1..HEAD_BYTES : 1 + i - 1 = i
      BY <1>1
    <3>5. \A i \in 1..HEAD_BYTES : c[i] = a[1 + i - 1]
      BY <3>2, <3>3
    <3> QED BY <3>2, <3>3, <3>4, <3>5
  <2>4. PICK h : h = c \o <<Torn>>
    OBVIOUS
  <2>5. read_head(a) = h
    BY <1>1, <1>3, <2>2, <2>4 DEF read_head
  <2>6. Torn \in Written
    BY LineKinds
  <2>7. h \in Seq(Written) /\ Len(h) = HEAD_BYTES + 1 /\ h[HEAD_BYTES + 1] = Torn
        /\ \A i \in 1..HEAD_BYTES : h[i] = c[i]
    BY <1>1, <2>3, <2>4, <2>6
  <2> QED BY <1>1, <1>3, <2>3, <2>5, <2>7 DEF Read
<1> QED BY <1>1, <1>2, <1>3

\* The usage read of a log is its last, if the tail reaches it.
LEMMA TailSays ==
    ASSUME NEW a \in Read, NEW u, u.age \in Nat, NewestIs(a, u)
    PROVE  project_session(read_tail(a)) =
             IF u.counts # None /\ u.age < TAIL_BYTES THEN SessionReading(u.counts) ELSE NO_DATA
<1>1. PICK t : t = read_tail(a)
  OBVIOUS
<1>2. /\ t \in Read /\ Len(a) \in Nat /\ Len(t) \in Nat /\ TAIL_BYTES \in Nat /\ TAIL_BYTES > 0
      /\ Len(a) <= TAIL_BYTES => t = a
      /\ Len(a) > TAIL_BYTES =>
            /\ Len(t) = TAIL_BYTES + 1 /\ t[1] = Torn
            /\ \A i \in 1..TAIL_BYTES : t[i + 1] = a[Len(a) - TAIL_BYTES + i]
  <2>1. Len(a) \in Nat /\ TAIL_BYTES \in Nat /\ TAIL_BYTES > 0
    BY HarnessLogsAssumption DEF HarnessLogsAssumption, Read
  <2>2. /\ t \in Read
        /\ Len(a) <= TAIL_BYTES => t = a
        /\ Len(a) > TAIL_BYTES =>
              /\ Len(t) = TAIL_BYTES + 1 /\ t[1] = Torn
              /\ \A i \in 1..TAIL_BYTES : t[i + 1] = a[Len(a) - TAIL_BYTES + i]
    BY <1>1, TailRead
  <2>3. Len(t) \in Nat
    BY <2>2 DEF Read
  <2> QED BY <2>1, <2>2, <2>3
<1>3. ~UsageLine(Torn)
  BY LineKinds
<1>4. ASSUME NEW i \in 1..Len(t), UsageLine(t[i])
      PROVE  \E j \in 1..Len(a) : t[i] = a[j] /\ Len(a) - j = Len(t) - i
  <2>1. CASE Len(a) <= TAIL_BYTES
    BY <1>2, <2>1
  <2>2. CASE Len(a) > TAIL_BYTES
    <3>1. i # 1
      BY <1>2, <1>3, <1>4, <2>2
    <3>2. i - 1 \in 1..TAIL_BYTES /\ (i - 1) + 1 = i
      BY <1>2, <2>2, <3>1
    <3>3. t[i] = a[Len(a) - TAIL_BYTES + (i - 1)]
      BY <1>2, <2>2, <3>2
    <3>4. PICK j \in Nat : j = Len(a) - TAIL_BYTES + (i - 1)
      <4>1. Len(a) \in Nat /\ TAIL_BYTES \in Nat /\ i \in Nat
        BY <1>2
      <4>2. Len(a) - TAIL_BYTES \in Nat
        BY <2>2, <4>1
      <4>3. i - 1 \in Nat
        BY <3>2
      <4>4. Len(a) - TAIL_BYTES + (i - 1) \in Nat
        BY <4>2, <4>3
      <4> QED BY <4>4
    <3>5. j \in 1..Len(a) /\ Len(a) - j = Len(t) - i
      BY <1>2, <2>2, <3>2, <3>4
    <3> QED BY <3>3, <3>4, <3>5
  <2> QED BY <1>2, <2>1, <2>2
<1>5. CASE u.counts = None
  <2>1. \A i \in 1..Len(t) : ~UsageLine(t[i])
    BY <1>4, <1>5 DEF NewestIs
  <2> QED BY <1>1, <1>2, <1>5, <2>1, UsageFound
<1>6. CASE u.counts # None /\ u.age < TAIL_BYTES
  <2>1. /\ u.age < Len(a) /\ a[Len(a) - u.age] = Usage(u.counts)
        /\ \A i \in 1..Len(a) : i > Len(a) - u.age => ~UsageLine(a[i])
    BY <1>6 DEF NewestIs
  <2>2. PICK k \in Nat : k = Len(t) - u.age
    BY <1>2, <1>6, <2>1
  <2>3. k \in 1..Len(t) /\ t[k] = a[Len(a) - u.age]
    <3>1. CASE Len(a) <= TAIL_BYTES
      BY <1>2, <2>1, <2>2, <3>1
    <3>2. CASE Len(a) > TAIL_BYTES
      <4>1. k - 1 \in 1..TAIL_BYTES /\ (k - 1) + 1 = k /\ k \in 1..Len(t)
        BY <1>2, <1>6, <2>2, <3>2
      <4>2. Len(a) - TAIL_BYTES + (k - 1) = Len(a) - u.age
        <5>1. Len(a) \in Nat /\ TAIL_BYTES \in Nat /\ Len(t) = TAIL_BYTES + 1 /\ u.age \in Nat
          BY <1>2, <3>2
        <5> QED BY <2>2, <5>1
      <4> QED BY <1>2, <3>2, <4>1, <4>2
    <3> QED BY <1>2, <3>1, <3>2
  <2>4. UsageLine(t[k]) /\ t[k].counts = u.counts
    BY <2>1, <2>3 DEF UsageLine, Usage
  <2>5. \A i \in 1..Len(t) : i > k => ~UsageLine(t[i])
    <3> SUFFICES ASSUME NEW i \in 1..Len(t), i > k, UsageLine(t[i]) PROVE FALSE
      OBVIOUS
    <3>1. PICK j \in 1..Len(a) : t[i] = a[j] /\ Len(a) - j = Len(t) - i
      BY <1>4
    <3>2. j > Len(a) - u.age
      BY <1>2, <2>2, <3>1
    <3> QED BY <2>1, <3>1, <3>2
  <2> QED BY <1>1, <1>2, <1>6, <2>3, <2>4, <2>5, UsageFound
<1>7. CASE u.counts # None /\ ~(u.age < TAIL_BYTES)
  <2>1. /\ u.age < Len(a)
        /\ \A i \in 1..Len(a) : i > Len(a) - u.age => ~UsageLine(a[i])
    BY <1>7 DEF NewestIs
  <2>2. \A i \in 1..Len(t) : ~UsageLine(t[i])
    <3> SUFFICES ASSUME NEW i \in 1..Len(t), UsageLine(t[i]) PROVE FALSE
      OBVIOUS
    <3>1. PICK j \in 1..Len(a) : t[i] = a[j] /\ Len(a) - j = Len(t) - i
      BY <1>4
    <3>2. Len(a) > TAIL_BYTES /\ i # 1
      BY <1>2, <1>3, <1>7, <2>1
    <3>3. j > Len(a) - u.age
      BY <1>2, <1>7, <3>1, <3>2
    <3> QED BY <2>1, <3>1, <3>3
  <2> QED BY <1>1, <1>2, <1>7, <2>2, UsageFound
<1> QED BY <1>5, <1>6, <1>7

\* The prompt read of a log is its first, if the head reaches it.
LEMMA HeadSays ==
    ASSUME NEW a \in Read, NEW p, p.at \in Nat, FirstIs(a, p)
    PROVE  first_prompt(read_head(a)) =
             IF p.by # None /\ p.at <= HEAD_BYTES THEN p.by ELSE None
<1>1. PICK h : h = read_head(a)
  OBVIOUS
<1>2. /\ h \in Read /\ Len(a) \in Nat /\ Len(h) \in Nat /\ HEAD_BYTES \in Nat
      /\ \A i \in 1..Len(h) : i <= HEAD_BYTES => i \in 1..Len(a) /\ h[i] = a[i]
      /\ \A i \in 1..Len(h) : i > HEAD_BYTES => h[i] = Torn
      /\ \A i \in 1..Len(a) : i <= HEAD_BYTES => i \in 1..Len(h)
  <2>1. HEAD_BYTES \in Nat
    BY HarnessLogsAssumption DEF HarnessLogsAssumption
  <2>2. /\ h \in Read
        /\ \A i \in 1..Len(h) : i <= HEAD_BYTES => i \in 1..Len(a) /\ h[i] = a[i]
        /\ \A i \in 1..Len(h) : i > HEAD_BYTES => h[i] = Torn
        /\ \A i \in 1..Len(a) : i <= HEAD_BYTES => i \in 1..Len(h)
    BY <1>1, HeadRead
  <2>3. Len(a) \in Nat /\ Len(h) \in Nat
    BY <2>2 DEF Read
  <2> QED BY <2>1, <2>2, <2>3
<1>3. ~PromptLine(Torn)
  BY LineKinds
<1>4. CASE p.by = None
  <2>1. \A i \in 1..Len(h) : ~PromptLine(h[i])
    BY <1>2, <1>3, <1>4 DEF FirstIs
  <2> QED BY <1>1, <1>2, <1>4, <2>1, PromptFound
<1>5. CASE p.by # None /\ p.at <= HEAD_BYTES
  <2>1. /\ p.at \in 1..Len(a) /\ a[p.at] = Prompt(p.by)
        /\ \A i \in 1..Len(a) : i < p.at => ~PromptLine(a[i])
    BY <1>5 DEF FirstIs
  <2>2. p.at \in 1..Len(h) /\ h[p.at] = Prompt(p.by)
    BY <1>2, <1>5, <2>1
  <2>3. PromptLine(h[p.at]) /\ h[p.at].by = p.by
    BY <2>2 DEF PromptLine, Prompt
  <2>4. \A i \in 1..Len(h) : i < p.at => ~PromptLine(h[i])
    BY <1>2, <1>5, <2>1
  <2> QED BY <1>1, <1>2, <1>5, <2>2, <2>3, <2>4, PromptFound
<1>6. CASE p.by # None /\ ~(p.at <= HEAD_BYTES)
  <2>1. \A i \in 1..Len(a) : i < p.at => ~PromptLine(a[i])
    BY <1>6 DEF FirstIs
  <2>2. \A i \in 1..Len(h) : ~PromptLine(h[i])
    BY <1>2, <1>3, <1>6, <2>1
  <2> QED BY <1>1, <1>2, <1>6, <2>2, PromptFound
<1> QED BY <1>4, <1>5, <1>6

\* A session on its own is credited with its own.
LEMMA UsageFollows == LogsInv => UsageIsOwn
<1> SUFFICES ASSUME LogsInv, NEW s \in enrich_usage_targets, Alone(s)
             PROVE  read_session(s) =
                      {IF wrote[s] # {} /\ newest[conv[s]].counts # None
                          /\ newest[conv[s]].age < TAIL_BYTES
                       THEN SessionReading(newest[conv[s]].counts) ELSE NO_DATA}
  BY DEF UsageIsOwn
<1>1. s \in Sessions
  BY DEF enrich_usage_targets
<1>2. PICK from \in Nat : from = index[s].created
  BY <1>1 DEF LogsInv, LogsTypes, Listed
<1>3. PICK to \in Nat : to = IF index[s].finished = None THEN clock ELSE index[s].finished
  BY <1>1 DEF LogsInv, LogsTypes, Listed
<1>4. PICK f \in Sessions : f = conv[s]
  BY <1>1 DEF LogsInv, LogsTypes
<1>5. \A o \in Sessions \ {s} : /\ wrote[o] \cap (from..to) = {}
                                /\ conv[o] = f => \A t \in wrote[o] : t < from
  BY <1>2, <1>3, <1>4 DEF Alone, AloneIn, window_of
<1>6. pick_log(window_of(s)) = {g \in Sessions : dir[g].lines # <<>> /\ dir[g].mtime \in from..to}
  BY <1>2, <1>3 DEF pick_log, list_jsonl, window_of
<1>7. \A g \in Sessions : dir[g].lines # <<>> =>
          \E o \in Sessions : conv[o] = g /\ dir[g].mtime \in wrote[o]
  BY DEF LogsInv, WritesInv
<1>8. \A g \in pick_log(window_of(s)) : g = f /\ wrote[s] # {}
  <2> TAKE g \in pick_log(window_of(s))
  <2>1. g \in Sessions /\ dir[g].lines # <<>> /\ dir[g].mtime \in from..to
    BY <1>6
  <2>2. PICK o \in Sessions : conv[o] = g /\ dir[g].mtime \in wrote[o]
    BY <1>7, <2>1
  <2>3. o = s
    BY <1>5, <2>1, <2>2
  <2> QED BY <1>4, <2>2, <2>3
<1>9. ASSUME wrote[s] # {} PROVE f \in pick_log(window_of(s))
  <2>1. PICK t \in wrote[s] : TRUE
    BY <1>9
  <2>2. /\ index[s].started # None /\ index[s].started <= t
        /\ t <= dir[f].mtime /\ dir[f].lines # <<>>
    BY <1>1, <1>4, <2>1 DEF LogsInv, WritesInv
  <2>3. index[s].created <= index[s].started
    BY <1>1, <2>2 DEF LogsInv, TimesInv
  <2>4. t \in Nat /\ dir[f].mtime \in Nat /\ index[s].started \in Nat
    BY <1>1, <1>4, <2>1, <2>2 DEF LogsInv, LogsTypes, Listed
  <2>5. from <= dir[f].mtime
    BY <1>2, <2>2, <2>3, <2>4
  <2>6. PICK o \in Sessions : conv[o] = f /\ dir[f].mtime \in wrote[o]
    BY <1>7, <2>2
  <2>7. o = s
    BY <1>5, <2>4, <2>5, <2>6
  <2>8. index[s].finished # None => dir[f].mtime <= index[s].finished
    BY <1>1, <2>6, <2>7 DEF LogsInv, WritesInv
  <2>9. dir[f].mtime <= clock
    BY DEF LogsInv, TimesInv
  <2>10. dir[f].mtime <= to
    BY <1>3, <2>8, <2>9
  <2> QED BY <1>2, <1>3, <1>6, <2>2, <2>4, <2>5, <2>10
<1>10. CASE wrote[s] = {}
  <2>1. pick_log(window_of(s)) = {}
    BY <1>8, <1>10
  <2> QED BY <1>10, <2>1 DEF read_session
<1>11. CASE wrote[s] # {}
  <2>1. pick_log(window_of(s)) = {f}
    BY <1>8, <1>9, <1>11
  <2>2. read_session(s) = {project_session(read_tail(dir[f].lines))}
    BY <2>1 DEF read_session
  <2>3. dir[f].lines \in Read /\ newest[f].age \in Nat /\ NewestIs(dir[f].lines, newest[f])
    BY DEF LogsInv, LogsTypes, LinesInv
  <2>4. project_session(read_tail(dir[f].lines)) =
          IF newest[f].counts # None /\ newest[f].age < TAIL_BYTES
          THEN SessionReading(newest[f].counts) ELSE NO_DATA
    BY <2>3, TailSays
  <2> QED BY <1>4, <1>11, <2>2, <2>4
<1> QED BY <1>10, <1>11

\* The titles said of sessions after which nobody wrote are theirs.
LEMMA TitleFollows == LogsInv => LatestTitleIsOwn
<1> SUFFICES ASSUME LogsInv, NEW s \in Sessions, AloneIn(s, since(s), MaxTime)
             PROVE  /\ index[s].title \in {None, first[conv[s]].by}
                    /\ s \in untitled => GivenUp(s)
  BY DEF LatestTitleIsOwn, GivenUp
<1>1. Own(s)
  BY DEF Own
<1> QED BY <1>1 DEF LogsInv, TitlesInv

-----------------------------------------------------------------------------
(* Steps.                                                                   *)

\* At first there is nothing.
LEMMA LogsStart == LogsInit => LogsInv
<1> SUFFICES ASSUME LogsInit PROVE LogsInv
  OBVIOUS
<1>1. <<>> \in Read /\ Len(<<>>) = 0 /\ MaxTime \in Nat
  BY HarnessLogsAssumption DEF Read, HarnessLogsAssumption
<1>2. LogsTypes
  BY <1>1 DEF LogsInit, LogsTypes, Listed, NoScan
<1>3. LinesInv
  BY <1>1 DEF LogsInit, LinesInv, FirstIs, NewestIs
<1>4. TimesInv /\ WritesInv
  BY DEF LogsInit, TimesInv, WritesInv
<1>5. TitlesInv /\ ScanInv
  BY DEF LogsInit, TitlesInv, ScanInv, NoScan
<1> QED BY <1>2, <1>3, <1>4, <1>5 DEF LogsInv

\* Nobody who was written after comes to be left alone again.
LEMMA OwnStays ==
    ASSUME NEW s \in Sessions, since(s)' = since(s), conv'[s] = conv[s],
           \A o \in Sessions : wrote[o] \subseteq wrote'[o],
           \A o \in Sessions : conv'[o] = conv[o] \/ wrote[o] = {}
    PROVE  Own(s)' => Own(s)
<1>1. PICK from : from = since(s)
  OBVIOUS
<1>2. ASSUME Own(s)', NEW o \in Sessions \ {s}
      PROVE  /\ wrote[o] \cap (from..MaxTime) = {}
             /\ conv[o] = conv[s] => \A t \in wrote[o] : t < from
  <2>1. /\ wrote'[o] \cap (from..MaxTime) = {}
        /\ conv'[o] = conv'[s] => \A t \in wrote'[o] : t < from
    BY <1>1, <1>2 DEF Own, AloneIn
  <2>2. wrote[o] \subseteq wrote'[o] /\ (conv'[o] = conv[o] \/ wrote[o] = {})
    OBVIOUS
  <2> QED BY <2>1, <2>2
<1> QED BY <1>1, <1>2 DEF Own, AloneIn

\* A scan begins with sessions that ran.
LEMMA TitleBeginStep == LogsInv /\ title_begin => LogsInv'
<1> SUFFICES ASSUME LogsInv, title_begin PROVE LogsInv'
  OBVIOUS
<1>1. UNCHANGED <<index, untitled, clock, dir, conv, restarts, wrote, first, newest>>
  BY DEF title_begin, worldVars, historyVars
<1>2. scan' = [left |-> {[id |-> s, since |-> since(s), finished |-> Terminal(s)] : s \in candidates},
               at |-> None, finished |-> FALSE, found |-> None]
  BY DEF title_begin, NoScan
<1>3. \A s \in candidates : s \in Sessions /\ Ran(s) /\ since(s) \in Nat /\ Terminal(s) \in BOOLEAN
                            /\ (Terminal(s) => index[s].state = "ended")
  <2> TAKE s \in candidates
  <2>1. s \in Sessions /\ (Live(s) \/ Terminal(s))
    BY DEF candidates
  <2>2. index[s] \in Listed
    BY <2>1 DEF LogsInv, LogsTypes
  <2> QED BY <2>1, <2>2 DEF Live, Terminal, Ran, since, Listed
<1>4. LogsTypes'
  <2>1. scan'.left \subseteq [id : Sessions, since : Nat, finished : BOOLEAN]
    BY <1>2, <1>3
  <2>2. scan' \in [left : SUBSET [id : Sessions, since : Nat, finished : BOOLEAN],
                   at : Sessions \cup {None}, finished : BOOLEAN, found : Sessions \cup {None}]
    BY <1>2, <2>1
  <2> QED BY <1>1, <2>2 DEF LogsInv, LogsTypes
<1>5. LinesInv' /\ TimesInv' /\ WritesInv'
  BY <1>1 DEF LogsInv, LinesInv, TimesInv, WritesInv, Ran
<1>6. TitlesInv'
  BY <1>1 DEF LogsInv, TitlesInv, Ran, Own, AloneIn, since, GivenUp
<1>7. ScanInv'
  <2>1. \A c \in scan'.left : Ran(c.id) /\ c.since = since(c.id)
                              /\ (c.finished => index[c.id].state = "ended")
    BY <1>2, <1>3
  <2>2. scan'.at = None
    BY <1>2
  <2> QED BY <1>1, <2>1, <2>2 DEF ScanInv, Ran, since
<1> QED BY <1>4, <1>5, <1>6, <1>7 DEF LogsInv

\* What a scan reads for a session after which nobody wrote is its own.
LEMMA OwnRead ==
    ASSUME LogsInv, NEW s \in Sessions, Ran(s), Own(s), NEW t \in first_prompt_for(since(s))
    PROVE  /\ t # None => t = first[conv[s]].by
           /\ t = None => GivenUp(s)
<1>1. PICK f \in Sessions : f = conv[s]
  BY DEF LogsInv, LogsTypes
<1>2. since(s) \in Nat
  <2>1. index[s] \in Listed
    BY DEF LogsInv, LogsTypes
  <2> QED BY <2>1 DEF since, Listed
<1>3. PICK from \in Nat : from = since(s)
  BY <1>2
<1>4. \A o \in Sessions \ {s} : wrote[o] \cap (from..MaxTime) = {}
  BY <1>3 DEF Own, AloneIn
<1>5. ASSUME NEW g \in Sessions, dir[g].lines # <<>>, dir[g].mtime >= from
      PROVE  g = f
  <2>1. PICK o \in Sessions : conv[o] = g /\ dir[g].mtime \in wrote[o]
    BY <1>5 DEF LogsInv, WritesInv
  <2>2. dir[g].mtime \in Nat /\ dir[g].mtime <= MaxTime
    <3>1. dir[g].mtime \in Nat /\ clock \in Nat /\ clock <= MaxTime /\ dir[g].mtime <= clock
      BY DEF LogsInv, LogsTypes, TimesInv
    <3>2. MaxTime \in Nat
      BY HarnessLogsAssumption DEF HarnessLogsAssumption
    <3> QED BY <3>1, <3>2
  <2>3. MaxTime \in Nat
    BY HarnessLogsAssumption DEF HarnessLogsAssumption
  <2>4. dir[g].mtime \in from..MaxTime
    BY <1>5, <2>2, <2>3
  <2>5. o = s
    BY <1>4, <2>1, <2>4
  <2> QED BY <1>1, <2>1, <2>5
<1>6. pick_log_for(from) \subseteq {f}
  BY <1>5 DEF pick_log_for, list_jsonl
<1>7. ASSUME wrote[s] # {} PROVE f \in pick_log_for(from)
  <2>1. PICK u \in wrote[s] : TRUE
    BY <1>7
  <2>2. index[s].started # None /\ index[s].started <= u /\ u <= dir[f].mtime /\ dir[f].lines # <<>>
    BY <1>1, <2>1 DEF LogsInv, WritesInv
  <2>3. from = index[s].started
    BY <1>3, <2>2 DEF since
  <2>4. u \in Nat /\ dir[f].mtime \in Nat
    BY <2>1 DEF LogsInv, LogsTypes
  <2>5. dir[f].mtime >= from
    BY <2>2, <2>3, <2>4
  <2>6. \A g \in Sessions : dir[g].lines # <<>> /\ dir[g].mtime >= from => dir[g].mtime <= dir[f].mtime
    BY <1>5, <2>4
  <2> QED BY <2>2, <2>5, <2>6 DEF pick_log_for, list_jsonl
<1>8. CASE pick_log_for(from) = {}
  <2>1. t = None
    BY <1>3, <1>8 DEF first_prompt_for
  <2> QED BY <1>7, <1>8, <2>1 DEF GivenUp
<1>9. CASE pick_log_for(from) # {}
  <2>1. t = first_prompt(read_head(dir[f].lines))
    BY <1>3, <1>6, <1>9 DEF first_prompt_for
  <2>2. dir[f].lines \in Read /\ first[f].at \in Nat /\ FirstIs(dir[f].lines, first[f])
    BY DEF LogsInv, LogsTypes, LinesInv
  <2>3. t = IF first[f].by # None /\ first[f].at <= HEAD_BYTES THEN first[f].by ELSE None
    BY <2>1, <2>2, HeadSays
  <2>4. HEAD_BYTES \in Nat
    BY HarnessLogsAssumption DEF HarnessLogsAssumption
  <2> QED BY <1>1, <2>2, <2>3, <2>4 DEF GivenUp
<1> QED BY <1>8, <1>9

\* A scan reads the log of a session.
LEMMA TitleReadStep == LogsInv /\ (\E c \in scan.left : title_read(c)) => LogsInv'
<1> SUFFICES ASSUME LogsInv, NEW c \in scan.left, title_read(c) PROVE LogsInv'
  OBVIOUS
<1>1. UNCHANGED <<index, untitled, clock, dir, conv, restarts, wrote, first, newest>>
  BY DEF title_read, worldVars, historyVars
<1>2. PICK t \in first_prompt_for(c.since) :
        scan' = [left |-> scan.left \ {c}, at |-> c.id, finished |-> c.finished, found |-> t]
  BY DEF title_read
<1>3. c \in [id : Sessions, since : Nat, finished : BOOLEAN] /\ scan.left \in SUBSET [id : Sessions, since : Nat, finished : BOOLEAN]
  BY DEF LogsInv, LogsTypes
<1>4. PICK s \in Sessions : s = c.id
  BY <1>3
<1>5. Ran(s) /\ c.since = since(s) /\ (c.finished => index[s].state = "ended")
  BY <1>4 DEF LogsInv, ScanInv
<1>6. t \in Sessions \cup {None}
  <2>1. ASSUME NEW f \in Sessions PROVE first_prompt(read_head(dir[f].lines)) \in Sessions \cup {None}
    <3>1. dir[f].lines \in Read /\ first[f].at \in Nat /\ FirstIs(dir[f].lines, first[f])
          /\ first[f].by \in Sessions \cup {None}
      BY DEF LogsInv, LogsTypes, LinesInv
    <3> QED BY <3>1, HeadSays
  <2>2. pick_log_for(c.since) \subseteq Sessions
    BY DEF pick_log_for, list_jsonl
  <2> QED BY <2>1, <2>2 DEF first_prompt_for
<1>7. Own(s) => /\ t # None => t = first[conv[s]].by
                /\ t = None => GivenUp(s)
  BY <1>5, OwnRead
<1>8. LogsTypes'
  <2>1. scan' \in [left : SUBSET [id : Sessions, since : Nat, finished : BOOLEAN],
                   at : Sessions \cup {None}, finished : BOOLEAN, found : Sessions \cup {None}]
    BY <1>2, <1>3, <1>6
  <2> QED BY <1>1, <2>1 DEF LogsInv, LogsTypes
<1>9. LinesInv' /\ TimesInv' /\ WritesInv'
  BY <1>1 DEF LogsInv, LinesInv, TimesInv, WritesInv, Ran
<1>10. TitlesInv'
  BY <1>1 DEF LogsInv, TitlesInv, Ran, Own, AloneIn, since, GivenUp
<1>11. ScanInv'
  <2>1. scan'.left = scan.left \ {c} /\ scan'.at = s /\ scan'.finished = c.finished /\ scan'.found = t
    BY <1>2, <1>4
  <2>2. \A d \in scan'.left : Ran(d.id) /\ d.since = since(d.id)
                              /\ (d.finished => index[d.id].state = "ended")
    BY <2>1 DEF LogsInv, ScanInv
  <2>3. /\ Own(s) /\ t # None => t = first[conv[s]].by
        /\ Own(s) /\ t = None => GivenUp(s)
    BY <1>7
  <2>4. Own(s)' <=> Own(s)
    BY <1>1 DEF Own, AloneIn, since
  <2> QED BY <1>1, <1>5, <2>1, <2>2, <2>3, <2>4 DEF ScanInv, Ran, since, GivenUp
<1> QED BY <1>8, <1>9, <1>10, <1>11 DEF LogsInv

\* A title found is put in the index, and a session that has none given up.
LEMMA TitlePutStep == LogsInv /\ title_put => LogsInv'
<1> SUFFICES ASSUME LogsInv, title_put PROVE LogsInv'
  OBVIOUS
<1>1. UNCHANGED <<clock, dir, conv, restarts, wrote, first, newest>>
  BY DEF title_put, worldVars, historyVars
<1>2. scan' = [left |-> scan.left, at |-> None, finished |-> FALSE, found |-> None]
  BY DEF title_put, NoScan
<1>3. PICK s \in Sessions : s = scan.at
  BY DEF title_put, LogsInv, LogsTypes
<1>4. scan.found \in Sessions \cup {None} /\ index \in [Sessions -> Listed]
  BY DEF LogsInv, LogsTypes
<1>5. /\ Ran(s)
      /\ scan.finished => index[s].state = "ended"
      /\ Own(s) /\ scan.found # None => scan.found = first[conv[s]].by
      /\ Own(s) /\ scan.found = None /\ scan.finished => GivenUp(s)
  BY <1>3, HarnessLogsAssumption DEF HarnessLogsAssumption, LogsInv, ScanInv
<1>6. \/ /\ scan.found # None /\ untitled' = untitled
         /\ index' = [index EXCEPT ![s].title = scan.found]
      \/ /\ scan.found = None /\ index' = index
         /\ \/ scan.finished /\ untitled' = untitled \cup {s}
            \/ untitled' = untitled
  BY <1>3 DEF title_put
<1>7. /\ index' \in [Sessions -> Listed] /\ untitled' \subseteq Sessions
      /\ \A o \in Sessions : /\ index'[o].state = index[o].state
                             /\ index'[o].created = index[o].created
                             /\ index'[o].started = index[o].started
                             /\ index'[o].finished = index[o].finished
                             /\ \/ index'[o].title = index[o].title
                                \/ o = s /\ scan.found # None /\ index'[o].title = scan.found
  <2>1. untitled \subseteq Sessions
    BY DEF LogsInv, LogsTypes
  <2>2. CASE index' = index
    BY <1>4, <1>6, <2>1, <2>2
  <2>3. CASE untitled' = untitled /\ index' = [index EXCEPT ![s].title = scan.found] /\ scan.found # None
    <3>1. PICK r \in Listed : r = [index[s] EXCEPT !.title = scan.found]
      BY <1>4 DEF Listed
    <3>2. index' = [index EXCEPT ![s] = r]
      BY <2>3, <3>1
    <3>3. /\ r.state = index[s].state /\ r.created = index[s].created
          /\ r.started = index[s].started /\ r.finished = index[s].finished /\ r.title = scan.found
      BY <1>4, <3>1 DEF Listed
    <3> QED BY <1>4, <2>1, <2>3, <3>2, <3>3
  <2> QED BY <1>6, <2>2, <2>3
<1>8. \A o \in Sessions : (Ran(o)' <=> Ran(o)) /\ since(o)' = since(o) /\ (Own(o)' <=> Own(o))
                          /\ (GivenUp(o)' <=> GivenUp(o))
  BY <1>1, <1>7 DEF Ran, since, Own, AloneIn, GivenUp
<1>9. LogsTypes'
  <2>1. scan' \in [left : SUBSET [id : Sessions, since : Nat, finished : BOOLEAN],
                   at : Sessions \cup {None}, finished : BOOLEAN, found : Sessions \cup {None}]
    BY <1>2 DEF LogsInv, LogsTypes
  <2> QED BY <1>1, <1>7, <2>1 DEF LogsInv, LogsTypes
<1>10. LinesInv'
  BY <1>1 DEF LogsInv, LinesInv
<1>11. TimesInv'
  BY <1>1, <1>7 DEF LogsInv, TimesInv
<1>12. WritesInv'
  BY <1>1, <1>7, <1>8 DEF LogsInv, WritesInv
<1>13. TitlesInv'
  <2>1. ASSUME NEW o \in Sessions
        PROVE  /\ index'[o].title # None => Ran(o)'
               /\ Own(o)' => index'[o].title \in {None, first'[conv'[o]].by}
    <3>1. /\ index[o].title # None => Ran(o)
          /\ Own(o) => index[o].title \in {None, first[conv[o]].by}
      BY DEF LogsInv, TitlesInv
    <3> QED BY <1>1, <1>5, <1>7, <1>8, <3>1
  <2>2. ASSUME NEW o \in untitled' PROVE index'[o].state = "ended" /\ (Own(o)' => GivenUp(o)')
    <3>1. o \in Sessions
      BY <1>7
    <3>2. CASE o \in untitled
      BY <1>7, <1>8, <3>1, <3>2 DEF LogsInv, TitlesInv
    <3>3. CASE o \notin untitled
      <4>1. o = s /\ scan.found = None /\ scan.finished
        BY <1>6, <3>3
      <4> QED BY <1>5, <1>7, <1>8, <3>1, <4>1
    <3> QED BY <3>2, <3>3
  <2> QED BY <2>1, <2>2 DEF TitlesInv
<1>14. ScanInv'
  <2>1. \A c \in scan.left : c.id \in Sessions
    BY DEF LogsInv, LogsTypes
  <2> QED BY <1>2, <1>7, <1>8, <2>1 DEF LogsInv, ScanInv
<1> QED BY <1>9, <1>10, <1>11, <1>12, <1>13, <1>14 DEF LogsInv

\* The harness's conversation is chosen when the session is created.
LEMMA CreateStep ==
    ASSUME LogsInv, NEW s \in Sessions, NEW k \in {"agent", "shell"}, NEW r \in BOOLEAN, create(s, k, r)
    PROVE  LogsInv'
<1>1. UNCHANGED <<untitled, scan, clock, dir, restarts, wrote, first, newest>>
  BY DEF create, historyVars
<1>2. PICK f \in Sessions : conv' = [conv EXCEPT ![s] = f]
  <2>1. resume_decision(s, r) \subseteq Sessions
    BY DEF resume_decision, recent, list_jsonl
  <2> QED BY <2>1 DEF create
<1>3. index \in [Sessions -> Listed] /\ conv \in [Sessions -> Sessions] /\ clock \in Nat
  BY DEF LogsInv, LogsTypes
<1>4. PICK q : q = [index[s] EXCEPT !.state = "creating", !.kind = k, !.created = clock]
  OBVIOUS
<1>5. /\ q \in Listed /\ q.state = "creating" /\ q.created = clock /\ q.started = index[s].started
      /\ q.finished = index[s].finished /\ q.title = index[s].title
  <2>1. index[s] \in Listed
    BY <1>3
  <2> QED BY <1>3, <1>4, <2>1 DEF Listed
<1>6. index' = [index EXCEPT ![s] = q]
  BY <1>4 DEF create
<1>7. index[s].state = "none" /\ ~Ran(s)
  BY DEF create, Ran
<1>8. /\ index[s].started = None /\ index[s].finished = None /\ index[s].title = None
      /\ wrote[s] = {} /\ s \notin untitled
  BY <1>7 DEF LogsInv, TimesInv, WritesInv, TitlesInv
<1>9. /\ index'[s] = q
      /\ \A o \in Sessions \ {s} : index'[o] = index[o] /\ conv'[o] = conv[o]
  BY <1>2, <1>3, <1>6
<1>10. /\ ~Ran(s)'
       /\ \A o \in Sessions \ {s} : /\ (Ran(o)' <=> Ran(o)) /\ since(o)' = since(o)
                                     /\ (Own(o)' => Own(o)) /\ (GivenUp(o)' <=> GivenUp(o))
  <2>1. ~Ran(s)'
    BY <1>5, <1>9 DEF Ran
  <2>2. ASSUME NEW o \in Sessions \ {s}
        PROVE  /\ (Ran(o)' <=> Ran(o)) /\ since(o)' = since(o)
               /\ (Own(o)' => Own(o)) /\ (GivenUp(o)' <=> GivenUp(o))
    <3>1. (Ran(o)' <=> Ran(o)) /\ since(o)' = since(o) /\ (GivenUp(o)' <=> GivenUp(o))
      BY <1>1, <1>9 DEF Ran, since, GivenUp
    <3>2. \A p \in Sessions : wrote[p] \subseteq wrote'[p] /\ (conv'[p] = conv[p] \/ wrote[p] = {})
      BY <1>1, <1>8, <1>9
    <3>3. Own(o)' => Own(o)
      BY <1>9, <3>1, <3>2, OwnStays
    <3> QED BY <3>1, <3>3
  <2> QED BY <2>1, <2>2
<1>11. LogsTypes'
  <2>1. index' \in [Sessions -> Listed] /\ conv' \in [Sessions -> Sessions]
    BY <1>2, <1>3, <1>5, <1>6
  <2> QED BY <1>1, <2>1 DEF LogsInv, LogsTypes
<1>12. LinesInv'
  BY <1>1 DEF LogsInv, LinesInv
<1>13. TimesInv'
  BY <1>1, <1>3, <1>5, <1>7, <1>8, <1>9 DEF LogsInv, TimesInv
<1>14. WritesInv'
  <2>1. ASSUME NEW g \in Sessions, dir[g].lines # <<>>
        PROVE  \E o \in Sessions : conv'[o] = g /\ dir[g].mtime \in wrote[o]
    <3>1. PICK o \in Sessions : conv[o] = g /\ dir[g].mtime \in wrote[o]
      BY <2>1 DEF LogsInv, WritesInv
    <3>2. o # s
      BY <1>8, <3>1
    <3> QED BY <1>9, <3>1, <3>2
  <2>2. ASSUME NEW o \in Sessions, NEW t \in wrote[o]
        PROVE  /\ Ran(o)' /\ index'[o].started # None /\ index'[o].started <= t
               /\ index'[o].finished # None => t <= index'[o].finished
               /\ t <= dir[conv'[o]].mtime /\ dir[conv'[o]].lines # <<>>
    <3>1. o # s
      BY <1>8, <2>2
    <3> QED BY <1>9, <1>10, <2>2, <3>1 DEF LogsInv, WritesInv
  <2> QED BY <1>1, <2>1, <2>2 DEF WritesInv
<1>15. TitlesInv'
  <2>1. ASSUME NEW o \in Sessions
        PROVE  /\ index'[o].title # None => Ran(o)'
               /\ Own(o)' => index'[o].title \in {None, first[conv'[o]].by}
    <3>1. CASE o = s
      BY <1>5, <1>8, <1>9, <3>1
    <3>2. CASE o # s
      BY <1>9, <1>10, <3>2 DEF LogsInv, TitlesInv
    <3> QED BY <3>1, <3>2
  <2>2. ASSUME NEW o \in untitled PROVE index'[o].state = "ended" /\ (Own(o)' => GivenUp(o)')
    <3>1. o # s /\ o \in Sessions
      BY <1>8 DEF LogsInv, LogsTypes
    <3> QED BY <1>9, <1>10, <3>1 DEF LogsInv, TitlesInv
  <2> QED BY <1>1, <2>1, <2>2 DEF TitlesInv
<1>16. ScanInv'
  <2>1. \A c \in scan.left : c.id \in Sessions \ {s}
    BY <1>7 DEF LogsInv, LogsTypes, ScanInv
  <2>2. scan.at # None => scan.at \in Sessions \ {s}
    BY <1>7 DEF LogsInv, LogsTypes, ScanInv
  <2>3. \A c \in scan.left : Ran(c.id)' /\ c.since = since(c.id)'
                              /\ (c.finished => index'[c.id].state = "ended")
    BY <1>9, <1>10, <2>1 DEF LogsInv, ScanInv
  <2>4. scan.at # None =>
          /\ Ran(scan.at)'
          /\ scan.finished => index'[scan.at].state = "ended"
          /\ Own(scan.at)' /\ scan.found # None => scan.found = first[conv'[scan.at]].by
          /\ Own(scan.at)' /\ scan.found = None /\ scan.finished => GivenUp(scan.at)'
    <3> SUFFICES ASSUME NEW o \in Sessions \ {s}, o = scan.at
                 PROVE  /\ Ran(o)'
                        /\ scan.finished => index'[o].state = "ended"
                        /\ Own(o)' /\ scan.found # None => scan.found = first[conv'[o]].by
                        /\ Own(o)' /\ scan.found = None /\ scan.finished => GivenUp(o)'
      BY <1>1, <2>2
    <3>1. o # None
      BY HarnessLogsAssumption DEF HarnessLogsAssumption
    <3>2. /\ scan.finished => index[o].state = "ended"
          /\ Own(o) /\ scan.found # None => scan.found = first[conv[o]].by
          /\ Own(o) /\ scan.found = None /\ scan.finished => GivenUp(o)
      BY <3>1 DEF LogsInv, ScanInv
    <3>3. Ran(o)
      BY <3>1 DEF LogsInv, ScanInv
    <3> QED BY <1>9, <1>10, <3>2, <3>3
  <2> QED BY <1>1, <2>3, <2>4 DEF ScanInv
<1> QED BY <1>11, <1>12, <1>13, <1>14, <1>15, <1>16 DEF LogsInv

\* What goes on under sessions that ran leaves their titles to them.
LEMMA TitlesStay ==
    ASSUME LogsInv, scan' = scan, untitled' = untitled,
           \A o \in Sessions : index'[o].title = index[o].title,
           \A o \in Sessions : Ran(o) =>
              /\ Ran(o)' /\ since(o)' = since(o) /\ conv'[o] = conv[o]
              /\ index[o].state = "ended" => index'[o].state = "ended"
              /\ Own(o)' => Own(o)
              /\ first[conv[o]].by # None => first'[conv[o]].by = first[conv[o]].by
              /\ Own(o)' /\ index[o].state = "ended" /\ GivenUp(o) => GivenUp(o)'
    PROVE  TitlesInv' /\ ScanInv'
<1>1. ASSUME NEW o \in Sessions
      PROVE  /\ index'[o].title # None => Ran(o)'
             /\ Own(o)' => index'[o].title \in {None, first'[conv'[o]].by}
  <2>1. /\ index[o].title # None => Ran(o)
        /\ Own(o) => index[o].title \in {None, first[conv[o]].by}
    BY DEF LogsInv, TitlesInv
  <2>2. CASE Ran(o)
    BY <2>1, <2>2
  <2>3. CASE ~Ran(o)
    BY <2>1, <2>3
  <2> QED BY <2>2, <2>3
<1>2. ASSUME NEW o \in untitled
      PROVE  index'[o].state = "ended" /\ (Own(o)' => GivenUp(o)')
  <2>1. o \in Sessions /\ index[o].state = "ended" /\ (Own(o) => GivenUp(o))
    BY DEF LogsInv, LogsTypes, TitlesInv
  <2>2. Ran(o)
    BY <2>1 DEF Ran
  <2> QED BY <2>1, <2>2
<1>3. TitlesInv'
  BY <1>1, <1>2 DEF TitlesInv
<1>4. ASSUME NEW c \in scan.left
      PROVE  Ran(c.id)' /\ c.since = since(c.id)' /\ (c.finished => index'[c.id].state = "ended")
  <2>1. c.id \in Sessions
    BY DEF LogsInv, LogsTypes
  <2>2. Ran(c.id) /\ c.since = since(c.id) /\ (c.finished => index[c.id].state = "ended")
    BY DEF LogsInv, ScanInv
  <2> QED BY <2>1, <2>2
<1>5. ASSUME NEW o \in Sessions, o = scan.at
      PROVE  /\ Ran(o)'
             /\ scan.finished => index'[o].state = "ended"
             /\ Own(o)' /\ scan.found # None => scan.found = first'[conv'[o]].by
             /\ Own(o)' /\ scan.found = None /\ scan.finished => GivenUp(o)'
  <2>1. o # None
    BY HarnessLogsAssumption DEF HarnessLogsAssumption
  <2>2. /\ scan.finished => index[o].state = "ended"
        /\ Own(o) /\ scan.found # None => scan.found = first[conv[o]].by
        /\ Own(o) /\ scan.found = None /\ scan.finished => GivenUp(o)
    BY <1>5, <2>1 DEF LogsInv, ScanInv
  <2>3. Ran(o)
    BY <1>5, <2>1 DEF LogsInv, ScanInv
  <2> QED BY <2>2, <2>3
<1>6. scan.at \in Sessions \cup {None}
  BY DEF LogsInv, LogsTypes
<1>7. ScanInv'
  <2>1. scan.at # None =>
          /\ Ran(scan.at)'
          /\ scan.finished => index'[scan.at].state = "ended"
          /\ Own(scan.at)' /\ scan.found # None => scan.found = first'[conv'[scan.at]].by
          /\ Own(scan.at)' /\ scan.found = None /\ scan.finished => GivenUp(scan.at)'
    BY <1>5, <1>6
  <2> QED BY <1>4, <2>1 DEF ScanInv
<1> QED BY <1>3, <1>7

\* A session starts: it has not written, and is asked about from now on.
LEMMA StartedStep == ASSUME LogsInv, NEW s \in Sessions, started(s) PROVE LogsInv'
<1>1. UNCHANGED <<untitled, scan, clock, dir, conv, restarts, wrote, first, newest>>
  BY DEF started, worldVars, historyVars
<1>2. index \in [Sessions -> Listed] /\ clock \in Nat
  BY DEF LogsInv, LogsTypes
<1>3. PICK q : q = [index[s] EXCEPT !.state = "running", !.started = clock]
  OBVIOUS
<1>4. /\ q \in Listed /\ q.state = "running" /\ q.started = clock /\ q.created = index[s].created
      /\ q.finished = index[s].finished /\ q.title = index[s].title
  <2>1. index[s] \in Listed
    BY <1>2
  <2> QED BY <1>2, <1>3, <2>1 DEF Listed
<1>5. index' = [index EXCEPT ![s] = q]
  BY <1>3 DEF started
<1>6. index[s].state = "creating" /\ ~Ran(s)
  BY DEF started, Ran
<1>7. /\ index[s].created <= clock /\ index[s].finished = None /\ wrote[s] = {} /\ clock # None
  <2>1. clock # None
    BY <1>2, HarnessLogsAssumption DEF HarnessLogsAssumption
  <2> QED BY <1>6, <2>1 DEF LogsInv, TimesInv, WritesInv
<1>8. index'[s] = q /\ \A o \in Sessions \ {s} : index'[o] = index[o]
  BY <1>2, <1>5
<1>9. LogsTypes'
  <2>1. index' \in [Sessions -> Listed]
    BY <1>2, <1>4, <1>5
  <2> QED BY <1>1, <2>1 DEF LogsInv, LogsTypes
<1>10. LinesInv'
  BY <1>1 DEF LogsInv, LinesInv
<1>11. TimesInv'
  <2>1. clock <= clock
    BY <1>2
  <2> QED BY <1>1, <1>4, <1>7, <1>8, <2>1 DEF LogsInv, TimesInv
<1>12. WritesInv'
  <2>1. \A o \in Sessions : wrote[o] # {} => index'[o] = index[o] /\ (Ran(o)' <=> Ran(o))
    BY <1>7, <1>8 DEF Ran
  <2> QED BY <1>1, <2>1 DEF LogsInv, WritesInv
<1>13. \A o \in Sessions : Ran(o) =>
          /\ Ran(o)' /\ since(o)' = since(o)
          /\ index[o].state = "ended" => index'[o].state = "ended"
          /\ (Own(o)' <=> Own(o)) /\ (GivenUp(o)' <=> GivenUp(o))
  BY <1>1, <1>6, <1>8 DEF Ran, since, Own, AloneIn, GivenUp
<1>14. TitlesInv' /\ ScanInv'
  <2>1. \A o \in Sessions : index'[o].title = index[o].title
    BY <1>4, <1>8
  <2> QED BY <1>1, <1>13, <2>1, TitlesStay
<1> QED BY <1>9, <1>10, <1>11, <1>12, <1>14 DEF LogsInv

\* A session ends: what its harness wrote was before.
LEMMA EndedStep == ASSUME LogsInv, NEW s \in Sessions, ended(s) PROVE LogsInv'
<1>1. UNCHANGED <<untitled, scan, clock, dir, conv, restarts, wrote, first, newest>>
  BY DEF ended, worldVars, historyVars
<1>2. index \in [Sessions -> Listed] /\ clock \in Nat
  BY DEF LogsInv, LogsTypes
<1>3. PICK q : q = [index[s] EXCEPT !.state = "ended", !.finished = clock]
  OBVIOUS
<1>4. /\ q \in Listed /\ q.state = "ended" /\ q.finished = clock /\ q.created = index[s].created
      /\ q.started = index[s].started /\ q.title = index[s].title
  <2>1. index[s] \in Listed
    BY <1>2
  <2> QED BY <1>2, <1>3, <2>1 DEF Listed
<1>5. index' = [index EXCEPT ![s] = q]
  BY <1>3 DEF ended
<1>6. index[s].state \in {"creating", "running"}
  BY DEF ended
<1>7. /\ index[s].created <= clock /\ clock # None
      /\ index[s].started # None => index[s].created <= index[s].started /\ index[s].started <= clock
  <2>1. clock # None
    BY <1>2, HarnessLogsAssumption DEF HarnessLogsAssumption
  <2> QED BY <2>1 DEF LogsInv, TimesInv
<1>8. index'[s] = q /\ \A o \in Sessions \ {s} : index'[o] = index[o]
  BY <1>2, <1>5
<1>9. LogsTypes'
  <2>1. index' \in [Sessions -> Listed]
    BY <1>2, <1>4, <1>5
  <2> QED BY <1>1, <2>1 DEF LogsInv, LogsTypes
<1>10. LinesInv'
  BY <1>1 DEF LogsInv, LinesInv
<1>11. TimesInv'
  <2>1. clock <= clock
    BY <1>2
  <2> QED BY <1>1, <1>4, <1>7, <1>8, <2>1 DEF LogsInv, TimesInv
<1>12. \A t \in wrote[s] : t <= clock
  <2> TAKE t \in wrote[s]
  <2>1. PICK f \in Sessions : f = conv[s]
    BY DEF LogsInv, LogsTypes
  <2>2. t \in Nat /\ dir[f].mtime \in Nat
    BY <2>1 DEF LogsInv, LogsTypes
  <2>3. t <= dir[f].mtime
    BY <2>1 DEF LogsInv, WritesInv
  <2>4. dir[f].mtime <= clock
    BY DEF LogsInv, TimesInv
  <2> QED BY <1>2, <2>2, <2>3, <2>4
<1>13. WritesInv'
  <2>1. ASSUME NEW o \in Sessions, NEW t \in wrote[o]
        PROVE  /\ Ran(o)' /\ index'[o].started # None /\ index'[o].started <= t
               /\ index'[o].finished # None => t <= index'[o].finished
               /\ t <= dir[conv[o]].mtime /\ dir[conv[o]].lines # <<>>
    <3>1. /\ Ran(o) /\ index[o].started # None /\ index[o].started <= t
          /\ index[o].finished # None => t <= index[o].finished
          /\ t <= dir[conv[o]].mtime /\ dir[conv[o]].lines # <<>>
      BY <2>1 DEF LogsInv, WritesInv
    <3>2. CASE o = s
      BY <1>4, <1>8, <1>12, <2>1, <3>1, <3>2 DEF Ran
    <3>3. CASE o # s
      BY <1>8, <3>1, <3>3 DEF Ran
    <3> QED BY <3>2, <3>3
  <2>2. \A g \in Sessions : dir[g].lines # <<>> =>
            \E o \in Sessions : conv[o] = g /\ dir[g].mtime \in wrote[o]
    BY DEF LogsInv, WritesInv
  <2> QED BY <1>1, <2>1, <2>2 DEF WritesInv
<1>14. \A o \in Sessions : Ran(o) =>
          /\ Ran(o)' /\ since(o)' = since(o)
          /\ index[o].state = "ended" => index'[o].state = "ended"
          /\ (Own(o)' <=> Own(o)) /\ (GivenUp(o)' <=> GivenUp(o))
  BY <1>1, <1>4, <1>8 DEF Ran, since, Own, AloneIn, GivenUp
<1>15. TitlesInv' /\ ScanInv'
  <2>1. \A o \in Sessions : index'[o].title = index[o].title
    BY <1>4, <1>8
  <2> QED BY <1>1, <1>14, <2>1, TitlesStay
<1> QED BY <1>9, <1>10, <1>11, <1>13, <1>15 DEF LogsInv

\* After a restart no session has a title.
LEMMA RestartedStep == LogsInv /\ restarted => LogsInv'
<1> SUFFICES ASSUME LogsInv, restarted PROVE LogsInv'
  OBVIOUS
<1>1. UNCHANGED <<clock, dir, conv, wrote, first, newest>>
  BY DEF restarted, worldVars, historyVars
<1>2. /\ untitled' = {}
      /\ scan' = [left |-> {}, at |-> None, finished |-> FALSE, found |-> None]
  BY DEF restarted, NoScan
<1>3. index \in [Sessions -> Listed] /\ index' = [s \in Sessions |-> [index[s] EXCEPT !.title = None]]
  BY DEF LogsInv, LogsTypes, restarted
<1>4. ASSUME NEW s \in Sessions
      PROVE  /\ index'[s] \in Listed /\ index'[s].state = index[s].state
             /\ index'[s].created = index[s].created /\ index'[s].started = index[s].started
             /\ index'[s].finished = index[s].finished /\ index'[s].title = None
  <2>1. index[s] \in Listed /\ index'[s] = [index[s] EXCEPT !.title = None]
    BY <1>3
  <2> QED BY <2>1 DEF Listed
<1>5. index' \in [Sessions -> Listed]
  BY <1>3, <1>4
<1>6. LogsTypes'
  <2>1. scan' \in [left : SUBSET [id : Sessions, since : Nat, finished : BOOLEAN],
                   at : Sessions \cup {None}, finished : BOOLEAN, found : Sessions \cup {None}]
    BY <1>2
  <2> QED BY <1>1, <1>2, <1>5, <2>1 DEF LogsInv, LogsTypes
<1>7. LinesInv'
  BY <1>1 DEF LogsInv, LinesInv
<1>8. TimesInv'
  BY <1>1, <1>4 DEF LogsInv, TimesInv
<1>9. WritesInv'
  BY <1>1, <1>4 DEF LogsInv, WritesInv, Ran
<1>10. TitlesInv' /\ ScanInv'
  BY <1>2, <1>4 DEF TitlesInv, ScanInv
<1> QED BY <1>6, <1>7, <1>8, <1>9, <1>10 DEF LogsInv

\* The clock goes on.
LEMMA TickStep == LogsInv /\ tick => LogsInv'
<1> SUFFICES ASSUME LogsInv, tick PROVE LogsInv'
  OBVIOUS
<1>1. /\ UNCHANGED <<index, untitled, scan, dir, conv, wrote, first, newest>>
      /\ clock < MaxTime /\ clock' = clock + 1
  BY DEF tick, daemonVars, historyVars
<1>2. clock \in Nat /\ MaxTime \in Nat /\ index \in [Sessions -> Listed]
      /\ \A f \in Sessions : dir[f].mtime \in Nat
  BY HarnessLogsAssumption DEF HarnessLogsAssumption, LogsInv, LogsTypes
<1>3. clock' \in Nat /\ clock' <= MaxTime /\ \A t \in Nat : t <= clock => t <= clock'
  BY <1>1, <1>2
<1>4. LogsTypes'
  BY <1>1, <1>3 DEF LogsInv, LogsTypes
<1>5. LinesInv' /\ WritesInv'
  BY <1>1 DEF LogsInv, LinesInv, WritesInv, Ran
<1>6. TimesInv'
  <2>1. ASSUME NEW s \in Sessions
        PROVE  /\ index[s].created \in Nat /\ index[s].started \in Nat \cup {None}
               /\ index[s].finished \in Nat \cup {None} /\ dir[s].mtime \in Nat
    BY <1>2 DEF Listed
  <2> QED BY <1>1, <1>3, <2>1 DEF LogsInv, TimesInv
<1>7. TitlesInv' /\ ScanInv'
  BY <1>1 DEF LogsInv, TitlesInv, ScanInv, Ran, Own, AloneIn, since, GivenUp
<1> QED BY <1>4, <1>5, <1>6, <1>7 DEF LogsInv

\* Where a log's first prompt and its last usage are, after a line was appended.
LEMMA LineAppended ==
    ASSUME LogsInv, NEW s \in Sessions, NEW l \in Lines(s) \cup {Torn}, harness_writes(s, l),
           NEW f \in Sessions, f = conv[s]
    PROVE  FirstIs(Append1(f, l), first'[f]) /\ NewestIs(Append1(f, l), newest'[f])
<1>1. PICK a \in Read : a = dir[f].lines
  BY DEF LogsInv, LogsTypes
<1>2. PICK b : b = Append1(f, l)
  OBVIOUS
<1>3. /\ l \in Written
      /\ l.kind = "prompt" => l = Prompt(s)
      /\ l.kind = "usage" => l.counts \in Counts /\ l = Usage(l.counts)
      /\ l.kind = "prompt" <=> PromptLine(l)
      /\ l.kind = "usage" <=> UsageLine(l)
  BY LineWritten
<1>4. /\ b \in Read /\ Len(b) >= 1 /\ b[Len(b)] = l
      /\ \A i \in 1..Len(b) : i < Len(b) => i \in 1..Len(a) /\ b[i] = a[i]
      /\ Half(f) => Len(b) = Len(a) /\ a[Len(a)] = Torn
      /\ ~Half(f) => Len(b) = Len(a) + 1
  BY <1>1, <1>2, <1>3, Appended
<1>5. Len(a) \in Nat /\ Len(b) \in Nat
  BY <1>1, <1>4 DEF Read
<1>6. PICK p : p = first[f]
  OBVIOUS
<1>7. PICK u : u = newest[f]
  OBVIOUS
<1>8. /\ p \in [by : Sessions \cup {None}, at : Nat] /\ u \in [counts : Counts \cup {None}, age : Nat]
      /\ first \in [Sessions -> [by : Sessions \cup {None}, at : Nat]]
      /\ newest \in [Sessions -> [counts : Counts \cup {None}, age : Nat]]
  BY <1>6, <1>7 DEF LogsInv, LogsTypes
<1>9. FirstIs(a, p) /\ NewestIs(a, u)
  BY <1>1, <1>6, <1>7 DEF LogsInv, LinesInv
<1>10. None \notin Sessions /\ None \notin Counts
  BY HarnessLogsAssumption DEF HarnessLogsAssumption
<1>11. ~PromptLine(Torn) /\ ~UsageLine(Torn)
  BY LineKinds
<1>12. FirstIs(b, first'[f])
  <2>1. CASE l.kind = "prompt" /\ p.by = None
    <3>1. first'[f] = [by |-> s, at |-> Len(b)]
      BY <1>2, <1>6, <1>8, <2>1 DEF harness_writes
    <3>2. \A i \in 1..Len(b) : i < Len(b) => ~PromptLine(b[i])
      BY <1>4, <1>9, <2>1 DEF FirstIs
    <3>3. Len(b) \in 1..Len(b) /\ b[Len(b)] = Prompt(s)
      BY <1>3, <1>4, <1>5, <2>1
    <3> QED BY <1>10, <3>1, <3>2, <3>3 DEF FirstIs
  <2>2. CASE ~(l.kind = "prompt") /\ p.by = None
    <3>1. first'[f] = p
      BY <1>6, <2>2 DEF harness_writes
    <3>2. ASSUME NEW i \in 1..Len(b) PROVE ~PromptLine(b[i])
      <4>1. CASE i < Len(b)
        BY <1>4, <1>9, <2>2, <4>1 DEF FirstIs
      <4>2. CASE i = Len(b)
        BY <1>3, <1>4, <2>2, <4>2
      <4> QED BY <1>5, <4>1, <4>2
    <3> QED BY <2>2, <3>1, <3>2 DEF FirstIs
  <2>3. CASE p.by # None
    <3>1. first'[f] = p
      BY <1>6, <2>3 DEF harness_writes
    <3>2. /\ p.at \in 1..Len(a) /\ a[p.at] = Prompt(p.by)
          /\ \A i \in 1..Len(a) : i < p.at => ~PromptLine(a[i])
      BY <1>9, <2>3 DEF FirstIs
    <3>3. PromptLine(Prompt(p.by))
      BY <1>8, <2>3, LineKinds
    <3>4. p.at < Len(b)
      <4>1. CASE Half(f)
        <5>1. p.at # Len(a)
          BY <1>4, <1>11, <3>2, <3>3, <4>1
        <5> QED BY <1>4, <1>5, <3>2, <4>1, <5>1
      <4>2. CASE ~Half(f)
        BY <1>4, <1>5, <3>2, <4>2
      <4> QED BY <4>1, <4>2
    <3>5. p.at \in 1..Len(b) /\ b[p.at] = Prompt(p.by)
      <4>1. p.at \in 1..Len(b)
        BY <1>5, <3>2, <3>4
      <4> QED BY <1>4, <3>2, <3>4, <4>1
    <3>6. \A i \in 1..Len(b) : i < p.at => i < Len(b)
      BY <1>5, <3>2, <3>4
    <3>7. \A i \in 1..Len(b) : i < p.at => ~PromptLine(b[i])
      BY <1>4, <3>2, <3>6
    <3> QED BY <2>3, <3>1, <3>5, <3>7 DEF FirstIs
  <2> QED BY <2>1, <2>2, <2>3
<1>13. NewestIs(b, newest'[f])
  <2>1. CASE l.kind = "usage"
    <3>1. newest'[f] = [counts |-> l.counts, age |-> 0]
      BY <1>8, <2>1 DEF harness_writes
    <3>2. 0 < Len(b) /\ b[Len(b) - 0] = Usage(l.counts)
      BY <1>3, <1>4, <1>5, <2>1
    <3>3. \A i \in 1..Len(b) : ~(i > Len(b) - 0)
      BY <1>5
    <3> QED BY <1>3, <1>10, <2>1, <3>1, <3>2, <3>3 DEF NewestIs
  <2>2. CASE ~(l.kind = "usage") /\ u.counts = None
    <3>1. newest'[f].counts = None
      BY <1>7, <1>8, <2>2 DEF harness_writes
    <3>2. ASSUME NEW i \in 1..Len(b) PROVE ~UsageLine(b[i])
      <4>1. CASE i < Len(b)
        BY <1>4, <1>9, <2>2, <4>1 DEF NewestIs
      <4>2. CASE i = Len(b)
        BY <1>3, <1>4, <2>2, <4>2
      <4> QED BY <1>5, <4>1, <4>2
    <3> QED BY <3>1, <3>2 DEF NewestIs
  <2>3. CASE ~(l.kind = "usage") /\ u.counts # None
    <3>1. /\ u.age < Len(a) /\ a[Len(a) - u.age] = Usage(u.counts)
          /\ \A i \in 1..Len(a) : i > Len(a) - u.age => ~UsageLine(a[i])
      BY <1>9, <2>3 DEF NewestIs
    <3>2. UsageLine(Usage(u.counts)) /\ u.age \in Nat
      BY <1>8, <2>3, LineKinds
    <3>3. PICK v \in [counts : Counts \cup {None}, age : Nat] : v = newest'[f]
      <4>1. CASE Half(f)
        BY <1>8, <2>3, <4>1 DEF harness_writes
      <4>2. CASE ~Half(f)
        <5>1. newest'[f] = [u EXCEPT !.age = @ + 1]
          BY <1>7, <1>8, <2>3, <4>2 DEF harness_writes
        <5>2. [u EXCEPT !.age = @ + 1] \in [counts : Counts \cup {None}, age : Nat]
          BY <1>8
        <5> QED BY <5>1, <5>2
      <4> QED BY <4>1, <4>2
    <3>4. /\ v.counts = u.counts /\ Len(b) - v.age = Len(a) - u.age
          /\ v.age \in Nat /\ v.age # 0 /\ v.age < Len(b)
      <4>1. CASE Half(f)
        <5>1. v = u
          BY <1>7, <2>3, <3>3, <4>1 DEF harness_writes
        <5>2. u.age # 0
          <6>1. SUFFICES ASSUME u.age = 0 PROVE FALSE
            OBVIOUS
          <6>2. Len(a) - u.age = Len(a)
            BY <1>5, <6>1
          <6> QED BY <1>4, <1>11, <3>1, <3>2, <4>1, <6>2
        <5> QED BY <1>4, <3>1, <3>2, <4>1, <5>1, <5>2
      <4>2. CASE ~Half(f)
        <5>1. v = [u EXCEPT !.age = @ + 1]
          BY <1>7, <1>8, <2>3, <3>3, <4>2 DEF harness_writes
        <5>2. v.counts = u.counts /\ v.age = u.age + 1
          BY <1>8, <5>1
        <5>3. Len(b) = Len(a) + 1
          BY <1>4, <4>2
        <5> QED BY <1>5, <3>1, <3>2, <5>2, <5>3
      <4> QED BY <4>1, <4>2
    <3>5. PICK k \in Nat : k = Len(a) - u.age
      BY <1>5, <3>1, <3>2
    <3>6. k \in 1..Len(b) /\ k < Len(b) /\ Len(b) - v.age = k
      BY <1>5, <3>1, <3>2, <3>4, <3>5
    <3>7. b[k] = Usage(u.counts)
      BY <1>4, <3>1, <3>5, <3>6
    <3>8. ASSUME NEW i \in 1..Len(b), i > k PROVE ~UsageLine(b[i])
      <4>1. CASE i < Len(b)
        BY <1>4, <3>1, <3>5, <3>8, <4>1
      <4>2. CASE i = Len(b)
        BY <1>3, <1>4, <2>3, <4>2
      <4> QED BY <1>5, <4>1, <4>2
    <3> QED BY <2>3, <3>3, <3>4, <3>6, <3>7, <3>8 DEF NewestIs
  <2> QED BY <2>1, <2>2, <2>3
<1> QED BY <1>2, <1>12, <1>13

\* A harness writes: a session that is alone after this did not write with it.
LEMMA HarnessWritesStep ==
    ASSUME LogsInv, NEW s \in Sessions, NEW l \in Lines(s) \cup {Torn}, harness_writes(s, l)
    PROVE  LogsInv'
<1>1. UNCHANGED <<index, untitled, scan, clock, conv>>
  BY DEF harness_writes, daemonVars
<1>2. PICK f \in Sessions : f = conv[s]
  BY DEF LogsInv, LogsTypes
<1>3. PICK b : b = Append1(f, l)
  OBVIOUS
<1>4. l \in Written /\ (l.kind = "usage" => l.counts \in Counts)
  BY LineWritten
<1>5. b \in Read /\ Len(b) >= 1
  <2>1. dir[f].lines \in Read
    BY DEF LogsInv, LogsTypes
  <2> QED BY <1>3, <1>4, <2>1, Appended
<1>6. /\ dir' = [dir EXCEPT ![f] = [mtime |-> clock, lines |-> b]]
      /\ wrote' = [wrote EXCEPT ![s] = @ \cup {clock}]
      /\ \/ l.kind = "prompt" /\ first[f].by = None /\ first' = [first EXCEPT ![f] = [by |-> s, at |-> Len(b)]]
         \/ first' = first
      /\ \/ l.kind = "usage" /\ newest' = [newest EXCEPT ![f] = [counts |-> l.counts, age |-> 0]]
         \/ newest' = newest
         \/ newest' = [newest EXCEPT ![f].age = @ + 1]
  BY <1>2, <1>3 DEF harness_writes
<1>7. /\ clock \in Nat /\ dir \in [Sessions -> [mtime : Nat, lines : Read]]
      /\ wrote \in [Sessions -> SUBSET Nat] /\ conv \in [Sessions -> Sessions]
      /\ first \in [Sessions -> [by : Sessions \cup {None}, at : Nat]]
      /\ newest \in [Sessions -> [counts : Counts \cup {None}, age : Nat]]
      /\ index \in [Sessions -> Listed]
  BY DEF LogsInv, LogsTypes
<1>8. /\ dir'[f].mtime = clock /\ dir'[f].lines = b
      /\ wrote'[s] = wrote[s] \cup {clock}
      /\ \A g \in Sessions \ {f} : dir'[g] = dir[g] /\ first'[g] = first[g] /\ newest'[g] = newest[g]
      /\ \A o \in Sessions \ {s} : wrote'[o] = wrote[o]
      /\ first[f].by # None => first' = first
  BY <1>6, <1>7
<1>9. LogsTypes'
  <2>1. dir' \in [Sessions -> [mtime : Nat, lines : Read]] /\ wrote' \in [Sessions -> SUBSET Nat]
    BY <1>5, <1>6, <1>7
  <2>2. first' \in [Sessions -> [by : Sessions \cup {None}, at : Nat]]
    <3>1. Len(b) \in Nat
      BY <1>5 DEF Read
    <3> QED BY <1>6, <1>7, <3>1
  <2>3. newest' \in [Sessions -> [counts : Counts \cup {None}, age : Nat]]
    <3>1. CASE l.kind = "usage" /\ newest' = [newest EXCEPT ![f] = [counts |-> l.counts, age |-> 0]]
      BY <1>4, <1>7, <3>1
    <3>2. CASE newest' = [newest EXCEPT ![f].age = @ + 1]
      <4>1. PICK w \in [counts : Counts \cup {None}, age : Nat] : w = [newest[f] EXCEPT !.age = @ + 1]
        <5>1. newest[f] \in [counts : Counts \cup {None}, age : Nat]
          BY <1>7
        <5>2. PICK w : w = [newest[f] EXCEPT !.age = @ + 1]
          OBVIOUS
        <5>3. w \in [counts : Counts \cup {None}, age : Nat]
          BY <5>1, <5>2
        <5> QED BY <5>2, <5>3
      <4>2. newest' = [newest EXCEPT ![f] = w]
        BY <3>2, <4>1
      <4> QED BY <1>7, <4>2
    <3> QED BY <1>6, <1>7, <3>1, <3>2
  <2> QED BY <1>1, <2>1, <2>2, <2>3 DEF LogsInv, LogsTypes
<1>10. LinesInv'
  <2>1. FirstIs(b, first'[f]) /\ NewestIs(b, newest'[f])
    BY <1>2, <1>3, LineAppended
  <2>2. ASSUME NEW g \in Sessions \ {f}
        PROVE  FirstIs(dir'[g].lines, first'[g]) /\ NewestIs(dir'[g].lines, newest'[g])
    BY <1>8 DEF LogsInv, LinesInv
  <2> QED BY <1>8, <2>1, <2>2 DEF LinesInv
<1>11. TimesInv'
  <2>1. clock <= clock
    BY <1>7
  <2>2. \A g \in Sessions : dir'[g].mtime <= clock
    BY <1>8, <2>1 DEF LogsInv, TimesInv
  <2> QED BY <1>1, <2>2 DEF LogsInv, TimesInv
<1>12. index[s].state = "running" /\ index[s].started # None /\ index[s].started <= clock
       /\ index[s].finished = None
  BY DEF harness_writes, Live, LogsInv, TimesInv
<1>13. WritesInv'
  <2>1. ASSUME NEW g \in Sessions, dir'[g].lines # <<>>
        PROVE  \E o \in Sessions : conv[o] = g /\ dir'[g].mtime \in wrote'[o]
    <3>1. CASE g = f
      BY <1>2, <1>8, <3>1
    <3>2. CASE g # f
      <4>1. dir'[g] = dir[g]
        BY <1>8, <3>2
      <4>2. PICK o \in Sessions : conv[o] = g /\ dir[g].mtime \in wrote[o]
        BY <2>1, <4>1 DEF LogsInv, WritesInv
      <4> QED BY <1>2, <1>8, <3>2, <4>1, <4>2
    <3> QED BY <3>1, <3>2
  <2>2. b # <<>>
    BY <1>5
  <2>3. ASSUME NEW o \in Sessions, NEW t \in wrote'[o]
        PROVE  /\ Ran(o) /\ index[o].started # None /\ index[o].started <= t
               /\ index[o].finished # None => t <= index[o].finished
               /\ t <= dir'[conv[o]].mtime /\ dir'[conv[o]].lines # <<>>
    <3>1. CASE o = s /\ t = clock
      <4>1. clock <= clock
        BY <1>7
      <4> QED BY <1>2, <1>8, <1>12, <2>2, <3>1, <4>1 DEF Ran
    <3>2. CASE t \in wrote[o]
      <4>1. /\ Ran(o) /\ index[o].started # None /\ index[o].started <= t
            /\ index[o].finished # None => t <= index[o].finished
            /\ t <= dir[conv[o]].mtime /\ dir[conv[o]].lines # <<>>
        BY <3>2 DEF LogsInv, WritesInv
      <4>2. PICK g \in Sessions : g = conv[o]
        BY <1>7
      <4>3. CASE g = f
        <5>1. dir[g].mtime <= clock /\ dir[g].mtime \in Nat /\ t \in Nat
          BY <1>7, <3>2 DEF LogsInv, TimesInv
        <5>2. t <= clock
          BY <1>7, <4>1, <4>2, <5>1
        <5> QED BY <1>8, <2>2, <4>1, <4>2, <4>3, <5>2
      <4>4. CASE g # f
        BY <1>8, <4>1, <4>2, <4>4
      <4> QED BY <4>3, <4>4
    <3> QED BY <1>8, <2>3, <3>1, <3>2
  <2> QED BY <1>1, <2>1, <2>3 DEF WritesInv, Ran
<1>14. \A o \in Sessions : since(o)' = since(o) /\ (Own(o)' => Own(o))
  <2> TAKE o \in Sessions
  <2>1. since(o)' = since(o)
    BY <1>1 DEF since
  <2>2. \A p \in Sessions : wrote[p] \subseteq wrote'[p]
    BY <1>8
  <2> QED BY <1>1, <2>1, <2>2, OwnStays
<1>15. ASSUME NEW o \in Sessions, Own(o)', index[o].state = "ended", GivenUp(o)
       PROVE  GivenUp(o)'
  <2>1. o # s
    BY <1>12, <1>15
  <2>2. PICK from \in Nat : from = since(o) /\ from <= clock
    <3>1. index[o] \in Listed
      BY <1>7
    <3>2. since(o) \in Nat
      BY <3>1 DEF since, Listed
    <3>3. since(o) <= clock
      BY DEF since, LogsInv, TimesInv
    <3> QED BY <3>2, <3>3
  <2>3. clock \in wrote'[s]
    BY <1>8
  <2>4. conv[s] # conv[o]
    <3>1. conv'[s] = conv'[o] => \A t \in wrote'[s] : t < since(o)'
      BY <1>15, <2>1 DEF Own, AloneIn
    <3>2. conv[s] = conv[o] => clock < from
      BY <1>1, <1>14, <2>2, <2>3, <3>1
    <3> QED BY <1>7, <2>2, <3>2
  <2>5. wrote'[o] = wrote[o] /\ first'[conv[o]] = first[conv[o]]
    BY <1>2, <1>7, <1>8, <2>1, <2>4
  <2> QED BY <1>1, <1>15, <2>5 DEF GivenUp
<1>16. TitlesInv' /\ ScanInv'
  <2>1. \A o \in Sessions : Ran(o)' <=> Ran(o)
    BY <1>1 DEF Ran
  <2>2. \A o \in Sessions : first[conv[o]].by # None => first'[conv[o]].by = first[conv[o]].by
    <3> TAKE o \in Sessions
    <3>1. PICK g \in Sessions : g = conv[o]
      BY <1>7
    <3> QED BY <1>8, <3>1
  <2> QED BY <1>1, <1>14, <1>15, <2>1, <2>2, TitlesStay
<1> QED BY <1>9, <1>10, <1>11, <1>13, <1>16 DEF LogsInv

-----------------------------------------------------------------------------
(* Theorems.                                                                *)

\* Every step keeps the invariant.
LEMMA LogsKeeps == LogsInv /\ [LogsNext]_logsVars => LogsInv'
<1> SUFFICES ASSUME LogsInv, [LogsNext]_logsVars PROVE LogsInv'
  OBVIOUS
<1>1. CASE \E s \in Sessions, k \in {"agent", "shell"}, r \in BOOLEAN : create(s, k, r)
  BY <1>1, CreateStep
<1>2. CASE \E s \in Sessions : started(s) \/ ended(s)
  BY <1>2, StartedStep, EndedStep
<1>3. CASE \E s \in Sessions : \E l \in Lines(s) \cup {Torn} : harness_writes(s, l)
  BY <1>3, HarnessWritesStep
<1>4. CASE title_begin
  BY <1>4, TitleBeginStep
<1>5. CASE \E c \in scan.left : title_read(c)
  BY <1>5, TitleReadStep
<1>6. CASE title_put
  BY <1>6, TitlePutStep
<1>7. CASE restarted
  BY <1>7, RestartedStep
<1>8. CASE tick
  BY <1>8, TickStep
<1>9. CASE UNCHANGED logsVars
  <2>1. UNCHANGED <<index, untitled, scan, clock, dir, conv, wrote, first, newest>>
    BY <1>9 DEF logsVars, daemonVars, worldVars, historyVars
  <2>2. LogsTypes' /\ LinesInv' /\ TimesInv' /\ WritesInv'
    BY <2>1 DEF LogsInv, LogsTypes, LinesInv, TimesInv, WritesInv, Ran
  <2>3. TitlesInv' /\ ScanInv'
    BY <2>1 DEF LogsInv, TitlesInv, ScanInv, Ran, Own, AloneIn, since, GivenUp
  <2> QED BY <2>2, <2>3 DEF LogsInv
<1> QED BY <1>1, <1>2, <1>3, <1>4, <1>5, <1>6, <1>7, <1>8, <1>9 DEF LogsNext

\* What the daemon knows of harness logs, and what their modified times say of
\* who wrote them, is as LogsInv has it, whatever sessions, scans and harnesses do.
THEOREM LogsInvariance == LogsSpec => []LogsInv
<1>1. LogsInit => LogsInv
  BY LogsStart
<1>2. LogsInv /\ [LogsNext]_logsVars => LogsInv'
  BY LogsKeeps
<1> QED BY <1>1, <1>2, PTL DEF LogsSpec

\* The usage plugin: a session that was on its own in its window is credited with
\* the last usage of its conversation, however many sessions, conversations and
\* torn or cut lines there are, and whatever the sizes of what is read.
THEOREM UsageIsCredited == LogsSpec => []UsageIsOwn
BY LogsInvariance, UsageFollows, PTL

\* title_untitled_agent_sessions: a session after which nobody else wrote is given
\* no title but its own first prompt, and is given up only if it has none to find,
\* although its log is read while sessions and harnesses go on.
THEOREM LatestTitlesAreOwn == LogsSpec => []LatestTitleIsOwn
BY LogsInvariance, TitleFollows, PTL

=============================================================================
