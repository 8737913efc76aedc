----------------------------- MODULE JobsProofs -----------------------------
(***************************************************************************)
(* The safety of Jobs, for any finite set of jobs, any projects and any    *)
(* pool limit.  None of the invariants is inductive alone: that a release  *)
(* leaves `running` a natural number rests on the pool's counter being the *)
(* number of slot holders, what emit_final publishes on what the earlier   *)
(* steps of the worker left in `outcome`, and that nothing runs after a    *)
(* shutdown on every waiting worker being registered when it came.         *)
(***************************************************************************)
EXTENDS Jobs, FiniteSetTheorems, TLAPS

\* The steps between the spawn and the moment the cancel flag leaves the map,
\* those before the work is entered, and those after an outcome is settled.
Cancellable == InFlight \cup {"uncancel"}
Waiting == {"acquire", "parked", "check"}
Settled == {"release", "notify", "unbusy", "uncancel", "emit", "ended"}

\* At most one job is between its busy test and its thread, and the map holds
\* exactly the workers that may still be cancelled.
Registered ==
    /\ \A j \in submitting : worker[j] = "none"
    /\ \A j, k \in submitting : j = k
    /\ \A j \in JobIds : worker[j] \in Cancellable <=> j \in cancels

\* After shutdown nothing is half submitted and all that waits is cancelled.
ToldToStop ==
    daemon /= "serving" =>
        /\ submitting = {}
        /\ \A j \in JobIds : worker[j] \in Waiting => j \in tripped

\* What `outcome` and `ran` hold at each step of a worker.
OutcomeSettled ==
    \A j \in JobIds :
        /\ worker[j] \in Settled <=> outcome[j] /= "none"
        /\ worker[j] \in Waiting \cup {"none"} => j \notin ran
        /\ worker[j] = "work" => j \in ran

\* The outcome a worker holds is what happened, and what is published is it.
OutcomeTrue ==
    \A j \in JobIds :
        /\ outcome[j] = "cancelled" => j \in tripped /\ j \notin ran
        /\ outcome[j] = "interrupted" => j \in tripped /\ j \in ran
        /\ outcome[j] \in {"done", "failed", "job_panicked"} => j \in ran
        /\ jobs[j] \in Outcomes => jobs[j] = outcome[j]

IInv == /\ TypeOK /\ PoolSound /\ ExclusiveOwner
        /\ Registered /\ ToldToStop /\ OutcomeSettled /\ OutcomeTrue

-----------------------------------------------------------------------------

\* The slot holders are finitely many, so that counting them means something.
LEMMA HoldersFinite ==
    /\ IsFiniteSet(Holders) /\ Cardinality(Holders) \in Nat
    /\ Holders = {} <=> Cardinality(Holders) = 0
<1>1. IsFiniteSet(Holders)
  <2>1. Holders \subseteq JobIds
    BY DEF Holders
  <2> QED BY <2>1, JobsAssumption, FS_Subset
<1> QED BY <1>1, FS_CardinalityType, FS_EmptySet

Wake(w, j) == worker' = [k \in JobIds |-> IF k \in w THEN "acquire"
                                          ELSE IF k = j THEN "unbusy"
                                          ELSE worker[k]]

\* notify_one moves its own worker on and wakes nobody but parked ones.
LEMMA NotifyWakes ==
    ASSUME NEW j \in JobIds, notify_one(j)
    PROVE  /\ worker[j] = "notify"
           /\ \E w \in SUBSET {k \in JobIds : worker[k] = "parked"} : Wake(w, j)
<1> DEFINE waiters == {k \in JobIds : worker[k] = "parked"}
<1>1. PICK w \in (IF waiters = {} THEN {{}} ELSE {{k} : k \in waiters}) :
          Wake(w, j)
  BY DEF notify_one, Wake
<1>2. w \in SUBSET waiters
  BY <1>1
<1> QED BY <1>1, <1>2 DEF notify_one

\* Every step keeps the types.
LEMMA TypeStep ==
    ASSUME IInv, [Next]_vars PROVE TypeOK'
<1> USE DEF IInv, TypeOK, WorkerSteps, Outcomes
<1>1. ASSUME NEW j \in JobIds, NEW p \in Projects, submit(j, p)
      PROVE  TypeOK'
  BY <1>1 DEF submit
<1>2. ASSUME NEW j \in JobIds, submit_global(j) PROVE TypeOK'
  BY <1>2 DEF submit_global
<1>3. ASSUME NEW j \in JobIds, spawn_job(j) PROVE TypeOK'
  BY <1>3 DEF spawn_job
<1>4. ASSUME NEW j \in JobIds, cancel(j) PROVE TypeOK'
  BY <1>4 DEF cancel
<1>5. ASSUME NEW j \in JobIds, spurious_wakeup(j) PROVE TypeOK'
  BY <1>5 DEF spurious_wakeup, At
<1>6. ASSUME NEW j \in JobIds, acquire(j) PROVE TypeOK'
  BY <1>6 DEF acquire, At
<1>7. ASSUME NEW j \in JobIds, check_cancel(j) PROVE TypeOK'
  BY <1>7 DEF check_cancel, At
<1>8. ASSUME NEW j \in JobIds, work(j) PROVE TypeOK'
  BY <1>8 DEF work, At
<1>9. ASSUME NEW j \in JobIds, release(j) PROVE TypeOK'
  <2>1. running \in Nat \ {0}
    BY <1>9, HoldersFinite
    DEF PoolSound, Holders, HoldSlot, release, At
  <2> QED BY <1>9, <2>1 DEF release, At
<1>10. ASSUME NEW j \in JobIds, notify_one(j) PROVE TypeOK'
  BY <1>10 DEF notify_one
<1>11. ASSUME NEW j \in JobIds, clear_busy(j) PROVE TypeOK'
  BY <1>11 DEF clear_busy, At
<1>12. ASSUME NEW j \in JobIds, clear_cancel(j) PROVE TypeOK'
  BY <1>12 DEF clear_cancel, At
<1>13. ASSUME NEW j \in JobIds, emit_final(j) PROVE TypeOK'
  BY <1>13 DEF emit_final, At, OutcomeSettled, Settled
<1>14. CASE shutdown
  BY <1>14 DEF shutdown
<1>15. CASE join_writer \/ writer_breaks
  BY <1>15 DEF join_writer, writer_breaks
<1>16. CASE session_watched \/ session_ends
  BY <1>16 DEF session_watched, session_ends
<1>17. CASE Exited \/ UNCHANGED vars
  BY <1>17 DEF Exited, vars
<1> QED
  BY <1>1, <1>2, <1>3, <1>4, <1>5, <1>6, <1>7, <1>8, <1>9, <1>10, <1>11,
     <1>12, <1>13, <1>14, <1>15, <1>16, <1>17
     DEF Next, Worker

\* A step that moves no worker across the pool keeps its account.
LEMMA SameHolders ==
    ASSUME PoolSound, Holders' = Holders, running' = running
    PROVE  PoolSound'
BY DEF PoolSound

\* Every step keeps the pool's counter equal to the number of slot holders.
LEMMA PoolStep ==
    ASSUME IInv, [Next]_vars PROVE PoolSound'
<1> USE DEF IInv, TypeOK, WorkerSteps, HoldSlot
<1>1. ASSUME NEW j \in JobIds, NEW p \in Projects, submit(j, p)
      PROVE  PoolSound'
  BY <1>1, SameHolders DEF submit, Holders
<1>2. ASSUME NEW j \in JobIds, submit_global(j) PROVE PoolSound'
  BY <1>2, SameHolders DEF submit_global, Holders
<1>3. ASSUME NEW j \in JobIds, spawn_job(j) PROVE PoolSound'
  BY <1>3, SameHolders DEF spawn_job, Holders, Registered
<1>4. ASSUME NEW j \in JobIds, cancel(j) PROVE PoolSound'
  BY <1>4, SameHolders DEF cancel, Holders
<1>5. ASSUME NEW j \in JobIds, spurious_wakeup(j) PROVE PoolSound'
  BY <1>5, SameHolders DEF spurious_wakeup, At, Holders
<1>6. ASSUME NEW j \in JobIds, acquire(j) PROVE PoolSound'
  <2>1. CASE running < Limit
    <3>1. j \notin Holders /\ Holders' = Holders \cup {j}
      BY <1>6, <2>1, JobsAssumption DEF acquire, At, Holders
    <3>2. Cardinality(Holders') = Cardinality(Holders) + 1
      BY <3>1, HoldersFinite, FS_AddElement
    <3>3. running' = running + 1
      BY <1>6, <2>1, JobsAssumption DEF acquire, At
    <3> QED BY <2>1, <3>2, <3>3, JobsAssumption DEF PoolSound, acquire
  <2>2. CASE ~(running < Limit)
    BY <1>6, <2>2, SameHolders, JobsAssumption DEF acquire, At, Holders
  <2> QED BY <2>1, <2>2
<1>7. ASSUME NEW j \in JobIds, check_cancel(j) PROVE PoolSound'
  BY <1>7, SameHolders DEF check_cancel, At, Holders
<1>8. ASSUME NEW j \in JobIds, work(j) PROVE PoolSound'
  BY <1>8, SameHolders DEF work, At, Holders
<1>9. ASSUME NEW j \in JobIds, release(j) PROVE PoolSound'
  <2>1. j \in Holders /\ Holders' = Holders \ {j}
    BY <1>9 DEF release, At, Holders
  <2>2. Cardinality(Holders') = Cardinality(Holders) - 1
    BY <2>1, HoldersFinite, FS_RemoveElement
  <2>3. running' = running - 1
    BY <1>9 DEF release, At
  <2> QED BY <2>2, <2>3, JobsAssumption DEF PoolSound
<1>10. ASSUME NEW j \in JobIds, notify_one(j) PROVE PoolSound'
  BY <1>10, SameHolders DEF notify_one, Holders
<1>11. ASSUME NEW j \in JobIds, clear_busy(j) PROVE PoolSound'
  BY <1>11, SameHolders DEF clear_busy, At, Holders
<1>12. ASSUME NEW j \in JobIds, clear_cancel(j) PROVE PoolSound'
  BY <1>12, SameHolders DEF clear_cancel, At, Holders
<1>13. ASSUME NEW j \in JobIds, emit_final(j) PROVE PoolSound'
  BY <1>13, SameHolders DEF emit_final, At, Holders
<1>14. CASE shutdown
  BY <1>14, SameHolders DEF shutdown, Holders
<1>15. CASE join_writer \/ writer_breaks
  BY <1>15, SameHolders DEF join_writer, writer_breaks, Holders
<1>16. CASE session_watched \/ session_ends
  BY <1>16, SameHolders DEF session_watched, session_ends, Holders
<1>17. CASE Exited \/ UNCHANGED vars
  BY <1>17, SameHolders DEF Exited, vars, Holders
<1> QED
  BY <1>1, <1>2, <1>3, <1>4, <1>5, <1>6, <1>7, <1>8, <1>9, <1>10, <1>11,
     <1>12, <1>13, <1>14, <1>15, <1>16, <1>17
     DEF Next, Worker

\* Every step keeps each job that may be cancelled registered.
LEMMA RegisteredStep ==
    ASSUME IInv, [Next]_vars PROVE Registered'
<1> USE DEF IInv, TypeOK, WorkerSteps, Registered, Cancellable, InFlight
<1>1. ASSUME NEW j \in JobIds, NEW p \in Projects, submit(j, p)
      PROVE  Registered'
  BY <1>1 DEF submit, DispatcherIdle, Fresh
<1>2. ASSUME NEW j \in JobIds, submit_global(j) PROVE Registered'
  BY <1>2 DEF submit_global, DispatcherIdle, Fresh
<1>3. ASSUME NEW j \in JobIds, spawn_job(j) PROVE Registered'
  BY <1>3 DEF spawn_job
<1>4. ASSUME NEW j \in JobIds, cancel(j) PROVE Registered'
  BY <1>4 DEF cancel, DispatcherIdle, Fresh
<1>5. ASSUME NEW j \in JobIds, spurious_wakeup(j) PROVE Registered'
  BY <1>5 DEF spurious_wakeup, At
<1>6. ASSUME NEW j \in JobIds, acquire(j) PROVE Registered'
  BY <1>6 DEF acquire, At
<1>7. ASSUME NEW j \in JobIds, check_cancel(j) PROVE Registered'
  BY <1>7 DEF check_cancel, At
<1>8. ASSUME NEW j \in JobIds, work(j) PROVE Registered'
  BY <1>8 DEF work, At
<1>9. ASSUME NEW j \in JobIds, release(j) PROVE Registered'
  BY <1>9 DEF release, At
<1>10. ASSUME NEW j \in JobIds, notify_one(j) PROVE Registered'
  BY <1>10 DEF notify_one
<1>11. ASSUME NEW j \in JobIds, clear_busy(j) PROVE Registered'
  BY <1>11 DEF clear_busy, At
<1>12. ASSUME NEW j \in JobIds, clear_cancel(j) PROVE Registered'
  BY <1>12 DEF clear_cancel, At
<1>13. ASSUME NEW j \in JobIds, emit_final(j) PROVE Registered'
  BY <1>13 DEF emit_final, At
<1>14. CASE shutdown
  BY <1>14 DEF shutdown, DispatcherIdle, Fresh
<1>15. CASE join_writer \/ writer_breaks
  BY <1>15 DEF join_writer, writer_breaks
<1>16. CASE session_watched \/ session_ends
  BY <1>16 DEF session_watched, session_ends
<1>17. CASE Exited \/ UNCHANGED vars
  BY <1>17 DEF Exited, vars
<1> QED
  BY <1>1, <1>2, <1>3, <1>4, <1>5, <1>6, <1>7, <1>8, <1>9, <1>10, <1>11,
     <1>12, <1>13, <1>14, <1>15, <1>16, <1>17
     DEF Next, Worker

\* Every step of a daemon told to stop leaves what waits cancelled.
LEMMA ToldStep ==
    ASSUME IInv, [Next]_vars PROVE ToldToStop'
<1> USE DEF IInv, TypeOK, WorkerSteps, Registered, Cancellable, InFlight,
       ToldToStop, Waiting
<1>1. ASSUME NEW j \in JobIds, NEW p \in Projects, submit(j, p)
      PROVE  ToldToStop'
  BY <1>1 DEF submit, DispatcherIdle, Fresh
<1>2. ASSUME NEW j \in JobIds, submit_global(j) PROVE ToldToStop'
  BY <1>2 DEF submit_global, DispatcherIdle, Fresh
<1>3. ASSUME NEW j \in JobIds, spawn_job(j) PROVE ToldToStop'
  BY <1>3 DEF spawn_job
<1>4. ASSUME NEW j \in JobIds, cancel(j) PROVE ToldToStop'
  BY <1>4 DEF cancel, DispatcherIdle, Fresh
<1>5. ASSUME NEW j \in JobIds, spurious_wakeup(j) PROVE ToldToStop'
  BY <1>5 DEF spurious_wakeup, At
<1>6. ASSUME NEW j \in JobIds, acquire(j) PROVE ToldToStop'
  BY <1>6 DEF acquire, At
<1>7. ASSUME NEW j \in JobIds, check_cancel(j) PROVE ToldToStop'
  BY <1>7 DEF check_cancel, At
<1>8. ASSUME NEW j \in JobIds, work(j) PROVE ToldToStop'
  BY <1>8 DEF work, At
<1>9. ASSUME NEW j \in JobIds, release(j) PROVE ToldToStop'
  BY <1>9 DEF release, At
<1>10. ASSUME NEW j \in JobIds, notify_one(j) PROVE ToldToStop'
  BY <1>10 DEF notify_one
<1>11. ASSUME NEW j \in JobIds, clear_busy(j) PROVE ToldToStop'
  BY <1>11 DEF clear_busy, At
<1>12. ASSUME NEW j \in JobIds, clear_cancel(j) PROVE ToldToStop'
  BY <1>12 DEF clear_cancel, At
<1>13. ASSUME NEW j \in JobIds, emit_final(j) PROVE ToldToStop'
  BY <1>13 DEF emit_final, At
<1>14. CASE shutdown
  BY <1>14 DEF shutdown, DispatcherIdle, Fresh
<1>15. CASE join_writer \/ writer_breaks
  BY <1>15 DEF join_writer, writer_breaks
<1>16. CASE session_watched \/ session_ends
  BY <1>16 DEF session_watched, session_ends
<1>17. CASE Exited \/ UNCHANGED vars
  BY <1>17 DEF Exited, vars
<1> QED
  BY <1>1, <1>2, <1>3, <1>4, <1>5, <1>6, <1>7, <1>8, <1>9, <1>10, <1>11,
     <1>12, <1>13, <1>14, <1>15, <1>16, <1>17
     DEF Next, Worker

\* Every step keeps `outcome` and `ran` in line with the worker.
LEMMA SettledStep ==
    ASSUME IInv, [Next]_vars PROVE OutcomeSettled'
<1> USE DEF IInv, TypeOK, WorkerSteps, Outcomes, OutcomeSettled, Waiting,
       Settled
<1>1. ASSUME NEW j \in JobIds, NEW p \in Projects, submit(j, p)
      PROVE  OutcomeSettled'
  BY <1>1 DEF submit, DispatcherIdle, Fresh
<1>2. ASSUME NEW j \in JobIds, submit_global(j) PROVE OutcomeSettled'
  BY <1>2 DEF submit_global, DispatcherIdle, Fresh
<1>3. ASSUME NEW j \in JobIds, spawn_job(j) PROVE OutcomeSettled'
  BY <1>3 DEF spawn_job, Registered
<1>4. ASSUME NEW j \in JobIds, cancel(j) PROVE OutcomeSettled'
  BY <1>4 DEF cancel, DispatcherIdle, Fresh
<1>5. ASSUME NEW j \in JobIds, spurious_wakeup(j) PROVE OutcomeSettled'
  BY <1>5 DEF spurious_wakeup, At
<1>6. ASSUME NEW j \in JobIds, acquire(j) PROVE OutcomeSettled'
  BY <1>6 DEF acquire, At
<1>7. ASSUME NEW j \in JobIds, check_cancel(j) PROVE OutcomeSettled'
  BY <1>7 DEF check_cancel, At
<1>8. ASSUME NEW j \in JobIds, work(j) PROVE OutcomeSettled'
  BY <1>8 DEF work, At
<1>9. ASSUME NEW j \in JobIds, release(j) PROVE OutcomeSettled'
  BY <1>9 DEF release, At
<1>10. ASSUME NEW j \in JobIds, notify_one(j) PROVE OutcomeSettled'
  BY <1>10 DEF notify_one
<1>11. ASSUME NEW j \in JobIds, clear_busy(j) PROVE OutcomeSettled'
  BY <1>11 DEF clear_busy, At
<1>12. ASSUME NEW j \in JobIds, clear_cancel(j) PROVE OutcomeSettled'
  BY <1>12 DEF clear_cancel, At
<1>13. ASSUME NEW j \in JobIds, emit_final(j) PROVE OutcomeSettled'
  BY <1>13 DEF emit_final, At
<1>14. CASE shutdown
  BY <1>14 DEF shutdown, DispatcherIdle, Fresh
<1>15. CASE join_writer \/ writer_breaks
  BY <1>15 DEF join_writer, writer_breaks
<1>16. CASE session_watched \/ session_ends
  BY <1>16 DEF session_watched, session_ends
<1>17. CASE Exited \/ UNCHANGED vars
  BY <1>17 DEF Exited, vars
<1> QED
  BY <1>1, <1>2, <1>3, <1>4, <1>5, <1>6, <1>7, <1>8, <1>9, <1>10, <1>11,
     <1>12, <1>13, <1>14, <1>15, <1>16, <1>17
     DEF Next, Worker

\* Every step keeps the outcomes true.
LEMMA TrueStep ==
    ASSUME IInv, [Next]_vars PROVE OutcomeTrue'
<1> USE DEF IInv, TypeOK, WorkerSteps, Outcomes, OutcomeSettled, OutcomeTrue,
       Settled, Waiting
<1>1. ASSUME NEW j \in JobIds, NEW p \in Projects, submit(j, p)
      PROVE  OutcomeTrue'
  BY <1>1 DEF submit, DispatcherIdle, Fresh
<1>2. ASSUME NEW j \in JobIds, submit_global(j) PROVE OutcomeTrue'
  BY <1>2 DEF submit_global, DispatcherIdle, Fresh
<1>3. ASSUME NEW j \in JobIds, spawn_job(j) PROVE OutcomeTrue'
  BY <1>3 DEF spawn_job
<1>4. ASSUME NEW j \in JobIds, cancel(j) PROVE OutcomeTrue'
  BY <1>4 DEF cancel, DispatcherIdle, Fresh
<1>5. ASSUME NEW j \in JobIds, spurious_wakeup(j) PROVE OutcomeTrue'
  BY <1>5 DEF spurious_wakeup, At
<1>6. ASSUME NEW j \in JobIds, acquire(j) PROVE OutcomeTrue'
  BY <1>6 DEF acquire, At
<1>7. ASSUME NEW j \in JobIds, check_cancel(j) PROVE OutcomeTrue'
  BY <1>7 DEF check_cancel, At
<1>8. ASSUME NEW j \in JobIds, work(j) PROVE OutcomeTrue'
  BY <1>8 DEF work, At
<1>9. ASSUME NEW j \in JobIds, release(j) PROVE OutcomeTrue'
  BY <1>9 DEF release, At
<1>10. ASSUME NEW j \in JobIds, notify_one(j) PROVE OutcomeTrue'
  BY <1>10 DEF notify_one
<1>11. ASSUME NEW j \in JobIds, clear_busy(j) PROVE OutcomeTrue'
  BY <1>11 DEF clear_busy, At
<1>12. ASSUME NEW j \in JobIds, clear_cancel(j) PROVE OutcomeTrue'
  BY <1>12 DEF clear_cancel, At
<1>13. ASSUME NEW j \in JobIds, emit_final(j) PROVE OutcomeTrue'
  BY <1>13 DEF emit_final, At
<1>14. CASE shutdown
  BY <1>14 DEF shutdown, DispatcherIdle, Fresh
<1>15. CASE join_writer \/ writer_breaks
  BY <1>15 DEF join_writer, writer_breaks
<1>16. CASE session_watched \/ session_ends
  BY <1>16 DEF session_watched, session_ends
<1>17. CASE Exited \/ UNCHANGED vars
  BY <1>17 DEF Exited, vars
<1> QED
  BY <1>1, <1>2, <1>3, <1>4, <1>5, <1>6, <1>7, <1>8, <1>9, <1>10, <1>11,
     <1>12, <1>13, <1>14, <1>15, <1>16, <1>17
     DEF Next, Worker

\* Every step keeps a project busy exactly while one job claims it.
LEMMA OwnerStep ==
    ASSUME IInv, [Next]_vars PROVE ExclusiveOwner'
<1> USE DEF IInv, TypeOK, WorkerSteps, ExclusiveOwner, Claims, InFlight
<1>1. ASSUME NEW j \in JobIds, NEW p \in Projects, submit(j, p)
      PROVE  ExclusiveOwner'
  BY <1>1, JobsAssumption DEF submit, DispatcherIdle, Fresh, Registered
<1>2. ASSUME NEW j \in JobIds, submit_global(j) PROVE ExclusiveOwner'
  BY <1>2, JobsAssumption DEF submit_global, DispatcherIdle, Fresh
<1>3. ASSUME NEW j \in JobIds, spawn_job(j) PROVE ExclusiveOwner'
  BY <1>3 DEF spawn_job, Registered
<1>4. ASSUME NEW j \in JobIds, cancel(j) PROVE ExclusiveOwner'
  BY <1>4 DEF cancel, DispatcherIdle, Fresh
<1>5. ASSUME NEW j \in JobIds, spurious_wakeup(j) PROVE ExclusiveOwner'
  BY <1>5 DEF spurious_wakeup, At
<1>6. ASSUME NEW j \in JobIds, acquire(j) PROVE ExclusiveOwner'
  BY <1>6 DEF acquire, At
<1>7. ASSUME NEW j \in JobIds, check_cancel(j) PROVE ExclusiveOwner'
  BY <1>7 DEF check_cancel, At
<1>8. ASSUME NEW j \in JobIds, work(j) PROVE ExclusiveOwner'
  BY <1>8 DEF work, At
<1>9. ASSUME NEW j \in JobIds, release(j) PROVE ExclusiveOwner'
  BY <1>9 DEF release, At
<1>10. ASSUME NEW j \in JobIds, notify_one(j) PROVE ExclusiveOwner'
  <2>1. PICK w \in SUBSET {k \in JobIds : worker[k] = "parked"} : Wake(w, j)
    BY <1>10, NotifyWakes
  <2>2. \A k \in JobIds : worker'[k] \in InFlight <=> worker[k] \in InFlight
    BY <1>10, <2>1 DEF notify_one, Wake
  <2>3. \A p \in Projects \cup {Global} : Claims(p)' = Claims(p)
    BY <1>10, <2>2 DEF notify_one
  <2> QED BY <1>10, <2>3 DEF notify_one
<1>11. ASSUME NEW j \in JobIds, clear_busy(j) PROVE ExclusiveOwner'
  <2>0. PICK o \in Projects \cup {Global} : o = owner[j]
    OBVIOUS
  <2>1. j \in Claims(o) /\ j \notin submitting
    BY <1>11, <2>0 DEF clear_busy, At, Registered
  <2>2. Claims(o) = {j}
    BY <2>1
  <2>3. \A p \in Projects \cup {Global} : Claims(p)' = Claims(p) \ {j}
    BY <1>11, <2>1 DEF clear_busy, At
  <2>4. Claims(o)' = {}
    BY <2>2, <2>3
  <2>5. \A p \in (Projects \cup {Global}) \ {o} : Claims(p)' = Claims(p)
    BY <2>0, <2>3
  <2>6. /\ busy' = busy \ {o}
        /\ tool_busy' = (tool_busy /\ o /= Global)
    BY <1>11, <2>0 DEF clear_busy
  <2>7. \A p \in Projects : p \in busy' <=> Claims(p)' /= {}
    BY <2>4, <2>5, <2>6
  <2>8. tool_busy' <=> Claims(Global)' /= {}
    <3>1. CASE o = Global
      BY <2>4, <2>6, <3>1
    <3>2. CASE o /= Global
      BY <2>5, <2>6, <3>2
    <3> QED BY <3>1, <3>2
  <2>9. \A p \in Projects \cup {Global} : \A k, l \in Claims(p)' : k = l
    BY <2>3
  <2> QED BY <2>7, <2>8, <2>9
<1>12. ASSUME NEW j \in JobIds, clear_cancel(j) PROVE ExclusiveOwner'
  BY <1>12 DEF clear_cancel, At
<1>13. ASSUME NEW j \in JobIds, emit_final(j) PROVE ExclusiveOwner'
  BY <1>13 DEF emit_final, At
<1>14. CASE shutdown
  BY <1>14 DEF shutdown, DispatcherIdle, Fresh
<1>15. CASE join_writer \/ writer_breaks
  BY <1>15 DEF join_writer, writer_breaks
<1>16. CASE session_watched \/ session_ends
  BY <1>16 DEF session_watched, session_ends
<1>17. CASE Exited \/ UNCHANGED vars
  BY <1>17 DEF Exited, vars
<1> QED
  BY <1>1, <1>2, <1>3, <1>4, <1>5, <1>6, <1>7, <1>8, <1>9, <1>10, <1>11,
     <1>12, <1>13, <1>14, <1>15, <1>16, <1>17
     DEF Next, Worker

-----------------------------------------------------------------------------

\* The strengthened invariant is inductive.
THEOREM Invariance == Spec => []IInv
<1>1. Init => IInv
  <2> SUFFICES ASSUME Init PROVE IInv
    OBVIOUS
  <2>1. TypeOK
    BY DEF Init, TypeOK, WorkerSteps, Outcomes
  <2>2. PoolSound
    <3>1. Holders = {}
      BY DEF Init, Holders, HoldSlot
    <3> QED BY <3>1, HoldersFinite, JobsAssumption DEF Init, PoolSound
  <2>3. ExclusiveOwner
    BY DEF Init, ExclusiveOwner, Claims, InFlight
  <2>4. Registered /\ ToldToStop
    BY DEF Init, Registered, ToldToStop, Cancellable, InFlight
  <2>5. OutcomeSettled /\ OutcomeTrue
    BY DEF Init, OutcomeSettled, OutcomeTrue, Settled, Outcomes
  <2> QED BY <2>1, <2>2, <2>3, <2>4, <2>5 DEF IInv
<1>2. IInv /\ [Next]_vars => IInv'
  BY TypeStep, PoolStep, OwnerStep, RegisteredStep, ToldStep, SettledStep,
     TrueStep DEF IInv
<1> QED BY <1>1, <1>2, PTL DEF Spec

\* jobs.rs keeps every piece of its state within its type; the pool's counter,
\* an unsigned integer in the code, never goes below zero.
THEOREM TypeCorrect == Spec => []TypeOK
<1>1. IInv => TypeOK
  BY DEF IInv
<1> QED BY <1>1, Invariance, PTL

\* No slot of the pool is leaked or given out twice, whatever is cancelled,
\* panics or is woken: at most Limit jobs hold one at any time.
THEOREM PoolBounded == Spec => []PoolSound
<1>1. IInv => PoolSound
  BY DEF IInv
<1> QED BY <1>1, Invariance, PTL

\* A project has at most one job in flight, and is busy exactly while it has.
THEOREM OneJobPerProject == Spec => []ExclusiveOwner
<1>1. IInv => ExclusiveOwner
  BY DEF IInv
<1> QED BY <1>1, Invariance, PTL

\* A finished job's published state is what happened to it.
THEOREM PublishedIsTrue == Spec => []OutcomeHonest
<1>1. IInv => OutcomeHonest
  BY DEF IInv, OutcomeHonest, OutcomeTrue, Outcomes
<1> QED BY <1>1, Invariance, PTL

\* Once the daemon was told to stop no job enters its work.
THEOREM NothingStartsAfterShutdown == Spec => NoWorkAfterShutdown
<1>1. ASSUME IInv, [Next]_vars, daemon /= "serving" PROVE ran' = ran
  <2>1. \A j \in JobIds : worker[j] = "check" => j \in tripped
    BY <1>1 DEF IInv, ToldToStop, Waiting
  <2> USE DEF DispatcherIdle, At
  <2>2. CASE \E j \in JobIds : check_cancel(j)
    BY <2>1, <2>2 DEF check_cancel
  <2>3. CASE \E j \in JobIds : Worker(j) /\ ~check_cancel(j)
    BY <2>3 DEF Worker, acquire, work, release, notify_one, clear_busy,
       clear_cancel, emit_final
  <2>4. CASE \E j \in JobIds : \/ \E p \in Projects : submit(j, p)
                               \/ submit_global(j) \/ spawn_job(j)
                               \/ cancel(j) \/ spurious_wakeup(j)
    BY <2>4 DEF submit, submit_global, spawn_job, cancel, spurious_wakeup
  <2>5. CASE \/ shutdown \/ join_writer \/ writer_breaks \/ session_watched
             \/ session_ends \/ Exited \/ UNCHANGED vars
    BY <2>5 DEF shutdown, join_writer, writer_breaks, session_watched,
       session_ends, Exited, vars
  <2> QED BY <1>1, <2>2, <2>3, <2>4, <2>5 DEF Next
<1>2. IInv /\ [Next]_vars => [daemon /= "serving" => ran' = ran]_vars
  BY <1>1
<1> QED BY <1>2, Invariance, PTL DEF Spec, NoWorkAfterShutdown

-----------------------------------------------------------------------------
(* The runner implements JobBoard.                                          *)

\* Moving one worker moves its job alone on the board.
LEMMA StageMoves ==
    ASSUME TypeOK, NEW j \in JobIds, NEW w,
           worker' = [worker EXCEPT ![j] = w]
    PROVE  [k \in JobIds |-> StageOf(worker[k])]'
             = [[k \in JobIds |-> StageOf(worker[k])] EXCEPT ![j] = StageOf(w)]
BY DEF TypeOK

\* A worker that was spawned keeps its owner on the board.
LEMMA OwnersStay ==
    ASSUME TypeOK, NEW j \in JobIds, NEW w, worker[j] /= "none", w /= "none",
           worker' = [worker EXCEPT ![j] = w], owner' = owner
    PROVE  UNCHANGED [k \in JobIds |-> IF worker[k] = "none" THEN Global
                                       ELSE owner[k]]
BY DEF TypeOK

\* A step of the runner is a step of the board, or is not seen on it.
LEMMA BoardStep ==
    ASSUME IInv, [Next]_vars
    PROVE  [Board!Next]_(Board!board)
<1> USE DEF IInv
<1> DEFINE stg == [k \in JobIds |-> StageOf(worker[k])]
           ofs == [k \in JobIds |-> IF worker[k] = "none" THEN Global
                                    ELSE owner[k]]
<1>1. ASSUME NEW j \in JobIds, NEW p \in Projects, submit(j, p)
      PROVE  UNCHANGED Board!board
  <2>1. worker[j] = "none" /\ UNCHANGED ofs
    BY <1>1 DEF submit, Fresh, TypeOK
  <2> QED BY <1>1, <2>1 DEF submit, Board!board
<1>2. ASSUME NEW j \in JobIds, submit_global(j)
      PROVE  UNCHANGED Board!board
  <2>1. worker[j] = "none" /\ UNCHANGED ofs
    BY <1>2 DEF submit_global, Fresh, TypeOK
  <2> QED BY <1>2, <2>1 DEF submit_global, Board!board
<1>3. ASSUME NEW j \in JobIds, spawn_job(j)
      PROVE  \E p \in Projects \cup {Global} : Board!Accept(j, p)
  <2>1. worker[j] = "none" /\ owner[j] \in Projects \cup {Global}
    BY <1>3 DEF spawn_job, Registered, TypeOK
  <2>2. stg' = [stg EXCEPT ![j] = "queued"] /\ stg[j] = "absent"
    BY <1>3, <2>1, StageMoves DEF spawn_job, StageOf
  <2>3. ofs' = [ofs EXCEPT ![j] = owner[j]]
    BY <1>3, <2>1 DEF spawn_job, TypeOK
  <2>4. \A k \in Board!Live : ofs[k] /= owner[j]
    <3> SUFFICES ASSUME NEW k \in Board!Live, ofs[k] = owner[j] PROVE FALSE
      OBVIOUS
    <3>1. k \in JobIds /\ worker[k] \in InFlight
      BY DEF Board!Live, StageOf, InFlight, TypeOK, WorkerSteps
    <3>2. k \in Claims(owner[j]) /\ j \in Claims(owner[j])
      BY <1>3, <3>1 DEF Claims, InFlight, spawn_job
    <3>3. j = k
      BY <2>1, <3>2 DEF ExclusiveOwner
    <3> QED BY <2>1, <3>1, <3>3 DEF InFlight
  <2> QED BY <1>3, <2>1, <2>2, <2>3, <2>4
          DEF spawn_job, Board!Accept, Board!Move
<1>4. ASSUME NEW j \in JobIds, cancel(j) PROVE Board!Tell(j)
  <2>1. worker[j] \in InFlight \cup {"uncancel"}
    BY <1>4 DEF cancel, Registered, Cancellable
  <2>2. stg[j] \in {"queued", "started", "settled", "freed"}
    BY <2>1 DEF InFlight, StageOf
  <2> QED BY <1>4, <2>2 DEF cancel, DispatcherIdle, Board!Tell
<1>5. ASSUME NEW j \in JobIds,
             spurious_wakeup(j) \/ acquire(j) \/ release(j) \/ clear_cancel(j)
      PROVE  UNCHANGED Board!board
  <2>1. PICK w \in WorkerSteps : /\ worker' = [worker EXCEPT ![j] = w]
                                 /\ StageOf(w) = StageOf(worker[j])
                                 /\ w /= "none" /\ worker[j] /= "none"
    BY <1>5 DEF spurious_wakeup, acquire, release, clear_cancel, At, StageOf,
       WorkerSteps
  <2>2. UNCHANGED stg
    BY <2>1, StageMoves
  <2>3. UNCHANGED ofs
    BY <1>5, <2>1, OwnersStay
       DEF spurious_wakeup, acquire, release, clear_cancel
  <2> QED BY <1>5, <2>2, <2>3 DEF spurious_wakeup, acquire, release,
             clear_cancel, Board!board
<1>6. ASSUME NEW j \in JobIds, notify_one(j) PROVE UNCHANGED Board!board
  <2>1. PICK w \in SUBSET {k \in JobIds : worker[k] = "parked"} : Wake(w, j)
    BY <1>6, NotifyWakes
  <2>2. worker[j] = "notify"
    BY <1>6, NotifyWakes
  <2>3. \A k \in JobIds : /\ StageOf(worker'[k]) = StageOf(worker[k])
                          /\ worker'[k] = "none" <=> worker[k] = "none"
    BY <2>1, <2>2 DEF Wake, StageOf
  <2>4. UNCHANGED stg /\ UNCHANGED ofs
    BY <1>6, <2>3 DEF notify_one
  <2> QED BY <1>6, <2>4 DEF notify_one, Board!board
<1>7. ASSUME NEW j \in JobIds, check_cancel(j)
      PROVE  Board!Drop(j) \/ Board!Start(j)
  <2>1. worker[j] = "check" /\ stg[j] = "queued"
    BY <1>7 DEF check_cancel, At, StageOf
  <2>2. CASE j \in tripped
    <3>1. worker' = [worker EXCEPT ![j] = "release"]
      BY <1>7, <2>2 DEF check_cancel, At
    <3>2. stg' = [stg EXCEPT ![j] = "settled"]
      BY <3>1, StageMoves DEF StageOf
    <3>3. UNCHANGED ofs
      BY <1>7, <2>1, <3>1, OwnersStay DEF check_cancel
    <3> QED BY <1>7, <2>1, <2>2, <3>2, <3>3
            DEF check_cancel, Board!Drop, Board!Move
  <2>3. CASE j \notin tripped
    <3>1. worker' = [worker EXCEPT ![j] = "work"]
      BY <1>7, <2>3 DEF check_cancel, At
    <3>2. stg' = [stg EXCEPT ![j] = "started"]
      BY <3>1, StageMoves DEF StageOf
    <3>3. UNCHANGED ofs
      BY <1>7, <2>1, <3>1, OwnersStay DEF check_cancel
    <3>4. daemon = "serving"
      BY <2>1, <2>3 DEF ToldToStop, Waiting
    <3>5. Board!Cardinality(Board!Started) < Limit
      <4>1. Board!Started \subseteq Holders \ {j}
        BY <2>1 DEF Board!Started, Holders, HoldSlot, StageOf, TypeOK,
           WorkerSteps
      <4>2. j \in Holders
        BY <2>1 DEF Holders, HoldSlot
      <4>3. /\ IsFiniteSet(Holders \ {j})
            /\ Cardinality(Holders \ {j}) = Cardinality(Holders) - 1
        BY <4>2, HoldersFinite, FS_RemoveElement
      <4>4. Cardinality(Board!Started) <= Cardinality(Holders \ {j})
        BY <4>1, <4>3, FS_Subset
      <4>5. Cardinality(Board!Started) \in Nat
        BY <4>1, <4>3, FS_Subset, FS_CardinalityType
      <4>6. Board!Cardinality(Board!Started) = Cardinality(Board!Started)
        BY DEF Board!Cardinality, Cardinality
      <4> QED BY <4>3, <4>4, <4>5, <4>6, HoldersFinite, JobsAssumption
              DEF PoolSound
    <3> QED BY <1>7, <2>1, <2>3, <3>2, <3>3, <3>4, <3>5
            DEF check_cancel, Board!Start, Board!Move
  <2> QED BY <2>2, <2>3
<1>8. ASSUME NEW j \in JobIds, work(j) PROVE Board!Finish(j)
  <2>1. worker[j] = "work" /\ worker' = [worker EXCEPT ![j] = "release"]
    BY <1>8 DEF work, At
  <2>2. stg[j] = "started" /\ stg' = [stg EXCEPT ![j] = "settled"]
    BY <2>1, StageMoves DEF StageOf
  <2>3. UNCHANGED ofs
    BY <1>8, <2>1, OwnersStay DEF work
  <2> QED BY <1>8, <2>2, <2>3 DEF work, Board!Finish, Board!Move
<1>9. ASSUME NEW j \in JobIds, clear_busy(j) PROVE Board!Free(j)
  <2>1. worker[j] = "unbusy" /\ worker' = [worker EXCEPT ![j] = "uncancel"]
    BY <1>9 DEF clear_busy, At
  <2>2. stg[j] = "settled" /\ stg' = [stg EXCEPT ![j] = "freed"]
    BY <2>1, StageMoves DEF StageOf
  <2>3. UNCHANGED ofs
    BY <1>9, <2>1, OwnersStay DEF clear_busy
  <2> QED BY <1>9, <2>2, <2>3 DEF clear_busy, Board!Free, Board!Move
<1>10. ASSUME NEW j \in JobIds, emit_final(j) PROVE Board!Publish(j)
  <2>1. worker[j] = "emit" /\ worker' = [worker EXCEPT ![j] = "ended"]
    BY <1>10 DEF emit_final, At
  <2>2. stg[j] = "freed" /\ stg' = [stg EXCEPT ![j] = "over"]
    BY <2>1, StageMoves DEF StageOf
  <2>3. UNCHANGED ofs
    BY <1>10, <2>1, OwnersStay DEF emit_final
  <2>4. outcome[j] \in Outcomes
    BY <2>1 DEF TypeOK, OutcomeSettled, Settled
  <2>5. outcome[j] \in Board!Ends(j)
    BY <2>4 DEF Outcomes, OutcomeTrue, Board!Ends
  <2> QED BY <1>10, <2>2, <2>3, <2>5
          DEF emit_final, Board!Publish, Board!Move
<1>11. CASE shutdown
  <2>1. Board!Live \subseteq cancels
    BY DEF Board!Live, StageOf, TypeOK, WorkerSteps, Registered, Cancellable,
       InFlight
  <2>2. cancels \in SUBSET JobIds /\ tripped' = tripped \cup cancels
    BY <1>11 DEF shutdown, TypeOK
  <2>3. Board!Close
    BY <1>11, <2>1, <2>2 DEF shutdown, DispatcherIdle, Board!Close
  <2> QED BY <2>3 DEF Board!Next
<1>12. CASE join_writer
  BY <1>12 DEF join_writer, Board!board
<1>13. CASE \/ writer_breaks \/ session_watched \/ session_ends \/ Exited
            \/ UNCHANGED vars
  BY <1>13 DEF writer_breaks, session_watched, session_ends, Exited, vars,
     Board!board
<1> QED
  BY <1>1, <1>2, <1>3, <1>4, <1>5, <1>6, <1>7, <1>8, <1>9, <1>10, <1>11,
     <1>12, <1>13 DEF Next, Worker, Board!Next

\* Whatever its threads interleave into, jobs.rs keeps the promise of
\* JobBoard, for any jobs, projects and pool limit.
THEOREM RunnerImplementsBoard == Spec => ImplementsBoard
<1>1. Init => Board!Init
  BY DEF Init, Board!Init, StageOf
<1>2. IInv /\ [Next]_vars => [Board!Next]_(Board!board)
  BY BoardStep
<1> QED BY <1>1, <1>2, Invariance, PTL DEF Spec, ImplementsBoard, Board!Spec
=============================================================================
