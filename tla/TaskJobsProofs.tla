--------------------------- MODULE TaskJobsProofs ---------------------------
(***************************************************************************)
(* Proofs about TaskJobs, for any number of tasks, jobs and firings, any   *)
(* batch size and limits, and any failures: the types, that one pass is    *)
(* under way at a time, and that a job is given up only when its attempts  *)
(* are used.                                                               *)
(***************************************************************************)
EXTENDS TaskJobs, FiniteSetTheorems, TLAPS

-----------------------------------------------------------------------------
(* The invariant. *)

Running == {"waiting", "active", "processing"}

\* What attemptsMade counts: the errors; or the runs that were started, and so
\* the errors, the runs that stalled and the one under way.
Counted(job) ==
    IF CountsStart
    THEN job.errors + job.stalls + (IF job.state = "waiting" THEN 0 ELSE 1)
    ELSE job.errors

\* A job that is not over has one attempt left, and the worker would use it;
\* what is over is as EveryAttemptUsed and AllButOneUsed say.
Sound(job) ==
    IF job.state \in Running
    THEN /\ job.attemptsMade = Counted(job)
         /\ job.errors < job.attempts
         /\ job.attempts <= MAX_RETRY_ATTEMPTS
         /\ job.stalls <= MaxStalled
    ELSE \/ job.success
         \/ job.name = "review-stale-tasks"
         \/ job.stalls > MaxStalled
         \/ ~CountsStart /\ job.errors = job.attempts
         \/ CountsStart /\ job.errors + job.stalls + 1 >= job.attempts

SoundJob == {job \in Job : Sound(job)}

JobsInv == jobs \in [JobIds -> SoundJob \cup {Null}]

\* A pass that adds has a batch to add.
PassInv ==
    /\ OnePassAtATime
    /\ \A f \in Firings : At(f, "adding") => firing[f].batches > 0

JobsTypeInv == TypeOK /\ JobsInv /\ PassInv

-----------------------------------------------------------------------------
(* Jobs. *)

\* A job is added with at most three attempts.
LEMMA NewJobSound ==
    ASSUME NEW name \in Names, NEW t \in Tasks \cup {Null}, NEW n \in {2, 3}
    PROVE  NewJob(name, t, n) \in SoundJob
  BY JobsAssumption, AttemptsAssumption
  DEF NewJob, SoundJob, Sound, Counted, Job, Running

\* add puts a sound job into a free place, or nothing.
LEMMA AddSound ==
    ASSUME JobsInv, NEW job \in SoundJob, AddOrNot(job)
    PROVE  JobsInv'
<1>1. ASSUME NEW j \in JobIds, Add(j, job) PROVE JobsInv'
  BY <1>1 DEF Add, JobsInv
<1>2. CASE AddFails
  BY <1>2 DEF AddFails, JobsInv
<1> QED BY <1>1, <1>2 DEF AddOrNot

\* A step of a handler leaves one of its outcomes.
LEMMA EndsSound ==
    ASSUME JobsInv, NEW j \in JobIds, NEW outcomes \in SUBSET SoundJob, Ends(j, outcomes)
    PROVE  JobsInv'
<1>1. PICK job \in outcomes : jobs' = [jobs EXCEPT ![j] = job]
  BY DEF Ends
<1> QED BY <1>1 DEF JobsInv

\* A running job may return with success, or throw.
LEMMA OutcomesSound ==
    ASSUME JobsInv, NEW j \in JobIds, jobs[j] # Null, jobs[j].state \in {"active", "processing"}
    PROVE  /\ Return(j, TRUE) \in SoundJob
           /\ Throw(j) \in SoundJob
           /\ DbErrors(j) \in SUBSET SoundJob
<1>1. /\ jobs[j] \in Job
      /\ Sound(jobs[j])
      /\ jobs[j].state \in {"active", "processing"}
  BY DEF JobsInv, SoundJob
<1>2. Return(j, TRUE) \in SoundJob
  BY <1>1 DEF Return, SoundJob, Sound, Job, Running
<1>3. Throw(j) \in SoundJob
  <2> DEFINE n == jobs[j].errors + 1
             made == jobs[j].attemptsMade + (IF CountsStart THEN 0 ELSE 1)
             job == [jobs[j] EXCEPT !.errors = n, !.found = {}]
             goes == IF made < job.attempts THEN "waiting" ELSE "failed"
             next == [job EXCEPT !.state = goes, !.attemptsMade = made]
             last == [job EXCEPT !.state = "completed"]
  <2>1. n \in Nat /\ made \in Nat
    BY <1>1, JobsAssumption DEF Job
  <2>2. /\ jobs[j].attemptsMade = Counted(jobs[j])
        /\ jobs[j].attempts <= MAX_RETRY_ATTEMPTS
        /\ jobs[j].stalls <= MaxStalled
        /\ jobs[j].errors < jobs[j].attempts
    BY <1>1 DEF Sound, Running
  <2>3. /\ CountsStart => made = n + jobs[j].stalls /\ jobs[j].attemptsMade = made
        /\ ~CountsStart => made = n /\ jobs[j].attemptsMade + 1 = n
    BY <1>1, <2>2 DEF Counted, Job
  <2>4. Throw(j) = IF WillRetry(j) THEN next ELSE last
    BY DEF Throw
  <2> HIDE DEF n, made
  <2>5. /\ job \in Job
        /\ job.errors = n
        /\ job.attempts = jobs[j].attempts
        /\ job.stalls = jobs[j].stalls
    BY <1>1, <2>1 DEF Job
  <2> HIDE DEF job
  <2>6. next \in Job /\ last \in Job
    BY <2>1, <2>5 DEF Job
  <2>7. /\ next.state = goes /\ next.attemptsMade = made
        /\ next.errors = n /\ next.stalls = jobs[j].stalls /\ next.attempts = jobs[j].attempts
        /\ last.state = "completed"
        /\ last.errors = n /\ last.stalls = jobs[j].stalls /\ last.attempts = jobs[j].attempts
    BY <2>5 DEF Job
  <2>8. /\ jobs[j].attempts \in Nat /\ jobs[j].stalls \in Nat
        /\ jobs[j].attemptsMade \in Nat /\ jobs[j].errors \in Nat
        /\ MAX_RETRY_ATTEMPTS \in Nat /\ CountsStart \in BOOLEAN
    BY <1>1, JobsAssumption DEF Job
  <2> HIDE DEF next, last
  <2>9. Sound(next)
    BY <2>1, <2>2, <2>3, <2>5, <2>7, <2>8 DEF Sound, Counted, Running
  <2>10. ASSUME ~WillRetry(j) PROVE Sound(last)
    <3>1. jobs[j].attemptsMade >= MAX_RETRY_ATTEMPTS - 1
      BY <2>8, <2>10 DEF WillRetry
    <3>2. CASE CountsStart
      <4>1. n + jobs[j].stalls + 1 >= jobs[j].attempts
        BY <2>1, <2>2, <2>3, <2>8, <3>1, <3>2
      <4> QED BY <2>7, <3>2, <4>1 DEF Sound, Running
    <3>3. CASE ~CountsStart
      <4>1. n = jobs[j].errors + 1
        BY DEF n
      <4>2. n = jobs[j].attempts
        BY <2>1, <2>2, <2>3, <2>8, <3>1, <3>3, <4>1
      <4> QED BY <2>7, <3>3, <4>2 DEF Sound, Running
    <3> QED BY <3>2, <3>3
  <2> QED BY <2>4, <2>6, <2>9, <2>10 DEF SoundJob
<1> QED BY <1>2, <1>3 DEF DbErrors

\* A job whose process has gone waits again, or has stalled too often.
LEMMA StalledSound ==
    ASSUME NEW job \in SoundJob \cup {Null}
    PROVE  Stalled(job) \in SoundJob \cup {Null}
<1>1. CASE job = Null \/ job.state \notin {"active", "processing"}
  BY <1>1 DEF Stalled
<1>2. CASE job # Null /\ job.state \in {"active", "processing"}
  <2>1. job \in Job /\ Sound(job)
    BY <1>2 DEF SoundJob
  <2>2. Stalled(job) = [job EXCEPT !.stalls = @ + 1, !.found = {}, !.tasksFailed = FALSE,
                     !.state = IF job.stalls < MaxStalled THEN "waiting" ELSE "failed"]
    BY <1>2 DEF Stalled
  <2> DEFINE goes == IF job.stalls < MaxStalled THEN "waiting" ELSE "failed"
             n == job.stalls + 1
             new == [job EXCEPT !.stalls = n, !.found = {}, !.tasksFailed = FALSE,
                                !.state = goes]
  <2>3. n \in Nat
    BY <2>1 DEF Job
  <2> HIDE DEF n
  <2>4. /\ new \in Job
        /\ new.state = goes
        /\ new.stalls = n
        /\ new.attemptsMade = job.attemptsMade
        /\ new.errors = job.errors
        /\ new.attempts = job.attempts
    BY <2>1, <2>3 DEF Job
  <2>5. /\ n = job.stalls + 1
        /\ job.stalls \in Nat
        /\ job.attemptsMade = Counted(job)
        /\ job.errors \in Nat
        /\ job.errors < job.attempts
        /\ job.attempts <= MAX_RETRY_ATTEMPTS
    BY <1>2, <2>1 DEF Sound, Job, Running, n
  <2> HIDE DEF new
  <2>6. Sound(new)
    BY <1>2, <2>4, <2>5, JobsAssumption DEF Sound, Counted, Running
  <2> QED BY <2>2, <2>4, <2>6 DEF SoundJob, new, n
<1> QED BY <1>1, <1>2

\* Handlers leave sound jobs.
LEMMA WorkSound ==
    ASSUME JobsInv, TypeOK, NEW j \in JobIds, Work(j)
    PROVE  JobsInv'
<1>1. CASE HandleTaskCreated(j)
  <2>1. jobs[j] # Null /\ jobs[j].state \in {"active", "processing"}
    BY <1>1 DEF HandleTaskCreated, Named, Is, Running
  <2> DEFINE seen == status[jobs[j].taskId] \in {"OPEN", "COMPLETED"}
             outcomes == {IF seen THEN Return(j, TRUE) ELSE Throw(j)} \cup DbErrors(j)
  <2>2. Ends(j, outcomes)
    BY <1>1 DEF HandleTaskCreated
  <2>3. outcomes \in SUBSET SoundJob
    BY <2>1, OutcomesSound
  <2> QED BY <2>2, <2>3, EndsSound
<1>2. ASSUME NEW name, Report(j, name) PROVE JobsInv'
  <2>1. jobs[j] # Null /\ jobs[j].state \in {"active", "processing"}
    BY <1>2 DEF Report, Named, Is, Running
  <2>2. {Return(j, TRUE)} \cup DbErrors(j) \in SUBSET SoundJob
    BY <2>1, OutcomesSound
  <2>3. Ends(j, {Return(j, TRUE)} \cup DbErrors(j))
    BY <1>2 DEF Report
  <2> QED BY <2>2, <2>3, EndsSound
<1>3. CASE HandleCleanupCompletedTasks(j)
  <2>1. jobs[j] # Null /\ jobs[j].state \in {"active", "processing"}
    BY <1>3 DEF HandleCleanupCompletedTasks, Named, Is, Running
  <2>2. Ends(j, {Return(j, TRUE)}) \/ Ends(j, {Throw(j)})
    BY <1>3 DEF HandleCleanupCompletedTasks
  <2>3. {Return(j, TRUE)} \in SUBSET SoundJob /\ {Throw(j)} \in SUBSET SoundJob
    BY <2>1, OutcomesSound
  <2> QED BY <2>2, <2>3, EndsSound
<1>4. CASE HandleUnknown(j)
  <2>1. jobs[j] \in Job /\ jobs[j].name = "review-stale-tasks" /\ Ends(j, {Return(j, FALSE)})
    BY <1>4 DEF HandleUnknown, Named, Is, JobsInv, SoundJob
  <2>2. {Return(j, FALSE)} \in SUBSET SoundJob
    BY <2>1 DEF Return, SoundJob, Sound, Job, Running
  <2> QED BY <2>1, <2>2, EndsSound
<1>5. CASE FindOverdue(j)
  <2>1. jobs[j] # Null /\ jobs[j].state \in {"active", "processing"}
    BY <1>5 DEF FindOverdue, Named, Is, Running
  <2> DEFINE finds == [jobs[j] EXCEPT !.state = "processing", !.found = FirstOf(Overdue)]
  <2>2. Ends(j, {finds} \cup DbErrors(j))
    BY <1>5 DEF FindOverdue
  <2>3. jobs[j] \in Job /\ FirstOf(Overdue) \in SUBSET Tasks /\ "processing" \in Running
    BY <2>1 DEF JobsInv, SoundJob, FirstOf, Overdue, Running
  <2>4. finds \in SoundJob
    BY <2>1, <2>3 DEF JobsInv, SoundJob, Sound, Counted, Job, Running
  <2>5. {finds} \cup DbErrors(j) \in SUBSET SoundJob
    BY <2>1, <2>4, OutcomesSound
  <2> QED BY <2>2, <2>5, EndsSound
<1>6. ASSUME NEW t \in Tasks, ProcessOverdueTask(j, t) \/ FailOverdueTask(j, t) PROVE JobsInv'
  <2>1. jobs[j] # Null /\ jobs[j].state = "processing"
    BY <1>6 DEF ProcessOverdueTask, FailOverdueTask, Is
  <2>2. jobs[j] \in Job /\ Sound(jobs[j])
    BY <2>1 DEF JobsInv, SoundJob
  <2>3. /\ RestOf(j, t) \in SoundJob
        /\ RestOf(j, t).state = "processing"
    BY <2>1, <2>2 DEF RestOf, SoundJob, Sound, Counted, Job, Running
  <2>4. Note(RestOf(j, t)) \in SoundJob
    <3> DEFINE rest == RestOf(j, t)
    <3>1. rest \in Job /\ Sound(rest) /\ rest.state = "processing"
      BY <2>3 DEF SoundJob
    <3>2. Note(rest) = [rest EXCEPT !.tasksFailed = TRUE]
      BY DEF Note
    <3> HIDE DEF rest
    <3>3. Note(rest) \in Job
      BY <3>1, <3>2 DEF Job
    <3>4. /\ Note(rest).state = rest.state
          /\ Note(rest).attemptsMade = rest.attemptsMade
          /\ Note(rest).errors = rest.errors
          /\ Note(rest).attempts = rest.attempts
          /\ Note(rest).stalls = rest.stalls
      BY <3>1, <3>2 DEF Job
    <3>5. Sound(Note(rest))
      BY <3>1, <3>4 DEF Sound, Counted, Running
    <3> QED BY <3>3, <3>5 DEF SoundJob, rest
  <2>5. Ends(j, {RestOf(j, t)}) \/ Ends(j, {Note(RestOf(j, t))})
    BY <1>6 DEF ProcessOverdueTask, FailOverdueTask
  <2>6. {RestOf(j, t)} \in SUBSET SoundJob /\ {Note(RestOf(j, t))} \in SUBSET SoundJob
    BY <2>3, <2>4
  <2> QED BY <2>5, <2>6, EndsSound
<1>7. CASE ReturnProcessed(j)
  <2>1. jobs[j] # Null /\ jobs[j].state \in {"active", "processing"} /\ Ends(j, {Return(j, TRUE)})
    BY <1>7 DEF ReturnProcessed, Is, Running
  <2>2. {Return(j, TRUE)} \in SUBSET SoundJob
    BY <2>1, OutcomesSound
  <2> QED BY <2>1, <2>2, EndsSound
<1> QED
  BY <1>1, <1>2, <1>3, <1>4, <1>5, <1>6, <1>7
  DEF Work, WorkElsewhere, HandleTaskStatusUpdate, HandleLegacyOverdueTasks

\* Every action leaves sound jobs.
LEMMA JobsStep == TypeOK /\ JobsInv /\ [Next]_vars => JobsInv'
<1> SUFFICES ASSUME TypeOK, JobsInv, [Next]_vars PROVE JobsInv'
  OBVIOUS
<1> USE DEF Names
<1>1. ASSUME jobs' = jobs PROVE JobsInv'
  BY <1>1 DEF JobsInv
<1>2. CASE CheckOverdueTasks
  <2>1. NewJob("overdue-tasks-notification", Null, 3) \in SoundJob
    BY NewJobSound
  <2> QED BY <1>2, <2>1, AddSound DEF CheckOverdueTasks
<1>3. CASE AddCleanup
  <2>1. NewJob("cleanup-completed-tasks", Null, 2) \in SoundJob
    BY NewJobSound
  <2> QED BY <1>3, <2>1, AddSound DEF AddCleanup
<1>4. CASE HandleStaleTasksCheck
  <2>1. NewJob("review-stale-tasks", Null, 2) \in SoundJob
    BY NewJobSound
  <2> QED BY <1>4, <2>1, AddSound DEF HandleStaleTasksCheck
<1>5. NewJob("process-overdue-tasks", Null, 3) \in SoundJob
  BY NewJobSound
<1>6. CASE TriggerOverdueProcessing
  BY <1>5, <1>6, AddSound DEF TriggerOverdueProcessing
<1>7. ASSUME NEW f \in Firings, AddBatch(f) PROVE JobsInv'
  BY <1>5, <1>7, AddSound DEF AddBatch
<1>8. ASSUME NEW t \in Tasks, CreateTask(t) PROVE JobsInv'
  <2>1. NewJob("task-created", t, 3) \in SoundJob
    BY NewJobSound
  <2> QED BY <1>8, <2>1, AddSound DEF CreateTask
<1>9. ASSUME NEW t \in Tasks, UpdateTask(t) PROVE JobsInv'
  <2>1. NewJob("task-status-updated", Null, 3) \in SoundJob
    BY NewJobSound
  <2>2. AddOrNot(NewJob("task-status-updated", Null, 3)) \/ UNCHANGED jobs
    BY <1>9 DEF UpdateTask
  <2> QED BY <1>1, <2>1, <2>2, AddSound
<1>10. ASSUME NEW j \in JobIds, Start(j) PROVE JobsInv'
  <2> DEFINE made == IF CountsStart THEN jobs[j].attemptsMade + 1 ELSE jobs[j].attemptsMade
             new == [jobs[j] EXCEPT !.state = "active", !.attemptsMade = made]
  <2>1. jobs' = [jobs EXCEPT ![j] = new]
    BY <1>10 DEF Start, Is
  <2>2. jobs[j] \in Job /\ Sound(jobs[j]) /\ jobs[j].state = "waiting"
    BY <1>10 DEF Start, Is, JobsInv, SoundJob
  <2>3. made \in Nat /\ jobs[j].attemptsMade = Counted(jobs[j])
    BY <2>2 DEF Sound, Job, Running
  <2>4. made = IF CountsStart THEN jobs[j].errors + jobs[j].stalls + 1 ELSE jobs[j].errors
    BY <2>2, <2>3 DEF Counted, Job
  <2> HIDE DEF made
  <2>5. /\ new \in Job /\ new.state = "active" /\ new.attemptsMade = made
        /\ new.errors = jobs[j].errors /\ new.stalls = jobs[j].stalls
        /\ new.attempts = jobs[j].attempts
    BY <2>2, <2>3 DEF Job
  <2>6. new \in SoundJob
    BY <2>2, <2>4, <2>5 DEF SoundJob, Sound, Counted, Running
  <2> HIDE DEF new
  <2> QED BY <2>1, <2>6 DEF JobsInv
<1>11. ASSUME NEW j \in JobIds, Work(j) PROVE JobsInv'
  BY <1>11, WorkSound
<1>12. CASE Crash
  <2>1. jobs' = [j \in JobIds |-> Stalled(jobs[j])]
    BY <1>12 DEF Crash
  <2>2. \A j \in JobIds : Stalled(jobs[j]) \in SoundJob \cup {Null}
    BY StalledSound DEF JobsInv
  <2> QED BY <2>1, <2>2 DEF JobsInv
<1>13. ASSUME NEW f \in Firings, Fire(f) \/ Count(f) PROVE JobsInv'
  BY <1>1, <1>13 DEF Fire, Count
<1>14. ASSUME NEW t \in Tasks, EndCreate(t) \/ RemoveTask(t) PROVE JobsInv'
  BY <1>1, <1>14 DEF EndCreate, RemoveTask
<1>15. CASE UNCHANGED vars
  BY <1>1, <1>15 DEF vars
<1> QED
  BY <1>2, <1>3, <1>4, <1>6, <1>7, <1>8, <1>9, <1>10, <1>11, <1>12, <1>13, <1>14, <1>15
  DEF Next, Elsewhere, Work

-----------------------------------------------------------------------------
(* Passes. *)

\* Math.ceil(n / b) lies between 1 and n.
LEMMA CeilBounds ==
    ASSUME NEW n \in Nat \ {0}, NEW b \in Nat \ {0}
    PROVE  (n + b - 1) \div b \in 1..n
<1> DEFINE q == (n + b - 1) \div b
<1>1. q \in Int /\ b * q <= n + b - 1 /\ n + b - 1 < b * q + b
  OBVIOUS
<1> HIDE DEF q
<1>2. q > 0
  <2>1. CASE q <= 0
    <3>1. b * q <= 0
      BY <1>1, <2>1
    <3> QED BY <1>1, <3>1
  <2> QED BY <1>1, <2>1
<1>3. q <= n
  <2>1. CASE q >= n + 1
    <3>1. b * q >= b * (n + 1)
      BY <1>1, <2>1
    <3>2. b * (n + 1) >= n + b
      OBVIOUS
    <3> QED BY <1>1, <3>1, <3>2
  <2> QED BY <1>1, <2>1
<1>4. q \in 1..n
  BY <1>1, <1>2, <1>3
<1> QED BY <1>4 DEF q

\* A pass that has counted some tasks adds at least one batch, and at most one
\* for each task.
LEMMA BatchCountBounds ==
    ASSUME TypeOK, Overdue # {}
    PROVE  BatchCount \in 1..TaskCount
<1>1. IsFiniteSet(Tasks) /\ Cardinality(Tasks) = TaskCount
  <2>1. 1 \in Int /\ TaskCount \in Int
    BY JobsAssumption
  <2>2. /\ IsFiniteSet(1..TaskCount)
        /\ Cardinality(1..TaskCount) = IF 1 > TaskCount THEN 0 ELSE TaskCount - 1 + 1
    BY ONLY <2>1, FS_Interval
  <2> QED BY <2>2, JobsAssumption DEF Tasks
<1>2. Overdue \subseteq Tasks
  BY DEF Overdue
<1>3. IsFiniteSet(Overdue) /\ Cardinality(Overdue) \in Nat /\ Cardinality(Overdue) <= TaskCount
  BY <1>1, <1>2, FS_Subset, FS_CardinalityType
<1>4. Cardinality(Overdue) # 0
  BY <1>3, FS_EmptySet
<1>5. BatchCount \in 1..Cardinality(Overdue)
  BY <1>3, <1>4, CeilBounds, JobsAssumption DEF BatchCount
<1> QED BY <1>3, <1>5, JobsAssumption

PassType ==
    /\ isProcessing \in BOOLEAN
    /\ firing \in [Firings -> [pc: {"idle", "counting", "adding"}, batches: 0..TaskCount]]

\* The flag is reset by the only pass there is.
LEMMA FinishPass ==
    ASSUME PassType, PassInv, NEW f \in Firings, ~At(f, "idle"), Finish(f)
    PROVE  PassType' /\ PassInv'
<1>1. Rest \in [pc: {"idle", "counting", "adding"}, batches: 0..TaskCount] /\ Rest.pc = "idle"
  BY JobsAssumption DEF Rest
<1>2. firing' = [firing EXCEPT ![f] = Rest] /\ isProcessing' = FALSE
  BY DEF Finish
<1>3. \A g \in Firings : firing'[g].pc = "idle"
  BY <1>1, <1>2 DEF PassType, PassInv, OnePassAtATime, At
<1> QED BY <1>1, <1>2, <1>3 DEF PassType, PassInv, OnePassAtATime, At

\* The pass under way goes on.
LEMMA PassGoesOn ==
    ASSUME PassType, PassInv, NEW f \in Firings, ~At(f, "idle"),
           NEW n \in 1..TaskCount,
           firing' = [firing EXCEPT ![f] = [pc |-> "adding", batches |-> n]],
           isProcessing' = isProcessing
    PROVE  PassType' /\ PassInv'
<1>1. [pc |-> "adding", batches |-> n]
         \in [pc: {"idle", "counting", "adding"}, batches: 0..TaskCount]
  BY JobsAssumption
<1>2. firing'[f].pc = "adding" /\ firing'[f].batches > 0
  BY JobsAssumption DEF PassType
<1>3. \A g \in Firings \ {f} : firing'[g] = firing[g]
  BY DEF PassType
<1> QED BY <1>1, <1>2, <1>3 DEF PassType, PassInv, OnePassAtATime, At

\* Every action leaves at most one pass.
LEMMA PassStep == TypeOK /\ PassInv /\ [Next]_vars => PassType' /\ PassInv'
<1> SUFFICES ASSUME TypeOK, PassInv, [Next]_vars PROVE PassType' /\ PassInv'
  OBVIOUS
<1>0. PassType
  BY DEF TypeOK, PassType
<1>1. ASSUME UNCHANGED <<isProcessing, firing>> PROVE PassType' /\ PassInv'
  BY <1>0, <1>1 DEF PassType, PassInv, OnePassAtATime, At
<1>2. ASSUME NEW f \in Firings, Fire(f) PROVE PassType' /\ PassInv'
  <2>1. /\ \A g \in Firings : firing[g].pc = "idle"
        /\ isProcessing' = TRUE
        /\ firing' = [firing EXCEPT ![f].pc = "counting"]
    BY <1>2 DEF Fire, PassInv, OnePassAtATime, At
  <2>2. /\ firing'[f].pc = "counting"
        /\ \A g \in Firings \ {f} : firing'[g].pc = "idle"
        /\ firing' \in [Firings -> [pc: {"idle", "counting", "adding"}, batches: 0..TaskCount]]
    BY <1>0, <2>1 DEF PassType
  <2> QED BY <2>1, <2>2 DEF PassType, PassInv, OnePassAtATime, At
<1>3. ASSUME NEW f \in Firings, Count(f) PROVE PassType' /\ PassInv'
  <2>1. ~At(f, "idle")
    BY <1>3 DEF Count, At
  <2>2. CASE Finish(f)
    BY <1>0, <2>1, <2>2, FinishPass
  <2>3. CASE /\ Overdue # {}
             /\ firing' = [firing EXCEPT ![f] = [pc |-> "adding", batches |-> BatchCount]]
             /\ UNCHANGED isProcessing
    <3>1. BatchCount \in 1..TaskCount
      BY <2>3, BatchCountBounds
    <3> QED BY <1>0, <2>1, <2>3, <3>1, PassGoesOn
  <2> QED BY <1>3, <2>2, <2>3 DEF Count
<1>4. ASSUME NEW f \in Firings, AddBatch(f) PROVE PassType' /\ PassInv'
  <2>1. At(f, "adding") /\ ~At(f, "idle")
    BY <1>4 DEF AddBatch, At
  <2>2. CASE Finish(f)
    BY <1>0, <2>1, <2>2, FinishPass
  <2>3. CASE /\ firing[f].batches # 1
             /\ firing' = [firing EXCEPT ![f].batches = @ - 1]
             /\ UNCHANGED isProcessing
    <3> DEFINE n == firing[f].batches - 1
    <3>1. n \in 1..TaskCount
      BY <1>0, <2>1, <2>3, JobsAssumption DEF PassType, PassInv
    <3>2. firing' = [firing EXCEPT ![f] = [pc |-> "adding", batches |-> n]]
      <4>1. firing[f] = [pc |-> "adding", batches |-> firing[f].batches]
        BY <1>0, <2>1 DEF PassType, At
      <4>2. [firing[f] EXCEPT !.batches = n] = [pc |-> "adding", batches |-> n]
        BY <4>1
      <4> QED BY <2>3, <4>2
    <3> HIDE DEF n
    <3> QED BY <1>0, <2>1, <2>3, <3>1, <3>2, PassGoesOn
  <2> QED BY <1>4, <2>2, <2>3 DEF AddBatch
<1>5. CASE Crash
  <2>1. Rest \in [pc: {"idle", "counting", "adding"}, batches: 0..TaskCount] /\ Rest.pc = "idle"
    BY JobsAssumption DEF Rest
  <2>2. isProcessing' = FALSE /\ firing' = [f \in Firings |-> Rest]
    BY <1>5 DEF Crash
  <2> QED BY <2>1, <2>2 DEF PassType, PassInv, OnePassAtATime, At
<1>6. ASSUME NEW j \in JobIds, Work(j) PROVE UNCHANGED <<isProcessing, firing>>
  BY <1>6 DEF Work, WorkElsewhere, HandleTaskCreated, HandleTaskStatusUpdate,
     HandleLegacyOverdueTasks, Report, HandleCleanupCompletedTasks, HandleUnknown, FindOverdue,
     ProcessOverdueTask, FailOverdueTask, ReturnProcessed, Ends
<1>7. ASSUME \/ CheckOverdueTasks \/ AddCleanup \/ HandleStaleTasksCheck
             \/ TriggerOverdueProcessing
             \/ \E j \in JobIds : Start(j)
             \/ \E t \in Tasks : CreateTask(t) \/ EndCreate(t) \/ UpdateTask(t) \/ RemoveTask(t)
             \/ UNCHANGED vars
      PROVE  UNCHANGED <<isProcessing, firing>>
  BY <1>7 DEF CheckOverdueTasks, AddCleanup, HandleStaleTasksCheck, TriggerOverdueProcessing,
     Start, CreateTask, EndCreate, UpdateTask, RemoveTask, vars
<1> QED
  BY <1>1, <1>2, <1>3, <1>4, <1>5, <1>6, <1>7 DEF Next, Elsewhere, Work

-----------------------------------------------------------------------------
(* Rows. *)

\* Every action keeps the types of the rows.
LEMMA StatusStep ==
    TypeOK /\ [Next]_vars => status' \in [Tasks -> Statuses]
<1> SUFFICES ASSUME TypeOK, [Next]_vars PROVE status' \in [Tasks -> Statuses]
  OBVIOUS
<1> USE DEF TypeOK, Statuses
<1>1. ASSUME NEW t \in Tasks, CreateTask(t) \/ EndCreate(t) \/ UpdateTask(t) \/ RemoveTask(t)
      PROVE  status' \in [Tasks -> Statuses]
  BY <1>1 DEF CreateTask, EndCreate, UpdateTask, RemoveTask
<1>2. ASSUME NEW j \in JobIds, HandleCleanupCompletedTasks(j)
      PROVE  status' \in [Tasks -> Statuses]
  BY <1>2 DEF HandleCleanupCompletedTasks
<1>3. ASSUME NEW j \in JobIds, Work(j), ~HandleCleanupCompletedTasks(j)
      PROVE  UNCHANGED status
  BY <1>3 DEF Work, WorkElsewhere, HandleTaskCreated, HandleTaskStatusUpdate,
     HandleLegacyOverdueTasks, Report, HandleUnknown, FindOverdue, ProcessOverdueTask,
     FailOverdueTask, ReturnProcessed
<1>4. ASSUME \/ CheckOverdueTasks \/ AddCleanup \/ HandleStaleTasksCheck
             \/ TriggerOverdueProcessing \/ Crash
             \/ \E j \in JobIds : Start(j)
             \/ \E f \in Firings : Fire(f) \/ Count(f) \/ AddBatch(f)
             \/ UNCHANGED vars
      PROVE  UNCHANGED status
  BY <1>4 DEF CheckOverdueTasks, AddCleanup, HandleStaleTasksCheck, TriggerOverdueProcessing,
     Start, Fire, Count, AddBatch, Crash, vars
<1> QED BY <1>1, <1>2, <1>3, <1>4 DEF Next, Elsewhere, Work

-----------------------------------------------------------------------------
(* Theorems. *)

\* The queue is empty and no pass is under way at the start.
LEMMA InvInit == Init => JobsTypeInv
<1> SUFFICES ASSUME Init PROVE JobsTypeInv
  OBVIOUS
<1>1. Rest \in [pc: {"idle", "counting", "adding"}, batches: 0..TaskCount] /\ Rest.pc = "idle"
  BY JobsAssumption DEF Rest
<1>2. TypeOK
  BY <1>1 DEF Init, TypeOK, Statuses
<1>3. JobsInv
  BY DEF Init, JobsInv
<1>4. PassInv
  BY <1>1 DEF Init, PassInv, OnePassAtATime, At
<1> QED BY <1>2, <1>3, <1>4 DEF JobsTypeInv

\* Every step keeps the invariant.
LEMMA InvNext == JobsTypeInv /\ [Next]_vars => JobsTypeInv'
<1> SUFFICES ASSUME JobsTypeInv, [Next]_vars PROVE JobsTypeInv'
  OBVIOUS
<1>1. JobsInv' /\ PassType' /\ PassInv' /\ status' \in [Tasks -> Statuses]
  BY JobsStep, PassStep, StatusStep DEF JobsTypeInv
<1>2. jobs' \in [JobIds -> Job \cup {Null}]
  BY <1>1 DEF JobsInv, SoundJob
<1> QED BY <1>1, <1>2 DEF JobsTypeInv, TypeOK, PassType

\* The invariant holds.
LEMMA InvHolds == Spec => []JobsTypeInv
  BY InvInit, InvNext, PTL DEF Spec

\* The types: a pass has between no batch and one per task left to add.
THEOREM TypeCorrect == Spec => []TypeOK
<1>1. JobsTypeInv => TypeOK
  BY DEF JobsTypeInv
<1> QED BY <1>1, InvHolds, PTL

\* However many hourly runs overlap, one at a time counts and adds, and the
\* flag is set exactly then.
THEOREM OnePass == Spec => []OnePassAtATime
<1>1. JobsTypeInv => OnePassAtATime
  BY DEF JobsTypeInv, PassInv
<1> QED BY <1>1, InvHolds, PTL

\* What JobsInv says of a job that is given up.
LEMMA GivenUpIsSound ==
    ASSUME JobsInv, NEW j \in JobIds, GivenUp(j)
    PROVE  /\ ~CountsStart => jobs[j].errors = jobs[j].attempts
           /\ jobs[j].errors + jobs[j].stalls + 1 >= jobs[j].attempts
<1>1. jobs[j] \in Job /\ Sound(jobs[j]) /\ jobs[j].state \notin Running
  BY DEF JobsInv, SoundJob, GivenUp, Over, Is, Running
<1>2. \/ ~CountsStart /\ jobs[j].errors = jobs[j].attempts
      \/ CountsStart /\ jobs[j].errors + jobs[j].stalls + 1 >= jobs[j].attempts
  BY <1>1, JobsAssumption DEF Sound, GivenUp, Job
<1> QED BY <1>1, <1>2 DEF Job

\* Were attemptsMade what the worker's log lines take it for, a job that is given
\* up would have had an error for every attempt.
THEOREM AttemptsUsed ==
    ASSUME ~CountsStart
    PROVE  Spec => []EveryAttemptUsed
<1>1. JobsTypeInv => EveryAttemptUsed
  BY GivenUpIsSound DEF JobsTypeInv, EveryAttemptUsed
<1> QED BY <1>1, InvHolds, PTL

\* Whatever attemptsMade counts, a job that is given up has had all of its
\* attempts but one.
THEOREM AllButOne == Spec => []AllButOneUsed
<1>1. JobsTypeInv => AllButOneUsed
  BY GivenUpIsSound DEF JobsTypeInv, AllButOneUsed
<1> QED BY <1>1, InvHolds, PTL

=============================================================================
