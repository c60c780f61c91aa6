------------------------------ MODULE TaskJobs ------------------------------
(***************************************************************************)
(* The queue 'task-processing': what                                       *)
(* src/queues/scheduled-tasks/overdue-tasks.service.ts and TasksService    *)
(* add to it, what the worker of                                           *)
(* src/queues/task-processor/task-processor.service.ts does with a job,    *)
(* and how BullMQ (external) retries it.  A job is run at least once: a    *)
(* process that stops leaves its active jobs to be run again.              *)
(*                                                                         *)
(* Tasks are numbered in the order of their due dates, all of them past:   *)
(* one whose date passes, or is moved, is one that opens or closes here.   *)
(* Delays, backoff, priorities and the worker's limiter only postpone a    *)
(* job: a waiting job may start at any time.                               *)
(***************************************************************************)
EXTENDS Naturals, FiniteSets

CONSTANTS
    TaskCount,
    JobIds,       \* bound: the jobs that fit in the queue, fewer than a worker's 5
    Firings,      \* the runs of the hourly pass that may be under way
    BatchSize,
    MAX_RETRY_ATTEMPTS,
    MaxStalled,   \* maxStalledCount
    CountsStart,  \* does attemptsMade count a run when it starts, as in BullMQ 4,
                  \* or when it fails, as the worker's log lines read it?
    DbFails, QueueFails, Crashes, \* what may go wrong
    Null

ASSUME JobsAssumption ==
    /\ TaskCount \in Nat
    /\ {BatchSize, MAX_RETRY_ATTEMPTS} \subseteq Nat \ {0}
    /\ MaxStalled \in Nat
    /\ {CountsStart, DbFails, QueueFails, Crashes} \subseteq BOOLEAN
    /\ Null \notin 1..TaskCount
ASSUME AttemptsAssumption == MAX_RETRY_ATTEMPTS >= 3 \* what add is given is at most 3

Tasks == 1..TaskCount

VARIABLES
    status,       \* of the rows; "UNCOMMITTED" while create's transaction is open
    jobs,
    isProcessing,
    firing        \* where a run of handleOverdueTasksScheduled is

vars == <<status, jobs, isProcessing, firing>>

Statuses == {"UNBORN", "UNCOMMITTED", "OPEN", "COMPLETED", "GONE"}

Names == {"task-created", "task-status-updated", "process-overdue-tasks",
          "overdue-tasks-notification", "cleanup-completed-tasks", "review-stale-tasks"}

Job == [name: Names, taskId: Tasks \cup {Null}, attempts: Nat, attemptsMade: Nat, stalls: Nat,
        state: {"waiting", "active", "processing", "completed", "failed"},
        found: SUBSET Tasks,  \* what processOverdueTask has still to do
        tasksFailed: BOOLEAN,
        success: BOOLEAN,
        errors: Nat]          \* history: the runs that ended with an error

At(f, pc) == firing[f].pc = pc

Rest == [pc |-> "idle", batches |-> 0]

TypeOK ==
    /\ status \in [Tasks -> Statuses]
    /\ jobs \in [JobIds -> Job \cup {Null}]
    /\ isProcessing \in BOOLEAN
    /\ firing \in [Firings -> [pc: {"idle", "counting", "adding"}, batches: 0..TaskCount]]

Init ==
    /\ status \in [Tasks -> {"UNBORN", "OPEN", "COMPLETED"}]
    /\ jobs = [j \in JobIds |-> Null]
    /\ isProcessing = FALSE
    /\ firing = [f \in Firings |-> Rest]

\* dueDate < now, status not in getExcludedStatuses()
Overdue == {t \in Tasks : status[t] = "OPEN"}

-----------------------------------------------------------------------------
(* taskQueue.add. *)

Free == {j \in JobIds : jobs[j] = Null}

NewJob(name, taskId, attempts) ==
    [name |-> name, taskId |-> taskId, attempts |-> attempts, attemptsMade |-> 0, stalls |-> 0,
     state |-> "waiting", found |-> {}, tasksFailed |-> FALSE, success |-> FALSE, errors |-> 0]

Add(j, job) ==
    /\ j \in Free
    /\ \A i \in Free : j <= i
    /\ jobs' = [jobs EXCEPT ![j] = job]

\* Every caller catches the error
AddFails == (QueueFails \/ Free = {}) /\ UNCHANGED jobs

AddOrNot(job) == (\E j \in JobIds : Add(j, job)) \/ AddFails

\* checkOverdueTasks: the ids it adds are not read by the job's handler
CheckOverdueTasks ==
    /\ Overdue # {}
    /\ AddOrNot(NewJob("overdue-tasks-notification", Null, 3))
    /\ UNCHANGED <<status, isProcessing, firing>>

\* handleCleanupCompletedTasks, cleanupOldCompletedTasks
AddCleanup ==
    /\ AddOrNot(NewJob("cleanup-completed-tasks", Null, 2))
    /\ UNCHANGED <<status, isProcessing, firing>>

\* handleStaleTasksCheck, for tasks not updated for long
HandleStaleTasksCheck ==
    /\ \E t \in Tasks : status[t] = "OPEN"
    /\ AddOrNot(NewJob("review-stale-tasks", Null, 2))
    /\ UNCHANGED <<status, isProcessing, firing>>

\* triggerOverdueProcessing
TriggerOverdueProcessing ==
    /\ Overdue # {}
    /\ AddOrNot(NewJob("process-overdue-tasks", Null, 3))
    /\ UNCHANGED <<status, isProcessing, firing>>

-----------------------------------------------------------------------------
(* handleOverdueTasksScheduled. *)

\* (mutant: the flag is not looked at)
FireAnyway(f) ==
    /\ At(f, "idle")
    /\ isProcessing' = TRUE
    /\ firing' = [firing EXCEPT ![f].pc = "counting"]
    /\ UNCHANGED <<status, jobs>>

\* With isProcessing set, the run ends at once
Fire(f) ==
    /\ At(f, "idle")
    /\ ~isProcessing
    /\ isProcessing' = TRUE
    /\ firing' = [firing EXCEPT ![f].pc = "counting"]
    /\ UNCHANGED <<status, jobs>>

\* (mutant: the flag is reset at the end of the try, not in the finally)
FinishCounted(f) ==
    /\ firing' = [firing EXCEPT ![f] = Rest]
    /\ isProcessing' = At(f, "counting")

\* The finally
Finish(f) ==
    /\ firing' = [firing EXCEPT ![f] = Rest]
    /\ isProcessing' = FALSE

\* (mutant: floor and one)
BatchCountFloor == Cardinality(Overdue) \div BatchSize + 1

\* Math.ceil(overdueCount / BATCH_SIZE)
BatchCount == (Cardinality(Overdue) + BatchSize - 1) \div BatchSize

Count(f) ==
    /\ At(f, "counting")
    /\ \/ /\ DbFails \/ Overdue = {}
          /\ Finish(f)
       \/ /\ Overdue # {}
          /\ firing' = [firing EXCEPT ![f] = [pc |-> "adding", batches |-> BatchCount]]
          /\ UNCHANGED isProcessing
    /\ UNCHANGED <<status, jobs>>

\* One round of the loop; a batch that cannot be added is skipped
AddBatch(f) ==
    /\ At(f, "adding")
    /\ AddOrNot(NewJob("process-overdue-tasks", Null, 3))
    /\ IF firing[f].batches = 1
       THEN Finish(f)
       ELSE /\ firing' = [firing EXCEPT ![f].batches = @ - 1]
            /\ UNCHANGED isProcessing
    /\ UNCHANGED status

-----------------------------------------------------------------------------
(* TaskProcessorService.process. *)

Is(j, state) == jobs[j] # Null /\ jobs[j].state = state

Named(j, name) == Is(j, "active") /\ jobs[j].name = name

\* BullMQ hands a waiting job to the worker
Start(j) ==
    /\ Is(j, "waiting")
    /\ jobs' = [jobs EXCEPT ![j].state = "active",
                            ![j].attemptsMade = IF CountsStart THEN @ + 1 ELSE @]
    /\ UNCHANGED <<status, isProcessing, firing>>

\* The handler has returned
Return(j, success) == [jobs[j] EXCEPT !.state = "completed", !.success = success]

\* (mutant: attempts are counted from one)
WillRetryShort(j) == jobs[j].attemptsMade < MAX_RETRY_ATTEMPTS - 2

WillRetry(j) == jobs[j].attemptsMade < MAX_RETRY_ATTEMPTS - 1

\* (mutant: an error is not an attempt)
ThrowUncounted(j) ==
    [jobs[j] EXCEPT !.state = "waiting", !.found = {},
                    !.attemptsMade = IF CountsStart THEN @ - 1 ELSE @]

\* The catch: what is thrown on is BullMQ's to retry
Throw(j) ==
    LET made == jobs[j].attemptsMade + (IF CountsStart THEN 0 ELSE 1)
        job == [jobs[j] EXCEPT !.errors = @ + 1, !.found = {}]
    IN
    IF WillRetry(j)
    THEN [job EXCEPT !.state = IF made < job.attempts THEN "waiting" ELSE "failed",
                     !.attemptsMade = made]
    ELSE [job EXCEPT !.state = "completed"]

Ends(j, outcomes) ==
    /\ jobs' \in {[jobs EXCEPT ![j] = job] : job \in outcomes}
    /\ UNCHANGED <<isProcessing, firing>>

DbErrors(j) == IF DbFails THEN {Throw(j)} ELSE {}

\* handleTaskCreated: it does not see the row of an open transaction.  (The
\* priority it would set is never missing.)
HandleTaskCreated(j) ==
    /\ Named(j, "task-created")
    /\ LET seen == status[jobs[j].taskId] \in {"OPEN", "COMPLETED"}
       IN Ends(j, {IF seen THEN Return(j, TRUE) ELSE Throw(j)} \cup DbErrors(j))
    /\ UNCHANGED status

Report(j, name) ==
    /\ Named(j, name)
    /\ Ends(j, {Return(j, TRUE)} \cup DbErrors(j))
    /\ UNCHANGED status

\* What it writes is at most updatedAt
HandleTaskStatusUpdate(j) == Report(j, "task-status-updated")

\* What it finds is only counted
HandleLegacyOverdueTasks(j) == Report(j, "overdue-tasks-notification")

\* handleCleanupCompletedTasks: those completed that nobody updated for long
HandleCleanupCompletedTasks(j) ==
    /\ Named(j, "cleanup-completed-tasks")
    /\ \/ \E old \in SUBSET {t \in Tasks : status[t] = "COMPLETED"} :
             /\ status' = [t \in Tasks |-> IF t \in old THEN "GONE" ELSE status[t]]
             /\ Ends(j, {Return(j, TRUE)})
       \/ /\ DbFails
          /\ Ends(j, {Throw(j)})
          /\ UNCHANGED status

\* No handler knows the name: the job is not tried again
HandleUnknown(j) ==
    /\ Named(j, "review-stale-tasks")
    /\ Ends(j, {Return(j, FALSE)})
    /\ UNCHANGED status

\* take: batchSize, order: { dueDate: 'ASC' }
FirstOf(S) == {t \in S : Cardinality({u \in S : u < t}) < BatchSize}

\* handleOverdueTasks, up to Promise.allSettled
FindOverdue(j) ==
    /\ Named(j, "process-overdue-tasks")
    /\ Ends(j, {[jobs[j] EXCEPT !.state = "processing", !.found = FirstOf(Overdue)]}
               \cup DbErrors(j))
    /\ UNCHANGED status

\* metrics.tasksFailed++
Note(job) == [job EXCEPT !.tasksFailed = TRUE]

RestOf(j, t) == [jobs[j] EXCEPT !.found = @ \ {t}]

\* processOverdueTask: nothing but updatedAt is written
ProcessOverdueTask(j, t) ==
    /\ Is(j, "processing")
    /\ t \in jobs[j].found
    /\ Ends(j, {RestOf(j, t)})
    /\ UNCHANGED status

FailOverdueTask(j, t) ==
    /\ DbFails
    /\ Is(j, "processing")
    /\ t \in jobs[j].found
    /\ Ends(j, {Note(RestOf(j, t))})
    /\ UNCHANGED status

\* All have settled, whether or not one was rejected
ReturnProcessed(j) ==
    /\ Is(j, "processing")
    /\ jobs[j].found = {}
    /\ Ends(j, {Return(j, TRUE)})
    /\ UNCHANGED status

WorkElsewhere(j) ==
    \/ HandleTaskCreated(j)
    \/ HandleTaskStatusUpdate(j)
    \/ HandleLegacyOverdueTasks(j)
    \/ HandleCleanupCompletedTasks(j)
    \/ HandleUnknown(j)
    \/ FindOverdue(j)
    \/ \E t \in Tasks : FailOverdueTask(j, t)
    \/ ReturnProcessed(j)

Work(j) == WorkElsewhere(j) \/ \E t \in Tasks : ProcessOverdueTask(j, t)

-----------------------------------------------------------------------------
(* Around them. *)

\* TasksService.create, up to its commit
CreateTask(t) ==
    /\ status[t] = "UNBORN"
    /\ status' = [status EXCEPT ![t] = "UNCOMMITTED"]
    /\ AddOrNot(NewJob("task-created", t, 3))
    /\ UNCHANGED <<isProcessing, firing>>

\* Its commit, or its rollback
EndCreate(t) ==
    /\ status[t] = "UNCOMMITTED"
    /\ \E s \in {"OPEN", "GONE"} : status' = [status EXCEPT ![t] = s]
    /\ UNCHANGED <<jobs, isProcessing, firing>>

\* TasksService.update of a status ("OPEN" stands for both that are open);
\* batchProcess adds no job
UpdateTask(t) ==
    /\ status[t] \in {"OPEN", "COMPLETED"}
    /\ \E s \in {"OPEN", "COMPLETED"} :
          /\ "OPEN" \in {s, status[t]}
          /\ status' = [status EXCEPT ![t] = s]
    /\ AddOrNot(NewJob("task-status-updated", Null, 3)) \/ UNCHANGED jobs
    /\ UNCHANGED <<isProcessing, firing>>

\* TasksService.remove
RemoveTask(t) ==
    /\ status[t] \in {"OPEN", "COMPLETED"}
    /\ status' = [status EXCEPT ![t] = "GONE"]
    /\ UNCHANGED <<jobs, isProcessing, firing>>

\* What BullMQ does with a job whose worker is gone
Stalled(job) ==
    IF job = Null \/ job.state \notin {"active", "processing"} THEN job
    ELSE [job EXCEPT !.stalls = @ + 1, !.found = {}, !.tasksFailed = FALSE,
                     !.state = IF job.stalls < MaxStalled THEN "waiting" ELSE "failed"]

\* The process stops and starts again
Crash ==
    /\ Crashes
    /\ jobs' = [j \in JobIds |-> Stalled(jobs[j])]
    /\ isProcessing' = FALSE
    /\ firing' = [f \in Firings |-> Rest]
    /\ UNCHANGED status

\* All but what decides which tasks a pass processes
Elsewhere ==
    \/ CheckOverdueTasks
    \/ AddCleanup
    \/ HandleStaleTasksCheck
    \/ TriggerOverdueProcessing
    \/ \E f \in Firings : Fire(f)
    \/ \E j \in JobIds : Start(j)
    \/ \E j \in JobIds : WorkElsewhere(j)
    \/ \E t \in Tasks : CreateTask(t)
    \/ \E t \in Tasks : EndCreate(t)
    \/ \E t \in Tasks : UpdateTask(t)
    \/ \E t \in Tasks : RemoveTask(t)
    \/ Crash

Next ==
    \/ \E f \in Firings : Count(f)
    \/ \E f \in Firings : AddBatch(f)
    \/ \E j \in JobIds : \E t \in Tasks : ProcessOverdueTask(j, t)
    \/ Elsewhere

Spec == Init /\ [][Next]_vars

\* What is awaited settles, and the queue hands out what waits
Fairness ==
    /\ \A f \in Firings : WF_vars(Count(f)) /\ WF_vars(AddBatch(f))
    /\ \A j \in JobIds : WF_vars(Start(j)) /\ WF_vars(Work(j))

FairSpec == Spec /\ Fairness

-----------------------------------------------------------------------------
(* Properties. *)

\* overdue-tasks.service.ts:30-35: however the hourly runs and the awaits of the
\* pass interleave, one pass at a time counts and adds batches, and the flag is
\* set exactly as long: never left behind by an error, never reset under a pass.
OnePassAtATime ==
    /\ \A f, g \in Firings : ~At(f, "idle") /\ ~At(g, "idle") => f = g
    /\ isProcessing <=> \E f \in Firings : ~At(f, "idle")

Over(j) == Is(j, "completed") \/ Is(j, "failed")

\* A job that a handler knows is over without success, and not because its
\* worker stopped under it too often
GivenUp(j) ==
    /\ Over(j)
    /\ ~jobs[j].success
    /\ jobs[j].name # "review-stale-tasks"
    /\ jobs[j].stalls <= MaxStalled

\* task-processor.service.ts:103-110: the worker's own limit and BullMQ's agree.
\* A job is given up only after as many errors as it was given attempts
\* ("failed permanently after 3 attempts", line 108).
EveryAttemptUsed ==
    \A j \in JobIds : GivenUp(j) => jobs[j].errors = jobs[j].attempts

\* However attemptsMade counts, and whatever errors, stops and repetitions came
\* together, at most one of the runs that a job was given is not made.
AllButOneUsed ==
    \A j \in JobIds : GivenUp(j) => jobs[j].errors + jobs[j].stalls + 1 >= jobs[j].attempts

\* Every job that was added ends, whatever fails.
EveryJobEnds == \A j \in JobIds : Is(j, "waiting") ~> Over(j)

\* Every pass ends, and the next hourly run is not skipped for ever.
EveryPassEnds == isProcessing ~> ~isProcessing

=============================================================================
