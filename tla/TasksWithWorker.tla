--------------------------- MODULE TasksWithWorker ---------------------------
(***************************************************************************)
(* The tasks module and the worker of                                      *)
(* src/queues/task-processor/task-processor.service.ts over one table, one *)
(* cache and one queue: requests add jobs from inside their transactions,  *)
(* and the handlers read, touch, change or delete the same rows and        *)
(* invalidate the same cache.  (A job 'task-status-update' is a call of    *)
(* updateStatus, which TasksService has already.)                          *)
(*                                                                         *)
(* The cache may fail: its commands are not executed, or not answered, and *)
(* the tier changes.  The history "left" says which entries an             *)
(* invalidation was to remove and has left.                                *)
(*                                                                         *)
(* Whether a job is tried again is the subject of TaskJobs: here one that  *)
(* throws waits again or is given up.  Which tasks are overdue, or were    *)
(* completed long ago, is left open.  A statement on several rows waits    *)
(* until all of them are free.                                             *)
(***************************************************************************)
EXTENDS TasksService

CONSTANTS
    JobIds,    \* bound: the jobs that fit in the queue, fewer than a worker's 5
    OtherJobs  \* what the cron adds, or other releases have left in the queue

VARIABLES
    jobs,
    left   \* history: the entries left by an invalidation, and not stored anew since

JobNames == {"task-created", "task-status-updated", "batch-task-update",
             "process-overdue-tasks", "cleanup-completed-tasks"}

WorkerJob ==
    [name: JobNames, ids: SUBSET TaskIds, users: SUBSET Users, patch: Patches,
     completes: BOOLEAN,                 \* newStatus === COMPLETED
     adder: Reqs \cup {Null},            \* history: the request that added it, until it ends
     pc: {"waiting", "find", "touch", "update", "delete", "invalidate"},
     todo: SUBSET TaskIds,               \* rows still to be touched
     stage: [Users -> {"none", "stats", "lists", "del"}], \* where invalidateUserCaches is
     listed: [Users -> SUBSET CacheKeys]]                 \* what KEYS returned

varsTogether == <<vars, jobs, left>>

NobodysStage == [u \in Users |-> "none"]

NothingListed == [u \in Users |-> {}]

NewJob(name, ids, users) ==
    [name |-> name, ids |-> ids, users |-> users, patch |-> NoPatch, completes |-> FALSE,
     adder |-> Null, pc |-> "waiting", todo |-> {}, stage |-> NobodysStage,
     listed |-> NothingListed]

AnyOverdue == NewJob("process-overdue-tasks", {}, {})
AnyCleanup == NewJob("cleanup-completed-tasks", {}, {})
BatchUpdate(u, ids, patch) == [NewJob("batch-task-update", ids, {u}) EXCEPT !.patch = patch]

ASSUME QueueAssumption ==
    /\ OtherJobs \subseteq {AnyOverdue, AnyCleanup}
                           \cup {BatchUpdate(u, ids, patch) :
                                    u \in Users, ids \in SUBSET TaskIds, patch \in Patches}
    /\ Null \notin WorkerJob \cup Reqs

\* What Enqueue of r adds
JobOf(r, job) ==
    [NewJob(job.name, {job.taskId}, {User(r)}) EXCEPT
        !.completes = (job.newStatus = "COMPLETED"), !.adder = r]

Free == {j \in JobIds : jobs[j] = Null}

Put(job) ==
    \E j \in Free : /\ \A i \in Free : j <= i
                    /\ jobs' = [jobs EXCEPT ![j] = job]

InitTogether == Init /\ jobs = [j \in JobIds |-> Null] /\ left = {}

-----------------------------------------------------------------------------
(* Handlers, up to their invalidation. *)

In(j, pc) == jobs[j] # Null /\ jobs[j].pc = pc

Finds(j, name) == In(j, "find") /\ jobs[j].name = name

Becomes(j, job) == jobs' = [jobs EXCEPT ![j] = job]

Invalidating(job) ==
    [job EXCEPT !.pc = "invalidate", !.todo = {},
                !.stage = [u \in Users |-> IF u \in job.users THEN "stats" ELSE "none"]]

\* (mutant: a completing status update does not touch the row any more)
StartedWithoutTouch(job) ==
    CASE job.name = "task-status-updated" -> Invalidating(job)
      [] job.name = "cleanup-completed-tasks" -> [job EXCEPT !.pc = "delete"]
      [] OTHER -> [job EXCEPT !.pc = "find"]

\* Where the handler of a job begins
Started(job) ==
    CASE job.name = "task-status-updated" /\ job.completes ->
            [job EXCEPT !.pc = "touch", !.todo = job.ids]
      [] job.name = "task-status-updated" /\ ~job.completes -> Invalidating(job)
      [] job.name = "cleanup-completed-tasks" -> [job EXCEPT !.pc = "delete"]
      [] OTHER -> [job EXCEPT !.pc = "find"]

\* BullMQ hands the job to the worker
Process(j) ==
    /\ In(j, "waiting")
    /\ Becomes(j, Started(jobs[j]))
    /\ UNCHANGED <<rows, writes, req, cacheVars>>

Again(job) ==
    [job EXCEPT !.pc = "waiting", !.todo = {}, !.stage = NobodysStage, !.listed = NothingListed]

\* The handler throws
Throws(j) == \E job \in {Again(jobs[j]), Null} : Becomes(j, job)

\* A statement of the handler fails.  (One that fails for an overdue task is
\* caught, and like one that does nothing)
HandlerError(j) ==
    /\ DbFails
    /\ In(j, "find") \/ In(j, "touch") \/ In(j, "update") \/ In(j, "delete")
    /\ Throws(j)
    /\ UNCHANGED <<rows, writes, req, cacheVars>>

FoundFor(job) == {id \in job.ids : IsRow(rows[id]) /\ rows[id].userId \in job.users}

\* handleTaskCreated: findOne does not see the row of an open transaction
HandleTaskCreated(j) ==
    /\ Finds(j, "task-created")
    /\ IF FoundFor(jobs[j]) = {} THEN Throws(j) ELSE Becomes(j, Invalidating(jobs[j]))
    /\ UNCHANGED <<rows, writes, req, cacheVars>>

\* (mutant: the caches to invalidate are looked for under the tasks' ids)
FindOverdueForTasks(j) ==
    /\ Finds(j, "process-overdue-tasks")
    /\ \E found \in SUBSET {id \in TaskIds : IsRow(rows[id]) /\ rows[id].status # "COMPLETED"} :
          Becomes(j, IF found = {} THEN Null
                     ELSE [jobs[j] EXCEPT !.pc = "touch", !.todo = found, !.users = found])
    /\ UNCHANGED <<rows, writes, req, cacheVars>>

\* handleOverdueTasks: find, and the owners of what it found
FindOverdue(j) ==
    /\ Finds(j, "process-overdue-tasks")
    /\ \E found \in SUBSET {id \in TaskIds : IsRow(rows[id]) /\ rows[id].status # "COMPLETED"} :
          Becomes(j, IF found = {} THEN Null
                     ELSE [jobs[j] EXCEPT !.pc = "touch", !.todo = found,
                                          !.users = {rows[id].userId : id \in found}])
    /\ UNCHANGED <<rows, writes, req, cacheVars>>

FreeRow(id) == \A r \in Reqs : writes[r][id] = Null

\* UPDATE of updatedAt, by handleTaskStatusUpdate or processOverdueTask
Touch(j, id) ==
    /\ In(j, "touch")
    /\ id \in jobs[j].todo
    /\ FreeRow(id)
    /\ LET job == [jobs[j] EXCEPT !.todo = @ \ {id}]
       IN Becomes(j, IF job.todo = {} THEN Invalidating(job) ELSE job)
    /\ UNCHANGED <<rows, writes, req, cacheVars>>

\* handleBatchTaskUpdate: one that is missing is an error
FindBatch(j) ==
    /\ Finds(j, "batch-task-update")
    /\ IF FoundFor(jobs[j]) = jobs[j].ids
       THEN Becomes(j, [jobs[j] EXCEPT !.pc = "update"])
       ELSE Throws(j)
    /\ UNCHANGED <<rows, writes, req, cacheVars>>

\* Its UPDATE, of those that are still there
UpdateBatch(j) ==
    /\ In(j, "update")
    /\ \A id \in FoundFor(jobs[j]) : FreeRow(id)
    /\ rows' = [id \in TaskIds |-> IF id \in FoundFor(jobs[j])
                                   THEN Patched(rows[id], jobs[j].patch) ELSE rows[id]]
    /\ Becomes(j, Invalidating(jobs[j]))
    /\ UNCHANGED <<writes, req, cacheVars>>

\* handleCleanupCompletedTasks: it invalidates nothing
HandleCleanupCompletedTasks(j) ==
    /\ In(j, "delete")
    /\ \E old \in SUBSET {id \in TaskIds : IsRow(rows[id]) /\ rows[id].status = "COMPLETED"} :
          /\ \A id \in old : FreeRow(id)
          /\ rows' = [id \in TaskIds |-> IF id \in old THEN Deleted ELSE rows[id]]
    /\ Becomes(j, Null)
    /\ UNCHANGED <<writes, req, cacheVars>>

-----------------------------------------------------------------------------
(* invalidateUserCaches of the worker, for several users at once. *)

AtStage(j, u, stage) == In(j, "invalidate") /\ jobs[j].stage[u] = stage

\* The user's invalidation goes on, or the job is done with the last one
Proceed(j, u, stage, listed) ==
    LET job == [jobs[j] EXCEPT !.stage[u] = stage, !.listed[u] = listed]
    IN Becomes(j, IF job.stage = NobodysStage THEN Null ELSE job)

WorkerInvalidatesStats(j, u) ==
    /\ AtStage(j, u, "stats")
    /\ \E deleted \in BOOLEAN : Cache!Delete(StatsKey(u), deleted)
    /\ Proceed(j, u, "lists", {})
    /\ UNCHANGED <<rows, writes, req>>

WorkerInvalidatesLists(j, u) ==
    /\ AtStage(j, u, "lists")
    /\ \/ \E listed \in {{}, ListKeys(u) \cap Cache!Held(redis)}, ok \in BOOLEAN :
             /\ Cache!Scan(ListKeys(u), listed, ok)
             /\ Proceed(j, u, IF listed = {} THEN "none" ELSE "del", listed)
       \/ Cache!Sweep(Containing(u)) /\ Proceed(j, u, "none", {})
    /\ UNCHANGED <<rows, writes, req>>

WorkerDeletesLists(j, u) ==
    /\ AtStage(j, u, "del")
    /\ \E ok \in BOOLEAN : Cache!DelInRedis(jobs[j].listed[u], ok)
    /\ Proceed(j, u, "none", {})
    /\ UNCHANGED <<rows, writes, req>>

InvalidateByWorker(j, u) ==
    \/ WorkerInvalidatesStats(j, u)
    \/ WorkerInvalidatesLists(j, u)
    \/ WorkerDeletesLists(j, u)

-----------------------------------------------------------------------------
(* Together. *)

\* The cron, or another release of the service
AddOther(job) == Put(job) /\ UNCHANGED <<rows, writes, req, cacheVars>>

\* Enqueue, with the queue it adds to
EnqueueTogether(r) ==
    /\ Enqueue(r)
    /\ IF req'[r].job = NoJob THEN UNCHANGED jobs ELSE Put(JobOf(r, req'[r].job))

\* The requests that have ended by now have added nothing in an open transaction
Closing(js) ==
    [j \in JobIds |-> IF js[j] # Null /\ js[j].adder # Null /\ req'[js[j].adder].pc = "idle"
                      THEN [js[j] EXCEPT !.adder = Null] ELSE js[j]]

\* The process stops: its active jobs are run again, or have stalled too often
RestartTogether ==
    /\ Restart
    /\ \E given \in SUBSET {j \in JobIds : jobs[j] # Null /\ jobs[j].pc # "waiting"} :
          jobs' = Closing([j \in JobIds |-> IF jobs[j] = Null \/ j \in given THEN Null
                                            ELSE Again(jobs[j])])

\* History: a handler that changes rows of the user's is under way, which overlaps as
\* a writing request does
Changing(u) ==
    {j \in JobIds : /\ jobs[j] # Null
                    /\ jobs[j].name = "batch-task-update"
                    /\ jobs[j].pc # "waiting"
                    /\ u \in jobs[j].users}

\* What commits before it invalidates, so that a restart can come between the two
CommittedFirst(u) == Changing(u) # {} \/ \E r \in Active(u) : Op(r) = "updateStatus"

ContendedTogether(u) ==
    \/ Contended(u)
    \/ Changing(u) # {} /\ Active(u) # {}

\* Restarts interrupt users, and a cleanup deletes their tasks without invalidating
SettledTogether(u) == Settled(u) /\ Changing(u) = {}

Watching(excused) ==
    /\ troubled' = [u \in Users |->
          (troubled[u] \/ ContendedTogether(u)' \/ u \in excused) /\ ~SettledTogether(u)']
    /\ edited' = [u \in Users |-> IF SettledTogether(u)' \/ troubled'[u] THEN {}
                                  ELSE edited[u] \cup EditedNow(u)]

Cleaned == {rows[id].userId : id \in {i \in TaskIds : IsRow(rows[i]) /\ rows'[i] = Deleted}}

Entries == {"redis", "fallback"} \X CacheKeys

Stored(e) == IF e[1] = "redis" THEN redis[e[2]] ELSE fallback[e[2]]

\* What an invalidation of the keys has left, and what others have and nobody replaced,
\* of users who are not troubled
NoteLeft(keys) ==
    left' = {e \in Entries :
                /\ ~troubled'[e[2].user]
                /\ \/ e \in left /\ UNCHANGED Stored(e)
                   \/ e[2] \in keys /\ Stored(e)' # Null}

\* What the awaits of invalidateUserCache that end with this step were to remove
Targets(r) ==
    IF At(r, "stats") THEN {StatsKey(Owner(r))}
    ELSE IF At(r, "lists") /\ At(r, "del")' THEN {}
    ELSE ListKeys(Owner(r))

\* ... and those of the worker's invalidateUserCaches
WorkerTargets(j, u) ==
    IF AtStage(j, u, "stats") THEN {StatsKey(u)}
    ELSE IF AtStage(j, u, "lists") /\ AtStage(j, u, "del")' THEN {}
    ELSE ListKeys(u)

Quietly == Watching({}) /\ NoteLeft({})

Alone == jobs' = Closing(jobs) /\ Watching({})

NextTogether ==
    \/ \E r \in Reqs, c \in Calls : Begin(r, c) /\ Alone /\ NoteLeft({})
    \/ \E r \in Reqs : Invalidate(r) /\ Alone /\ NoteLeft(Targets(r))
    \/ \E r \in Reqs : StepElsewhere(r) /\ Alone /\ NoteLeft({})
    \/ \E r \in Reqs : EnqueueTogether(r) /\ Quietly
    \/ \E r \in Reqs : DbError(r) /\ Alone /\ NoteLeft({})
    \/ RestartTogether /\ Watching({u \in Users : CommittedFirst(u)}) /\ NoteLeft({})
    \/ CacheEvent /\ Alone /\ NoteLeft({})
    \/ \E job \in OtherJobs : AddOther(job) /\ Quietly
    \/ \E j \in JobIds : Process(j) /\ Quietly
    \/ \E j \in JobIds : HandlerError(j) /\ Quietly
    \/ \E j \in JobIds : HandleTaskCreated(j) /\ Quietly
    \/ \E j \in JobIds : FindOverdue(j) /\ Quietly
    \/ \E j \in JobIds, id \in TaskIds : Touch(j, id) /\ Quietly
    \/ \E j \in JobIds : FindBatch(j) /\ Quietly
    \/ \E j \in JobIds : UpdateBatch(j) /\ Quietly
    \/ \E j \in JobIds : HandleCleanupCompletedTasks(j) /\ Watching(Cleaned) /\ NoteLeft({})
    \/ \E j \in JobIds, u \in Users :
          InvalidateByWorker(j, u) /\ Watching({}) /\ NoteLeft(WorkerTargets(j, u))

SpecTogether == InitTogether /\ [][NextTogether]_varsTogether

-----------------------------------------------------------------------------
(* Properties. *)

TypeOKTogether ==
    /\ TypeOK
    /\ jobs \in [JobIds -> WorkerJob \cup {Null}]
    /\ left \subseteq Entries

\* task-processor.service.ts:126-157, 191-204: the invalidation inside a
\* transaction can be undone by a reader before its COMMIT; that of the job the
\* transaction added comes after it has ended, when the job is of a creation or a
\* completion and the transaction has written something: findOne does not see the
\* open one, UPDATE waits for it.
RepairsAfterCommit ==
    \A j \in JobIds :
        /\ In(j, "invalidate")
        /\ jobs[j].name = "task-created" \/ jobs[j].completes
        => jobs[j].adder = Null \/ writes[jobs[j].adder] = NoWrites

\* tasks.service.ts:36-264, 342-425 beside task-processor.service.ts:369-450: the calls
\* that write stay atomic among handlers that change and delete the same rows outside any
\* transaction.  No call has part of its effect before its COMMIT, none leaves out a row
\* that has been there all along; and of a handler, no statement brings a row back.
ByHandler ==
    /\ \E j \in JobIds : In(j, "update") \/ In(j, "delete")
    /\ TheBoard!Elsewhere
    /\ UNCHANGED req

TakesEffectAmongHandlers ==
    TheBoard!Init /\ [][TheBoard!Next \/ ByHandler]_(TheBoard!vars)

Disagrees(k, u) == TierInUse[k] \notin MayShow(k, u)

\* tasks.service.ts:433-445, task-processor.service.ts:452-461 and
\* cache.service.ts:241-267, 495-519: whatever commands fail, lose their answers
\* or meet the other tier, and whenever the process stops, each half of each
\* invalidation is attempted, by requests and handlers alike.  An entry of a user
\* whose requests and handlers did not overlap is wrong only if an invalidation
\* came to it and left it, or a cleanup deleted a task of the user's; or in the title,
\* description or due date of a task that an update changed together with nothing else,
\* for which no invalidation ever comes (tasks.service.ts:213-219).
StaleOnlyIfLeft ==
    \A u \in Users : ~troubled[u] /\ Active(u) = {} /\ Changing(u) = {} =>
        \A k \in KeysOf(u) :
            Disagrees(k, u) => <<IF isRedisAvailable THEN "redis" ELSE "fallback", k>> \in left

=============================================================================
