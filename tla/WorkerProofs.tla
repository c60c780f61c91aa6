---------------------------- MODULE WorkerProofs ----------------------------
(***************************************************************************)
(* Proofs about requests and worker together, over a cache whose commands  *)
(* fail or lose their answers, whose tier changes and whose process stops: *)
(* for any users, tasks, requests, filters and jobs.                       *)
(***************************************************************************)
EXTENDS TasksWithWorker, CoherenceProofs

-----------------------------------------------------------------------------
(* The inductive invariant: jobs. *)

\* A job that an open transaction has added: a creation's waits until findOne sees the
\* row, a completion's until UPDATE gets it, if the transaction has written it
Added(job) ==
    job # Null /\ job.adder # Null =>
        /\ job.adder \in Reqs
        /\ At(job.adder, "commit")
        /\ job.ids = req[job.adder].call.ids
        /\ \/ /\ Op(job.adder) = "create"
              /\ job.name = "task-created"
              /\ job.pc \in {"waiting", "find"}
           \/ /\ Op(job.adder) = "update"
              /\ job.name = "task-status-updated"
              /\ job.pc \in {"waiting", "touch", "invalidate"}
              /\ job.completes /\ writes[job.adder] # NoWrites =>
                    job.pc = "waiting" \/ (job.pc = "touch" /\ job.todo = job.ids)

\* Only a job that invalidates has come to a stage, and only a batch to its UPDATE
Staged(job) ==
    job # Null => /\ job.pc # "invalidate" => job.stage = NobodysStage
                  /\ job.pc = "update" => job.name = "batch-task-update"

InOrder(job) == Added(job) /\ Staged(job)

JobsInv == \A j \in JobIds : InOrder(jobs[j])

SoundTogether ==
    /\ Sound
    /\ Cache!CacheTypeOK
    /\ jobs \in [JobIds -> WorkerJob \cup {Null}]
    /\ JobsInv

-----------------------------------------------------------------------------
(* The inductive invariant: entries. *)

EntriesOf(u) == {e \in Entries : e[2] \in KeysOf(u)}

\* The keys that an invalidation under way has still to remove
ToRemove(r) ==
    {k \in KeysOf(Owner(r)) :
        At(r, "stats") \/ ((At(r, "lists") \/ At(r, "del")) /\ k # StatsKey(Owner(r)))}

ToRemoveBy(j, u) ==
    {k \in KeysOf(u) :
        \/ AtStage(j, u, "stats")
        \/ (AtStage(j, u, "lists") \/ AtStage(j, u, "del")) /\ k # StatsKey(u)}

\* Nothing is stored there, or it is what an invalidation has left
Gone(e) == Stored(e) = Null \/ e \in left

\* What the invalidation of a transaction has been over is gone, or the COMMIT will
\* change nothing
BeenOver(r) ==
    Op(r) # "updateStatus" /\ req[r].pc \in {"lists", "del", "add", "commit"} =>
        \/ At(r, "commit") /\ Harmless(r)
        \/ \A e \in EntriesOf(User(r)) : e[2] \in ToRemove(r) \/ Gone(e)

Steady(r) == ReadsNow(r) /\ FoundNow(r) /\ BeenOver(r)

\* An entry agrees with the table, or has been left, or what has changed the table
\* already will remove it
Accounted(e, u) ==
    \/ Stored(e) \in MayShow(e[2], u)
    \/ e \in left
    \/ \E r \in Active(u) : Op(r) = "updateStatus" /\ e[2] \in ToRemove(r)
    \/ \E j \in Changing(u) : e[2] \in ToRemoveBy(j, u)

Tended(u) ==
    /\ ~ContendedTogether(u)
    /\ \A r \in Active(u) : Steady(r)
    /\ \A e \in EntriesOf(u) : Accounted(e, u)

TendedUnlessTroubled == \A u \in Users : ~troubled[u] => Tended(u)

\* A step that leaves the user untroubled, and history with all edits
Recorded(u) == ~troubled'[u] /\ edited[u] \cup EditedNow(u) \subseteq edited'[u]

-----------------------------------------------------------------------------
(* Requests, as the jobs see them. *)

\* A step of one request leaves the others where they are.
LEMMA OthersKept ==
    ASSUME Sound, NEW r \in Reqs, Step(r) \/ DbError(r) \/ (\E c \in Calls : Begin(r, c)),
           NEW s \in Reqs \ {r}
    PROVE  req'[s] = req[s] /\ writes'[s] = writes[s]
<1>1. req \in [Reqs -> Request] /\ writes \in [Reqs -> [TaskIds -> Row \cup {Deleted, Null}]]
  BY DEF Sound, TableTypes
<1>2. CASE ReadCache(r) \/ QueryRows(r) \/ QueryCount(r) \/ FillCache(r)
  BY <1>1, <1>2 DEF ReadCache, QueryRows, QueryCount, FillCache, Goto, Return
<1>3. CASE FindTask(r) \/ FindTasks(r) \/ FindForStatus(r)
  BY <1>1, <1>3 DEF FindTask, FindTasks, FindForStatus, Goto, Return
<1>4. CASE Write(r)
  BY <1>1, <1>4 DEF Write
<1>5. CASE LoadForSave(r) \/ Save(r)
  <2>1. UNCHANGED writes
    BY <1>5 DEF LoadForSave, Save
  <2>2. PICK changed, label : \/ req' = [req EXCEPT ![r].changed = changed, ![r].pc = label]
                              \/ Goto(r, "stats")
    BY <1>5 DEF LoadForSave, Save
  <2> QED BY <1>1, <2>1, <2>2 DEF Goto
<1>a. CASE Reread(r)
  <2>1. UNCHANGED writes
    BY <1>a DEF Reread
  <2> DEFINE changed(id) == {f \in {"status", "priority"} : req[r].orig[f] # Sees(r, id)[f]}
             label(id) == IF changed(id) = {} THEN "commit" ELSE "stats"
  <2>2. PICK id \in req[r].call.ids :
            IF IsRow(Sees(r, id))
            THEN req' = [req EXCEPT ![r].seen = Sees(r, id), ![r].changed = changed(id),
                                    ![r].pc = label(id)]
            ELSE Return(r)
    BY <1>a DEF Reread
  <2> HIDE DEF changed, label
  <2>3. CASE IsRow(Sees(r, id))
    BY <1>1, <2>1, <2>2, <2>3
  <2>4. CASE ~IsRow(Sees(r, id))
    BY <1>1, <2>1, <2>2, <2>4 DEF Return
  <2> QED BY <2>3, <2>4
<1>6. CASE Commit(r) \/ RollBack(r)
  BY <1>1, <1>6 DEF Commit, RollBack, Return
<1>7. CASE Invalidate(r)
  BY <1>1, <1>7
     DEF Invalidate, InvalidateStats, InvalidateLists, DeleteLists, AfterInvalidation, Goto, Return
<1>8. CASE Enqueue(r)
  <2>1. UNCHANGED writes /\ \E added : req' = [req EXCEPT ![r].job = added, ![r].pc = "commit"]
    BY <1>8 DEF Enqueue
  <2> QED BY <1>1, <2>1
<1>9. ASSUME NEW c \in Calls, Begin(r, c)
      PROVE  req'[s] = req[s] /\ writes'[s] = writes[s]
  <2>1. UNCHANGED writes /\ \E q : req' = [req EXCEPT ![r] = q]
    BY <1>9 DEF Begin
  <2> QED BY <1>1, <2>1
<1> QED BY <1>2, <1>3, <1>4, <1>5, <1>6, <1>7, <1>8, <1>9, <1>a
        DEF Step, StepElsewhere, DeadlockAbort, DbError

\* A transaction that is about to commit stays so, or ends.
LEMMA CommitsOrEnds ==
    ASSUME Sound, Acts, NEW s \in Reqs, At(s, "commit")
    PROVE  (req'[s] = req[s] /\ writes'[s] = writes[s]) \/ req'[s].pc = "idle"
<1>1. CASE Restart
  BY <1>1, IdleRequest DEF Restart
<1>2. CASE CacheEvent
  BY <1>2 DEF CacheEvent
<1>3. ASSUME NEW r \in Reqs, Step(r) \/ DbError(r) \/ (\E c \in Calls : Begin(r, c)), r # s
      PROVE  req'[s] = req[s] /\ writes'[s] = writes[s]
  BY <1>3, OthersKept
<1>4. CASE Step(s) \/ DbError(s) \/ (\E c \in Calls : Begin(s, c))
  <2>1. Commit(s) \/ RollBack(s)
    BY <1>4 DEF At, Step, StepElsewhere, DbError, DeadlockAbort, Begin, ReadCache, QueryRows, QueryCount,
                FillCache, FindTask, FindTasks, FindForStatus, LoadForSave, Write, Save, Reread,
                Invalidate, InvalidateStats, InvalidateLists, DeleteLists, Enqueue
  <2>2. Return(s) /\ req \in [Reqs -> Request]
    BY <2>1 DEF Commit, RollBack, Sound, TableTypes
  <2> QED BY <2>2, IdleRequest DEF Return
<1> QED BY <1>1, <1>2, <1>3, <1>4 DEF Acts

-----------------------------------------------------------------------------
(* Jobs. *)

\* A job in the queue is a record; so is one that waits again, or invalidates.
LEMMA JobRecord ==
    ASSUME NEW job \in WorkerJob
    PROVE  /\ job # Null
           /\ Again(job) \in WorkerJob
           /\ Again(job).pc = "waiting"
           /\ Again(job).stage = NobodysStage
           /\ Again(job).name = job.name
           /\ Again(job).ids = job.ids
           /\ Again(job).completes = job.completes
           /\ Again(job).adder = job.adder
           /\ Invalidating(job) \in WorkerJob
           /\ Invalidating(job).pc = "invalidate"
           /\ Invalidating(job).stage = [u \in Users |-> IF u \in job.users THEN "stats" ELSE "none"]
           /\ Invalidating(job).name = job.name
           /\ Invalidating(job).ids = job.ids
           /\ Invalidating(job).users = job.users
           /\ Invalidating(job).completes = job.completes
           /\ Invalidating(job).adder = job.adder
<1>1. job # Null
  BY QueueAssumption
<1>2. NobodysStage \in [Users -> {"none", "stats", "lists", "del"}]
  BY DEF NobodysStage
<1>3. NothingListed \in [Users -> SUBSET CacheKeys]
  BY DEF NothingListed
<1>4. [u \in Users |-> IF u \in job.users THEN "stats" ELSE "none"]
          \in [Users -> {"none", "stats", "lists", "del"}]
  OBVIOUS
<1> QED BY <1>1, <1>2, <1>3, <1>4 DEF WorkerJob, Again, Invalidating

\* What a new job is.
LEMMA JobNew ==
    ASSUME NEW name \in JobNames, NEW ids \in SUBSET TaskIds, NEW users \in SUBSET Users
    PROVE  /\ NewJob(name, ids, users) \in WorkerJob
           /\ NewJob(name, ids, users).name = name
           /\ NewJob(name, ids, users).ids = ids
           /\ NewJob(name, ids, users).adder = Null
           /\ NewJob(name, ids, users).pc = "waiting"
           /\ NewJob(name, ids, users).stage = NobodysStage
<1>1. NobodysStage \in [Users -> {"none", "stats", "lists", "del"}]
  BY DEF NobodysStage
<1>2. NothingListed \in [Users -> SUBSET CacheKeys]
  BY DEF NothingListed
<1> QED BY <1>1, <1>2, EmptyPatch DEF NewJob, WorkerJob

\* What the cron, or another release, has added.
LEMMA JobOther ==
    ASSUME NEW job \in OtherJobs
    PROVE  job \in WorkerJob /\ job.adder = Null /\ job.pc = "waiting" /\ job.stage = NobodysStage
<1>1. CASE job \in {AnyOverdue, AnyCleanup}
  BY <1>1, JobNew DEF AnyOverdue, AnyCleanup, JobNames
<1>2. ASSUME NEW u \in Users, NEW ids \in SUBSET TaskIds, NEW patch \in Patches,
             job = BatchUpdate(u, ids, patch)
      PROVE  job \in WorkerJob /\ job.adder = Null /\ job.pc = "waiting" /\ job.stage = NobodysStage
  <2> DEFINE new == NewJob("batch-task-update", ids, {u})
  <2>1. new \in WorkerJob /\ new.adder = Null /\ new.pc = "waiting" /\ new.stage = NobodysStage
    BY JobNew DEF JobNames
  <2> HIDE DEF new
  <2>2. job = [new EXCEPT !.patch = patch]
    BY <1>2 DEF BatchUpdate, new
  <2> QED BY <2>1, <2>2 DEF WorkerJob
<1> QED BY <1>1, <1>2, QueueAssumption

\* What an open transaction adds.
LEMMA JobAdded ==
    ASSUME NEW r \in Reqs, NEW job \in Job, User(r) \in Users
    PROVE  /\ JobOf(r, job) \in WorkerJob
           /\ JobOf(r, job).name = job.name
           /\ JobOf(r, job).ids = {job.taskId}
           /\ JobOf(r, job).adder = r
           /\ JobOf(r, job).pc = "waiting"
           /\ JobOf(r, job).stage = NobodysStage
<1> DEFINE new == NewJob(job.name, {job.taskId}, {User(r)})
<1>1. /\ new \in WorkerJob
      /\ new.name = job.name
      /\ new.ids = {job.taskId}
      /\ new.pc = "waiting"
      /\ new.stage = NobodysStage
  BY JobNew DEF Job, JobNames
<1> HIDE DEF new
<1>2. JobOf(r, job) = [new EXCEPT !.completes = (job.newStatus = "COMPLETED"), !.adder = r]
  BY DEF JobOf, new
<1> QED BY <1>1, <1>2 DEF WorkerJob

\* One job changes, or comes or goes, while the requests stand still.
LEMMA Becoming ==
    ASSUME SoundTogether, NEW j \in JobIds, NEW job \in WorkerJob \cup {Null},
           Becomes(j, job), UNCHANGED <<writes, req>>, InOrder(job)
    PROVE  jobs' \in [JobIds -> WorkerJob \cup {Null}] /\ JobsInv'
<1>1. jobs' \in [JobIds -> WorkerJob \cup {Null}]
  BY DEF SoundTogether, Becomes
<1>2. \A i \in JobIds : jobs'[i] = IF i = j THEN job ELSE jobs[i]
  BY DEF SoundTogether, Becomes
<1>3. \A i \in JobIds : InOrder(jobs[i])
  BY DEF SoundTogether, JobsInv
<1>4. \A i \in JobIds : InOrder(jobs[i])'
  BY <1>2, <1>3 DEF InOrder, Added, Staged, At, Op
<1> QED BY <1>1, <1>4 DEF JobsInv

\* The handler that throws.
LEMMA Throwing ==
    ASSUME SoundTogether, NEW j \in JobIds, jobs[j] # Null, Throws(j), UNCHANGED <<writes, req>>
    PROVE  jobs' \in [JobIds -> WorkerJob \cup {Null}] /\ JobsInv'
<1>1. jobs[j] \in WorkerJob /\ InOrder(jobs[j])
  BY DEF SoundTogether, JobsInv
<1>2. InOrder(Again(jobs[j])) /\ InOrder(Null)
  BY <1>1, JobRecord DEF InOrder, Added, Staged
<1> QED BY <1>1, <1>2, JobRecord, Becoming DEF Throws

\* A handler of a job that no open transaction has added goes on.
LEMMA HandlesOn ==
    ASSUME SoundTogether, NEW j \in JobIds, jobs[j] # Null, jobs[j].adder = Null,
           NEW job \in WorkerJob, Becomes(j, job), UNCHANGED <<writes, req>>,
           job.adder = Null, job.pc = "invalidate" \/ job.stage = NobodysStage,
           job.pc = "update" => job.name = "batch-task-update"
    PROVE  jobs' \in [JobIds -> WorkerJob \cup {Null}] /\ JobsInv'
<1>1. InOrder(job)
  BY DEF InOrder, Added, Staged
<1> QED BY <1>1, Becoming

\* BullMQ hands a job to the worker.
LEMMA ProcessStep ==
    ASSUME SoundTogether, NEW j \in JobIds, Process(j)
    PROVE  jobs' \in [JobIds -> WorkerJob \cup {Null}] /\ JobsInv'
<1> DEFINE job == jobs[j]
<1>1. /\ job \in WorkerJob
      /\ job.pc = "waiting"
      /\ InOrder(job)
      /\ Becomes(j, Started(job))
      /\ UNCHANGED <<writes, req>>
  BY DEF Process, In, SoundTogether, JobsInv
<1>2. job.stage = NobodysStage /\ job # Null
  BY <1>1, JobRecord DEF InOrder, Staged
<1> HIDE DEF job
<1>3. Started(job) \in WorkerJob /\ InOrder(Started(job))
  <2>1. CASE job.name = "task-status-updated" /\ job.completes
    <3> DEFINE new == [job EXCEPT !.pc = "touch", !.todo = job.ids]
    <3>1. /\ new \in WorkerJob
          /\ new.pc = "touch"
          /\ new.todo = job.ids
          /\ new.stage = job.stage
          /\ new.name = job.name
          /\ new.ids = job.ids
          /\ new.completes = job.completes
          /\ new.adder = job.adder
      BY <1>1 DEF WorkerJob
    <3>2. Started(job) = new
      BY <2>1 DEF Started
    <3> HIDE DEF new
    <3>3. InOrder(new)
      BY <1>1, <1>2, <2>1, <3>1 DEF InOrder, Added, Staged
    <3> QED BY <3>1, <3>2, <3>3
  <2>2. CASE job.name = "task-status-updated" /\ ~job.completes
    <3>1. Started(job) = Invalidating(job)
      BY <2>2 DEF Started
    <3> DEFINE new == Invalidating(job)
    <3>2. /\ new \in WorkerJob
          /\ new.pc = "invalidate"
          /\ new.name = job.name
          /\ new.ids = job.ids
          /\ new.completes = job.completes
          /\ new.adder = job.adder
      BY <1>1, JobRecord
    <3> HIDE DEF new
    <3>3. InOrder(new)
      BY <1>1, <1>2, <2>2, <3>2 DEF InOrder, Added, Staged
    <3> QED BY <3>1, <3>2, <3>3 DEF new
  <2>3. ASSUME NEW label \in {"find", "delete"}, Started(job) = [job EXCEPT !.pc = label],
               label = "delete" => job.name = "cleanup-completed-tasks",
               job.name # "task-status-updated"
        PROVE  Started(job) \in WorkerJob /\ InOrder(Started(job))
    <3> DEFINE new == [job EXCEPT !.pc = label]
    <3>1. /\ new \in WorkerJob
          /\ new.pc = label
          /\ new.stage = job.stage
          /\ new.name = job.name
          /\ new.ids = job.ids
          /\ new.completes = job.completes
          /\ new.adder = job.adder
      BY <1>1 DEF WorkerJob
    <3> HIDE DEF new
    <3>2. InOrder(new)
      BY <1>1, <1>2, <2>3, <3>1 DEF InOrder, Added, Staged
    <3> QED BY <2>3, <3>1, <3>2 DEF new
  <2>4. CASE job.name = "cleanup-completed-tasks"
    BY <2>3, <2>4 DEF Started
  <2>5. CASE job.name \notin {"task-status-updated", "cleanup-completed-tasks"}
    BY <2>3, <2>5 DEF Started
  <2>6. job.completes \in BOOLEAN
    BY <1>1 DEF WorkerJob
  <2> QED BY <2>1, <2>2, <2>4, <2>5, <2>6
<1> QED BY <1>1, <1>3, Becoming

\* The job of a creation under way does not find its task.
LEMMA NotYetThere ==
    ASSUME SoundTogether, NEW j \in JobIds, Finds(j, "task-created"), FoundFor(jobs[j]) # {}
    PROVE  jobs[j].adder = Null
<1> SUFFICES ASSUME jobs[j].adder # Null
             PROVE  FALSE
  OBVIOUS
<1> DEFINE r == jobs[j].adder
<1>1. r \in Reqs /\ At(r, "commit") /\ jobs[j].ids = req[r].call.ids /\ Op(r) = "create"
  BY DEF Finds, In, SoundTogether, JobsInv, InOrder, Added
<1> HIDE DEF r
<1>2. req[r].call.ids \in SUBSET TaskIds
  BY <1>1, Known DEF SoundTogether, At, ReadLabels
<1>3. \A id \in req[r].call.ids : rows[id] = Unborn
  BY <1>1, <1>2 DEF SoundTogether, Sound, TableInv, Fresh, Creates, Op
<1> QED BY <1>1, <1>3, MarkersAssumption DEF FoundFor, IsRow

\* The job of a completion under way does not get its row, if the transaction has
\* written it.
LEMMA NotYetFree ==
    ASSUME SoundTogether, NEW j \in JobIds, NEW id \in TaskIds, Touch(j, id), jobs[j].adder # Null
    PROVE  /\ jobs[j].name = "task-status-updated"
           /\ Op(jobs[j].adder) = "update"
           /\ jobs[j].completes => writes[jobs[j].adder] = NoWrites
<1> DEFINE r == jobs[j].adder
<1>1. jobs[j] # Null /\ jobs[j].pc = "touch" /\ id \in jobs[j].todo /\ FreeRow(id)
  BY DEF Touch, In
<1>2. /\ r \in Reqs
      /\ At(r, "commit")
      /\ jobs[j].ids = req[r].call.ids
      /\ Op(r) = "update"
      /\ jobs[j].name = "task-status-updated"
      /\ jobs[j].completes /\ writes[r] # NoWrites => jobs[j].todo = jobs[j].ids
  BY <1>1 DEF SoundTogether, JobsInv, InOrder, Added
<1> HIDE DEF r
<1>3. ASSUME id \in req[r].call.ids
      PROVE  writes[r] = NoWrites
  <2>1. /\ WellFormed(req[r], writes[r])
        /\ writes[r] \in [TaskIds -> Row \cup {Deleted, Null}]
        /\ \E i \in TaskIds : req[r].call.ids = {i}
    BY <1>2, Known DEF SoundTogether, ReadLabels, SingleOps, At, Op
  <2>2. \A i \in TaskIds : i # id => writes[r][i] = Null
    BY <1>3, <2>1 DEF WellFormed
  <2>3. writes[r][id] = Null
    BY <1>1, <1>2 DEF FreeRow
  <2> QED BY <2>1, <2>2, <2>3 DEF NoWrites
<1> QED BY <1>1, <1>2, <1>3 DEF r

\* The other steps of handlers before they invalidate.
LEMMA HandlerSteps ==
    ASSUME SoundTogether, NEW j \in JobIds,
           \/ HandlerError(j) \/ HandleTaskCreated(j) \/ FindOverdue(j)
           \/ (\E id \in TaskIds : Touch(j, id)) \/ FindBatch(j)
    PROVE  jobs' \in [JobIds -> WorkerJob \cup {Null}] /\ JobsInv'
<1> DEFINE job == jobs[j]
<1>1. job \in WorkerJob /\ InOrder(job) /\ UNCHANGED <<writes, req>> /\ job # Null /\ job.pc # "invalidate"
  BY JobRecord
     DEF HandlerError, HandleTaskCreated, FindOverdue, Touch, FindBatch, Finds, In, SoundTogether, JobsInv
<1>2. job.stage = NobodysStage
  BY <1>1 DEF InOrder, Staged
<1>3. CASE Throws(j)
  BY <1>1, <1>3, Throwing
<1>4. CASE HandleTaskCreated(j) /\ ~Throws(j)
  <2>1. job.adder = Null /\ Becomes(j, Invalidating(job))
    BY <1>4, NotYetThere DEF HandleTaskCreated
  <2> QED BY <1>1, <2>1, JobRecord, HandlesOn
<1>5. CASE FindOverdue(j)
  <2>1. job.adder = Null
    BY <1>1, <1>5 DEF FindOverdue, Finds, InOrder, Added
  <2>2. PICK found \in SUBSET {id \in TaskIds : IsRow(rows[id]) /\ rows[id].status # "COMPLETED"} :
            Becomes(j, IF found = {} THEN Null
                       ELSE [job EXCEPT !.pc = "touch", !.todo = found,
                                        !.users = {rows[id].userId : id \in found}])
    BY <1>5 DEF FindOverdue
  <2>3. CASE found = {}
    BY <1>1, <2>2, <2>3, Becoming DEF InOrder, Added, Staged
  <2>4. CASE found # {}
    <3> DEFINE owners == {rows[id].userId : id \in found}
               new == [job EXCEPT !.pc = "touch", !.todo = found, !.users = owners]
    <3>1. owners \subseteq Users
      BY <2>2 DEF IsRow, Row
    <3> HIDE DEF owners
    <3>2. /\ new \in WorkerJob
          /\ new.pc = "touch"
          /\ new.adder = job.adder
          /\ new.stage = job.stage
      BY <1>1, <2>2, <3>1 DEF WorkerJob
    <3>3. Becomes(j, new)
      BY <2>2, <2>4 DEF owners
    <3> HIDE DEF new
    <3> QED BY <1>1, <1>2, <2>1, <3>2, <3>3, HandlesOn
  <2> QED BY <2>3, <2>4
<1>6. ASSUME NEW id \in TaskIds, Touch(j, id)
      PROVE  jobs' \in [JobIds -> WorkerJob \cup {Null}] /\ JobsInv'
  <2> DEFINE rest == [job EXCEPT !.todo = @ \ {id}]
             new == IF rest.todo = {} THEN Invalidating(rest) ELSE rest
  <2>1. Becomes(j, new) /\ job.pc = "touch"
    BY <1>6 DEF Touch, In
  <2>2. /\ rest \in WorkerJob
        /\ rest.pc = "touch"
        /\ rest.stage = job.stage
        /\ rest.name = job.name
        /\ rest.ids = job.ids
        /\ rest.completes = job.completes
        /\ rest.adder = job.adder
    BY <1>1, <2>1 DEF WorkerJob
  <2> HIDE DEF rest
  <2>3. /\ new \in WorkerJob
        /\ new # Null
        /\ new.pc \in {"touch", "invalidate"}
        /\ new.pc = "touch" => new.stage = job.stage
        /\ new.name = job.name
        /\ new.ids = job.ids
        /\ new.completes = job.completes
        /\ new.adder = job.adder
    <3>1. CASE rest.todo = {}
      BY <2>2, <3>1, JobRecord
    <3>2. CASE rest.todo # {}
      BY <2>2, <3>2, JobRecord
    <3> QED BY <3>1, <3>2
  <2> HIDE DEF new
  <2>4. Staged(new)
    BY <1>2, <2>3 DEF Staged
  <2>5. Added(new)
    <3>1. CASE job.adder = Null
      BY <2>3, <3>1 DEF Added
    <3>2. CASE job.adder # Null
      <4>1. /\ job.name = "task-status-updated"
            /\ Op(job.adder) = "update"
            /\ job.completes => writes[job.adder] = NoWrites
        BY <1>6, <3>2, NotYetFree
      <4>2. /\ job.adder \in Reqs
            /\ At(job.adder, "commit")
            /\ job.ids = req[job.adder].call.ids
        BY <1>1, <3>2 DEF InOrder, Added
      <4> HIDE DEF job
      <4> QED BY <2>3, <4>1, <4>2 DEF Added
    <3> QED BY <3>1, <3>2
  <2> QED BY <1>1, <2>1, <2>3, <2>4, <2>5, Becoming DEF InOrder
<1>7. CASE FindBatch(j) /\ ~Throws(j)
  <2>1. job.adder = Null
    BY <1>1, <1>7 DEF FindBatch, Finds, InOrder, Added
  <2> DEFINE new == [job EXCEPT !.pc = "update"]
  <2>2. Becomes(j, new)
    BY <1>7 DEF FindBatch
  <2>3. /\ new \in WorkerJob
        /\ new.name = "batch-task-update"
        /\ new.adder = job.adder
        /\ new.stage = job.stage
    BY <1>1, <1>7 DEF WorkerJob, FindBatch, Finds
  <2> HIDE DEF new
  <2> QED BY <1>1, <1>2, <2>1, <2>2, <2>3, HandlesOn
<1> QED BY <1>3, <1>4, <1>5, <1>6, <1>7 DEF HandlerError

\* A step of an invalidation by the worker.
LEMMA ProceedStep ==
    ASSUME SoundTogether, NEW j \in JobIds, NEW u \in Users, In(j, "invalidate"),
           NEW stage \in {"none", "stats", "lists", "del"}, NEW listed \in SUBSET CacheKeys,
           Proceed(j, u, stage, listed), UNCHANGED <<writes, req>>
    PROVE  jobs' \in [JobIds -> WorkerJob \cup {Null}] /\ JobsInv'
<1> DEFINE job == [jobs[j] EXCEPT !.stage[u] = stage, !.listed[u] = listed]
<1>1. jobs[j] \in WorkerJob /\ InOrder(jobs[j]) /\ jobs[j].pc = "invalidate"
  BY JobRecord DEF In, SoundTogether, JobsInv
<1>2. /\ job \in WorkerJob
      /\ job.adder = jobs[j].adder
      /\ job.pc = jobs[j].pc
      /\ job.name = jobs[j].name
      /\ job.ids = jobs[j].ids
      /\ job.completes = jobs[j].completes
  BY <1>1 DEF WorkerJob
<1>3. Becomes(j, IF job.stage = NobodysStage THEN Null ELSE job)
  BY DEF Proceed
<1> HIDE DEF job
<1>4. InOrder(job) /\ InOrder(Null)
  BY <1>1, <1>2, JobRecord DEF InOrder, Added, Staged
<1> QED BY <1>2, <1>3, <1>4, Becoming

\* The requests move: the jobs of those that have ended are nobody's.
LEMMA ClosingStep ==
    ASSUME SoundTogether, jobs' = Closing(jobs),
           \A s \in Reqs : At(s, "commit") =>
               (req'[s] = req[s] /\ writes'[s] = writes[s]) \/ req'[s].pc = "idle"
    PROVE  jobs' \in [JobIds -> WorkerJob \cup {Null}] /\ JobsInv'
<1>1. ASSUME NEW j \in JobIds
      PROVE  jobs'[j] \in WorkerJob \cup {Null} /\ InOrder(jobs[j])'
  <2> DEFINE job == jobs[j]
  <2>1. job \in WorkerJob \cup {Null} /\ InOrder(job)
    BY DEF SoundTogether, JobsInv
  <2>2. CASE job = Null
    BY <2>2 DEF Closing, InOrder, Added, Staged
  <2>3. CASE job # Null /\ job.adder = Null
    BY <2>1, <2>3 DEF Closing, InOrder, Added, Staged
  <2>4. CASE job # Null /\ job.adder # Null /\ req'[job.adder].pc = "idle"
    <3> DEFINE new == [job EXCEPT !.adder = Null]
    <3>1. jobs'[j] = new
      BY <2>4 DEF Closing
    <3>2. /\ new \in WorkerJob
          /\ new.adder = Null
          /\ new.pc = job.pc
          /\ new.stage = job.stage
      BY <2>1, <2>4 DEF WorkerJob
    <3> HIDE DEF new
    <3> QED BY <2>1, <2>4, <3>1, <3>2 DEF InOrder, Added, Staged
  <2>5. CASE job # Null /\ job.adder # Null /\ req'[job.adder].pc # "idle"
    <3>1. jobs'[j] = job
      BY <2>5 DEF Closing
    <3>2. /\ job.adder \in Reqs
          /\ At(job.adder, "commit")
          /\ req'[job.adder] = req[job.adder]
          /\ writes'[job.adder] = writes[job.adder]
      BY <2>1, <2>5 DEF InOrder, Added
    <3> HIDE DEF job
    <3> QED BY <2>1, <3>1, <3>2 DEF InOrder, Added, Staged, At, Op
  <2> QED BY <2>2, <2>3, <2>4, <2>5
<1>2. jobs' = [j \in JobIds |-> jobs'[j]]
  BY DEF Closing
<1> QED BY <1>1, <1>2 DEF JobsInv

\* A job comes into the queue.
LEMMA PutStep ==
    ASSUME SoundTogether, NEW job \in WorkerJob, Put(job), InOrder(job)',
           UNCHANGED writes, \A s \in Reqs : At(s, "commit") => req'[s] = req[s]
    PROVE  jobs' \in [JobIds -> WorkerJob \cup {Null}] /\ JobsInv'
<1>1. PICK j \in JobIds : jobs' = [jobs EXCEPT ![j] = job]
  BY DEF Put, Free
<1>2. jobs' \in [JobIds -> WorkerJob \cup {Null}]
  BY <1>1 DEF SoundTogether
<1>3. \A i \in JobIds : jobs'[i] = IF i = j THEN job ELSE jobs[i]
  BY <1>1 DEF SoundTogether
<1>4. ASSUME NEW i \in JobIds
      PROVE  InOrder(jobs[i])'
  <2>1. CASE i = j
    BY <1>3, <2>1 DEF InOrder, Added, Staged, At, Op
  <2>2. CASE i # j
    <3>1. jobs'[i] = jobs[i] /\ InOrder(jobs[i])
      BY <1>3, <2>2 DEF SoundTogether, JobsInv
    <3> QED BY <3>1 DEF InOrder, Added, Staged, At, Op
  <2> QED BY <2>1, <2>2
<1> QED BY <1>2, <1>4 DEF JobsInv

\* The cron, or another release, adds a job.
LEMMA AddStep ==
    ASSUME SoundTogether, NEW job \in OtherJobs, AddOther(job)
    PROVE  jobs' \in [JobIds -> WorkerJob \cup {Null}] /\ JobsInv'
<1>1. InOrder(job)'
  BY JobOther DEF InOrder, Added, Staged
<1> QED BY <1>1, JobOther, PutStep DEF AddOther

\* A transaction adds a job, or fails to.
LEMMA EnqueuesTogether ==
    ASSUME SoundTogether, NEW r \in Reqs, EnqueueTogether(r)
    PROVE  jobs' \in [JobIds -> WorkerJob \cup {Null}] /\ JobsInv'
<1>1. /\ At(r, "add")
      /\ Sound
      /\ Sound'
      /\ req \in [Reqs -> Request]
  BY EnqueueStep DEF EnqueueTogether, Enqueue, SoundTogether, Sound, TableTypes
<1>2. /\ req[r].call \in Calls
      /\ Op(r) \in {"create", "update"}
      /\ \E i \in TaskIds : req[r].call.ids = {i}
  BY <1>1, Known DEF WellFormed, ReadLabels, SingleOps, At, Op
<1>3. User(r) \in Users
  BY <1>2, CallShape DEF Op, User
<1> DEFINE jobFor(id) ==
               [name |-> IF Op(r) = "create" THEN "task-created" ELSE "task-status-updated",
                taskId |-> id,
                oldStatus |-> IF Op(r) = "create" THEN Null ELSE req[r].orig.status,
                newStatus |-> NewStatus(r)]
<1>a. \A id : /\ jobFor(id).taskId = id
              /\ jobFor(id).name = IF Op(r) = "create" THEN "task-created"
                                   ELSE "task-status-updated"
  OBVIOUS
<1>b. PICK id \in req[r].call.ids :
          \E added \in {jobFor(id), NoJob} :
              req' = [req EXCEPT ![r].job = added, ![r].pc = "commit"]
  BY DEF EnqueueTogether, Enqueue
<1>4. PICK added \in {jobFor(id), NoJob} :
          req' = [req EXCEPT ![r].job = added, ![r].pc = "commit"]
  BY <1>b
<1> HIDE DEF jobFor
<1>5. /\ req'[r].call = req[r].call
      /\ req'[r].pc = "commit"
      /\ req'[r].job = added
      /\ \A s \in Reqs \ {r} : req'[s] = req[s]
      /\ added \in Job \cup {NoJob}
  <2>1. req[r] \in Request /\ req'[r] \in Request
    BY <1>1 DEF Sound, TableTypes
  <2>2. /\ req'[r].call = req[r].call
        /\ req'[r].pc = "commit"
        /\ req'[r].job = added
        /\ \A s \in Reqs \ {r} : req'[s] = req[s]
    BY <1>1, <1>4, <2>1 DEF Request
  <2> QED BY <2>1, <2>2 DEF Request
<1>6. UNCHANGED writes /\ \A s \in Reqs : At(s, "commit") => req'[s] = req[s]
  BY <1>1, <1>5 DEF At, EnqueueTogether, Enqueue
<1>7. CASE added = NoJob
  <2>1. jobs' = jobs
    BY <1>5, <1>7 DEF EnqueueTogether
  <2>2. \A i \in JobIds : InOrder(jobs[i])
    BY DEF SoundTogether, JobsInv
  <2>3. \A i \in JobIds : InOrder(jobs[i])'
    BY <1>6, <2>1, <2>2 DEF InOrder, Added, Staged, At, Op
  <2> QED BY <2>1, <2>3 DEF SoundTogether, JobsInv
<1>8. CASE added # NoJob
  <2>1. added \in Job /\ Put(JobOf(r, added))
    BY <1>5, <1>8 DEF EnqueueTogether
  <2>2. /\ JobOf(r, added) \in WorkerJob
        /\ JobOf(r, added).name = added.name
        /\ JobOf(r, added).ids = {added.taskId}
        /\ JobOf(r, added).adder = r
        /\ JobOf(r, added).pc = "waiting"
        /\ JobOf(r, added).stage = NobodysStage
    BY <1>3, <2>1, JobAdded
  <2>3. PICK new \in WorkerJob : new = JobOf(r, added)
    BY <2>2
  <2>a. /\ added.taskId = id
        /\ added.name = IF Op(r) = "create" THEN "task-created" ELSE "task-status-updated"
    BY <1>4, <1>8, <1>a
  <2>4. req[r].call.ids = {added.taskId}
    BY <1>2, <2>a
  <2>5. InOrder(new)'
    <3>1. /\ new.name = IF Op(r) = "create" THEN "task-created" ELSE "task-status-updated"
          /\ new.ids = req'[r].call.ids
          /\ new.adder = r
          /\ new.pc = "waiting"
          /\ new.stage = NobodysStage
      BY <1>5, <2>2, <2>3, <2>4, <2>a
    <3>2. Staged(new)'
      BY <3>1 DEF Staged
    <3>3. new.completes \in BOOLEAN
      BY DEF WorkerJob
    <3>4. /\ At(r, "commit")'
          /\ \/ Op(r)' = "create" /\ new.name = "task-created"
             \/ Op(r)' = "update" /\ new.name = "task-status-updated"
      BY <1>2, <1>5, <3>1 DEF At, Op
    <3>5. Added(new)'
      BY <3>1, <3>3, <3>4 DEF Added
    <3> QED BY <3>2, <3>5 DEF InOrder
  <2>6. Put(new)
    BY <2>1, <2>3
  <2> QED BY <1>6, <2>5, <2>6, PutStep
<1> QED BY <1>7, <1>8

\* The process stops: its active jobs wait again, and nobody's transaction is open.
LEMMA RestartsTogether ==
    ASSUME SoundTogether, RestartTogether
    PROVE  jobs' \in [JobIds -> WorkerJob \cup {Null}] /\ JobsInv'
<1>1. PICK given \in SUBSET {j \in JobIds : jobs[j] # Null /\ jobs[j].pc # "waiting"} :
          jobs' = Closing([j \in JobIds |-> IF jobs[j] = Null \/ j \in given THEN Null
                                            ELSE Again(jobs[j])])
  BY DEF RestartTogether
<1>2. \A s \in Reqs : req'[s].pc = "idle"
  BY IdleRequest DEF RestartTogether, Restart
<1>3. ASSUME NEW j \in JobIds
      PROVE  jobs'[j] \in WorkerJob \cup {Null} /\ InOrder(jobs[j])'
  <2> DEFINE job == Again(jobs[j])
  <2>1. jobs[j] \in WorkerJob \cup {Null} /\ InOrder(jobs[j])
    BY DEF SoundTogether, JobsInv
  <2>2. CASE jobs[j] = Null \/ j \in given
    <3>1. jobs'[j] = Null
      BY <1>1, <2>2 DEF Closing
    <3> QED BY <3>1 DEF InOrder, Added, Staged
  <2>3. CASE ~(jobs[j] = Null \/ j \in given)
    <3>1. /\ job \in WorkerJob
          /\ job # Null
          /\ job.pc = "waiting"
          /\ job.stage = NobodysStage
          /\ job.adder = Null \/ job.adder \in Reqs
      BY <2>1, <2>3, JobRecord DEF WorkerJob
    <3>2. jobs'[j] = IF job.adder # Null /\ req'[job.adder].pc = "idle"
                     THEN [job EXCEPT !.adder = Null] ELSE job
      BY <1>1, <2>3, <3>1 DEF Closing
    <3> HIDE DEF job
    <3>3. CASE job.adder = Null
      BY <3>1, <3>2, <3>3 DEF InOrder, Added, Staged
    <3>4. CASE job.adder # Null
      <4>1. jobs'[j] = [job EXCEPT !.adder = Null]
        BY <1>2, <3>1, <3>2, <3>4
      <4>2. /\ jobs'[j] \in WorkerJob
            /\ jobs'[j].pc = "waiting"
            /\ jobs'[j].adder = Null
            /\ jobs'[j].stage = NobodysStage
        BY <3>1, <4>1 DEF WorkerJob
      <4> QED BY <4>2 DEF InOrder, Added, Staged
    <3> QED BY <3>3, <3>4
  <2> QED BY <2>2, <2>3
<1>4. jobs' = [j \in JobIds |-> jobs'[j]]
  BY <1>1 DEF Closing
<1> QED BY <1>3, <1>4 DEF JobsInv

-----------------------------------------------------------------------------
(* The table under the worker's statements. *)

\* A statement of the worker's that waits for its rows, and keeps their owners.
LEMMA WorkerWrites ==
    ASSUME Sound, UNCHANGED <<writes, req>>,
           rows' \in [TaskIds -> Row \cup {Unborn, Deleted}],
           \A id \in TaskIds :
               \/ rows'[id] = rows[id]
               \/ /\ FreeRow(id)
                  /\ IsRow(rows[id])
                  /\ rows'[id] = Deleted \/ (IsRow(rows'[id]) /\ rows'[id].userId = rows[id].userId)
    PROVE  Sound'
<1>1. TableTypes' /\ Shape'
  BY DEF Sound, TableTypes, TableInv, Shape
<1>2. \A id \in TaskIds : IsRow(rows[id]) => rows[id] # Unborn /\ rows[id].userId \in Users
  BY MarkersAssumption DEF IsRow, Row
<1>3. Owned'
  <2>1. \A id \in TaskIds :
            \/ rows'[id] = rows[id]
            \/ rows[id] # Unborn /\ rows'[id] = Deleted
            \/ /\ rows[id] # Unborn
               /\ IsRow(rows'[id])
               /\ rows'[id].userId \in Users
               /\ IsRow(rows[id]) /\ rows[id].userId = rows'[id].userId
    BY <1>2
  <2>2. Owned /\ \A r \in Reqs, id \in TaskIds, u \in Users :
            CountsOn(req'[r], id, u) => CountsOn(req[r], id, u)
    BY DEF Sound, TableInv
  <2> QED BY <2>1, <2>2, OwnedKept
<1>4. Fresh'
  <2>1. \A id \in TaskIds : rows[id] = Unborn => rows'[id] = Unborn
    BY <1>2
  <2> QED BY <2>1 DEF Sound, TableInv, Fresh
<1>5. NoLostUpdate'
  <2>1. \A r \in Reqs, id \in TaskIds : writes[r][id] # Null => rows'[id] = rows[id]
    BY DEF FreeRow
  <2> QED BY <2>1 DEF Sound, TableInv, NoLostUpdate, Unlocked, Op, User
<1> QED BY <1>1, <1>3, <1>4, <1>5 DEF Sound, TableInv

\* handleBatchTaskUpdate: it changes rows of the job's users only, and none that a
\* transaction has written.
LEMMA BatchRows ==
    ASSUME SoundTogether, NEW j \in JobIds, UpdateBatch(j), NEW id \in TaskIds
    PROVE  \/ rows'[id] = rows[id]
           \/ /\ FreeRow(id)
              /\ IsRow(rows[id])
              /\ IsRow(rows'[id])
              /\ rows'[id].userId = rows[id].userId
              /\ rows[id].userId \in jobs[j].users
<1>1. CASE id \notin FoundFor(jobs[j])
  BY <1>1 DEF UpdateBatch
<1>2. CASE id \in FoundFor(jobs[j])
  <2>1. IsRow(rows[id]) /\ rows[id].userId \in jobs[j].users /\ FreeRow(id)
    BY <1>2 DEF UpdateBatch, FoundFor
  <2>2. rows'[id] = Patched(rows[id], jobs[j].patch)
    BY <1>2 DEF UpdateBatch
  <2>3. jobs[j].patch \in Patches
    BY DEF UpdateBatch, In, SoundTogether, WorkerJob
  <2> QED BY <2>1, <2>2, <2>3, PatchedRow DEF IsRow
<1> QED BY <1>1, <1>2

\* A batch has written, and invalidates.
LEMMA UpdateBatchStep ==
    ASSUME SoundTogether, NEW j \in JobIds, UpdateBatch(j)
    PROVE  Sound' /\ jobs' \in [JobIds -> WorkerJob \cup {Null}] /\ JobsInv'
<1>1. /\ Sound
      /\ UNCHANGED <<writes, req>>
      /\ rows' = [id \in TaskIds |-> rows'[id]]
      /\ jobs[j] # Null
      /\ jobs[j].pc = "update"
      /\ Becomes(j, Invalidating(jobs[j]))
  BY DEF UpdateBatch, SoundTogether, In
<1>2. \A id \in TaskIds : rows[id] \in Row \cup {Unborn, Deleted}
  BY <1>1 DEF Sound, TableTypes
<1>3. \A id \in TaskIds : rows'[id] \in Row \cup {Unborn, Deleted}
  BY <1>2, BatchRows DEF IsRow
<1>4. rows' \in [TaskIds -> Row \cup {Unborn, Deleted}]
  BY <1>1, <1>3
<1>5. Sound'
  BY <1>1, <1>4, BatchRows, WorkerWrites
<1>6. jobs[j] \in WorkerJob /\ jobs[j].adder = Null
  BY <1>1 DEF SoundTogether, JobsInv, InOrder, Added
<1> QED BY <1>1, <1>5, <1>6, JobRecord, HandlesOn

\* handleCleanupCompletedTasks: it deletes rows that no transaction has written.
LEMMA CleanupRows ==
    ASSUME SoundTogether, NEW j \in JobIds, HandleCleanupCompletedTasks(j), NEW id \in TaskIds
    PROVE  \/ rows'[id] = rows[id]
           \/ FreeRow(id) /\ IsRow(rows[id]) /\ rows'[id] = Deleted
BY DEF HandleCleanupCompletedTasks

\* A cleanup has deleted, and is done.
LEMMA CleanupStep ==
    ASSUME SoundTogether, NEW j \in JobIds, HandleCleanupCompletedTasks(j)
    PROVE  Sound' /\ jobs' \in [JobIds -> WorkerJob \cup {Null}] /\ JobsInv'
<1>1. /\ Sound
      /\ UNCHANGED <<writes, req>>
      /\ rows' = [id \in TaskIds |-> rows'[id]]
      /\ Becomes(j, Null)
  BY DEF HandleCleanupCompletedTasks, SoundTogether
<1>2. \A id \in TaskIds : rows[id] \in Row \cup {Unborn, Deleted}
  BY <1>1 DEF Sound, TableTypes
<1>3. rows' \in [TaskIds -> Row \cup {Unborn, Deleted}]
  BY <1>1, <1>2, CleanupRows
<1>4. Sound'
  BY <1>1, <1>3, CleanupRows, WorkerWrites
<1> QED BY <1>1, <1>4, Becoming DEF InOrder, Added, Staged

-----------------------------------------------------------------------------
(* Types, and what a transaction counts on. *)

\* The steps of invalidateUserCaches, one of its users at a time.
LEMMA WorkerProceeds ==
    ASSUME NEW j \in JobIds, NEW u \in Users, InvalidateByWorker(j, u)
    PROVE  \E stage \in {"none", "stats", "lists", "del"}, listed \in SUBSET CacheKeys :
               /\ Proceed(j, u, stage, listed)
               /\ \/ jobs[j].stage[u] = "stats" /\ stage = "lists"
                  \/ jobs[j].stage[u] = "lists" /\ stage \in {"none", "del"}
                  \/ jobs[j].stage[u] = "del" /\ stage = "none"
<1>1. CASE WorkerInvalidatesStats(j, u)
  BY <1>1 DEF WorkerInvalidatesStats, AtStage
<1>2. CASE WorkerInvalidatesLists(j, u)
  <2>0. jobs[j].stage[u] = "lists"
    BY <1>2 DEF WorkerInvalidatesLists, AtStage
  <2>1. ListKeys(u) \subseteq CacheKeys
    BY DEF ListKeys, KeysOf
  <2>2. CASE Proceed(j, u, "none", {})
    BY <2>0, <2>2
  <2>3. ASSUME NEW listed \in {{}, ListKeys(u) \cap Cache!Held(redis)},
               Proceed(j, u, IF listed = {} THEN "none" ELSE "del", listed)
        PROVE  \E stage \in {"none", "del"}, keys \in SUBSET CacheKeys : Proceed(j, u, stage, keys)
    BY <2>1, <2>3
  <2>4. \E stage \in {"none", "del"}, keys \in SUBSET CacheKeys : Proceed(j, u, stage, keys)
    BY <1>2, <2>2, <2>3 DEF WorkerInvalidatesLists
  <2> QED BY <2>0, <2>4
<1>3. CASE WorkerDeletesLists(j, u)
  BY <1>3 DEF WorkerDeletesLists, AtStage
<1> QED BY <1>1, <1>2, <1>3 DEF InvalidateByWorker

\* invalidateUserCaches of the worker.
LEMMA WorkerInvalidates ==
    ASSUME SoundTogether, NEW j \in JobIds, NEW u \in Users, InvalidateByWorker(j, u)
    PROVE  SoundTogether'
<1>1. In(j, "invalidate") /\ UNCHANGED <<rows, writes, req>>
  BY DEF InvalidateByWorker, WorkerInvalidatesStats, WorkerInvalidatesLists, WorkerDeletesLists,
         AtStage
<1>2. \E stage \in {"none", "stats", "lists", "del"}, listed \in SUBSET CacheKeys :
          Proceed(j, u, stage, listed)
  BY WorkerProceeds
<1>3. jobs' \in [JobIds -> WorkerJob \cup {Null}] /\ JobsInv'
  BY <1>1, <1>2, ProceedStep
<1>4. Sound'
  BY <1>1, SoundAct DEF SoundTogether
<1>5. Cache!CacheTypeOK'
  <2>1. Cache!CacheTypeOK
    BY DEF SoundTogether
  <2> QED BY <2>1, CacheDel, CacheSame
          DEF InvalidateByWorker, WorkerInvalidatesStats, WorkerInvalidatesLists,
              WorkerDeletesLists, Cache!Delete, Cache!Scan, Cache!cacheVars, cacheVars
<1> QED BY <1>3, <1>4, <1>5 DEF SoundTogether

\* A step of the requests, or of the cache by itself, in a queue that only notes who has ended.
LEMMA RequestsAct ==
    ASSUME SoundTogether, Acts, jobs' = Closing(jobs)
    PROVE  SoundTogether'
<1>1. Sound' /\ Cache!CacheTypeOK'
  BY SoundAct, CacheAct DEF SoundTogether
<1>2. \A s \in Reqs : At(s, "commit") =>
          (req'[s] = req[s] /\ writes'[s] = writes[s]) \/ req'[s].pc = "idle"
  BY CommitsOrEnds DEF SoundTogether
<1> QED BY <1>1, <1>2, ClosingStep DEF SoundTogether

\* What a step of NextTogether does, whatever the history makes of it.
ActsTogether ==
    \/ Acts /\ jobs' = Closing(jobs)
    \/ \E r \in Reqs : EnqueueTogether(r)
    \/ RestartTogether
    \/ \E job \in OtherJobs : AddOther(job)
    \/ \E j \in JobIds :
           \/ Process(j) \/ HandlerError(j) \/ HandleTaskCreated(j) \/ FindOverdue(j)
           \/ (\E id \in TaskIds : Touch(j, id)) \/ FindBatch(j) \/ UpdateBatch(j)
           \/ HandleCleanupCompletedTasks(j)
           \/ \E u \in Users : InvalidateByWorker(j, u)

\* Every step is one of those.
LEMMA NextTogetherActs == NextTogether => ActsTogether
<1>1. ASSUME NEW r \in Reqs, NEW c \in Calls, Begin(r, c) /\ Alone
      PROVE  ActsTogether
  BY <1>1 DEF Acts, Alone, ActsTogether
<1>2. ASSUME NEW r \in Reqs, (Invalidate(r) \/ StepElsewhere(r) \/ DbError(r)) /\ Alone
      PROVE  ActsTogether
  BY <1>2 DEF Acts, Step, Alone, ActsTogether
<1>3. CASE CacheEvent /\ Alone
  BY <1>3 DEF Acts, Alone, ActsTogether
<1> QED BY <1>1, <1>2, <1>3 DEF NextTogether, ActsTogether

\* Every step keeps table, cache and jobs in order.
LEMMA SoundTogetherAct ==
    ASSUME SoundTogether, ActsTogether
    PROVE  SoundTogether'
<1>1. CASE Acts /\ jobs' = Closing(jobs)
  BY <1>1, RequestsAct
<1>2. ASSUME Acts, jobs' \in [JobIds -> WorkerJob \cup {Null}] /\ JobsInv'
      PROVE  SoundTogether'
  BY <1>2, SoundAct, CacheAct DEF SoundTogether
<1>3. ASSUME NEW r \in Reqs, EnqueueTogether(r)
      PROVE  SoundTogether'
  <2>1. Acts
    BY <1>3 DEF Acts, Step, EnqueueTogether
  <2> QED BY <1>2, <1>3, <2>1, EnqueuesTogether
<1>4. CASE RestartTogether
  <2>1. Acts
    BY <1>4 DEF Acts, RestartTogether
  <2> QED BY <1>2, <1>4, <2>1, RestartsTogether
<1>5. ASSUME UNCHANGED cacheVars, Sound', jobs' \in [JobIds -> WorkerJob \cup {Null}] /\ JobsInv'
      PROVE  SoundTogether'
  BY <1>5, CacheAct DEF SoundTogether
<1>6. UNCHANGED <<rows, writes, req>> => Sound'
  BY SoundAct DEF SoundTogether
<1>7. ASSUME NEW job \in OtherJobs, AddOther(job)
      PROVE  SoundTogether'
  BY <1>5, <1>6, <1>7, AddStep DEF AddOther
<1>8. ASSUME NEW j \in JobIds,
             \/ Process(j) \/ HandlerError(j) \/ HandleTaskCreated(j) \/ FindOverdue(j)
             \/ (\E id \in TaskIds : Touch(j, id)) \/ FindBatch(j)
      PROVE  SoundTogether'
  <2>1. UNCHANGED <<rows, writes, req, cacheVars>>
    BY <1>8 DEF Process, HandlerError, HandleTaskCreated, FindOverdue, Touch, FindBatch
  <2>2. jobs' \in [JobIds -> WorkerJob \cup {Null}] /\ JobsInv'
    BY <1>8, ProcessStep, HandlerSteps
  <2> QED BY <1>5, <1>6, <2>1, <2>2
<1>9. ASSUME NEW j \in JobIds, UpdateBatch(j) \/ HandleCleanupCompletedTasks(j)
      PROVE  SoundTogether'
  <2>1. UNCHANGED cacheVars
    BY <1>9 DEF UpdateBatch, HandleCleanupCompletedTasks
  <2> QED BY <1>5, <1>9, <2>1, UpdateBatchStep, CleanupStep
<1> QED BY <1>1, <1>3, <1>4, <1>7, <1>8, <1>9, WorkerInvalidates DEF ActsTogether

\* At the start there are no jobs.
LEMMA SoundTogetherInit == InitTogether => SoundTogether
<1> SUFFICES ASSUME InitTogether PROVE SoundTogether
  OBVIOUS
<1>1. Sound
  BY SoundInit DEF InitTogether
<1>2. Cache!CacheTypeOK
  BY SwitchesAssumption DEF InitTogether, Init, Cache!CacheInit, Cache!CacheTypeOK, Cache!EmptyTier
<1>3. jobs = [j \in JobIds |-> Null]
  BY DEF InitTogether
<1>4. JobsInv
  BY <1>3 DEF JobsInv, InOrder, Added, Staged
<1> QED BY <1>1, <1>2, <1>3, <1>4 DEF SoundTogether

\* So does a step that changes nothing.
LEMMA SoundTogetherNext == SoundTogether /\ [NextTogether]_varsTogether => SoundTogether'
<1> SUFFICES ASSUME SoundTogether, [NextTogether]_varsTogether PROVE SoundTogether'
  OBVIOUS
<1>1. CASE NextTogether
  BY <1>1, NextTogetherActs, SoundTogetherAct
<1>2. CASE UNCHANGED varsTogether
  <2>1. UNCHANGED <<rows, writes, req, jobs>> /\ UNCHANGED cacheVars
    BY <1>2 DEF varsTogether, vars
  <2>2. Sound' /\ Cache!CacheTypeOK'
    BY <2>1, SoundAct, CacheAct DEF SoundTogether
  <2>3. JobsInv'
    BY <2>1 DEF SoundTogether, JobsInv, InOrder, Added, Staged, At, Op
  <2> QED BY <2>1, <2>2, <2>3 DEF SoundTogether
<1> QED BY <1>1, <1>2

\* No change of a transaction is lost to the worker, nor to another transaction: what it
\* is about to commit is its call applied to the rows as they are now, whatever
\* handlers have changed or deleted meanwhile, for any users, tasks, requests and jobs.
THEOREM WorkerLosesNoUpdate == SpecTogether => []NoLostUpdate
<1>1. SoundTogether => NoLostUpdate
  BY DEF SoundTogether, Sound, TableInv
<1> QED BY <1>1, SoundTogetherInit, SoundTogetherNext, PTL DEF SpecTogether

\* What invalidations are to remove are keys of the cache.
LEMMA TargetsAreKeys ==
    ASSUME SoundTogether
    PROVE  /\ \A r \in Reqs : Invalidate(r) => Targets(r) \subseteq CacheKeys
           /\ \A j \in JobIds, u \in Users : WorkerTargets(j, u) \subseteq CacheKeys
<1>1. \A u \in Users : StatsKey(u) \in CacheKeys /\ ListKeys(u) \subseteq CacheKeys
  BY DEF StatsKey, ListKeys, KeysOf, CacheKeys
<1>2. ASSUME NEW r \in Reqs, Invalidate(r)
      PROVE  Owner(r) \in Users
  <2>1. req[r].pc \in DoneLabels
    BY <1>2 DEF Invalidate, InvalidateStats, InvalidateLists, DeleteLists, At, DoneLabels
  <2>2. /\ req[r].call \in Calls
        /\ req[r].pc \in WriteLabels
        /\ WellFormed(req[r], writes[r])
    BY <2>1, KnownDone DEF SoundTogether
  <2>3. Op(r) = "updateStatus" => req[r].orig \in Row
    BY <2>2 DEF WellFormed, Op
  <2> QED BY <2>2, <2>3, CallShape DEF Owner, Op, User, Row
<1> QED BY <1>1, <1>2 DEF Targets, WorkerTargets

\* Every variable of requests, worker, cache and queue keeps its type.
THEOREM TypesTogether == SpecTogether => []TypeOKTogether
<1> DEFINE Types == /\ SoundTogether
                    /\ troubled \in [Users -> BOOLEAN]
                    /\ edited \in [Users -> SUBSET TaskIds]
                    /\ left \subseteq Entries
<1>1. InitTogether => Types
  BY SoundTogetherInit DEF InitTogether, Init
<1>2. Types /\ [NextTogether]_varsTogether => Types'
  <2> SUFFICES ASSUME Types, [NextTogether]_varsTogether PROVE Types'
    OBVIOUS
  <2>1. SoundTogether'
    BY SoundTogetherNext
  <2>2. CASE UNCHANGED varsTogether
    BY <2>1, <2>2 DEF varsTogether, vars, Entries
  <2>3. ASSUME NEW excused, NEW keys \in SUBSET CacheKeys, Watching(excused), NoteLeft(keys)
        PROVE  Types'
    BY <2>1, <2>3 DEF Watching, EditedNow, NoteLeft, Entries
  <2> QED BY <2>2, <2>3, TargetsAreKeys DEF NextTogether, Quietly, Alone
<1>3. Types => TypeOKTogether
  BY DEF SoundTogether, Sound, TableTypes, TypeOK, TypeOKTogether
<1> HIDE DEF Types
<1> QED BY <1>1, <1>2, <1>3, PTL DEF SpecTogether

\* The job of a creation or a completion invalidates only after the transaction that
\* added it has ended, unless that has written nothing: until the COMMIT findOne does not
\* find the row of a creation, and UPDATE does not get that of a completion, however often
\* the job is tried again.
THEOREM RepairsComeAfter == SpecTogether => []RepairsAfterCommit
<1>1. SoundTogether => RepairsAfterCommit
  <2> SUFFICES ASSUME SoundTogether, NEW j \in JobIds, In(j, "invalidate"),
                      jobs[j].name = "task-created" \/ jobs[j].completes,
                      jobs[j].adder # Null
               PROVE  writes[jobs[j].adder] = NoWrites
    BY DEF RepairsAfterCommit
  <2>1. Added(jobs[j]) /\ jobs[j] # Null /\ jobs[j].pc = "invalidate"
    BY DEF SoundTogether, JobsInv, InOrder, In
  <2> QED BY <2>1 DEF Added
<1> QED BY <1>1, SoundTogetherInit, SoundTogetherNext, PTL DEF SpecTogether

-----------------------------------------------------------------------------
(* Atomic calls, among handlers that are not. *)

\* A statement of a handler is none of a call, and takes nothing from a batch but rows
\* that are gone.
LEMMA HandlersOnBoard ==
    ASSUME SoundTogether, BoardInv, NEW j \in JobIds,
           UpdateBatch(j) \/ HandleCleanupCompletedTasks(j)
    PROVE  BoardInv' /\ ByHandler
<1>1. UNCHANGED <<writes, req>> /\ (In(j, "update") \/ In(j, "delete"))
  BY DEF UpdateBatch, HandleCleanupCompletedTasks
<1>2. \A id \in TaskIds :
          \/ rows'[id] = rows[id]
          \/ IsRow(rows[id]) /\ rows'[id] = Deleted
          \/ IsRow(rows[id]) /\ IsRow(rows'[id]) /\ rows'[id].userId = rows[id].userId
  BY BatchRows, CleanupRows
<1>3. ByHandler
  BY <1>1, <1>2 DEF ByHandler, TheBoard!Elsewhere, IsRow
<1>4. ASSUME NEW r \in Reqs
      PROVE  Orderly(req[r], writes[r])' /\ Reaches(req[r], writes[r])'
  <2>1. req[r] \in Request
    BY DEF SoundTogether, Sound, TableTypes
  <2>2. Orderly(req[r], writes[r]) /\ Reaches(req[r], writes[r])
    BY DEF BoardInv
  <2> QED BY <1>1, <1>2, <2>1, <2>2, ReachesKept DEF Orderly, Reaches
<1> QED BY <1>3, <1>4 DEF BoardInv

\* Every step is one of the requests, one that the board does not see, or one of those two.
LEMMA ActsAmongHandlers ==
    ASSUME SoundTogether, [NextTogether]_varsTogether
    PROVE  \/ Acts
           \/ UNCHANGED <<rows, writes, req>>
           \/ \E j \in JobIds : UpdateBatch(j) \/ HandleCleanupCompletedTasks(j)
<1>1. CASE NextTogether
  <2>1. ActsTogether
    BY <1>1, NextTogetherActs
  <2>2. ASSUME NEW r \in Reqs, EnqueueTogether(r)
        PROVE  Acts
    BY <2>2 DEF Acts, Step, EnqueueTogether
  <2>3. RestartTogether => Acts
    BY DEF Acts, RestartTogether
  <2>4. ASSUME NEW job \in OtherJobs, AddOther(job)
        PROVE  UNCHANGED <<rows, writes, req>>
    BY <2>4 DEF AddOther
  <2>5. ASSUME NEW j \in JobIds,
               \/ Process(j) \/ HandlerError(j) \/ HandleTaskCreated(j) \/ FindOverdue(j)
               \/ (\E id \in TaskIds : Touch(j, id)) \/ FindBatch(j)
               \/ \E u \in Users : InvalidateByWorker(j, u)
        PROVE  UNCHANGED <<rows, writes, req>>
    BY <2>5 DEF Process, HandlerError, HandleTaskCreated, FindOverdue, Touch, FindBatch,
                InvalidateByWorker, WorkerInvalidatesStats, WorkerInvalidatesLists,
                WorkerDeletesLists
  <2> QED BY <2>1, <2>2, <2>3, <2>4, <2>5 DEF ActsTogether
<1>2. CASE UNCHANGED varsTogether
  BY <1>2 DEF varsTogether, vars
<1> QED BY <1>1, <1>2

\* create, update, remove and batchProcess stay atomic although handlers change and delete
\* the same rows outside of any transaction: each call takes effect as a whole at one
\* instant, on the rows as handlers have left them by then, or not at all; and what
\* handlers do to the table is to change or delete rows that are there.
THEOREM AtomicAmongHandlers ==
    ASSUME "updateStatus" \notin Ops
    PROVE  SpecTogether => TakesEffectAmongHandlers
<1>1. InitTogether => SoundTogether /\ BoardInv /\ TheBoard!Init
  BY SoundTogetherInit, BoardInit, BoardStarts DEF InitTogether
<1>2. SoundTogether /\ BoardInv /\ [NextTogether]_varsTogether => (SoundTogether /\ BoardInv)'
  BY SoundTogetherNext, ActsAmongHandlers, HandlersOnBoard, BoardAct DEF SoundTogether
<1>3. SoundTogether /\ BoardInv /\ [NextTogether]_varsTogether =>
          [TheBoard!Next \/ ByHandler]_(TheBoard!vars)
  BY ActsAmongHandlers, HandlersOnBoard, ActsOnBoard
     DEF SoundTogether, TheBoard!vars, Asked, Born
<1> QED BY <1>1, <1>2, <1>3, PTL DEF SpecTogether, TakesEffectAmongHandlers

-----------------------------------------------------------------------------
(* Entries: what a step that invalidates the keys K makes of a user's. *)

\* The step stores nothing of the user's
OnlyRemoves(u) == \A e \in EntriesOf(u) : Stored(e)' \in {Stored(e), Null}

\* The user's tasks stay as they are
SpareRows(u) == Board(u, rows') = Board(u, rows)

\* So does every row that request s of the user's knows
SpareKnown(u, s) ==
    \A id \in TaskIds :
        writes[s][id] # Null \/ (rows[id] \in Row /\ rows[id].userId = u) => rows'[id] = rows[id]

\* What status update r was to remove is among K, or it still will
StatusGoesOn(u, r, K) ==
    Op(r) = "updateStatus" =>
        \A k \in ToRemove(r) : \/ k \in K
                               \/ r \in Active(u)' /\ Op(r)' = "updateStatus" /\ k \in ToRemove(r)'

\* What a batch was to remove of the user's is among K, or it still will
BatchesGoOn(u, K) ==
    \A j \in Changing(u) : \A k \in ToRemoveBy(j, u) :
        k \in K \/ (j \in Changing(u)' /\ k \in ToRemoveBy(j, u)')

\* What the invalidation comes to is gone, removed or left.
LEMMA ComesTo ==
    ASSUME NEW u, Recorded(u), NEW K, NoteLeft(K), NEW e \in EntriesOf(u), e[2] \in K
    PROVE  Gone(e)'
BY DEF NoteLeft, Gone, Recorded, EntriesOf, KeysOf

\* What is gone stays so, unless it is stored anew.
LEMMA StaysGone ==
    ASSUME NEW u, Recorded(u), NEW K, NoteLeft(K), NEW e \in EntriesOf(u), Gone(e),
           Stored(e)' \in {Stored(e), Null}
    PROVE  Gone(e)'
BY DEF NoteLeft, Gone, Recorded, EntriesOf, KeysOf

\* What is gone needs no other account.
LEMMA GoneIsAccounted ==
    ASSUME NEW u, NEW e
    PROVE  Gone(e)' => Accounted(e, u)'
BY DEF Gone, Accounted, MayShow

\* The entries of a user whose tasks stay as they are, when the step stores none.
LEMMA StaysAccounted ==
    ASSUME NEW u, Recorded(u), NEW K, NoteLeft(K), SpareRows(u), NEW e \in EntriesOf(u),
           Accounted(e, u), Stored(e)' \in {Stored(e), Null},
           \A r \in Active(u) : StatusGoesOn(u, r, K),
           BatchesGoOn(u, K)
    PROVE  Accounted(e, u)'
<1>1. CASE Stored(e) \in MayShow(e[2], u)
  <2>1. MayShow(e[2], u) \subseteq MayShow(e[2], u)'
    BY ShowsStill DEF SpareRows, Recorded, Remembered
  <2>2. Null \in MayShow(e[2], u)'
    BY DEF MayShow
  <2> QED BY <1>1, <2>1, <2>2 DEF Accounted
<1>2. CASE e \in left
  BY <1>2, StaysGone, GoneIsAccounted DEF Gone
<1>3. CASE e[2] \in K
  BY <1>3, ComesTo, GoneIsAccounted
<1>4. ASSUME e[2] \notin K, NEW r \in Active(u), Op(r) = "updateStatus", e[2] \in ToRemove(r)
      PROVE  Accounted(e, u)'
  BY <1>4 DEF StatusGoesOn, Accounted
<1>5. ASSUME e[2] \notin K, NEW j \in Changing(u), e[2] \in ToRemoveBy(j, u)
      PROVE  Accounted(e, u)'
  BY <1>5 DEF BatchesGoOn, Accounted
<1> QED BY <1>1, <1>2, <1>3, <1>4, <1>5 DEF Accounted

\* A request of the user's that stands still.
LEMMA StandsSteady ==
    ASSUME Sound, NEW u \in Users, NEW s \in Active(u), Steady(s), NEW K, NoteLeft(K), Recorded(u),
           req'[s] = req[s], writes'[s] = writes[s], SpareRows(u), SpareKnown(u, s),
           OnlyRemoves(u) \/ Op(s) = "read"
    PROVE  Steady(s)'
<1>1. /\ s \in Reqs
      /\ req[s].pc # "idle"
      /\ req[s].call \in Calls
      /\ req[s].call.op # "updateStatus" => req[s].call.user = u
      /\ WellFormed(req[s], writes[s])
  BY ActiveOf
<1>2. ReadsNow(s)'
  BY <1>1 DEF Steady, ReadsNow, WellFormed, ReadLabels, User, SpareRows
<1>3. FoundNow(s)'
  <2>1. req[s].call.op = "update" /\ req[s].pc \in WriteLabels =>
            req[s].orig \in Row /\ req[s].orig.userId = u
    BY <1>1 DEF WellFormed, Steady, FoundNow, Op, User
  <2>2. req[s].call.ids \subseteq TaskIds
    BY <1>1, CallShape
  <2> QED BY <1>1, <2>1, <2>2 DEF Steady, FoundNow, Op, User, SpareKnown
<1>4. BeenOver(s)'
  <2>1. Harmless(s) => Harmless(s)'
    BY <1>1 DEF Harmless, SpareKnown, Op, IsRow
  <2>2. ToRemove(s)' = ToRemove(s)
    BY DEF ToRemove, Owner, Op, User, At
  <2>3. ASSUME Op(s) # "updateStatus", OnlyRemoves(u), NEW e \in EntriesOf(u), Gone(e)
        PROVE  Gone(e)'
    BY <2>3, StaysGone DEF OnlyRemoves
  <2>4. Op(s) # "updateStatus" => User(s) = u
    BY <1>1 DEF Op, User
  <2>5. CASE Op(s) = "read"
    <3>1. req[s].pc \in ReadLabels
      BY <1>1, <2>5 DEF WellFormed, Op
    <3> QED BY <3>1 DEF BeenOver, ReadLabels
  <2>6. CASE OnlyRemoves(u)
    BY <2>1, <2>2, <2>3, <2>4, <2>6 DEF Steady, BeenOver, Op, User, At
  <2> QED BY <2>5, <2>6
<1> QED BY <1>2, <1>3, <1>4 DEF Steady

\* A step of the requests or the worker that stores nothing of the user's, and spares the
\* user's tasks.
LEMMA Tends ==
    ASSUME NEW u \in Users, Tended(u), NEW K, NoteLeft(K), Recorded(u), ~ContendedTogether(u)',
           OnlyRemoves(u), SpareRows(u), BatchesGoOn(u, K),
           \A s \in Active(u)' : Steady(s)',
           \A s \in Active(u) : StatusGoesOn(u, s, K)
    PROVE  Tended(u)'
<1>1. EntriesOf(u)' = EntriesOf(u)
  BY DEF EntriesOf
<1>2. \A e \in EntriesOf(u) : Accounted(e, u)'
  BY StaysAccounted DEF Tended, OnlyRemoves
<1> QED BY <1>1, <1>2 DEF Tended

\* What the requests do leaves the jobs that are under way.
LEMMA BatchesStay ==
    ASSUME NEW u \in Users, NEW K,
           \A j \in JobIds : jobs[j] # Null /\ jobs[j].pc # "waiting" =>
               /\ jobs'[j] # Null
               /\ jobs'[j].name = jobs[j].name
               /\ jobs'[j].pc = jobs[j].pc
               /\ jobs'[j].users = jobs[j].users
               /\ jobs'[j].stage = jobs[j].stage
    PROVE  BatchesGoOn(u, K)
BY DEF BatchesGoOn, Changing, ToRemoveBy, AtStage, In

\* The jobs of the requests that have ended are nobody's: the same jobs otherwise.
LEMMA ClosingLeaves ==
    ASSUME SoundTogether, jobs' = Closing(jobs), NEW u \in Users, NEW K
    PROVE  BatchesGoOn(u, K)
<1>1. ASSUME NEW j \in JobIds, jobs[j] # Null
      PROVE  /\ jobs'[j] # Null
             /\ jobs'[j].name = jobs[j].name
             /\ jobs'[j].pc = jobs[j].pc
             /\ jobs'[j].users = jobs[j].users
             /\ jobs'[j].stage = jobs[j].stage
  <2> DEFINE job == jobs[j]
             new == [job EXCEPT !.adder = Null]
  <2>1. job \in WorkerJob
    BY <1>1 DEF SoundTogether
  <2>2. jobs'[j] \in {job, new}
    BY <1>1 DEF Closing
  <2>3. /\ new \in WorkerJob
        /\ new.name = job.name
        /\ new.pc = job.pc
        /\ new.users = job.users
        /\ new.stage = job.stage
    BY <2>1 DEF WorkerJob
  <2> HIDE DEF new
  <2>4. job # Null /\ new # Null
    BY <2>1, <2>3, QueueAssumption
  <2> QED BY <2>2, <2>3, <2>4
<1> QED BY <1>1, BatchesStay

\* A job comes into a free place.
LEMMA PutLeaves ==
    ASSUME SoundTogether, NEW job, Put(job), NEW u \in Users, NEW K
    PROVE  BatchesGoOn(u, K)
<1>1. PICK i \in JobIds : jobs[i] = Null /\ jobs' = [jobs EXCEPT ![i] = job]
  BY DEF Put, Free
<1>2. \A j \in JobIds : jobs[j] # Null => jobs'[j] = jobs[j]
  BY <1>1 DEF SoundTogether
<1> QED BY <1>2, BatchesStay

\* A step of one request, that leaves the others and the jobs under way alone.
LEMMA RequestTends ==
    ASSUME Sound, NEW u \in Users, Tended(u), NEW K, NoteLeft(K), Recorded(u),
           ~ContendedTogether(u)',
           NEW r \in Reqs,
           \A s \in Reqs \ {r} : req'[s] = req[s] /\ writes'[s] = writes[s],
           OnlyRemoves(u), SpareRows(u), BatchesGoOn(u, K),
           \A s \in Active(u) : s # r => SpareKnown(u, s),
           r \in Active(u)' => Steady(r)',
           r \in Active(u) => StatusGoesOn(u, r, K)
    PROVE  Tended(u)'
<1>1. ASSUME NEW s \in Reqs, s # r
      PROVE  s \in Active(u) <=> s \in Active(u)'
  BY <1>1 DEF Active, At, Op, User
<1>2. Active(u) \subseteq Reqs /\ Active(u)' \subseteq Reqs
  BY DEF Active
<1>3. ASSUME NEW s \in Active(u)', s # r
      PROVE  Steady(s)'
  <2>1. s \in Reqs /\ s \in Active(u) /\ req'[s] = req[s] /\ writes'[s] = writes[s]
    BY <1>1, <1>2, <1>3
  <2> QED BY <1>3, <2>1, StandsSteady DEF Tended
<1>4. ASSUME NEW s \in Active(u), s # r
      PROVE  StatusGoesOn(u, s, K)
  <2>1. s \in Reqs /\ s \in Active(u)' /\ req'[s] = req[s]
    BY <1>1, <1>2, <1>4
  <2> QED BY <2>1 DEF StatusGoesOn, ToRemove, Owner, Op, User, At
<1> QED BY <1>3, <1>4, Tends

\* A step of one of the user's requests that changes table or entries: it is the only one,
\* or all of them read, and no batch is under way.
LEMMA OwnerTends ==
    ASSUME Sound, NEW u \in Users, Tended(u), NEW K, NoteLeft(K), Recorded(u),
           ~ContendedTogether(u)',
           NEW r \in Active(u),
           \A s \in Reqs \ {r} : req'[s] = req[s] /\ writes'[s] = writes[s],
           Op(r) = "read" => rows' = rows,
           r \in Active(u)' => Steady(r)',
           \A e \in EntriesOf(u) : Accounted(e, u)'
    PROVE  Tended(u)'
<1>1. ASSUME NEW s \in Active(u)', s # r
      PROVE  Steady(s)'
  <2>1. s \in Active(u) /\ req'[s] = req[s] /\ writes'[s] = writes[s]
    BY <1>1 DEF Active, At, Op, User
  <2>2. Op(r) = "read" /\ Op(s) = "read" /\ rows' = rows
    BY <1>1, <2>1 DEF Tended, ContendedTogether, Contended
  <2>3. SpareRows(u) /\ SpareKnown(u, s)
    BY <2>2 DEF SpareRows, SpareKnown
  <2> QED BY <2>1, <2>2, <2>3, StandsSteady DEF Tended
<1>2. EntriesOf(u)' = EntriesOf(u)
  BY DEF EntriesOf
<1> QED BY <1>1, <1>2 DEF Tended

-----------------------------------------------------------------------------
(* Steps of one request. *)

\* What stores nothing in either tier.
LEMMA RemovesOnly ==
    ASSUME NEW u \in Users,
           \/ UNCHANGED cacheVars
           \/ \E k, v : Cache!Get(k, v)
           \/ \E K, ok : Cache!DelInRedis(K, ok)
           \/ \E k, deleted : Cache!Delete(k, deleted)
           \/ \E K, listed, ok : Cache!Scan(K, listed, ok)
           \/ \E K : Cache!Sweep(K)
           \/ Cache!CacheRestart
           \/ CacheEvent
    PROVE  OnlyRemoves(u)
<1>1. \A e \in EntriesOf(u) : e[1] \in {"redis", "fallback"} /\ e[2] \in CacheKeys
  BY DEF EntriesOf, Entries
<1>2. SUFFICES \A k \in CacheKeys :
                   redis'[k] \in {redis[k], Null} /\ fallback'[k] \in {fallback[k], Null}
  BY <1>1 DEF OnlyRemoves, Stored
<1>3. ASSUME NEW K, NEW ok, Cache!DelInRedis(K, ok)
      PROVE  \A k \in CacheKeys : redis'[k] \in {redis[k], Null} /\ fallback'[k] = fallback[k]
  BY <1>3 DEF Cache!DelInRedis, Cache!Without
<1>4. ASSUME NEW K, Cache!Sweep(K)
      PROVE  \A k \in CacheKeys : redis'[k] = redis[k] /\ fallback'[k] \in {fallback[k], Null}
  BY <1>4 DEF Cache!Sweep, Cache!FallbackOnly, Cache!Without
<1>5. CASE UNCHANGED cacheVars \/ \E K, listed, ok : Cache!Scan(K, listed, ok)
  BY <1>5 DEF cacheVars, Cache!Scan, Cache!cacheVars
<1>6. CASE \E k, v : Cache!Get(k, v)
  BY <1>6 DEF Cache!Get, Cache!RedisOnly, Cache!FallbackOnly, Cache!Without
<1>7. CASE \E k, deleted : Cache!Delete(k, deleted)
  BY <1>3, <1>4, <1>7 DEF Cache!Delete
<1>8. CASE Cache!CacheRestart
  BY <1>8 DEF Cache!CacheRestart, Cache!EmptyTier
<1>9. CASE CacheEvent
  BY <1>9 DEF CacheEvent, Cache!Connect, Cache!ConnectionError, Cache!LapseInRedis,
              Cache!LapseInFallback, Cache!CleanupFallbackCache, Cache!Without
<1> QED BY <1>3, <1>4, <1>5, <1>6, <1>7, <1>8, <1>9

\* A request that returns, or fails, without having changed the table: a status update
\* with nothing left to remove.
LEMMA ReturnTends ==
    ASSUME Sound, NEW u \in Users, Tended(u), NEW K, NoteLeft(K), Recorded(u),
           ~ContendedTogether(u)',
           BatchesGoOn(u, K), NEW r \in Reqs, Return(r), rows' = rows,
           \A s \in Reqs \ {r} : writes'[s] = writes[s],
           OnlyRemoves(u), Op(r) = "updateStatus" => ToRemove(r) \subseteq K
    PROVE  Tended(u)'
<1>1. \A s \in Reqs : req'[s] = IF s = r THEN Idle ELSE req[s]
  BY DEF Sound, TableTypes, Return
<1>2. r \notin Active(u)'
  BY <1>1, IdleRequest DEF Active, At
<1>3. SpareRows(u) /\ (\A s : SpareKnown(u, s)) /\ StatusGoesOn(u, r, K)
  BY DEF SpareRows, SpareKnown, StatusGoesOn
<1> QED BY <1>1, <1>2, <1>3, RequestTends

\* A rollback, with which no invalidation ends.
LEMMA RollBackTends ==
    ASSUME Sound, NEW u \in Users, Tended(u), NEW K, NoteLeft(K), Recorded(u),
           ~ContendedTogether(u)',
           BatchesGoOn(u, K), NEW r \in Reqs, RollBack(r), req[r].pc \in DbLabels
    PROVE  Tended(u)'
<1>1. \A s \in Reqs \ {r} : writes'[s] = writes[s]
  BY DEF RollBack, Sound, TableTypes
<1>2. ToRemove(r) = {}
  BY DEF ToRemove, At, DbLabels
<1>3. OnlyRemoves(u) /\ rows' = rows /\ Return(r)
  BY RemovesOnly DEF RollBack
<1> QED BY <1>1, <1>2, <1>3, ReturnTends

\* A step of a request that goes on, stores nothing and leaves the table alone.
LEMMA GoesOnTends ==
    ASSUME Sound, NEW u \in Users, Tended(u), NEW K, NoteLeft(K), Recorded(u),
           ~ContendedTogether(u)',
           BatchesGoOn(u, K), NEW r \in Reqs, req[r].pc # "idle", rows' = rows,
           \A s \in Reqs \ {r} : req'[s] = req[s] /\ writes'[s] = writes[s],
           req'[r].call = req[r].call, OnlyRemoves(u),
           r \in Active(u) /\ Steady(r) => Steady(r)',
           \A k \in ToRemove(r) : k \in K \/ (k \in ToRemove(r)' /\ req'[r].pc # "idle")
    PROVE  Tended(u)'
<1>1. r \in Active(u)' => r \in Active(u)
  BY DEF Active, At, Op, User
<1>2. r \in Active(u) => Steady(r)
  BY DEF Tended
<1>3. r \in Active(u) => StatusGoesOn(u, r, K)
  BY DEF StatusGoesOn, Active, At, Op
<1>4. SpareRows(u) /\ (\A s : SpareKnown(u, s))
  BY DEF SpareRows, SpareKnown
<1> QED BY <1>1, <1>2, <1>3, <1>4, RequestTends

\* A step of a read but its last.
LEMMA ReadTends ==
    ASSUME Sound, NEW u \in Users, Tended(u), NEW K, NoteLeft(K), Recorded(u),
           ~ContendedTogether(u)',
           BatchesGoOn(u, K), NEW r \in Reqs, ReadCache(r) \/ QueryRows(r) \/ QueryCount(r)
    PROVE  Tended(u)'
<1>0. req[r].pc \in ReadLabels /\ UNCHANGED <<rows, writes>>
  BY DEF ReadCache, QueryRows, QueryCount, At, ReadLabels
<1>1. /\ req[r] \in Request
      /\ req[r].call.op = "read"
      /\ req[r].call.key \in CacheKeys
      /\ req[r].pc # "idle"
  BY <1>0, Reading
<1>2. ToRemove(r) = {}
  BY <1>0 DEF ToRemove, At, ReadLabels
<1>a. OnlyRemoves(u)
  BY RemovesOnly DEF ReadCache, QueryRows, QueryCount
<1>3. CASE Return(r)
  BY <1>0, <1>2, <1>3, <1>a, ReturnTends
<1>4. CASE ~Return(r)
  <2> DEFINE v == View(req[r].call.key, Board(User(r), rows))
  <2>1. v \in CachedValues
    BY <1>1, ViewType DEF Sound
  <2> HIDE DEF v
  <2>3. /\ \A s \in Reqs \ {r} : req'[s] = req[s]
        /\ req'[r].call = req[r].call
        /\ req'[r].pc \in ReadLabels
    BY <1>1, <1>4
       DEF ReadCache, QueryRows, QueryCount, Goto, Sound, TableTypes, Request, ReadLabels
  <2>4. ReadsNow(r) /\ req'[r].pc \in {"count", "set"} => req'[r].view = v
    <3>1. CASE ReadCache(r)
      BY <1>1, <1>4, <3>1 DEF ReadCache, Goto, Sound, TableTypes, Request
    <3>2. CASE QueryRows(r)
      BY <1>1, <3>2 DEF QueryRows, Sound, TableTypes, Request, v
    <3>3. CASE QueryCount(r)
      <4>1. ReadsNow(r) => req[r].view = v
        BY <3>3 DEF QueryCount, At, ReadsNow, v
      <4>2. req'[r].view = [req[r].view EXCEPT !.total = v.total]
        BY <1>1, <3>3 DEF QueryCount, Sound, TableTypes, Request, v
      <4>3. [v EXCEPT !.total = v.total] = v
        BY <2>1 DEF CachedValues
      <4> QED BY <4>1, <4>2, <4>3
    <3> QED BY <3>1, <3>2, <3>3
  <2>5. Steady(r) => Steady(r)'
    BY <1>0, <1>1, <2>3, <2>4 DEF Steady, ReadsNow, FoundNow, BeenOver, ReadLabels, Op, User, v
  <2> QED BY <1>0, <1>1, <1>2, <1>a, <2>3, <2>5, GoesOnTends
<1> QED BY <1>3, <1>4

\* The last step of a read: what it stores, in whichever tier, is what the query returns.
LEMMA FillTends ==
    ASSUME SoundTogether, NEW u \in Users, Tended(u), NEW K, NoteLeft(K), Recorded(u),
           ~ContendedTogether(u)',
           BatchesGoOn(u, K), NEW r \in Reqs, FillCache(r)
    PROVE  Tended(u)'
<1>0. req[r].pc = "set" /\ UNCHANGED <<rows, writes>> /\ Return(r) /\ Sound
  BY DEF FillCache, At, SoundTogether
<1>1. /\ req[r] \in Request
      /\ req[r].call \in Calls
      /\ req[r].call.op = "read"
      /\ req[r].call.key \in CacheKeys
      /\ req[r].pc # "idle"
  BY <1>0, Reading DEF ReadLabels
<1>2. req[r].call.key.user = User(r)
  BY <1>1, CallShape DEF User
<1>3. \A e \in Entries :
          Stored(e)' = Stored(e) \/ (e[2] = req[r].call.key /\ Stored(e)' = req[r].view)
  <2>1. PICK ok \in BOOLEAN : Cache!Set(req[r].call.key, req[r].view, ok)
    BY DEF FillCache
  <2>2. \A k \in CacheKeys :
            /\ redis'[k] = redis[k] \/ (k = req[r].call.key /\ redis'[k] = req[r].view)
            /\ fallback'[k] = fallback[k] \/ (k = req[r].call.key /\ fallback'[k] = req[r].view)
    BY <1>1, <2>1
       DEF Cache!Set, Cache!RedisOnly, Cache!FallbackOnly, SoundTogether, Cache!CacheTypeOK
  <2> QED BY <2>2 DEF Entries, Stored
<1>4. \A s \in Reqs : req'[s] = IF s = r THEN Idle ELSE req[s]
  BY <1>0 DEF Sound, TableTypes, Return
<1>5. r \notin Active(u)'
  BY <1>4, IdleRequest DEF Active, At
<1>6. \A e \in EntriesOf(u) : e \in Entries /\ e[2].user = u
  BY DEF EntriesOf, KeysOf
<1>7. CASE r \in Active(u)
  <2>1. User(r) = u /\ Op(r) = "read"
    BY <1>1, <1>7 DEF Active, Op
  <2>2. req[r].view = View(req[r].call.key, Board(u, rows))
    BY <1>0, <1>7, <2>1 DEF Tended, Steady, ReadsNow
  <2>3. /\ \A s \in Active(u) : Op(s) # "updateStatus"
        /\ Changing(u) = {}
    BY <1>7, <2>1 DEF Tended, ContendedTogether, Contended
  <2>4. SpareRows(u)
    BY <1>0 DEF SpareRows
  <2>5. ASSUME NEW e \in EntriesOf(u)
        PROVE  Accounted(e, u)'
    <3>1. Accounted(e, u)
      BY DEF Tended
    <3>2. CASE Stored(e)' = Stored(e)
      BY <2>3, <2>4, <3>1, <3>2, StaysAccounted DEF StatusGoesOn
    <3>3. CASE e[2] = req[r].call.key /\ Stored(e)' = req[r].view
      <4>1. View(e[2], Board(u, rows)) \in MayShow(e[2], u)
        BY <1>0, ShowsNow DEF Sound
      <4>2. MayShow(e[2], u) \subseteq MayShow(e[2], u)'
        BY <2>4, ShowsStill DEF SpareRows, Recorded, Remembered
      <4> QED BY <2>2, <3>3, <4>1, <4>2 DEF Accounted
    <3> QED BY <1>3, <1>6, <3>2, <3>3
  <2> QED BY <1>0, <1>4, <1>5, <1>7, <2>5, OwnerTends
<1>8. CASE r \notin Active(u)
  <2>1. User(r) # u
    BY <1>1, <1>8 DEF Active, At
  <2>2. OnlyRemoves(u)
    BY <1>2, <1>3, <1>6, <2>1 DEF OnlyRemoves
  <2> QED BY <1>0, <1>1, <2>2, ReturnTends DEF Op
<1> QED BY <1>7, <1>8

\* findOne of update and remove.
LEMMA FindTaskTends ==
    ASSUME Sound, NEW u \in Users, Tended(u), NEW K, NoteLeft(K), Recorded(u),
           ~ContendedTogether(u)',
           BatchesGoOn(u, K), NEW r \in Reqs, FindTask(r)
    PROVE  Tended(u)'
<1>0. /\ req[r].pc = "find"
      /\ Op(r) \in {"update", "remove"}
      /\ UNCHANGED <<rows, writes>>
      /\ ToRemove(r) = {}
  BY DEF FindTask, At, ToRemove
<1>a. OnlyRemoves(u)
  BY RemovesOnly DEF FindTask
<1>1. CASE Return(r)
  BY <1>0, <1>1, <1>a, ReturnTends
<1>2. ASSUME NEW id \in Found(r),
             req' = [req EXCEPT ![r].pc = "write", ![r].orig = rows[id], ![r].todo = {id}]
      PROVE  Tended(u)'
  <2>1. /\ req[r] \in Request
        /\ req[r].call.ids \in SUBSET TaskIds
        /\ req[r].call.op \in SingleOps => \E i \in TaskIds : req[r].call.ids = {i}
    BY <1>0, Known DEF ReadLabels
  <2>2. id \in req[r].call.ids /\ rows[id] \in Row /\ rows[id].userId = User(r)
    BY DEF Found, IsRow
  <2>3. req[r].call.ids = {id}
    BY <1>0, <2>1, <2>2 DEF SingleOps, Op
  <2>4. /\ \A s \in Reqs \ {r} : req'[s] = req[s]
        /\ req'[r].call = req[r].call
        /\ req'[r].pc = "write"
        /\ req'[r].orig = rows[id]
    BY <1>2, <2>1, <2>2 DEF Sound, TableTypes, Request
  <2>5. Steady(r)'
    BY <1>0, <2>2, <2>3, <2>4 DEF Steady, ReadsNow, FoundNow, BeenOver, Op, User
  <2> QED BY <1>0, <1>a, <2>4, <2>5, GoesOnTends
<1> QED BY <1>1, <1>2 DEF FindTask

\* find of batchProcess: where it finds nothing, the COMMIT has nothing to do.
LEMMA FindTasksTends ==
    ASSUME Sound, NEW u \in Users, Tended(u), NEW K, NoteLeft(K), Recorded(u),
           ~ContendedTogether(u)',
           BatchesGoOn(u, K), NEW r \in Reqs, FindTasks(r)
    PROVE  Tended(u)'
<1>0. /\ req[r].pc = "find"
      /\ Op(r) \in BatchOps
      /\ UNCHANGED <<rows, writes>>
      /\ ToRemove(r) = {}
  BY DEF FindTasks, At, ToRemove
<1>a. OnlyRemoves(u)
  BY RemovesOnly DEF FindTasks
<1>1. req[r] \in Request /\ \A id \in TaskIds : writes[r][id] = Null
  BY <1>0, Known DEF WriteLabels
<1>2. Harmless(r)'
  BY <1>0, <1>1 DEF Harmless
<1>3. /\ \A s \in Reqs \ {r} : req'[s] = req[s]
      /\ req'[r].call = req[r].call
      /\ req'[r].pc \in {"write", "commit"}
  BY <1>1 DEF FindTasks, Goto, Sound, TableTypes, Request
<1>4. Steady(r)'
  BY <1>0, <1>2, <1>3 DEF Steady, ReadsNow, FoundNow, BeenOver, BatchOps, Op, At
<1> QED BY <1>0, <1>3, <1>4, <1>a, GoesOnTends

\* findOne of updateStatus, and the SELECT of its save.
LEMMA FindForStatusTends ==
    ASSUME Sound, NEW u \in Users, Tended(u), NEW K, NoteLeft(K), Recorded(u),
           ~ContendedTogether(u)',
           BatchesGoOn(u, K), NEW r \in Reqs, FindForStatus(r) \/ LoadForSave(r)
    PROVE  Tended(u)'
<1>0. /\ req[r].pc \in {"find", "load"}
      /\ Op(r) = "updateStatus"
      /\ UNCHANGED <<rows, writes>>
      /\ ToRemove(r) = {}
  <2>1. req[r].pc = "load" => Op(r) = "updateStatus"
    BY Known DEF WellFormed, Op
  <2> QED BY <2>1 DEF FindForStatus, LoadForSave, At, ToRemove
<1>a. OnlyRemoves(u)
  BY RemovesOnly DEF FindForStatus, LoadForSave
<1>1. CASE Return(r)
  BY <1>0, <1>1, <1>a, ReturnTends
<1>2. CASE ~Return(r)
  <2>1. req[r] \in Request /\ req \in [Reqs -> Request]
    BY DEF Sound, TableTypes
  <2>2. /\ \A s \in Reqs \ {r} : req'[s] = req[s]
        /\ req'[r].call = req[r].call
        /\ req'[r].pc \in {"load", "stats", "write"}
    <3>1. CASE FindForStatus(r)
      BY <1>2, <2>1, <3>1 DEF FindForStatus, Request
    <3>2. CASE LoadForSave(r)
      <4>1. PICK changed :
                req' = [req EXCEPT ![r].changed = changed,
                                   ![r].pc = IF changed = {} THEN "stats" ELSE "write"]
        BY <3>2 DEF LoadForSave
      <4> QED BY <2>1, <4>1 DEF Request
    <3> QED BY <3>1, <3>2
  <2>3. Steady(r)'
    BY <1>0, <2>2 DEF Steady, ReadsNow, FoundNow, BeenOver, Op
  <2> QED BY <1>0, <1>a, <2>2, <2>3, GoesOnTends
<1> QED BY <1>1, <1>2

\* A row that its statement reaches.
LEMMA WriteTends ==
    ASSUME Sound, NEW u \in Users, Tended(u), NEW K, NoteLeft(K), Recorded(u),
           ~ContendedTogether(u)',
           BatchesGoOn(u, K), NEW r \in Reqs, Write(r)
    PROVE  Tended(u)'
<1>0. req[r].pc = "write" /\ Op(r) # "updateStatus" /\ rows' = rows /\ ToRemove(r) = {}
  BY DEF Write, At, ToRemove
<1>a. OnlyRemoves(u)
  BY RemovesOnly DEF Write
<1>1. req[r] \in Request
  BY DEF Sound, TableTypes
<1>2. /\ \A s \in Reqs \ {r} : req'[s] = req[s] /\ writes'[s] = writes[s]
      /\ req'[r].call = req[r].call
      /\ req'[r].orig = req[r].orig
      /\ req'[r].pc \in {"write", "reread", "stats"}
  BY <1>1 DEF Write, Sound, TableTypes, Request
<1>3. Steady(r) => Steady(r)'
  BY <1>0, <1>2 DEF Steady, ReadsNow, FoundNow, BeenOver, WriteLabels, Op, User
<1> QED BY <1>0, <1>2, <1>3, <1>a, GoesOnTends

\* The second findOne of update: where it has found nothing changed, the COMMIT
\* changes nothing.
LEMMA RereadTends ==
    ASSUME Sound, NEW u \in Users, Tended(u), NEW K, NoteLeft(K), Recorded(u),
           ~ContendedTogether(u)',
           BatchesGoOn(u, K), NEW r \in Reqs, Reread(r)
    PROVE  Tended(u)'
<1>0. req[r].pc = "reread" /\ UNCHANGED <<rows, writes>> /\ ToRemove(r) = {}
  BY DEF Reread, At, ToRemove
<1>a. OnlyRemoves(u)
  BY RemovesOnly DEF Reread
<1>1. /\ req[r] \in Request
      /\ WellFormed(req[r], writes[r])
      /\ writes[r] \in [TaskIds -> Row \cup {Deleted, Null}]
      /\ req[r].call \in Calls
      /\ req[r].call.op \in SingleOps => \E i \in TaskIds : req[r].call.ids = {i}
  BY <1>0, Known DEF ReadLabels
<1>2. req[r].call.op = "update"
  BY <1>0, <1>1 DEF WellFormed
<1>3. PICK id \in TaskIds : req[r].call.ids = {id}
  BY <1>1, <1>2 DEF SingleOps
<1>4. CASE Return(r)
  BY <1>0, <1>4, <1>a, ReturnTends
<1>5. CASE ~Return(r)
  <2> DEFINE row == Sees(r, id)
             changed == {f \in {"status", "priority"} : req[r].orig[f] # row[f]}
  <2>1. req' = [req EXCEPT ![r].seen = row, ![r].changed = changed,
                           ![r].pc = IF changed = {} THEN "commit" ELSE "stats"]
    BY <1>3, <1>5, Rereads
  <2>2. /\ \A s \in Reqs \ {r} : req'[s] = req[s]
        /\ req'[r].call = req[r].call
        /\ req'[r].orig = req[r].orig
        /\ req'[r].changed = changed
        /\ req'[r].pc = IF changed = {} THEN "commit" ELSE "stats"
    BY <1>1, <2>1 DEF Sound, TableTypes, Request
  <2>3. ASSUME Steady(r)
        PROVE  Steady(r)'
    <3>1. ReadsNow(r)' /\ FoundNow(r)'
      BY <1>0, <2>2, <2>3 DEF Steady, ReadsNow, FoundNow, WriteLabels, Op, User
    <3>2. ASSUME changed = {}, writes[r][id] # Null
          PROVE  /\ IsRow(writes[r][id])
                 /\ IsRow(rows[id])
                 /\ writes[r][id] = [rows[id] EXCEPT !.details = writes[r][id].details]
      <4>0. row = writes[r][id]
        BY <3>2 DEF Sees
      <4>1. row = NewRow(req[r].call, rows[id]) /\ rows[id] \in Row
        BY <1>2, <3>2, <4>0 DEF Sound, TableInv, NoLostUpdate, Op, IsRow
      <4>2. row \in Row /\ row.userId = rows[id].userId
        <5>1. /\ NewRow(req[r].call, rows[id]) \in Row
              /\ NewRow(req[r].call, rows[id]).userId = rows[id].userId
          BY <1>1, <1>2, <4>1, NewRowType
        <5> QED BY <4>1, <5>1
      <4>3. req[r].orig = rows[id]
        BY <1>0, <1>2, <1>3, <2>3 DEF Steady, FoundNow, WriteLabels, Op
      <4>4. row.status = rows[id].status /\ row.priority = rows[id].priority
        BY <3>2, <4>3
      <4>5. row = [rows[id] EXCEPT !.details = row.details]
        BY <4>1, <4>2, <4>4 DEF Row
      <4> QED BY <4>0, <4>1, <4>2, <4>5 DEF IsRow
    <3>3. \A i \in TaskIds : i # id => writes[r][i] = Null
      BY <1>1, <1>3 DEF WellFormed
    <3>4. changed = {} => Harmless(r)'
      BY <1>0, <1>2, <1>3, <2>2, <3>2, <3>3 DEF Harmless, Op
    <3>5. BeenOver(r)'
      BY <1>0, <2>2, <3>4 DEF BeenOver, At
    <3> QED BY <3>1, <3>5 DEF Steady
  <2> QED BY <1>0, <1>a, <2>2, <2>3, GoesOnTends
<1> QED BY <1>4, <1>5

\* What an await of invalidateUserCache does not come to, the next ones do.
LEMMA ComesToTargets ==
    ASSUME Sound, NEW r \in Reqs, Invalidate(r)
    PROVE  /\ req[r].pc \in {"stats", "lists", "del"}
           /\ UNCHANGED <<rows, writes>>
           /\ \A s \in Reqs \ {r} : req'[s] = req[s]
           /\ \/ /\ Return(r)
                 /\ Op(r) = "updateStatus"
                 /\ ToRemove(r) \subseteq Targets(r)
              \/ /\ req'[r].call = req[r].call
                 /\ req'[r].orig = req[r].orig
                 /\ req'[r].pc \in {"lists", "del", "add", "commit"}
                 /\ req'[r].pc \in {"add", "commit"} => Op(r) # "updateStatus"
                 /\ \A k \in ToRemove(r) : k \in Targets(r) \/ k \in ToRemove(r)'
<1>1. req[r] \in Request /\ req \in [Reqs -> Request]
  BY DEF Sound, TableTypes
<1>2. UNCHANGED <<rows, writes>>
  BY DEF Invalidate, InvalidateStats, InvalidateLists, DeleteLists
<1>3. Targets(r) = IF At(r, "stats") THEN {StatsKey(Owner(r))}
                   ELSE IF At(r, "lists") /\ req'[r].pc = "del" THEN {}
                   ELSE KeysOf(Owner(r)) \ {StatsKey(Owner(r))}
  BY DEF Targets, At, ListKeys
<1>4. CASE InvalidateStats(r)
  <2>1. /\ \A s \in Reqs \ {r} : req'[s] = req[s]
        /\ req'[r].call = req[r].call
        /\ req'[r].orig = req[r].orig
        /\ req'[r].pc = "lists"
        /\ req[r].pc = "stats"
    BY <1>1, <1>4 DEF InvalidateStats, Goto, At, Request
  <2>2. Owner(r)' = Owner(r)
    BY <2>1 DEF Owner, Op, User
  <2> QED BY <1>2, <1>3, <2>1, <2>2 DEF ToRemove, At
<1>5. CASE (InvalidateLists(r) \/ DeleteLists(r)) /\ AfterInvalidation(r)
  <2>1. req[r].pc \in {"lists", "del"}
    BY <1>5 DEF InvalidateLists, DeleteLists, At
  <2>2. ToRemove(r) = KeysOf(Owner(r)) \ {StatsKey(Owner(r))}
    BY <2>1 DEF ToRemove, At
  <2>3. /\ \A s \in Reqs \ {r} : req'[s] = req[s]
        /\ \/ Return(r) /\ Op(r) = "updateStatus" /\ req'[r].pc = "idle"
           \/ /\ req'[r].call = req[r].call
              /\ req'[r].orig = req[r].orig
              /\ req'[r].pc \in {"add", "commit"}
              /\ Op(r) # "updateStatus"
    BY <1>1, <1>5, IdleRequest DEF AfterInvalidation, Goto, Return, Request
  <2>4. ToRemove(r) \subseteq Targets(r)
    BY <1>3, <2>1, <2>2, <2>3 DEF At
  <2> QED BY <1>2, <2>1, <2>3, <2>4
<1>6. ASSUME NEW listed, At(r, "lists"), req' = [req EXCEPT ![r].pc = "del", ![r].listed = listed]
      PROVE  /\ \A s \in Reqs \ {r} : req'[s] = req[s]
             /\ req'[r].call = req[r].call
             /\ req'[r].orig = req[r].orig
             /\ req'[r].pc = "del"
             /\ req[r].pc = "lists"
             /\ ToRemove(r)' = ToRemove(r)
  <2>1. /\ \A s \in Reqs \ {r} : req'[s] = req[s]
        /\ req'[r].call = req[r].call
        /\ req'[r].orig = req[r].orig
        /\ req'[r].pc = "del"
        /\ req[r].pc = "lists"
    BY <1>1, <1>6 DEF At, Request
  <2>2. Owner(r)' = Owner(r)
    BY <2>1 DEF Owner, Op, User
  <2> QED BY <2>1, <2>2 DEF ToRemove, At
<1> QED BY <1>2, <1>4, <1>5, <1>6 DEF Invalidate, InvalidateLists, DeleteLists

\* The steps of invalidateUserCache.
LEMMA InvalidateTends ==
    ASSUME Sound, NEW u \in Users, Tended(u), NEW r \in Reqs, NoteLeft(Targets(r)),
           Recorded(u), ~ContendedTogether(u)', BatchesGoOn(u, Targets(r)), Invalidate(r)
    PROVE  Tended(u)'
<1>1. OnlyRemoves(u)
  BY RemovesOnly DEF Invalidate, InvalidateStats, InvalidateLists, DeleteLists
<1>2. CASE Return(r) /\ ToRemove(r) \subseteq Targets(r)
  BY <1>1, <1>2, ComesToTargets, ReturnTends
<1>3. CASE /\ req'[r].call = req[r].call
           /\ req'[r].orig = req[r].orig
           /\ req'[r].pc \in {"lists", "del", "add", "commit"}
           /\ req'[r].pc \in {"add", "commit"} => Op(r) # "updateStatus"
           /\ \A k \in ToRemove(r) : k \in Targets(r) \/ k \in ToRemove(r)'
  <2>1. req[r].pc \in {"stats", "lists", "del"}
    BY ComesToTargets
  <2>2. ASSUME r \in Active(u), Steady(r)
        PROVE  Steady(r)'
    <3>1. ReadsNow(r)' /\ FoundNow(r)'
      <4>1. rows' = rows
        BY ComesToTargets
      <4> QED BY <1>3, <2>1, <2>2, <4>1 DEF Steady, ReadsNow, FoundNow, WriteLabels, Op, User
    <3>2. ASSUME Op(r) # "updateStatus", NEW e \in EntriesOf(u)
          PROVE  e[2] \in ToRemove(r)' \/ Gone(e)'
      <4>1. User(r) = u /\ Owner(r) = u
        BY <2>2, <3>2 DEF Active, Owner
      <4>2. e \in Entries /\ e[2] \in KeysOf(u) /\ Stored(e)' \in {Stored(e), Null}
        BY <1>1 DEF EntriesOf, OnlyRemoves
      <4>3. e[2] \in ToRemove(r) \/ Gone(e)
        <5>1. CASE req[r].pc = "stats"
          BY <4>1, <4>2, <5>1 DEF ToRemove, At
        <5>2. CASE req[r].pc \in {"lists", "del"}
          BY <2>2, <3>2, <4>1, <5>2 DEF Steady, BeenOver, At
        <5> QED BY <2>1, <5>1, <5>2
      <4> QED BY <1>3, <4>2, <4>3, ComesTo, StaysGone
    <3>3. Op(r) # "updateStatus" => User(r)' = u
      BY <1>3, <2>2 DEF Active, User
    <3>4. BeenOver(r)'
      <4>1. EntriesOf(u)' = EntriesOf(u)
        BY DEF EntriesOf
      <4>2. Op(r)' = Op(r)
        BY <1>3 DEF Op
      <4> QED BY <3>2, <3>3, <4>1, <4>2 DEF BeenOver
    <3> QED BY <3>1, <3>4 DEF Steady
  <2> QED BY <1>1, <1>3, <2>1, <2>2, ComesToTargets, GoesOnTends
<1> QED BY <1>2, <1>3, ComesToTargets

\* The job of create or update.
LEMMA EnqueueTends ==
    ASSUME Sound, NEW u \in Users, Tended(u), NEW K, NoteLeft(K), Recorded(u),
           ~ContendedTogether(u)',
           BatchesGoOn(u, K), NEW r \in Reqs, Enqueue(r)
    PROVE  Tended(u)'
<1>0. req[r].pc = "add" /\ UNCHANGED <<rows, writes>> /\ ToRemove(r) = {}
  BY DEF Enqueue, At, ToRemove
<1>a. OnlyRemoves(u)
  BY RemovesOnly DEF Enqueue
<1>1. /\ req[r] \in Request
      /\ req[r].call.op \in {"create", "update"}
  BY <1>0, Known DEF WellFormed, ReadLabels
<1>2. \E added : req' = [req EXCEPT ![r].job = added, ![r].pc = "commit"]
  BY DEF Enqueue
<1>3. /\ \A s \in Reqs \ {r} : req'[s] = req[s]
      /\ req'[r].call = req[r].call
      /\ req'[r].orig = req[r].orig
      /\ req'[r].pc = "commit"
  BY <1>1, <1>2 DEF Sound, TableTypes, Request
<1>4. ASSUME r \in Active(u), Steady(r)
      PROVE  Steady(r)'
  <2>1. ReadsNow(r)' /\ FoundNow(r)'
    BY <1>0, <1>3, <1>4 DEF Steady, ReadsNow, FoundNow, WriteLabels, Op, User
  <2>2. User(r) = u
    BY <1>1, <1>4 DEF Active, Op
  <2>3. ASSUME NEW e \in EntriesOf(u)
        PROVE  Gone(e)'
    <3>1. Gone(e)
      BY <1>0, <1>1, <1>4, <2>2 DEF Steady, BeenOver, Op, At
    <3> QED BY <1>a, <3>1, StaysGone DEF OnlyRemoves
  <2>4. BeenOver(r)'
    BY <1>3, <2>2, <2>3 DEF BeenOver, User, EntriesOf
  <2> QED BY <2>1, <2>4 DEF Steady
<1> QED BY <1>0, <1>3, <1>4, <1>a, GoesOnTends

\* A COMMIT: the entries of the request's user are gone, or it changes nothing; others
\* have no part in it.
LEMMA CommitTends ==
    ASSUME Sound, NEW u \in Users, Tended(u), NEW K, NoteLeft(K), Recorded(u),
           ~ContendedTogether(u)',
           BatchesGoOn(u, K), NEW r \in Reqs, Commit(r)
    PROVE  Tended(u)'
<1>0. At(r, "commit") /\ rows' = Committed(r) /\ Return(r) /\ ToRemove(r) = {}
  BY DEF Commit, ToRemove, At
<1>1. /\ req[r] \in Request
      /\ req[r].call \in Calls
      /\ Op(r) # "read"
      /\ \A id \in TaskIds : writes[r][id] # Null => req[r].call.op # "updateStatus"
  BY <1>0, Known DEF WellFormed, ReadLabels, At, Op
<1>2. /\ \A s \in Reqs : req'[s] = IF s = r THEN Idle ELSE req[s]
      /\ \A s \in Reqs \ {r} : writes'[s] = writes[s]
  BY <1>0 DEF Commit, Return, Sound, TableTypes
<1>3. r \notin Active(u)'
  BY <1>2, IdleRequest DEF Active, At
<1>4. rows \in [TaskIds -> Row \cup {Unborn, Deleted}]
  BY DEF Sound, TableTypes
<1>5. OnlyRemoves(u)
  BY RemovesOnly DEF Commit
<1>6. CASE r \in Active(u) /\ Harmless(r)
  <2>1. \A k : MayShow(k, u) \subseteq MayShow(k, u)'
    BY <1>0, <1>6, HarmlessShows DEF Recorded, Remembered
  <2>2. \A s \in Active(u) : s = r
    BY <1>1, <1>6 DEF Tended, ContendedTogether, Contended
  <2>3. Changing(u) = {}
    BY <1>6 DEF Tended, ContendedTogether
  <2>4. ASSUME NEW e \in EntriesOf(u)
        PROVE  Accounted(e, u)'
    <3>1. Stored(e) \in MayShow(e[2], u) \/ e \in left
      BY <1>0, <2>2, <2>3 DEF Tended, Accounted
    <3>2. CASE Stored(e) \in MayShow(e[2], u)
      <4>1. Stored(e)' \in {Stored(e), Null}
        BY <1>5 DEF OnlyRemoves
      <4>2. Null \in MayShow(e[2], u)'
        BY DEF MayShow
      <4> QED BY <2>1, <3>2, <4>1, <4>2 DEF Accounted
    <3>3. CASE e \in left
      BY <1>5, <3>3, StaysGone, GoneIsAccounted DEF Gone, OnlyRemoves
    <3> QED BY <3>1, <3>2, <3>3
  <2> QED BY <1>1, <1>2, <1>3, <1>6, <2>4, OwnerTends
<1>7. CASE r \in Active(u) /\ ~Harmless(r)
  <2>1. Op(r) # "updateStatus" /\ User(r) = u
    BY <1>1, <1>7 DEF Harmless, Active, Op
  <2>2. ASSUME NEW e \in EntriesOf(u)
        PROVE  Accounted(e, u)'
    <3>1. Gone(e)
      BY <1>0, <1>7, <2>1 DEF Tended, Steady, BeenOver, At
    <3>2. Gone(e)'
      BY <1>5, <3>1, StaysGone DEF OnlyRemoves
    <3> QED BY <3>2, GoneIsAccounted
  <2> QED BY <1>1, <1>2, <1>3, <1>7, <2>2, OwnerTends
<1>8. CASE r \notin Active(u)
  <2>1. User(r) # u
    BY <1>0, <1>8 DEF Active, At
  <2>2. ASSUME NEW id \in TaskIds
        PROVE  \/ writes[r][id] = Null /\ rows'[id] = rows[id]
               \/ /\ writes[r][id] # Null
                  /\ IsRow(rows[id]) => rows[id].userId # u
                  /\ IsRow(rows'[id]) => rows'[id].userId # u
    <3>1. CASE writes[r][id] = Null
      BY <1>0, <3>1 DEF Committed, Sees
    <3>2. CASE writes[r][id] # Null /\ req[r].call.op = "create"
      <4>1. rows[id] = Unborn /\ rows'[id] = NewRow(req[r].call, rows[id])
        BY <1>0, <3>2 DEF Committed, Sees, Sound, TableInv, NoLostUpdate, Op
      <4>2. rows'[id].userId = req[r].call.user
        BY <1>1, <3>2, <4>1, NewRowType
      <4> QED BY <2>1, <3>2, <4>1, <4>2, MarkersAssumption DEF IsRow, User
    <3>3. CASE writes[r][id] # Null /\ req[r].call.op # "create"
      <4>1. rows[id].userId # u
        BY <2>1, <3>3 DEF Sound, TableInv, NoLostUpdate, Op
      <4>2. rows'[id] = Deleted \/ rows'[id].userId = rows[id].userId
        BY <1>0, <3>3, CommittedRow
      <4> QED BY <3>3, <4>1, <4>2, MarkersAssumption DEF IsRow
    <3> QED BY <3>1, <3>2, <3>3
  <2>3. SpareRows(u)
    BY <2>2, SameBoard DEF SpareRows
  <2>4. ASSUME NEW s \in Active(u)
        PROVE  SpareKnown(u, s)
    <3>1. \A id \in TaskIds : writes[s][id] # Null => writes[r][id] = Null
      BY <1>8 DEF Sound, TableInv, NoLostUpdate, Unlocked, Active
    <3> QED BY <2>2, <3>1 DEF IsRow, SpareKnown
  <2> QED BY <1>2, <1>3, <1>5, <1>8, <2>3, <2>4, RequestTends
<1> QED BY <1>6, <1>7, <1>8

\* What save makes of the table: only the owner of the task it found sees it.
LEMMA SaveSpares ==
    ASSUME Sound, NEW r \in Reqs, Save(r)
    PROVE  \A u \in Users : u # req[r].orig.userId => SpareRows(u)
<1>0. req[r].pc = "write" /\ req[r].call.op = "updateStatus"
  BY DEF Save, At, Op
<1>1. /\ req[r].call \in Calls
      /\ \E id \in TaskIds : req[r].call.ids = {id}
      /\ req[r].orig \in Row
  BY <1>0, Known DEF WellFormed, ReadLabels, SingleOps, WriteLabels
<1>2. PICK id \in TaskIds : req[r].call.ids = {id}
  BY <1>1
<1>3. IsRow(rows[id]) => rows[id].userId = req[r].orig.userId
  <2>1. CountsOn(req[r], id, req[r].orig.userId) /\ req[r].orig.userId \in Users
    BY <1>0, <1>1, <1>2, MarkersAssumption DEF CountsOn, Row
  <2> QED BY <2>1 DEF Sound, TableInv, Owned
<1>4. /\ \A i \in TaskIds : i # id => rows'[i] = rows[i]
      /\ rows'[id] # rows[id] => rows'[id].userId = req[r].orig.userId
  <2> DEFINE p == Columns(req[r].changed, Entity(r))
             new == IF "insert" \in req[r].changed THEN Entity(r)
                    ELSE IF IsRow(rows[id]) THEN Patched(rows[id], p) ELSE rows[id]
  <2>1. rows' = [rows EXCEPT ![id] = new]
    BY <1>2 DEF Save
  <2>2. Entity(r) \in Row /\ Entity(r).userId = req[r].orig.userId
    BY <1>1, CallShape, PatchedRow DEF Entity
  <2>3. p \in Patches
    BY <2>2, ColumnsPatch
  <2> HIDE DEF p
  <2>4. IsRow(rows[id]) => Patched(rows[id], p).userId = rows[id].userId
    BY <2>3, PatchedRow DEF IsRow
  <2>5. new = rows[id] \/ new.userId = req[r].orig.userId
    BY <1>3, <2>2, <2>4
  <2> HIDE DEF new
  <2> QED BY <2>1, <2>5 DEF Sound, TableTypes
<1> QED BY <1>3, <1>4, SameBoard DEF SpareRows

\* save has written: every entry of the owner's is still to be removed.
LEMMA SaveTends ==
    ASSUME Sound, NEW u \in Users, Tended(u), NEW K, NoteLeft(K), Recorded(u),
           ~ContendedTogether(u)',
           BatchesGoOn(u, K), NEW r \in Reqs, Save(r)
    PROVE  Tended(u)'
<1>0. /\ req[r].pc = "write"
      /\ req[r].call.op = "updateStatus"
      /\ UNCHANGED writes
      /\ Goto(r, "stats")
      /\ ToRemove(r) = {}
  BY DEF Save, At, Op, ToRemove
<1>1. req[r] \in Request
  BY DEF Sound, TableTypes
<1>2. /\ \A s \in Reqs \ {r} : req'[s] = req[s]
      /\ req'[r].call = req[r].call
      /\ req'[r].orig = req[r].orig
      /\ req'[r].pc = "stats"
  BY <1>0, <1>1 DEF Goto, Sound, TableTypes, Request
<1>3. r \in Active(u) /\ r \in Active(u)'
  BY <1>0, <1>2 DEF Active, At, Op
<1>4. \A s \in Active(u) : s = r
  BY <1>0, <1>3 DEF Tended, ContendedTogether, Contended, Op
<1>5. Steady(r)'
  BY <1>0, <1>2 DEF Steady, ReadsNow, FoundNow, BeenOver, Op
<1>6. OnlyRemoves(u)
  BY RemovesOnly DEF Save
<1>7. CASE u = req[r].orig.userId
  <2>1. \A k \in KeysOf(u) : k \in ToRemove(r)'
    BY <1>0, <1>2, <1>7 DEF ToRemove, Owner, Op, At
  <2>2. \A e \in EntriesOf(u) : Accounted(e, u)'
    BY <1>0, <1>2, <1>3, <2>1 DEF Accounted, Op, EntriesOf
  <2> QED BY <1>0, <1>2, <1>3, <1>5, <2>2, OwnerTends DEF Op
<1>8. CASE u # req[r].orig.userId
  <2>1. SpareRows(u)
    BY <1>8, SaveSpares
  <2>2. StatusGoesOn(u, r, K)
    BY <1>0 DEF StatusGoesOn
  <2> QED BY <1>0, <1>2, <1>4, <1>5, <1>6, <2>1, <2>2, RequestTends
<1> QED BY <1>7, <1>8

\* A request arrives: it has done nothing yet.
LEMMA BeginTends ==
    ASSUME Sound, NEW u \in Users, Tended(u), NEW K, NoteLeft(K), Recorded(u),
           ~ContendedTogether(u)',
           BatchesGoOn(u, K), NEW r \in Reqs, NEW c \in Calls, Begin(r, c)
    PROVE  Tended(u)'
<1>0. req[r].pc = "idle" /\ UNCHANGED <<rows, writes>>
  BY DEF Begin, At
<1> DEFINE q == [Idle EXCEPT
                     !.pc = IF c.op = "read" THEN "get"
                            ELSE IF c.op = "create" THEN "write" ELSE "find",
                     !.call = c,
                     !.todo = IF c.op = "create" THEN c.ids ELSE {},
                     !.born = {id \in c.ids : IsRow(rows[id]) /\ rows[id].userId = c.user}]
<1>1. /\ req' = [req EXCEPT ![r] = q]
      /\ q.call = c
      /\ q.pc = IF c.op = "read" THEN "get" ELSE IF c.op = "create" THEN "write" ELSE "find"
  BY DEF Begin, Idle
<1> HIDE DEF q
<1>2. \A s \in Reqs : req'[s] = IF s = r THEN q ELSE req[s]
  BY <1>1 DEF Sound, TableTypes
<1>3. Steady(r)'
  BY <1>1, <1>2 DEF Steady, ReadsNow, FoundNow, BeenOver, WriteLabels, Op
<1>4. OnlyRemoves(u)
  BY RemovesOnly DEF Begin
<1>5. r \notin Active(u)
  BY <1>0 DEF Active, At
<1>6. SpareRows(u) /\ (\A s : SpareKnown(u, s))
  BY <1>0 DEF SpareRows, SpareKnown
<1> QED BY <1>0, <1>2, <1>3, <1>4, <1>5, <1>6, RequestTends

\* Every step of a request.
LEMMA StepTends ==
    ASSUME SoundTogether, NEW u \in Users, Tended(u), NEW K, NoteLeft(K), Recorded(u),
           ~ContendedTogether(u)',
           BatchesGoOn(u, K), NEW r \in Reqs, StepElsewhere(r) \/ Enqueue(r) \/ DbError(r)
    PROVE  Tended(u)'
<1>0. Sound
  BY DEF SoundTogether
<1>1. CASE DeadlockAbort(r)
  <2>1. req[r].pc \in DbLabels
    BY <1>1 DEF DeadlockAbort, InDeadlock, WaitsFor, At, DbLabels
  <2> QED BY <1>0, <1>1, <2>1, RollBackTends DEF DeadlockAbort
<1>2. CASE DbError(r)
  BY <1>0, <1>2, RollBackTends DEF DbError
<1>3. CASE ReadCache(r) \/ QueryRows(r) \/ QueryCount(r)
  BY <1>0, <1>3, ReadTends
<1>4. CASE FillCache(r)
  BY <1>4, FillTends
<1>5. CASE FindTask(r)
  BY <1>0, <1>5, FindTaskTends
<1>6. CASE FindTasks(r)
  BY <1>0, <1>6, FindTasksTends
<1>7. CASE FindForStatus(r) \/ LoadForSave(r)
  BY <1>0, <1>7, FindForStatusTends
<1>8. CASE Write(r)
  BY <1>0, <1>8, WriteTends
<1>9. CASE Reread(r)
  BY <1>0, <1>9, RereadTends
<1>10. CASE Commit(r)
  BY <1>0, <1>10, CommitTends
<1>11. CASE Save(r)
  BY <1>0, <1>11, SaveTends
<1>12. CASE Enqueue(r)
  BY <1>0, <1>12, EnqueueTends
<1> QED BY <1>1, <1>2, <1>3, <1>4, <1>5, <1>6, <1>7, <1>8, <1>9, <1>10, <1>11, <1>12
        DEF StepElsewhere

-----------------------------------------------------------------------------
(* Steps of the worker, of the cache and of the process. *)

\* The requests stand still.
LEMMA WorkerTends ==
    ASSUME Sound, NEW u \in Users, Tended(u), NEW K, NoteLeft(K), Recorded(u),
           ~ContendedTogether(u)',
           BatchesGoOn(u, K), UNCHANGED <<writes, req>>, OnlyRemoves(u), SpareRows(u),
           \A s \in Active(u) : SpareKnown(u, s)
    PROVE  Tended(u)'
<1>1. Active(u)' = Active(u) /\ Active(u) \subseteq Reqs
  BY DEF Active, At, Op, User
<1>2. ASSUME NEW s \in Active(u)
      PROVE  Steady(s)'
  <2>1. Steady(s)
    BY DEF Tended
  <2> QED BY <2>1, StandsSteady
<1>3. ASSUME NEW s \in Active(u)
      PROVE  StatusGoesOn(u, s, K)
  BY <1>1 DEF StatusGoesOn, ToRemove, Owner, Op, User, At
<1> QED BY <1>1, <1>2, <1>3, Tends

\* One job changes that has nothing to remove of the user's.
LEMMA OneJobLeaves ==
    ASSUME SoundTogether, NEW u \in Users, NEW K, NEW j \in JobIds, NEW job, Becomes(j, job),
           \A k \in ToRemoveBy(j, u) : k \in K
    PROVE  BatchesGoOn(u, K)
<1>1. \A i \in JobIds : i # j => jobs'[i] = jobs[i]
  BY DEF SoundTogether, Becomes
<1> QED BY <1>1 DEF BatchesGoOn, Changing, ToRemoveBy, AtStage, In

\* A handler, up to its statement on the table.
LEMMA HandlerTends ==
    ASSUME SoundTogether, NEW u \in Users, Tended(u), NEW K, NoteLeft(K), Recorded(u),
           ~ContendedTogether(u)',
           NEW j \in JobIds,
           \/ Process(j) \/ HandlerError(j) \/ HandleTaskCreated(j) \/ FindOverdue(j)
           \/ (\E id \in TaskIds : Touch(j, id)) \/ FindBatch(j)
    PROVE  Tended(u)'
<1>1. UNCHANGED <<rows, writes, req, cacheVars>> /\ Sound
  BY DEF Process, HandlerError, HandleTaskCreated, FindOverdue, Touch, FindBatch, SoundTogether
<1>2. ToRemoveBy(j, u) = {}
  BY DEF Process, HandlerError, HandleTaskCreated, FindOverdue, Touch, FindBatch, Finds, In,
         ToRemoveBy, AtStage
<1>3. \E job : Becomes(j, job)
  BY DEF Process, HandlerError, HandleTaskCreated, FindOverdue, Touch, FindBatch, Throws
<1>4. BatchesGoOn(u, K)
  BY <1>2, <1>3, OneJobLeaves
<1>5. OnlyRemoves(u) /\ SpareRows(u) /\ \A s : SpareKnown(u, s)
  BY <1>1, RemovesOnly DEF SpareRows, SpareKnown
<1> QED BY <1>1, <1>4, <1>5, WorkerTends

\* The UPDATE of a batch: what its users have cached is still to be removed, and no other
\* user's task has changed.
LEMMA UpdateBatchTends ==
    ASSUME SoundTogether, NEW u \in Users, Tended(u), NEW K, NoteLeft(K), Recorded(u),
           ~ContendedTogether(u)',
           NEW j \in JobIds, UpdateBatch(j)
    PROVE  Tended(u)'
<1> DEFINE job == jobs[j]
<1>1. /\ UNCHANGED <<writes, req>>
      /\ UNCHANGED cacheVars
      /\ Sound
      /\ job \in WorkerJob
      /\ job # Null
      /\ job.pc = "update"
      /\ Becomes(j, Invalidating(job))
      /\ InOrder(job)
  BY DEF UpdateBatch, In, SoundTogether, JobsInv
<1>2. job.name = "batch-task-update"
  BY <1>1 DEF InOrder, Staged
<1>3. OnlyRemoves(u)
  BY <1>1, RemovesOnly
<1>4. Active(u)' = Active(u)
  BY <1>1 DEF Active, At, Op, User
<1>5. CASE u \in job.users
  <2>1. j \in Changing(u)
    BY <1>1, <1>2, <1>5 DEF Changing
  <2>2. Active(u) = {}
    BY <2>1 DEF Tended, ContendedTogether
  <2> DEFINE new == Invalidating(job)
  <2>3. /\ new # Null
        /\ new.name = "batch-task-update"
        /\ new.pc = "invalidate"
        /\ new.users = job.users
        /\ new.stage[u] = "stats"
    <3>1. Invalidating(job) \in WorkerJob
      BY <1>1, JobRecord
    <3> QED BY <1>1, <1>2, <1>5, <3>1, JobRecord
  <2> HIDE DEF new
  <2>4. jobs'[j] = new
    BY <1>1 DEF Becomes, SoundTogether, new
  <2>5. j \in Changing(u)' /\ \A k \in KeysOf(u) : k \in ToRemoveBy(j, u)'
    BY <1>5, <2>3, <2>4 DEF Changing, ToRemoveBy, AtStage, In
  <2>6. \A e \in EntriesOf(u) : Accounted(e, u)'
    BY <2>5 DEF Accounted, EntriesOf
  <2>7. EntriesOf(u)' = EntriesOf(u)
    BY DEF EntriesOf
  <2> QED BY <1>4, <2>2, <2>6, <2>7 DEF Tended
<1>6. CASE u \notin job.users
  <2>1. SpareRows(u)
    BY <1>6, BatchRows, SameBoard DEF SpareRows
  <2>2. ASSUME NEW s \in Active(u)
        PROVE  SpareKnown(u, s)
    BY <1>6, BatchRows DEF SpareKnown, FreeRow, Active
  <2>3. ToRemoveBy(j, u) = {}
    BY <1>1 DEF ToRemoveBy, AtStage, In
  <2>4. BatchesGoOn(u, K)
    BY <1>1, <2>3, OneJobLeaves
  <2> QED BY <1>1, <1>3, <2>1, <2>2, <2>4, WorkerTends
<1> QED BY <1>5, <1>6

\* A cleanup, as the users see it whose tasks it does not delete.
LEMMA CleanupTends ==
    ASSUME SoundTogether, NEW u \in Users, Tended(u), NEW K, NoteLeft(K), Recorded(u),
           ~ContendedTogether(u)',
           NEW j \in JobIds, HandleCleanupCompletedTasks(j), u \notin Cleaned
    PROVE  Tended(u)'
<1>1. /\ UNCHANGED <<writes, req>>
      /\ UNCHANGED cacheVars
      /\ Sound
      /\ Becomes(j, Null)
      /\ ToRemoveBy(j, u) = {}
  BY DEF HandleCleanupCompletedTasks, In, SoundTogether, ToRemoveBy, AtStage
<1>2. OnlyRemoves(u) /\ BatchesGoOn(u, K)
  BY <1>1, RemovesOnly, OneJobLeaves
<1>3. ASSUME NEW id \in TaskIds, rows'[id] # rows[id]
      PROVE  /\ FreeRow(id)
             /\ IsRow(rows[id])
             /\ rows[id].userId # u
             /\ ~IsRow(rows'[id])
  <2>1. FreeRow(id) /\ IsRow(rows[id]) /\ rows'[id] = Deleted
    BY <1>3, CleanupRows
  <2> QED BY <2>1, MarkersAssumption DEF Cleaned, IsRow
<1>4. SpareRows(u)
  BY <1>3, SameBoard DEF SpareRows
<1>5. \A s \in Active(u) : SpareKnown(u, s)
  BY <1>3 DEF SpareKnown, FreeRow, Active
<1> QED BY <1>1, <1>2, <1>4, <1>5, WorkerTends

\* invalidateUserCaches: what an await does not come to, the next ones do; another user's
\* part of it stays where it is.
LEMMA InvalidateByWorkerTends ==
    ASSUME SoundTogether, NEW u \in Users, Tended(u), NEW j \in JobIds, NEW v \in Users,
           NoteLeft(WorkerTargets(j, v)), Recorded(u), ~ContendedTogether(u)', InvalidateByWorker(j, v)
    PROVE  Tended(u)'
<1> DEFINE job == jobs[j]
<1>1. /\ UNCHANGED <<rows, writes, req>>
      /\ Sound
      /\ job # Null
      /\ job.pc = "invalidate"
      /\ job \in WorkerJob
      /\ OnlyRemoves(u)
  BY RemovesOnly
     DEF InvalidateByWorker, WorkerInvalidatesStats, WorkerInvalidatesLists, WorkerDeletesLists,
         AtStage, In, SoundTogether
<1>2. PICK stage \in {"none", "stats", "lists", "del"}, listed \in SUBSET CacheKeys :
          /\ Proceed(j, v, stage, listed)
          /\ \/ job.stage[v] = "stats" /\ stage = "lists"
             \/ job.stage[v] = "lists" /\ stage \in {"none", "del"}
             \/ job.stage[v] = "del" /\ stage = "none"
  BY WorkerProceeds
<1> DEFINE new == [job EXCEPT !.stage[v] = stage, !.listed[v] = listed]
<1>3. /\ new \in WorkerJob
      /\ new # Null
      /\ new.name = job.name
      /\ new.pc = job.pc
      /\ new.users = job.users
      /\ new.stage[v] = stage
      /\ \A w \in Users : w # v => new.stage[w] = job.stage[w]
  <2>1. new \in WorkerJob
    BY <1>1 DEF WorkerJob
  <2>2. /\ new.name = job.name
        /\ new.pc = job.pc
        /\ new.users = job.users
        /\ new.stage[v] = stage
        /\ \A w \in Users : w # v => new.stage[w] = job.stage[w]
    BY <1>1 DEF WorkerJob
  <2> HIDE DEF new
  <2>3. new # Null
    BY <2>1, QueueAssumption
  <2> QED BY <2>1, <2>2, <2>3
<1>4. jobs'[j] = IF new.stage = NobodysStage THEN Null ELSE new
  BY <1>2 DEF Proceed, Becomes, SoundTogether
<1>5. \A i \in JobIds : i # j => jobs'[i] = jobs[i]
  BY <1>2 DEF Proceed, Becomes, SoundTogether
<1> HIDE DEF new, job
<1>6. new.stage = NobodysStage => \A w \in Users : new.stage[w] = "none"
  BY DEF NobodysStage
<1>7. WorkerTargets(j, v) =
          IF job.stage[v] = "stats" THEN {StatsKey(v)}
          ELSE IF job.stage[v] = "lists" /\ stage = "del" THEN {}
          ELSE KeysOf(v) \ {StatsKey(v)}
  BY <1>1, <1>2, <1>3, <1>4, <1>6 DEF WorkerTargets, AtStage, In, ListKeys, job
<1>8. BatchesGoOn(u, WorkerTargets(j, v))
  <2> SUFFICES ASSUME NEW i \in Changing(u), NEW k \in ToRemoveBy(i, u)
               PROVE  \/ k \in WorkerTargets(j, v)
                      \/ i \in Changing(u)' /\ k \in ToRemoveBy(i, u)'
    BY DEF BatchesGoOn
  <2>0. i \in JobIds
    BY DEF Changing
  <2>1. CASE i # j
    BY <1>5, <2>0, <2>1 DEF Changing, ToRemoveBy, AtStage, In
  <2>2. CASE i = j /\ u # v
    <3>1. new.stage[u] = job.stage[u] /\ job.stage[u] # "none"
      BY <1>3, <2>2 DEF ToRemoveBy, AtStage, job
    <3>2. jobs'[j] = new
      BY <1>4, <1>6, <3>1
    <3> QED BY <1>3, <2>2, <3>1, <3>2 DEF Changing, ToRemoveBy, AtStage, In, job
  <2>3. CASE i = j /\ u = v /\ stage = "none"
    BY <1>2, <1>7, <2>3 DEF ToRemoveBy, AtStage, job
  <2>4. CASE i = j /\ u = v /\ stage # "none"
    <3>1. jobs'[j] = new
      BY <1>3, <1>4, <1>6, <2>4
    <3>2. k \in KeysOf(u)
      BY DEF ToRemoveBy
    <3>3. k \in WorkerTargets(j, v) \/ k # StatsKey(u)
      BY <1>2, <1>7, <2>4 DEF ToRemoveBy, AtStage, job
    <3>4. k \notin WorkerTargets(j, v) => k \in ToRemoveBy(j, u)'
      BY <1>1, <1>2, <1>3, <2>4, <3>1, <3>2, <3>3 DEF ToRemoveBy, AtStage, In
    <3>5. j \in Changing(u)'
      BY <1>3, <2>4, <3>1 DEF Changing, job
    <3> QED BY <2>4, <3>4, <3>5
  <2> QED BY <2>1, <2>2, <2>3, <2>4
<1> QED BY <1>1, <1>8, WorkerTends DEF SpareRows, SpareKnown

\* The cache by itself.
LEMMA CacheTends ==
    ASSUME Sound, NEW u \in Users, Tended(u), NEW K, NoteLeft(K), Recorded(u),
           ~ContendedTogether(u)',
           BatchesGoOn(u, K), CacheEvent
    PROVE  Tended(u)'
BY RemovesOnly, WorkerTends DEF CacheEvent, SpareRows, SpareKnown

\* The process stops: of the user, nothing was under way that writes before it invalidates.
LEMMA RestartTends ==
    ASSUME SoundTogether, NEW u \in Users, Tended(u), NEW K, NoteLeft(K), Recorded(u),
           ~ContendedTogether(u)',
           RestartTogether, ~CommittedFirst(u)
    PROVE  Tended(u)'
<1>1. Cache!CacheRestart /\ rows' = rows /\ \A s \in Reqs : req'[s].pc = "idle"
  BY IdleRequest DEF RestartTogether, Restart
<1>2. OnlyRemoves(u)
  BY <1>1, RemovesOnly
<1>3. SpareRows(u) /\ Active(u)' = {}
  BY <1>1 DEF SpareRows, Active, At
<1>4. BatchesGoOn(u, K) /\ \A s \in Active(u) : StatusGoesOn(u, s, K)
  BY DEF CommittedFirst, BatchesGoOn, StatusGoesOn
<1> QED BY <1>2, <1>3, <1>4, Tends

-----------------------------------------------------------------------------
(* What is left. *)

\* History: a user is not troubled who has not been and whom the step leaves alone, or
\* who has nothing cached and nothing under way.
LEMMA Watched ==
    ASSUME NEW u \in Users, NEW excused, Watching(excused), ~troubled'[u],
           ~troubled[u] /\ ~ContendedTogether(u)' /\ u \notin excused /\ Recorded(u) => Tended(u)'
    PROVE  Tended(u)'
<1>1. CASE SettledTogether(u)'
  <2>1. Active(u)' = {} /\ \A k \in KeysOf(u) : redis'[k] = Null /\ fallback'[k] = Null
    BY <1>1 DEF SettledTogether, Settled
  <2>2. \A e \in EntriesOf(u) : Stored(e)' = Null
    BY <2>1 DEF EntriesOf, Stored
  <2>3. EntriesOf(u)' = EntriesOf(u)
    BY DEF EntriesOf
  <2>4. ~ContendedTogether(u)'
    BY <1>1, <2>1 DEF SettledTogether, ContendedTogether, Contended
  <2> QED BY <2>1, <2>2, <2>3, <2>4 DEF Tended, Accounted, MayShow
<1>2. CASE ~SettledTogether(u)'
  <2>1. ~troubled[u] /\ ~ContendedTogether(u)' /\ u \notin excused /\ Recorded(u)
    BY <1>2 DEF Watching, Recorded
  <2> QED BY <2>1
<1> QED BY <1>1, <1>2

\* A step keeps what holds of a user whose requests and batches do not overlap, whom a
\* restart does not interrupt, and none of whose tasks a cleanup deletes.
LEMMA NextTends ==
    ASSUME SoundTogether, NEW u \in Users, ~troubled[u] => Tended(u), NextTogether, ~troubled'[u]
    PROVE  Tended(u)'
<1>0. Sound
  BY DEF SoundTogether
<1>1. ASSUME NEW K, NoteLeft(K), Alone,
             Tended(u) /\ ~ContendedTogether(u)' /\ Recorded(u) /\ BatchesGoOn(u, K) => Tended(u)'
      PROVE  Tended(u)'
  BY <1>1, ClosingLeaves, Watched DEF Alone
<1>2. ASSUME Quietly, Tended(u) /\ ~ContendedTogether(u)' /\ Recorded(u) /\ NoteLeft({}) => Tended(u)'
      PROVE  Tended(u)'
  BY <1>2, Watched DEF Quietly
<1>3. ASSUME NEW r \in Reqs, NEW c \in Calls, Begin(r, c) /\ Alone /\ NoteLeft({})
      PROVE  Tended(u)'
  BY <1>0, <1>1, <1>3, BeginTends
<1>4. ASSUME NEW r \in Reqs, Invalidate(r) /\ Alone /\ NoteLeft(Targets(r))
      PROVE  Tended(u)'
  BY <1>0, <1>1, <1>4, InvalidateTends
<1>5. ASSUME NEW r \in Reqs, (StepElsewhere(r) \/ DbError(r)) /\ Alone /\ NoteLeft({})
      PROVE  Tended(u)'
  BY <1>1, <1>5, StepTends
<1>6. CASE CacheEvent /\ Alone /\ NoteLeft({})
  BY <1>0, <1>1, <1>6, CacheTends
<1>7. ASSUME NEW r \in Reqs, EnqueueTogether(r) /\ Quietly
      PROVE  Tended(u)'
  <2>1. BatchesGoOn(u, {})
    <3>1. CASE UNCHANGED jobs
      BY <3>1, BatchesStay
    <3>2. CASE ~UNCHANGED jobs
      BY <1>7, <3>2, PutLeaves DEF EnqueueTogether
    <3> QED BY <3>1, <3>2
  <2> QED BY <1>2, <1>7, <2>1, StepTends DEF EnqueueTogether
<1>8. ASSUME NEW job \in OtherJobs, AddOther(job) /\ Quietly
      PROVE  Tended(u)'
  <2>1. BatchesGoOn(u, {}) /\ UNCHANGED <<rows, writes, req>> /\ OnlyRemoves(u)
    BY <1>8, PutLeaves, RemovesOnly DEF AddOther
  <2>2. SpareRows(u) /\ \A s : SpareKnown(u, s)
    BY <2>1 DEF SpareRows, SpareKnown
  <2> QED BY <1>0, <1>2, <1>8, <2>1, <2>2, WorkerTends
<1>9. CASE RestartTogether /\ Watching({v \in Users : CommittedFirst(v)}) /\ NoteLeft({})
  BY <1>9, RestartTends, Watched
<1>10. ASSUME NEW j \in JobIds, Quietly,
              \/ Process(j) \/ HandlerError(j) \/ HandleTaskCreated(j) \/ FindOverdue(j)
              \/ (\E id \in TaskIds : Touch(j, id)) \/ FindBatch(j)
       PROVE  Tended(u)'
  BY <1>2, <1>10, HandlerTends
<1>11. ASSUME NEW j \in JobIds, UpdateBatch(j) /\ Quietly
       PROVE  Tended(u)'
  BY <1>2, <1>11, UpdateBatchTends
<1>12. ASSUME NEW j \in JobIds, HandleCleanupCompletedTasks(j) /\ Watching(Cleaned) /\ NoteLeft({})
       PROVE  Tended(u)'
  BY <1>12, CleanupTends, Watched
<1>13. ASSUME NEW j \in JobIds, NEW v \in Users,
              InvalidateByWorker(j, v) /\ Watching({}) /\ NoteLeft(WorkerTargets(j, v))
       PROVE  Tended(u)'
  BY <1>13, InvalidateByWorkerTends, Watched
<1> QED BY <1>3, <1>4, <1>5, <1>6, <1>7, <1>8, <1>9, <1>10, <1>11, <1>12, <1>13 DEF NextTogether

\* At the start nothing is stored, and nobody has called.
LEMMA TendedInit == InitTogether => TendedUnlessTroubled
<1> SUFFICES ASSUME InitTogether, NEW u \in Users PROVE Tended(u)
  BY DEF TendedUnlessTroubled
<1>1. /\ redis = Cache!EmptyTier
      /\ fallback = Cache!EmptyTier
      /\ req = [r \in Reqs |-> Idle]
      /\ jobs = [j \in JobIds |-> Null]
  BY DEF InitTogether, Init, Cache!CacheInit
<1>2. \A e \in EntriesOf(u) : Stored(e) = Null
  BY <1>1 DEF EntriesOf, KeysOf, Stored, Cache!EmptyTier
<1>3. Active(u) = {} /\ Changing(u) = {}
  BY <1>1, IdleRequest DEF Active, At, Changing
<1> QED BY <1>2, <1>3 DEF Tended, ContendedTogether, Contended, Accounted, MayShow

\* Every step keeps the invariant.
LEMMA TendedNext ==
    SoundTogether /\ TendedUnlessTroubled /\ [NextTogether]_varsTogether => TendedUnlessTroubled'
<1> SUFFICES ASSUME SoundTogether, TendedUnlessTroubled, [NextTogether]_varsTogether,
                    NEW u \in Users, ~troubled'[u]
             PROVE  Tended(u)'
  BY DEF TendedUnlessTroubled
<1>1. CASE NextTogether
  BY <1>1, NextTends DEF TendedUnlessTroubled
<1>2. CASE UNCHANGED varsTogether
  <2>1. UNCHANGED <<rows, writes, req, troubled, edited, redis, fallback, jobs, left>>
    BY <1>2 DEF varsTogether, vars, cacheVars
  <2>2. Tended(u)
    BY <2>1 DEF TendedUnlessTroubled
  <2>3. /\ Active(u)' = Active(u)
        /\ Changing(u)' = Changing(u)
        /\ EntriesOf(u)' = EntriesOf(u)
        /\ \A e : Stored(e)' = Stored(e)
        /\ \A r : ToRemove(r)' = ToRemove(r)
        /\ \A j : ToRemoveBy(j, u)' = ToRemoveBy(j, u)
        /\ \A e : Gone(e)' <=> Gone(e)
    BY <2>1 DEF Active, At, Op, User, Owner, Changing, EntriesOf, Stored, ToRemove, ToRemoveBy,
                AtStage, In, Gone
  <2>4. ~ContendedTogether(u)'
    BY <2>1, <2>2, <2>3 DEF Tended, ContendedTogether, Contended, Op
  <2>5. \A r : Steady(r) => Steady(r)'
    BY <2>1, <2>3 DEF Steady, ReadsNow, FoundNow, BeenOver, Harmless, IsRow, Op, User, At, EntriesOf
  <2>6. \A e : Accounted(e, u) => Accounted(e, u)'
    BY <2>1, <2>3 DEF Accounted, MayShow, Boards, Op
  <2> QED BY <2>2, <2>3, <2>4, <2>5, <2>6 DEF Tended
<1> QED BY <1>1, <1>2

\* Of a user whose requests and batch handlers do not overlap, whom no restart interrupts
\* between a change and its invalidation, and none of whose tasks a cleanup deletes, what
\* is cached disagrees with the table only if an invalidation came to that very entry and
\* left it; except for the title, description and due date of a task that an update
\* changed together with nothing else, for which none comes.  That is so whatever commands
\* of Redis fail or lose their answers, however the tier changes, whatever statements fail,
\* for any users, tasks, requests, filters and jobs.
THEOREM NothingForgotten == SpecTogether => []StaleOnlyIfLeft
<1>1. SoundTogether /\ TendedUnlessTroubled => StaleOnlyIfLeft
  <2> SUFFICES ASSUME SoundTogether, TendedUnlessTroubled,
                      NEW u \in Users, ~troubled[u], Active(u) = {}, Changing(u) = {},
                      NEW k \in KeysOf(u), Disagrees(k, u)
               PROVE  <<IF isRedisAvailable THEN "redis" ELSE "fallback", k>> \in left
    BY DEF StaleOnlyIfLeft
  <2> DEFINE e == <<IF isRedisAvailable THEN "redis" ELSE "fallback", k>>
  <2>1. e \in EntriesOf(u) /\ e[2] = k
    BY DEF EntriesOf, Entries, KeysOf
  <2>2. Stored(e) = TierInUse[k]
    BY DEF Stored, TierInUse
  <2> HIDE DEF e
  <2>3. Accounted(e, u)
    BY <2>1 DEF TendedUnlessTroubled, Tended
  <2>4. e \in left
    BY <2>1, <2>2, <2>3 DEF Accounted, Disagrees
  <2> QED BY <2>4 DEF e
<1> QED BY <1>1, SoundTogetherInit, SoundTogetherNext, TendedInit, TendedNext, PTL DEF SpecTogether

=============================================================================
