---------------------------- MODULE TasksService ----------------------------
(***************************************************************************)
(* The tasks module: src/modules/tasks/tasks.service.ts over Postgres (at  *)
(* its default READ COMMITTED) and the CacheService.                       *)
(*                                                                         *)
(* A request is a call in flight; every await of the code is one action of *)
(* it, so that requests interleave at each of them.  rows is what is       *)
(* committed.  A transaction's own changes are in writes until it commits; *)
(* a row with a pending write is locked, and a statement of another        *)
(* request on it waits.  A statement that waited acts on the row as it is  *)
(* by then.                                                                *)
(*                                                                         *)
(* Data: of a row, its owner, its status, its priority, and as "details"   *)
(* the rest that a body carries: title, description and due date.  A page  *)
(* is the whole selection.  No due date passes meanwhile: entries have a   *)
(* time to live for that.                                                  *)
(***************************************************************************)
EXTENDS Naturals, FiniteSets

CONSTANTS
    Users, TaskIds, Reqs,
    Statuses, Priorities,  \* the values of the enums in use
    Details, Overdue,      \* titles etc. in use; those with a due date that has passed
    Filters,               \* the TaskFilterDtos in use
    Sent,                  \* the fields that bodies of POST and PATCH carry
    Ops,                   \* the operations that are called
    Tables,                \* the task tables the system may start with
    Null, Unborn, Deleted, \* an absent value; a row not yet, or no longer, there
    DbFails,               \* may a statement or a COMMIT fail?
    QueueFails,            \* may taskQueue.add fail?
    Restarts,              \* may the process stop and start again?
    MaxFallbackSize, CommandsFail, Flips, StartsAvailable \* of the CacheService

Fields == [status: Statuses, priority: Priorities, details: Details]
Row == [userId: Users, status: Statuses, priority: Priorities, details: Details]
Patches == [status: Statuses \cup {Null}, priority: Priorities \cup {Null},
            details: Details \cup {Null}]

\* A filter with the details that its search text is found in
FilterDtos == [status: Statuses \cup {Null}, priority: Priorities \cup {Null},
               search: SUBSET Details]

ASSUME EnumAssumption ==
    /\ {"PENDING", "COMPLETED"} \subseteq Statuses
    /\ "MEDIUM" \in Priorities
    /\ Overdue \subseteq Details
    /\ Filters \subseteq FilterDtos
    /\ Sent \subseteq Patches
ASSUME MarkersAssumption ==
    /\ Unborn # Deleted
    /\ Null # Unborn
    /\ Null # Deleted
    /\ Unborn \notin Row
    /\ Deleted \notin Row
    /\ Null \notin Row
    /\ Null \notin Statuses
    /\ Null \notin Priorities
    /\ Null \notin Details
    /\ Null \notin Users
    /\ Null \notin Filters
    /\ Null \notin Fields
ASSUME SwitchesAssumption ==
    /\ {DbFails, QueueFails, Restarts, CommandsFail, Flips} \subseteq BOOLEAN
    /\ StartsAvailable \subseteq BOOLEAN
    /\ StartsAvailable # {}
    /\ MaxFallbackSize \in Nat
ASSUME TablesAssumption ==
    /\ Tables \subseteq [TaskIds -> Row \cup {Unborn}]
    /\ IsFiniteSet(TaskIds)

\* `tasks:${userId}:${JSON.stringify(filterDto)}` and `stats:${userId}`
CacheKeys == [kind: {"tasks"}, user: Users, filter: Filters]
             \cup [kind: {"stats"}, user: Users, filter: {Null}]

StatsKey(u) == [kind |-> "stats", user |-> u, filter |-> Null]

KeysOf(u) == {k \in CacheKeys : k.user = u}

ListKeys(u) == KeysOf(u) \ {StatsKey(u)}

\* A cached PaginatedResult or TaskStatistics
CachedValues == [data: (UNION {[S -> Fields] : S \in SUBSET TaskIds})
                       \cup [completed: Nat, pending: Nat, overdue: Nat],
                 total: Nat]

VARIABLES
    rows,     \* the committed table
    writes,   \* per request: what its open transaction has written
    req,      \* per request: where it is and its local variables
    troubled, \* history, per user: have requests of the user's overlapped?
    edited,   \* history, per user: tasks that an update has changed without invalidating
    redis, fallback, lapsed, isRedisAvailable

Cache == INSTANCE CacheService WITH Keys <- CacheKeys, Values <- CachedValues

cacheVars == <<redis, fallback, lapsed, isRedisAvailable>>
vars == <<rows, writes, req, troubled, edited, cacheVars>>

-----------------------------------------------------------------------------
(* What the queries return. *)

IsRow(x) == x \in Row

\* WHERE user_id = u
Board(u, table) ==
    [id \in TaskIds |-> IF IsRow(table[id]) /\ table[id].userId = u
                        THEN [status |-> table[id].status, priority |-> table[id].priority,
                              details |-> table[id].details]
                        ELSE Null]

Selects(f, fields) ==
    /\ f.status \in {Null, fields.status}
    /\ f.priority \in {Null, fields.priority}
    /\ fields.details \in f.search

Selection(f, b) == {id \in TaskIds : b[id] # Null /\ Selects(f, b[id])}

Having(b, status) == {id \in TaskIds : b[id] # Null /\ b[id].status = status}

Late(b) == {id \in TaskIds : b[id] # Null /\ b[id].status # "COMPLETED" /\ b[id].details \in Overdue}

ListView(f, b) ==
    [data  |-> [id \in Selection(f, b) |-> b[id]],
     total |-> Cardinality(Selection(f, b))]

\* The counters whose SQL aliases survive Postgres' folding to lower case:
\* inProgress, highPriority, mediumPriority and lowPriority come back under
\* other names, so that parseInt makes NaN of them whatever the table holds
StatsView(b) ==
    [data  |-> [completed |-> Cardinality(Having(b, "COMPLETED")),
                pending   |-> Cardinality(Having(b, "PENDING")),
                overdue   |-> Cardinality(Late(b))],
     total |-> Cardinality({id \in TaskIds : b[id] # Null})]

View(k, b) == IF k.kind = "stats" THEN StatsView(b) ELSE ListView(k.filter, b)

-----------------------------------------------------------------------------
(* Calls. *)

NoPatch == [status |-> Null, priority |-> Null, details |-> Null]

\* The DTO that a body becomes: CreateTaskDto initialises status and priority,
\* and UpdateTaskDto, its PartialType, takes the initialisers over
Dto(body) ==
    [status   |-> IF body.status = Null THEN "PENDING" ELSE body.status,
     priority |-> IF body.priority = Null THEN "MEDIUM" ELSE body.priority,
     details  |-> body.details]

OpNames == {"read", "create", "update", "remove", "complete", "delete", "unknown", "updateStatus"}

BatchOps == {"complete", "delete", "unknown"}

\* findAllWithFilters and getStatistics ("read", by the key they cache under),
\* create (which needs a title), update, remove, batchProcess by its action, updateStatus
NoCall == [op |-> "read", user |-> Null, ids |-> {}, patch |-> NoPatch, key |-> Null]

CallsOf(ops, users, idSets, patches) ==
    [op: ops, user: users, ids: idSets, patch: patches, key: {Null}]

OneTask == {{id} : id \in TaskIds}

Calls ==
    {[NoCall EXCEPT !.user = k.user, !.key = k] : k \in CacheKeys}
    \cup CallsOf({"create"}, Users, OneTask, {Dto(body) : body \in {b \in Sent : b.details # Null}})
    \cup CallsOf({"update"}, Users, OneTask, {Dto(body) : body \in Sent})
    \cup CallsOf({"remove"}, Users, OneTask, {NoPatch})
    \cup CallsOf(BatchOps, Users, SUBSET TaskIds \ {{}}, {NoPatch})
    \cup CallsOf({"updateStatus"}, {Null}, OneTask, {[NoPatch EXCEPT !.status = s] : s \in Statuses})

NoJob == [name |-> "none", taskId |-> Null, oldStatus |-> Null, newStatus |-> Null]

Job == [name: {"task-created", "task-status-updated"}, taskId: TaskIds,
        oldStatus: Statuses \cup {Null}, newStatus: Statuses]

Labels == {"idle", "get", "rows", "count", "set",
           "find", "load", "write", "reread", "stats", "lists", "del", "add", "commit"}

Request ==
    [pc: Labels,
     call: Calls \cup {NoCall},
     orig: Row \cup {Null},              \* the task findOne returned
     seen: Row \cup {Null},              \* the task as update read it again
    todo: SUBSET TaskIds,               \* rows the statement has still to reach
     changed: SUBSET {"status", "priority", "details", "insert"},
     view: CachedValues \cup {Null},     \* the answer of a read so far
     listed: SUBSET CacheKeys,           \* what KEYS returned
     job: Job \cup {NoJob},              \* the job it added to the queue
     born: SUBSET TaskIds]               \* history: the user's rows when it was called

Idle == [pc |-> "idle", call |-> NoCall, orig |-> Null, seen |-> Null, todo |-> {},
         changed |-> {}, view |-> Null, listed |-> {}, job |-> NoJob, born |-> {}]

NoWrites == [id \in TaskIds |-> Null]

TypeOK ==
    /\ rows \in [TaskIds -> Row \cup {Unborn, Deleted}]
    /\ writes \in [Reqs -> [TaskIds -> Row \cup {Deleted, Null}]]
    /\ req \in [Reqs -> Request]
    /\ troubled \in [Users -> BOOLEAN]
    /\ edited \in [Users -> SUBSET TaskIds]
    /\ Cache!CacheTypeOK

Init ==
    /\ rows \in Tables
    /\ writes = [r \in Reqs |-> NoWrites]
    /\ req = [r \in Reqs |-> Idle]
    /\ troubled = [u \in Users |-> FALSE]
    /\ edited = [u \in Users |-> {}]
    /\ Cache!CacheInit

At(r, label) == req[r].pc = label

Op(r) == req[r].call.op

User(r) == req[r].call.user

\* Whose cache a write invalidates: updateStatus goes by the task it found
Owner(r) == IF Op(r) = "updateStatus" THEN req[r].orig.userId ELSE User(r)

Goto(r, label) == req' = [req EXCEPT ![r].pc = label]

Return(r) == req' = [req EXCEPT ![r] = Idle]

\* SET of the fields a patch has
Patched(row, p) ==
    [row EXCEPT !.status = IF p.status = Null THEN @ ELSE p.status,
                !.priority = IF p.priority = Null THEN @ ELSE p.priority,
                !.details = IF p.details = Null THEN @ ELSE p.details]

\* The patch that gives a row some of the columns of another one
Columns(F, row) ==
    [status   |-> IF "status" \in F THEN row.status ELSE Null,
     priority |-> IF "priority" \in F THEN row.priority ELSE Null,
     details  |-> IF "details" \in F THEN row.details ELSE Null]

\* What the statement of a call makes of a row
NewRow(c, row) ==
    CASE c.op = "create" -> [userId |-> c.user, status |-> c.patch.status,
                             priority |-> c.patch.priority, details |-> c.patch.details]
      [] c.op = "update" -> Patched(row, c.patch)
      [] c.op = "complete" -> [row EXCEPT !.status = "COMPLETED"]
      [] OTHER -> Deleted

Unlocked(r, id) == \A s \in Reqs \ {r} : writes[s][id] = Null

-----------------------------------------------------------------------------
(* Reads: get, miss, query, set. *)

\* A request arrives.  The id of a new task is a fresh uuid; updateStatus is
\* called by the worker, for no user
Begin(r, c) ==
    /\ At(r, "idle")
    /\ c.op \in Ops
    /\ c.op = "create" =>
          \A id \in c.ids : /\ rows[id] = Unborn
                            /\ \A s \in Reqs : ~(Op(s) = "create" /\ id \in req[s].call.ids)
    /\ req' = [req EXCEPT ![r] = [Idle EXCEPT
                  !.pc = IF c.op = "read" THEN "get" ELSE IF c.op = "create" THEN "write" ELSE "find",
                  !.call = c,
                  !.todo = IF c.op = "create" THEN c.ids ELSE {},
                  !.born = {id \in c.ids : IsRow(rows[id]) /\ rows[id].userId = c.user}]]
    /\ UNCHANGED <<rows, writes, cacheVars>>

ReadCache(r) ==
    /\ At(r, "get")
    /\ LET k == req[r].call.key
       IN \E v \in {Null, redis[k], fallback[k]} :
             /\ Cache!Get(k, v)
             /\ IF v # Null THEN Return(r) ELSE Goto(r, "rows")
    /\ UNCHANGED <<rows, writes>>

\* getRawOne of the statistics, or the first SELECT of getManyAndCount
QueryRows(r) ==
    /\ At(r, "rows")
    /\ LET k == req[r].call.key
           v == View(k, Board(User(r), rows))
       IN req' = [req EXCEPT ![r].pc = IF k.kind = "stats" THEN "set" ELSE "count",
                             ![r].view = v]
    /\ UNCHANGED <<rows, writes, cacheVars>>

\* The second SELECT of getManyAndCount: another snapshot
QueryCount(r) ==
    /\ At(r, "count")
    /\ LET v == View(req[r].call.key, Board(User(r), rows))
       IN req' = [req EXCEPT ![r].pc = "set", ![r].view = [@ EXCEPT !.total = v.total]]
    /\ UNCHANGED <<rows, writes, cacheVars>>

\* A set that throws fails the request, which has nothing to undo
FillCache(r) ==
    /\ At(r, "set")
    /\ \E ok \in BOOLEAN : Cache!Set(req[r].call.key, req[r].view, ok)
    /\ Return(r)
    /\ UNCHANGED <<rows, writes>>

-----------------------------------------------------------------------------
(* Writes: find, statement, invalidation, job, COMMIT. *)

Found(r) == {id \in req[r].call.ids : IsRow(rows[id]) /\ rows[id].userId = User(r)}

\* (mutant: a task that is not there is not refused)
FindTaskUnchecked(r) ==
    /\ At(r, "find")
    /\ Op(r) \in {"update", "remove"}
    /\ \E id \in req[r].call.ids :
          req' = [req EXCEPT ![r].pc = "write", ![r].orig = rows[id], ![r].todo = {id}]
    /\ UNCHANGED <<rows, writes, cacheVars>>

\* findOne of update and remove: nothing is locked
FindTask(r) ==
    /\ At(r, "find")
    /\ Op(r) \in {"update", "remove"}
    /\ IF Found(r) = {}
       THEN Return(r)
       ELSE \E id \in Found(r) :
               req' = [req EXCEPT ![r].pc = "write", ![r].orig = rows[id], ![r].todo = {id}]
    /\ UNCHANGED <<rows, writes, cacheVars>>

\* find(In(taskIds)) of batchProcess
FindTasks(r) ==
    /\ At(r, "find")
    /\ Op(r) \in BatchOps
    /\ IF Found(r) = {} \/ Op(r) = "unknown"
       THEN Goto(r, "commit")
       ELSE req' = [req EXCEPT ![r].pc = "write", ![r].todo = Found(r)]
    /\ UNCHANGED <<rows, writes, cacheVars>>

\* (mutant: update saves the entity it found, patched, whatever the row is by now)
WriteFound(r) ==
    /\ At(r, "write")
    /\ Op(r) # "updateStatus"
    /\ \E id \in req[r].todo :
          /\ Unlocked(r, id)
          /\ writes' = IF Op(r) = "update" \/ Op(r) = "create" \/ IsRow(rows[id])
                       THEN [writes EXCEPT ![r][id] =
                                NewRow(req[r].call, IF Op(r) = "update" THEN req[r].orig ELSE rows[id])]
                       ELSE writes
          /\ req' = [req EXCEPT
                ![r].todo = @ \ {id},
                ![r].pc = IF req[r].todo # {id} THEN "write"
                          ELSE IF Op(r) = "update" THEN "reread" ELSE "stats"]
    /\ UNCHANGED <<rows, cacheVars>>

\* The INSERT, UPDATE or DELETE reaches one of its rows.  A row that is gone
\* by now does not match
Write(r) ==
    /\ At(r, "write")
    /\ Op(r) # "updateStatus"
    /\ \E id \in req[r].todo :
          /\ Unlocked(r, id)
          /\ writes' = IF Op(r) = "create" \/ IsRow(rows[id])
                       THEN [writes EXCEPT ![r][id] = NewRow(req[r].call, rows[id])]
                       ELSE writes
          /\ req' = [req EXCEPT
                ![r].todo = @ \ {id},
                ![r].pc = IF req[r].todo # {id} THEN "write"
                          ELSE IF Op(r) = "update" THEN "reread" ELSE "stats"]
    /\ UNCHANGED <<rows, cacheVars>>

\* What a transaction sees of a row
Sees(r, id) == IF writes[r][id] = Null THEN rows[id] ELSE writes[r][id]

\* (mutant: only a change of status counts as one)
RereadStatus(r) ==
    /\ At(r, "reread")
    /\ \E id \in req[r].call.ids :
          LET row == Sees(r, id)
              changed == {f \in {"status"} : req[r].orig[f] # row[f]}
          IN IF IsRow(row)
             THEN req' = [req EXCEPT ![r].seen = row, ![r].changed = changed,
                                     ![r].pc = IF changed = {} THEN "commit" ELSE "stats"]
             ELSE Return(r)
    /\ UNCHANGED <<rows, writes, cacheVars>>

\* The second findOne of update, and the comparison with the task found first.
\* updatedTask!.status of a task that has vanished throws: a rollback.  (One that
\* updateStatus has put back by now is there, and the transaction has written nothing)
Reread(r) ==
    /\ At(r, "reread")
    /\ \E id \in req[r].call.ids :
          LET row == Sees(r, id)
              changed == {f \in {"status", "priority"} : req[r].orig[f] # row[f]}
          IN IF IsRow(row)
             THEN req' = [req EXCEPT ![r].seen = row, ![r].changed = changed,
                                     ![r].pc = IF changed = {} THEN "commit" ELSE "stats"]
             ELSE Return(r)
    /\ UNCHANGED <<rows, writes, cacheVars>>

AfterInvalidation(r) ==
    CASE Op(r) = "create" -> Goto(r, "add")
      [] Op(r) = "update" -> Goto(r, IF "status" \in req[r].changed THEN "add" ELSE "commit")
      [] Op(r) = "updateStatus" -> Return(r)
      [] OTHER -> Goto(r, "commit")

\* (mutant: a delete that reports failure ends the invalidation)
InvalidateStatsOrStop(r) ==
    /\ At(r, "stats")
    /\ \E deleted \in BOOLEAN :
          /\ Cache!Delete(StatsKey(Owner(r)), deleted)
          /\ IF deleted THEN Goto(r, "lists") ELSE AfterInvalidation(r)
    /\ UNCHANGED <<rows, writes>>

\* invalidateUserCache: delete(`stats:${userId}`)
InvalidateStats(r) ==
    /\ At(r, "stats")
    /\ \E deleted \in BOOLEAN : Cache!Delete(StatsKey(Owner(r)), deleted)
    /\ Goto(r, "lists")
    /\ UNCHANGED <<rows, writes>>

\* The keys that contain the text `tasks:${userId}:*`, its '*' included
Containing(u) == {}

\* invalidatePattern(`tasks:${userId}:*`): KEYS on Redis, a loop on the Map
InvalidateLists(r) ==
    /\ At(r, "lists")
    /\ \/ \E listed \in {{}, ListKeys(Owner(r)) \cap Cache!Held(redis)}, ok \in BOOLEAN :
             /\ Cache!Scan(ListKeys(Owner(r)), listed, ok)
             /\ IF listed = {}
                THEN AfterInvalidation(r)
                ELSE req' = [req EXCEPT ![r].pc = "del", ![r].listed = listed]
       \/ Cache!Sweep(Containing(Owner(r))) /\ AfterInvalidation(r)
    /\ UNCHANGED <<rows, writes>>

\* invalidatePattern: DEL of what KEYS returned
DeleteLists(r) ==
    /\ At(r, "del")
    /\ \E ok \in BOOLEAN : Cache!DelInRedis(req[r].listed, ok)
    /\ AfterInvalidation(r)
    /\ UNCHANGED <<rows, writes>>

\* The status of the task that save returned, or update's second findOne
NewStatus(r) == IF Op(r) = "create" THEN req[r].call.patch.status ELSE req[r].seen.status

\* (mutant: oldStatus is read off the task after the UPDATE)
EnqueueLate(r) ==
    /\ At(r, "add")
    /\ \E id \in req[r].call.ids :
          LET job == [name |-> IF Op(r) = "create" THEN "task-created" ELSE "task-status-updated",
                      taskId |-> id,
                      oldStatus |-> NewStatus(r),
                      newStatus |-> NewStatus(r)]
          IN req' = [req EXCEPT ![r].job = job, ![r].pc = "commit"]
    /\ UNCHANGED <<rows, writes, cacheVars>>

\* taskQueue.add inside the transaction; its failure is a warning
Enqueue(r) ==
    /\ At(r, "add")
    /\ \E id \in req[r].call.ids :
          LET job == [name |-> IF Op(r) = "create" THEN "task-created" ELSE "task-status-updated",
                      taskId |-> id,
                      oldStatus |-> IF Op(r) = "create" THEN Null ELSE req[r].orig.status,
                      newStatus |-> NewStatus(r)]
          IN \E added \in {job} \cup (IF QueueFails THEN {NoJob} ELSE {}) :
                req' = [req EXCEPT ![r].job = added, ![r].pc = "commit"]
    /\ UNCHANGED <<rows, writes, cacheVars>>

Committed(r) == [id \in TaskIds |-> Sees(r, id)]

Commit(r) ==
    /\ At(r, "commit")
    /\ rows' = Committed(r)
    /\ writes' = [writes EXCEPT ![r] = NoWrites]
    /\ Return(r)
    /\ UNCHANGED cacheVars

-----------------------------------------------------------------------------
(* updateStatus: findOne, save, invalidation, without a transaction around. *)

FindForStatus(r) ==
    /\ At(r, "find")
    /\ Op(r) = "updateStatus"
    /\ \E id \in req[r].call.ids :
          IF IsRow(rows[id])
          THEN req' = [req EXCEPT ![r].pc = "load", ![r].orig = rows[id]]
          ELSE Return(r)
    /\ UNCHANGED <<rows, writes, cacheVars>>

\* The entity that save is given
Entity(r) == Patched(req[r].orig, req[r].call.patch)

\* save first loads the row anew, to find out which columns differ from the
\* entity's, or that there is no row to update
LoadForSave(r) ==
    /\ At(r, "load")
    /\ \E id \in req[r].call.ids :
          LET changed == IF IsRow(rows[id])
                         THEN {f \in {"status", "priority", "details"} : Entity(r)[f] # rows[id][f]}
                         ELSE {"insert"}
          IN req' = [req EXCEPT ![r].changed = changed,
                                ![r].pc = IF changed = {} THEN "stats" ELSE "write"]
    /\ UNCHANGED <<rows, writes, cacheVars>>

\* save's UPDATE of the columns that differed, or its INSERT; it commits alone
Save(r) ==
    /\ At(r, "write")
    /\ Op(r) = "updateStatus"
    /\ \E id \in req[r].call.ids :
          LET now == rows[id]
              new == IF "insert" \in req[r].changed THEN Entity(r)
                     ELSE IF IsRow(now) THEN Patched(now, Columns(req[r].changed, Entity(r)))
                     ELSE now
          IN /\ Unlocked(r, id)
             /\ rows' = [rows EXCEPT ![id] = new]
    /\ Goto(r, "stats")
    /\ UNCHANGED <<writes, cacheVars>>

-----------------------------------------------------------------------------
(* Failures. *)

\* (mutant: the transaction is left open)
LeaveOpen(r) == Return(r) /\ UNCHANGED <<rows, writes, cacheVars>>

RollBack(r) ==
    /\ writes' = [writes EXCEPT ![r] = NoWrites]
    /\ Return(r)
    /\ UNCHANGED <<rows, cacheVars>>

DbLabels == {"rows", "count", "find", "load", "write", "reread", "commit"}

\* (mutant: what was written before the error is kept)
DbErrorHalfway(r) ==
    /\ DbFails
    /\ req[r].pc \in DbLabels
    /\ rows' = Committed(r)
    /\ writes' = [writes EXCEPT ![r] = NoWrites]
    /\ Return(r)
    /\ UNCHANGED cacheVars

\* A statement or the COMMIT fails.  batchProcess catches the error of its
\* statement and lets the transaction end, which Postgres ends as a rollback
DbError(r) ==
    /\ DbFails
    /\ req[r].pc \in DbLabels
    /\ RollBack(r)

WaitsFor(r, s) ==
    /\ At(r, "write")
    /\ r # s
    /\ \A id \in req[r].todo : \E t \in Reqs \ {r} : writes[t][id] # Null
    /\ \E id \in req[r].todo : writes[s][id] # Null

InDeadlock(r) ==
    \E S \in SUBSET Reqs :
        /\ r \in S
        /\ \A s \in S : (\E t \in S : WaitsFor(s, t)) /\ (\E t \in S : WaitsFor(t, s))

\* Postgres' deadlock detector fails one of the statements
DeadlockAbort(r) == InDeadlock(r) /\ RollBack(r)

\* The process stops: open transactions are rolled back, the Map is lost
Restart ==
    /\ Restarts
    /\ writes' = [r \in Reqs |-> NoWrites]
    /\ req' = [r \in Reqs |-> Idle]
    /\ Cache!CacheRestart
    /\ UNCHANGED rows

CacheEvent ==
    /\ \/ Cache!Connect
       \/ Cache!ConnectionError
       \/ \E k \in CacheKeys : Cache!LapseInRedis(k) \/ Cache!LapseInFallback(k)
       \/ Cache!CleanupFallbackCache
    /\ UNCHANGED <<rows, writes, req>>

-----------------------------------------------------------------------------
\* History, per user: a writing request of the user's has been in flight
\* together with another one, and the user has cached values since
\* (a call of updateStatus counts as everyone's)
Active(u) == {r \in Reqs : ~At(r, "idle") /\ (User(r) = u \/ Op(r) = "updateStatus")}

Contended(u) == \E r, s \in Active(u) : r # s /\ Op(r) # "read"

Settled(u) == Active(u) = {} /\ \A k \in KeysOf(u) : redis[k] = Null /\ fallback[k] = Null

\* History, per user: the tasks with details that an update changes with nothing else
\* in this step, when it has not invalidated
EditedNow(u) ==
    {id \in TaskIds :
        /\ rows'[id] # rows[id]
        /\ \E r \in Active(u) : /\ Op(r) = "update"
                                /\ At(r, "commit")
                                /\ req[r].changed = {}
                                /\ id \in req[r].call.ids}

Watch ==
    /\ troubled' = [u \in Users |-> (troubled[u] \/ Contended(u)') /\ ~Settled(u)']
    /\ edited' = [u \in Users |-> IF Settled(u)' \/ troubled'[u] THEN {}
                                  ELSE edited[u] \cup EditedNow(u)]

\* invalidateUserCache
Invalidate(r) == InvalidateStats(r) \/ InvalidateLists(r) \/ DeleteLists(r)

\* All that a request does but invalidate and add its job
StepElsewhere(r) ==
    \/ ReadCache(r) \/ QueryRows(r) \/ QueryCount(r) \/ FillCache(r)
    \/ FindTask(r) \/ FindTasks(r) \/ FindForStatus(r) \/ LoadForSave(r)
    \/ Write(r) \/ Save(r) \/ Reread(r) \/ Commit(r) \/ DeadlockAbort(r)

Step(r) == StepElsewhere(r) \/ Invalidate(r) \/ Enqueue(r)

Next ==
    \/ \E r \in Reqs, c \in Calls : Begin(r, c) /\ Watch
    \/ \E r \in Reqs : Step(r) /\ Watch
    \/ \E r \in Reqs : DbError(r) /\ Watch
    \/ Restart /\ Watch
    \/ CacheEvent /\ Watch

\* Every await is answered.  Only a statement that waits for a row can be
\* disabled; Postgres queues those, so that one whose row is free time and again
\* gets it: hence strong fairness.  Nothing obliges an error or a restart to come
Fairness == \A r \in Reqs : SF_vars(Step(r) /\ Watch)

Spec == Init /\ [][Next]_vars

FairSpec == Spec /\ Fairness

-----------------------------------------------------------------------------
(* Properties. *)

\* Read-modify-write across the awaits of one request: what a transaction is
\* about to commit is its call applied to the row that is committed now, not
\* to the row it found at first (tasks.service.ts:187-206, 257, 363-385).
NoLostUpdate ==
    \A r \in Reqs, id \in TaskIds : writes[r][id] # Null =>
        /\ id \in req[r].call.ids
        /\ IF Op(r) = "create" THEN rows[id] = Unborn
           ELSE IsRow(rows[id]) /\ rows[id].userId = User(r)
        /\ writes[r][id] = NewRow(req[r].call, rows[id])
        /\ Unlocked(r, id)

\* create, update, remove and batchProcess are atomic on the table: each takes
\* effect as a whole at its COMMIT, on the rows as they are then, or not at all.
TheBoard == INSTANCE TaskBoard WITH
    asked <- [r \in Reqs |-> req[r].call],
    born <- [r \in Reqs |-> req[r].born]

TakesEffectAtOnce == TheBoard!Spec

TierInUse == IF isRedisAvailable THEN redis ELSE fallback

\* The user's tasks, but with any details of those that were edited without invalidation
Boards(u) ==
    {b \in [TaskIds -> Fields \cup {Null}] :
        \A id \in TaskIds :
            LET now == Board(u, rows)[id]
            IN \/ b[id] = now
               \/ /\ id \in edited[u] /\ b[id] # Null /\ now # Null
                  /\ b[id].status = now.status /\ b[id].priority = now.priority}

MayShow(k, u) == {Null} \cup {View(k, b) : b \in Boards(u)}

Coherent(u) == \A k \in KeysOf(u) : TierInUse[k] \in MayShow(k, u)

\* Cache and table agree (tasks.service.ts:433-445 against 86-160, 266-324):
\* once a user's requests have ended, every cached list and statistic of the
\* user's is what the query would return, provided no writing request of the
\* user's overlapped another one; except for the title, description and due date
\* of a task that an update changed together with nothing else (213-219) since
\* the user's entries were last gone.  Requests of other users do not matter.
CoherentUnlessOverlapped ==
    \A u \in Users : ~troubled[u] /\ Active(u) = {} => Coherent(u)

\* The same without the proviso, for the transactions' claim of consistency
CacheAgreesAtRest ==
    \A u \in Users : Active(u) = {} =>
        \A k \in KeysOf(u) : TierInUse[k] \in {Null, View(k, Board(u, rows))}

\* tasks.service.ts:214-240: a commit of update that changes a task's status
\* has announced exactly that change to the queue
Announced(r) ==
    \A id \in req[r].call.ids :
        IsRow(rows[id]) /\ IsRow(rows'[id]) /\ rows[id].status # rows'[id].status =>
            /\ req[r].job.taskId = id
            /\ req[r].job.oldStatus = rows[id].status
            /\ req[r].job.newStatus = rows'[id].status

CommitsUpdate(r) == At(r, "commit") /\ Op(r) = "update" /\ rows' # rows

\* Alone among the user's requests, an update announces what it changes
AnnouncedUnlessOverlapped ==
    [][\A r \in Reqs : CommitsUpdate(r) /\ ~troubled[User(r)] => Announced(r)]_vars

\* A request that waits for a row, or for two rows in a cycle with another
\* request, still returns
EveryCallReturns == \A r \in Reqs : ~At(r, "idle") ~> At(r, "idle")

=============================================================================
