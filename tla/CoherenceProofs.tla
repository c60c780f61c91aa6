--------------------------- MODULE CoherenceProofs ---------------------------
(***************************************************************************)
(* Proofs that the cache agrees with the table, and the jobs with what     *)
(* update does, in TasksService while Redis and the queue answer: for any  *)
(* users, tasks, requests and filters, with statements that fail.          *)
(***************************************************************************)
EXTENDS TasksServiceProofs

\* Every command of Redis and every add is answered, and the process does not stop
Answered == ~CommandsFail /\ ~Flips /\ StartsAvailable = {TRUE} /\ ~QueueFails /\ ~Restarts

-----------------------------------------------------------------------------
(* The inductive invariant. *)

\* What a request that reads has read is what the query would return
ReadsNow(r) ==
    req[r].pc \in {"count", "set"} => req[r].view = View(req[r].call.key, Board(User(r), rows))

\* The row that update found is the row as it is
FoundNow(r) ==
    Op(r) = "update" /\ req[r].pc \in WriteLabels =>
        req[r].orig.userId = User(r) /\ \A id \in req[r].call.ids : rows[id] = req[r].orig

\* The keys that an invalidation under way has still to remove
Left(r) ==
    {k \in KeysOf(Owner(r)) :
        \/ At(r, "stats")
        \/ At(r, "lists") /\ k # StatsKey(Owner(r))
        \/ At(r, "del") /\ k \in req[r].listed}

\* The COMMIT will change nothing, or an update's nothing but the details
Harmless(r) ==
    \A id \in TaskIds :
        \/ writes[r][id] \in {Null, rows[id]}
        \/ /\ Op(r) = "update"
           /\ req[r].changed = {}
           /\ id \in req[r].call.ids
           /\ IsRow(writes[r][id])
           /\ IsRow(rows[id])
           /\ writes[r][id] = [rows[id] EXCEPT !.details = writes[r][id].details]

\* What the invalidation has been over is empty
Cleared(r) ==
    Op(r) # "updateStatus" /\ req[r].pc \in {"lists", "del", "add", "commit"} =>
        \/ At(r, "commit") /\ Harmless(r)
        \/ \A k \in KeysOf(User(r)) \ Left(r) : redis[k] = Null

\* What update has found changed is what it will change, and its job says so
Tells(r) ==
    Op(r) = "update" /\ req[r].pc \in DoneLabels =>
        /\ "status" \in req[r].changed <=> req[r].orig.status # req[r].seen.status
        /\ At(r, "commit") /\ "status" \in req[r].changed =>
              \A id \in req[r].call.ids :
                  req[r].job = [name |-> "task-status-updated", taskId |-> id,
                                oldStatus |-> req[r].orig.status,
                                newStatus |-> req[r].seen.status]

Faithful(r) == ReadsNow(r) /\ FoundNow(r) /\ Cleared(r) /\ Tells(r)

\* An entry agrees with the table, or updateStatus, which writes first, will remove it
Agrees(u) ==
    \A k \in KeysOf(u) :
        \/ redis[k] \in MayShow(k, u)
        \/ \E r \in Active(u) : Op(r) = "updateStatus" /\ k \in Left(r)

Undisturbed(u) ==
    /\ ~Contended(u)
    /\ \A r \in Active(u) : Faithful(r)
    /\ Agrees(u)

CoherenceInv ==
    /\ isRedisAvailable
    /\ \A u \in Users : ~troubled[u] => Undisturbed(u)

\* A step that forgets none of the edits of a user's tasks
Remembered(u) == edited[u] \subseteq edited'[u]

-----------------------------------------------------------------------------
(* Steps that a user's requests do not notice, and steps of one of them. *)

\* A request of u's in flight that is not the worker's is called by u.
LEMMA ActiveOf ==
    ASSUME Sound, NEW u \in Users, NEW r \in Active(u)
    PROVE  /\ r \in Reqs
           /\ req[r].pc # "idle"
           /\ req[r].call \in Calls
           /\ req[r].call.op # "updateStatus" => req[r].call.user = u
           /\ WellFormed(req[r], writes[r])
<1>1. r \in Reqs /\ req[r].pc # "idle" /\ (User(r) = u \/ Op(r) = "updateStatus")
  BY DEF Active, At
<1>2. WellFormed(req[r], writes[r])
  BY <1>1, Known
<1>3. req[r].call \in Calls
  BY <1>1, <1>2 DEF WellFormed
<1> QED BY <1>1, <1>2, <1>3 DEF Op, User

\* What a request that has kept its state has still to remove.
LEMMA LeftSame ==
    ASSUME NEW s, req'[s] = req[s]
    PROVE  Left(s)' = Left(s)
BY DEF Left, Owner, Op, User, At

\* A user's board assigns fields to tasks.
LEMMA BoardType ==
    ASSUME TableTypes, NEW u
    PROVE  Board(u, rows) \in [TaskIds -> Fields \cup {Null}]
BY DEF TableTypes, Board, IsRow, Row, Fields

\* What the query would return is among what an entry may show.
LEMMA ShowsNow ==
    ASSUME TableTypes, NEW u, NEW k
    PROVE  View(k, Board(u, rows)) \in MayShow(k, u)
<1>1. Board(u, rows) \in Boards(u)
  BY BoardType DEF Boards
<1> QED BY <1>1 DEF MayShow

\* Two states of a task on a board that only the details tell apart
SameButDetails(x, y) ==
    x = y \/ (x # Null /\ y # Null /\ x.status = y.status /\ x.priority = y.priority)

\* What an entry may show it may show after a step that changes no more of the user's
\* tasks than the details of some that are in history then.
LEMMA ShowsStill ==
    ASSUME NEW u, Remembered(u),
           \A id \in TaskIds :
               \/ Board(u, rows')[id] = Board(u, rows)[id]
               \/ id \in edited'[u] /\ SameButDetails(Board(u, rows)[id], Board(u, rows')[id])
    PROVE  \A k : MayShow(k, u) \subseteq MayShow(k, u)'
<1>1. Boards(u) \subseteq Boards(u)'
  BY DEF Boards, Remembered, SameButDetails
<1> QED BY <1>1 DEF MayShow

\* A step that changes nothing of a user's tasks, and of the user's entries and
\* requests only ends some.
LEMMA Spared ==
    ASSUME Sound, NEW u \in Users, Undisturbed(u), Remembered(u),
           Active(u)' \subseteq Active(u),
           \A s \in Active(u)' : req'[s] = req[s] /\ writes'[s] = writes[s],
           \A k \in KeysOf(u) : redis'[k] \in {redis[k], Null},
           Board(u, rows') = Board(u, rows),
           \A s \in Active(u)', id \in TaskIds :
               writes[s][id] # Null \/ (rows[id] \in Row /\ rows[id].userId = u) => rows'[id] = rows[id],
           \A s \in Active(u) \ Active(u)' : Op(s) # "updateStatus" \/ Left(s) = {}
    PROVE  Undisturbed(u)'
<1>1. ~Contended(u)'
  BY DEF Undisturbed, Contended, Op
<1>2. ASSUME NEW s \in Active(u)'
      PROVE  Faithful(s)'
  <2>0. s \in Active(u) /\ req'[s] = req[s] /\ writes'[s] = writes[s]
    BY <1>2
  <2>1. Faithful(s)
    BY <2>0 DEF Undisturbed
  <2>2. /\ s \in Reqs
        /\ req[s].call \in Calls
        /\ req[s].call.op # "updateStatus" => req[s].call.user = u
        /\ WellFormed(req[s], writes[s])
    BY <2>0, ActiveOf
  <2>3. ReadsNow(s)'
    BY <2>0, <2>1, <2>2 DEF Faithful, ReadsNow, WellFormed, ReadLabels, User
  <2>4. FoundNow(s)'
    <3>1. req[s].call.op = "update" /\ req[s].pc \in WriteLabels =>
              req[s].orig \in Row /\ req[s].orig.userId = u
      BY <2>1, <2>2 DEF WellFormed, Faithful, FoundNow, Op, User
    <3>2. req[s].call.ids \subseteq TaskIds
      BY <2>2, CallShape
    <3> QED BY <2>0, <2>1, <3>1, <3>2 DEF Faithful, FoundNow, Op, User
  <2>5. Cleared(s)'
    <3>1. Harmless(s) => Harmless(s)'
      BY <2>0 DEF Harmless, Op, IsRow
    <3>2. Left(s)' = Left(s)
      BY <2>0, LeftSame
    <3> QED BY <2>0, <2>1, <2>2, <3>1, <3>2 DEF Faithful, Cleared, Op, User, At
  <2>6. Tells(s)'
    BY <2>0, <2>1 DEF Faithful, Tells, Op, At
  <2> QED BY <2>3, <2>4, <2>5, <2>6 DEF Faithful
<1>3. Agrees(u)'
  <2> SUFFICES ASSUME NEW k \in KeysOf(u)
               PROVE  \/ redis'[k] \in MayShow(k, u)'
                      \/ \E r \in Active(u)' : Op(r)' = "updateStatus" /\ k \in Left(r)'
    BY DEF Agrees
  <2>0. Null \in MayShow(k, u)' /\ MayShow(k, u) \subseteq MayShow(k, u)'
    <3>1. Null \in MayShow(k, u)'
      BY DEF MayShow
    <3> QED BY <3>1, ShowsStill
  <2>1. CASE redis[k] \in MayShow(k, u)
    BY <2>0, <2>1
  <2>2. ASSUME NEW r \in Active(u), Op(r) = "updateStatus", k \in Left(r)
        PROVE  \E s \in Active(u)' : Op(s)' = "updateStatus" /\ k \in Left(s)'
    <3>1. r \in Active(u)' /\ req'[r] = req[r]
      BY <2>2
    <3>2. Left(r)' = Left(r)
      BY <3>1, LeftSame
    <3> QED BY <2>2, <3>1, <3>2 DEF Op
  <2> QED BY <2>0, <2>1, <2>2 DEF Undisturbed, Agrees
<1> QED BY <1>1, <1>2, <1>3 DEF Undisturbed

\* A step of one of the user's requests: either it is the only one, or all of them read.
LEMMA OneOf ==
    ASSUME Sound, NEW u \in Users, Undisturbed(u), Remembered(u), NEW r \in Active(u),
           \A s \in Reqs \ {r} : req'[s] = req[s] /\ writes'[s] = writes[s],
           Op(r) = "read" => rows' = rows,
           req'[r] = Idle \/ req'[r].call = req[r].call,
           r \in Active(u)' => Faithful(r)',
           Agrees(u)'
    PROVE  Undisturbed(u)'
<1>1. ASSUME NEW s \in Active(u)', s # r
      PROVE  s \in Active(u) /\ req'[s] = req[s] /\ writes'[s] = writes[s]
  BY <1>1 DEF Active, At, Op, User
<1>2. r \in Active(u)' => req'[r].call = req[r].call
  BY IdleRequest DEF Active, At
<1>3. ~Contended(u)'
  BY <1>1, <1>2 DEF Undisturbed, Contended, Op
<1>4. ASSUME NEW s \in Active(u)', s # r
      PROVE  Faithful(s)'
  <2>1. s \in Active(u) /\ req'[s] = req[s] /\ Op(r) = "read" /\ Op(s) = "read" /\ rows' = rows
    BY <1>1, <1>4 DEF Undisturbed, Contended
  <2>2. Faithful(s) /\ WellFormed(req[s], writes[s])
    BY <2>1, ActiveOf DEF Undisturbed
  <2>3. req[s].pc \in ReadLabels
    BY <2>1, <2>2, ActiveOf DEF WellFormed, Op
  <2>4. ReadsNow(s)'
    BY <2>1, <2>2 DEF Faithful, ReadsNow, User
  <2>5. FoundNow(s)' /\ Cleared(s)' /\ Tells(s)'
    BY <2>1, <2>3 DEF FoundNow, Cleared, Tells, ReadLabels, Op
  <2> QED BY <2>4, <2>5 DEF Faithful
<1> QED BY <1>3, <1>4 DEF Undisturbed

\* A step of a request that no request of the user's notices.
LEMMA Aside ==
    ASSUME Sound, NEW u \in Users, Undisturbed(u), Remembered(u),
           NEW r \in Reqs, r \notin Active(u), r \notin Active(u)',
           \A s \in Reqs \ {r} : req'[s] = req[s] /\ writes'[s] = writes[s],
           \A k \in KeysOf(u) : redis'[k] \in {redis[k], Null},
           Board(u, rows') = Board(u, rows),
           \A s \in Active(u), id \in TaskIds :
               writes[s][id] # Null \/ (rows[id] \in Row /\ rows[id].userId = u) => rows'[id] = rows[id]
    PROVE  Undisturbed(u)'
<1>1. ASSUME NEW s \in Reqs
      PROVE  /\ s \in Active(u) <=> s \in Active(u)'
             /\ s \in Active(u) => req'[s] = req[s] /\ writes'[s] = writes[s]
  <2>1. CASE s = r
    BY <2>1
  <2>2. CASE s # r
    BY <2>2 DEF Active, At, Op, User
  <2> QED BY <2>1, <2>2
<1>2. Active(u) \subseteq Reqs /\ Active(u)' \subseteq Reqs
  BY DEF Active
<1>3. \A s \in Active(u)' : s \in Active(u) /\ req'[s] = req[s] /\ writes'[s] = writes[s]
  BY <1>1, <1>2
<1>4. Active(u) \ Active(u)' = {}
  BY <1>1, <1>2
<1> QED BY <1>3, <1>4, Spared

\* The entries agree after a step of one of the user's requests that removes some: those
\* of updateStatus that are left are removed later.
LEMMA AgreesKept ==
    ASSUME Sound, NEW u \in Users, Undisturbed(u), Remembered(u), NEW r \in Active(u),
           rows' = rows,
           \A k \in KeysOf(u) : redis'[k] \in {redis[k], Null},
           Op(r) = "updateStatus" =>
               \A k \in Left(r) : redis'[k] = Null \/ (req'[r].call = req[r].call /\ k \in Left(r)')
    PROVE  Agrees(u)'
<1> SUFFICES ASSUME NEW k \in KeysOf(u)
             PROVE  \/ redis'[k] \in MayShow(k, u)'
                    \/ \E s \in Active(u)' : Op(s)' = "updateStatus" /\ k \in Left(s)'
  BY DEF Agrees
<1>0. Null \in MayShow(k, u)' /\ MayShow(k, u) \subseteq MayShow(k, u)'
  <2>1. Null \in MayShow(k, u)'
    BY DEF MayShow
  <2> QED BY <2>1, ShowsStill
<1>1. CASE redis[k] \in MayShow(k, u)
  BY <1>0, <1>1
<1>2. ASSUME NEW s \in Active(u), Op(s) = "updateStatus", k \in Left(s)
      PROVE  \/ redis'[k] = Null
             \/ r \in Active(u)' /\ Op(r)' = "updateStatus" /\ k \in Left(r)'
  <2>1. s = r
    BY <1>2 DEF Undisturbed, Contended
  <2>2. k \in Left(r)' => req'[r].pc # "idle"
    BY DEF Left, At
  <2> QED BY <1>2, <2>1, <2>2 DEF Active, Op, At
<1> QED BY <1>0, <1>1, <1>2 DEF Undisturbed, Agrees

\* A step that leaves the table alone and only removes entries.
LEMMA RemovesAtMost ==
    ASSUME Sound, NEW u \in Users, Undisturbed(u), Remembered(u), NEW r \in Reqs,
           req[r].pc # "idle",
           \A s \in Reqs \ {r} : req'[s] = req[s] /\ writes'[s] = writes[s],
           rows' = rows,
           req'[r] = Idle \/ req'[r].call = req[r].call,
           \A k \in KeysOf(u) : redis'[k] \in {redis[k], Null},
           r \in Active(u) /\ req'[r].call = req[r].call => Faithful(r)',
           Op(r) = "updateStatus" =>
               \A k \in Left(r) : redis'[k] = Null \/ (req'[r].call = req[r].call /\ k \in Left(r)')
    PROVE  Undisturbed(u)'
<1>1. r \in Active(u)' => r \in Active(u) /\ req'[r].call = req[r].call
  BY IdleRequest DEF Active, At, Op, User
<1>2. CASE r \in Active(u)
  BY <1>1, <1>2, AgreesKept, OneOf
<1>3. CASE r \notin Active(u)
  BY <1>1, <1>3, Aside
<1> QED BY <1>2, <1>3

-----------------------------------------------------------------------------
(* Redis, while it answers. *)

\* What the commands do when each of them is executed and answered.
LEMMA RedisAnswers ==
    ASSUME Answered, Cache!CacheTypeOK, isRedisAvailable
    PROVE  /\ \A k \in CacheKeys, v \in CachedValues, ok \in BOOLEAN :
                  Cache!Set(k, v, ok) => isRedisAvailable' /\ redis' = [redis EXCEPT ![k] = v]
           /\ \A k, v : Cache!Get(k, v) => isRedisAvailable' /\ redis' = redis
           /\ \A K, ok : Cache!DelInRedis(K, ok) =>
                  /\ isRedisAvailable'
                  /\ \A k \in CacheKeys : redis'[k] = IF k \in K THEN Null ELSE redis[k]
           /\ \A x, deleted : Cache!Delete(x, deleted) =>
                  /\ isRedisAvailable'
                  /\ \A k \in CacheKeys : redis'[k] = IF k = x THEN Null ELSE redis[k]
           /\ \A K, listed, ok : Cache!Scan(K, listed, ok) =>
                  /\ isRedisAvailable'
                  /\ redis' = redis
                  /\ \A k \in CacheKeys : k \in listed <=> k \in K /\ redis[k] # Null
           /\ \A K : ~Cache!Sweep(K)
<1>1. \A K, ok : Cache!DelInRedis(K, ok) =>
          /\ isRedisAvailable'
          /\ \A k \in CacheKeys : redis'[k] = IF k \in K THEN Null ELSE redis[k]
  BY DEF Answered, Cache!DelInRedis, Cache!Ends, Cache!Without
<1>2. \A K : ~Cache!Sweep(K)
  BY DEF Cache!Sweep, Cache!FallbackOnly
<1>3. \A x, deleted : Cache!Delete(x, deleted) =>
          /\ isRedisAvailable'
          /\ \A k \in CacheKeys : redis'[k] = IF k = x THEN Null ELSE redis[k]
  BY <1>1, <1>2 DEF Cache!Delete
<1>4. \A k \in CacheKeys, v \in CachedValues, ok \in BOOLEAN :
          Cache!Set(k, v, ok) => isRedisAvailable' /\ redis' = [redis EXCEPT ![k] = v]
  BY DEF Answered, Cache!Set, Cache!RedisOnly, Cache!FallbackOnly, Cache!Ends
<1>5. \A k, v : Cache!Get(k, v) => isRedisAvailable' /\ redis' = redis
  BY DEF Cache!Get, Cache!RedisOnly, Cache!FallbackOnly
<1>6. \A K, listed, ok : Cache!Scan(K, listed, ok) =>
          /\ isRedisAvailable'
          /\ redis' = redis
          /\ \A k \in CacheKeys : k \in listed <=> k \in K /\ redis[k] # Null
  BY DEF Answered, Cache!Scan, Cache!cacheVars, Cache!Held
<1> QED BY <1>1, <1>2, <1>3, <1>4, <1>5, <1>6

-----------------------------------------------------------------------------
(* Steps of one request. *)

\* The state the steps start from
Ready == Sound /\ Cache!CacheTypeOK /\ isRedisAvailable

\* A request that returns, or fails, without having changed the table.
LEMMA Returns ==
    ASSUME Ready, NEW u \in Users, Undisturbed(u), Remembered(u),
           NEW r \in Reqs, req[r].pc # "idle", Return(r),
           \A s \in Reqs \ {r} : writes'[s] = writes[s],
           rows' = rows,
           \A k \in KeysOf(u) : redis'[k] \in {redis[k], Null},
           Op(r) = "updateStatus" => \A k \in Left(r) : redis'[k] = Null
    PROVE  Undisturbed(u)'
<1>1. \A s \in Reqs : req'[s] = IF s = r THEN Idle ELSE req[s]
  BY DEF Ready, Sound, TableTypes, Return
<1>2. r \in Active(u) => req[r].call \in Calls
  BY ActiveOf DEF Ready
<1>3. r \in Active(u) /\ req'[r].call = req[r].call => Faithful(r)'
  BY <1>1, IdleRequest
     DEF Faithful, ReadsNow, FoundNow, Cleared, Tells, WriteLabels, DoneLabels, Op
<1> QED BY <1>1, <1>3, RemovesAtMost DEF Ready

\* A rollback: nothing has been invalidated by a request outside a transaction.
LEMMA RollsBack ==
    ASSUME Ready, NEW u \in Users, Undisturbed(u), Remembered(u), NEW r \in Reqs, RollBack(r),
           req[r].pc \in DbLabels
    PROVE  Undisturbed(u)'
<1>1. \A s \in Reqs \ {r} : writes'[s] = writes[s]
  BY DEF RollBack, Ready, Sound, TableTypes
<1>2. Left(r) = {} /\ req[r].pc # "idle"
  BY DEF Left, At, DbLabels
<1>3. rows' = rows /\ redis' = redis /\ Return(r)
  BY DEF RollBack, cacheVars
<1> QED BY <1>1, <1>2, <1>3, Returns

\* A step of a read but its last.
LEMMA ReadsOn ==
    ASSUME Answered, Ready, NEW u \in Users, Undisturbed(u), Remembered(u), NEW r \in Reqs,
           ReadCache(r) \/ QueryRows(r) \/ QueryCount(r)
    PROVE  Undisturbed(u)'
<1>0. req[r].pc \in ReadLabels /\ UNCHANGED <<rows, writes>> /\ redis' = redis
  BY RedisAnswers DEF ReadCache, QueryRows, QueryCount, At, ReadLabels, Ready, cacheVars
<1>1. /\ req[r] \in Request
      /\ req[r].call.op = "read"
      /\ req[r].call.key \in CacheKeys
      /\ req[r].pc # "idle"
  BY <1>0, Reading DEF Ready
<1>2. Left(r) = {}
  BY <1>0 DEF Left, At, ReadLabels
<1>3. CASE Return(r)
  BY <1>0, <1>1, <1>2, <1>3, Returns
<1>4. CASE ~Return(r)
  <2> DEFINE v == View(req[r].call.key, Board(User(r), rows))
  <2>1. v \in CachedValues
    BY <1>1, ViewType DEF Ready, Sound
  <2> HIDE DEF v
  <2>2. r \in Active(u) => Faithful(r)
    BY DEF Undisturbed
  <2>3. /\ \A s \in Reqs \ {r} : req'[s] = req[s]
        /\ req'[r].call = req[r].call
        /\ req'[r].pc \in ReadLabels
    BY <1>1, <1>4
       DEF ReadCache, QueryRows, QueryCount, Goto, Ready, Sound, TableTypes, Request, ReadLabels
  <2>4. r \in Active(u) /\ req'[r].pc \in {"count", "set"} => req'[r].view = v
    <3>1. CASE ReadCache(r)
      BY <1>1, <1>4, <3>1 DEF ReadCache, Goto, Ready, Sound, TableTypes, Request
    <3>2. CASE QueryRows(r)
      BY <1>1, <3>2 DEF QueryRows, Ready, Sound, TableTypes, Request, v
    <3>3. CASE QueryCount(r)
      <4>1. r \in Active(u) => req[r].view = v
        BY <2>2, <3>3 DEF QueryCount, At, Faithful, ReadsNow, v
      <4>2. req'[r].view = [req[r].view EXCEPT !.total = v.total]
        BY <1>1, <3>3 DEF QueryCount, Ready, Sound, TableTypes, Request, v
      <4>3. [v EXCEPT !.total = v.total] = v
        BY <2>1 DEF CachedValues
      <4> QED BY <4>1, <4>2, <4>3
    <3> QED BY <3>1, <3>2, <3>3
  <2>5. r \in Active(u) => Faithful(r)'
    BY <1>0, <1>1, <2>3, <2>4
       DEF Faithful, ReadsNow, FoundNow, Cleared, Tells, ReadLabels, Op, User, v
  <2> QED BY <1>0, <1>1, <1>2, <2>3, <2>5, RemovesAtMost DEF Ready
<1> QED BY <1>3, <1>4

\* The last step of a read stores what the query would return.
LEMMA ReadsLast ==
    ASSUME Answered, Ready, NEW u \in Users, Undisturbed(u), Remembered(u), NEW r \in Reqs, FillCache(r)
    PROVE  Undisturbed(u)'
<1>0. req[r].pc = "set" /\ UNCHANGED <<rows, writes>> /\ Return(r)
  BY DEF FillCache, At
<1>1. /\ req[r] \in Request
      /\ req[r].call \in Calls
      /\ req[r].call.op = "read"
      /\ req[r].call.key \in CacheKeys
      /\ req[r].view \in CachedValues
  BY <1>0, Reading DEF Ready, Sound, TableInv, Shape, WellFormed, ReadLabels
<1>2. redis' = [redis EXCEPT ![req[r].call.key] = req[r].view]
  BY <1>1, RedisAnswers DEF FillCache, Ready
<1>3. req[r].call.key.user = User(r)
  BY <1>1, CallShape DEF User
<1>4. \A k \in CacheKeys : redis'[k] = IF k = req[r].call.key THEN req[r].view ELSE redis[k]
  BY <1>2 DEF Ready, Cache!CacheTypeOK
<1>5. \A s \in Reqs : req'[s] = IF s = r THEN Idle ELSE req[s]
  BY <1>0 DEF Ready, Sound, TableTypes, Return
<1>6. r \notin Active(u)'
  BY <1>5, IdleRequest DEF Active, At
<1>7. CASE r \in Active(u)
  <2>1. User(r) = u
    BY <1>1, <1>7 DEF Active, Op
  <2>2. req[r].view = View(req[r].call.key, Board(u, rows))
    BY <1>0, <1>7, <2>1 DEF Undisturbed, Faithful, ReadsNow
  <2>3. \A k \in KeysOf(u) : redis[k] \in MayShow(k, u) => redis'[k] \in MayShow(k, u)'
    BY <1>0, <1>4, <2>2, ShowsNow, ShowsStill DEF KeysOf, Ready, Sound
  <2>4. \A s \in Active(u) : Op(s) # "updateStatus"
    BY <1>1, <1>7 DEF Undisturbed, Contended, Op
  <2>5. Agrees(u)'
    BY <2>3, <2>4 DEF Undisturbed, Agrees
  <2> QED BY <1>0, <1>5, <1>6, <1>7, <2>5, OneOf DEF Ready
<1>8. CASE r \notin Active(u)
  <2>1. \A k \in KeysOf(u) : redis'[k] = redis[k]
    BY <1>0, <1>3, <1>4, <1>8 DEF KeysOf, Active, At
  <2> QED BY <1>0, <1>5, <1>6, <1>8, <2>1, Aside DEF Ready
<1> QED BY <1>7, <1>8

\* A step of a request that goes on, in a label and with fields of its own, that leaves
\* table and entries alone.
LEMMA GoesQuietly ==
    ASSUME Ready, NEW u \in Users, Undisturbed(u), Remembered(u), NEW r \in Reqs, NEW q \in Request,
           req[r].pc # "idle",
           req' = [req EXCEPT ![r] = q], q.call = req[r].call,
           \A s \in Reqs \ {r} : writes'[s] = writes[s],
           UNCHANGED <<rows, redis>>,
           r \in Active(u) => Faithful(r)',
           Op(r) = "updateStatus" => \A k \in Left(r) : k \in Left(r)'
    PROVE  Undisturbed(u)'
<1>1. req'[r] = q /\ \A s \in Reqs \ {r} : req'[s] = req[s]
  BY DEF Ready, Sound, TableTypes
<1> QED BY <1>1, RemovesAtMost DEF Ready

\* findOne of update and remove.
LEMMA FindsTask ==
    ASSUME Ready, NEW u \in Users, Undisturbed(u), Remembered(u), NEW r \in Reqs, FindTask(r)
    PROVE  Undisturbed(u)'
<1>0. /\ req[r].pc = "find"
      /\ Op(r) \in {"update", "remove"}
      /\ UNCHANGED <<rows, writes, redis>>
      /\ Left(r) = {}
  BY DEF FindTask, At, cacheVars, Left
<1>1. CASE Return(r)
  BY <1>0, <1>1, Returns
<1>2. ASSUME NEW id \in Found(r),
             req' = [req EXCEPT ![r].pc = "write", ![r].orig = rows[id], ![r].todo = {id}]
      PROVE  Undisturbed(u)'
  <2> DEFINE q == [req[r] EXCEPT !.pc = "write", !.orig = rows[id], !.todo = {id}]
  <2>1. /\ req[r] \in Request
        /\ req[r].call.ids \in SUBSET TaskIds
        /\ req[r].call.op \in SingleOps => \E i \in TaskIds : req[r].call.ids = {i}
    BY <1>0, Known DEF Ready, ReadLabels
  <2>2. id \in req[r].call.ids /\ rows[id] \in Row /\ rows[id].userId = User(r)
    BY DEF Found, IsRow
  <2>3. req[r].call.ids = {id}
    BY <1>0, <2>1, <2>2 DEF SingleOps, Op
  <2>4. /\ q \in Request
        /\ q.call = req[r].call
        /\ q.pc = "write"
        /\ q.orig = rows[id]
        /\ req' = [req EXCEPT ![r] = q]
    <3>1. {id} \in SUBSET TaskIds
      BY <2>1, <2>2
    <3>2. q \in Request
      BY <2>1, <2>2, <3>1 DEF Request, Labels
    <3>3. q.call = req[r].call /\ q.pc = "write" /\ q.orig = rows[id]
      BY <2>1 DEF Request
    <3> QED BY <1>2, <3>2, <3>3
  <2> HIDE DEF q
  <2>5. req'[r] = q
    BY <2>4 DEF Ready, Sound, TableTypes
  <2>6. Faithful(r)'
    BY <1>0, <2>2, <2>3, <2>4, <2>5
       DEF Faithful, ReadsNow, FoundNow, Cleared, Tells, DoneLabels, Op, User
  <2> QED BY <1>0, <2>4, <2>6, GoesQuietly
<1> QED BY <1>1, <1>2 DEF FindTask

\* find of batchProcess: where it finds nothing, the COMMIT has nothing to do.
LEMMA FindsTasks ==
    ASSUME Ready, NEW u \in Users, Undisturbed(u), Remembered(u), NEW r \in Reqs, FindTasks(r)
    PROVE  Undisturbed(u)'
<1>0. /\ req[r].pc = "find"
      /\ Op(r) \in BatchOps
      /\ UNCHANGED <<rows, writes, redis>>
  BY DEF FindTasks, At, cacheVars
<1>1. req[r] \in Request /\ \A id \in TaskIds : writes[r][id] = Null
  BY <1>0, Known DEF Ready, WriteLabels
<1>2. Harmless(r)'
  BY <1>0, <1>1 DEF Harmless
<1>3. PICK q \in Request :
          /\ req' = [req EXCEPT ![r] = q]
          /\ q.call = req[r].call
          /\ q.pc \in {"write", "commit"}
  <2>1. [req[r] EXCEPT !.pc = "commit"] \in Request
    BY <1>1 DEF Request, Labels
  <2>2. Found(r) \subseteq TaskIds
    BY <1>0, Known DEF Found, Ready, ReadLabels
  <2>3. [req[r] EXCEPT !.pc = "write", !.todo = Found(r)] \in Request
    BY <1>1, <2>2 DEF Request, Labels
  <2>4. [req[r] EXCEPT !.pc = "commit"].call = req[r].call /\ [req[r] EXCEPT !.pc = "commit"].pc = "commit"
    BY <1>1 DEF Request
  <2>5. /\ [req[r] EXCEPT !.pc = "write", !.todo = Found(r)].call = req[r].call
        /\ [req[r] EXCEPT !.pc = "write", !.todo = Found(r)].pc = "write"
    BY <1>1 DEF Request
  <2>6. CASE Goto(r, "commit")
    BY <2>1, <2>4, <2>6 DEF Goto
  <2>7. CASE req' = [req EXCEPT ![r].pc = "write", ![r].todo = Found(r)]
    BY <2>3, <2>5, <2>7
  <2> QED BY <2>6, <2>7 DEF FindTasks
<1>4. req'[r] = q
  BY <1>3 DEF Ready, Sound, TableTypes
<1>5. Faithful(r)'
  BY <1>0, <1>2, <1>3, <1>4
     DEF Faithful, ReadsNow, FoundNow, Cleared, Tells, BatchOps, Op, At
<1> QED BY <1>0, <1>3, <1>5, GoesQuietly DEF BatchOps

\* findOne of updateStatus, and the SELECT of its save.
LEMMA FindsForStatus ==
    ASSUME Ready, NEW u \in Users, Undisturbed(u), Remembered(u), NEW r \in Reqs,
           FindForStatus(r) \/ LoadForSave(r)
    PROVE  Undisturbed(u)'
<1>0. /\ req[r].pc \in {"find", "load"}
      /\ Op(r) = "updateStatus"
      /\ UNCHANGED <<rows, writes, redis>>
      /\ Left(r) = {}
  <2>1. req[r].pc = "load" => Op(r) = "updateStatus"
    BY Known DEF Ready, WellFormed, Op
  <2> QED BY <2>1 DEF FindForStatus, LoadForSave, At, cacheVars, Left
<1>1. CASE Return(r)
  BY <1>0, <1>1, Returns
<1>2. CASE ~Return(r)
  <2>1. req[r] \in Request
    BY DEF Ready, Sound, TableTypes
  <2>2. /\ \A s \in Reqs \ {r} : req'[s] = req[s]
        /\ req'[r].call = req[r].call
        /\ req'[r].pc \in {"load", "stats", "write"}
    <3>1. req \in [Reqs -> Request]
      BY DEF Ready, Sound, TableTypes
    <3>2. CASE FindForStatus(r)
      BY <1>2, <2>1, <3>1, <3>2 DEF FindForStatus, Request
    <3>3. CASE LoadForSave(r)
      <4>1. PICK changed :
                req' = [req EXCEPT ![r].changed = changed,
                                   ![r].pc = IF changed = {} THEN "stats" ELSE "write"]
        BY <3>3 DEF LoadForSave
      <4> QED BY <2>1, <3>1, <4>1 DEF Request
    <3> QED BY <3>2, <3>3
  <2>3. Faithful(r)'
    BY <1>0, <2>2 DEF Faithful, ReadsNow, FoundNow, Cleared, Tells, Op
  <2> QED BY <1>0, <2>2, <2>3, RemovesAtMost DEF Ready
<1> QED BY <1>1, <1>2

\* A row that its statement reaches.
LEMMA WritesOn ==
    ASSUME Ready, NEW u \in Users, Undisturbed(u), Remembered(u), NEW r \in Reqs, Write(r)
    PROVE  Undisturbed(u)'
<1>0. req[r].pc = "write" /\ Op(r) # "updateStatus" /\ UNCHANGED <<rows, redis>>
  BY DEF Write, At, cacheVars
<1>1. req[r] \in Request
  BY DEF Ready, Sound, TableTypes
<1>2. /\ \A s \in Reqs \ {r} : req'[s] = req[s] /\ writes'[s] = writes[s]
      /\ req'[r].call = req[r].call
      /\ req'[r].orig = req[r].orig
      /\ req'[r].pc \in {"write", "reread", "stats"}
      /\ Op(r) = "update" => req'[r].pc \in {"write", "reread"}
  BY <1>1 DEF Write, Ready, Sound, TableTypes, Request
<1>3. r \in Active(u) => Faithful(r)
  BY DEF Undisturbed
<1>4. r \in Active(u) => Faithful(r)'
  BY <1>0, <1>2, <1>3
     DEF Faithful, ReadsNow, FoundNow, Cleared, Tells, WriteLabels, DoneLabels, Op, User
<1> QED BY <1>0, <1>2, <1>4, RemovesAtMost DEF Ready

\* The second findOne of update: where it has found nothing changed, the COMMIT
\* changes nothing.
LEMMA RereadsNow ==
    ASSUME Ready, NEW u \in Users, Undisturbed(u), Remembered(u), NEW r \in Reqs, Reread(r)
    PROVE  Undisturbed(u)'
<1>0. req[r].pc = "reread" /\ UNCHANGED <<rows, writes, redis>> /\ Left(r) = {}
  BY DEF Reread, At, cacheVars, Left
<1>1. /\ req[r] \in Request
      /\ WellFormed(req[r], writes[r])
      /\ writes[r] \in [TaskIds -> Row \cup {Deleted, Null}]
      /\ req[r].call \in Calls
      /\ req[r].call.op \in SingleOps => \E i \in TaskIds : req[r].call.ids = {i}
  BY <1>0, Known DEF Ready, ReadLabels
<1>2. req[r].call.op = "update"
  BY <1>0, <1>1 DEF WellFormed
<1>3. PICK id \in TaskIds : req[r].call.ids = {id}
  BY <1>1, <1>2 DEF SingleOps
<1>4. CASE Return(r)
  BY <1>0, <1>2, <1>4, Returns
<1>5. CASE ~Return(r)
  <2> DEFINE row == Sees(r, id)
             changed == {f \in {"status", "priority"} : req[r].orig[f] # row[f]}
  <2>1. /\ IsRow(row)
        /\ req' = [req EXCEPT ![r].seen = row, ![r].changed = changed,
                              ![r].pc = IF changed = {} THEN "commit" ELSE "stats"]
    BY <1>3, <1>5, Rereads
  <2>2. /\ \A s \in Reqs \ {r} : req'[s] = req[s]
        /\ req'[r].call = req[r].call
        /\ req'[r].orig = req[r].orig
        /\ req'[r].seen = row
        /\ req'[r].changed = changed
        /\ req'[r].pc = IF changed = {} THEN "commit" ELSE "stats"
    BY <1>1, <2>1 DEF Ready, Sound, TableTypes, Request
  <2>3. ASSUME r \in Active(u)
        PROVE  Faithful(r)'
    <3>1. Faithful(r)
      BY <2>3 DEF Undisturbed
    <3>2. ReadsNow(r)'
      BY <2>2 DEF ReadsNow
    <3>3. FoundNow(r)'
      BY <1>0, <2>2, <3>1 DEF Faithful, FoundNow, WriteLabels, Op, User
    <3>4. Cleared(r)'
      <4>1. ASSUME changed = {}, writes[r][id] # Null
            PROVE  /\ IsRow(row) /\ row = writes[r][id]
                   /\ IsRow(rows[id])
                   /\ row = [rows[id] EXCEPT !.details = row.details]
        <5>1. row = NewRow(req[r].call, rows[id]) /\ rows[id] \in Row /\ row = writes[r][id]
          <6>1. row = writes[r][id]
            BY <4>1 DEF Sees
          <6>2. writes[r][id] = NewRow(req[r].call, rows[id]) /\ rows[id] \in Row
            BY <1>2, <4>1 DEF Ready, Sound, TableInv, NoLostUpdate, Op, IsRow
          <6> QED BY <6>1, <6>2
        <5>2. row \in Row /\ row.userId = rows[id].userId
          <6>1. /\ NewRow(req[r].call, rows[id]) \in Row
                /\ NewRow(req[r].call, rows[id]).userId = rows[id].userId
            BY <1>1, <1>2, <5>1, NewRowType
          <6> QED BY <5>1, <6>1
        <5>3. req[r].orig = rows[id]
          BY <1>0, <1>2, <1>3, <3>1 DEF Faithful, FoundNow, WriteLabels, Op
        <5>4. row.status = rows[id].status /\ row.priority = rows[id].priority
          BY <4>1, <5>3
        <5>5. row = [rows[id] EXCEPT !.details = row.details]
          BY <5>1, <5>2, <5>4 DEF Row
        <5> QED BY <5>1, <5>2, <5>5 DEF IsRow
      <4>2. \A i \in TaskIds : i # id => writes[r][i] = Null
        BY <1>1, <1>3 DEF WellFormed
      <4>3. changed = {} => Harmless(r)'
        BY <1>0, <1>2, <1>3, <2>2, <4>1, <4>2 DEF Harmless, Op
      <4> QED BY <1>0, <2>2, <4>3 DEF Cleared, At
    <3>5. Tells(r)'
      <4>1. "status" \in changed <=> req[r].orig.status # row.status
        OBVIOUS
      <4>2. "status" \in changed => changed # {}
        OBVIOUS
      <4> HIDE DEF changed
      <4> QED BY <1>0, <1>3, <2>2, <4>1, <4>2 DEF Tells, At, Op
    <3> QED BY <3>2, <3>3, <3>4, <3>5 DEF Faithful
  <2> QED BY <1>0, <1>2, <2>2, <2>3, RemovesAtMost DEF Ready, Op
<1> QED BY <1>4, <1>5

\* The end of an invalidation that has removed all it had left to remove.
LEMMA Invalidated ==
    ASSUME Ready, NEW u \in Users, Undisturbed(u), Remembered(u), NEW r \in Reqs,
           req[r].pc \in {"lists", "del"}, AfterInvalidation(r), UNCHANGED <<rows, writes>>,
           \A k \in CacheKeys : redis'[k] \in {redis[k], Null},
           \A k \in Left(r) : redis'[k] = Null
    PROVE  Undisturbed(u)'
<1>1. req[r] \in Request
  BY DEF Ready, Sound, TableTypes
<1>2. \A k \in KeysOf(u) : redis'[k] \in {redis[k], Null}
  BY DEF KeysOf
<1>3. CASE Op(r) = "updateStatus"
  <2>1. Return(r)
    BY <1>3 DEF AfterInvalidation
  <2> QED BY <1>2, <2>1, Returns
<1>4. CASE Op(r) # "updateStatus"
  <2>1. PICK label \in {"add", "commit"} :
            /\ Goto(r, label)
            /\ Op(r) = "update" /\ label = "commit" => "status" \notin req[r].changed
    BY <1>4 DEF AfterInvalidation
  <2>2. /\ \A s \in Reqs \ {r} : req'[s] = req[s]
        /\ req'[r].call = req[r].call
        /\ req'[r].orig = req[r].orig
        /\ req'[r].seen = req[r].seen
        /\ req'[r].changed = req[r].changed
        /\ req'[r].pc = label
    BY <1>1, <2>1 DEF Goto, Ready, Sound, TableTypes, Request
  <2>3. ASSUME r \in Active(u)
        PROVE  Faithful(r)'
    <3>1. Faithful(r)
      BY <2>3 DEF Undisturbed
    <3>2. ReadsNow(r)'
      BY <2>1, <2>2 DEF ReadsNow
    <3>3. FoundNow(r)'
      BY <2>2, <3>1 DEF Faithful, FoundNow, WriteLabels, Op, User
    <3>4. Cleared(r)'
      <4>1. \A k \in KeysOf(User(r)) \ Left(r) : redis[k] = Null
        BY <1>4, <3>1 DEF Faithful, Cleared, At
      <4>2. \A k \in KeysOf(User(r)) : redis'[k] = Null
        BY <4>1 DEF KeysOf
      <4> QED BY <2>2, <4>2 DEF Cleared, User
    <3>5. Tells(r)'
      BY <2>1, <2>2, <3>1 DEF Faithful, Tells, DoneLabels, Op, At
    <3> QED BY <3>2, <3>3, <3>4, <3>5 DEF Faithful
  <2> QED BY <1>2, <1>4, <2>2, <2>3, RemovesAtMost DEF Ready
<1> QED BY <1>3, <1>4

\* A step of an invalidation that leaves keys for a later one.
LEMMA InvalidatesOn ==
    ASSUME Ready, NEW u \in Users, Undisturbed(u), Remembered(u), NEW r \in Reqs, NEW q \in Request,
           req[r].pc \in {"stats", "lists"}, UNCHANGED <<rows, writes>>,
           req' = [req EXCEPT ![r] = q], q.pc \in {"lists", "del"}, q.call = req[r].call,
           q.orig = req[r].orig, q.seen = req[r].seen, q.changed = req[r].changed,
           \A k \in CacheKeys : redis'[k] \in {redis[k], Null},
           \A k \in Left(r) \ Left(r)' : redis'[k] = Null,
           \A k \in KeysOf(Owner(r)) : k \in Left(r) \/ req[r].pc = "lists"
    PROVE  Undisturbed(u)'
<1>1. req'[r] = q /\ \A s \in Reqs \ {r} : req'[s] = req[s]
  BY DEF Ready, Sound, TableTypes
<1>2. \A k \in KeysOf(u) : redis'[k] \in {redis[k], Null}
  BY DEF KeysOf
<1>3. ASSUME r \in Active(u)
      PROVE  Faithful(r)'
  <2>1. Faithful(r)
    BY <1>3 DEF Undisturbed
  <2>2. ReadsNow(r)'
    BY <1>1 DEF ReadsNow
  <2>3. FoundNow(r)'
    BY <1>1, <2>1 DEF Faithful, FoundNow, WriteLabels, Op, User
  <2>4. Cleared(r)'
    <3>1. ASSUME Op(r) # "updateStatus", NEW k \in KeysOf(User(r)), k \notin Left(r)'
          PROVE  redis'[k] = Null
      <4>1. k \in CacheKeys /\ Owner(r) = User(r)
        BY <3>1 DEF KeysOf, Owner
      <4>2. CASE k \in Left(r)
        BY <3>1, <4>2
      <4>3. CASE k \notin Left(r)
        BY <2>1, <3>1, <4>1, <4>3 DEF Faithful, Cleared, At
      <4> QED BY <4>2, <4>3
    <3> QED BY <1>1, <3>1 DEF Cleared, Op, User
  <2>5. Tells(r)'
    BY <1>1, <2>1 DEF Faithful, Tells, DoneLabels, Op, At
  <2> QED BY <2>2, <2>3, <2>4, <2>5 DEF Faithful
<1> QED BY <1>1, <1>2, <1>3, RemovesAtMost DEF Ready

\* The steps of invalidateUserCache.
LEMMA Invalidates ==
    ASSUME Answered, Ready, NEW u \in Users, Undisturbed(u), Remembered(u), NEW r \in Reqs, Invalidate(r)
    PROVE  Undisturbed(u)'
<1>1. req[r] \in Request /\ req \in [Reqs -> Request]
  BY DEF Ready, Sound, TableTypes
<1>2. CASE InvalidateStats(r)
  <2> DEFINE q == [req[r] EXCEPT !.pc = "lists"]
  <2>1. /\ q \in Request
        /\ q.pc = "lists"
        /\ q.call = req[r].call
        /\ q.orig = req[r].orig
        /\ q.seen = req[r].seen
        /\ q.changed = req[r].changed
        /\ req' = [req EXCEPT ![r] = q]
    BY <1>1, <1>2 DEF InvalidateStats, Goto, Request, Labels
  <2> HIDE DEF q
  <2>2. req[r].pc = "stats" /\ UNCHANGED <<rows, writes>>
    BY <1>2 DEF InvalidateStats, At
  <2>3. \A k \in CacheKeys : redis'[k] = IF k = StatsKey(Owner(r)) THEN Null ELSE redis[k]
    BY <1>2, RedisAnswers DEF InvalidateStats, Ready
  <2>4. req'[r] = q
    BY <1>1, <2>1
  <2>5. Owner(r)' = Owner(r)
    BY <2>1, <2>4 DEF Owner, Op, User
  <2>6. \A k \in Left(r) \ Left(r)' : redis'[k] = Null
    BY <2>1, <2>3, <2>4, <2>5 DEF Left, At, KeysOf
  <2>7. \A k \in KeysOf(Owner(r)) : k \in Left(r)
    BY <2>2 DEF Left, At
  <2> QED BY <2>1, <2>2, <2>3, <2>6, <2>7, InvalidatesOn
<1>3. CASE InvalidateLists(r)
  <2>1. PICK listed \in {{}, ListKeys(Owner(r)) \cap Cache!Held(redis)}, ok \in BOOLEAN :
            /\ Cache!Scan(ListKeys(Owner(r)), listed, ok)
            /\ IF listed = {}
               THEN AfterInvalidation(r)
               ELSE req' = [req EXCEPT ![r].pc = "del", ![r].listed = listed]
    BY <1>3, RedisAnswers DEF InvalidateLists, Ready
  <2>2. req[r].pc = "lists" /\ UNCHANGED <<rows, writes>>
    BY <1>3 DEF InvalidateLists, At
  <2>3. /\ redis' = redis
        /\ \A k \in CacheKeys : k \in listed <=> k \in ListKeys(Owner(r)) /\ redis[k] # Null
    BY <2>1, RedisAnswers DEF Ready
  <2>4. \A k \in Left(r) : k \in CacheKeys /\ k \in ListKeys(Owner(r))
    BY <2>2 DEF Left, At, KeysOf, ListKeys
  <2>5. CASE listed = {}
    <3>1. \A k \in Left(r) : redis'[k] = Null
      BY <2>3, <2>4, <2>5
    <3> QED BY <2>1, <2>2, <2>3, <2>5, <3>1, Invalidated
  <2>6. CASE listed # {}
    <3> DEFINE q == [req[r] EXCEPT !.pc = "del", !.listed = listed]
    <3>1. listed \subseteq CacheKeys
      BY <2>1 DEF ListKeys, KeysOf
    <3>2. /\ q \in Request
          /\ q.pc = "del"
          /\ q.call = req[r].call
          /\ q.orig = req[r].orig
          /\ q.seen = req[r].seen
          /\ q.changed = req[r].changed
          /\ q.listed = listed
          /\ req' = [req EXCEPT ![r] = q]
      BY <1>1, <2>1, <2>6, <3>1 DEF Request, Labels
    <3> HIDE DEF q
    <3>3. req'[r] = q
      BY <1>1, <3>2
    <3>4. Owner(r)' = Owner(r)
      BY <3>2, <3>3 DEF Owner, Op, User
    <3>5. \A k \in Left(r) : k \in listed => k \in Left(r)'
      BY <3>2, <3>3, <3>4 DEF Left, At
    <3>6. \A k \in Left(r) \ Left(r)' : redis'[k] = Null
      BY <2>3, <2>4, <3>5
    <3> QED BY <2>2, <2>3, <3>2, <3>6, InvalidatesOn
  <2> QED BY <2>5, <2>6
<1>4. CASE DeleteLists(r)
  <2>1. /\ req[r].pc = "del"
        /\ UNCHANGED <<rows, writes>>
        /\ AfterInvalidation(r)
        /\ \A k \in CacheKeys : redis'[k] = IF k \in req[r].listed THEN Null ELSE redis[k]
    BY <1>4, RedisAnswers DEF DeleteLists, At, Ready
  <2>2. \A k \in Left(r) : redis'[k] = Null
    BY <2>1 DEF Left, At, KeysOf
  <2> QED BY <2>1, <2>2, Invalidated
<1> QED BY <1>2, <1>3, <1>4 DEF Invalidate

\* The job of create or update says what the COMMIT will do.
LEMMA Enqueues ==
    ASSUME Answered, Ready, NEW u \in Users, Undisturbed(u), Remembered(u), NEW r \in Reqs, Enqueue(r)
    PROVE  Undisturbed(u)'
<1>0. req[r].pc = "add" /\ UNCHANGED <<rows, writes, redis>>
  BY DEF Enqueue, At, cacheVars
<1>1. /\ req[r] \in Request
      /\ req[r].call.op \in {"create", "update"}
      /\ \E i \in TaskIds : req[r].call.ids = {i}
  BY <1>0, Known DEF Ready, WellFormed, ReadLabels, SingleOps
<1>2. PICK id \in TaskIds : req[r].call.ids = {id}
  BY <1>1
<1> DEFINE job == [name |-> IF Op(r) = "create" THEN "task-created" ELSE "task-status-updated",
                   taskId |-> id,
                   oldStatus |-> IF Op(r) = "create" THEN Null ELSE req[r].orig.status,
                   newStatus |-> NewStatus(r)]
<1>3. req' = [req EXCEPT ![r].job = job, ![r].pc = "commit"]
  BY <1>2 DEF Enqueue, Answered
<1>4. Op(r) = "update" => job = [name |-> "task-status-updated", taskId |-> id,
                                 oldStatus |-> req[r].orig.status,
                                 newStatus |-> req[r].seen.status]
  BY DEF NewStatus
<1> HIDE DEF job
<1>5. /\ \A s \in Reqs \ {r} : req'[s] = req[s]
      /\ req'[r].call = req[r].call
      /\ req'[r].orig = req[r].orig
      /\ req'[r].seen = req[r].seen
      /\ req'[r].changed = req[r].changed
      /\ req'[r].job = job
      /\ req'[r].pc = "commit"
  BY <1>1, <1>3 DEF Ready, Sound, TableTypes, Request
<1>6. ASSUME r \in Active(u)
      PROVE  Faithful(r)'
  <2>1. Faithful(r)
    BY <1>6 DEF Undisturbed
  <2>2. ReadsNow(r)'
    BY <1>5 DEF ReadsNow
  <2>3. FoundNow(r)'
    BY <1>0, <1>5, <2>1 DEF Faithful, FoundNow, WriteLabels, Op, User
  <2>4. Cleared(r)'
    <3>1. Left(r) = {}
      BY <1>0 DEF Left, At
    <3>2. \A k \in KeysOf(User(r)) : redis[k] = Null
      BY <1>0, <1>1, <2>1, <3>1 DEF Faithful, Cleared, At, Op
    <3> QED BY <1>0, <1>5, <3>2 DEF Cleared, User
  <2>5. Tells(r)'
    BY <1>0, <1>2, <1>4, <1>5, <2>1 DEF Faithful, Tells, DoneLabels, Op, At
  <2> QED BY <2>2, <2>3, <2>4, <2>5 DEF Faithful
<1> QED BY <1>0, <1>1, <1>5, <1>6, RemovesAtMost DEF Ready, Op

-----------------------------------------------------------------------------
(* Steps that change the table, and requests that arrive. *)

\* Tables with the same rows of a user's have the same board.
LEMMA SameBoard ==
    ASSUME NEW u, NEW table1, NEW table2,
           \A id \in TaskIds :
               \/ table1[id] = table2[id]
               \/ /\ IsRow(table1[id]) => table1[id].userId # u
                  /\ IsRow(table2[id]) => table2[id].userId # u
    PROVE  Board(u, table1) = Board(u, table2)
BY DEF Board

\* A row that gets other details keeps its place, status and priority on every board.
LEMMA DetailsOnly ==
    ASSUME NEW u, NEW table1, NEW table2, NEW id \in TaskIds,
           IsRow(table1[id]), IsRow(table2[id]),
           table2[id] = [table1[id] EXCEPT !.details = table2[id].details]
    PROVE  SameButDetails(Board(u, table1)[id], Board(u, table2)[id])
<1>1. /\ table2[id].userId = table1[id].userId
      /\ table2[id].status = table1[id].status
      /\ table2[id].priority = table1[id].priority
  BY DEF IsRow, Row
<1>2. \A row \in Row : [status |-> row.status, priority |-> row.priority, details |-> row.details] \in Fields
  BY DEF Row, Fields
<1> QED BY <1>1, <1>2, MarkersAssumption DEF Board, IsRow, SameButDetails

\* A COMMIT of the user's that changes at most details, which history knows.
LEMMA HarmlessShows ==
    ASSUME NEW u, Remembered(u), EditedNow(u) \subseteq edited'[u],
           NEW r \in Active(u), At(r, "commit"), Harmless(r), rows' = Committed(r)
    PROVE  \A k : MayShow(k, u) \subseteq MayShow(k, u)'
<1>1. ASSUME NEW id \in TaskIds, rows'[id] # rows[id]
      PROVE  /\ id \in edited'[u]
             /\ IsRow(rows[id]) /\ IsRow(rows'[id])
             /\ rows'[id] = [rows[id] EXCEPT !.details = rows'[id].details]
  <2>1. rows'[id] = Sees(r, id)
    BY DEF Committed
  <2>2. id \in EditedNow(u)
    BY <1>1, <2>1 DEF Harmless, Sees, EditedNow
  <2> QED BY <1>1, <2>1, <2>2 DEF Harmless, Sees
<1>2. ASSUME NEW id \in TaskIds, rows'[id] = rows[id]
      PROVE  Board(u, rows')[id] = Board(u, rows)[id]
  BY <1>2 DEF Board
<1>3. ASSUME NEW id \in TaskIds, rows'[id] # rows[id]
      PROVE  id \in edited'[u] /\ SameButDetails(Board(u, rows)[id], Board(u, rows')[id])
  BY <1>1, <1>3, DetailsOnly
<1> QED BY <1>2, <1>3, ShowsStill

\* A COMMIT: the entries of the request's user are gone, or it changes at most details,
\* which history knows; others have no part in it.
LEMMA Commits ==
    ASSUME Ready, NEW u \in Users, Undisturbed(u), Remembered(u), NEW r \in Reqs, Commit(r),
           EditedNow(u) \subseteq edited'[u]
    PROVE  Undisturbed(u)'
<1>0. At(r, "commit") /\ rows' = Committed(r) /\ redis' = redis /\ Return(r)
  BY DEF Commit, cacheVars
<1>1. /\ req[r] \in Request
      /\ req[r].call \in Calls
      /\ \A id \in TaskIds : writes[r][id] # Null => req[r].call.op # "updateStatus"
  BY <1>0, Known DEF Ready, WellFormed, ReadLabels, At
<1>2. /\ \A s \in Reqs : req'[s] = IF s = r THEN Idle ELSE req[s]
      /\ \A s \in Reqs \ {r} : writes'[s] = writes[s]
  BY <1>0 DEF Commit, Return, Ready, Sound, TableTypes
<1>3. r \notin Active(u)'
  BY <1>2, IdleRequest DEF Active, At
<1>4. rows \in [TaskIds -> Row \cup {Unborn, Deleted}]
  BY DEF Ready, Sound, TableTypes
<1>5. CASE r \in Active(u)
  <2>1. Op(r) # "read" /\ Left(r) = {}
    BY <1>0, Known DEF Ready, At, WellFormed, ReadLabels, Op, Left
  <2>2. \A s \in Active(u) : s = r
    BY <1>5, <2>1 DEF Undisturbed, Contended
  <2>3. CASE Harmless(r)
    <3>2. \A k : MayShow(k, u) \subseteq MayShow(k, u)'
      BY <1>0, <1>5, <2>3, HarmlessShows
    <3>3. Agrees(u)'
      BY <1>0, <2>1, <2>2, <3>2 DEF Undisturbed, Agrees
    <3> QED BY <1>2, <1>3, <1>5, <3>3, <2>1, OneOf DEF Ready
  <2>4. CASE ~Harmless(r)
    <3>1. Op(r) # "updateStatus" /\ User(r) = u
      BY <1>1, <1>5, <2>4 DEF Harmless, Active, Op
    <3>2. \A k \in KeysOf(u) : redis[k] = Null
      BY <1>0, <1>5, <2>1, <2>4, <3>1 DEF Undisturbed, Faithful, Cleared, At
    <3>3. Agrees(u)'
      BY <1>0, <3>2 DEF Agrees, MayShow
    <3> QED BY <1>2, <1>3, <1>5, <3>3, <2>1, OneOf DEF Ready
  <2> QED BY <2>3, <2>4
<1>6. CASE r \notin Active(u)
  <2>1. User(r) # u
    BY <1>0, <1>6 DEF Active, At
  <2>2. ASSUME NEW id \in TaskIds
        PROVE  \/ writes[r][id] = Null /\ rows'[id] = rows[id]
               \/ /\ writes[r][id] # Null
                  /\ IsRow(rows[id]) => rows[id].userId # u
                  /\ IsRow(rows'[id]) => rows'[id].userId # u
    <3>1. CASE writes[r][id] = Null
      BY <1>0, <3>1 DEF Committed, Sees
    <3>2. CASE writes[r][id] # Null /\ req[r].call.op = "create"
      <4>1. rows[id] = Unborn /\ rows'[id] = NewRow(req[r].call, rows[id])
        BY <1>0, <3>2 DEF Committed, Sees, Ready, Sound, TableInv, NoLostUpdate, Op
      <4>2. rows'[id].userId = req[r].call.user
        BY <1>1, <3>2, <4>1, NewRowType
      <4> QED BY <2>1, <3>2, <4>1, <4>2, MarkersAssumption DEF IsRow, User
    <3>3. CASE writes[r][id] # Null /\ req[r].call.op # "create"
      <4>1. rows[id].userId # u
        BY <2>1, <3>3 DEF Ready, Sound, TableInv, NoLostUpdate, Op
      <4>2. rows'[id] = Deleted \/ rows'[id].userId = rows[id].userId
        BY <1>0, <3>3, CommittedRow DEF Ready
      <4> QED BY <3>3, <4>1, <4>2, MarkersAssumption DEF IsRow
    <3> QED BY <3>1, <3>2, <3>3
  <2>3. Board(u, rows') = Board(u, rows)
    BY <2>2, SameBoard
  <2>4. ASSUME NEW s \in Active(u), NEW id \in TaskIds,
               writes[s][id] # Null \/ (rows[id] \in Row /\ rows[id].userId = u)
        PROVE  rows'[id] = rows[id]
    <3>1. writes[s][id] # Null => writes[r][id] = Null
      BY <1>6 DEF Ready, Sound, TableInv, NoLostUpdate, Unlocked, Active
    <3> QED BY <2>2, <2>4, <3>1 DEF IsRow
  <2> QED BY <1>0, <1>2, <1>3, <1>6, <2>3, <2>4, Aside DEF Ready
<1> QED BY <1>5, <1>6

\* save has written: every entry of the owner's is still to be removed, and no other user
\* sees the row.
LEMMA Saves ==
    ASSUME Ready, NEW u \in Users, Undisturbed(u), Remembered(u), NEW r \in Reqs, Save(r)
    PROVE  Undisturbed(u)'
<1>0. /\ req[r].pc = "write"
      /\ req[r].call.op = "updateStatus"
      /\ UNCHANGED <<writes, redis>>
      /\ Goto(r, "stats")
  BY DEF Save, At, Op, cacheVars
<1>1. /\ req[r] \in Request
      /\ req[r].call \in Calls
      /\ \E id \in TaskIds : req[r].call.ids = {id}
      /\ req[r].orig \in Row
  BY <1>0, Known DEF Ready, WellFormed, ReadLabels, SingleOps, WriteLabels
<1>2. PICK id \in TaskIds : req[r].call.ids = {id}
  BY <1>1
<1>3. /\ \A s \in Reqs \ {r} : req'[s] = req[s]
      /\ req'[r].call = req[r].call
      /\ req'[r].orig = req[r].orig
      /\ req'[r].pc = "stats"
  BY <1>0, <1>1 DEF Goto, Ready, Sound, TableTypes, Request
<1>4. r \in Active(u) /\ r \in Active(u)'
  BY <1>0, <1>3 DEF Active, At, Op
<1>5. \A s \in Active(u) : s = r
  BY <1>0, <1>4 DEF Undisturbed, Contended, Op
<1>6. Faithful(r)'
  BY <1>0, <1>3 DEF Faithful, ReadsNow, FoundNow, Cleared, Tells, Op
<1>7. CASE u = req[r].orig.userId
  <2>1. \A k \in KeysOf(u) : k \in Left(r)'
    BY <1>0, <1>3, <1>7 DEF Left, Owner, Op, At
  <2>2. Agrees(u)'
    BY <1>0, <1>3, <1>4, <2>1 DEF Agrees, Op
  <2> QED BY <1>0, <1>3, <1>4, <1>6, <2>2, OneOf DEF Ready, Op
<1>8. CASE u # req[r].orig.userId
  <2>1. IsRow(rows[id]) => rows[id].userId = req[r].orig.userId
    <3>1. CountsOn(req[r], id, req[r].orig.userId) /\ req[r].orig.userId \in Users
      BY <1>0, <1>1, <1>2, MarkersAssumption DEF CountsOn, Row
    <3> QED BY <3>1 DEF Ready, Sound, TableInv, Owned
  <2>2. /\ \A i \in TaskIds : i # id => rows'[i] = rows[i]
        /\ rows'[id] # rows[id] => rows'[id].userId = req[r].orig.userId
    <3> DEFINE p == Columns(req[r].changed, Entity(r))
               new == IF "insert" \in req[r].changed THEN Entity(r)
                      ELSE IF IsRow(rows[id]) THEN Patched(rows[id], p) ELSE rows[id]
    <3>1. rows' = [rows EXCEPT ![id] = new]
      BY <1>2 DEF Save
    <3>2. Entity(r) \in Row /\ Entity(r).userId = req[r].orig.userId
      BY <1>1, CallShape, PatchedRow DEF Entity
    <3>3. p \in Patches
      BY <3>2, ColumnsPatch
    <3> HIDE DEF p
    <3>4. IsRow(rows[id]) => Patched(rows[id], p).userId = rows[id].userId
      BY <3>3, PatchedRow DEF IsRow
    <3>5. new = rows[id] \/ new.userId = req[r].orig.userId
      BY <2>1, <3>2, <3>4
    <3> HIDE DEF new
    <3> QED BY <3>1, <3>5 DEF Ready, Sound, TableTypes
  <2>3. Board(u, rows') = Board(u, rows)
    BY <1>8, <2>1, <2>2, SameBoard
  <2>4. Left(r) = {}
    BY <1>0 DEF Left, At
  <2>5. \A k \in KeysOf(u) : redis'[k] \in MayShow(k, u)'
    BY <1>0, <1>5, <2>3, <2>4, ShowsStill DEF Undisturbed, Agrees
  <2>6. Agrees(u)'
    BY <2>5 DEF Agrees
  <2> QED BY <1>0, <1>3, <1>4, <1>6, <2>6, OneOf DEF Ready, Op
<1> QED BY <1>7, <1>8

\* A request arrives: it has done nothing yet.
LEMMA Arrives ==
    ASSUME Ready, NEW u \in Users, Undisturbed(u), Remembered(u), NEW r \in Reqs,
           NEW c \in Calls, Begin(r, c),
           ~Contended(u)'
    PROVE  Undisturbed(u)'
<1>0. req[r].pc = "idle" /\ UNCHANGED <<rows, writes, redis>>
  BY DEF Begin, At, cacheVars
<1> DEFINE q == [Idle EXCEPT
                     !.pc = IF c.op = "read" THEN "get" ELSE IF c.op = "create" THEN "write" ELSE "find",
                     !.call = c,
                     !.todo = IF c.op = "create" THEN c.ids ELSE {},
                     !.born = {id \in c.ids : IsRow(rows[id]) /\ rows[id].userId = c.user}]
<1>1. /\ req' = [req EXCEPT ![r] = q]
      /\ q.call = c
      /\ q.pc = IF c.op = "read" THEN "get" ELSE IF c.op = "create" THEN "write" ELSE "find"
  BY DEF Begin, Idle
<1> HIDE DEF q
<1>2. \A s \in Reqs : req'[s] = IF s = r THEN q ELSE req[s]
  BY <1>1 DEF Ready, Sound, TableTypes
<1>3. Faithful(r)'
  BY <1>1, <1>2 DEF Faithful, ReadsNow, FoundNow, Cleared, Tells, WriteLabels, DoneLabels, Op
<1>4. ASSUME NEW s \in Active(u)
      PROVE  s \in Active(u)' /\ req'[s] = req[s] /\ s \in Reqs
  BY <1>0, <1>2 DEF Active, At, Op, User
<1>5. ASSUME NEW s \in Active(u)', s # r
      PROVE  Faithful(s)'
  <2>1. s \in Reqs /\ s \in Active(u) /\ req'[s] = req[s]
    BY <1>2, <1>5 DEF Active, At, Op, User
  <2>2. Faithful(s)
    BY <2>1 DEF Undisturbed
  <2>3. Left(s)' = Left(s) /\ (Harmless(s) => Harmless(s)')
    BY <1>0, <2>1, LeftSame DEF Harmless, Op
  <2>4. ReadsNow(s)' /\ FoundNow(s)' /\ Tells(s)'
    BY <1>0, <2>1, <2>2 DEF Faithful, ReadsNow, FoundNow, Tells, Op, User, At
  <2>5. Cleared(s)'
    BY <1>0, <2>1, <2>2, <2>3 DEF Faithful, Cleared, Op, User, At
  <2> QED BY <2>4, <2>5 DEF Faithful
<1>6. Agrees(u)'
  <2>1. ASSUME NEW s \in Active(u), Op(s) = "updateStatus"
        PROVE  s \in Active(u)' /\ Op(s)' = "updateStatus" /\ Left(s)' = Left(s)
    BY <1>4, <2>1, LeftSame DEF Op
  <2>2. \A k : MayShow(k, u) \subseteq MayShow(k, u)'
    BY <1>0, ShowsStill
  <2> QED BY <1>0, <2>1, <2>2 DEF Undisturbed, Agrees
<1> QED BY <1>3, <1>5, <1>6 DEF Undisturbed

\* What happens to the cache by itself: entries lapse.
LEMMA Lapses ==
    ASSUME Answered, Ready, NEW u \in Users, Undisturbed(u), Remembered(u), CacheEvent
    PROVE  Undisturbed(u)'
<1>1. UNCHANGED <<rows, writes, req>>
  BY DEF CacheEvent
<1>2. \A k \in CacheKeys : redis'[k] \in {redis[k], Null}
  BY DEF CacheEvent, Answered, Cache!Connect, Cache!ConnectionError, Cache!LapseInRedis,
         Cache!LapseInFallback, Cache!CleanupFallbackCache, Cache!Without
<1>3. \A k \in KeysOf(u) : redis'[k] \in {redis[k], Null}
  BY <1>2 DEF KeysOf
<1>4. Active(u)' = Active(u)
  BY <1>1 DEF Active, At, Op, User
<1> QED BY <1>1, <1>3, <1>4, Spared DEF Ready

\* Redis stays in use.
LEMMA StaysAvailable ==
    ASSUME Answered, Ready, [Next]_vars
    PROVE  isRedisAvailable'
<1>1. CASE UNCHANGED cacheVars
  BY <1>1 DEF Ready, cacheVars
<1>2. CASE CacheEvent
  BY <1>2 DEF Ready, CacheEvent, Answered, Cache!Connect, Cache!ConnectionError, Cache!LapseInRedis,
         Cache!LapseInFallback, Cache!CleanupFallbackCache
<1>3. ASSUME NEW r \in Reqs, Step(r)
      PROVE  isRedisAvailable'
  <2>1. CASE ReadCache(r)
    BY <2>1, RedisAnswers DEF ReadCache, Ready
  <2>2. CASE FillCache(r)
    <3>1. req[r].call.key \in CacheKeys /\ req[r].view \in CachedValues
      BY <2>2, Reading DEF FillCache, At, ReadLabels, Ready, Sound, TableInv, Shape, WellFormed
    <3> QED BY <2>2, <3>1, RedisAnswers DEF FillCache, Ready
  <2>3. CASE Invalidate(r)
    BY <2>3, RedisAnswers DEF Invalidate, InvalidateStats, InvalidateLists, DeleteLists, Ready
  <2>4. CASE UNCHANGED cacheVars
    BY <1>1, <2>4
  <2> QED BY <1>3, <2>1, <2>2, <2>3, <2>4
          DEF Step, StepElsewhere, Enqueue, QueryRows, QueryCount, FindTask, FindTasks,
              FindForStatus, LoadForSave, Write, Save, Reread, Commit, DeadlockAbort, RollBack
<1> QED BY <1>1, <1>2, <1>3 DEF Next, Begin, DbError, RollBack, Restart, Answered, vars

-----------------------------------------------------------------------------
(* The theorems. *)

\* A step keeps what holds of a user whose requests do not overlap.
LEMMA StaysUndisturbed ==
    ASSUME Answered, Ready, NEW u \in Users, Undisturbed(u), Remembered(u),
           EditedNow(u) \subseteq edited'[u], Next, ~Contended(u)'
    PROVE  Undisturbed(u)'
<1>1. ASSUME NEW r \in Reqs, NEW c \in Calls, Begin(r, c)
      PROVE  Undisturbed(u)'
  BY <1>1, Arrives
<1>2. ASSUME NEW r \in Reqs, StepElsewhere(r)
      PROVE  Undisturbed(u)'
  <2>1. CASE ReadCache(r) \/ QueryRows(r) \/ QueryCount(r)
    BY <2>1, ReadsOn
  <2>2. CASE FillCache(r)
    BY <2>2, ReadsLast
  <2>3. CASE FindTask(r) \/ FindTasks(r)
    BY <2>3, FindsTask, FindsTasks
  <2>4. CASE FindForStatus(r) \/ LoadForSave(r)
    BY <2>4, FindsForStatus
  <2>5. CASE Write(r) \/ Save(r) \/ Reread(r) \/ Commit(r)
    BY <2>5, WritesOn, Saves, RereadsNow, Commits
  <2>6. CASE DeadlockAbort(r)
    <3>1. req[r].pc \in DbLabels
      BY <2>6 DEF DeadlockAbort, InDeadlock, WaitsFor, At, DbLabels
    <3> QED BY <2>6, <3>1, RollsBack DEF DeadlockAbort
  <2> QED BY <1>2, <2>1, <2>2, <2>3, <2>4, <2>5, <2>6 DEF StepElsewhere
<1>3. ASSUME NEW r \in Reqs, Step(r)
      PROVE  Undisturbed(u)'
  BY <1>2, <1>3, Invalidates, Enqueues DEF Step
<1>4. ASSUME NEW r \in Reqs, DbError(r)
      PROVE  Undisturbed(u)'
  BY <1>4, RollsBack DEF DbError
<1> QED BY <1>1, <1>3, <1>4, Lapses DEF Next, Restart, Answered

\* The invariant holds at the start, when nothing is cached and nobody has called.
LEMMA CoherenceInit ==
    ASSUME Answered, Init
    PROVE  CoherenceInv
<1>1. isRedisAvailable /\ \A k \in CacheKeys : redis[k] = Null
  BY DEF Init, Answered, Cache!CacheInit, Cache!EmptyTier
<1>2. \A u \in Users : Active(u) = {}
  BY IdleRequest DEF Init, Active, At
<1>3. \A u \in Users : Undisturbed(u)
  BY <1>1, <1>2 DEF Undisturbed, Contended, Agrees, KeysOf, MayShow
<1> QED BY <1>1, <1>3 DEF CoherenceInv

\* Every step keeps the invariant: what history calls troubled may be anything, and it
\* ends when nothing of the user's is cached and nobody calls.
LEMMA CoherenceNext ==
    ASSUME Answered, Sound, TypeOK, CoherenceInv, [Next]_vars
    PROVE  CoherenceInv'
<1>1. Ready
  BY DEF Ready, TypeOK, CoherenceInv
<1>2. isRedisAvailable'
  BY <1>1, StaysAvailable
<1>3. ASSUME NEW u \in Users, ~troubled'[u]
      PROVE  Undisturbed(u)'
  <2>1. CASE UNCHANGED vars
    <3>1. Undisturbed(u)
      BY <1>3, <2>1 DEF CoherenceInv, vars
    <3>2. Active(u)' = Active(u) /\ UNCHANGED <<rows, writes, req, redis>> /\ Remembered(u)
      BY <2>1 DEF vars, cacheVars, Active, At, Op, User, Remembered
    <3> QED BY <1>1, <3>1, <3>2, Spared DEF Ready
  <2>2. CASE Next
    <3>1. troubled'[u] = ((troubled[u] \/ Contended(u)') /\ ~Settled(u)')
      BY <2>2 DEF Next, Watch
    <3>2. CASE Settled(u)'
      <4>1. Active(u)' = {} /\ \A k \in KeysOf(u) : redis'[k] = Null
        BY <3>2 DEF Settled
      <4> QED BY <4>1 DEF Undisturbed, Contended, Agrees, MayShow
    <3>3. CASE ~troubled[u] /\ ~Contended(u)'
      <4>1. Undisturbed(u)
        BY <3>3 DEF CoherenceInv
      <4>2. ~Settled(u)' => edited'[u] = edited[u] \cup EditedNow(u)
        BY <1>3, <2>2 DEF Next, Watch
      <4> QED BY <1>1, <2>2, <3>2, <3>3, <4>1, <4>2, StaysUndisturbed DEF Remembered
    <3> QED BY <1>3, <3>1, <3>2, <3>3
  <2> QED BY <2>1, <2>2
<1> QED BY <1>2, <1>3 DEF CoherenceInv

\* The invariant, with what holds of the table and the types.
LEMMA CoherenceHolds ==
    ASSUME Answered
    PROVE  Spec => [](Sound /\ TypeOK /\ CoherenceInv)
<1>1. Init => Sound /\ CoherenceInv
  BY SoundInit, CoherenceInit
<1>2. Sound /\ TypeOK /\ CoherenceInv /\ [Next]_vars => Sound' /\ CoherenceInv'
  BY SoundNext, CoherenceNext
<1> QED BY <1>1, <1>2, TypeCorrect, PTL DEF Spec

\* While every command of Redis is answered, what is cached of a user whose requests have
\* ended is what the queries would return, for any users, tasks, requests, filters and
\* interleavings, with statements that fail: provided no writing request of the user's
\* overlapped another one since the user's entries were last gone; except for the title,
\* description and due date of a task that an update changed together with nothing else,
\* which the code does not invalidate.
THEOREM CacheCoherent ==
    ASSUME Answered
    PROVE  Spec => []CoherentUnlessOverlapped
<1>1. CoherenceInv => CoherentUnlessOverlapped
  BY DEF CoherenceInv, Undisturbed, Agrees, CoherentUnlessOverlapped, Coherent, TierInUse
<1> QED BY <1>1, CoherenceHolds, PTL

\* While the queue takes every job, an update alone among its user's requests has put the
\* change of status that it commits on the queue, old and new status as they are.
THEOREM UpdatesAnnounced ==
    ASSUME Answered
    PROVE  Spec => AnnouncedUnlessOverlapped
<1> DEFINE Announces == \A r \in Reqs : CommitsUpdate(r) /\ ~troubled[User(r)] => Announced(r)
<1>1. Sound /\ TypeOK /\ CoherenceInv /\ [Next]_vars => [Announces]_vars
  <2> SUFFICES ASSUME Sound, TypeOK, CoherenceInv, Next, NEW r \in Reqs,
                      CommitsUpdate(r), ~troubled[User(r)], NEW id \in req[r].call.ids,
                      IsRow(rows[id]), IsRow(rows'[id]), rows[id].status # rows'[id].status
               PROVE  /\ req[r].job.taskId = id
                      /\ req[r].job.oldStatus = rows[id].status
                      /\ req[r].job.newStatus = rows'[id].status
    BY DEF Announced
  <2>0. At(r, "commit") /\ Op(r) = "update"
    BY DEF CommitsUpdate
  <2>1. /\ req[r].call \in Calls
        /\ req[r].call.ids \subseteq TaskIds
        /\ User(r) \in Users
        /\ WellFormed(req[r], writes[r])
    BY <2>0, Known, CallShape DEF ReadLabels, At, Op, User
  <2>2. r \in Active(User(r))
    BY <2>0 DEF Active, At
  <2>3. Faithful(r) /\ ~Contended(User(r))
    BY <2>1, <2>2 DEF CoherenceInv, Undisturbed
  <2>4. rows[id] = req[r].orig /\ rows[id].userId = User(r) /\ id \in TaskIds
    BY <2>0, <2>1, <2>3 DEF Faithful, FoundNow, WriteLabels, At
  <2>6. PICK s \in Reqs : Commit(s) \/ Save(s)
    <3>1. rows' # rows
      BY DEF CommitsUpdate
    <3> QED BY <3>1
         DEF Next, Begin, Step, StepElsewhere, Invalidate, Enqueue, ReadCache, QueryRows, QueryCount,
             FillCache, FindTask, FindTasks, FindForStatus, LoadForSave, Write, Reread,
             DeadlockAbort, RollBack, InvalidateStats, InvalidateLists, DeleteLists, DbError,
             Restart, CacheEvent
  <2>7. ~Save(s)
    BY <2>0, <2>2, <2>3 DEF Save, Contended, Active, At, Op
  <2>8. Commit(s) /\ rows'[id] = writes[s][id] /\ writes[s][id] # Null
    BY <2>4, <2>6, <2>7 DEF Commit, Committed, Sees
  <2>9. s = r
    <3>1. Op(s) # "create" /\ User(s) = User(r)
      BY <2>4, <2>8, MarkersAssumption DEF Sound, TableInv, NoLostUpdate, IsRow
    <3>2. s \in Active(User(r))
      BY <2>8, <3>1 DEF Commit, Active, At
    <3> QED BY <2>0, <2>2, <2>3, <3>2 DEF Contended
  <2>10. rows'[id] = req[r].seen
    BY <2>0, <2>1, <2>8, <2>9 DEF WellFormed, DoneLabels, At, Op
  <2>11. req[r].job = [name |-> "task-status-updated", taskId |-> id,
                       oldStatus |-> req[r].orig.status, newStatus |-> req[r].seen.status]
    BY <2>0, <2>3, <2>4, <2>10 DEF Faithful, Tells, DoneLabels, At
  <2> QED BY <2>4, <2>10, <2>11
<1> QED BY <1>1, CoherenceHolds, PTL DEF Spec, AnnouncedUnlessOverlapped

=============================================================================
