------------------------- MODULE TasksServiceProofs -------------------------
(***************************************************************************)
(* Proofs about TasksService, for any users, tasks, requests, filters and  *)
(* failures: that no update is lost, the types, and that it implements     *)
(* TaskBoard as long as updateStatus is not called.  (Its save can bring   *)
(* back a row that is gone, and then a batch that found the row gone does  *)
(* not take effect as a whole any more.)                                   *)
(***************************************************************************)
EXTENDS TasksService, FiniteSetTheorems, TLAPS

-----------------------------------------------------------------------------
(* The inductive invariant. *)

ReadLabels == {"get", "rows", "count", "set"}

\* Where a transaction may have written something
WriteLabels == {"write", "reread", "stats", "lists", "del", "add", "commit"}

\* Where its statement is done
DoneLabels == {"stats", "lists", "del", "add", "commit"}

SingleOps == {"create", "update", "remove", "updateStatus"}

TaskOps == {"update", "remove"} \cup BatchOps

\* Where a request q may be, with which operation, and what it has found and written (w)
WellFormed(q, w) ==
    /\ q.pc = "idle" => q = Idle
    /\ q.pc # "idle" => q.call \in Calls
    /\ q.todo \subseteq q.call.ids
    /\ q.pc \in ReadLabels <=> q.pc # "idle" /\ q.call.op = "read"
    /\ q.pc \in {"count", "set"} => q.view \in CachedValues
    /\ q.pc = "reread" => q.call.op = "update"
    /\ q.pc = "add" => q.call.op \in {"create", "update"}
    /\ q.pc = "load" => q.call.op = "updateStatus"
    /\ q.pc \in WriteLabels \cup {"load"} /\ q.call.op \in {"update", "updateStatus"} => q.orig \in Row
    /\ q.pc = "write" /\ q.call.op = "create" => q.todo = q.call.ids
    /\ q.pc \in DoneLabels /\ q.call.op = "create" => \A id \in q.call.ids : w[id] \in Row
    /\ q.pc \in DoneLabels /\ q.call.op = "update" =>
           q.seen \in Row /\ \A id \in q.call.ids : w[id] \in {Null, q.seen}
    /\ \A id \in TaskIds : w[id] # Null => 
           /\ q.pc \in WriteLabels
           /\ q.call.op \in TaskOps \cup {"create"}
           /\ id \in q.call.ids

Shape == \A r \in Reqs : WellFormed(req[r], writes[r])

\* Request q counts on it that row id is u's
CountsOn(q, id, u) ==
    \/ q.call.op \in TaskOps /\ id \in q.todo /\ u = q.call.user
    \/ /\ q.call.op = "updateStatus"
       /\ q.orig # Null
       /\ id \in q.call.ids
       /\ u = q.orig.userId

\* A row keeps its owner, even over its deletion: what requests count on is so, and
\* they agree about rows that are gone
Owned ==
    \A r \in Reqs, id \in TaskIds, u \in Users : CountsOn(req[r], id, u) =>
        /\ rows[id] # Unborn
        /\ IsRow(rows[id]) => rows[id].userId = u
        /\ \A s \in Reqs, v \in Users : CountsOn(req[s], id, v) => u = v

Creates(q, id) == q.call.op = "create" /\ id \in q.call.ids

\* The id of a task under creation is nobody else's
Fresh ==
    \A r \in Reqs, id \in TaskIds : Creates(req[r], id) =>
        /\ rows[id] = Unborn
        /\ \A s \in Reqs \ {r} : ~Creates(req[s], id)

TableInv == Shape /\ Owned /\ Fresh /\ NoLostUpdate

\* What the database and the requests hold, apart from history and cache
TableTypes ==
    /\ rows \in [TaskIds -> Row \cup {Unborn, Deleted}]
    /\ writes \in [Reqs -> [TaskIds -> Row \cup {Deleted, Null}]]
    /\ req \in [Reqs -> Request]

Sound == TableTypes /\ TableInv

-----------------------------------------------------------------------------
(* Calls and their rows. *)

\* A DTO is a patch with a status and a priority, and has details if its body has.
LEMMA DtoFields ==
    ASSUME NEW b \in Sent
    PROVE  /\ Dto(b) \in Patches
           /\ Dto(b).status \in Statuses
           /\ Dto(b).priority \in Priorities
           /\ b.details # Null => Dto(b) \in Fields
<1>1. b \in Patches
  BY EnumAssumption
<1>2. /\ b.status \in Statuses \cup {Null}
      /\ b.priority \in Priorities \cup {Null}
      /\ b.details \in Details \cup {Null}
  BY <1>1 DEF Patches
<1> QED BY <1>2, EnumAssumption DEF Dto, Fields, Patches

\* A body without fields is a patch.
LEMMA EmptyPatch == NoPatch \in Patches
BY DEF NoPatch, Patches

\* What a call is about, by its operation.
LEMMA CallShape ==
    ASSUME NEW c \in Calls
    PROVE  /\ c.op \in OpNames
           /\ c.ids \in SUBSET TaskIds
           /\ c.op # "updateStatus" => c.user \in Users
           /\ c.op \in SingleOps => \E id \in TaskIds : c.ids = {id}
           /\ c.op = "create" => c.patch \in Fields
           /\ c.op = "update" => c.patch.status \in Statuses /\ c.patch.priority \in Priorities
           /\ c.patch \in Patches
           /\ c.op = "read" => c.key \in CacheKeys /\ c.ids = {} /\ c.key.user = c.user
<1>1. CASE c \in {[NoCall EXCEPT !.user = k.user, !.key = k] : k \in CacheKeys}
  <2>1. PICK k \in CacheKeys : c = [NoCall EXCEPT !.user = k.user, !.key = k]
    BY <1>1
  <2>2. c.op = "read" /\ c.ids = {} /\ c.patch = NoPatch /\ c.user = k.user /\ c.key = k
    BY <2>1 DEF NoCall
  <2>3. k.user \in Users
    BY DEF CacheKeys
  <2> QED BY <2>2, <2>3, EmptyPatch DEF OpNames, SingleOps
<1>2. CASE c \in CallsOf({"create"}, Users, OneTask, {Dto(body) : body \in {b \in Sent : b.details # Null}})
  <2>1. c.patch \in Fields /\ c.patch \in Patches
    BY <1>2, DtoFields DEF CallsOf
  <2> QED BY <1>2, <2>1 DEF CallsOf, OneTask, OpNames, SingleOps
<1>6. CASE c \in CallsOf({"update"}, Users, OneTask, {Dto(body) : body \in Sent})
  <2>1. c.patch \in Patches /\ c.patch.status \in Statuses /\ c.patch.priority \in Priorities
    BY <1>6, DtoFields DEF CallsOf
  <2> QED BY <1>6, <2>1 DEF CallsOf, OneTask, OpNames, SingleOps
<1>3. CASE c \in CallsOf({"remove"}, Users, OneTask, {NoPatch})
  BY <1>3, EmptyPatch DEF CallsOf, OneTask, OpNames, SingleOps
<1>4. CASE c \in CallsOf(BatchOps, Users, SUBSET TaskIds \ {{}}, {NoPatch})
  BY <1>4, EmptyPatch DEF CallsOf, OpNames, SingleOps, BatchOps
<1>5. CASE c \in CallsOf({"updateStatus"}, {Null}, OneTask, {[NoPatch EXCEPT !.status = s] : s \in Statuses})
  <2>1. c.patch \in Patches
    BY <1>5 DEF CallsOf, NoPatch, Patches
  <2> QED BY <1>5, <2>1 DEF CallsOf, OneTask, OpNames, SingleOps
<1> QED BY <1>1, <1>2, <1>3, <1>4, <1>5, <1>6 DEF Calls

\* The operations of the table and the others.
LEMMA Operations ==
    /\ TaskOps = {"update", "remove", "complete", "delete", "unknown"}
    /\ OpNames = {"read", "create", "updateStatus"} \cup TaskOps
BY DEF TaskOps, OpNames, BatchOps

\* Some columns of a row are a patch.
LEMMA ColumnsPatch ==
    ASSUME NEW row \in Row, NEW F
    PROVE  Columns(F, row) \in Patches
BY DEF Columns, Patches, Row

\* Patches and statements make rows of rows.
LEMMA PatchedRow ==
    ASSUME NEW row \in Row, NEW p \in Patches
    PROVE  Patched(row, p) \in Row /\ Patched(row, p).userId = row.userId
BY DEF Patched, Row, Patches

\* What a statement leaves is a row of the caller's, or none.
LEMMA NewRowType ==
    ASSUME NEW c \in Calls, NEW row, c.op = "create" \/ row \in Row, c.op # "updateStatus"
    PROVE  /\ NewRow(c, row) \in Row \cup {Deleted}
           /\ c.op = "create" => NewRow(c, row) \in Row /\ NewRow(c, row).userId = c.user
           /\ c.op \in {"update", "complete"} =>
                  NewRow(c, row) \in Row /\ NewRow(c, row).userId = row.userId
           /\ c.op \notin {"create", "update", "complete"} => NewRow(c, row) = Deleted
<1>1. c.user \in Users /\ (c.op = "create" => c.patch \in Fields) /\ c.patch \in Patches
  BY CallShape
<1>2. CASE c.op = "create"
  BY <1>1, <1>2 DEF NewRow, Row, Fields
<1>3. CASE c.op = "update"
  BY <1>1, <1>3, PatchedRow DEF NewRow
<1>4. CASE c.op = "complete"
  BY <1>4, EnumAssumption DEF NewRow, Row
<1>5. CASE c.op \notin {"create", "update", "complete"}
  BY <1>5 DEF NewRow
<1> QED BY <1>2, <1>3, <1>4, <1>5

\* A request that has returned is a request without a call, which has written nothing.
LEMMA IdleRequest ==
    /\ Idle \in Request
    /\ Idle.pc = "idle"
    /\ Idle.call = NoCall
    /\ NoCall.op = "read"
    /\ NoCall.ids = {}
    /\ Idle.todo = {}
    /\ NoWrites \in [TaskIds -> Row \cup {Deleted, Null}]
    /\ WellFormed(Idle, NoWrites)
<1>1. Idle \in Request
  BY DEF Idle, Request, Labels
<1> QED BY <1>1 DEF Idle, NoCall, NoWrites, WellFormed, ReadLabels, WriteLabels, DoneLabels

-----------------------------------------------------------------------------
(* How a step keeps the invariant. *)

\* Rows keep their owners when new claims are made on rows that are there, and a row
\* appears only for someone who counts on it, or where nobody does.
LEMMA OwnedKept ==
    ASSUME Owned,
           \A r \in Reqs, id \in TaskIds, u \in Users : CountsOn(req'[r], id, u) =>
               CountsOn(req[r], id, u) \/ (IsRow(rows[id]) /\ rows[id].userId = u),
           \A id \in TaskIds :
               \/ rows'[id] = rows[id]
               \/ rows[id] = Unborn
               \/ rows[id] # Unborn /\ rows'[id] = Deleted
               \/ /\ rows[id] # Unborn
                  /\ IsRow(rows'[id])
                  /\ rows'[id].userId \in Users
                  /\ \/ IsRow(rows[id]) /\ rows[id].userId = rows'[id].userId
                     \/ \E s \in Reqs : CountsOn(req[s], id, rows'[id].userId)
    PROVE  Owned'
<1> SUFFICES ASSUME NEW r \in Reqs, NEW id \in TaskIds, NEW u \in Users, CountsOn(req'[r], id, u)
             PROVE  /\ rows'[id] # Unborn
                    /\ IsRow(rows'[id]) => rows'[id].userId = u
                    /\ \A s \in Reqs, v \in Users : CountsOn(req'[s], id, v) => u = v
  BY DEF Owned
<1>1. ASSUME NEW s \in Reqs, NEW v \in Users, CountsOn(req'[s], id, v)
      PROVE  /\ rows[id] # Unborn
             /\ IsRow(rows[id]) => rows[id].userId = v
             /\ \A o \in Reqs, w \in Users : CountsOn(req[o], id, w) => w = v
  <2>1. CASE CountsOn(req[s], id, v)
    BY <2>1 DEF Owned
  <2>2. CASE IsRow(rows[id]) /\ rows[id].userId = v
    BY <2>2, MarkersAssumption DEF Owned, IsRow
  <2> QED BY <1>1, <2>1, <2>2
<1>2. rows'[id] # Unborn
  BY <1>1, MarkersAssumption DEF IsRow
<1>3. ASSUME IsRow(rows'[id])
      PROVE  rows'[id].userId = u
  BY <1>1, <1>3, MarkersAssumption DEF IsRow
<1>4. ASSUME NEW s \in Reqs, NEW v \in Users, CountsOn(req'[s], id, v)
      PROVE  u = v
  <2>1. CASE IsRow(rows[id])
    BY <1>1, <1>4, <2>1
  <2>2. CASE ~IsRow(rows[id])
    <3>1. CountsOn(req[s], id, v)
      BY <1>4, <2>2
    <3> QED BY <1>1, <3>1
  <2> QED BY <2>1, <2>2
<1> QED BY <1>2, <1>3, <1>4

\* A step of one request that leaves the table and what it has written as they are.
LEMMA Moves ==
    ASSUME Sound, NEW r \in Reqs, NEW q \in Request,
           req' = [req EXCEPT ![r] = q],
           UNCHANGED <<rows, writes>>,
           WellFormed(q, writes[r]),
           q = Idle \/ q.call = req[r].call,
           \A id \in TaskIds, u \in Users : CountsOn(q, id, u) =>
               CountsOn(req[r], id, u) \/ (IsRow(rows[id]) /\ rows[id].userId = u)
    PROVE  Sound'
<1>1. TableTypes'
  BY DEF Sound, TableTypes
<1>2. \A s \in Reqs : req'[s] = IF s = r THEN q ELSE req[s]
  BY DEF Sound, TableTypes
<1>3. Shape'
  BY <1>2 DEF Sound, TableInv, Shape
<1>4. Owned'
  BY <1>2, OwnedKept DEF Sound, TableInv
<1>5. \A s \in Reqs, id \in TaskIds : Creates(req'[s], id) => Creates(req[s], id)
  BY <1>2, IdleRequest DEF Creates
<1>6. Fresh'
  BY <1>5 DEF Sound, TableInv, Fresh
<1>7. NoLostUpdate'
  <2> SUFFICES ASSUME NEW s \in Reqs, NEW id \in TaskIds, writes[s][id] # Null
               PROVE  /\ id \in req'[s].call.ids
                      /\ IF req'[s].call.op = "create" THEN rows[id] = Unborn
                         ELSE IsRow(rows[id]) /\ rows[id].userId = req'[s].call.user
                      /\ writes[s][id] = NewRow(req'[s].call, rows[id])
                      /\ \A o \in Reqs \ {s} : writes[o][id] = Null
    BY DEF NoLostUpdate, Unlocked, Op, User
  <2>1. req'[s].call = req[s].call
    <3>1. q = Idle => writes[r][id] = Null
      BY IdleRequest DEF WellFormed, WriteLabels
    <3> QED BY <1>2, <3>1
  <2> QED BY <2>1 DEF Sound, TableInv, NoLostUpdate, Unlocked, Op, User
<1> QED BY <1>1, <1>3, <1>4, <1>6, <1>7 DEF Sound, TableInv

\* A request that ends without having written anything.
LEMMA Ends ==
    ASSUME Sound, NEW r \in Reqs, Return(r), UNCHANGED <<rows, writes>>,
           \A id \in TaskIds : writes[r][id] = Null
    PROVE  Sound'
<1>1. WellFormed(Idle, writes[r])
  BY IdleRequest DEF WellFormed, WriteLabels, DoneLabels, ReadLabels
<1>2. \A id \in TaskIds, u \in Users : ~CountsOn(Idle, id, u)
  BY IdleRequest, Operations DEF CountsOn
<1> QED BY <1>1, <1>2, IdleRequest, Moves DEF Return

-----------------------------------------------------------------------------
(* Reads. *)

\* A selection or counters, with a total, may be cached.
LEMMA CachedValue ==
    ASSUME NEW d, NEW n \in Nat,
           \/ d \in UNION {[S -> Fields] : S \in SUBSET TaskIds}
           \/ d \in [completed: Nat, pending: Nat, overdue: Nat]
    PROVE  [data |-> d, total |-> n] \in CachedValues
<1> DEFINE Lists == UNION {[S -> Fields] : S \in SUBSET TaskIds}
           Counters == [completed: Nat, pending: Nat, overdue: Nat]
<1>1. d \in Lists \/ d \in Counters
  OBVIOUS
<1>2. CachedValues = [data: Lists \cup Counters, total: Nat]
  BY DEF CachedValues
<1> HIDE DEF Lists, Counters
<1> QED BY <1>1, <1>2

\* What the queries return is what the cache may hold.
LEMMA ViewType ==
    ASSUME TableTypes, NEW u, NEW k \in CacheKeys
    PROVE  View(k, Board(u, rows)) \in CachedValues
<1> DEFINE b == Board(u, rows)
<1>1. \A id \in TaskIds : b[id] \in Fields \cup {Null}
  BY DEF Board, IsRow, Row, Fields
<1> HIDE DEF b
<1>2. \A S \in SUBSET TaskIds : Cardinality(S) \in Nat
  BY TablesAssumption, FS_Subset, FS_CardinalityType
<1>3. CASE k.kind = "stats"
  <2>1. /\ Cardinality(Having(b, "COMPLETED")) \in Nat
        /\ Cardinality(Having(b, "PENDING")) \in Nat
        /\ Cardinality(Late(b)) \in Nat
    BY <1>2 DEF Having, Late
  <2>2. Cardinality({id \in TaskIds : b[id] # Null}) \in Nat
    BY <1>2
  <2> DEFINE d == [completed |-> Cardinality(Having(b, "COMPLETED")),
                   pending   |-> Cardinality(Having(b, "PENDING")),
                   overdue   |-> Cardinality(Late(b))]
  <2>3. d \in [completed: Nat, pending: Nat, overdue: Nat]
    BY <2>1
  <2>4. StatsView(b) = [data |-> d, total |-> Cardinality({id \in TaskIds : b[id] # Null})]
    BY DEF StatsView
  <2> HIDE DEF d
  <2>5. StatsView(b) \in CachedValues
    BY <2>2, <2>3, <2>4, CachedValue
  <2> QED BY <1>3, <2>5 DEF View, b
<1>4. CASE k.kind # "stats"
  <2> DEFINE S == Selection(k.filter, b)
  <2>1. S \in SUBSET TaskIds /\ \A id \in S : b[id] \in Fields
    BY <1>1 DEF Selection
  <2>2. Cardinality(S) \in Nat
    BY <1>2, <2>1
  <2>3. [id \in S |-> b[id]] \in [S -> Fields]
    BY <2>1
  <2> HIDE DEF S
  <2>4. [id \in S |-> b[id]] \in UNION {[T -> Fields] : T \in SUBSET TaskIds}
    BY <2>1, <2>3
  <2>5. [data |-> [id \in S |-> b[id]], total |-> Cardinality(S)] \in CachedValues
    BY <2>2, <2>4 DEF CachedValues
  <2> QED BY <1>4, <2>5 DEF View, ListView, b, S
<1> QED BY <1>3, <1>4

\* A request that only goes to another label counts on nothing new.
LEMMA Goes ==
    ASSUME Sound, NEW r \in Reqs, NEW label \in Labels, Goto(r, label), UNCHANGED <<rows, writes>>,
           WellFormed([req[r] EXCEPT !.pc = label], writes[r])
    PROVE  Sound'
<1> DEFINE q == [req[r] EXCEPT !.pc = label]
<1>1. req[r] \in Request
  BY DEF Sound, TableTypes
<1>2. /\ q \in Request
      /\ q.call = req[r].call
      /\ q.todo = req[r].todo
      /\ q.orig = req[r].orig
  BY <1>1 DEF Request
<1>3. req' = [req EXCEPT ![r] = q]
  BY DEF Goto
<1> HIDE DEF q
<1>4. \A id \in TaskIds, u \in Users : CountsOn(q, id, u) => CountsOn(req[r], id, u)
  BY <1>2 DEF CountsOn
<1> QED BY <1>2, <1>3, <1>4, Moves DEF q

\* What is known of a request that reads.
LEMMA Reading ==
    ASSUME Sound, NEW r \in Reqs, req[r].pc \in ReadLabels
    PROVE  /\ req[r] \in Request
           /\ req[r].pc # "idle"
           /\ req[r].call \in Calls
           /\ req[r].call.op = "read"
           /\ req[r].call.key \in CacheKeys
           /\ req[r].call.ids = {}
           /\ req[r].todo = {}
           /\ \A id \in TaskIds : writes[r][id] = Null
<1>1. WellFormed(req[r], writes[r]) /\ req[r] \in Request
  BY DEF Sound, TableTypes, TableInv, Shape
<1>2. req[r].pc # "idle" /\ req[r].call \in Calls /\ req[r].call.op = "read"
  BY <1>1 DEF WellFormed, ReadLabels
<1>3. req[r].call.key \in CacheKeys /\ req[r].call.ids = {}
  BY <1>2, CallShape
<1> QED BY <1>1, <1>2, <1>3 DEF WellFormed

\* get, the queries and set leave the table alone.
LEMMA ReadSteps ==
    ASSUME Sound, NEW r \in Reqs, ReadCache(r) \/ QueryRows(r) \/ QueryCount(r) \/ FillCache(r)
    PROVE  Sound'
<1>0. req[r].pc \in ReadLabels
  BY DEF ReadCache, QueryRows, QueryCount, FillCache, At, ReadLabels
<1>a. /\ req[r] \in Request
      /\ req[r].pc # "idle"
      /\ req[r].call \in Calls
      /\ req[r].call.op = "read"
      /\ req[r].call.key \in CacheKeys
      /\ req[r].call.ids = {}
      /\ req[r].todo = {}
      /\ \A id \in TaskIds : writes[r][id] = Null
  BY <1>0, Reading
<1>b. \A q \in Request : q.call = req[r].call => \A id \in TaskIds, u \in Users : ~CountsOn(q, id, u)
  BY <1>a, Operations DEF CountsOn
<1>c. ASSUME NEW q \in Request, q.call = req[r].call, q.todo = {}, q.pc \in ReadLabels,
             q.pc \in {"count", "set"} => q.view \in CachedValues
      PROVE  WellFormed(q, writes[r])
  BY <1>a, <1>c DEF WellFormed, ReadLabels, WriteLabels, DoneLabels
<1>1. CASE ReadCache(r)
  <2>1. UNCHANGED <<rows, writes>> /\ (Return(r) \/ Goto(r, "rows"))
    BY <1>1 DEF ReadCache
  <2>2. CASE Return(r)
    BY <1>a, <2>1, <2>2, Ends
  <2>3. CASE Goto(r, "rows")
    <3> DEFINE q == [req[r] EXCEPT !.pc = "rows"]
    <3>1. q \in Request /\ q.call = req[r].call /\ q.todo = {} /\ q.pc = "rows"
      BY <1>a DEF Request, Labels
    <3> HIDE DEF q
    <3>2. WellFormed(q, writes[r])
      BY <1>c, <3>1 DEF ReadLabels
    <3> QED BY <2>1, <2>3, <3>2, Goes DEF q, Labels
  <2> QED BY <2>1, <2>2, <2>3
<1>2. CASE QueryRows(r)
  <2> DEFINE v == View(req[r].call.key, Board(User(r), rows))
             pc == IF req[r].call.key.kind = "stats" THEN "set" ELSE "count"
             q == [req[r] EXCEPT !.pc = pc, !.view = v]
  <2>1. v \in CachedValues
    BY <1>a, ViewType DEF Sound
  <2>2. req' = [req EXCEPT ![r] = q] /\ UNCHANGED <<rows, writes>>
    BY <1>2 DEF QueryRows
  <2>3. pc \in {"count", "set"}
    OBVIOUS
  <2> HIDE DEF v, pc
  <2>4. q \in Request /\ q.call = req[r].call /\ q.todo = {} /\ q.pc = pc /\ q.view = v
    BY <1>a, <2>1, <2>3 DEF Request, Labels
  <2> HIDE DEF q
  <2>5. WellFormed(q, writes[r])
    BY <1>c, <2>1, <2>3, <2>4 DEF ReadLabels
  <2> QED BY <1>b, <2>2, <2>4, <2>5, Moves
<1>3. CASE QueryCount(r)
  <2> DEFINE v == View(req[r].call.key, Board(User(r), rows))
             q == [req[r] EXCEPT !.pc = "set", !.view = [@ EXCEPT !.total = v.total]]
  <2>1. v \in CachedValues
    BY <1>a, ViewType DEF Sound
  <2>2. req' = [req EXCEPT ![r] = q] /\ UNCHANGED <<rows, writes>>
    BY <1>3 DEF QueryCount
  <2>3. req[r].view \in CachedValues
    BY <1>3 DEF QueryCount, At, Sound, TableInv, Shape, WellFormed
  <2>4. [req[r].view EXCEPT !.total = v.total] \in CachedValues
    BY <2>1, <2>3 DEF CachedValues
  <2> HIDE DEF v
  <2>5. /\ q \in Request
        /\ q.call = req[r].call
        /\ q.todo = {}
        /\ q.pc = "set"
        /\ q.view \in CachedValues
    BY <1>a, <2>4 DEF Request, Labels
  <2> HIDE DEF q
  <2>6. WellFormed(q, writes[r])
    BY <1>c, <2>5 DEF ReadLabels
  <2> QED BY <1>b, <2>2, <2>5, <2>6, Moves
<1>4. CASE FillCache(r)
  BY <1>a, <1>4, Ends DEF FillCache
<1> QED BY <1>1, <1>2, <1>3, <1>4

-----------------------------------------------------------------------------
(* Awaits of a writing request that leave the table alone. *)

\* What is known of a request in flight that does not read.
LEMMA Known ==
    ASSUME Sound, NEW r \in Reqs
    PROVE  /\ req[r] \in Request
           /\ WellFormed(req[r], writes[r])
           /\ writes[r] \in [TaskIds -> Row \cup {Deleted, Null}]
           /\ req[r].pc \notin {"idle"} \cup ReadLabels =>
                  /\ req[r].call \in Calls
                  /\ req[r].call.ids \in SUBSET TaskIds
                  /\ req[r].call.op \in TaskOps \cup {"create", "updateStatus"}
                  /\ req[r].call.op \in SingleOps => \E id \in TaskIds : req[r].call.ids = {id}
           /\ req[r].pc \notin WriteLabels \/ req[r].call.op = "updateStatus" =>
                  \A id \in TaskIds : writes[r][id] = Null
<1>1. req[r] \in Request /\ WellFormed(req[r], writes[r])
      /\ writes[r] \in [TaskIds -> Row \cup {Deleted, Null}]
  BY DEF Sound, TableTypes, TableInv, Shape
<1>2. ASSUME req[r].pc \notin {"idle"} \cup ReadLabels
      PROVE  /\ req[r].call \in Calls
             /\ req[r].call.ids \in SUBSET TaskIds
             /\ req[r].call.op \in TaskOps \cup {"create", "updateStatus"}
             /\ req[r].call.op \in SingleOps => \E id \in TaskIds : req[r].call.ids = {id}
  <2>1. req[r].call \in Calls /\ req[r].call.op # "read"
    BY <1>1, <1>2 DEF WellFormed
  <2> QED BY <2>1, CallShape, Operations
<1>3. req[r].pc \notin WriteLabels \/ req[r].call.op = "updateStatus" =>
          \A id \in TaskIds : writes[r][id] = Null
  BY <1>1, Operations DEF WellFormed
<1> QED BY <1>1, <1>2, <1>3

\* findOne of update and remove.
LEMMA FindTaskStep ==
    ASSUME Sound, NEW r \in Reqs, FindTask(r)
    PROVE  Sound'
<1>1. /\ req[r].pc = "find"
      /\ req[r].call.op \in {"update", "remove"}
      /\ UNCHANGED <<rows, writes>>
  BY DEF FindTask, At, Op
<1>2. /\ req[r] \in Request
      /\ req[r].call \in Calls
      /\ req[r].call.ids \in SUBSET TaskIds
      /\ WellFormed(req[r], writes[r])
      /\ \A id \in TaskIds : writes[r][id] = Null
  BY <1>1, Known DEF ReadLabels, WriteLabels
<1>3. CASE Return(r)
  BY <1>1, <1>2, <1>3, Ends
<1>4. ASSUME NEW id \in Found(r),
             req' = [req EXCEPT ![r].pc = "write", ![r].orig = rows[id], ![r].todo = {id}]
      PROVE  Sound'
  <2> DEFINE q == [req[r] EXCEPT !.pc = "write", !.orig = rows[id], !.todo = {id}]
  <2>1. req' = [req EXCEPT ![r] = q]
    BY <1>4
  <2>2. /\ id \in req[r].call.ids
        /\ id \in TaskIds
        /\ rows[id] \in Row
        /\ rows[id].userId = req[r].call.user
    BY <1>2 DEF Found, IsRow, User
  <2>3. /\ q \in Request
        /\ q.pc = "write"
        /\ q.call = req[r].call
        /\ q.todo = {id}
        /\ q.orig = rows[id]
    BY <1>2, <2>2 DEF Request, Labels
  <2> HIDE DEF q
  <2>4. WellFormed(q, writes[r])
    BY <1>1, <1>2, <2>2, <2>3 DEF WellFormed, ReadLabels, WriteLabels, DoneLabels
  <2>5. \A i \in TaskIds, u \in Users : CountsOn(q, i, u) =>
           CountsOn(req[r], i, u) \/ (IsRow(rows[i]) /\ rows[i].userId = u)
    BY <1>1, <2>2, <2>3 DEF CountsOn, IsRow
  <2> QED BY <1>1, <2>1, <2>3, <2>4, <2>5, Moves
<1> QED BY <1>3, <1>4 DEF FindTask

\* find of batchProcess.
LEMMA FindTasksStep ==
    ASSUME Sound, NEW r \in Reqs, FindTasks(r)
    PROVE  Sound'
<1>1. /\ req[r].pc = "find"
      /\ req[r].call.op \in BatchOps
      /\ UNCHANGED <<rows, writes>>
  BY DEF FindTasks, At, Op
<1>2. /\ req[r] \in Request
      /\ req[r].call \in Calls
      /\ req[r].call.ids \in SUBSET TaskIds
      /\ WellFormed(req[r], writes[r])
      /\ \A id \in TaskIds : writes[r][id] = Null
  BY <1>1, Known DEF ReadLabels, WriteLabels
<1>3. CASE Goto(r, "commit")
  <2> DEFINE q == [req[r] EXCEPT !.pc = "commit"]
  <2>1. q \in Request /\ q.pc = "commit" /\ q.call = req[r].call /\ q.todo = req[r].todo
    BY <1>2 DEF Request, Labels
  <2> HIDE DEF q
  <2>2. WellFormed(q, writes[r])
    BY <1>1, <1>2, <2>1 DEF WellFormed, ReadLabels, WriteLabels, DoneLabels, BatchOps
  <2> QED BY <1>1, <1>3, <2>2, Goes DEF q, Labels
<1>4. CASE req' = [req EXCEPT ![r].pc = "write", ![r].todo = Found(r)]
  <2> DEFINE q == [req[r] EXCEPT !.pc = "write", !.todo = Found(r)]
  <2>1. req' = [req EXCEPT ![r] = q]
    BY <1>4
  <2>2. /\ Found(r) \in SUBSET TaskIds
        /\ Found(r) \subseteq req[r].call.ids
        /\ \A id \in Found(r) : IsRow(rows[id]) /\ rows[id].userId = req[r].call.user
    BY <1>2 DEF Found, User
  <2>3. /\ q \in Request
        /\ q.pc = "write"
        /\ q.call = req[r].call
        /\ q.todo = Found(r)
    BY <1>2, <2>2 DEF Request, Labels
  <2> HIDE DEF q
  <2>4. WellFormed(q, writes[r])
    BY <1>1, <1>2, <2>2, <2>3 DEF WellFormed, ReadLabels, WriteLabels, DoneLabels, BatchOps
  <2>5. \A i \in TaskIds, u \in Users : CountsOn(q, i, u) =>
           CountsOn(req[r], i, u) \/ (IsRow(rows[i]) /\ rows[i].userId = u)
    BY <1>1, <2>2, <2>3 DEF CountsOn, BatchOps
  <2> QED BY <1>1, <2>1, <2>3, <2>4, <2>5, Moves
<1> QED BY <1>3, <1>4 DEF FindTasks

\* findOne of updateStatus.
LEMMA FindForStatusStep ==
    ASSUME Sound, NEW r \in Reqs, FindForStatus(r)
    PROVE  Sound'
<1>1. /\ req[r].pc = "find"
      /\ req[r].call.op = "updateStatus"
      /\ UNCHANGED <<rows, writes>>
  BY DEF FindForStatus, At, Op
<1>2. /\ req[r] \in Request
      /\ req[r].call \in Calls
      /\ \E id \in TaskIds : req[r].call.ids = {id}
      /\ WellFormed(req[r], writes[r])
      /\ \A id \in TaskIds : writes[r][id] = Null
  BY <1>1, Known DEF ReadLabels, WriteLabels, SingleOps
<1>3. PICK id \in TaskIds : req[r].call.ids = {id}
  BY <1>2
<1>4. CASE Return(r)
  BY <1>1, <1>2, <1>4, Ends
<1>5. CASE IsRow(rows[id]) /\ req' = [req EXCEPT ![r].pc = "load", ![r].orig = rows[id]]
  <2> DEFINE q == [req[r] EXCEPT !.pc = "load", !.orig = rows[id]]
  <2>1. req' = [req EXCEPT ![r] = q]
    BY <1>5
  <2>2. rows[id] \in Row
    BY <1>5 DEF IsRow
  <2>3. /\ q \in Request
        /\ q.pc = "load"
        /\ q.call = req[r].call
        /\ q.todo = req[r].todo
        /\ q.orig = rows[id]
    BY <1>2, <2>2 DEF Request, Labels
  <2> HIDE DEF q
  <2>4. WellFormed(q, writes[r])
    BY <1>1, <1>2, <2>2, <2>3 DEF WellFormed, ReadLabels, WriteLabels, DoneLabels
  <2>5. \A i \in TaskIds, u \in Users : CountsOn(q, i, u) =>
           CountsOn(req[r], i, u) \/ (IsRow(rows[i]) /\ rows[i].userId = u)
    BY <1>1, <1>3, <2>2, <2>3, Operations DEF CountsOn, IsRow
  <2> QED BY <1>1, <2>1, <2>3, <2>4, <2>5, Moves
<1> QED BY <1>3, <1>4, <1>5 DEF FindForStatus

\* A request that keeps its call and what it has found, at another label.
LEMMA Continues ==
    ASSUME Sound, NEW r \in Reqs, NEW q \in Request, req' = [req EXCEPT ![r] = q],
           UNCHANGED <<rows, writes>>, WellFormed(q, writes[r]),
           q.call = req[r].call, q.todo = req[r].todo, q.orig = req[r].orig
    PROVE  Sound'
<1>1. \A id \in TaskIds, u \in Users : CountsOn(q, id, u) => CountsOn(req[r], id, u)
  BY DEF CountsOn
<1> QED BY <1>1, Moves

\* update goes on with the row that its second findOne sees.
LEMMA Rereads ==
    ASSUME NEW r, NEW id, req[r].call.ids = {id}, Reread(r)
    PROVE  LET row == Sees(r, id)
               changed == {f \in {"status", "priority"} : req[r].orig[f] # row[f]}
           IN IF IsRow(row)
              THEN req' = [req EXCEPT ![r].seen = row, ![r].changed = changed,
                                      ![r].pc = IF changed = {} THEN "commit" ELSE "stats"]
              ELSE Return(r)
<1> DEFINE Differ(row) == {f \in {"status", "priority"} : req[r].orig[f] # row[f]}
           Continue(row) == req' = [req EXCEPT ![r].seen = row, ![r].changed = Differ(row),
                                           ![r].pc = IF Differ(row) = {} THEN "commit" ELSE "stats"]
<1>1. \E i \in req[r].call.ids : IF IsRow(Sees(r, i)) THEN Continue(Sees(r, i)) ELSE Return(r)
  BY DEF Reread
<1> HIDE DEF Continue
<1>2. IF IsRow(Sees(r, id)) THEN Continue(Sees(r, id)) ELSE Return(r)
  BY <1>1
<1> QED BY <1>2 DEF Continue

\* The second findOne of update.
LEMMA RereadStep ==
    ASSUME Sound, NEW r \in Reqs, Reread(r)
    PROVE  Sound'
<1>1. req[r].pc = "reread" /\ UNCHANGED <<rows, writes>>
  BY DEF Reread, At
<1>2. /\ req[r] \in Request
      /\ req[r].call \in Calls
      /\ WellFormed(req[r], writes[r])
      /\ req[r].call.op = "update"
      /\ \E id \in TaskIds : req[r].call.ids = {id}
      /\ writes[r] \in [TaskIds -> Row \cup {Deleted, Null}]
  <2>1. req[r].call.op = "update"
    BY <1>1, Known DEF WellFormed
  <2> QED BY <1>1, <2>1, Known DEF ReadLabels, SingleOps
<1>3. PICK id \in TaskIds : req[r].call.ids = {id}
  BY <1>2
<1> DEFINE row == Sees(r, id)
           changed == {f \in {"status", "priority"} : req[r].orig[f] # row[f]}
           label == IF changed = {} THEN "commit" ELSE "stats"
           q == [req[r] EXCEPT !.seen = row, !.changed = changed, !.pc = label]
<1>4. CASE ~IsRow(row)
  <2>1. Return(r)
    BY <1>3, <1>4, Rereads
  <2>2. writes[r][id] = Null
    <3>1. writes[r][id] # Null => IsRow(rows[id]) /\ writes[r][id] = NewRow(req[r].call, rows[id])
      BY <1>2, <1>3 DEF Sound, TableInv, NoLostUpdate, Op
    <3>2. writes[r][id] # Null => writes[r][id] \in Row
      BY <1>2, <3>1, NewRowType DEF IsRow
    <3> QED BY <1>4, <3>2 DEF Sees, IsRow
  <2>3. \A i \in TaskIds : writes[r][i] = Null
    BY <1>2, <1>3, <2>2 DEF WellFormed
  <2> QED BY <1>1, <2>1, <2>3, Ends
<1>5. CASE IsRow(row)
  <2>1. req' = [req EXCEPT ![r] = q]
    <3>1. req' = [req EXCEPT ![r].seen = row, ![r].changed = changed, ![r].pc = label]
      BY <1>3, <1>5, Rereads
    <3> HIDE DEF changed, label, row
    <3> QED BY <3>1
  <2>2. row \in Row /\ writes[r][id] \in {Null, row}
    BY <1>5 DEF IsRow, Sees
  <2>3. label \in {"commit", "stats"} /\ changed \in SUBSET {"status", "priority", "details", "insert"}
    OBVIOUS
  <2> HIDE DEF label, changed, row
  <2>4. /\ q \in Request
        /\ q.pc = label
        /\ q.call = req[r].call
        /\ q.todo = req[r].todo
        /\ q.orig = req[r].orig
        /\ q.seen = row
    BY <1>2, <2>2, <2>3 DEF Request, Labels
  <2> HIDE DEF q
  <2>5. WellFormed(q, writes[r])
    BY <1>1, <1>2, <1>3, <2>2, <2>3, <2>4
    DEF WellFormed, ReadLabels, WriteLabels, DoneLabels
  <2> QED BY <1>1, <2>1, <2>4, <2>5, Continues
<1> QED BY <1>4, <1>5

\* save loads the row.
LEMMA LoadForSaveStep ==
    ASSUME Sound, NEW r \in Reqs, LoadForSave(r)
    PROVE  Sound'
<1>1. req[r].pc = "load" /\ UNCHANGED <<rows, writes>>
  BY DEF LoadForSave, At
<1>2. /\ req[r] \in Request
      /\ req[r].call \in Calls
      /\ WellFormed(req[r], writes[r])
      /\ req[r].call.op = "updateStatus"
      /\ \A id \in TaskIds : writes[r][id] = Null
  <2>1. req[r].call.op = "updateStatus"
    BY <1>1, Known DEF WellFormed
  <2> QED BY <1>1, <2>1, Known DEF ReadLabels, WriteLabels
<1>3. PICK changed \in SUBSET {"status", "priority", "details", "insert"}, label \in {"stats", "write"} :
         req' = [req EXCEPT ![r].changed = changed, ![r].pc = label]
  <2>1. PICK id \in req[r].call.ids :
           LET changed == IF IsRow(rows[id])
                          THEN {f \in {"status", "priority", "details"} : Entity(r)[f] # rows[id][f]}
                          ELSE {"insert"}
           IN req' = [req EXCEPT ![r].changed = changed,
                                 ![r].pc = IF changed = {} THEN "stats" ELSE "write"]
    BY DEF LoadForSave
  <2> DEFINE changed == IF IsRow(rows[id])
                        THEN {f \in {"status", "priority", "details"} : Entity(r)[f] # rows[id][f]}
                        ELSE {"insert"}
             label == IF changed = {} THEN "stats" ELSE "write"
  <2>2. changed \in SUBSET {"status", "priority", "details", "insert"} /\ label \in {"stats", "write"}
    OBVIOUS
  <2>3. req' = [req EXCEPT ![r].changed = changed, ![r].pc = label]
    BY <2>1
  <2> HIDE DEF changed, label
  <2> QED BY <2>2, <2>3
<1> DEFINE q == [req[r] EXCEPT !.changed = changed, !.pc = label]
<1>4. req' = [req EXCEPT ![r] = q]
  BY <1>3
<1>5. /\ q \in Request
      /\ q.pc = label
      /\ q.call = req[r].call
      /\ q.todo = req[r].todo
      /\ q.orig = req[r].orig
  BY <1>2, <1>3 DEF Request, Labels
<1> HIDE DEF q
<1>6. WellFormed(q, writes[r])
  BY <1>1, <1>2, <1>3, <1>5, Operations DEF WellFormed, ReadLabels, WriteLabels, DoneLabels
<1> QED BY <1>1, <1>4, <1>5, <1>6, Continues

-----------------------------------------------------------------------------
(* The invalidation and the job. *)

\* What is known of a request at one of the labels between statement and COMMIT.
LEMMA KnownDone ==
    ASSUME Sound, NEW r \in Reqs, req[r].pc \in DoneLabels
    PROVE  /\ req[r] \in Request
           /\ WellFormed(req[r], writes[r])
           /\ writes[r] \in [TaskIds -> Row \cup {Deleted, Null}]
           /\ req[r].pc \in WriteLabels
           /\ req[r].pc \notin {"idle"} \cup ReadLabels
           /\ req[r].call \in Calls
           /\ req[r].call.ids \in SUBSET TaskIds
           /\ req[r].call.op \in TaskOps \cup {"create", "updateStatus"}
           /\ req[r].call.op \in SingleOps => \E id \in TaskIds : req[r].call.ids = {id}
           /\ req[r].call.op = "updateStatus" => \A id \in TaskIds : writes[r][id] = Null
<1>1. req[r].pc \in WriteLabels /\ req[r].pc \notin {"idle"} \cup ReadLabels
  BY DEF DoneLabels, WriteLabels, ReadLabels
<1> QED BY <1>1, Known

\* A request goes on with what it knows, among these labels.
LEMMA GoesOn ==
    ASSUME Sound, NEW r \in Reqs, req[r].pc \in DoneLabels,
           NEW q \in Request, req' = [req EXCEPT ![r] = q], UNCHANGED <<rows, writes>>,
           q.call = req[r].call, q.todo = req[r].todo, q.orig = req[r].orig, q.seen = req[r].seen,
           q.pc \in DoneLabels, q.pc = "add" => q.call.op \in {"create", "update"}
    PROVE  Sound'
<1>1. WellFormed(q, writes[r])
  BY KnownDone, Operations DEF WellFormed, ReadLabels, WriteLabels, DoneLabels
<1> QED BY <1>1, Continues

\* The way on from the invalidation.
LEMMA AfterInvalidationStep ==
    ASSUME Sound, NEW r \in Reqs, req[r].pc \in DoneLabels, AfterInvalidation(r),
           UNCHANGED <<rows, writes>>
    PROVE  Sound'
<1>1. ASSUME NEW label \in {"add", "commit"}, Goto(r, label),
             label = "add" => req[r].call.op \in {"create", "update"}
      PROVE  Sound'
  <2> DEFINE q == [req[r] EXCEPT !.pc = label]
  <2>1. /\ q \in Request
        /\ q.call = req[r].call
        /\ q.todo = req[r].todo
        /\ q.orig = req[r].orig
        /\ q.seen = req[r].seen
        /\ q.pc = label
    BY <1>1, KnownDone DEF Request, Labels
  <2>2. req' = [req EXCEPT ![r] = q]
    BY <1>1 DEF Goto
  <2> HIDE DEF q
  <2> QED BY <1>1, <2>1, <2>2, GoesOn DEF DoneLabels
<1>2. CASE req[r].call.op = "create"
  BY <1>1, <1>2 DEF AfterInvalidation, Op
<1>3. CASE req[r].call.op = "update"
  BY <1>1, <1>3 DEF AfterInvalidation, Op
<1>4. CASE req[r].call.op = "updateStatus"
  BY <1>4, KnownDone, Ends DEF AfterInvalidation, Op
<1>5. CASE req[r].call.op \notin {"create", "update", "updateStatus"}
  BY <1>1, <1>5 DEF AfterInvalidation, Op
<1> QED BY <1>2, <1>3, <1>4, <1>5

\* invalidateUserCache leaves the table alone.
LEMMA InvalidateStep ==
    ASSUME Sound, NEW r \in Reqs, Invalidate(r)
    PROVE  Sound'
<1>0. req[r].pc \in DoneLabels /\ UNCHANGED <<rows, writes>>
  BY DEF Invalidate, InvalidateStats, InvalidateLists, DeleteLists, At, DoneLabels
<1>a. req[r] \in Request
  BY <1>0, KnownDone
<1>1. CASE InvalidateStats(r)
  <2> DEFINE q == [req[r] EXCEPT !.pc = "lists"]
  <2>1. /\ q \in Request
        /\ q.call = req[r].call
        /\ q.todo = req[r].todo
        /\ q.orig = req[r].orig
        /\ q.seen = req[r].seen
        /\ q.pc = "lists"
    BY <1>a DEF Request, Labels
  <2>2. req' = [req EXCEPT ![r] = q]
    BY <1>1 DEF InvalidateStats, Goto
  <2> HIDE DEF q
  <2> QED BY <1>0, <2>1, <2>2, GoesOn DEF DoneLabels
<1>2. CASE InvalidateLists(r)
  <2>1. CASE AfterInvalidation(r)
    BY <1>0, <2>1, AfterInvalidationStep
  <2>2. ASSUME NEW listed \in {{}, ListKeys(Owner(r)) \cap Cache!Held(redis)},
               req' = [req EXCEPT ![r].pc = "del", ![r].listed = listed]
        PROVE  Sound'
    <3> DEFINE q == [req[r] EXCEPT !.pc = "del", !.listed = listed]
    <3>1. listed \in SUBSET CacheKeys
      BY <2>2 DEF ListKeys, KeysOf
    <3>2. /\ q \in Request
          /\ q.call = req[r].call
          /\ q.todo = req[r].todo
          /\ q.orig = req[r].orig
          /\ q.seen = req[r].seen
          /\ q.pc = "del"
      BY <1>a, <3>1 DEF Request, Labels
    <3>3. req' = [req EXCEPT ![r] = q]
      BY <2>2
    <3> HIDE DEF q
    <3> QED BY <1>0, <3>2, <3>3, GoesOn DEF DoneLabels
  <2> QED BY <1>2, <2>1, <2>2 DEF InvalidateLists
<1>3. CASE DeleteLists(r)
  BY <1>0, <1>3, AfterInvalidationStep DEF DeleteLists
<1> QED BY <1>1, <1>2, <1>3 DEF Invalidate

\* taskQueue.add.
LEMMA EnqueueStep ==
    ASSUME Sound, NEW r \in Reqs, Enqueue(r)
    PROVE  Sound'
<1>0. req[r].pc = "add" /\ req[r].pc \in DoneLabels /\ UNCHANGED <<rows, writes>>
  BY DEF Enqueue, At, DoneLabels
<1>1. /\ req[r] \in Request
      /\ req[r].call.op \in {"create", "update"}
      /\ req[r].call.ids \in SUBSET TaskIds
      /\ req[r].call.op = "create" => req[r].call.patch \in Fields
      /\ req[r].call.op = "update" => req[r].orig \in Row /\ req[r].seen \in Row
  <2>1. WellFormed(req[r], writes[r])
    BY <1>0, KnownDone
  <2>2. req[r].call.op \in {"create", "update"}
    BY <1>0, <2>1 DEF WellFormed
  <2> QED BY <1>0, <2>1, <2>2, KnownDone, CallShape DEF WellFormed, WriteLabels
<1>2. PICK id \in req[r].call.ids :
         LET job == [name |-> IF Op(r) = "create" THEN "task-created" ELSE "task-status-updated",
                     taskId |-> id,
                     oldStatus |-> IF Op(r) = "create" THEN Null ELSE req[r].orig.status,
                     newStatus |-> NewStatus(r)]
         IN \E added \in {job} \cup (IF QueueFails THEN {NoJob} ELSE {}) :
               req' = [req EXCEPT ![r].job = added, ![r].pc = "commit"]
  BY DEF Enqueue
<1> DEFINE job == [name |-> IF Op(r) = "create" THEN "task-created" ELSE "task-status-updated",
                   taskId |-> id,
                   oldStatus |-> IF Op(r) = "create" THEN Null ELSE req[r].orig.status,
                   newStatus |-> NewStatus(r)]
<1>3. job \in Job
  <2>1. NewStatus(r) \in Statuses
    BY <1>1 DEF NewStatus, Row, Fields, Op
  <2>2. Op(r) # "create" => req[r].orig.status \in Statuses
    BY <1>1 DEF Row, Op
  <2> QED BY <1>1, <2>1, <2>2 DEF Job
<1>4. PICK added \in {job, NoJob} : req' = [req EXCEPT ![r].job = added, ![r].pc = "commit"]
  <2> HIDE DEF job
  <2> QED BY <1>2 DEF job
<1> HIDE DEF job
<1> DEFINE q == [req[r] EXCEPT !.job = added, !.pc = "commit"]
<1>5. /\ q \in Request
      /\ q.call = req[r].call
      /\ q.todo = req[r].todo
      /\ q.orig = req[r].orig
      /\ q.seen = req[r].seen
      /\ q.pc = "commit"
  BY <1>1, <1>3, <1>4 DEF Request, Labels
<1>6. req' = [req EXCEPT ![r] = q]
  BY <1>4
<1> HIDE DEF q
<1> QED BY <1>0, <1>5, <1>6, GoesOn DEF DoneLabels

-----------------------------------------------------------------------------
(* A request arrives. *)

\* A request that arrives counts on nothing yet, and creates what nobody else does.
LEMMA BeginStep ==
    ASSUME Sound, NEW r \in Reqs, NEW c \in Calls, Begin(r, c)
    PROVE  Sound'
<1> DEFINE label == IF c.op = "read" THEN "get" ELSE IF c.op = "create" THEN "write" ELSE "find"
           todo == IF c.op = "create" THEN c.ids ELSE {}
           born == {id \in c.ids : IsRow(rows[id]) /\ rows[id].userId = c.user}
           q == [Idle EXCEPT !.pc = label, !.call = c, !.todo = todo, !.born = born]
<1>1. /\ req[r].pc = "idle"
      /\ UNCHANGED <<rows, writes>>
      /\ req' = [req EXCEPT ![r] = q]
  BY DEF Begin, At
<1>2. c.op = "create" =>
          \A id \in c.ids : rows[id] = Unborn /\ \A s \in Reqs : ~Creates(req[s], id)
  BY DEF Begin, Op, Creates
<1>3. c.ids \in SUBSET TaskIds /\ c.op \in OpNames
  BY CallShape
<1>4. todo \in SUBSET TaskIds /\ todo \subseteq c.ids /\ born \in SUBSET TaskIds
  BY <1>3
<1>5. label \in {"get", "write", "find"}
  OBVIOUS
<1> HIDE DEF born
<1>6. /\ q \in Request
      /\ q.pc = label
      /\ q.call = c
      /\ q.todo = todo
      /\ q.orig = Null
  <2>1. /\ Idle.orig = Null
        /\ Idle \in Request
    BY IdleRequest DEF Idle
  <2> HIDE DEF label, todo
  <2> QED BY <1>4, <1>5, <2>1 DEF Request, Labels
<1> HIDE DEF q
<1>7. /\ \A id \in TaskIds : writes[r][id] = Null
      /\ req[r] = Idle
  BY <1>1, Known DEF WriteLabels, WellFormed
<1>8. WellFormed(q, writes[r])
  BY <1>3, <1>6, <1>7, Operations DEF WellFormed, ReadLabels, WriteLabels, DoneLabels
<1>9. \A s \in Reqs : req'[s] = IF s = r THEN q ELSE req[s]
  BY <1>1 DEF Sound, TableTypes
<1>10. TableTypes'
  BY <1>1, <1>6 DEF Sound, TableTypes
<1>11. Shape'
  BY <1>1, <1>8, <1>9 DEF Sound, TableInv, Shape
<1>12. Owned'
  <2>1. \A id \in TaskIds, u \in Users : ~CountsOn(q, id, u)
    BY <1>6, Operations DEF CountsOn
  <2> QED BY <1>1, <1>9, <2>1, OwnedKept DEF Sound, TableInv
<1>13. Fresh'
  <2> SUFFICES ASSUME NEW s \in Reqs, NEW id \in TaskIds, Creates(req'[s], id)
               PROVE  /\ rows[id] = Unborn
                      /\ \A o \in Reqs \ {s} : ~Creates(req'[o], id)
    BY <1>1 DEF Fresh
  <2>1. Creates(q, id) => rows[id] = Unborn /\ \A o \in Reqs : ~Creates(req[o], id)
    BY <1>2, <1>6 DEF Creates
  <2>2. CASE s = r
    BY <1>9, <2>1, <2>2
  <2>3. CASE s # r
    <3>1. Creates(req[s], id)
      BY <1>9, <2>3
    <3>2. ~Creates(q, id)
      BY <2>1, <3>1
    <3> QED BY <1>9, <3>1, <3>2 DEF Sound, TableInv, Fresh
  <2> QED BY <2>2, <2>3
<1>14. NoLostUpdate'
  <2>1. \A s \in Reqs, id \in TaskIds : writes[s][id] # Null => req'[s] = req[s]
    BY <1>7, <1>9
  <2> QED BY <1>1, <2>1 DEF Sound, TableInv, NoLostUpdate, Unlocked, Op, User
<1> QED BY <1>10, <1>11, <1>12, <1>13, <1>14 DEF Sound, TableInv

-----------------------------------------------------------------------------
(* Statements, and the ends of transactions. *)

\* The statement reaches a row: nobody else has it locked, and it is the caller's
\* still, or is created.
LEMMA WriteStep ==
    ASSUME Sound, NEW r \in Reqs, Write(r)
    PROVE  Sound'
<1>1. req[r].pc = "write" /\ req[r].call.op # "updateStatus" /\ UNCHANGED rows
  BY DEF Write, At, Op
<1>2. /\ req[r] \in Request
      /\ WellFormed(req[r], writes[r])
      /\ writes[r] \in [TaskIds -> Row \cup {Deleted, Null}]
      /\ req[r].call \in Calls
      /\ req[r].call.ids \in SUBSET TaskIds
      /\ req[r].call.op \in TaskOps \cup {"create"}
      /\ req[r].call.op \in {"create", "update"} => \E id \in TaskIds : req[r].call.ids = {id}
  BY <1>1, Known DEF ReadLabels, SingleOps
<1> DEFINE c == req[r].call
<1>3. PICK id \in req[r].todo :
         /\ Unlocked(r, id)
         /\ writes' = IF c.op = "create" \/ IsRow(rows[id])
                      THEN [writes EXCEPT ![r][id] = NewRow(c, rows[id])] ELSE writes
         /\ req' = [req EXCEPT
                ![r].todo = @ \ {id},
                ![r].pc = IF req[r].todo # {id} THEN "write"
                          ELSE IF c.op = "update" THEN "reread" ELSE "stats"]
  BY DEF Write, Op
<1> DEFINE matches == c.op = "create" \/ IsRow(rows[id])
           w == IF matches THEN [writes[r] EXCEPT ![id] = NewRow(c, rows[id])] ELSE writes[r]
           label == IF req[r].todo # {id} THEN "write"
                    ELSE IF c.op = "update" THEN "reread" ELSE "stats"
           q == [req[r] EXCEPT !.todo = @ \ {id}, !.pc = label]
<1>4. id \in c.ids /\ id \in TaskIds
  BY <1>2, <1>3 DEF WellFormed
<1>5. label \in {"write", "reread", "stats"}
  OBVIOUS
<1>6. req' = [req EXCEPT ![r] = q]
  <2>1. req' = [req EXCEPT ![r].todo = @ \ {id}, ![r].pc = label]
    BY <1>3
  <2> HIDE DEF label
  <2> QED BY <2>1
<1>7. /\ q \in Request
      /\ q.pc = label
      /\ q.call = c
      /\ q.todo = req[r].todo \ {id}
      /\ q.orig = req[r].orig
  <2> HIDE DEF label
  <2> QED BY <1>2, <1>5 DEF Request, Labels
<1> HIDE DEF q
<1>8. /\ \A s \in Reqs : req'[s] = IF s = r THEN q ELSE req[s]
      /\ \A s \in Reqs : writes'[s] = IF s = r THEN w ELSE writes[s]
      /\ \A i \in TaskIds : w[i] = IF matches /\ i = id THEN NewRow(c, rows[id]) ELSE writes[r][i]
  BY <1>2, <1>3, <1>4, <1>6 DEF Sound, TableTypes
<1>9. matches => NewRow(c, rows[id]) \in Row \cup {Deleted} /\ (c.op = "create" => NewRow(c, rows[id]) \in Row)
  BY <1>1, <1>2, NewRowType DEF IsRow
<1>11. TableTypes'
  <2>1. writes' \in [Reqs -> [TaskIds -> Row \cup {Deleted, Null}]]
    BY <1>3, <1>9 DEF Sound, TableTypes
  <2> QED BY <1>1, <1>6, <1>7, <2>1 DEF Sound, TableTypes
<1>12. WellFormed(q, w)
  <2>1. c.op = "create" => c.ids = {id} /\ label = "stats"
    <3>1. c.op = "create" => c.ids = {id}
      BY <1>2, <1>4
    <3>2. c.op = "create" => req[r].todo = c.ids
      BY <1>1, <1>2 DEF WellFormed
    <3> QED BY <3>1, <3>2
  <2>2. c.op = "update" => label # "stats"
    OBVIOUS
  <2>3. label = "reread" => c.op = "update"
    OBVIOUS
  <2>4. c.op # "read" /\ c \in Calls
    BY <1>2, Operations
  <2>5. c.op = "update" => req[r].orig \in Row
    BY <1>1, <1>2 DEF WellFormed, WriteLabels
  <2>6. \A i \in TaskIds : w[i] # Null => i \in c.ids
    BY <1>2, <1>4 DEF WellFormed
  <2>7. c.op = "create" => w[id] \in Row
    BY <1>2, <1>4, <1>9
  <2>8. req[r].todo \ {id} \subseteq c.ids
    BY <1>2 DEF WellFormed
  <2> HIDE DEF w, label
  <2>9. /\ q.pc # "idle"
        /\ q.pc \notin ReadLabels
        /\ q.pc \in WriteLabels
        /\ q.pc \notin {"count", "set", "add", "load"}
    BY <1>5, <1>7 DEF ReadLabels, WriteLabels
  <2>10. q.pc \in DoneLabels => q.pc = "stats"
    BY <1>5, <1>7 DEF DoneLabels
  <2> QED BY <1>1, <1>2, <1>7, <2>1, <2>2, <2>3, <2>4, <2>5, <2>6, <2>7, <2>8, <2>9, <2>10
          DEF WellFormed
<1>13. Shape'
  BY <1>8, <1>12 DEF Sound, TableInv, Shape
<1>14. Owned'
  <2>1. \A i \in TaskIds, u \in Users : CountsOn(q, i, u) => CountsOn(req[r], i, u)
    BY <1>7 DEF CountsOn
  <2> QED BY <1>1, <1>8, <2>1, OwnedKept DEF Sound, TableInv
<1>15. Fresh'
  <2>1. \A s \in Reqs, i \in TaskIds : Creates(req'[s], i) <=> Creates(req[s], i)
    BY <1>7, <1>8 DEF Creates
  <2> QED BY <1>1, <2>1 DEF Sound, TableInv, Fresh
<1>16. ASSUME matches
       PROVE  IF c.op = "create" THEN rows[id] = Unborn
              ELSE IsRow(rows[id]) /\ rows[id].userId = c.user
  <2>1. CASE c.op = "create"
    BY <1>4, <2>1 DEF Sound, TableInv, Fresh, Creates
  <2>2. CASE c.op # "create"
    <3>1. c.op \in TaskOps /\ c.user \in Users
      BY <1>1, <1>2, <2>2, CallShape
    <3>2. CountsOn(req[r], id, c.user)
      BY <1>3, <3>1 DEF CountsOn
    <3> QED BY <1>4, <1>16, <2>2, <3>1, <3>2 DEF Sound, TableInv, Owned
  <2> QED BY <2>1, <2>2
<1>17. NoLostUpdate'
  <2> SUFFICES ASSUME NEW s \in Reqs, NEW i \in TaskIds, writes'[s][i] # Null
               PROVE  /\ i \in req'[s].call.ids
                      /\ IF req'[s].call.op = "create" THEN rows[i] = Unborn
                         ELSE IsRow(rows[i]) /\ rows[i].userId = req'[s].call.user
                      /\ writes'[s][i] = NewRow(req'[s].call, rows[i])
                      /\ \A o \in Reqs \ {s} : writes'[o][i] = Null
    BY <1>1 DEF NoLostUpdate, Unlocked, Op, User
  <2>1. req'[s].call = req[s].call
    BY <1>7, <1>8
  <2>2. CASE s = r /\ i = id /\ matches
    <3>1. \A o \in Reqs \ {s} : writes'[o][i] = Null
      BY <1>3, <1>8, <2>2 DEF Unlocked
    <3> QED BY <1>4, <1>8, <1>16, <2>1, <2>2, <3>1
  <2>3. CASE ~ (s = r /\ i = id /\ matches)
    <3>1. writes'[s][i] = writes[s][i]
      BY <1>8, <2>3
    <3>2. /\ i \in req[s].call.ids
          /\ IF req[s].call.op = "create" THEN rows[i] = Unborn
             ELSE IsRow(rows[i]) /\ rows[i].userId = req[s].call.user
          /\ writes[s][i] = NewRow(req[s].call, rows[i])
          /\ \A o \in Reqs \ {s} : writes[o][i] = Null
      BY <3>1 DEF Sound, TableInv, NoLostUpdate, Unlocked, Op, User
    <3>3. ASSUME NEW o \in Reqs \ {s}
          PROVE  writes'[o][i] = Null
      <4>1. writes[o][i] = Null
        BY <3>2
      <4>2. CASE o = r /\ i = id /\ matches
        <5>1. writes[s][i] = Null
          BY <1>3, <3>3, <4>2 DEF Unlocked
        <5> QED BY <3>1, <5>1
      <4>3. CASE ~ (o = r /\ i = id /\ matches)
        BY <1>8, <4>1, <4>3
      <4> QED BY <4>2, <4>3
    <3> QED BY <2>1, <3>1, <3>2, <3>3
  <2> QED BY <2>2, <2>3
<1> QED BY <1>11, <1>13, <1>14, <1>15, <1>17 DEF Sound, TableInv

\* A rollback gives back what was locked.
LEMMA RollBackStep ==
    ASSUME Sound, NEW r \in Reqs, RollBack(r)
    PROVE  Sound'
<1>1. /\ \A s \in Reqs : req'[s] = IF s = r THEN Idle ELSE req[s]
      /\ \A s \in Reqs : writes'[s] = IF s = r THEN NoWrites ELSE writes[s]
      /\ UNCHANGED rows
  BY DEF RollBack, Return, Sound, TableTypes
<1>2. TableTypes'
  BY IdleRequest DEF RollBack, Return, Sound, TableTypes
<1>3. Shape'
  BY <1>1, IdleRequest DEF Sound, TableInv, Shape
<1>4. Owned'
  <2>1. \A id \in TaskIds, u \in Users : ~CountsOn(Idle, id, u)
    BY IdleRequest, Operations DEF CountsOn
  <2> QED BY <1>1, <2>1, OwnedKept DEF Sound, TableInv
<1>5. Fresh'
  <2>1. \A id \in TaskIds : ~Creates(Idle, id)
    BY IdleRequest DEF Creates
  <2> QED BY <1>1, <2>1 DEF Sound, TableInv, Fresh
<1>6. NoLostUpdate'
  <2>1. \A s \in Reqs, id \in TaskIds : writes'[s][id] # Null =>
           s # r /\ req'[s] = req[s] /\ writes'[s] = writes[s]
    BY <1>1 DEF NoWrites
  <2>2. \A s \in Reqs, id \in TaskIds : writes[s][id] = Null => writes'[s][id] = Null
    BY <1>1 DEF NoWrites
  <2> QED BY <1>1, <2>1, <2>2 DEF Sound, TableInv, NoLostUpdate, Unlocked, Op, User
<1> QED BY <1>2, <1>3, <1>4, <1>5, <1>6 DEF Sound, TableInv

\* What a COMMIT does to a row that its transaction has written, and to the others.
LEMMA CommittedRow ==
    ASSUME Sound, NEW r \in Reqs, At(r, "commit"), NEW id \in TaskIds
    PROVE  \/ writes[r][id] = Null /\ Committed(r)[id] = rows[id]
           \/ /\ req[r].call.op = "create"
              /\ rows[id] = Unborn
              /\ Committed(r)[id] \in Row
              /\ Creates(req[r], id)
           \/ /\ req[r].call.op # "create"
              /\ rows[id] \in Row
              /\ rows[id].userId = req[r].call.user
              /\ Committed(r)[id] = NewRow(req[r].call, rows[id])
              /\ \/ Committed(r)[id] = Deleted
                 \/ Committed(r)[id] \in Row /\ Committed(r)[id].userId = rows[id].userId
<1>1. CASE writes[r][id] = Null
  BY <1>1 DEF Committed, Sees
<1>2. CASE writes[r][id] # Null
  <2> DEFINE c == req[r].call
  <2>1. /\ Committed(r)[id] = NewRow(c, rows[id])
        /\ id \in c.ids
        /\ IF c.op = "create" THEN rows[id] = Unborn
           ELSE IsRow(rows[id]) /\ rows[id].userId = c.user
    BY <1>2 DEF Committed, Sees, Sound, TableInv, NoLostUpdate, Op, User
  <2>2. c \in Calls /\ c.op # "updateStatus"
    <3>1. WellFormed(req[r], writes[r])
      BY Known
    <3> QED BY <1>2, <3>1, Operations DEF WellFormed, At
  <2>3. CASE c.op = "create"
    BY <2>1, <2>2, <2>3, NewRowType DEF Creates
  <2>4. CASE c.op # "create"
    <3>1. /\ NewRow(c, rows[id]) \in Row \cup {Deleted}
          /\ c.op \in {"update", "complete"} =>
                 NewRow(c, rows[id]) \in Row /\ NewRow(c, rows[id]).userId = rows[id].userId
          /\ c.op \notin {"create", "update", "complete"} => NewRow(c, rows[id]) = Deleted
      BY <2>1, <2>2, <2>4, NewRowType DEF IsRow
    <3> QED BY <2>1, <2>4, <3>1 DEF IsRow
  <2> QED BY <2>3, <2>4
<1> QED BY <1>1, <1>2

\* The COMMIT.
LEMMA CommitStep ==
    ASSUME Sound, NEW r \in Reqs, Commit(r)
    PROVE  Sound'
<1>0. At(r, "commit")
  BY DEF Commit
<1>1. /\ \A s \in Reqs : req'[s] = IF s = r THEN Idle ELSE req[s]
      /\ \A s \in Reqs : writes'[s] = IF s = r THEN NoWrites ELSE writes[s]
      /\ \A id \in TaskIds : rows'[id] = Committed(r)[id]
  BY DEF Commit, Return, Sound, TableTypes
<1>2. TableTypes'
  <2>1. rows' \in [TaskIds -> Row \cup {Unborn, Deleted}]
    <3>1. rows' = [id \in TaskIds |-> IF writes[r][id] = Null THEN rows[id] ELSE writes[r][id]]
      BY DEF Commit, Committed, Sees
    <3> QED BY <3>1 DEF Sound, TableTypes
  <2> QED BY <2>1, IdleRequest DEF Commit, Return, Sound, TableTypes
<1>3. Shape'
  BY <1>1, IdleRequest DEF Sound, TableInv, Shape
<1>4. Owned'
  <2>1. \A id \in TaskIds, u \in Users : ~CountsOn(Idle, id, u)
    BY IdleRequest, Operations DEF CountsOn
  <2>2. \A s \in Reqs, id \in TaskIds, u \in Users :
           CountsOn(req'[s], id, u) => CountsOn(req[s], id, u)
    BY <1>1, <2>1
  <2>3. ASSUME NEW id \in TaskIds
        PROVE  \/ rows'[id] = rows[id]
               \/ rows[id] = Unborn
               \/ rows[id] # Unborn /\ rows'[id] = Deleted
               \/ /\ rows[id] # Unborn
                  /\ IsRow(rows'[id])
                  /\ rows'[id].userId \in Users
                  /\ IsRow(rows[id])
                  /\ rows[id].userId = rows'[id].userId
    <3>1. rows'[id] \in Row => rows'[id].userId \in Users
      BY DEF Row
    <3> QED BY <1>0, <1>1, <3>1, CommittedRow, MarkersAssumption DEF IsRow
  <2> QED BY <2>2, <2>3, OwnedKept DEF Sound, TableInv
<1>5. Fresh'
  <2> SUFFICES ASSUME NEW s \in Reqs, NEW id \in TaskIds, Creates(req'[s], id)
               PROVE  /\ rows'[id] = Unborn
                      /\ \A o \in Reqs \ {s} : ~Creates(req'[o], id)
    BY DEF Fresh
  <2>1. ~Creates(Idle, id)
    BY IdleRequest DEF Creates
  <2>2. s # r /\ Creates(req[s], id)
    BY <1>1, <2>1
  <2>3. rows[id] = Unborn /\ \A o \in Reqs \ {s} : ~Creates(req[o], id)
    BY <2>2 DEF Sound, TableInv, Fresh
  <2>4. rows'[id] = Unborn
    BY <1>0, <1>1, <2>2, <2>3, CommittedRow, MarkersAssumption
  <2> QED BY <1>1, <2>1, <2>3, <2>4
<1>6. NoLostUpdate'
  <2> SUFFICES ASSUME NEW s \in Reqs, NEW i \in TaskIds, writes'[s][i] # Null
               PROVE  /\ i \in req'[s].call.ids
                      /\ IF req'[s].call.op = "create" THEN rows'[i] = Unborn
                         ELSE IsRow(rows'[i]) /\ rows'[i].userId = req'[s].call.user
                      /\ writes'[s][i] = NewRow(req'[s].call, rows'[i])
                      /\ \A o \in Reqs \ {s} : writes'[o][i] = Null
    BY DEF NoLostUpdate, Unlocked, Op, User
  <2>1. s # r /\ req'[s] = req[s] /\ writes'[s] = writes[s]
    BY <1>1 DEF NoWrites
  <2>2. \A o \in Reqs \ {s} : writes[o][i] = Null
    BY <2>1 DEF Sound, TableInv, NoLostUpdate, Unlocked
  <2>3. rows'[i] = rows[i]
    BY <1>1, <2>1, <2>2 DEF Committed, Sees
  <2>4. \A o \in Reqs \ {s} : writes'[o][i] = Null
    BY <1>1, <2>2 DEF NoWrites
  <2> QED BY <2>1, <2>3, <2>4 DEF Sound, TableInv, NoLostUpdate, Op, User
<1> QED BY <1>2, <1>3, <1>4, <1>5, <1>6 DEF Sound, TableInv

\* The statement of save, which commits alone: it brings back a row only for the
\* owner it was found with.
LEMMA SaveStep ==
    ASSUME Sound, NEW r \in Reqs, Save(r)
    PROVE  Sound'
<1>0. req[r].pc = "write" /\ req[r].call.op = "updateStatus" /\ UNCHANGED writes
  BY DEF Save, At, Op
<1>1. /\ req[r] \in Request
      /\ WellFormed(req[r], writes[r])
      /\ req[r].call \in Calls
      /\ \E id \in TaskIds : req[r].call.ids = {id}
      /\ \A id \in TaskIds : writes[r][id] = Null
      /\ req[r].orig \in Row
  BY <1>0, Known DEF ReadLabels, SingleOps, WellFormed, WriteLabels
<1>2. PICK id \in TaskIds : req[r].call.ids = {id}
  BY <1>1
<1>3. Entity(r) \in Row /\ Entity(r).userId = req[r].orig.userId
  BY <1>1, CallShape, PatchedRow DEF Entity
<1>4. CountsOn(req[r], id, req[r].orig.userId) /\ req[r].orig.userId \in Users
  BY <1>0, <1>1, <1>2, MarkersAssumption DEF CountsOn, Row
<1>5. rows[id] # Unborn
  BY <1>4 DEF Sound, TableInv, Owned
<1> DEFINE p == Columns(req[r].changed, Entity(r))
           new == IF "insert" \in req[r].changed THEN Entity(r)
                  ELSE IF IsRow(rows[id]) THEN Patched(rows[id], p) ELSE rows[id]
<1>6. Unlocked(r, id) /\ rows' = [rows EXCEPT ![id] = new]
  BY <1>2 DEF Save
<1>7. \/ new = rows[id]
      \/ new \in Row /\ IsRow(rows[id]) /\ new.userId = rows[id].userId
      \/ new \in Row /\ new.userId = req[r].orig.userId
  <2>1. p \in Patches
    BY <1>3, ColumnsPatch
  <2> HIDE DEF p
  <2>2. IsRow(rows[id]) =>
            Patched(rows[id], p) \in Row /\ Patched(rows[id], p).userId = rows[id].userId
    BY <2>1, PatchedRow DEF IsRow
  <2> QED BY <1>3, <2>2
<1> HIDE DEF new
<1> DEFINE q == [req[r] EXCEPT !.pc = "stats"]
<1>8. /\ q \in Request
      /\ q.pc = "stats"
      /\ q.call = req[r].call
      /\ q.todo = req[r].todo
      /\ q.orig = req[r].orig
      /\ req' = [req EXCEPT ![r] = q]
  BY <1>1 DEF Request, Labels, Save, Goto
<1> HIDE DEF q
<1>9. /\ \A s \in Reqs : req'[s] = IF s = r THEN q ELSE req[s]
      /\ \A i \in TaskIds : rows'[i] = IF i = id THEN new ELSE rows[i]
  BY <1>6, <1>8 DEF Sound, TableTypes
<1>10. TableTypes'
  BY <1>0, <1>6, <1>7, <1>8 DEF Sound, TableTypes
<1>11. Shape'
  <2>1. WellFormed(q, writes[r])
    BY <1>0, <1>1, <1>8, Operations DEF WellFormed, ReadLabels, WriteLabels, DoneLabels
  <2> QED BY <1>0, <1>9, <2>1 DEF Sound, TableInv, Shape
<1>12. Owned'
  <2>1. \A s \in Reqs, i \in TaskIds, u \in Users :
           CountsOn(req'[s], i, u) => CountsOn(req[s], i, u)
    BY <1>8, <1>9 DEF CountsOn
  <2>2. ASSUME NEW i \in TaskIds
        PROVE  \/ rows'[i] = rows[i]
               \/ rows[i] = Unborn
               \/ rows[i] # Unborn /\ rows'[i] = Deleted
               \/ /\ rows[i] # Unborn
                  /\ IsRow(rows'[i])
                  /\ rows'[i].userId \in Users
                  /\ \/ IsRow(rows[i]) /\ rows[i].userId = rows'[i].userId
                     \/ \E s \in Reqs : CountsOn(req[s], i, rows'[i].userId)
    <3>1. new \in Row => new.userId \in Users
      BY DEF Row
    <3> QED BY <1>4, <1>5, <1>7, <1>9, <3>1 DEF IsRow
  <2> QED BY <2>1, <2>2, OwnedKept DEF Sound, TableInv
<1>13. Fresh'
  <2>1. \A s \in Reqs, i \in TaskIds : Creates(req'[s], i) <=> Creates(req[s], i)
    BY <1>8, <1>9 DEF Creates
  <2> QED BY <1>5, <1>9, <2>1 DEF Sound, TableInv, Fresh
<1>14. NoLostUpdate'
  <2>1. \A s \in Reqs : req'[s].call = req[s].call
    BY <1>8, <1>9
  <2>2. \A s \in Reqs, i \in TaskIds : writes[s][i] # Null => i # id
    BY <1>1, <1>6 DEF Unlocked
  <2> QED BY <1>0, <1>9, <2>1, <2>2 DEF Sound, TableInv, NoLostUpdate, Unlocked, Op, User
<1> QED BY <1>10, <1>11, <1>12, <1>13, <1>14 DEF Sound, TableInv

\* A restart rolls everything back.
LEMMA RestartStep ==
    ASSUME Sound, Restart
    PROVE  Sound'
<1>1. /\ writes' = [r \in Reqs |-> NoWrites]
      /\ req' = [r \in Reqs |-> Idle]
      /\ UNCHANGED rows
  BY DEF Restart
<1>2. TableTypes'
  BY <1>1, IdleRequest DEF Sound, TableTypes
<1>3. Shape'
  BY <1>1, IdleRequest DEF Shape
<1>4. Owned'
  BY <1>1, IdleRequest, Operations DEF Owned, CountsOn
<1>5. Fresh'
  BY <1>1, IdleRequest DEF Fresh, Creates
<1>6. NoLostUpdate'
  BY <1>1 DEF NoLostUpdate, NoWrites
<1> QED BY <1>2, <1>3, <1>4, <1>5, <1>6 DEF Sound, TableInv

\* The table is in order at the start.
LEMMA SoundInit == Init => Sound
<1> SUFFICES ASSUME Init PROVE Sound
  OBVIOUS
<1>1. /\ writes = [r \in Reqs |-> NoWrites]
      /\ req = [r \in Reqs |-> Idle]
      /\ rows \in [TaskIds -> Row \cup {Unborn}]
  BY TablesAssumption DEF Init
<1>2. TableTypes
  BY <1>1, IdleRequest DEF TableTypes
<1>3. Shape
  BY <1>1, IdleRequest DEF Shape
<1>4. Owned
  BY <1>1, IdleRequest, Operations DEF Owned, CountsOn
<1>5. Fresh
  BY <1>1, IdleRequest DEF Fresh, Creates
<1>6. NoLostUpdate
  BY <1>1 DEF NoLostUpdate, NoWrites
<1> QED BY <1>2, <1>3, <1>4, <1>5, <1>6 DEF Sound, TableInv

\* What a step does to the system, whatever the history makes of it.
Acts ==
    \/ \E r \in Reqs, c \in Calls : Begin(r, c)
    \/ \E r \in Reqs : Step(r) \/ DbError(r)
    \/ Restart
    \/ CacheEvent

\* Whatever happens keeps the table in order.
LEMMA SoundAct ==
    ASSUME Sound, Acts \/ UNCHANGED <<rows, writes, req>>
    PROVE  Sound'
<1>1. ASSUME NEW r \in Reqs, NEW c \in Calls, Begin(r, c)
      PROVE  Sound'
  BY <1>1, BeginStep
<1>2. ASSUME NEW r \in Reqs, Step(r)
      PROVE  Sound'
  <2>1. CASE StepElsewhere(r)
    BY <2>1, ReadSteps, FindTaskStep, FindTasksStep, FindForStatusStep, LoadForSaveStep,
       WriteStep, SaveStep, RereadStep, CommitStep, RollBackStep DEF StepElsewhere, DeadlockAbort
  <2> QED BY <1>2, <2>1, InvalidateStep, EnqueueStep DEF Step
<1>3. ASSUME NEW r \in Reqs, DbError(r)
      PROVE  Sound'
  BY <1>3, RollBackStep DEF DbError
<1>4. CASE UNCHANGED <<rows, writes, req>>
  BY <1>4 DEF Sound, TableTypes, TableInv, Shape, Owned, Fresh, NoLostUpdate, Unlocked, Op, User
<1> QED BY <1>1, <1>2, <1>3, <1>4, RestartStep DEF Acts, CacheEvent

\* Every step does one of these things.
LEMMA NextActs == Next => Acts
BY DEF Next, Acts

\* Every step keeps the table in order.
LEMMA SoundNext == Sound /\ [Next]_vars => Sound'
BY SoundAct, NextActs DEF vars

\* No concurrent request's change is lost and no row changes hands: what a transaction
\* is about to commit is its call applied to the row as it is now, for any number of
\* users, tasks and requests, with any failures and restarts.
THEOREM NoUpdateIsLost == Spec => []NoLostUpdate
<1>1. Sound => NoLostUpdate
  BY DEF Sound, TableInv
<1> QED BY <1>1, SoundInit, SoundNext, PTL DEF Spec

-----------------------------------------------------------------------------
(* The cache. *)

\* What the cache is asked to hold and what becomes of it by itself keep its types.
LEMMA CacheSet ==
    ASSUME Cache!CacheTypeOK, NEW k \in CacheKeys, NEW v \in CachedValues, NEW ok, Cache!Set(k, v, ok)
    PROVE  Cache!CacheTypeOK'
<1>1. CASE Cache!RedisOnly
  BY <1>1 DEF Cache!CacheTypeOK, Cache!Set, Cache!RedisOnly, Cache!FallbackOnly
<1>2. CASE Cache!FallbackOnly
  BY <1>2 DEF Cache!CacheTypeOK, Cache!Set, Cache!RedisOnly, Cache!FallbackOnly
<1> QED BY <1>1, <1>2 DEF Cache!Set

\* get may drop a lapsed entry.
LEMMA CacheGet ==
    ASSUME Cache!CacheTypeOK, NEW k, NEW v, Cache!Get(k, v)
    PROVE  Cache!CacheTypeOK'
<1>1. CASE Cache!RedisOnly
  BY <1>1 DEF Cache!CacheTypeOK, Cache!Get, Cache!RedisOnly, Cache!FallbackOnly
<1>2. CASE Cache!FallbackOnly
  BY <1>2 DEF Cache!CacheTypeOK, Cache!Get, Cache!RedisOnly, Cache!FallbackOnly, Cache!Without
<1> QED BY <1>1, <1>2 DEF Cache!Get

\* Deletions in either tier.
LEMMA CacheDel ==
    ASSUME Cache!CacheTypeOK, NEW K, NEW ok, Cache!DelInRedis(K, ok) \/ Cache!Sweep(K)
    PROVE  Cache!CacheTypeOK'
<1>1. CASE Cache!DelInRedis(K, ok)
  BY <1>1 DEF Cache!CacheTypeOK, Cache!DelInRedis, Cache!Without
<1>2. CASE Cache!Sweep(K)
  BY <1>2 DEF Cache!CacheTypeOK, Cache!Sweep, Cache!FallbackOnly, Cache!Without
<1> QED BY <1>1, <1>2

\* Failovers, expiries, the cleanup and a restart.
LEMMA CacheEvents ==
    ASSUME Cache!CacheTypeOK,
           \/ Cache!Connect \/ Cache!ConnectionError \/ Cache!CleanupFallbackCache
           \/ \E k \in CacheKeys : Cache!LapseInRedis(k) \/ Cache!LapseInFallback(k)
           \/ Cache!CacheRestart
    PROVE  Cache!CacheTypeOK'
<1>1. CASE Cache!Connect \/ Cache!ConnectionError
  BY <1>1 DEF Cache!CacheTypeOK, Cache!Connect, Cache!ConnectionError
<1>2. CASE Cache!CleanupFallbackCache
  BY <1>2 DEF Cache!CacheTypeOK, Cache!CleanupFallbackCache, Cache!Without
<1>3. CASE \E k \in CacheKeys : Cache!LapseInRedis(k) \/ Cache!LapseInFallback(k)
  BY <1>3 DEF Cache!CacheTypeOK, Cache!LapseInRedis, Cache!LapseInFallback, Cache!Without, Cache!Held
<1>4. CASE Cache!CacheRestart
  BY <1>4, SwitchesAssumption DEF Cache!CacheTypeOK, Cache!CacheRestart, Cache!EmptyTier
<1> QED BY <1>1, <1>2, <1>3, <1>4

\* A step that does not touch the cache.
LEMMA CacheSame ==
    ASSUME Cache!CacheTypeOK, UNCHANGED cacheVars
    PROVE  Cache!CacheTypeOK'
BY DEF Cache!CacheTypeOK, cacheVars

\* What a request does keeps the types of the cache: what it stores is what the
\* queries returned, under the key it asked for.
LEMMA CacheStep ==
    ASSUME Sound, Cache!CacheTypeOK, NEW r \in Reqs, Step(r)
    PROVE  Cache!CacheTypeOK'
<1>1. CASE ReadCache(r)
  BY <1>1, CacheGet DEF ReadCache
<1>2. CASE FillCache(r)
  <2>1. req[r].pc = "set" /\ \E ok \in BOOLEAN : Cache!Set(req[r].call.key, req[r].view, ok)
    BY <1>2 DEF FillCache, At
  <2>2. req[r].call.key \in CacheKeys
    BY <2>1, Reading DEF ReadLabels
  <2>3. req[r].view \in CachedValues
    BY <2>1 DEF Sound, TableInv, Shape, WellFormed
  <2> QED BY <2>1, <2>2, <2>3, CacheSet
<1>3. CASE InvalidateStats(r)
  BY <1>3, CacheDel DEF InvalidateStats, Cache!Delete
<1>4. CASE InvalidateLists(r)
  BY <1>4, CacheDel, CacheSame DEF InvalidateLists, Cache!Scan, Cache!cacheVars, cacheVars
<1>5. CASE DeleteLists(r)
  BY <1>5, CacheDel DEF DeleteLists
<1>6. CASE UNCHANGED cacheVars
  BY <1>6, CacheSame
<1> QED
  BY <1>1, <1>2, <1>3, <1>4, <1>5, <1>6
     DEF Step, StepElsewhere, Invalidate, Enqueue, QueryRows, QueryCount, FindTask, FindTasks,
         FindForStatus, LoadForSave, Write, Save, Reread, Commit, DeadlockAbort, RollBack

\* Whatever happens keeps the types of the cache.
LEMMA CacheAct ==
    ASSUME Sound, Cache!CacheTypeOK, Acts \/ UNCHANGED cacheVars
    PROVE  Cache!CacheTypeOK'
<1>1. ASSUME NEW r \in Reqs, Step(r)
      PROVE  Cache!CacheTypeOK'
  BY <1>1, CacheStep
<1>2. Cache!CacheTypeOK
  OBVIOUS
<1>3. UNCHANGED cacheVars => Cache!CacheTypeOK'
  BY ONLY <1>2, CacheSame
<1>4. Restart \/ CacheEvent => Cache!CacheTypeOK'
  BY ONLY <1>2, CacheEvents DEF Restart, CacheEvent
<1> QED BY <1>1, <1>3, <1>4 DEF Acts, Begin, DbError, RollBack

\* Every variable keeps its type, for any constants: what a PaginatedResult or a
\* statistic becomes on its way through the cache included.
THEOREM TypeCorrect == Spec => []TypeOK
<1> DEFINE Types == /\ Sound
                    /\ Cache!CacheTypeOK
                    /\ troubled \in [Users -> BOOLEAN]
                    /\ edited \in [Users -> SUBSET TaskIds]
<1>1. Init => Types
  BY SoundInit, SwitchesAssumption
     DEF Init, Cache!CacheInit, Cache!CacheTypeOK, Cache!EmptyTier
<1>2. Types /\ [Next]_vars => Types'
  <2> SUFFICES ASSUME Types, [Next]_vars PROVE Types'
    OBVIOUS
  <2>1. Sound'
    BY SoundNext
  <2>2. troubled' \in [Users -> BOOLEAN]
    <3>1. CASE Watch
      BY <3>1 DEF Watch
    <3>2. CASE UNCHANGED vars
      BY <3>2 DEF vars
    <3> QED BY <3>1, <3>2 DEF Next
  <2>3. edited' \in [Users -> SUBSET TaskIds]
    <3>1. CASE Watch
      BY <3>1 DEF Watch, EditedNow
    <3>2. CASE UNCHANGED vars
      BY <3>2 DEF vars
    <3> QED BY <3>1, <3>2 DEF Next
  <2>4. Cache!CacheTypeOK'
    BY CacheAct, NextActs DEF vars
  <2> QED BY <2>1, <2>2, <2>3, <2>4
<1>3. Types => TypeOK
  BY DEF Sound, TableTypes, TypeOK
<1> HIDE DEF Types
<1> QED BY <1>1, <1>2, <1>3, PTL DEF Spec

-----------------------------------------------------------------------------
(* TaskBoard: what a transaction has still to reach, inductively. *)

\* Where a request q is with its statement, w being what it has written
Orderly(q, w) ==
    /\ q.call.op # "updateStatus"
    /\ q.pc \in DoneLabels \cup {"find", "reread"} => q.todo = {}
    /\ q.call.op = "unknown" =>
           /\ q.pc \in {"find", "commit"}
           /\ q.todo = {}
           /\ \A id \in TaskIds : w[id] = Null

\* What becomes of the rows that were its user's when q was called: once it has found
\* its rows, those of them that are still there are written or still to be written
Reaches(q, w) ==
    /\ q.born \subseteq q.call.ids
    /\ \A id \in q.born :
           /\ rows[id] # Unborn
           /\ IsRow(rows[id]) => rows[id].userId = q.call.user
    /\ q.pc \in WriteLabels /\ q.call.op # "unknown" =>
           \A id \in q.born : IsRow(rows[id]) => id \in q.todo \/ w[id] # Null

BoardInv == \A r \in Reqs : Orderly(req[r], writes[r]) /\ Reaches(req[r], writes[r])

-----------------------------------------------------------------------------
(* The three kinds of steps of a request, on the board. *)

\* It returns without effect
Ended(r) ==
    /\ Return(r)
    /\ UNCHANGED rows
    /\ writes' = writes \/ writes' = [writes EXCEPT ![r] = NoWrites]

\* It goes on with its call, and nobody sees it
Proceeds(r) ==
    /\ UNCHANGED rows
    /\ \A s \in Reqs \ {r} : req'[s] = req[s] /\ writes'[s] = writes[s]
    /\ req'[r].call = req[r].call
    /\ req'[r].born = req[r].born
    /\ Orderly(req'[r], writes'[r])
    /\ Reaches(req'[r], writes'[r])

\* What is known of every request.
LEMMA Have ==
    ASSUME Sound, BoardInv, NEW r \in Reqs
    PROVE  /\ req \in [Reqs -> Request]
           /\ req[r] \in Request
           /\ writes \in [Reqs -> [TaskIds -> Row \cup {Deleted, Null}]]
           /\ WellFormed(req[r], writes[r])
           /\ Orderly(req[r], writes[r])
           /\ Reaches(req[r], writes[r])
BY DEF Sound, TableTypes, TableInv, Shape, BoardInv

\* An await of a request that reads.
LEMMA ReadProceeds ==
    ASSUME Sound, BoardInv, NEW r \in Reqs,
           ReadCache(r) \/ QueryRows(r) \/ QueryCount(r) \/ FillCache(r)
    PROVE  Ended(r) \/ Proceeds(r)
<1>0. req[r].pc \in ReadLabels
  BY DEF ReadCache, QueryRows, QueryCount, FillCache, At, ReadLabels
<1>1. req[r].call.op = "read"
  BY <1>0, Reading
<1>2. UNCHANGED <<rows, writes>>
  BY DEF ReadCache, QueryRows, QueryCount, FillCache
<1>3. ASSUME NEW q, NEW label \in {"rows", "count", "set"}, req' = [req EXCEPT ![r] = q],
             q.pc = label, q.call = req[r].call, q.born = req[r].born
      PROVE  Proceeds(r)
  <2>1. req'[r] = q /\ \A s \in Reqs \ {r} : req'[s] = req[s]
    BY <1>3, Have
  <2> QED BY <1>1, <1>2, <1>3, <2>1, Have
          DEF Proceeds, Orderly, Reaches, DoneLabels, WriteLabels
<1>4. CASE Goto(r, "rows")
  <2> DEFINE q == [req[r] EXCEPT !.pc = "rows"]
  <2>1. q.pc = "rows" /\ q.call = req[r].call /\ q.born = req[r].born
    BY Have DEF Request
  <2>2. req' = [req EXCEPT ![r] = q]
    BY <1>4 DEF Goto
  <2> HIDE DEF q
  <2> QED BY <1>3, <2>1, <2>2
<1>5. CASE QueryRows(r)
  <2> DEFINE v == View(req[r].call.key, Board(User(r), rows))
             pc == IF req[r].call.key.kind = "stats" THEN "set" ELSE "count"
             q == [req[r] EXCEPT !.pc = pc, !.view = v]
  <2>1. req' = [req EXCEPT ![r] = q] /\ pc \in {"set", "count"}
    BY <1>5 DEF QueryRows
  <2> HIDE DEF v, pc
  <2>2. q.pc = pc /\ q.call = req[r].call /\ q.born = req[r].born
    BY Have DEF Request
  <2> HIDE DEF q
  <2> QED BY <1>3, <2>1, <2>2
<1>6. CASE QueryCount(r)
  <2> DEFINE v == View(req[r].call.key, Board(User(r), rows))
             q == [req[r] EXCEPT !.pc = "set", !.view = [@ EXCEPT !.total = v.total]]
  <2>1. req' = [req EXCEPT ![r] = q]
    BY <1>6 DEF QueryCount
  <2> HIDE DEF v
  <2>2. q.pc = "set" /\ q.call = req[r].call /\ q.born = req[r].born
    BY Have DEF Request
  <2> HIDE DEF q
  <2> QED BY <1>3, <2>1, <2>2
<1>7. CASE Return(r)
  BY <1>2, <1>7 DEF Ended
<1> QED BY <1>4, <1>5, <1>6, <1>7 DEF ReadCache, FillCache

\* findOne, and find of batchProcess: what was there at the call and is there still is
\* among what they find, since no row comes back.
LEMMA FindProceeds ==
    ASSUME Sound, BoardInv, NEW r \in Reqs, FindTask(r) \/ FindTasks(r)
    PROVE  Ended(r) \/ Proceeds(r)
<1>1. /\ req[r].pc = "find"
      /\ UNCHANGED <<rows, writes>>
      /\ req[r].call.op \in {"update", "remove"} \cup BatchOps
  BY DEF FindTask, FindTasks, At, Op
<1>2. /\ \A id \in TaskIds : writes[r][id] = Null
      /\ req[r].call.ids \in SUBSET TaskIds
      /\ req[r].call.op \in SingleOps => \E id \in TaskIds : req[r].call.ids = {id}
  BY <1>1, Known DEF ReadLabels, WriteLabels
<1>3. \A id \in req[r].born : IsRow(rows[id]) => id \in Found(r)
  BY Have DEF Reaches, Found, User
<1>4. CASE Return(r)
  BY <1>1, <1>4 DEF Ended
<1>5. ASSUME NEW q, req' = [req EXCEPT ![r] = q],
             q.call = req[r].call, q.born = req[r].born,
             \/ /\ q.pc = "write"
                /\ q.call.op # "unknown"
                /\ \A id \in q.born : IsRow(rows[id]) => id \in q.todo
             \/ /\ q.pc = "commit"
                /\ q.todo = {}
                /\ q.call.op = "unknown" \/ Found(r) = {}
      PROVE  Proceeds(r)
  <2>1. req'[r] = q /\ \A s \in Reqs \ {r} : req'[s] = req[s]
    BY <1>5, Have
  <2>2. Orderly(q, writes[r])
    BY <1>1, <1>2, <1>5, Have DEF Orderly, DoneLabels
  <2>3. Reaches(q, writes[r])
    BY <1>1, <1>3, <1>5, Have DEF Reaches, WriteLabels
  <2>4. Reaches(req'[r], writes'[r])
    BY <1>1, <2>1, <2>3
  <2> QED BY <1>1, <1>5, <2>1, <2>2, <2>4 DEF Proceeds
<1>6. ASSUME FindTask(r), NEW id \in Found(r),
             req' = [req EXCEPT ![r].pc = "write", ![r].orig = rows[id], ![r].todo = {id}]
      PROVE  Proceeds(r)
  <2> DEFINE q == [req[r] EXCEPT !.pc = "write", !.orig = rows[id], !.todo = {id}]
  <2>1. req' = [req EXCEPT ![r] = q]
    BY <1>6
  <2>2. /\ q.pc = "write"
        /\ q.call = req[r].call
        /\ q.born = req[r].born
        /\ q.todo = {id}
    BY Have DEF Request
  <2>3. req[r].call.op \in {"update", "remove"}
    BY <1>6 DEF FindTask, Op
  <2>4. req[r].call.ids = {id}
    BY <1>2, <2>3 DEF SingleOps, Found
  <2>5. req[r].born \subseteq {id}
    BY <2>4, Have DEF Reaches
  <2> HIDE DEF q
  <2> QED BY <1>5, <2>1, <2>2, <2>3, <2>5
<1>7. ASSUME FindTasks(r), Goto(r, "commit")
      PROVE  Proceeds(r)
  <2> DEFINE q == [req[r] EXCEPT !.pc = "commit"]
  <2>1. req' = [req EXCEPT ![r] = q]
    BY <1>7 DEF Goto
  <2>2. /\ q.pc = "commit"
        /\ q.call = req[r].call
        /\ q.born = req[r].born
        /\ q.todo = req[r].todo
    BY Have DEF Request
  <2> HIDE DEF q
  <2>3. req[r].call.op = "unknown" \/ Found(r) = {}
    <3>1. CASE Found(r) = {} \/ Op(r) = "unknown"
      BY <3>1 DEF Op
    <3>2. CASE ~(Found(r) = {} \/ Op(r) = "unknown")
      <4>1. req' = [req EXCEPT ![r].pc = "write", ![r].todo = Found(r)]
        BY <1>7, <3>2 DEF FindTasks
      <4>2. req'[r].pc = "write" /\ req'[r].pc = "commit"
        BY <2>1, <2>2, <4>1, Have DEF Request
      <4> QED BY <4>2
    <3> QED BY <3>1, <3>2
  <2>4. req[r].todo = {}
    BY <1>1, Have DEF Orderly
  <2> QED BY <1>5, <2>1, <2>2, <2>3, <2>4
<1>8. ASSUME FindTasks(r), ~(Found(r) = {} \/ Op(r) = "unknown")
      PROVE  Proceeds(r)
  <2> DEFINE q == [req[r] EXCEPT !.pc = "write", !.todo = Found(r)]
  <2>1. req' = [req EXCEPT ![r] = q]
    BY <1>8 DEF FindTasks
  <2>2. /\ q.pc = "write"
        /\ q.call = req[r].call
        /\ q.born = req[r].born
        /\ q.todo = Found(r)
    BY Have DEF Request
  <2> HIDE DEF q
  <2> QED BY <1>3, <1>5, <1>8, <2>1, <2>2 DEF Op
<1> QED BY <1>4, <1>6, <1>7, <1>8 DEF FindTask, FindTasks


\* The statement reaches a row: one that is there is written.
LEMMA WriteProceeds ==
    ASSUME Sound, BoardInv, NEW r \in Reqs, Write(r)
    PROVE  Proceeds(r)
<1>1. req[r].pc = "write" /\ UNCHANGED rows
  BY DEF Write, At
<1>2. req[r].call \in Calls /\ req[r].call.op # "unknown" /\ req[r].call.op # "updateStatus"
  BY <1>1, Have, Known DEF Orderly, ReadLabels
<1> DEFINE matches(id) == Op(r) = "create" \/ IsRow(rows[id])
           label(id) == IF req[r].todo # {id} THEN "write"
                        ELSE IF Op(r) = "update" THEN "reread" ELSE "stats"
           q(id) == [req[r] EXCEPT !.todo = @ \ {id}, !.pc = label(id)]
<1>3. PICK id \in req[r].todo :
         /\ Unlocked(r, id)
         /\ writes' = IF matches(id)
                      THEN [writes EXCEPT ![r][id] = NewRow(req[r].call, rows[id])]
                      ELSE writes
         /\ req' = [req EXCEPT ![r] = q(id)]
  BY DEF Write
<1>4. id \in TaskIds
  BY <1>3, Have DEF Request
<1>5. /\ label(id) \in {"write", "reread", "stats"}
      /\ req[r].todo # {id} => label(id) = "write"
  OBVIOUS
<1>6. /\ \A s \in Reqs \ {r} : req'[s] = req[s] /\ writes'[s] = writes[s]
      /\ req'[r] = q(id)
  BY <1>3, Have
<1>7. \A i \in TaskIds : writes'[r][i] = IF i = id /\ matches(id)
                                         THEN NewRow(req[r].call, rows[id]) ELSE writes[r][i]
  BY <1>3, <1>4, Have
<1>8. /\ q(id).call = req[r].call
      /\ q(id).born = req[r].born
      /\ q(id).todo = req[r].todo \ {id}
      /\ q(id).pc = label(id)
  BY Have DEF Request
<1>9. IsRow(rows[id]) => writes'[r][id] # Null
  <2> SUFFICES ASSUME IsRow(rows[id]) PROVE NewRow(req[r].call, rows[id]) # Null
    BY <1>4, <1>7
  <2>1. NewRow(req[r].call, rows[id]) \in Row \cup {Deleted}
    BY <1>2, NewRowType DEF IsRow
  <2> QED BY <2>1, MarkersAssumption
<1> HIDE DEF q, label
<1>10. Orderly(q(id), writes'[r])
  BY <1>2, <1>3, <1>5, <1>8, Have DEF Orderly, DoneLabels
<1>11. ASSUME NEW i \in req[r].born, IsRow(rows[i])
       PROVE  i \in q(id).todo \/ writes'[r][i] # Null
  <2>1. i \in TaskIds
    BY Have DEF Request
  <2>2. i \in req[r].todo \/ writes[r][i] # Null
    BY <1>1, <1>2, <1>11, Have DEF Reaches, WriteLabels
  <2>3. CASE i = id
    BY <1>9, <1>11, <2>3
  <2>4. CASE i # id
    BY <1>7, <1>8, <2>1, <2>2, <2>4
  <2> QED BY <2>3, <2>4
<1>12. Reaches(q(id), writes'[r])
  BY <1>8, <1>11, Have DEF Reaches
<1> QED BY <1>1, <1>6, <1>8, <1>10, <1>12 DEF Proceeds

\* A request goes on with its statement done.
LEMMA DoneProceeds ==
    ASSUME Sound, BoardInv, NEW r \in Reqs, UNCHANGED <<rows, writes>>,
           req[r].pc \in {"reread", "stats", "lists", "del", "add"},
           NEW q, req' = [req EXCEPT ![r] = q],
           q.call = req[r].call, q.born = req[r].born, q.todo = req[r].todo,
           q.pc \in DoneLabels
    PROVE  Proceeds(r)
<1>1. req'[r] = q /\ \A s \in Reqs \ {r} : req'[s] = req[s]
  BY Have
<1>2. req[r].todo = {} /\ req[r].call.op # "unknown" /\ req[r].pc \in WriteLabels
  BY Have DEF Orderly, DoneLabels, WriteLabels
<1>3. Orderly(q, writes[r])
  BY <1>2, Have DEF Orderly
<1>4. Reaches(q, writes[r])
  BY <1>2, Have DEF Reaches
<1> QED BY <1>1, <1>3, <1>4 DEF Proceeds

\* The second findOne of update.
LEMMA RereadProceeds ==
    ASSUME Sound, BoardInv, NEW r \in Reqs, Reread(r)
    PROVE  Ended(r) \/ Proceeds(r)
<1>1. req[r].pc = "reread" /\ UNCHANGED <<rows, writes>>
  BY DEF Reread, At
<1>2. CASE Return(r)
  BY <1>1, <1>2 DEF Ended
<1>3. ASSUME NEW row, NEW changed, NEW label \in {"commit", "stats"},
             req' = [req EXCEPT ![r].seen = row, ![r].changed = changed, ![r].pc = label]
      PROVE  Proceeds(r)
  <2> DEFINE q == [req[r] EXCEPT !.seen = row, !.changed = changed, !.pc = label]
  <2>1. req' = [req EXCEPT ![r] = q]
    BY <1>3
  <2>2. q.call = req[r].call /\ q.born = req[r].born /\ q.todo = req[r].todo /\ q.pc = label
    BY Have DEF Request
  <2> HIDE DEF q
  <2> QED BY <1>1, <2>1, <2>2, DoneProceeds DEF DoneLabels
<1>4. PICK id \in req[r].call.ids :
         LET row == Sees(r, id)
             changed == {f \in {"status", "priority"} : req[r].orig[f] # row[f]}
         IN IF IsRow(row)
            THEN req' = [req EXCEPT ![r].seen = row, ![r].changed = changed,
                                    ![r].pc = IF changed = {} THEN "commit" ELSE "stats"]
            ELSE Return(r)
  BY DEF Reread
<1> DEFINE changed == {f \in {"status", "priority"} : req[r].orig[f] # Sees(r, id)[f]}
           label == IF changed = {} THEN "commit" ELSE "stats"
<1>5. Return(r) \/ req' = [req EXCEPT ![r].seen = Sees(r, id), ![r].changed = changed, ![r].pc = label]
  BY <1>4
<1>6. label \in {"commit", "stats"}
  OBVIOUS
<1> HIDE DEF changed, label
<1> QED BY <1>2, <1>3, <1>5, <1>6

\* invalidateUserCache and taskQueue.add.
LEMMA InvalidationProceeds ==
    ASSUME Sound, BoardInv, NEW r \in Reqs, Invalidate(r) \/ Enqueue(r)
    PROVE  Ended(r) \/ Proceeds(r)
<1>1. /\ req[r].pc \in {"stats", "lists", "del", "add"}
      /\ UNCHANGED <<rows, writes>>
      /\ req[r].call.op # "updateStatus"
  BY Have DEF Invalidate, InvalidateStats, InvalidateLists, DeleteLists, Enqueue, At, Orderly
<1>2. ASSUME NEW label \in DoneLabels, Goto(r, label)
      PROVE  Proceeds(r)
  <2> DEFINE q == [req[r] EXCEPT !.pc = label]
  <2>1. req' = [req EXCEPT ![r] = q]
    BY <1>2 DEF Goto
  <2>2. q.call = req[r].call /\ q.born = req[r].born /\ q.todo = req[r].todo /\ q.pc = label
    BY Have DEF Request
  <2> HIDE DEF q
  <2> QED BY <1>1, <2>1, <2>2, DoneProceeds
<1>3. CASE AfterInvalidation(r)
  <2>1. Goto(r, "add") \/ Goto(r, "commit")
    BY <1>1, <1>3 DEF AfterInvalidation, Op
  <2> QED BY <1>2, <2>1 DEF DoneLabels
<1>4. ASSUME NEW listed, req' = [req EXCEPT ![r].pc = "del", ![r].listed = listed]
      PROVE  Proceeds(r)
  <2> DEFINE q == [req[r] EXCEPT !.pc = "del", !.listed = listed]
  <2>1. req' = [req EXCEPT ![r] = q]
    BY <1>4
  <2>2. q.call = req[r].call /\ q.born = req[r].born /\ q.todo = req[r].todo /\ q.pc = "del"
    BY Have DEF Request
  <2> HIDE DEF q
  <2> QED BY <1>1, <2>1, <2>2, DoneProceeds DEF DoneLabels
<1>5. ASSUME NEW added, req' = [req EXCEPT ![r].job = added, ![r].pc = "commit"]
      PROVE  Proceeds(r)
  <2> DEFINE q == [req[r] EXCEPT !.job = added, !.pc = "commit"]
  <2>1. req' = [req EXCEPT ![r] = q]
    BY <1>5
  <2>2. q.call = req[r].call /\ q.born = req[r].born /\ q.todo = req[r].todo /\ q.pc = "commit"
    BY Have DEF Request
  <2> HIDE DEF q
  <2> QED BY <1>1, <2>1, <2>2, DoneProceeds DEF DoneLabels
<1>6. CASE InvalidateStats(r)
  BY <1>2, <1>6 DEF InvalidateStats, DoneLabels
<1>7. CASE InvalidateLists(r)
  BY <1>3, <1>4, <1>7 DEF InvalidateLists
<1>8. CASE DeleteLists(r)
  BY <1>3, <1>8 DEF DeleteLists
<1>9. CASE Enqueue(r)
  <2>1. PICK added : req' = [req EXCEPT ![r].job = added, ![r].pc = "commit"]
    BY <1>9 DEF Enqueue
  <2> QED BY <1>5, <2>1
<1> QED BY <1>6, <1>7, <1>8, <1>9 DEF Invalidate

\* Whatever a request does, it ends without effect, goes on unseen, or commits.
LEMMA Kinds ==
    ASSUME Sound, BoardInv, NEW r \in Reqs, Step(r) \/ DbError(r)
    PROVE  Ended(r) \/ Proceeds(r) \/ Commit(r)
<1>1. CASE RollBack(r)
  BY <1>1 DEF RollBack, Ended
<1>2. CASE FindForStatus(r) \/ LoadForSave(r) \/ Save(r)
  <2>1. req[r].call.op # "updateStatus"
    BY Have DEF Orderly
  <2>2. LoadForSave(r) => req[r].call.op = "updateStatus"
    BY Have DEF LoadForSave, At, WellFormed
  <2> QED BY <1>2, <2>1, <2>2 DEF FindForStatus, Save, Op
<1> QED BY <1>1, <1>2, ReadProceeds, FindProceeds, WriteProceeds, RereadProceeds,
           InvalidationProceeds
        DEF Step, StepElsewhere, DbError, DeadlockAbort


-----------------------------------------------------------------------------
(* The invariant is inductive. *)

\* A request that has returned has nothing to reach.
LEMMA IdleInOrder ==
    ASSUME NEW w
    PROVE  Orderly(Idle, w) /\ Reaches(Idle, w) /\ Idle.born = {}
BY DEF Idle, NoCall, Orderly, Reaches, DoneLabels, WriteLabels

\* The invariant of a request survives changes of rows by others that neither bring a
\* row back nor give it away.
LEMMA ReachesKept ==
    ASSUME NEW q \in Request, NEW w, Reaches(q, w),
           \A id \in TaskIds :
               \/ rows'[id] = rows[id]
               \/ rows[id] = Unborn
               \/ rows'[id] = Deleted
               \/ IsRow(rows[id]) /\ IsRow(rows'[id]) /\ rows'[id].userId = rows[id].userId
    PROVE  /\ q.born \subseteq q.call.ids
           /\ \A id \in q.born :
                  /\ rows'[id] # Unborn
                  /\ IsRow(rows'[id]) => rows'[id].userId = q.call.user
           /\ q.pc \in WriteLabels /\ q.call.op # "unknown" =>
                  \A id \in q.born : IsRow(rows'[id]) => id \in q.todo \/ w[id] # Null
<1>1. q.born \subseteq TaskIds
  BY DEF Request
<1>2. ASSUME NEW id \in q.born
      PROVE  /\ rows'[id] # Unborn
             /\ IsRow(rows'[id]) => IsRow(rows[id]) /\ rows'[id].userId = rows[id].userId
  BY <1>1, <1>2, MarkersAssumption DEF Reaches, IsRow
<1> QED BY <1>2 DEF Reaches

\* At the start nobody has called.
LEMMA BoardInit == Init => BoardInv
<1> SUFFICES ASSUME Init PROVE BoardInv
  OBVIOUS
<1>1. \A r \in Reqs : req[r] = Idle
  BY DEF Init
<1> QED BY <1>1, IdleInOrder DEF BoardInv

\* A call that arrives finds its user's rows as they are.
LEMMA BoardBegin ==
    ASSUME Sound, BoardInv, "updateStatus" \notin Ops,
           NEW r \in Reqs, NEW c \in Calls, Begin(r, c)
    PROVE  BoardInv'
<1> DEFINE label == IF c.op = "read" THEN "get" ELSE IF c.op = "create" THEN "write" ELSE "find"
           todo == IF c.op = "create" THEN c.ids ELSE {}
           born == {id \in c.ids : IsRow(rows[id]) /\ rows[id].userId = c.user}
           q == [Idle EXCEPT !.pc = label, !.call = c, !.todo = todo, !.born = born]
<1>1. /\ c.op # "updateStatus"
      /\ req[r].pc = "idle"
      /\ UNCHANGED <<rows, writes>>
      /\ req' = [req EXCEPT ![r] = q]
      /\ c.op = "create" => \A id \in c.ids : rows[id] = Unborn
  BY DEF Begin, At
<1>2. q.pc = label /\ q.call = c /\ q.todo = todo /\ q.born = born
  BY DEF Idle
<1>3. /\ label \in {"get", "write", "find"}
      /\ label = "write" => c.op = "create"
      /\ c.op = "unknown" => label = "find" /\ todo = {}
      /\ label = "find" => todo = {}
  OBVIOUS
<1>4. c.op = "create" => born = {}
  BY <1>1, MarkersAssumption DEF IsRow
<1>5. \A id \in born : id \in c.ids /\ rows[id] # Unborn /\ rows[id].userId = c.user
  BY MarkersAssumption DEF IsRow
<1>6. \A id \in TaskIds : writes[r][id] = Null
  BY <1>1, Known DEF WriteLabels
<1> HIDE DEF q, label, todo, born
<1>7. Orderly(q, writes[r])
  BY <1>1, <1>2, <1>3, <1>6 DEF Orderly, DoneLabels
<1>8. Reaches(q, writes[r])
  BY <1>2, <1>3, <1>4, <1>5 DEF Reaches, WriteLabels
<1>9. \A s \in Reqs : req'[s] = IF s = r THEN q ELSE req[s]
  BY <1>1, Have
<1>10. \A s \in Reqs : Orderly(req'[s], writes[s]) /\ Reaches(req'[s], writes[s])
  BY <1>7, <1>8, <1>9 DEF BoardInv
<1> QED BY <1>1, <1>10 DEF BoardInv, Reaches

\* What a COMMIT may do to a row.
LEMMA CommitKeepsRows ==
    ASSUME Sound, NEW r \in Reqs, Commit(r), NEW id \in TaskIds
    PROVE  \/ rows'[id] = rows[id]
           \/ rows[id] = Unborn
           \/ rows'[id] = Deleted
           \/ IsRow(rows[id]) /\ IsRow(rows'[id]) /\ rows'[id].userId = rows[id].userId
<1>1. At(r, "commit") /\ rows'[id] = Committed(r)[id]
  BY DEF Commit
<1> QED BY <1>1, CommittedRow DEF IsRow

\* Whatever happens keeps the invariant.
LEMMA BoardAct ==
    ASSUME "updateStatus" \notin Ops, Sound, BoardInv, Acts \/ UNCHANGED <<rows, writes, req>>
    PROVE  BoardInv'
<1>1. ASSUME NEW r \in Reqs, Ended(r)
      PROVE  BoardInv'
  <2>1. /\ \A s \in Reqs : req'[s] = IF s = r THEN Idle ELSE req[s]
        /\ \A s \in Reqs \ {r} : writes'[s] = writes[s]
        /\ UNCHANGED rows
    BY <1>1, Have DEF Ended, Return
  <2>2. \A s \in Reqs : Orderly(req'[s], writes'[s]) /\ Reaches(req'[s], writes'[s])
    BY <2>1, IdleInOrder DEF BoardInv
  <2> QED BY <2>1, <2>2 DEF BoardInv, Reaches
<1>2. ASSUME NEW r \in Reqs, Proceeds(r)
      PROVE  BoardInv'
  <2>1. \A s \in Reqs : Orderly(req'[s], writes'[s]) /\ Reaches(req'[s], writes'[s])
    BY <1>2 DEF Proceeds, BoardInv
  <2> QED BY <1>2, <2>1 DEF BoardInv, Reaches, Proceeds
<1>3. ASSUME NEW r \in Reqs, Commit(r)
      PROVE  BoardInv'
  <2>1. /\ \A s \in Reqs : req'[s] = IF s = r THEN Idle ELSE req[s]
        /\ \A s \in Reqs \ {r} : writes'[s] = writes[s]
    BY <1>3, Have DEF Commit, Return
  <2>2. ASSUME NEW s \in Reqs \ {r}
        PROVE  Orderly(req'[s], writes'[s]) /\ Reaches(req[s], writes[s])'
    BY <1>3, <2>1, <2>2, Have, CommitKeepsRows, ReachesKept DEF Reaches
  <2>3. Reaches(req[r], writes[r])'
    BY <2>1, IdleInOrder DEF Reaches
  <2> QED BY <2>1, <2>2, <2>3, IdleInOrder DEF BoardInv
<1>4. CASE Restart
  <2>1. \A r \in Reqs : req'[r] = Idle
    BY <1>4 DEF Restart
  <2> QED BY <2>1, IdleInOrder DEF BoardInv, Reaches
<1>5. CASE UNCHANGED <<rows, writes, req>>
  BY <1>5 DEF BoardInv, Reaches
<1> QED BY <1>1, <1>2, <1>3, <1>4, <1>5, Kinds, BoardBegin DEF Acts, CacheEvent

-----------------------------------------------------------------------------
(* The refinement of TaskBoard. *)

Asked == [r \in Reqs |-> req[r].call]

Born == [r \in Reqs |-> req[r].born]

\* A request that returns is one that has asked for nothing.
LEMMA AsksNothing ==
    ASSUME Sound, NEW r \in Reqs, Return(r)
    PROVE  Asked' = [Asked EXCEPT ![r] = NoCall] /\ Born' = [Born EXCEPT ![r] = {}]
<1>1. \A s \in Reqs : req'[s] = IF s = r THEN Idle ELSE req[s]
  BY DEF Return, Sound, TableTypes
<1>2. Idle.call = NoCall /\ Idle.born = {}
  BY DEF Idle
<1>3. Asked' = [Asked EXCEPT ![r] = NoCall]
  BY <1>1, <1>2 DEF Asked
<1>4. Born' = [Born EXCEPT ![r] = {}]
  BY <1>1, <1>2 DEF Born
<1> QED BY <1>3, <1>4

\* The rows of a call, on the board as here.
LEMMA Own ==
    ASSUME NEW c, NEW id
    PROVE  id \in TheBoard!OwnRows(c) <=> id \in c.ids /\ IsRow(rows[id]) /\ rows[id].userId = c.user
BY DEF TheBoard!OwnRows, IsRow

\* A batch, or a removal, affects the rows it has written: all that were its user's
\* when it was called and are still there.
LEMMA AffectsWritten ==
    ASSUME Sound, BoardInv, NEW r \in Reqs, req[r].pc = "commit",
           req[r].call.op \in TaskOps \ {"unknown"}
    PROVE  {id \in TaskIds : writes[r][id] # Null} \in TheBoard!Affected(r)
<1> DEFINE S == {id \in TaskIds : writes[r][id] # Null}
           c == req[r].call
<1>1. \A id \in S : id \in TheBoard!OwnRows(c)
  BY Own, Operations DEF Sound, TableInv, NoLostUpdate, Op, User
<1>2. ASSUME NEW id \in req[r].born, id \in TheBoard!OwnRows(c)
      PROVE  id \in S
  <2>1. IsRow(rows[id]) /\ id \in TaskIds
    BY <1>2, Own, Have DEF Request
  <2>2. req[r].todo = {}
    BY Have DEF Orderly, DoneLabels
  <2> QED BY <1>2, <2>1, <2>2, Have DEF Reaches, WriteLabels
<1>3. Asked[r] = c /\ Born[r] = req[r].born
  BY DEF Asked, Born
<1> HIDE DEF S
<1>4. S \in SUBSET TheBoard!OwnRows(c) /\ req[r].born \cap TheBoard!OwnRows(c) \subseteq S
  BY <1>1, <1>2
<1> QED BY <1>3, <1>4 DEF TheBoard!Affected, Asked, Born, S

\* A COMMIT is the instant at which a call takes effect.
LEMMA CommitTakesEffect ==
    ASSUME Sound, BoardInv, NEW r \in Reqs, Commit(r)
    PROVE  TheBoard!Next
<1> DEFINE c == req[r].call
           Effect == \/ UNCHANGED rows
                     \/ TheBoard!Create(r) \/ TheBoard!Update(r)
                     \/ TheBoard!Complete(r) \/ TheBoard!Remove(r)
<1>1. /\ req[r].pc = "commit"
      /\ Asked' = [Asked EXCEPT ![r] = NoCall]
      /\ Born' = [Born EXCEPT ![r] = {}]
      /\ rows' = Committed(r)
  BY AsksNothing DEF Commit, At
<1>2. /\ c \in Calls
      /\ c.op \in TaskOps \cup {"create"}
      /\ c.ids \in SUBSET TaskIds
      /\ c.op \in SingleOps => \E id \in TaskIds : c.ids = {id}
      /\ c.op = "create" => \A id \in c.ids : writes[r][id] \in Row
  BY <1>1, Have, KnownDone DEF DoneLabels, WellFormed, Orderly
<1>3. Asked[r] = c
  BY DEF Asked
<1>4. rows \in [TaskIds -> Row \cup {Unborn, Deleted}]
  BY DEF Sound, TableTypes
<1>5. \A id \in TaskIds : writes[r][id] # Null =>
         /\ id \in c.ids
         /\ IF c.op = "create" THEN rows[id] = Unborn
            ELSE IsRow(rows[id]) /\ rows[id].userId = c.user
         /\ writes[r][id] = NewRow(c, rows[id])
  BY DEF Sound, TableInv, NoLostUpdate, Op, User
<1> HIDE DEF c
<1>6. ASSUME c.op = "create" PROVE Effect
  <2>1. PICK id \in TaskIds : c.ids = {id}
    BY <1>2, <1>6 DEF SingleOps
  <2>2. writes[r][id] # Null /\ rows[id] = Unborn /\ writes[r][id] = NewRow(c, rows[id])
    BY <1>2, <1>5, <1>6, <2>1, MarkersAssumption
  <2>3. \A i \in TaskIds \ {id} : writes[r][i] = Null
    BY <1>5, <2>1
  <2>4. rows' = [rows EXCEPT ![id] = NewRow(c, rows[id])]
    BY <1>1, <1>4, <2>2, <2>3 DEF Committed, Sees
  <2>5. NewRow(c, rows[id]) =
           [userId |-> c.user, status |-> c.patch.status, priority |-> c.patch.priority,
            details |-> c.patch.details]
    BY <1>6 DEF NewRow
  <2> QED BY <1>1, <1>3, <1>6, <2>1, <2>2, <2>4, <2>5 DEF TheBoard!Create, Asked
<1>7. ASSUME c.op = "update", NEW id \in TaskIds, writes[r][id] # Null PROVE Effect
  <2>1. c.ids = {id}
    BY <1>2, <1>5, <1>7 DEF SingleOps
  <2>2. /\ IsRow(rows[id])
        /\ rows[id].userId = c.user
        /\ writes[r][id] = NewRow(c, rows[id])
    BY <1>5, <1>7
  <2>3. \A i \in TaskIds \ {id} : writes[r][i] = Null
    BY <1>5, <2>1
  <2>4. rows' = [rows EXCEPT ![id] = NewRow(c, rows[id])]
    BY <1>1, <1>4, <1>7, <2>2, <2>3 DEF Committed, Sees
  <2>5. NewRow(c, rows[id]) =
           [userId   |-> c.user,
            status   |-> IF c.patch.status = Null THEN rows[id].status ELSE c.patch.status,
            priority |-> IF c.patch.priority = Null THEN rows[id].priority ELSE c.patch.priority,
            details  |-> IF c.patch.details = Null THEN rows[id].details ELSE c.patch.details]
    BY <1>7, <2>2 DEF NewRow, Patched, IsRow, Row
  <2>6. id \in TheBoard!OwnRows(c)
    BY <2>1, <2>2, Own
  <2>7. rows' = [rows EXCEPT ![id] =
           [userId |-> c.user,
            status |-> TheBoard!Given(c.patch.status, rows[id].status),
            priority |-> TheBoard!Given(c.patch.priority, rows[id].priority),
            details |-> TheBoard!Given(c.patch.details, rows[id].details)]]
    BY <2>4, <2>5 DEF TheBoard!Given
  <2>8. TheBoard!Update(r)
    BY <1>3, <1>7, <2>6, <2>7 DEF TheBoard!Update, Asked
  <2> QED BY <2>8
<1>8. ASSUME c.op = "complete" PROVE Effect
  <2> DEFINE S == {id \in TaskIds : writes[r][id] # Null}
  <2>1. S \in TheBoard!Affected(r)
    BY <1>1, <1>8, AffectsWritten, Operations DEF c
  <2>2. rows' = [id \in TaskIds |-> IF id \in S THEN [rows[id] EXCEPT !.status = "COMPLETED"]
                                    ELSE rows[id]]
    <3>1. \A id \in S : writes[r][id] = [rows[id] EXCEPT !.status = "COMPLETED"]
      BY <1>5, <1>8 DEF NewRow
    <3> QED BY <1>1, <3>1 DEF Committed, Sees
  <2> HIDE DEF S
  <2> QED BY <1>1, <1>3, <1>8, <2>1, <2>2 DEF TheBoard!Complete, Asked
<1>9. ASSUME c.op \in {"remove", "delete"} PROVE Effect
  <2> DEFINE S == {id \in TaskIds : writes[r][id] # Null}
  <2>1. S \in TheBoard!Affected(r)
    BY <1>1, <1>9, AffectsWritten, Operations DEF c
  <2>2. rows' = [id \in TaskIds |-> IF id \in S THEN Deleted ELSE rows[id]]
    <3>1. \A id \in S : writes[r][id] = Deleted
      BY <1>5, <1>9 DEF NewRow
    <3> QED BY <1>1, <3>1 DEF Committed, Sees
  <2> HIDE DEF S
  <2> QED BY <1>1, <1>3, <1>9, <2>1, <2>2 DEF TheBoard!Remove, Asked
<1>10. ASSUME \A id \in TaskIds : writes[r][id] = Null PROVE Effect
  <2>1. rows' = rows
    BY <1>1, <1>4, <1>10 DEF Committed, Sees
  <2> QED BY <2>1
<1>11. Effect
  <2>1. c.op = "unknown" => \A id \in TaskIds : writes[r][id] = Null
    BY Have DEF Orderly, c
  <2> QED BY <1>2, <1>6, <1>7, <1>8, <1>9, <1>10, <2>1, Operations
<1>12. TheBoard!Return(r)
  BY <1>1, <1>11 DEF TheBoard!Return, Asked, Born
<1> QED BY <1>12 DEF TheBoard!Next

\* The initial states are those of the board.
LEMMA BoardStarts == Init => TheBoard!Init
<1> SUFFICES ASSUME Init PROVE TheBoard!Init
  OBVIOUS
<1>1. rows \in [TaskIds -> Row \cup {Unborn}]
  BY TablesAssumption DEF Init
<1>2. \A r \in Reqs : req[r].call = NoCall /\ req[r].born = {}
  BY DEF Init, Idle
<1>3. Asked = [r \in Reqs |-> NoCall] /\ Born = [r \in Reqs |-> {}]
  BY <1>2 DEF Asked, Born
<1> QED BY <1>1, <1>3 DEF TheBoard!Init, Asked, Born

\* Whatever happens is a step of the board, or leaves it alone.
LEMMA ActsOnBoard ==
    ASSUME "updateStatus" \notin Ops, Sound, BoardInv, Acts \/ UNCHANGED <<rows, writes, req>>
    PROVE  TheBoard!Next \/ (rows' = rows /\ Asked' = Asked /\ Born' = Born)
<1>1. ASSUME NEW r \in Reqs, NEW c \in Calls, Begin(r, c)
      PROVE  TheBoard!Next
  <2> DEFINE own == {id \in c.ids : IsRow(rows[id]) /\ rows[id].userId = c.user}
  <2>1. /\ req[r].pc = "idle"
        /\ UNCHANGED rows
        /\ req'[r].call = c
        /\ req'[r].born = own
        /\ \A s \in Reqs \ {r} : req'[s] = req[s]
    BY <1>1, Have DEF Begin, At, Idle
  <2>2. Asked[r] = NoCall
    BY <2>1, Have DEF Asked, WellFormed, Idle
  <2>3. own = TheBoard!OwnRows(c)
    BY DEF TheBoard!OwnRows, IsRow
  <2> HIDE DEF own
  <2>4. Asked' = [Asked EXCEPT ![r] = c]
    BY <2>1 DEF Asked
  <2>5. Born' = [Born EXCEPT ![r] = TheBoard!OwnRows(c)]
    BY <2>1, <2>3 DEF Born
  <2>6. TheBoard!Ask(r)
    BY <2>1, <2>2, <2>4, <2>5 DEF TheBoard!Ask, Asked, Born
  <2> QED BY <2>6 DEF TheBoard!Next
<1>2. ASSUME NEW r \in Reqs, Ended(r)
      PROVE  TheBoard!Next
  <2>1. TheBoard!Return(r)
    BY <1>2, AsksNothing DEF Ended, TheBoard!Return, Asked, Born
  <2> QED BY <2>1 DEF TheBoard!Next
<1>3. ASSUME NEW r \in Reqs, Proceeds(r)
      PROVE  rows' = rows /\ Asked' = Asked /\ Born' = Born
  BY <1>3 DEF Proceeds, Asked, Born
<1>4. ASSUME NEW r \in Reqs, Commit(r)
      PROVE  TheBoard!Next
  BY <1>4, CommitTakesEffect
<1>5. CASE Restart
  <2>1. /\ \A r \in Reqs : req'[r].call = NoCall /\ req'[r].born = {}
        /\ UNCHANGED rows
    BY <1>5 DEF Restart, Idle
  <2>2. Asked' = [r \in Reqs |-> NoCall] /\ Born' = [r \in Reqs |-> {}]
    BY <2>1 DEF Asked, Born
  <2>3. TheBoard!Crash
    BY <2>1, <2>2 DEF TheBoard!Crash, Asked, Born
  <2> QED BY <2>3 DEF TheBoard!Next
<1>6. CASE UNCHANGED <<rows, req>>
  BY <1>6 DEF Asked, Born
<1> QED BY <1>1, <1>2, <1>3, <1>4, <1>5, <1>6, Kinds DEF Acts, CacheEvent

\* create, update, remove and batchProcess each take effect as a whole at one instant,
\* on the rows as they are then, or not at all: whatever fails, however many requests
\* and tasks there are, as long as nobody calls updateStatus.
THEOREM ImplementsTaskBoard == ASSUME "updateStatus" \notin Ops PROVE Spec => TakesEffectAtOnce
<1>1. Init => Sound /\ BoardInv /\ TheBoard!Init
  BY SoundInit, BoardInit, BoardStarts
<1>2. Sound /\ BoardInv /\ [Next]_vars => (Sound /\ BoardInv)'
  BY SoundNext, BoardAct, NextActs DEF vars
<1>3. Sound /\ BoardInv /\ [Next]_vars => [TheBoard!Next]_(TheBoard!vars)
  BY ActsOnBoard, NextActs DEF vars, TheBoard!vars, Asked, Born
<1> QED BY <1>1, <1>2, <1>3, PTL DEF Spec, TakesEffectAtOnce, TheBoard!Spec

=============================================================================
