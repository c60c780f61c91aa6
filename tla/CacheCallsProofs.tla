-------------------------- MODULE CacheCallsProofs --------------------------
(***************************************************************************)
(* Proofs about CacheCalls, for any keys, values, clients, targets, size   *)
(* and failures: the types, that an invalidation which reports success has *)
(* removed its keys, and that the two tiers implement LossyCache.          *)
(***************************************************************************)
EXTENDS CacheCalls, TLAPS

-----------------------------------------------------------------------------
(* Types. *)

\* The operations of the CacheService keep the types of the tiers.
LEMMA SetType ==
    ASSUME CacheTypeOK, NEW k \in Keys, NEW v \in Values, NEW ok, Set(k, v, ok)
    PROVE  CacheTypeOK'
<1>1. CASE RedisOnly
  BY <1>1 DEF CacheTypeOK, Set, RedisOnly, FallbackOnly
<1>2. CASE FallbackOnly
  BY <1>2 DEF CacheTypeOK, Set, RedisOnly, FallbackOnly
<1> QED BY <1>1, <1>2 DEF Set

\* mset keeps the types of the tiers.
LEMMA MsetType ==
    ASSUME CacheTypeOK, NEW K \in SUBSET Keys, NEW v \in Values, Mset(K, v)
    PROVE  CacheTypeOK'
<1>1. CASE RedisOnly
  BY <1>1 DEF CacheTypeOK, Mset, RedisOnly, FallbackOnly
<1>2. CASE FallbackOnly
  BY <1>2 DEF CacheTypeOK, Mset, RedisOnly, FallbackOnly
<1> QED BY <1>1, <1>2 DEF Mset

\* get keeps them, dropping a lapsed entry.
LEMMA GetType ==
    ASSUME CacheTypeOK, NEW k \in Keys, NEW v, Get(k, v)
    PROVE  CacheTypeOK'
<1>1. CASE RedisOnly
  BY <1>1 DEF CacheTypeOK, Get, RedisOnly, FallbackOnly
<1>2. CASE FallbackOnly
  BY <1>2 DEF CacheTypeOK, Get, RedisOnly, FallbackOnly, Without
<1> QED BY <1>1, <1>2 DEF Get

\* The removals keep them.
LEMMA DelType ==
    ASSUME CacheTypeOK, NEW K \in SUBSET Keys, NEW ok, DelInRedis(K, ok) \/ Sweep(K)
    PROVE  CacheTypeOK'
  BY DEF CacheTypeOK, DelInRedis, Sweep, FallbackOnly, Without

\* So do the events.
LEMMA EventsType ==
    ASSUME CacheTypeOK,
           \/ Connect \/ ConnectionError \/ CleanupFallbackCache
           \/ \E k \in Keys : LapseInRedis(k) \/ LapseInFallback(k)
           \/ CacheRestart
    PROVE  CacheTypeOK'
<1>1. CASE Connect \/ ConnectionError
  BY <1>1 DEF CacheTypeOK, Connect, ConnectionError
<1>2. CASE CleanupFallbackCache
  BY <1>2 DEF CacheTypeOK, CleanupFallbackCache, Without
<1>3. CASE \E k \in Keys : LapseInRedis(k) \/ LapseInFallback(k)
  BY <1>3 DEF CacheTypeOK, LapseInRedis, LapseInFallback, Without
<1>4. CASE CacheRestart
  BY <1>4, SwitchAssumption DEF CacheTypeOK, CacheRestart, EmptyTier
<1> QED BY <1>1, <1>2, <1>3, <1>4

\* A reply is of the tier that was read, or a miss.
LEMMA GetReply ==
    ASSUME CacheTypeOK, NEW k \in Keys, NEW v, Get(k, v)
    PROVE  v \in {Null, IF isRedisAvailable THEN redis[k] ELSE fallback[k]}
  BY DEF Get, RedisOnly, FallbackOnly

\* What is noted as stored are keys.
LEMMA StoredType ==
    ASSUME TypeOK, NEW K \in SUBSET Keys, Stored(K)
    PROVE  since' \in [Clients -> SUBSET Keys]
  BY DEF TypeOK, Stored

\* The types hold at the start.
LEMMA TypeInit == Init => TypeOK
  BY SwitchAssumption DEF Init, TypeOK, CacheInit, CacheTypeOK, EmptyTier, NoCall, NoReply, Kinds, Call

\* Every action keeps the types.
LEMMA TypeStep == TypeOK /\ [Next]_vars => TypeOK'
<1> SUFFICES ASSUME TypeOK, [Next]_vars PROVE TypeOK'
  OBVIOUS
<1>a. CacheTypeOK
  BY DEF TypeOK
<1>b. ASSUME Quiet PROVE \A k \in DOMAIN reply' : k \in Keys /\ reply'[k] \in Values \cup {Null}
  BY <1>b DEF Quiet, NoReply
<1>1. CASE SetCall
  <2>1. PICK k \in Keys, v \in Values, ok \in BOOLEAN :
           Set(k, v, ok) /\ Stored({k}) /\ Quiet /\ UNCHANGED pending
    BY <1>1 DEF SetCall
  <2> QED BY <1>a, <1>b, <2>1, SetType, StoredType DEF TypeOK
<1>2. CASE MsetCall
  <2>1. PICK K \in SUBSET Keys, v \in Values : Mset(K, v) /\ Stored(K) /\ Quiet /\ UNCHANGED pending
    BY <1>2 DEF MsetCall
  <2> QED BY <1>a, <1>b, <2>1, MsetType, StoredType DEF TypeOK
<1>3. CASE GetCall
  <2>0. PICK k \in Keys : \E v \in {Null, redis[k], fallback[k]} :
           Get(k, v) /\ reply' = [x \in {k} |-> v] /\ UNCHANGED <<pending, since>>
    BY <1>3 DEF GetCall
  <2>1. PICK v \in {Null, redis[k], fallback[k]} :
           Get(k, v) /\ reply' = [x \in {k} |-> v] /\ UNCHANGED <<pending, since>>
    BY <2>0
  <2>2. v \in Values \cup {Null}
    BY <1>a, <2>1 DEF CacheTypeOK
  <2>3. \A x \in DOMAIN reply' : x \in Keys /\ reply'[x] \in Values \cup {Null}
    BY <2>1, <2>2
  <2> QED BY <1>a, <2>1, <2>3, GetType DEF TypeOK
<1>4. CASE MgetCall
  <2>1. PICK K \in SUBSET Keys, tier \in {redis, fallback, EmptyTier, Without(fallback, lapsed)} :
           /\ Mget(K, [k \in K |-> tier[k]])
           /\ reply' = [k \in K |-> tier[k]]
           /\ UNCHANGED <<pending, since>>
    BY <1>4 DEF MgetCall
  <2>2. tier \in [Keys -> Values \cup {Null}]
    BY <1>a DEF CacheTypeOK, EmptyTier, Without
  <2>3. \A x \in DOMAIN reply' : x \in Keys /\ reply'[x] \in Values \cup {Null}
    BY <2>1, <2>2
  <2>4. UNCHANGED cacheVars
    BY <2>1 DEF Mget
  <2> QED BY <2>1, <2>3, <2>4 DEF TypeOK, CacheTypeOK, cacheVars
<1>5. CASE HasCall
  <2>1. PICK k \in Keys : (\E v : Get(k, v)) /\ Quiet /\ UNCHANGED <<pending, since>>
    BY <1>5 DEF HasCall, Has
  <2> QED BY <1>a, <1>b, <2>1, GetType DEF TypeOK
<1>6. CASE DeleteCall
  <2>1. PICK k \in Keys, deleted \in BOOLEAN :
           Delete(k, deleted) /\ Quiet /\ UNCHANGED <<pending, since>>
    BY <1>6 DEF DeleteCall
  <2>2. Sweep({k}) \/ \E ok \in BOOLEAN : DelInRedis({k}, ok)
    BY <2>1 DEF Delete
  <2> QED BY <1>a, <1>b, <2>1, <2>2, DelType DEF TypeOK
<1>7. CASE ExpireCall
  <2>1. PICK k \in Keys, ok \in BOOLEAN : Expire(k, ok) /\ Quiet /\ UNCHANGED <<pending, since>>
    BY <1>7 DEF ExpireCall
  <2>2. CacheTypeOK'
    BY <1>a, <2>1 DEF Expire, CacheTypeOK
  <2> QED BY <1>b, <2>1, <2>2 DEF TypeOK
<1>8. ASSUME NEW c \in Clients, InvalidateScan(c) PROVE TypeOK'
  <2>1. PICK op \in {"clear", "invalidatePattern"}, t \in Targets, listed \in SUBSET Keys,
             ok \in BOOLEAN :
          /\ Scan(t.globbed, listed, ok)
          /\ pending' = [pending EXCEPT ![c] =
                [op |-> op, kind |-> IF listed # {} THEN "drop" ELSE Outcome(op, ok, listed),
                 target |-> t.globbed, listed |-> listed]]
    BY <1>8 DEF InvalidateScan
  <2>2. t.globbed \in SUBSET Keys
    BY TargetsAssumption
  <2>3. pending' \in [Clients -> Call]
    BY <2>1, <2>2 DEF TypeOK, Call, Kinds, Outcome
  <2>4. UNCHANGED cacheVars
    BY <2>1 DEF Scan
  <2>5. since' = [since EXCEPT ![c] = {}] /\ Quiet
    BY <1>8 DEF InvalidateScan
  <2> QED BY <1>b, <2>3, <2>4, <2>5 DEF TypeOK, CacheTypeOK, cacheVars
<1>9. ASSUME NEW c \in Clients, InvalidateDel(c) PROVE TypeOK'
  <2>1. PICK ok \in BOOLEAN :
          /\ DelInRedis(pending[c].listed, ok)
          /\ pending' = [pending EXCEPT ![c].kind =
                Outcome(pending[c].op, ok, pending[c].listed)]
    BY <1>9 DEF InvalidateDel
  <2>2. pending[c].listed \in SUBSET Keys
    BY DEF TypeOK, Call
  <2>3. pending' \in [Clients -> Call]
    BY <2>1 DEF TypeOK, Call, Kinds, Outcome
  <2>4. Quiet /\ UNCHANGED since
    BY <1>9 DEF InvalidateDel
  <2> QED BY <1>a, <1>b, <2>1, <2>2, <2>3, <2>4, DelType DEF TypeOK
<1>10. CASE InvalidateSweep
  <2>1. PICK t \in Targets : Sweep(t.swept) /\ Quiet /\ UNCHANGED <<pending, since>>
    BY <1>10 DEF InvalidateSweep
  <2>2. t.swept \in SUBSET Keys
    BY TargetsAssumption
  <2> QED BY <1>a, <1>b, <2>1, <2>2, DelType DEF TypeOK
<1>11. ASSUME NEW c \in Clients, GetOrSetMiss(c) PROVE TypeOK'
  <2>1. PICK k \in Keys :
          /\ Get(k, Null)
          /\ pending' = [pending EXCEPT ![c] =
                [op |-> "getOrSet", kind |-> "fill", target |-> {k}, listed |-> {}]]
    BY <1>11 DEF GetOrSetMiss
  <2>2. pending' \in [Clients -> Call]
    BY <2>1 DEF TypeOK, Call, Kinds, Outcome
  <2>3. Quiet /\ UNCHANGED since
    BY <1>11 DEF GetOrSetMiss
  <2> QED BY <1>a, <1>b, <2>1, <2>2, <2>3, GetType DEF TypeOK
<1>12. ASSUME NEW c \in Clients, GetOrSetFill(c) PROVE TypeOK'
  <2>1. PICK k \in pending[c].target, v \in Values, ok \in BOOLEAN :
          /\ Set(k, v, ok)
          /\ Stored({k})
          /\ pending' = [pending EXCEPT ![c] =
                [op |-> "getOrSet", kind |-> IF ok THEN "done" ELSE "failed",
                 target |-> {}, listed |-> {}]]
    BY <1>12 DEF GetOrSetFill
  <2>2. k \in Keys
    BY DEF TypeOK, Call
  <2>3. pending' \in [Clients -> Call]
    BY <2>1 DEF TypeOK, Call, Kinds, Outcome
  <2>4. Quiet
    BY <1>12 DEF GetOrSetFill
  <2> QED BY <1>a, <1>b, <2>1, <2>2, <2>3, <2>4, SetType, StoredType DEF TypeOK
<1>13. CASE Events
  BY <1>a, <1>b, <1>13, EventsType DEF Events, TypeOK
<1>14. CASE Restart
  <2>1. CacheTypeOK'
    BY <1>a, <1>14, EventsType DEF Restart
  <2> QED BY <1>b, <1>14, <2>1 DEF Restart, TypeOK, Call, NoCall, Kinds
<1>15. CASE UNCHANGED vars
  BY <1>15 DEF vars, cacheVars, TypeOK, CacheTypeOK
<1> QED
  BY <1>1, <1>2, <1>3, <1>4, <1>5, <1>6, <1>7, <1>8, <1>9, <1>10, <1>11, <1>12, <1>13, <1>14,
     <1>15 DEF Next

\* The types, for any constants.
THEOREM TypeCorrect == Spec => []TypeOK
  BY TypeInit, TypeStep, PTL DEF Spec

-----------------------------------------------------------------------------
(* Invalidation. *)

\* Between KEYS and DEL, what is not in the list and still there has been
\* stored since: with that, InvalidatedIsGone is inductive.
Gone(c) ==
    /\ pending[c].kind = "drop" => \A k \in pending[c].target :
          redis[k] = Null \/ k \in since[c] \/ k \in pending[c].listed
    /\ pending[c].kind = "done" => \A k \in pending[c].target :
          redis[k] = Null \/ k \in since[c]

GoneInv == \A c \in Clients : Gone(c)

\* A step after which Redis holds only what it held or what was stored, and
\* which leaves the calls alone.
LEMMA GoneFrame ==
    ASSUME TypeOK, GoneInv, NEW K \in SUBSET Keys, NEW D \in SUBSET Clients,
           \A k \in Keys \ K : redis'[k] \in {Null, redis[k]},
           \A c \in Clients \ D : /\ since[c] \cup K \subseteq since'[c]
                                 /\ pending'[c] = pending[c]
    PROVE  \A c \in Clients \ D : Gone(c)'
<1> SUFFICES ASSUME NEW c \in Clients \ D, NEW k \in pending[c].target
             PROVE  /\ pending[c].kind = "drop" =>
                          redis'[k] = Null \/ k \in since'[c] \/ k \in pending[c].listed
                    /\ pending[c].kind = "done" => redis'[k] = Null \/ k \in since'[c]
  BY DEF Gone
<1>1. k \in Keys
  BY DEF TypeOK, Call
<1>2. CASE k \in K
  BY <1>2
<1>3. CASE k \notin K
  <2>1. redis'[k] \in {Null, redis[k]} /\ since[c] \subseteq since'[c]
    BY <1>1, <1>3
  <2> QED BY <2>1 DEF GoneInv, Gone
<1> QED BY <1>2, <1>3

\* The operations that do not store leave in Redis at most what was there.
LEMMA RedisShrinks ==
    ASSUME CacheTypeOK,
           \/ \E k \in Keys : \E v : Get(k, v)
           \/ \E K, ok : DelInRedis(K, ok) \/ Sweep(K)
           \/ \E k \in Keys : \E ok : Expire(k, ok)
           \/ Connect \/ ConnectionError \/ CleanupFallbackCache \/ CacheRestart
           \/ \E k \in Keys : LapseInRedis(k) \/ LapseInFallback(k)
           \/ UNCHANGED cacheVars
    PROVE  \A k \in Keys : redis'[k] \in {Null, redis[k]}
  BY DEF CacheTypeOK, Get, RedisOnly, FallbackOnly, DelInRedis, Sweep, Expire, Connect,
         ConnectionError, CleanupFallbackCache, CacheRestart, LapseInRedis, LapseInFallback,
         Without, cacheVars

\* A store puts a key into Redis only when it is noted.
LEMMA StoreNoted ==
    ASSUME TypeOK, NEW K \in SUBSET Keys, Stored(K),
           \/ \E k \in Keys : \E v, ok : K = {k} /\ Set(k, v, ok)
           \/ \E v : Mset(K, v)
    PROVE  \E L \in SUBSET Keys :
              /\ \A k \in Keys \ L : redis'[k] \in {Null, redis[k]}
              /\ \A c \in Clients : since[c] \cup L \subseteq since'[c]
<1>1. CASE isRedisAvailable
  <2>1. \A k \in Keys \ K : redis'[k] = redis[k]
    BY <1>1 DEF Set, Mset, RedisOnly, FallbackOnly, TypeOK, CacheTypeOK
  <2>2. \A c \in Clients : since[c] \cup K \subseteq since'[c]
    BY <1>1 DEF Stored, TypeOK
  <2> QED BY <2>1, <2>2
<1>2. CASE ~isRedisAvailable
  <2>1. redis' = redis
    BY <1>2 DEF Set, Mset, RedisOnly, FallbackOnly
  <2>2. \A c \in Clients : since[c] \cup {} \subseteq since'[c]
    BY <1>2 DEF Stored, TypeOK
  <2> QED BY <2>1, <2>2
<1> QED BY <1>1, <1>2

\* A step that stores nothing, of no client or of client c alone.
LEMMA GoneQuiet ==
    ASSUME TypeOK, GoneInv, NEW D \in SUBSET Clients,
           \A k \in Keys : redis'[k] \in {Null, redis[k]},
           \A c \in Clients \ D : since'[c] = since[c] /\ pending'[c] = pending[c]
    PROVE  \A c \in Clients \ D : Gone(c)'
<1>1. {} \in SUBSET Keys
  OBVIOUS
<1>2. \A k \in Keys \ {} : redis'[k] \in {Null, redis[k]}
  OBVIOUS
<1>3. \A c \in Clients \ D : /\ since[c] \cup {} \subseteq since'[c]
                            /\ pending'[c] = pending[c]
  OBVIOUS
<1> QED BY <1>1, <1>2, <1>3, GoneFrame

\* At the start no call has been made.
LEMMA GoneInit == Init => GoneInv
  BY DEF Init, GoneInv, Gone, NoCall

\* Every action keeps GoneInv: a store is noted, and the rest removes.
LEMMA GoneStep == TypeOK /\ GoneInv /\ [Next]_vars => GoneInv'
<1> SUFFICES ASSUME TypeOK, GoneInv, [Next]_vars PROVE \A c \in Clients : Gone(c)'
  BY DEF GoneInv
<1>a. CacheTypeOK
  BY DEF TypeOK
<1>1. CASE SetCall \/ MsetCall
  <2>1. PICK K \in SUBSET Keys :
          /\ Stored(K)
          /\ \/ \E k \in Keys : \E v, ok : K = {k} /\ Set(k, v, ok)
             \/ \E v : Mset(K, v)
    BY <1>1 DEF SetCall, MsetCall
  <2>2. PICK L \in SUBSET Keys :
          /\ \A k \in Keys \ L : redis'[k] \in {Null, redis[k]}
          /\ \A c \in Clients : since[c] \cup L \subseteq since'[c]
    BY <2>1, StoreNoted
  <2>3. UNCHANGED pending
    BY <1>1 DEF SetCall, MsetCall
  <2>4. {} \in SUBSET Clients
    OBVIOUS
  <2>5. \A c \in Clients \ {} : since[c] \cup L \subseteq since'[c] /\ pending'[c] = pending[c]
    BY <2>2, <2>3
  <2>6. \A c \in Clients \ {} : Gone(c)'
    BY <2>2, <2>4, <2>5, GoneFrame
  <2> QED BY <2>6
<1>2. CASE GetCall \/ MgetCall \/ HasCall \/ DeleteCall \/ ExpireCall \/ InvalidateSweep \/ Events
           \/ UNCHANGED vars
  <2>1. \A k \in Keys : redis'[k] \in {Null, redis[k]}
    <3>1. CASE GetCall \/ HasCall
      BY <1>a, <3>1, RedisShrinks DEF GetCall, HasCall, Has
    <3>2. CASE DeleteCall \/ ExpireCall \/ InvalidateSweep
      BY <1>a, <3>2, RedisShrinks DEF DeleteCall, Delete, ExpireCall, InvalidateSweep
    <3>3. CASE MgetCall \/ UNCHANGED vars
      BY <1>a, <3>3, RedisShrinks DEF MgetCall, Mget, vars
    <3>4. CASE Events
      BY <1>a, <3>4, RedisShrinks DEF Events
    <3> QED BY <1>2, <3>1, <3>2, <3>3, <3>4
  <2>2. UNCHANGED <<pending, since>>
    BY <1>2 DEF GetCall, MgetCall, HasCall, DeleteCall, ExpireCall, InvalidateSweep, Events, vars
  <2>3. {} \in SUBSET Clients
    OBVIOUS
  <2>4. \A c \in Clients \ {} : Gone(c)'
    BY <2>1, <2>2, <2>3, GoneQuiet
  <2> QED BY <2>4
<1>3. ASSUME NEW c \in Clients, InvalidateScan(c) PROVE \A d \in Clients : Gone(d)'
  <2>1. PICK op \in {"clear", "invalidatePattern"}, t \in Targets, listed \in SUBSET Keys,
             ok \in BOOLEAN :
          /\ Scan(t.globbed, listed, ok)
          /\ pending' = [pending EXCEPT ![c] =
                [op |-> op, kind |-> IF listed # {} THEN "drop" ELSE Outcome(op, ok, listed),
                 target |-> t.globbed, listed |-> listed]]
    BY <1>3 DEF InvalidateScan
  <2>2. redis' = redis
    BY <2>1 DEF Scan, cacheVars
  <2>3. since' = [since EXCEPT ![c] = {}]
    BY <1>3 DEF InvalidateScan
  <2>4. \A d \in Clients \ {c} : Gone(d)'
    BY <2>1, <2>2, <2>3, GoneQuiet DEF TypeOK
  <2>5. pending'[c] = [op |-> op, kind |-> IF listed # {} THEN "drop" ELSE Outcome(op, ok, listed),
                       target |-> t.globbed, listed |-> listed]
    BY <2>1 DEF TypeOK
  <2>6. ok => listed = t.globbed \cap Held(redis)
    BY <2>1 DEF Scan
  <2>7. t.globbed \in SUBSET Keys
    BY TargetsAssumption
  <2>8. ok => \A k \in t.globbed : redis[k] = Null \/ k \in listed
    BY <2>6, <2>7 DEF Held
  <2>9. pending'[c].kind \in {"drop", "done"} => ok
    <3>1. ~ok => listed = {}
      BY <2>1 DEF Scan
    <3> QED BY <2>5, <3>1 DEF Outcome
  <2>10. Gone(c)'
    <3>1. pending'[c].kind = "done" => listed = {}
      BY <2>5 DEF Outcome
    <3>2. pending'[c].target = t.globbed /\ pending'[c].listed = listed
      BY <2>5
    <3> QED BY <2>2, <2>8, <2>9, <3>1, <3>2 DEF Gone
  <2> QED BY <2>4, <2>10
<1>4. ASSUME NEW c \in Clients, InvalidateDel(c) PROVE \A d \in Clients : Gone(d)'
  <2>1. PICK ok \in BOOLEAN :
          /\ DelInRedis(pending[c].listed, ok)
          /\ pending' = [pending EXCEPT ![c].kind =
                Outcome(pending[c].op, ok, pending[c].listed)]
    BY <1>4 DEF InvalidateDel
  <2>2. UNCHANGED since /\ pending[c].kind = "drop"
    BY <1>4 DEF InvalidateDel
  <2>3. \A k \in Keys : redis'[k] \in {Null, redis[k]}
    BY <1>a, <2>1, RedisShrinks
  <2>4. \A d \in Clients \ {c} : Gone(d)'
    BY <2>1, <2>2, <2>3, GoneQuiet DEF TypeOK
  <2>5. /\ pending'[c].kind = Outcome(pending[c].op, ok, pending[c].listed)
        /\ pending'[c].target = pending[c].target
    BY <2>1 DEF TypeOK
  <2>6. ok => \A k \in pending[c].listed : redis'[k] = Null
    <3>1. pending[c].listed \subseteq Keys
      BY DEF TypeOK, Call
    <3> QED BY <2>1, <3>1 DEF DelInRedis, Ends, Without
  <2>7. pending[c].target \subseteq Keys
    BY DEF TypeOK, Call
  <2>8. Gone(c)
    BY DEF GoneInv
  <2>9. ok => \A k \in pending[c].target : redis'[k] = Null \/ k \in since'[c]
    BY <2>2, <2>3, <2>6, <2>7, <2>8 DEF Gone
  <2>10. Gone(c)'
    BY <2>5, <2>9 DEF Gone, Outcome
  <2> QED BY <2>4, <2>10
<1>5. ASSUME NEW c \in Clients, GetOrSetMiss(c) PROVE \A d \in Clients : Gone(d)'
  <2>1. PICK k \in Keys :
          /\ Get(k, Null)
          /\ pending' = [pending EXCEPT ![c] =
                [op |-> "getOrSet", kind |-> "fill", target |-> {k}, listed |-> {}]]
    BY <1>5 DEF GetOrSetMiss
  <2>2. UNCHANGED since
    BY <1>5 DEF GetOrSetMiss
  <2>3. \A x \in Keys : redis'[x] \in {Null, redis[x]}
    BY <1>a, <2>1, RedisShrinks
  <2>4. \A d \in Clients \ {c} : Gone(d)'
    BY <2>1, <2>2, <2>3, GoneQuiet DEF TypeOK
  <2>5. pending'[c].kind = "fill"
    BY <2>1 DEF TypeOK
  <2> QED BY <2>4, <2>5 DEF Gone
<1>6. ASSUME NEW c \in Clients, GetOrSetFill(c) PROVE \A d \in Clients : Gone(d)'
  <2>1. PICK k \in pending[c].target, v \in Values, ok \in BOOLEAN :
          /\ Set(k, v, ok)
          /\ Stored({k})
          /\ pending' = [pending EXCEPT ![c] =
                [op |-> "getOrSet", kind |-> IF ok THEN "done" ELSE "failed",
                 target |-> {}, listed |-> {}]]
    BY <1>6 DEF GetOrSetFill
  <2>2. k \in Keys
    BY DEF TypeOK, Call
  <2>3. PICK L \in SUBSET Keys :
          /\ \A x \in Keys \ L : redis'[x] \in {Null, redis[x]}
          /\ \A d \in Clients : since[d] \cup L \subseteq since'[d]
    BY <2>1, <2>2, StoreNoted
  <2>4. \A d \in Clients \ {c} : since[d] \cup L \subseteq since'[d] /\ pending'[d] = pending[d]
    BY <2>1, <2>3 DEF TypeOK
  <2>5. \A d \in Clients \ {c} : Gone(d)'
    <3>1. {c} \in SUBSET Clients /\ TypeOK /\ GoneInv
      OBVIOUS
    <3>2. \A x \in Keys \ L : redis'[x] \in {Null, redis[x]}
      BY <2>3
    <3> QED BY ONLY <2>4, <3>1, <3>2, L \in SUBSET Keys, GoneFrame
  <2>6. pending'[c].kind # "drop" /\ pending'[c].target = {}
    BY <2>1 DEF TypeOK
  <2> QED BY <2>5, <2>6 DEF Gone
<1>7. CASE Restart
  BY <1>7 DEF Restart, Gone, NoCall
<1> QED BY <1>1, <1>2, <1>3, <1>4, <1>5, <1>6, <1>7 DEF Next

\* A clear that has returned without an error, and an invalidatePattern that has
\* returned a count above 0, has removed what it was asked to remove, for any keys,
\* callers and targets.
THEOREM InvalidationHolds == Spec => []InvalidatedIsGone
<1>1. GoneInv => InvalidatedIsGone
  BY DEF GoneInv, Gone, InvalidatedIsGone
<1>2. Init => TypeOK /\ GoneInv
  BY TypeInit, GoneInit
<1>3. TypeOK /\ GoneInv /\ [Next]_vars => (TypeOK /\ GoneInv)'
  BY TypeStep, GoneStep
<1> QED BY <1>1, <1>2, <1>3, PTL DEF Spec

-----------------------------------------------------------------------------
(* The two tiers implement LossyCache. *)

InUse == IF isRedisAvailable THEN redis ELSE fallback

Other == IF isRedisAvailable THEN fallback ELSE redis

\* What a step of LossyCache is, in the terms of the two tiers.
PutStep ==
    \E v \in Values :
        /\ \A k \in Keys : InUse'[k] \in {InUse[k], v}
        /\ Other' = Other
        /\ reply' = NoReply

ForgetStep ==
    /\ \A k \in Keys : InUse'[k] \in {Null, InUse[k]} /\ Other'[k] \in {Null, Other[k]}
    /\ reply' = NoReply

AnswerStep ==
    /\ \A k \in Keys : InUse'[k] \in {Null, InUse[k]}
    /\ \A k \in DOMAIN reply' : reply'[k] \in {Null, InUse[k]}
    /\ Other' = Other

FailoverStep ==
    /\ \A k \in Keys : Other'[k] \in {Null, InUse[k]} /\ InUse'[k] \in {Null, Other[k]}
    /\ reply' = NoReply

\* A step of the contract, in terms of the tier in use.
LEMMA ContractNext ==
    Contract!Next <=> PutStep \/ ForgetStep \/ AnswerStep \/ FailoverStep
  BY DEF Contract!Next, Contract!Put, Contract!Forget, Contract!Answer, Contract!Failover,
         Contract!Forgets, Contract!NoReply, PutStep, ForgetStep, AnswerStep, FailoverStep,
         InUse, Other, NoReply

\* set and mset put into the tier in use.
LEMMA SetPuts ==
    ASSUME CacheTypeOK, NEW k \in Keys, NEW v \in Values, NEW ok, Set(k, v, ok), Quiet
    PROVE  PutStep
<1>1. CASE RedisOnly
  BY <1>1 DEF CacheTypeOK, Set, RedisOnly, FallbackOnly, PutStep, InUse, Other, Quiet
<1>2. CASE FallbackOnly
  BY <1>2 DEF CacheTypeOK, Set, RedisOnly, FallbackOnly, PutStep, InUse, Other, Quiet
<1> QED BY <1>1, <1>2 DEF Set

\* mset is a Put, under some of its keys.
LEMMA MsetPuts ==
    ASSUME CacheTypeOK, NEW K \in SUBSET Keys, NEW v \in Values, Mset(K, v), Quiet
    PROVE  PutStep
<1>1. CASE RedisOnly
  BY <1>1 DEF CacheTypeOK, Mset, RedisOnly, FallbackOnly, PutStep, InUse, Other, Quiet
<1>2. CASE FallbackOnly
  BY <1>2 DEF CacheTypeOK, Mset, RedisOnly, FallbackOnly, PutStep, InUse, Other, Quiet
<1> QED BY <1>1, <1>2 DEF Mset

\* get forgets at most, and leaves the tier that is not in use as it is.
LEMMA GetForgets ==
    ASSUME CacheTypeOK, NEW k \in Keys, NEW v, Get(k, v)
    PROVE  /\ \A x \in Keys : InUse'[x] \in {Null, InUse[x]}
           /\ Other' = Other
<1>1. CASE RedisOnly
  BY <1>1 DEF CacheTypeOK, Get, RedisOnly, FallbackOnly, InUse, Other
<1>2. CASE FallbackOnly
  BY <1>2 DEF CacheTypeOK, Get, RedisOnly, FallbackOnly, InUse, Other, Without
<1> QED BY <1>1, <1>2 DEF Get

\* Deletions forget, in either tier: the DEL of an invalidation may come after
\* a failover, when Redis is no longer the tier in use.
LEMMA DelForgets ==
    ASSUME CacheTypeOK, NEW K, NEW ok, DelInRedis(K, ok) \/ Sweep(K), Quiet
    PROVE  ForgetStep
<1>1. CASE DelInRedis(K, ok)
  BY <1>1 DEF CacheTypeOK, DelInRedis, ForgetStep, InUse, Other, Quiet, Without
<1>2. CASE Sweep(K)
  BY <1>2 DEF CacheTypeOK, Sweep, FallbackOnly, ForgetStep, InUse, Other, Quiet, Without
<1> QED BY <1>1, <1>2

\* An event lets a tier forget, or exchanges the tiers.
LEMMA EventsForget ==
    ASSUME CacheTypeOK, Quiet,
           \/ Connect \/ ConnectionError \/ CleanupFallbackCache
           \/ \E k \in Keys : LapseInRedis(k) \/ LapseInFallback(k)
           \/ CacheRestart
    PROVE  ForgetStep \/ FailoverStep
<1>1. CASE Connect \/ ConnectionError
  BY <1>1 DEF Connect, ConnectionError, FailoverStep, InUse, Other, Quiet
<1>2. CASE CleanupFallbackCache
  BY <1>2 DEF CacheTypeOK, CleanupFallbackCache, ForgetStep, InUse, Other, Quiet, Without
<1>3. CASE \E k \in Keys : LapseInRedis(k) \/ LapseInFallback(k)
  BY <1>3 DEF CacheTypeOK, LapseInRedis, LapseInFallback, ForgetStep, InUse, Other, Quiet, Without
<1>4. CASE CacheRestart
  BY <1>4, SwitchAssumption
     DEF CacheTypeOK, CacheRestart, EmptyTier, ForgetStep, FailoverStep, InUse, Other, Quiet
<1> QED BY <1>1, <1>2, <1>3, <1>4

\* A step that leaves the tiers alone forgets nothing.
LEMMA StillForgets ==
    ASSUME CacheTypeOK, Quiet, UNCHANGED <<redis, fallback, isRedisAvailable>>
    PROVE  ForgetStep
  BY DEF ForgetStep, InUse, Other, Quiet

\* The initial states of the cache are those of the contract.
LEMMA ContractInit == Init => Contract!Init
  BY DEF Init, CacheInit, EmptyTier, NoReply, Contract!Init, Contract!NoReply

\* Every step of the cache is a step of the contract, or a stutter.
LEMMA ContractStep == TypeOK /\ [Next]_vars => [Contract!Next]_(Contract!vars)
<1> SUFFICES ASSUME TypeOK, [Next]_vars
             PROVE  \/ PutStep \/ ForgetStep \/ AnswerStep \/ FailoverStep
                    \/ UNCHANGED <<InUse, Other, reply>>
  BY ContractNext DEF Contract!vars, InUse, Other
<1>a. CacheTypeOK
  BY DEF TypeOK
<1>1. CASE SetCall
  BY <1>a, <1>1, SetPuts DEF SetCall
<1>2. CASE MsetCall
  BY <1>a, <1>2, MsetPuts DEF MsetCall
<1>3. CASE GetCall
  <2>1. PICK k \in Keys : \E v \in {Null, redis[k], fallback[k]} :
           Get(k, v) /\ reply' = [x \in {k} |-> v] /\ UNCHANGED <<pending, since>>
    BY <1>3 DEF GetCall
  <2>2. PICK v \in {Null, redis[k], fallback[k]} : Get(k, v) /\ reply' = [x \in {k} |-> v]
    BY <2>1
  <2>3. v \in {Null, InUse[k]}
    BY <1>a, <2>2, GetReply DEF InUse
  <2>4. \A x \in DOMAIN reply' : reply'[x] \in {Null, InUse[x]}
    BY <2>2, <2>3
  <2>5. (\A x \in Keys : InUse'[x] \in {Null, InUse[x]}) /\ Other' = Other
    BY <1>a, <2>2, GetForgets
  <2> QED BY <2>4, <2>5 DEF AnswerStep
<1>4. CASE MgetCall
  <2>1. PICK K \in SUBSET Keys, tier \in {redis, fallback, EmptyTier, Without(fallback, lapsed)} :
           /\ Mget(K, [k \in K |-> tier[k]])
           /\ reply' = [k \in K |-> tier[k]]
    BY <1>4 DEF MgetCall
  <2>2. UNCHANGED <<redis, fallback, isRedisAvailable>>
    BY <2>1 DEF Mget, cacheVars
  <2>3. \/ isRedisAvailable /\ reply' = [k \in K |-> redis[k]]
        \/ isRedisAvailable /\ reply' = [k \in K |-> Null]
        \/ ~isRedisAvailable /\ reply' = [k \in K |-> IF k \in lapsed THEN Null ELSE fallback[k]]
    BY <2>1 DEF Mget
  <2>4. \A k \in DOMAIN reply' : reply'[k] \in {Null, InUse[k]}
    BY <2>3 DEF InUse
  <2>5. InUse' = InUse /\ Other' = Other
    BY <2>2 DEF InUse, Other
  <2> QED BY <2>4, <2>5 DEF AnswerStep
<1>5. CASE HasCall
  <2>1. PICK k \in Keys : (\E v : Get(k, v)) /\ Quiet
    BY <1>5 DEF HasCall, Has
  <2>2. reply' = NoReply
    BY <2>1 DEF Quiet
  <2> QED BY <1>a, <2>1, <2>2, GetForgets DEF ForgetStep
<1>6. CASE DeleteCall \/ InvalidateSweep
  BY <1>a, <1>6, DelForgets DEF DeleteCall, Delete, InvalidateSweep
<1>7. CASE ExpireCall
  BY <1>a, <1>7, StillForgets DEF ExpireCall, Expire
<1>8. ASSUME NEW c \in Clients, InvalidateScan(c) PROVE ForgetStep
  BY <1>a, <1>8, StillForgets DEF InvalidateScan, Scan, cacheVars
<1>9. ASSUME NEW c \in Clients, InvalidateDel(c) PROVE ForgetStep
  BY <1>a, <1>9, DelForgets DEF InvalidateDel
<1>10. ASSUME NEW c \in Clients, GetOrSetMiss(c) PROVE ForgetStep
  <2>1. PICK k \in Keys : Get(k, Null)
    BY <1>10 DEF GetOrSetMiss
  <2>2. reply' = NoReply
    BY <1>10 DEF GetOrSetMiss, Quiet
  <2> QED BY <1>a, <2>1, <2>2, GetForgets DEF ForgetStep
<1>11. ASSUME NEW c \in Clients, GetOrSetFill(c) PROVE PutStep
  <2>1. pending[c].target \subseteq Keys
    BY DEF TypeOK, Call
  <2> QED BY <1>a, <1>11, <2>1, SetPuts DEF GetOrSetFill
<1>12. CASE Events
  BY <1>a, <1>12, EventsForget DEF Events
<1>13. CASE Restart
  BY <1>a, <1>13, EventsForget DEF Restart
<1>14. CASE UNCHANGED vars
  BY <1>14 DEF vars, cacheVars, InUse, Other
<1> QED
  BY <1>1, <1>2, <1>3, <1>4, <1>5, <1>6, <1>7, <1>8, <1>9, <1>10, <1>11, <1>12, <1>13, <1>14
     DEF Next

\* Whatever Redis does, a caller of the cache sees the contract of LossyCache.
THEOREM Implements == Spec => ContractHolds
<1>1. Init => Contract!Init
  BY ContractInit
<1>2. TypeOK /\ [Next]_vars => [Contract!Next]_(Contract!vars)
  BY ContractStep
<1> QED BY <1>1, <1>2, TypeCorrect, PTL DEF Spec, ContractHolds, Contract!Spec

=============================================================================
