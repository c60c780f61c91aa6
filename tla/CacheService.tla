---------------------------- MODULE CacheService ----------------------------
(***************************************************************************)
(* The two-tier cache of src/common/services/cache.service.ts.  Every      *)
(* call reads isRedisAvailable once and works on one tier only: Redis when *)
(* the flag is up, the in-process Map (fallback) when it is down.  The     *)
(* tiers are never copied into one another.                                *)
(*                                                                         *)
(* An operation is an action with its reply as a parameter, to be used as  *)
(* a conjunct by the module that models the caller.  One await is one      *)
(* action: an operation that awaits Redis twice is two of them.            *)
(*                                                                         *)
(* Time: an entry is live until its expiresAt passes, which Lapse models   *)
(* at any moment.  Redis forgets a lapsed key by itself; the Map keeps it  *)
(* until a get, a has or the cleanup interval meets it.                    *)
(***************************************************************************)
EXTENDS Naturals, FiniteSets

CONSTANTS
    Keys,            \* full keys, as buildKey makes them
    Values,          \* what serializeValue round-trips
    Null,            \* the reply to a miss, and "no entry"
    MaxFallbackSize, \* MAX_FALLBACK_SIZE
    CommandsFail,    \* may a Redis command fail, or lose its reply?
    Flips,           \* may 'connect' and 'error' events arrive?
    StartsAvailable  \* the values isRedisAvailable may have after initializeRedis

ASSUME NullAssumption == Null \notin Values
ASSUME SizeAssumption == MaxFallbackSize \in Nat
ASSUME SwitchAssumption ==
    /\ CommandsFail \in BOOLEAN
    /\ Flips \in BOOLEAN
    /\ StartsAvailable \subseteq BOOLEAN
    /\ StartsAvailable # {}

VARIABLES
    redis,            \* the keys under taskflow: on the server
    fallback,         \* fallbackCache
    lapsed,           \* keys of fallback whose expiresAt is in the past
    isRedisAvailable

cacheVars == <<redis, fallback, lapsed, isRedisAvailable>>

CacheTypeOK ==
    /\ redis \in [Keys -> Values \cup {Null}]
    /\ fallback \in [Keys -> Values \cup {Null}]
    /\ lapsed \in SUBSET Keys
    /\ isRedisAvailable \in BOOLEAN

EmptyTier == [k \in Keys |-> Null]

CacheInit ==
    /\ redis = EmptyTier
    /\ fallback = EmptyTier
    /\ lapsed = {}
    /\ isRedisAvailable \in StartsAvailable

Held(tier) == {k \in Keys : tier[k] # Null}

Without(tier, K) == [k \in Keys |-> IF k \in K THEN Null ELSE tier[k]]

-----------------------------------------------------------------------------
(* A command sent to Redis is executed or not, and answered or not; only   *)
(* an executed one is answered.  With CommandsFail an executed command can *)
(* still reach the caller as an error (commandTimeout).                    *)

Ends(executed, answered) ==
    /\ answered => executed
    /\ ~CommandsFail => answered

RedisOnly == isRedisAvailable /\ UNCHANGED <<fallback, lapsed, isRedisAvailable>>

FallbackOnly == ~isRedisAvailable /\ UNCHANGED <<redis, isRedisAvailable>>

\* (mutant: the key goes to Redis without its prefix, and so under another name)
SetUnprefixed(k, v, ok) ==
    /\ ok
    /\ RedisOnly
    /\ redis' = [x \in Keys \cup {<<k>>} |-> IF x = <<k>> THEN v ELSE redis[x]]

\* set(k, v): ok is FALSE when it throws
Set(k, v, ok) ==
    \/ /\ RedisOnly
       /\ \E executed \in BOOLEAN :
             /\ Ends(executed, ok)
             /\ redis' = IF executed THEN [redis EXCEPT ![k] = v] ELSE redis
    \/ /\ FallbackOnly
       /\ ok
       /\ fallback' = [fallback EXCEPT ![k] = v]
       /\ lapsed' = lapsed \ {k}

\* mset of v under every key of K: a pipeline, whose exec() resolves even
\* when some of its commands failed, so that it never reports them
Mset(K, v) ==
    \/ /\ RedisOnly
       /\ \E S \in SUBSET K :
             /\ ~CommandsFail => S = K
             /\ redis' = [k \in Keys |-> IF k \in S THEN v ELSE redis[k]]
    \/ /\ FallbackOnly
       /\ fallback' = [k \in Keys |-> IF k \in K THEN v ELSE fallback[k]]
       /\ lapsed' = lapsed \ K

\* (mutant: what Redis does not hold is looked for in the Map)
GetAcrossTiers(k, v) ==
    \/ /\ RedisOnly
       /\ v = IF redis[k] = Null THEN fallback[k] ELSE redis[k]
       /\ UNCHANGED redis
    \/ /\ FallbackOnly
       /\ v = fallback[k]
       /\ UNCHANGED <<fallback, lapsed>>

\* get(k) returns v; any error is a miss
Get(k, v) ==
    \/ /\ RedisOnly
       /\ v = redis[k] \/ (CommandsFail /\ v = Null)
       /\ UNCHANGED redis
    \/ /\ FallbackOnly
       /\ v = IF k \in lapsed THEN Null ELSE fallback[k]
       /\ fallback' = IF k \in lapsed THEN Without(fallback, {k}) ELSE fallback
       /\ lapsed' = lapsed \ {k}

\* has(k) returns present: the same lookups as get
Has(k, present) ==
    \E v \in {Null, redis[k], fallback[k]} : Get(k, v) /\ present = (v # Null)

\* mget returns answer, a function of its keys; it leaves lapsed entries alone
Mget(K, answer) ==
    /\ UNCHANGED cacheVars
    /\ IF isRedisAvailable
       THEN \/ answer = [k \in K |-> redis[k]]
            \/ CommandsFail /\ answer = [k \in K |-> Null]
       ELSE answer = [k \in K |-> IF k \in lapsed THEN Null ELSE fallback[k]]

\* DEL of K.  clear and invalidatePattern send it after KEYS without reading
\* isRedisAvailable again
DelInRedis(K, ok) ==
    /\ \E executed \in BOOLEAN :
          /\ Ends(executed, ok)
          /\ redis' = IF executed THEN Without(redis, K) ELSE redis
    /\ UNCHANGED <<fallback, lapsed, isRedisAvailable>>

\* The loop over the Map that clear and invalidatePattern run instead: no await
Sweep(K) ==
    /\ FallbackOnly
    /\ fallback' = Without(fallback, K)
    /\ lapsed' = lapsed \ K

\* delete(k) returns deleted: FALSE also when the command failed
Delete(k, deleted) ==
    \/ /\ isRedisAvailable
       /\ \E ok \in BOOLEAN :
             /\ DelInRedis({k}, ok)
             /\ deleted = (ok /\ k \in Held(redis))
    \/ /\ Sweep({k})
       /\ deleted = (k \in Held(fallback))

\* expire(k, ttl) with ttl > 0: a lapsed entry of the Map is live again
Expire(k, ok) ==
    /\ UNCHANGED <<redis, fallback, isRedisAvailable>>
    /\ IF isRedisAvailable
       THEN /\ UNCHANGED lapsed
            /\ ok = (k \in Held(redis)) \/ (CommandsFail /\ ~ok)
       ELSE /\ lapsed' = lapsed \ {k}
            /\ ok = (k \in Held(fallback))

\* (mutant: an error of KEYS is taken for an empty list)
ScanForgiving(K, listed, ok) ==
    /\ isRedisAvailable
    /\ UNCHANGED cacheVars
    /\ ok
    /\ \/ listed = K \cap Held(redis)
       \/ CommandsFail /\ listed = {}

\* KEYS: the first of the two awaits of clear and invalidatePattern on Redis
Scan(K, listed, ok) ==
    /\ isRedisAvailable
    /\ UNCHANGED cacheVars
    /\ \/ ok /\ listed = K \cap Held(redis)
       \/ CommandsFail /\ ~ok /\ listed = {}

-----------------------------------------------------------------------------
(* What happens to the cache by itself. *)

\* The redis client's 'connect' and 'error' handlers, and the ping at start
Connect ==
    /\ Flips
    /\ ~isRedisAvailable
    /\ isRedisAvailable' = TRUE
    /\ UNCHANGED <<redis, fallback, lapsed>>

ConnectionError ==
    /\ Flips
    /\ isRedisAvailable
    /\ isRedisAvailable' = FALSE
    /\ UNCHANGED <<redis, fallback, lapsed>>

\* The time to live of an entry runs out
LapseInRedis(k) ==
    /\ k \in Held(redis)
    /\ redis' = Without(redis, {k})
    /\ UNCHANGED <<fallback, lapsed, isRedisAvailable>>

LapseInFallback(k) ==
    /\ k \in Held(fallback) \ lapsed
    /\ lapsed' = lapsed \cup {k}
    /\ UNCHANGED <<redis, fallback, isRedisAvailable>>

\* cleanupFallbackCache: lapsed entries go, then entries nearest to their
\* expiresAt (any of them, the order being left to Lapse) down to the limit
CleanupFallbackCache ==
    \E K \in SUBSET (Held(fallback) \ lapsed) :
        /\ LET kept == (Held(fallback) \ lapsed) \ K
               live == Held(fallback) \ lapsed
           IN IF Cardinality(live) > MaxFallbackSize
              THEN Cardinality(kept) = MaxFallbackSize
              ELSE K = {}
        /\ fallback' = Without(fallback, lapsed \cup K)
        /\ lapsed' = {}
        /\ UNCHANGED <<redis, isRedisAvailable>>

\* The process stops and starts again: the Map is gone, Redis is not
CacheRestart ==
    /\ fallback' = EmptyTier
    /\ lapsed' = {}
    /\ isRedisAvailable' \in StartsAvailable
    /\ UNCHANGED redis

=============================================================================
