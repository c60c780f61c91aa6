------------------------------ MODULE RateLimit ------------------------------
(***************************************************************************)
(* The limiter of src/common/services/rate-limit.service.ts behind the     *)
(* guard of src/common/guards/rate-limit.guard.ts, for one identifier      *)
(* (identifiers share nothing): a sliding window in Redis, a fixed window  *)
(* in the process while Redis is away.                                     *)
(*                                                                         *)
(* A call reads the clock, in milliseconds, and sends a script; Redis runs *)
(* it some time later, and runs the scripts of other processes in between, *)
(* in an order of its own.                                                 *)
(***************************************************************************)
EXTENDS Naturals, FiniteSets

CONSTANTS
    Reqs,
    Limit,       \* limit of the @RateLimit
    Window,      \* its windowMs
    Ttl,         \* math.ceil(window_ms / 1000), in milliseconds
    MaxDelay,    \* commandTimeout: a later answer is an error to the caller
    Null,
    CommandsFail, Flips, StartsAvailable, \* as in CacheService
    MaxNow       \* bound: the last moment

ASSUME LimitAssumption == Limit \in Nat \ {0}
ASSUME TimesAssumption ==
    /\ Window \in Nat \ {0}
    /\ Ttl \in Nat
    /\ MaxDelay \in Nat
    /\ MaxNow \in Nat
    /\ Window <= Ttl
ASSUME MarkerAssumption == Null \notin Nat
ASSUME LimiterSwitches ==
    /\ {CommandsFail, Flips} \subseteq BOOLEAN
    /\ StartsAvailable \subseteq BOOLEAN

VARIABLES
    now,
    redis,      \* the sorted set; a member is the time that is its score
    expiresAt,  \* when Redis drops the whole of it
    fallback,   \* fallbackStorage's entry; an expired one stands for none
    isRedisAvailable,
    sent,       \* per request: the clock it read, while its script is on the way
    admitted,   \* history: when requests were made that a script let pass, since
                \* the last clear
    served,     \* history: the requests the Map let pass, since the last clear or
                \* start, by time and place in their window
    refusal     \* history: the last refusal, while nothing was let pass after it

vars == <<now, redis, expiresAt, fallback, isRedisAvailable, sent,
          admitted, served, refusal>>

NoEntry == [count |-> 0, resetTime |-> 0]

Served == [at: Nat, count: Nat]

Refusal == [tier: {"redis", "fallback"}, at: Nat, resetTime: Nat]

TypeOK ==
    /\ now \in Nat
    /\ redis \in SUBSET Nat
    /\ IsFiniteSet(redis)
    /\ expiresAt \in Nat
    /\ fallback \in [count: Nat, resetTime: Nat]
    /\ isRedisAvailable \in BOOLEAN
    /\ sent \in [Reqs -> Nat \cup {Null}]
    /\ admitted \in SUBSET Nat
    /\ served \in SUBSET Served
    /\ refusal \in Refusal \cup {Null}

Init ==
    /\ now = 0
    /\ redis = {}
    /\ expiresAt = 0
    /\ fallback = NoEntry
    /\ isRedisAvailable \in StartsAvailable
    /\ sent = [r \in Reqs |-> Null]
    /\ admitted = {}
    /\ served = {}
    /\ refusal = Null

Idle(r) == sent[r] = Null

\* (mutant: the script looks for the oldest entry where there is none)
RefuseBlank(tier, at, resetTime) ==
    refusal' = [tier |-> tier, at |-> at, resetTime |-> Null]

Refuse(tier, at, resetTime) ==
    refusal' = [tier |-> tier, at |-> at, resetTime |-> resetTime]

-----------------------------------------------------------------------------
(* Redis. *)

\* checkRateLimit with Redis available: the clock is read, the script is sent
Send(r) ==
    /\ isRedisAvailable
    /\ Idle(r)
    /\ sent' = [sent EXCEPT ![r] = now]
    /\ UNCHANGED <<now, redis, expiresAt, fallback, isRedisAvailable,
                   admitted, served, refusal>>

\* (mutant: ZREMRANGEBYSCORE leaves out the boundary)
InWindowLong(at) == {s \in redis : now < expiresAt /\ s + Window >= at}

\* What is left of the sorted set after ZREMRANGEBYSCORE key 0 window_start
InWindow(at) == {s \in redis : now < expiresAt /\ s + Window > at}

Oldest(S) == CHOOSE s \in S : \A t \in S : s <= t

\* (mutant: the expiry is set with the first member only)
ExpiryOnce == IF now < expiresAt THEN expiresAt ELSE now + Ttl

\* EXPIRE key
Expiry == now + Ttl

\* The script runs.  Its answer is lost when the command fails or is late: the
\* guard then lets the request pass
RunScript(r) ==
    LET at == sent[r]
        kept == InWindow(at)
    IN
    /\ ~Idle(r)
    /\ sent' = [sent EXCEPT ![r] = Null]
    /\ \E answered \in BOOLEAN :
          /\ answered => now <= at + MaxDelay
          /\ ~answered => CommandsFail \/ now > at + MaxDelay
          /\ \/ /\ Cardinality(kept) >= Limit
                /\ redis' = kept
                /\ IF answered THEN Refuse("redis", at, Oldest(kept) + Window)
                               ELSE UNCHANGED refusal
                /\ UNCHANGED <<expiresAt, admitted>>
             \/ /\ Cardinality(kept) < Limit
                \* ZADD key now now
                /\ redis' = kept \cup {at}
                /\ expiresAt' = Expiry
                /\ admitted' = IF answered THEN admitted \cup {at}
                                           ELSE admitted
                /\ refusal' = Null
    /\ UNCHANGED <<now, fallback, isRedisAvailable, served>>

\* The command never reaches Redis
Lose(r) ==
    /\ CommandsFail
    /\ ~Idle(r)
    /\ sent' = [sent EXCEPT ![r] = Null]
    /\ UNCHANGED <<now, redis, expiresAt, fallback, isRedisAvailable,
                   admitted, served, refusal>>

-----------------------------------------------------------------------------
(* The Map: checkFallbackRateLimit awaits nothing. *)

\* (mutant: the request that opens a window is not counted)
NewWindowUncounted == [count |-> 0, resetTime |-> now + Window]

NewWindow == [count |-> 1, resetTime |-> now + Window]

Expired == fallback.resetTime <= now

CheckFallback(r) ==
    /\ ~isRedisAvailable
    /\ Idle(r)
    /\ \/ /\ \/ Expired /\ fallback' = NewWindow
             \/ ~Expired /\ fallback.count < Limit /\ fallback' = [fallback EXCEPT !.count = @ + 1]
          /\ served' = served \cup {[at |-> now, count |-> fallback'.count]}
          /\ refusal' = Null
       \/ /\ ~Expired
          /\ fallback.count >= Limit
          /\ Refuse("fallback", now, fallback.resetTime)
          /\ UNCHANGED <<fallback, served>>
    /\ UNCHANGED <<now, redis, expiresAt, isRedisAvailable, sent, admitted>>

\* cleanupFallbackStorage
CleanupFallbackStorage ==
    /\ Expired
    /\ fallback # NoEntry
    /\ fallback' = NoEntry
    /\ UNCHANGED <<now, redis, expiresAt, isRedisAvailable, sent,
                   admitted, served, refusal>>

-----------------------------------------------------------------------------
\* clearRateLimit
ClearRateLimit ==
    /\ \/ /\ isRedisAvailable
          /\ redis' = {}
          /\ admitted' = {}
          /\ UNCHANGED <<fallback, served>>
       \/ /\ ~isRedisAvailable
          /\ fallback' = NoEntry
          /\ served' = {}
          /\ UNCHANGED <<redis, admitted>>
    /\ refusal' = Null
    /\ UNCHANGED <<now, expiresAt, isRedisAvailable, sent>>

\* 'connect', 'error'
Flip ==
    /\ Flips
    /\ isRedisAvailable' = ~isRedisAvailable
    /\ UNCHANGED <<now, redis, expiresAt, fallback, sent, admitted, served, refusal>>

\* The process stops and starts again: its Map is empty
Restart ==
    /\ Flips
    /\ fallback' = NoEntry
    /\ served' = {}
    /\ isRedisAvailable' \in StartsAvailable
    /\ sent' = [r \in Reqs |-> Null]
    /\ refusal' = Null
    /\ UNCHANGED <<now, redis, expiresAt, admitted>>

Tick ==
    /\ now < MaxNow
    /\ now' = now + 1
    /\ UNCHANGED <<redis, expiresAt, fallback, isRedisAvailable, sent,
                   admitted, served, refusal>>

Next ==
    \/ \E r \in Reqs : Send(r)
    \/ \E r \in Reqs : RunScript(r)
    \/ \E r \in Reqs : Lose(r)
    \/ \E r \in Reqs : CheckFallback(r)
    \/ CleanupFallbackStorage
    \/ ClearRateLimit
    \/ Flip
    \/ Restart
    \/ Tick

Spec == Init /\ [][Next]_vars

-----------------------------------------------------------------------------
(* Properties. *)

\* Milliseconds of a window of `length` that ends at t
During(length, t) == {m \in 0..t : m + length > t}

\* rate-limit.service.ts:137-165: scripts arrive late and in any order, and the
\* set's expiry is counted from another moment than its scores.  Still, in any
\* window shorter by the longest delay, the scripts let requests of at most
\* Limit different milliseconds pass.  That is all they bound: requests of the
\* same millisecond are one member of the sorted set (ZADD key now now), so
\* that any number of them passes.
MillisecondsInWindow ==
    \A t \in 0..(now + Window) :
        Cardinality(admitted \cap During(Window - MaxDelay, t)) <= Limit

\* rate-limit.service.ts:187-231: the fixed windows of the Map let at most twice
\* the limit pass in any window.
FixedWindows ==
    \A t \in 0..now :
        Cardinality({p \in served : p.at \in During(Window, t)}) <= 2 * Limit

\* rate-limit.guard.ts:62-79: the reset time that a refusal names is right.
\* Unless another request was let pass meanwhile, a request made then or later
\* is not refused by the same store.
ResetTimeHolds ==
    [][refusal # Null /\ refusal' \notin {Null, refusal} /\ refusal'.tier = refusal.tier
          => refusal'.at < refusal.resetTime]_vars

-----------------------------------------------------------------------------
(* What MillisecondsInWindow and ResetTimeHolds rest on.                   *)

SentBefore == \A r \in Reqs : Idle(r) \/ sent[r] <= now

\* The set does not lapse while it holds a member that still counts
ExpiryCovers ==
    /\ expiresAt <= now + Ttl
    /\ \A m \in admitted : m <= now /\ m + Window <= expiresAt

\* A request let pass is counted until its window is over
Remembered == \A m \in admitted : m \in redis \/ m + Window <= now

Bounded == Cardinality(redis) <= Limit

\* Members that still count at t
Counting(t) == {s \in redis : s + Window > t}

\* From the reset time on there is room
Promised ==
    refusal # Null =>
        IF refusal.tier = "redis" THEN Cardinality(Counting(refusal.resetTime)) < Limit
                                  ELSE fallback.resetTime <= refusal.resetTime

\* rate-limit.service.ts:137-165: no script drops a request that a script of any
\* process still has to count, however late it runs, and a refusal leaves the set
\* with room from its reset time on.  Inductive, with TypeOK.
LimiterInv ==
    /\ SentBefore
    /\ ExpiryCovers
    /\ Remembered
    /\ Bounded
    /\ Promised
    /\ MillisecondsInWindow

=============================================================================
