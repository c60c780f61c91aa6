----------------------------- MODULE CacheCalls -----------------------------
(***************************************************************************)
(* The CacheService under every call of its interface.  Calls that await   *)
(* Redis once are atomic here and need no caller; the callers in Clients   *)
(* are those in the middle of getOrSet, clear or invalidatePattern, which  *)
(* other calls, events and expiries can come between.                      *)
(***************************************************************************)
EXTENDS CacheService

CONSTANTS
    Clients,
    Targets  \* what clear and invalidatePattern are called with: the keys that
             \* KEYS matches, and the keys the loop over the Map matches

ASSUME TargetsAssumption == Targets \subseteq [globbed: SUBSET Keys, swept: SUBSET Keys]

VARIABLES
    pending, \* per client: its unfinished call
    since,   \* history: keys stored in Redis since the client's call began
    reply    \* history: what the step answered, per key, when it was a read

vars == <<cacheVars, pending, since, reply>>

\* "nothing" is the 0 of invalidatePattern
Kinds == {"done", "failed", "nothing", "fill", "drop"}

Call == [op: {"getOrSet", "clear", "invalidatePattern"}, kind: Kinds,
         target: SUBSET Keys, listed: SUBSET Keys]

NoReply == [k \in {} |-> Null]

NoCall == [op |-> "getOrSet", kind |-> "done", target |-> {}, listed |-> {}]

TypeOK ==
    /\ CacheTypeOK
    /\ pending \in [Clients -> Call]
    /\ since \in [Clients -> SUBSET Keys]
    /\ \A k \in DOMAIN reply : k \in Keys /\ reply[k] \in Values \cup {Null}

Init ==
    /\ CacheInit
    /\ pending = [c \in Clients |-> NoCall]
    /\ since = [c \in Clients |-> {}]
    /\ reply = NoReply

Idle(c) == pending[c].kind \in {"done", "failed", "nothing"}

Quiet == reply' = NoReply

Stored(K) == since' = [c \in Clients |-> IF isRedisAvailable THEN since[c] \cup K ELSE since[c]]

-----------------------------------------------------------------------------
(* Calls with one await. *)

SetCall ==
    \E k \in Keys, v \in Values, ok \in BOOLEAN :
        /\ Set(k, v, ok)
        /\ Stored({k})
        /\ Quiet /\ UNCHANGED pending

MsetCall ==
    \E K \in SUBSET Keys, v \in Values :
        /\ Mset(K, v)
        /\ Stored(K)
        /\ Quiet /\ UNCHANGED pending

GetCall ==
    \E k \in Keys : \E v \in {Null, redis[k], fallback[k]} :
        /\ Get(k, v)
        /\ reply' = [x \in {k} |-> v]
        /\ UNCHANGED <<pending, since>>

MgetCall ==
    \E K \in SUBSET Keys : \E tier \in {redis, fallback, EmptyTier, Without(fallback, lapsed)} :
        /\ Mget(K, [k \in K |-> tier[k]])
        /\ reply' = [k \in K |-> tier[k]]
        /\ UNCHANGED <<pending, since>>

HasCall ==
    \E k \in Keys, present \in BOOLEAN :
        /\ Has(k, present)
        /\ Quiet /\ UNCHANGED <<pending, since>>

DeleteCall ==
    \E k \in Keys, deleted \in BOOLEAN :
        /\ Delete(k, deleted)
        /\ Quiet /\ UNCHANGED <<pending, since>>

ExpireCall ==
    \E k \in Keys, ok \in BOOLEAN :
        /\ Expire(k, ok)
        /\ Quiet /\ UNCHANGED <<pending, since>>

-----------------------------------------------------------------------------
(* clear and invalidatePattern. *)

\* What the caller learns: clear throws what went wrong; invalidatePattern counts
\* the keys, and answers 0 when there were none and when KEYS or DEL has failed
Outcome(op, ok, listed) ==
    IF op = "clear" THEN (IF ok THEN "done" ELSE "failed")
    ELSE IF ok /\ listed # {} THEN "done" ELSE "nothing"

InvalidateScan(c) ==
    /\ Idle(c)
    /\ \E op \in {"clear", "invalidatePattern"}, t \in Targets, listed \in SUBSET Keys, ok \in BOOLEAN :
          /\ Scan(t.globbed, listed, ok)
          /\ pending' = [pending EXCEPT ![c] =
                [op |-> op, kind |-> IF listed # {} THEN "drop" ELSE Outcome(op, ok, listed),
                 target |-> t.globbed, listed |-> listed]]
    /\ since' = [since EXCEPT ![c] = {}]
    /\ Quiet

InvalidateDel(c) ==
    /\ pending[c].kind = "drop"
    /\ \E ok \in BOOLEAN :
          /\ DelInRedis(pending[c].listed, ok)
          /\ pending' = [pending EXCEPT ![c].kind =
                Outcome(pending[c].op, ok, pending[c].listed)]
    /\ Quiet /\ UNCHANGED since

InvalidateSweep ==
    \E t \in Targets :
        /\ Sweep(t.swept)
        /\ Quiet /\ UNCHANGED <<pending, since>>

-----------------------------------------------------------------------------
(* getOrSet: get, the caller's factory, set. *)

GetOrSetMiss(c) ==
    /\ Idle(c)
    /\ \E k \in Keys :
          /\ Get(k, Null)
          /\ pending' = [pending EXCEPT ![c] =
                [op |-> "getOrSet", kind |-> "fill", target |-> {k}, listed |-> {}]]
    /\ Quiet /\ UNCHANGED since

GetOrSetFill(c) ==
    /\ pending[c].kind = "fill"
    /\ \E k \in pending[c].target, v \in Values, ok \in BOOLEAN :
          /\ Set(k, v, ok)
          /\ Stored({k})
          /\ pending' = [pending EXCEPT ![c] =
                [op |-> "getOrSet", kind |-> IF ok THEN "done" ELSE "failed",
                 target |-> {}, listed |-> {}]]
    /\ Quiet

-----------------------------------------------------------------------------
Events ==
    /\ \/ Connect
       \/ ConnectionError
       \/ \E k \in Keys : LapseInRedis(k) \/ LapseInFallback(k)
       \/ CleanupFallbackCache
    /\ Quiet /\ UNCHANGED <<pending, since>>

Restart ==
    /\ CacheRestart
    /\ pending' = [c \in Clients |-> NoCall]
    /\ since' = [c \in Clients |-> {}]
    /\ Quiet

Next ==
    \/ SetCall
    \/ MsetCall
    \/ GetCall
    \/ MgetCall
    \/ HasCall
    \/ DeleteCall
    \/ ExpireCall
    \/ \E c \in Clients : InvalidateScan(c)
    \/ \E c \in Clients : InvalidateDel(c)
    \/ InvalidateSweep
    \/ \E c \in Clients : GetOrSetMiss(c)
    \/ \E c \in Clients : GetOrSetFill(c)
    \/ Events
    \/ Restart

Spec == Init /\ [][Next]_vars

-----------------------------------------------------------------------------
(* Properties. *)

\* The contract: through failures, lost replies, failovers, expiries and
\* restarts, a read answers with the value last put in the tier it reads or
\* with a miss, and no call writes to the tier that is not in use.
Contract == INSTANCE LossyCache WITH
    inUse <- IF isRedisAvailable THEN redis ELSE fallback,
    other <- IF isRedisAvailable THEN fallback ELSE redis

ContractHolds == Contract!Spec

\* clear and invalidatePattern read the key list and delete in two awaits
\* (cache.service.ts:273-285, 499-503).  Once clear has returned without an error, or
\* invalidatePattern with a count above 0, a key it was asked to remove is in Redis
\* only if it was stored after the call began.  (The 0 of invalidatePattern says
\* nothing: it stands for an empty list and for every error, 505, 520-523.)
InvalidatedIsGone ==
    \A c \in Clients : pending[c].kind = "done" =>
        \A k \in pending[c].target : redis[k] = Null \/ k \in since[c]

=============================================================================
