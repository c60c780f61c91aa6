--------------------------- MODULE RateLimitProofs ---------------------------
(***************************************************************************)
(* Proofs about RateLimit, for every limit, window, delay and number of    *)
(* requests.                                                               *)
(***************************************************************************)
EXTENDS RateLimit, FiniteSetTheorems, WellFoundedInduction, TLAPS

-----------------------------------------------------------------------------
(* Lemmas about the script's helpers. *)

\* ZREMRANGEBYSCORE leaves a finite set of moments.
LEMMA InWindowType ==
    ASSUME TypeOK, NEW at
    PROVE  /\ InWindow(at) \subseteq redis
           /\ InWindow(at) \in SUBSET Nat
           /\ IsFiniteSet(InWindow(at))
           /\ Cardinality(InWindow(at)) \in Nat
<1>1. InWindow(at) \subseteq redis
    BY DEF InWindow
<1>2. IsFiniteSet(InWindow(at))
    BY <1>1, FS_Subset DEF TypeOK
<1> QED
    BY <1>1, <1>2, FS_CardinalityType DEF TypeOK

\* ZRANGE key 0 0 of a set with members is the least of them.
LEMMA OldestIsLeast ==
    ASSUME NEW S \in SUBSET Nat, S # {}
    PROVE  /\ Oldest(S) \in S
           /\ \A s \in S : Oldest(S) <= s
<1>1. \E s \in S : \A t \in S : ~ (<<t, s>> \in OpToRel(<, Nat))
    BY NatLessThanWellFounded, WFMin
<1>2. \A s, t \in Nat : t < s => <<t, s>> \in OpToRel(<, Nat)
    BY DEF OpToRel
<1>3. \E s \in S : \A t \in S : s <= t
    <2>1. PICK s \in S : \A t \in S : ~ (<<t, s>> \in OpToRel(<, Nat))
        BY <1>1
    <2>2. \A t \in S : ~ (t < s)
        BY <1>2, <2>1
    <2>3. \A t \in S : s <= t
        BY <2>2
    <2> QED
        BY <2>3
<1> QED
    BY <1>3 DEF Oldest

\* The sorted set never holds more than Limit members after a script.
LEMMA Added ==
    ASSUME TypeOK, NEW at \in Nat, Cardinality(InWindow(at)) < Limit
    PROVE  /\ IsFiniteSet(InWindow(at) \cup {at})
           /\ Cardinality(InWindow(at) \cup {at}) <= Limit
<1>1. /\ IsFiniteSet(InWindow(at))
      /\ Cardinality(InWindow(at)) \in Nat
    BY InWindowType
<1>2. /\ IsFiniteSet(InWindow(at) \cup {at})
      /\ Cardinality(InWindow(at) \cup {at}) <= Cardinality(InWindow(at)) + 1
    BY <1>1, FS_AddElement
<1>3. Cardinality(InWindow(at) \cup {at}) \in Nat
    BY <1>2, FS_CardinalityType
<1> QED
    BY <1>1, <1>2, <1>3, LimitAssumption

-----------------------------------------------------------------------------
(* Type correctness. *)

\* The types hold at the start.
LEMMA TypeInit == Init => TypeOK
BY FS_EmptySet, LimiterSwitches DEF Init, TypeOK, NoEntry

\* A script keeps the types: its set stays finite.
LEMMA TypeScript ==
    ASSUME TypeOK, NEW r \in Reqs, RunScript(r)
    PROVE  TypeOK'
<1> DEFINE at == sent[r]
           kept == InWindow(at)
<1>1. /\ at \in Nat
      /\ now \in Nat
      /\ sent' \in [Reqs -> Nat \cup {Null}]
      /\ UNCHANGED <<now, fallback, isRedisAvailable, served>>
    BY DEF TypeOK, RunScript, Idle
<1>2. PICK answered \in BOOLEAN :
         \/ /\ Cardinality(kept) >= Limit
            /\ redis' = kept
            /\ IF answered THEN Refuse("redis", at, Oldest(kept) + Window) ELSE UNCHANGED refusal
            /\ UNCHANGED <<expiresAt, admitted>>
         \/ /\ Cardinality(kept) < Limit
            /\ redis' = kept \cup {at}
            /\ expiresAt' = Expiry
            /\ admitted' = IF answered THEN admitted \cup {at} ELSE admitted
            /\ refusal' = Null
    BY DEF RunScript
<1>3. /\ kept \in SUBSET Nat
      /\ IsFiniteSet(kept)
    BY InWindowType
<1>4. CASE /\ Cardinality(kept) >= Limit
           /\ redis' = kept
           /\ IF answered THEN Refuse("redis", at, Oldest(kept) + Window) ELSE UNCHANGED refusal
           /\ UNCHANGED <<expiresAt, admitted>>
    <2>1. kept # {}
        BY <1>4, FS_EmptySet, LimitAssumption
    <2>2. Oldest(kept) + Window \in Nat
        <3>1. Oldest(kept) \in Nat
            BY <1>3, <2>1, OldestIsLeast
        <3> QED
            BY <3>1, TimesAssumption
    <2>3. refusal' \in Refusal \cup {Null}
        BY <1>1, <1>4, <2>2 DEF Refuse, Refusal, TypeOK
    <2> QED
        BY <1>1, <1>3, <1>4, <2>3 DEF TypeOK
<1>5. CASE /\ Cardinality(kept) < Limit
           /\ redis' = kept \cup {at}
           /\ expiresAt' = Expiry
           /\ admitted' = IF answered THEN admitted \cup {at} ELSE admitted
           /\ refusal' = Null
    <2>1. IsFiniteSet(kept \cup {at})
        BY <1>1, <1>5, Added
    <2>2. Expiry \in Nat
        BY <1>1, TimesAssumption DEF Expiry
    <2> QED
        BY <1>1, <1>3, <1>5, <2>1, <2>2 DEF TypeOK
<1> QED
    BY <1>2, <1>4, <1>5

\* A check against the Map keeps the types.
LEMMA TypeFallback ==
    ASSUME TypeOK, NEW r \in Reqs, CheckFallback(r)
    PROVE  TypeOK'
<1>1. /\ fallback' \in [count: Nat, resetTime: Nat]
      /\ served' \in SUBSET Served
      /\ refusal' \in Refusal \cup {Null}
    <2>1. CASE /\ \/ Expired /\ fallback' = NewWindow
                  \/ /\ ~Expired /\ fallback.count < Limit
                     /\ fallback' = [fallback EXCEPT !.count = @ + 1]
               /\ served' = served \cup {[at |-> now, count |-> fallback'.count]}
               /\ refusal' = Null
        <3>1. fallback' \in [count: Nat, resetTime: Nat]
            BY <2>1, TimesAssumption DEF TypeOK, NewWindow
        <3> QED
            BY <2>1, <3>1 DEF TypeOK, Served
    <2>2. CASE /\ Refuse("fallback", now, fallback.resetTime)
               /\ UNCHANGED <<fallback, served>>
        BY <2>2 DEF TypeOK, Refuse, Refusal
    <2> QED
        BY <2>1, <2>2 DEF CheckFallback
<1> QED
    BY <1>1 DEF TypeOK, CheckFallback

\* Every action keeps the types.
LEMMA TypeNext == TypeOK /\ [Next]_vars => TypeOK'
<1> SUFFICES ASSUME TypeOK, [Next]_vars
             PROVE  TypeOK'
    OBVIOUS
<1>1. CASE \E r \in Reqs : Send(r)
    BY <1>1 DEF TypeOK, Send
<1>2. CASE \E r \in Reqs : RunScript(r)
    BY <1>2, TypeScript
<1>3. CASE \E r \in Reqs : Lose(r)
    BY <1>3 DEF TypeOK, Lose
<1>4. CASE \E r \in Reqs : CheckFallback(r)
    BY <1>4, TypeFallback
<1>5. CASE CleanupFallbackStorage
    BY <1>5 DEF TypeOK, CleanupFallbackStorage, NoEntry
<1>6. CASE ClearRateLimit
    <2>1. IsFiniteSet({})
        BY FS_EmptySet
    <2>2. IsFiniteSet(redis')
        BY <1>6, <2>1 DEF TypeOK, ClearRateLimit
    <2>3. /\ redis' \in SUBSET Nat
          /\ fallback' \in [count: Nat, resetTime: Nat]
          /\ admitted' \in SUBSET Nat
          /\ served' \in SUBSET Served
        <3>1. CASE isRedisAvailable
            BY <1>6, <3>1 DEF TypeOK, ClearRateLimit
        <3>2. CASE ~isRedisAvailable
            <4>1. /\ fallback' = NoEntry
                  /\ served' = {}
                  /\ UNCHANGED <<redis, admitted>>
                BY <1>6, <3>2 DEF ClearRateLimit
            <4> QED
                BY <4>1 DEF TypeOK, NoEntry
        <3> QED
            BY <3>1, <3>2
    <2>4. /\ refusal' = Null
          /\ UNCHANGED <<now, expiresAt, isRedisAvailable, sent>>
        BY <1>6 DEF ClearRateLimit
    <2> QED
        BY <2>2, <2>3, <2>4 DEF TypeOK
<1>7. CASE Flip
    BY <1>7 DEF TypeOK, Flip
<1>8. CASE Restart
    BY <1>8, LimiterSwitches DEF TypeOK, Restart, NoEntry
<1>9. CASE Tick
    BY <1>9 DEF TypeOK, Tick
<1>10. CASE UNCHANGED vars
    BY <1>10 DEF TypeOK, vars
<1> QED
    BY <1>1, <1>2, <1>3, <1>4, <1>5, <1>6, <1>7, <1>8, <1>9, <1>10 DEF Next

\* Every variable keeps its type, in particular the sorted set stays finite and
\* the reset time of a refusal is a moment.
THEOREM TypeCorrect == Spec => []TypeOK
BY TypeInit, TypeNext, PTL DEF Spec

-----------------------------------------------------------------------------
(* The sliding window. *)

\* What a script run late still finds: everything let pass in a window that
\* ends, at the earliest, with its own request.
LEMMA StillCounted ==
    ASSUME TypeOK, ExpiryCovers, Remembered,
           NEW at \in Nat, now <= at + MaxDelay,
           NEW t \in Nat, at <= t
    PROVE  admitted \cap During(Window - MaxDelay, t) \subseteq InWindow(at)
<1> SUFFICES ASSUME NEW m \in admitted, m \in 0..t, m + (Window - MaxDelay) > t
             PROVE  m \in InWindow(at)
    BY DEF During
<1>1. /\ m \in Nat
      /\ now \in Nat
      /\ expiresAt \in Nat
      /\ Window \in Nat
      /\ MaxDelay \in Nat
    BY TimesAssumption DEF TypeOK
<1>2. /\ m + Window > now
      /\ m + Window > at
    BY <1>1
<1>3. m \in redis
    BY <1>1, <1>2 DEF Remembered
<1>4. now < expiresAt
    BY <1>1, <1>2 DEF ExpiryCovers
<1> QED
    BY <1>2, <1>3, <1>4 DEF InWindow

\* Part of what was let pass in a window is within the limit if all of it is.
LEMMA SmallerWindow ==
    ASSUME NEW S, NEW T \in SUBSET S, IsFiniteSet(S), Cardinality(S) <= Limit
    PROVE  Cardinality(T) <= Limit
<1>1. Cardinality(S) \in Nat
    BY FS_CardinalityType
<1>2. /\ Cardinality(T) <= Cardinality(S)
      /\ IsFiniteSet(T)
    BY FS_Subset
<1>3. Cardinality(T) \in Nat
    BY <1>2, FS_CardinalityType
<1> QED
    BY <1>1, <1>2, <1>3, LimitAssumption

\* A window's share of the history is finite.
LEMMA DuringFinite ==
    ASSUME NEW S, NEW length, NEW t \in Nat
    PROVE  IsFiniteSet(S \cap During(length, t))
<1>1. IsFiniteSet(0..t)
    BY FS_Interval
<1>2. S \cap During(length, t) \in SUBSET (0..t)
    BY DEF During
<1> QED
    BY <1>1, <1>2, FS_Subset

\* Letting the request at `at` pass keeps every window within the limit.
LEMMA AdmissionKeepsLimit ==
    ASSUME TypeOK, ExpiryCovers, Remembered, MillisecondsInWindow,
           NEW at \in Nat, now <= at + MaxDelay,
           Cardinality(InWindow(at)) < Limit,
           NEW t \in 0..(now + Window)
    PROVE  Cardinality((admitted \cup {at}) \cap During(Window - MaxDelay, t)) <= Limit
<1> DEFINE D == During(Window - MaxDelay, t)
<1>0. t \in Nat
    BY TimesAssumption DEF TypeOK
<1>1. CASE at \in D
    <2>1. at <= t
        BY <1>0, <1>1 DEF During
    <2>2. (admitted \cup {at}) \cap D \in SUBSET (InWindow(at) \cup {at})
        BY <1>0, <2>1, StillCounted
    <2>3. /\ IsFiniteSet(InWindow(at) \cup {at})
          /\ Cardinality(InWindow(at) \cup {at}) <= Limit
        BY Added
    <2> QED
        BY <2>2, <2>3, SmallerWindow
<1>2. CASE at \notin D
    <2>1. (admitted \cup {at}) \cap D = admitted \cap D
        BY <1>2
    <2> QED
        BY <2>1 DEF MillisecondsInWindow
<1> QED
    BY <1>1, <1>2

-----------------------------------------------------------------------------
(* Reset times. *)

\* Leaving the oldest of at most Limit members out makes room.
LEMMA RoomAfterOldest ==
    ASSUME TypeOK, Bounded, NEW at \in Nat, Cardinality(InWindow(at)) >= Limit
    PROVE  Cardinality({s \in InWindow(at) : s + Window > Oldest(InWindow(at)) + Window}) < Limit
<1> DEFINE kept == InWindow(at)
           rest == kept \ {Oldest(kept)}
           later == {s \in kept : s + Window > Oldest(kept) + Window}
<1>1. /\ kept \in SUBSET Nat
      /\ kept \in SUBSET redis
      /\ IsFiniteSet(kept)
      /\ Cardinality(kept) \in Nat
    BY InWindowType
<1>2. Cardinality(kept) <= Limit
    BY <1>1, SmallerWindow DEF TypeOK, Bounded
<1>3. kept # {}
    BY FS_EmptySet, LimitAssumption
<1>4. /\ Oldest(kept) \in kept
      /\ Oldest(kept) \in Nat
    BY <1>1, <1>3, OldestIsLeast
<1>5. /\ IsFiniteSet(rest)
      /\ Cardinality(rest) = Cardinality(kept) - 1
    BY <1>1, <1>4, FS_RemoveElement
<1>6. later \in SUBSET rest
    <2>1. \A s \in later : s # Oldest(kept)
        BY <1>1, <1>4, TimesAssumption
    <2> QED
        BY <2>1
<1>7. /\ Cardinality(later) <= Cardinality(rest)
      /\ IsFiniteSet(later)
    BY <1>5, <1>6, FS_Subset
<1>8. Cardinality(later) \in Nat
    BY <1>7, FS_CardinalityType
<1> QED
    BY <1>1, <1>2, <1>5, <1>7, <1>8, LimitAssumption

-----------------------------------------------------------------------------
(* The invariant. *)

\* The invariant holds while nothing has been let pass.
LEMMA LimiterInit == Init => LimiterInv
<1> SUFFICES ASSUME Init
             PROVE  LimiterInv
    OBVIOUS
<1>1. Cardinality({}) <= Limit
    BY FS_EmptySet, LimitAssumption
<1>2. Bounded /\ MillisecondsInWindow
    BY <1>1 DEF Init, Bounded, MillisecondsInWindow
<1>3. SentBefore /\ ExpiryCovers /\ Remembered /\ Promised
    BY TimesAssumption DEF Init, SentBefore, Idle, ExpiryCovers, Remembered, Promised
<1> QED
    BY <1>2, <1>3 DEF LimiterInv

\* A script that refuses leaves what still counts, and its reset time is right.
LEMMA LimiterRefusal ==
    ASSUME TypeOK, TypeOK', LimiterInv, NEW r \in Reqs, NEW answered \in BOOLEAN,
           sent[r] \in Nat,
           sent' = [sent EXCEPT ![r] = Null],
           Cardinality(InWindow(sent[r])) >= Limit,
           redis' = InWindow(sent[r]),
           IF answered THEN Refuse("redis", sent[r], Oldest(InWindow(sent[r])) + Window)
                       ELSE UNCHANGED refusal,
           UNCHANGED <<now, expiresAt, admitted, fallback>>
    PROVE  LimiterInv'
<1> DEFINE at == sent[r]
           kept == InWindow(at)
<1>1. /\ at <= now
      /\ now \in Nat
      /\ expiresAt \in Nat
      /\ Window \in Nat
    BY TimesAssumption, MarkerAssumption DEF TypeOK, LimiterInv, SentBefore, Idle
<1>2. SentBefore'
    BY DEF LimiterInv, SentBefore, Idle, TypeOK
<1>3. (ExpiryCovers /\ MillisecondsInWindow)'
    BY DEF LimiterInv, ExpiryCovers, MillisecondsInWindow
<1>4. Remembered'
    <2> SUFFICES ASSUME NEW m \in admitted, ~ (m + Window <= now)
                 PROVE  m \in kept
        BY DEF Remembered
    <2>1. m \in Nat
        BY DEF TypeOK
    <2>2. /\ m \in redis
          /\ m + Window <= expiresAt
        BY DEF LimiterInv, Remembered, ExpiryCovers
    <2> QED
        BY <1>1, <2>1, <2>2 DEF InWindow
<1>5. kept \in SUBSET redis
    BY InWindowType
<1>6. Bounded'
    BY <1>5, SmallerWindow DEF TypeOK, LimiterInv, Bounded
<1>7. Promised'
    <2>1. CASE answered
        <3>1. Cardinality({s \in kept : s + Window > Oldest(kept) + Window}) < Limit
            BY RoomAfterOldest DEF LimiterInv
        <3>2. /\ refusal'.tier = "redis"
              /\ refusal'.resetTime = Oldest(kept) + Window
            BY <2>1 DEF Refuse
        <3>3. Counting(refusal.resetTime)' = {s \in kept : s + Window > Oldest(kept) + Window}
            BY <3>2 DEF Counting
        <3> QED
            BY <3>1, <3>2, <3>3 DEF Promised
    <2>2. CASE ~answered
        <3>1. UNCHANGED refusal
            BY <2>2
        <3>2. CASE refusal # Null /\ refusal.tier = "redis"
            <4> DEFINE t == refusal.resetTime
            <4>1. /\ Counting(t)' \in SUBSET Counting(t)
                  /\ Counting(t) \in SUBSET redis
                BY <1>5, <3>1 DEF Counting
            <4>2. /\ IsFiniteSet(Counting(t))
                  /\ Cardinality(Counting(t)) < Limit
                BY <3>2, <4>1, FS_Subset DEF TypeOK, LimiterInv, Promised
            <4>3. /\ Cardinality(Counting(t)') <= Cardinality(Counting(t))
                  /\ IsFiniteSet(Counting(t)')
                BY <4>1, <4>2, FS_Subset
            <4>4. /\ Cardinality(Counting(t)') \in Nat
                  /\ Cardinality(Counting(t)) \in Nat
                BY <4>2, <4>3, FS_CardinalityType
            <4>5. Cardinality(Counting(t)') < Limit
                BY <4>2, <4>3, <4>4, LimitAssumption
            <4> QED
                BY <3>1, <3>2, <4>5 DEF Promised
        <3>3. CASE ~ (refusal # Null /\ refusal.tier = "redis")
            BY <3>1, <3>3 DEF LimiterInv, Promised
        <3> QED
            BY <3>2, <3>3
    <2> QED
        BY <2>1, <2>2
<1> QED
    BY <1>2, <1>3, <1>4, <1>6, <1>7 DEF LimiterInv

\* A script that lets its request pass keeps every window within the limit.
LEMMA LimiterAdmission ==
    ASSUME TypeOK, TypeOK', LimiterInv, NEW r \in Reqs, NEW answered \in BOOLEAN,
           answered => now <= sent[r] + MaxDelay,
           sent[r] \in Nat,
           sent' = [sent EXCEPT ![r] = Null],
           Cardinality(InWindow(sent[r])) < Limit,
           redis' = InWindow(sent[r]) \cup {sent[r]},
           expiresAt' = Expiry,
           admitted' = IF answered THEN admitted \cup {sent[r]} ELSE admitted,
           refusal' = Null,
           UNCHANGED now
    PROVE  LimiterInv'
<1> DEFINE at == sent[r]
           kept == InWindow(at)
<1>1. /\ at <= now
      /\ now \in Nat
      /\ expiresAt \in Nat
      /\ Window \in Nat
      /\ Ttl \in Nat
      /\ Window <= Ttl
    BY TimesAssumption, MarkerAssumption DEF TypeOK, LimiterInv, SentBefore, Idle
<1>2. SentBefore'
    BY DEF LimiterInv, SentBefore, Idle, TypeOK
<1>3. admitted' \subseteq admitted \cup {at}
    OBVIOUS
<1>4. ExpiryCovers'
    <2>1. expiresAt' = now + Ttl
        BY DEF Expiry
    <2>2. ASSUME NEW m \in admitted \cup {at}
          PROVE  m <= now /\ m + Window <= now + Ttl
        <3>1. m \in Nat /\ m <= now
            BY <1>1 DEF TypeOK, LimiterInv, ExpiryCovers
        <3> QED
            BY <1>1, <3>1
    <2> QED
        BY <1>1, <1>3, <2>1, <2>2 DEF ExpiryCovers
<1>5. Remembered'
    <2> SUFFICES ASSUME NEW m \in admitted', ~ (m + Window <= now)
                 PROVE  m \in kept \cup {at}
        BY DEF Remembered
    <2>1. CASE m \in admitted
        <3>1. m \in Nat
            BY <2>1 DEF TypeOK
        <3>2. /\ m \in redis
              /\ m + Window <= expiresAt
            BY <2>1 DEF LimiterInv, Remembered, ExpiryCovers
        <3> QED
            BY <1>1, <3>1, <3>2 DEF InWindow
    <2> QED
        BY <1>3, <2>1
<1>6. Bounded'
    BY Added DEF Bounded
<1>7. MillisecondsInWindow'
    <2> SUFFICES ASSUME NEW t \in 0..(now + Window)
                 PROVE  Cardinality(admitted' \cap During(Window - MaxDelay, t)) <= Limit
        BY DEF MillisecondsInWindow, During
    <2>1. CASE answered
        <3>1. admitted' = admitted \cup {at}
            BY <2>1
        <3> QED
            BY <2>1, <3>1, AdmissionKeepsLimit DEF LimiterInv
    <2>2. CASE ~answered
        BY <2>2 DEF LimiterInv, MillisecondsInWindow
    <2> QED
        BY <2>1, <2>2
<1> QED
    BY <1>2, <1>4, <1>5, <1>6, <1>7 DEF LimiterInv, Promised

\* The parts of the invariant that a step cannot disturb which leaves the set,
\* its history and the clock alone.
LEMMA LimiterFrame ==
    ASSUME LimiterInv, SentBefore', Promised',
           UNCHANGED <<now, redis, expiresAt, admitted>>
    PROVE  LimiterInv'
<1>1. (ExpiryCovers /\ Remembered /\ Bounded /\ MillisecondsInWindow)'
    BY DEF LimiterInv, ExpiryCovers, Remembered, Bounded, MillisecondsInWindow
<1> QED
    BY <1>1 DEF LimiterInv

\* Every action keeps the invariant.
LEMMA LimiterNext == TypeOK /\ TypeOK' /\ LimiterInv /\ [Next]_vars => LimiterInv'
<1> SUFFICES ASSUME TypeOK, TypeOK', LimiterInv, [Next]_vars
             PROVE  LimiterInv'
    OBVIOUS
<1>1. CASE \E r \in Reqs : Send(r)
    <2>1. PICK r \in Reqs : Send(r)
        BY <1>1
    <2>2. SentBefore'
        <3>1. now <= now
            BY DEF TypeOK
        <3> QED
            BY <2>1, <3>1 DEF Send, LimiterInv, SentBefore, Idle, TypeOK
    <2>3. Promised'
        BY <2>1 DEF Send, LimiterInv, Promised, Counting
    <2> QED
        BY <2>1, <2>2, <2>3, LimiterFrame DEF Send
<1>2. CASE \E r \in Reqs : RunScript(r)
    <2>1. PICK r \in Reqs : RunScript(r)
        BY <1>2
    <2> DEFINE at == sent[r]
               kept == InWindow(at)
    <2>2. /\ at \in Nat
          /\ sent' = [sent EXCEPT ![r] = Null]
          /\ UNCHANGED <<now, fallback>>
        BY <2>1 DEF RunScript, Idle, TypeOK
    <2>3. PICK answered \in BOOLEAN :
             /\ answered => now <= at + MaxDelay
             /\ \/ /\ Cardinality(kept) >= Limit
                   /\ redis' = kept
                   /\ IF answered THEN Refuse("redis", at, Oldest(kept) + Window)
                                  ELSE UNCHANGED refusal
                   /\ UNCHANGED <<expiresAt, admitted>>
                \/ /\ Cardinality(kept) < Limit
                   /\ redis' = kept \cup {at}
                   /\ expiresAt' = Expiry
                   /\ admitted' = IF answered THEN admitted \cup {at} ELSE admitted
                   /\ refusal' = Null
        BY <2>1 DEF RunScript
    <2>4. CASE /\ Cardinality(kept) >= Limit
               /\ redis' = kept
               /\ IF answered THEN Refuse("redis", at, Oldest(kept) + Window)
                              ELSE UNCHANGED refusal
               /\ UNCHANGED <<expiresAt, admitted>>
        BY <2>2, <2>4, LimiterRefusal
    <2>5. CASE /\ Cardinality(kept) < Limit
               /\ redis' = kept \cup {at}
               /\ expiresAt' = Expiry
               /\ admitted' = IF answered THEN admitted \cup {at} ELSE admitted
               /\ refusal' = Null
        BY <2>2, <2>3, <2>5, LimiterAdmission
    <2> QED
        BY <2>3, <2>4, <2>5
<1>3. CASE \E r \in Reqs : Lose(r)
    <2>1. SentBefore' /\ Promised'
        BY <1>3 DEF Lose, LimiterInv, SentBefore, Promised, Counting, Idle, TypeOK
    <2> QED
        BY <1>3, <2>1, LimiterFrame DEF Lose
<1>4. CASE \E r \in Reqs : CheckFallback(r)
    <2>1. PICK r \in Reqs : CheckFallback(r)
        BY <1>4
    <2>2. SentBefore'
        BY <2>1 DEF CheckFallback, LimiterInv, SentBefore, Idle
    <2>3. Promised'
        <3>1. CASE refusal' = Null
            BY <3>1 DEF Promised
        <3>2. CASE /\ Refuse("fallback", now, fallback.resetTime)
                   /\ UNCHANGED <<fallback, served>>
            BY <3>2 DEF Refuse, Promised, TypeOK
        <3> QED
            BY <2>1, <3>1, <3>2 DEF CheckFallback
    <2> QED
        BY <2>1, <2>2, <2>3, LimiterFrame DEF CheckFallback
<1>5. CASE CleanupFallbackStorage
    <2>1. SentBefore'
        BY <1>5 DEF CleanupFallbackStorage, LimiterInv, SentBefore, Idle
    <2>2. Promised'
        BY <1>5 DEF CleanupFallbackStorage, NoEntry, LimiterInv, Promised, Counting, TypeOK, Refusal
    <2> QED
        BY <1>5, <2>1, <2>2, LimiterFrame DEF CleanupFallbackStorage
<1>6. CASE ClearRateLimit
    <2>1. SentBefore' /\ Promised'
        BY <1>6 DEF ClearRateLimit, LimiterInv, SentBefore, Idle, Promised
    <2>2. CASE redis' = {} /\ admitted' = {}
        <3>1. Cardinality({}) <= Limit
            BY FS_EmptySet, LimitAssumption
        <3>2. Bounded' /\ MillisecondsInWindow'
            BY <2>2, <3>1 DEF Bounded, MillisecondsInWindow
        <3>3. ExpiryCovers' /\ Remembered'
            BY <1>6, <2>2 DEF ClearRateLimit, LimiterInv, ExpiryCovers, Remembered
        <3> QED
            BY <2>1, <3>2, <3>3 DEF LimiterInv
    <2>3. CASE UNCHANGED <<redis, admitted>>
        BY <1>6, <2>1, <2>3, LimiterFrame DEF ClearRateLimit
    <2> QED
        BY <1>6, <2>2, <2>3 DEF ClearRateLimit
<1>7. CASE Flip
    <2>1. SentBefore' /\ Promised'
        BY <1>7 DEF Flip, LimiterInv, SentBefore, Promised, Counting, Idle
    <2> QED
        BY <1>7, <2>1, LimiterFrame DEF Flip
<1>8. CASE Restart
    <2>1. SentBefore' /\ Promised'
        BY <1>8 DEF Restart, SentBefore, Promised, Idle
    <2> QED
        BY <1>8, <2>1, LimiterFrame DEF Restart
<1>9. CASE Tick
    <2>1. /\ now' = now + 1
          /\ now \in Nat
          /\ expiresAt \in Nat
          /\ UNCHANGED <<redis, expiresAt, fallback, sent, admitted, refusal>>
        BY <1>9 DEF Tick, TypeOK
    <2>2. SentBefore'
        BY <2>1, MarkerAssumption DEF LimiterInv, SentBefore, Idle, TypeOK
    <2>3. ExpiryCovers'
        BY <2>1, TimesAssumption DEF LimiterInv, ExpiryCovers, TypeOK
    <2>4. Remembered'
        BY <2>1, TimesAssumption DEF LimiterInv, Remembered, TypeOK
    <2>5. Bounded' /\ Promised'
        BY <2>1 DEF LimiterInv, Bounded, Promised, Counting
    <2>6. MillisecondsInWindow'
        <3> SUFFICES ASSUME NEW t \in 0..(now + 1 + Window)
                     PROVE  Cardinality(admitted \cap During(Window - MaxDelay, t)) <= Limit
            BY <2>1 DEF MillisecondsInWindow, During
        <3>1. CASE t \in 0..(now + Window)
            BY <3>1 DEF LimiterInv, MillisecondsInWindow
        <3>2. CASE t \notin 0..(now + Window)
            <4>1. t = now + 1 + Window
                BY <2>1, <3>2, TimesAssumption
            <4>2. \A m \in admitted : m \in Nat /\ m <= now
                BY DEF LimiterInv, ExpiryCovers, TypeOK
            <4>3. admitted \cap During(Window - MaxDelay, t) = {}
                BY <2>1, <4>1, <4>2, TimesAssumption DEF During
            <4>4. Cardinality({}) <= Limit
                BY FS_EmptySet, LimitAssumption
            <4> QED
                BY <4>3, <4>4
        <3> QED
            BY <3>1, <3>2
    <2> QED
        BY <2>2, <2>3, <2>4, <2>5, <2>6 DEF LimiterInv
<1>10. CASE UNCHANGED vars
    <2>1. SentBefore' /\ Promised'
        BY <1>10 DEF vars, LimiterInv, SentBefore, Promised, Counting, Idle
    <2> QED
        BY <1>10, <2>1, LimiterFrame DEF vars
<1> QED
    BY <1>1, <1>2, <1>3, <1>4, <1>5, <1>6, <1>7, <1>8, <1>9, <1>10 DEF Next

\* No script drops a request that still counts, and every refusal leaves room
\* from its reset time on.
THEOREM LimiterInvHolds == Spec => []LimiterInv
<1>1. TypeOK /\ LimiterInv /\ TypeOK' /\ [Next]_vars => LimiterInv'
    BY LimiterNext
<1> QED
    BY <1>1, LimiterInit, TypeCorrect, PTL DEF Spec

\* In any window shorter by the longest delay, the scripts let requests of at most
\* Limit different milliseconds pass, in whatever order Redis runs them.  It bounds the
\* milliseconds, not the requests made in each of them.
THEOREM MillisecondsBounded == Spec => []MillisecondsInWindow
<1>1. LimiterInv => MillisecondsInWindow
    BY DEF LimiterInv
<1> QED
    BY <1>1, LimiterInvHolds, PTL

-----------------------------------------------------------------------------
\* A refusal by Redis after another one finds as many members that still count
\* at its own time as the limit.
LEMMA ScriptResetTime ==
    ASSUME TypeOK, LimiterInv, NEW r \in Reqs, RunScript(r),
           refusal # Null, refusal' \notin {Null, refusal}, refusal'.tier = refusal.tier
    PROVE  refusal'.at < refusal.resetTime
<1> DEFINE at == sent[r]
           kept == InWindow(at)
<1>1. at \in Nat
    BY DEF RunScript, Idle, TypeOK
<1>2. /\ Cardinality(kept) >= Limit
      /\ refusal'.tier = "redis"
      /\ refusal'.at = at
    BY DEF RunScript, Refuse
<1>3. refusal \in Refusal
    BY DEF TypeOK
<1>4. refusal.resetTime \in Nat
    BY <1>3 DEF Refusal
<1>5. Cardinality(Counting(refusal.resetTime)) < Limit
    BY <1>2 DEF LimiterInv, Promised
<1>6. SUFFICES ASSUME ~ (at < refusal.resetTime)
               PROVE  FALSE
    BY <1>2
<1>7. kept \in SUBSET Counting(refusal.resetTime)
    <2> DEFINE t == refusal.resetTime
    <2>1. at >= t
        BY <1>1, <1>4, <1>6
    <2>2. \A s \in kept : s \in redis /\ s \in Nat /\ s + Window > at
        BY DEF InWindow, TypeOK
    <2> HIDE DEF kept, t, at
    <2>3. \A s \in kept : s + Window > t
        BY <1>1, <1>4, <2>1, <2>2, TimesAssumption DEF t, at
    <2> QED
        BY <2>2, <2>3 DEF Counting, t
<1>8. Counting(refusal.resetTime) \in SUBSET redis
    BY DEF Counting
<1>9. IsFiniteSet(Counting(refusal.resetTime))
    BY <1>8, FS_Subset DEF TypeOK
<1>10. /\ Cardinality(kept) <= Cardinality(Counting(refusal.resetTime))
       /\ IsFiniteSet(kept)
    BY <1>7, <1>9, FS_Subset
<1>11. /\ Cardinality(kept) \in Nat
       /\ Cardinality(Counting(refusal.resetTime)) \in Nat
    BY <1>9, <1>10, FS_CardinalityType
<1> QED
    BY <1>2, <1>5, <1>10, <1>11, LimitAssumption

\* A refusal by the Map after another one is made in the same window.
LEMMA FallbackResetTime ==
    ASSUME TypeOK, LimiterInv, NEW r \in Reqs, CheckFallback(r),
           refusal # Null, refusal' \notin {Null, refusal}, refusal'.tier = refusal.tier
    PROVE  refusal'.at < refusal.resetTime
<1>1. /\ ~Expired
      /\ refusal'.tier = "fallback"
      /\ refusal'.at = now
    BY DEF CheckFallback, Refuse
<1>2. refusal \in Refusal
    BY DEF TypeOK
<1>3. /\ refusal.resetTime \in Nat
      /\ fallback.resetTime \in Nat
      /\ now \in Nat
    BY <1>2 DEF Refusal, TypeOK
<1>4. refusal.tier # "redis"
    BY <1>1
<1>5. fallback.resetTime <= refusal.resetTime
    BY <1>4 DEF LimiterInv, Promised
<1> QED
    BY <1>1, <1>3, <1>5 DEF Expired

\* The reset time that a refusal names is right.
THEOREM ResetTimeCorrect == Spec => ResetTimeHolds
<1>1. ASSUME TypeOK, LimiterInv, [Next]_vars,
             refusal # Null, refusal' \notin {Null, refusal}, refusal'.tier = refusal.tier
      PROVE  refusal'.at < refusal.resetTime
    <2>1. \/ \E r \in Reqs : RunScript(r)
          \/ \E r \in Reqs : CheckFallback(r)
        BY <1>1 DEF Next, Send, Lose, CleanupFallbackStorage, ClearRateLimit, Flip, Restart, Tick, vars
    <2> QED
        BY <1>1, <2>1, ScriptResetTime, FallbackResetTime
<1>2. TypeOK /\ LimiterInv /\ [Next]_vars
        => [refusal # Null /\ refusal' \notin {Null, refusal} /\ refusal'.tier = refusal.tier
              => refusal'.at < refusal.resetTime]_vars
    BY <1>1
<1> QED
    BY <1>2, TypeCorrect, LimiterInvHolds, PTL DEF Spec, ResetTimeHolds

-----------------------------------------------------------------------------
(* The fixed windows of the Map: a place in the order of a window is taken *)
(* once per window, and windows begin at least a window's length apart.     *)

ServedSoFar == \A p \in served : p.count \in 1..Limit /\ p.at <= now

\* The requests of the window that is open are those counted so far
CountsOpenWindow ==
    ~Expired =>
        /\ fallback.count <= Limit
        /\ fallback.resetTime <= now + Window
        /\ \A p \in served : p.at + Window >= fallback.resetTime => p.count <= fallback.count

\* Two that had the same place were let pass in different windows: the first one
\* before the second one's window began
WindowsApart ==
    /\ Expired => \A p \in served : p.at < now
    /\ \A p, q \in served : p.count = q.count /\ p.at < q.at =>
           IF Expired THEN p.at + Window < now
           ELSE /\ p.at + Window < fallback.resetTime
                /\ q.at + Window < fallback.resetTime =>
                       p.at + 2 * Window < fallback.resetTime

\* Of three that had the same place, no window holds the first and the last
PlacesApart ==
    \A p, q, s \in served :
        p.count = q.count /\ q.count = s.count /\ p.at < q.at /\ q.at < s.at =>
            p.at + Window <= s.at

\* rate-limit.service.ts:187-231.  Inductive, with TypeOK.
WindowsInv ==
    /\ ServedSoFar
    /\ CountsOpenWindow
    /\ WindowsApart
    /\ PlacesApart

\* What the Map let pass are records of moments and places.
LEMMA ServedType ==
    ASSUME TypeOK
    PROVE  /\ \A p \in served : p.at \in Nat /\ p.count \in Nat
           /\ fallback.count \in Nat
           /\ fallback.resetTime \in Nat
           /\ now \in Nat
           /\ Window \in Nat \ {0}
           /\ Limit \in Nat \ {0}
BY TimesAssumption, LimitAssumption DEF TypeOK, Served

\* The invariant is about the Map's entry and history alone.
LEMMA WindowsFrame ==
    ASSUME WindowsInv, UNCHANGED <<now, fallback, served>>
    PROVE  WindowsInv'
BY DEF WindowsInv, ServedSoFar, CountsOpenWindow, WindowsApart, PlacesApart, Expired

\* Nothing was let pass at the start, and an empty history is in order.
LEMMA WindowsEmpty ==
    ASSUME served' = {}, fallback' = NoEntry, TypeOK, now' = now
    PROVE  WindowsInv'
<1>1. Expired'
    BY ServedType DEF Expired, NoEntry
<1> QED
    BY <1>1 DEF WindowsInv, ServedSoFar, CountsOpenWindow, WindowsApart, PlacesApart

\* The request that opens a window.
LEMMA OpensWindow ==
    ASSUME TypeOK, TypeOK', WindowsInv, Expired, fallback' = NewWindow, now' = now,
           served' = served \cup {[at |-> now, count |-> fallback'.count]}
    PROVE  WindowsInv'
<1> DEFINE new == [at |-> now, count |-> 1]
<1>1. /\ served' = served \cup {new}
      /\ new.at = now
      /\ new.count = 1
      /\ fallback'.count = 1
      /\ fallback'.resetTime = now + Window
    BY DEF NewWindow
<1> HIDE DEF new
<1>2. ~Expired'
    BY <1>1, ServedType DEF Expired
<1>3. ServedSoFar'
    BY <1>1, ServedType DEF WindowsInv, ServedSoFar
<1>4. CountsOpenWindow'
    BY <1>1, ServedType DEF WindowsInv, CountsOpenWindow, WindowsApart
<1>5. WindowsApart'
    <2>1. SUFFICES ASSUME NEW p \in served', NEW q \in served', p.count = q.count, p.at < q.at
                   PROVE  /\ p.at + Window < fallback'.resetTime
                          /\ q.at + Window < fallback'.resetTime =>
                                 p.at + 2 * Window < fallback'.resetTime
        BY <1>2 DEF WindowsApart
    <2>2. p \in served
        BY <1>1, <1>3, <2>1, ServedType DEF ServedSoFar
    <2>3. q \in served => p.at + Window < now
        BY <2>1, <2>2 DEF WindowsInv, WindowsApart
    <2>4. p.at < now
        BY <2>2 DEF WindowsInv, WindowsApart
    <2> QED
        BY <1>1, <2>2, <2>3, <2>4, ServedType
<1>6. PlacesApart'
    <2>1. SUFFICES ASSUME NEW p \in served', NEW q \in served', NEW s \in served',
                          p.count = q.count, q.count = s.count, p.at < q.at, q.at < s.at
                   PROVE  p.at + Window <= s.at
        BY DEF PlacesApart
    <2>2. p \in served /\ q \in served
        BY <1>1, <1>3, <2>1, ServedType DEF ServedSoFar
    <2>3. CASE s \in served
        BY <2>1, <2>2, <2>3 DEF WindowsInv, PlacesApart
    <2>4. CASE s = new
        <3>1. p.at + Window < now
            BY <2>1, <2>2 DEF WindowsInv, WindowsApart
        <3> QED
            BY <1>1, <2>2, <2>4, <3>1, ServedType
    <2> QED
        BY <1>1, <2>1, <2>3, <2>4
<1> QED
    BY <1>3, <1>4, <1>5, <1>6 DEF WindowsInv

\* A further request of the open window.
LEMMA FillsWindow ==
    ASSUME TypeOK, TypeOK', WindowsInv, ~Expired, fallback.count < Limit, now' = now,
           fallback' = [fallback EXCEPT !.count = @ + 1],
           served' = served \cup {[at |-> now, count |-> fallback'.count]}
    PROVE  WindowsInv'
<1> DEFINE place == fallback.count + 1
           new == [at |-> now, count |-> place]
<1>1. /\ served' = served \cup {new}
      /\ new.at = now
      /\ new.count = place
      /\ fallback'.count = place
      /\ fallback'.resetTime = fallback.resetTime
      /\ place \in 1..Limit
    BY ServedType DEF TypeOK
<1> HIDE DEF new
<1>2. ~Expired'
    BY <1>1 DEF Expired
<1>3. \A p \in served : p.count = place => p.at + Window < fallback.resetTime
    BY ServedType DEF WindowsInv, CountsOpenWindow
<1>4. /\ fallback.resetTime <= now + Window
      /\ now < fallback.resetTime
    BY ServedType DEF WindowsInv, CountsOpenWindow, Expired
<1>5. ServedSoFar'
    BY <1>1, ServedType DEF WindowsInv, ServedSoFar
<1>6. CountsOpenWindow'
    <2>1. \A p \in served : p.at + Window >= fallback.resetTime => p.count <= fallback.count
        BY DEF WindowsInv, CountsOpenWindow
    <2> QED
        BY <1>1, <1>4, <2>1, ServedType DEF CountsOpenWindow
<1>7. WindowsApart'
    <2>1. SUFFICES ASSUME NEW p \in served', NEW q \in served', p.count = q.count, p.at < q.at
                   PROVE  /\ p.at + Window < fallback.resetTime
                          /\ q.at + Window < fallback.resetTime =>
                                 p.at + 2 * Window < fallback.resetTime
        BY <1>1, <1>2 DEF WindowsApart
    <2>2. p \in served
        BY <1>1, <1>5, <2>1, ServedType DEF ServedSoFar
    <2>3. CASE q \in served
        BY <2>1, <2>2, <2>3 DEF WindowsInv, WindowsApart
    <2>4. CASE q = new
        BY <1>1, <1>3, <1>4, <2>1, <2>2, <2>4, ServedType
    <2> QED
        BY <1>1, <2>1, <2>3, <2>4
<1>8. PlacesApart'
    <2>1. SUFFICES ASSUME NEW p \in served', NEW q \in served', NEW s \in served',
                          p.count = q.count, q.count = s.count, p.at < q.at, q.at < s.at
                   PROVE  p.at + Window <= s.at
        BY DEF PlacesApart
    <2>2. p \in served /\ q \in served
        BY <1>1, <1>5, <2>1, ServedType DEF ServedSoFar
    <2>3. CASE s \in served
        BY <2>1, <2>2, <2>3 DEF WindowsInv, PlacesApart
    <2>4. CASE s = new
        <3>1. q.at + Window < fallback.resetTime
            BY <1>1, <1>3, <2>1, <2>2, <2>4
        <3>2. p.at + 2 * Window < fallback.resetTime
            BY <2>1, <2>2, <3>1 DEF WindowsInv, WindowsApart
        <3> QED
            BY <1>1, <1>4, <2>2, <2>4, <3>2, ServedType
    <2> QED
        BY <1>1, <2>1, <2>3, <2>4
<1> QED
    BY <1>5, <1>6, <1>7, <1>8 DEF WindowsInv

\* Time passes, and the open window may end, or the cleanup forgets one that has.
LEMMA WindowsAge ==
    ASSUME TypeOK, WindowsInv, served' = served,
           \/ now' = now + 1 /\ fallback' = fallback
           \/ now' = now /\ Expired /\ fallback' = NoEntry
    PROVE  WindowsInv'
<1>1. CASE now' = now + 1 /\ fallback' = fallback
    <2>1. ServedSoFar'
        BY <1>1, ServedType DEF WindowsInv, ServedSoFar
    <2>2. CountsOpenWindow'
        BY <1>1, ServedType DEF WindowsInv, CountsOpenWindow, Expired
    <2>3. WindowsApart'
        <3>1. \A p \in served : p.at < now'
            BY <1>1, ServedType DEF WindowsInv, ServedSoFar
        <3>2. ASSUME NEW p \in served, NEW q \in served, p.count = q.count, p.at < q.at
              PROVE  IF Expired' THEN p.at + Window < now'
                     ELSE /\ p.at + Window < fallback.resetTime
                          /\ q.at + Window < fallback.resetTime =>
                                 p.at + 2 * Window < fallback.resetTime
            <4>1. CASE Expired
                <5>1. p.at + Window < now
                    BY <3>2, <4>1 DEF WindowsInv, WindowsApart
                <5>2. Expired'
                    BY <1>1, <4>1, ServedType DEF Expired
                <5> QED
                    BY <1>1, <5>1, <5>2, ServedType
            <4>2. CASE ~Expired
                <5>1. /\ p.at + Window < fallback.resetTime
                      /\ q.at + Window < fallback.resetTime =>
                             p.at + 2 * Window < fallback.resetTime
                    BY <3>2, <4>2 DEF WindowsInv, WindowsApart
                <5>2. Expired' => fallback.resetTime <= now'
                    BY <1>1 DEF Expired
                <5>3. now' \in Nat
                    BY <1>1, ServedType
                <5> QED
                    BY <5>1, <5>2, <5>3, ServedType
            <4> QED
                BY <4>1, <4>2
        <3> QED
            BY <1>1, <3>1, <3>2 DEF WindowsApart
    <2>4. PlacesApart'
        BY DEF WindowsInv, PlacesApart
    <2> QED
        BY <2>1, <2>2, <2>3, <2>4 DEF WindowsInv
<1>2. CASE now' = now /\ Expired /\ fallback' = NoEntry
    <2>1. Expired'
        BY <1>2, ServedType DEF Expired, NoEntry
    <2> QED
        BY <1>2, <2>1 DEF WindowsInv, ServedSoFar, CountsOpenWindow, WindowsApart, PlacesApart
<1> QED
    BY <1>1, <1>2

\* Every action keeps the windows apart.
LEMMA WindowsNext == TypeOK /\ TypeOK' /\ WindowsInv /\ [Next]_vars => WindowsInv'
<1> SUFFICES ASSUME TypeOK, TypeOK', WindowsInv, [Next]_vars
             PROVE  WindowsInv'
    OBVIOUS
<1>1. CASE \E r \in Reqs : Send(r) \/ RunScript(r) \/ Lose(r)
    BY <1>1, WindowsFrame DEF Send, RunScript, Lose
<1>2. CASE \E r \in Reqs : CheckFallback(r)
    <2>1. PICK r \in Reqs : CheckFallback(r)
        BY <1>2
    <2>2. now' = now
        BY <2>1 DEF CheckFallback
    <2>3. \/ /\ Expired
             /\ fallback' = NewWindow
             /\ served' = served \cup {[at |-> now, count |-> fallback'.count]}
          \/ /\ ~Expired
             /\ fallback.count < Limit
             /\ fallback' = [fallback EXCEPT !.count = @ + 1]
             /\ served' = served \cup {[at |-> now, count |-> fallback'.count]}
          \/ UNCHANGED <<fallback, served>>
        BY <2>1 DEF CheckFallback
    <2> QED
        BY <2>2, <2>3, OpensWindow, FillsWindow, WindowsFrame
<1>3. CASE CleanupFallbackStorage \/ Tick
    BY <1>3, WindowsAge DEF CleanupFallbackStorage, Tick
<1>4. CASE ClearRateLimit
    BY <1>4, WindowsEmpty, WindowsFrame DEF ClearRateLimit
<1>5. CASE Restart
    BY <1>5, WindowsEmpty DEF Restart
<1>6. CASE Flip \/ UNCHANGED vars
    BY <1>6, WindowsFrame DEF Flip, vars
<1> QED
    BY <1>1, <1>2, <1>3, <1>4, <1>5, <1>6 DEF Next

\* A request that was let pass is its moment and its place.
LEMMA SameServed ==
    ASSUME NEW p \in Served, NEW q \in Served, p.at = q.at, p.count = q.count
    PROVE  p = q
BY DEF Served

\* Each place is taken at most twice in a window: once by the first request that has
\* it there, once by the others, which are one.
LEMMA TwicePerPlace ==
    ASSUME TypeOK, WindowsInv, NEW t \in 0..now
    PROVE  Cardinality({p \in served : p.at \in During(Window, t)}) <= 2 * Limit
<1> DEFINE S == {p \in served : p.at \in During(Window, t)}
           First(p) == \A q \in S : q.count = p.count => p.at <= q.at
           f == [p \in S |-> IF First(p) THEN p.count ELSE p.count + Limit]
<1>1. /\ t \in Nat
      /\ Limit \in Nat \ {0}
      /\ Window \in Nat \ {0}
      /\ \A p \in S : /\ p.at \in Nat
                      /\ p.count \in 1..Limit
                      /\ p.at <= t
                      /\ p.at + Window > t
    BY ServedType DEF WindowsInv, ServedSoFar, During
<1>2. f \in [S -> 1 .. 2 * Limit]
    BY <1>1
<1>3. ASSUME NEW p \in S, NEW q \in S, f[p] = f[q], p.at < q.at
      PROVE  FALSE
    <2>1. p.count = q.count /\ (First(p) <=> First(q))
        BY <1>1, <1>3
    <2>2. ~First(q)
        BY <1>1, <1>3, <2>1
    <2>3. PICK o \in S : o.count = p.count /\ o.at < p.at
        BY <1>1, <2>1, <2>2
    <2>4. o.at + Window <= q.at
        BY <1>3, <2>1, <2>3 DEF WindowsInv, PlacesApart
    <2> QED
        BY <1>1, <2>4
<1>4. ASSUME NEW p \in S, NEW q \in S, f[p] = f[q]
      PROVE  p = q
    <2>1. p.at = q.at
        <3> HIDE DEF S, f
        <3>1. ~ (p.at < q.at)
            BY <1>3, <1>4
        <3>2. ~ (q.at < p.at)
            BY <1>3, <1>4
        <3> QED
            BY <1>1, <3>1, <3>2
    <2>2. p.count = q.count
        BY <1>1, <1>4
    <2>3. p \in Served /\ q \in Served
        BY DEF TypeOK
    <2> QED
        BY <2>1, <2>2, <2>3, SameServed
<1>5. f \in Injection(S, 1 .. 2 * Limit)
    <2> HIDE DEF f, S
    <2> QED
        BY <1>2, <1>4 DEF Injection, IsInjective
<1>6. /\ IsFiniteSet(1 .. 2 * Limit)
      /\ Cardinality(1 .. 2 * Limit) = 2 * Limit
    BY <1>1, FS_Interval
<1>7. Cardinality(S) <= Cardinality(1 .. 2 * Limit)
    BY <1>5, <1>6, FS_Injection
<1> QED
    BY <1>6, <1>7

\* The fixed windows of the Map let at most twice the limit pass in any window.
THEOREM FixedWindowsHold == Spec => []FixedWindows
<1>1. Init => WindowsInv
    BY ServedType, TypeInit DEF Init, WindowsInv, ServedSoFar, CountsOpenWindow, WindowsApart,
       PlacesApart, Expired, NoEntry
<1>2. TypeOK /\ WindowsInv /\ TypeOK' /\ [Next]_vars => WindowsInv'
    BY WindowsNext
<1>3. TypeOK /\ WindowsInv => FixedWindows
    BY TwicePerPlace DEF FixedWindows
<1> QED
    BY <1>1, <1>2, <1>3, TypeCorrect, PTL DEF Spec

=============================================================================
