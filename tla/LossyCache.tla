----------------------------- MODULE LossyCache -----------------------------
(***************************************************************************)
(* What a caller of the cache may rely on, whatever happens to Redis: two  *)
(* stores, of which one is in use.  The store in use answers with the      *)
(* value put last under a key, or with a miss; either store may forget any *)
(* key at any time; nothing is ever put into the store that is not in use, *)
(* and a failover exchanges the two as they are.                           *)
(***************************************************************************)
CONSTANTS Keys, Values, Null

VARIABLES
    inUse,   \* the store get reads
    other,   \* the store it would read after a failover
    reply    \* what the step answered, per key, when it was a read

vars == <<inUse, other, reply>>

NoReply == [k \in {} |-> Null]

Init ==
    /\ inUse = [k \in Keys |-> Null]
    /\ other = [k \in Keys |-> Null]
    /\ reply = NoReply

\* A store loses some of its keys and gains nothing
Forgets(before, after) == \A k \in Keys : after[k] \in {Null, before[k]}

Put ==
    \E v \in Values :
        /\ \A k \in Keys : inUse'[k] \in {inUse[k], v}
        /\ other' = other
        /\ reply' = NoReply

Forget ==
    /\ Forgets(inUse, inUse')
    /\ Forgets(other, other')
    /\ reply' = NoReply

Answer ==
    /\ Forgets(inUse, inUse')
    /\ \A k \in DOMAIN reply' : reply'[k] \in {Null, inUse[k]}
    /\ UNCHANGED other

Failover ==
    /\ Forgets(inUse, other')
    /\ Forgets(other, inUse')
    /\ reply' = NoReply

Next == Put \/ Forget \/ Answer \/ Failover

Spec == Init /\ [][Next]_vars

=============================================================================
