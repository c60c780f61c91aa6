---------------------------- MODULE AuthSessions ----------------------------
(***************************************************************************)
(* Refresh-token rows: src/modules/auth/auth.service.ts with the parts of  *)
(* users.service.ts it calls.  No call is a transaction; every await is an *)
(* action, and calls for the same user interleave.                         *)
(*                                                                         *)
(* A token is named by its place in the order of issue, which createdAt    *)
(* records.  A row holds the SHA-256 digest of its token, except for those *)
(* of the first LegacyIssued tokens, which were stored as they are before  *)
(* the service hashed them.                                                *)
(***************************************************************************)
EXTENDS Naturals, FiniteSets

CONSTANTS
    Users,        \* e-mail addresses, and the accounts behind them
    NoUser,
    Reqs,
    MaxTokens,    \* MAX_REFRESH_TOKENS_PER_USER
    Legacy,       \* per user: the rows there are at the start
    LegacyIssued,
    MaxIssued,    \* bound: tokens issued in all
    DbFails       \* may a statement fail?

ASSUME MaxTokensAssumption == MaxTokens \in Nat \ {0}
ASSUME LegacyAssumption ==
    /\ LegacyIssued \in Nat
    /\ MaxIssued \in Nat
    /\ Legacy \in [Users -> SUBSET (1..LegacyIssued)]
ASSUME NoUserAssumption == NoUser \notin Users
ASSUME DbFailsAssumption == DbFails \in BOOLEAN
ASSUME ReqsAssumption == IsFiniteSet(Reqs)

VARIABLES
    accounts, \* users that have registered
    rows,     \* per user: the tokens with a row
    revoked,  \* tokens whose row says isRevoked
    issued,   \* tokens issued so far
    lapsed,   \* tokens whose seven days are over: the first lapsed ones
    req,      \* per request: where it is and its local variables
    excused   \* history, per user: since the user's last new row, has a cleanup
              \* been cut off, or revokeToken inserted a row?

vars == <<accounts, rows, revoked, issued, lapsed, req, excused>>

Tokens == Nat \ {0}

Labels == {"idle", "check", "account", "save", "purge", "count", "oldest", "remove",
           "lookup", "drop", "rotate", "revoke"}

Request ==
    [pc: Labels,
     op: {"none", "login", "register", "refresh", "logout", "revoke"},
     user: Users \cup {NoUser},
     token: Nat,            \* the token presented, stored or revoked
     take: Nat,             \* how many rows cleanupOldTokens looks for
     found: SUBSET Tokens,  \* the rows it found
     alone: BOOLEAN]        \* history: has no other call come between?

Idle == [pc |-> "idle", op |-> "none", user |-> NoUser, token |-> 0, take |-> 0, found |-> {},
         alone |-> TRUE]

TypeOK ==
    /\ accounts \in SUBSET Users
    /\ rows \in [Users -> SUBSET Tokens]
    /\ \A u \in Users : IsFiniteSet(rows[u])
    /\ revoked \in SUBSET Tokens
    /\ issued \in Nat
    /\ lapsed \in Nat
    /\ req \in [Reqs -> Request]
    /\ \A r \in Reqs : /\ req[r].pc \notin {"idle", "lookup"} => req[r].user \in Users
                       /\ req[r].pc = "revoke" => req[r].token \in Tokens
    /\ excused \in [Users -> BOOLEAN]

Init ==
    /\ accounts = {u \in Users : Legacy[u] # {}}
    /\ rows = Legacy
    /\ revoked = {}
    /\ issued = LegacyIssued
    /\ lapsed = 0
    /\ req = [r \in Reqs |-> Idle]
    /\ excused = [u \in Users |-> Cardinality(Legacy[u]) > MaxTokens]

At(r, label) == req[r].pc = label

Goto(r, label) == req' = [req EXCEPT ![r].pc = label]

Return(r) == req' = [req EXCEPT ![r] = Idle]

User(r) == req[r].user

\* DELETE of the rows of u that hold a token of T
Delete(u, T) ==
    /\ rows' = [rows EXCEPT ![u] = @ \ T]
    /\ revoked' = revoked \ (rows[u] \cap T)

-----------------------------------------------------------------------------
(* Calls arrive.  One that comes while another is executing takes from both *)
(* of them the claim of having run alone.                                   *)

Active == {r \in Reqs : ~At(r, "idle")}

Overlapping == [s \in Reqs |-> IF s \in Active THEN [req[s] EXCEPT !.alone = FALSE] ELSE req[s]]

\* Bound: every call that may store a token has one left to store
Room == issued + Cardinality(Active) < MaxIssued

Begin(r, label, op, u, t) ==
    /\ At(r, "idle")
    /\ req' = [Overlapping EXCEPT ![r] =
          [Idle EXCEPT !.pc = label, !.op = op, !.user = u, !.token = t,
                       !.alone = (Active = {})]]

\* login has found the account and the password right.  (No code of the program
\* locks or suspends an account: the checks for it never refuse.)
Login(r, u) ==
    /\ Room
    /\ u \in accounts
    /\ Begin(r, "save", "login", u, 0)
    /\ UNCHANGED <<accounts, rows, revoked, issued, lapsed, excused>>

Register(r, u) ==
    /\ Room
    /\ Begin(r, "check", "register", u, 0)
    /\ UNCHANGED <<accounts, rows, revoked, issued, lapsed, excused>>

\* findByEmail of register
CheckEmail(r) ==
    /\ At(r, "check")
    /\ IF User(r) \in accounts THEN Return(r) ELSE Goto(r, "account")
    /\ UNCHANGED <<accounts, rows, revoked, issued, lapsed, excused>>

\* usersService.create: e-mail addresses are unique
CreateAccount(r) ==
    /\ At(r, "account")
    /\ accounts' = accounts \cup {User(r)}
    /\ IF User(r) \in accounts THEN Return(r) ELSE Goto(r, "save")
    /\ UNCHANGED <<rows, revoked, issued, lapsed, excused>>

Refresh(r, t) ==
    /\ Room
    /\ Begin(r, "lookup", "refresh", NoUser, t)
    /\ UNCHANGED <<accounts, rows, revoked, issued, lapsed, excused>>

Logout(r, t) ==
    /\ Begin(r, "lookup", "logout", NoUser, t)
    /\ UNCHANGED <<accounts, rows, revoked, issued, lapsed, excused>>

-----------------------------------------------------------------------------
(* storeRefreshToken and cleanupOldTokens. *)

\* (mutant: the cleanup that follows the INSERT is forgotten)
SaveOnly(r) ==
    /\ At(r, "save")
    /\ IF User(r) \in accounts
       THEN /\ issued' = issued + 1
            /\ rows' = [rows EXCEPT ![User(r)] = @ \cup {issued + 1}]
            /\ excused' = [excused EXCEPT ![User(r)] = FALSE]
       ELSE UNCHANGED <<rows, issued, excused>>
    /\ Return(r)
    /\ UNCHANGED <<accounts, revoked, lapsed>>

\* INSERT; without the account the foreign key refuses the row
Save(r) ==
    /\ At(r, "save")
    /\ IF User(r) \in accounts
       THEN /\ issued' = issued + 1
            /\ rows' = [rows EXCEPT ![User(r)] = @ \cup {issued + 1}]
            /\ excused' = [excused EXCEPT ![User(r)] = FALSE]
            /\ req' = [req EXCEPT ![r].pc = "purge", ![r].token = issued + 1]
       ELSE Return(r) /\ UNCHANGED <<rows, issued, excused>>
    /\ UNCHANGED <<accounts, revoked, lapsed>>

\* DELETE ... WHERE expiresAt < now
Purge(r) ==
    /\ At(r, "purge")
    /\ Delete(User(r), 1..lapsed)
    /\ Goto(r, "count")
    /\ UNCHANGED <<accounts, issued, lapsed, excused>>

\* (mutant: a limit one too high)
CountShort(r) ==
    /\ At(r, "count")
    /\ LET n == Cardinality(rows[User(r)])
       IN IF n > MaxTokens + 1
          THEN req' = [req EXCEPT ![r].pc = "oldest", ![r].take = n - MaxTokens]
          ELSE Return(r)
    /\ UNCHANGED <<accounts, rows, revoked, issued, lapsed, excused>>

Count(r) ==
    /\ At(r, "count")
    /\ LET n == Cardinality(rows[User(r)])
       IN IF n > MaxTokens
          THEN req' = [req EXCEPT ![r].pc = "oldest", ![r].take = n - MaxTokens]
          ELSE Return(r)
    /\ UNCHANGED <<accounts, rows, revoked, issued, lapsed, excused>>

\* (mutant: ORDER BY createdAt DESC)
Newest(T, n) ==
    {S \in SUBSET T :
        /\ \A x \in S, y \in T \ S : x > y
        /\ IF n <= Cardinality(T) THEN Cardinality(S) = n ELSE S = T}

\* The n oldest of a set of tokens, or all of them when there are fewer
Oldest(T, n) ==
    {S \in SUBSET T :
        /\ \A x \in S, y \in T \ S : x < y
        /\ IF n <= Cardinality(T) THEN Cardinality(S) = n ELSE S = T}

FindOldest(r) ==
    /\ At(r, "oldest")
    /\ \E S \in Oldest(rows[User(r)], req[r].take) :
          IF S = {} THEN Return(r)
          ELSE req' = [req EXCEPT ![r].pc = "remove", ![r].found = S]
    /\ UNCHANGED <<accounts, rows, revoked, issued, lapsed, excused>>

RemoveOldest(r) ==
    /\ At(r, "remove")
    /\ Delete(User(r), req[r].found)
    /\ Return(r)
    /\ UNCHANGED <<accounts, issued, lapsed, excused>>

-----------------------------------------------------------------------------
(* refreshTokens and logout, which look for a row that holds the token as   *)
(* it was presented.                                                        *)

Matches(u, t) == t \in rows[u] /\ t <= LegacyIssued

\* (mutant: a token without a row is not refused)
LookupUnchecked(r) ==
    /\ At(r, "lookup")
    /\ LET t == req[r].token IN
       \/ /\ \A u \in Users : ~Matches(u, t)
          /\ Goto(r, IF req[r].op = "logout" THEN "drop" ELSE "rotate")
       \/ \E u \in Users :
             /\ Matches(u, t)
             /\ req' = [req EXCEPT ![r].pc = IF req[r].op = "logout" THEN "drop" ELSE "rotate",
                                   ![r].user = u]
    /\ UNCHANGED <<accounts, rows, revoked, issued, lapsed, excused>>

Lookup(r) ==
    /\ At(r, "lookup")
    /\ LET t == req[r].token IN
       \/ /\ \A u \in Users : ~Matches(u, t)
          /\ Return(r)
       \/ \E u \in Users :
             /\ Matches(u, t)
             /\ IF req[r].op = "logout" \/ t <= lapsed
                THEN req' = [req EXCEPT ![r].pc = "drop", ![r].user = u]
                ELSE IF t \notin revoked
                THEN req' = [req EXCEPT ![r].pc = "rotate", ![r].user = u]
                ELSE Return(r)
    /\ UNCHANGED <<accounts, rows, revoked, issued, lapsed, excused>>

\* remove(storedToken) of logout, and of refreshTokens for an expired row
Drop(r) ==
    /\ At(r, "drop")
    /\ Delete(User(r), {req[r].token})
    /\ Return(r)
    /\ UNCHANGED <<accounts, issued, lapsed, excused>>

\* Rotation: the old row goes before generateTokenPair stores the new one
Rotate(r) ==
    /\ At(r, "rotate")
    /\ Delete(User(r), {req[r].token})
    /\ Goto(r, "save")
    /\ UNCHANGED <<accounts, issued, lapsed, excused>>

-----------------------------------------------------------------------------
(* revokeToken: findOne, then save, which inserts a row that has gone. *)

Revoke(r, u, t) ==
    /\ t \in rows[u]
    /\ Begin(r, "revoke", "revoke", u, t)
    /\ UNCHANGED <<accounts, rows, revoked, issued, lapsed, excused>>

SaveRevoked(r) ==
    /\ At(r, "revoke")
    /\ IF User(r) \in accounts
       THEN /\ revoked' = revoked \cup {req[r].token}
            /\ rows' = [rows EXCEPT ![User(r)] = @ \cup {req[r].token}]
            /\ excused' = [excused EXCEPT ![User(r)] = @ \/ req[r].token \notin rows[User(r)]]
       ELSE UNCHANGED <<revoked, rows, excused>>
    /\ Return(r)
    /\ UNCHANGED <<accounts, issued, lapsed>>

-----------------------------------------------------------------------------
(* Single statements, and what happens by itself. *)

\* logoutAllDevices
LogoutAllDevices(u) ==
    /\ Delete(u, rows[u])
    /\ req' = Overlapping
    /\ UNCHANGED <<accounts, issued, lapsed, excused>>

\* usersService.create for POST /users
AddAccount(u) ==
    /\ accounts' = accounts \cup {u}
    /\ UNCHANGED <<rows, revoked, issued, lapsed, req, excused>>

\* usersService.remove; the rows go with the account (onDelete: CASCADE)
RemoveAccount(u) ==
    /\ accounts' = accounts \ {u}
    /\ Delete(u, rows[u])
    /\ req' = Overlapping
    /\ UNCHANGED <<issued, lapsed, excused>>

\* Seven days have passed since the oldest valid token was issued
Lapse ==
    /\ lapsed < issued
    /\ lapsed' = lapsed + 1
    /\ UNCHANGED <<accounts, rows, revoked, issued, req, excused>>

Storing(r) == req[r].pc \in {"purge", "count", "oldest", "remove"}

\* A statement fails: the call ends there, and what it did before stays done
DbError(r) ==
    /\ DbFails
    /\ ~At(r, "idle")
    /\ excused' = [u \in Users |-> excused[u] \/ (Storing(r) /\ User(r) = u)]
    /\ Return(r)
    /\ UNCHANGED <<accounts, rows, revoked, issued, lapsed>>

-----------------------------------------------------------------------------
Next ==
    \/ \E r \in Reqs, u \in Users : Login(r, u)
    \/ \E r \in Reqs, u \in Users : Register(r, u)
    \/ \E r \in Reqs : CheckEmail(r)
    \/ \E r \in Reqs : CreateAccount(r)
    \/ \E r \in Reqs, t \in 1..issued : Refresh(r, t)
    \/ \E r \in Reqs, t \in 1..issued : Logout(r, t)
    \/ \E r \in Reqs : Save(r)
    \/ \E r \in Reqs : Purge(r)
    \/ \E r \in Reqs : Count(r)
    \/ \E r \in Reqs : FindOldest(r)
    \/ \E r \in Reqs : RemoveOldest(r)
    \/ \E r \in Reqs : Lookup(r)
    \/ \E r \in Reqs : Drop(r)
    \/ \E r \in Reqs : Rotate(r)
    \/ \E r \in Reqs, u \in Users : \E t \in rows[u] : Revoke(r, u, t)
    \/ \E r \in Reqs : SaveRevoked(r)
    \/ \E u \in Users : LogoutAllDevices(u)
    \/ \E u \in Users : AddAccount(u)
    \/ \E u \in Users : RemoveAccount(u)
    \/ Lapse
    \/ \E r \in Reqs : DbError(r)

Spec == Init /\ [][Next]_vars

-----------------------------------------------------------------------------
(* Properties. *)

\* storeRefreshToken inserts first and cleans up in four more awaits
\* (auth.service.ts:344-375), on counts that other logins make stale: still,
\* when no call is storing a token of a user's, the user has at most
\* MAX_REFRESH_TOKENS_PER_USER rows, unless a cleanup was cut off by an error
\* or revokeToken has put a removed row back since the last login.
SessionCap ==
    \A u \in Users :
        (\A r \in Reqs : ~(Storing(r) /\ User(r) = u)) /\ ~excused[u]
            => Cardinality(rows[u]) <= MaxTokens

\* Why it holds: while the limit is exceeded, some cleanup in flight either has
\* still to count, or will remove enough of the rows there are now.
WillTrim(r) ==
    LET T == rows[User(r)]
    IN \/ At(r, "purge")
       \/ At(r, "count")
       \/ At(r, "oldest") /\ Cardinality(T) <= MaxTokens + req[r].take
       \/ At(r, "remove") /\ Cardinality(T \ req[r].found) <= MaxTokens

CapInv ==
    \A u \in Users :
        \/ Cardinality(rows[u]) <= MaxTokens
        \/ excused[u]
        \/ \E r \in Reqs : User(r) = u /\ WillTrim(r)

\* A login that no other call overlapped ends with the newest sessions: the
\* rows it evicts are older than those it keeps, and it keeps as many as allowed
KeepsNewest ==
    [][\A r \in Reqs : At(r, "remove") /\ req'[r] = Idle /\ rows' # rows /\ req[r].alone =>
          LET kept == rows'[User(r)]
          IN /\ Cardinality(kept) = MaxTokens
             /\ \A old \in rows[User(r)] \ kept, new \in kept : old < new]_vars

\* auth.controller.ts:58: a refresh with a token whose row is there, unexpired
\* and unrevoked, is granted
LiveTokenRefreshes ==
    [][\A r \in Reqs, u \in Users :
          At(r, "lookup") /\ req[r].op = "refresh" /\ req'[r] = Idle /\ ~DbFails =>
              ~(req[r].token \in rows[u] \ revoked /\ req[r].token > lapsed)]_vars

=============================================================================
