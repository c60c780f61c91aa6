------------------------- MODULE AuthSessionsProofs -------------------------
(***************************************************************************)
(* Proofs about AuthSessions, for any users, requests, limit and rows at   *)
(* the start: the types, and the limit on refresh tokens per user.         *)
(***************************************************************************)
EXTENDS AuthSessions, FiniteSetTheorems, TLAPS

-----------------------------------------------------------------------------
(* Types. *)

\* The cardinality of a user's rows is a number: what Count computes with.
LEMMA RowsFinite ==
    ASSUME TypeOK, NEW u \in Users
    PROVE  /\ IsFiniteSet(rows[u])
           /\ Cardinality(rows[u]) \in Nat
  BY FS_CardinalityType DEF TypeOK

\* Overlapping touches nothing but the history of a request.
LEMMA OverlappingKeeps ==
    ASSUME TypeOK
    PROVE  /\ Overlapping \in [Reqs -> Request]
           /\ \A r \in Reqs : /\ Overlapping[r].pc = req[r].pc
                              /\ Overlapping[r].op = req[r].op
                              /\ Overlapping[r].user = req[r].user
                              /\ Overlapping[r].token = req[r].token
                              /\ Overlapping[r].take = req[r].take
                              /\ Overlapping[r].found = req[r].found
  BY DEF TypeOK, Overlapping, Request

\* The value of an idle request is one of a request.
LEMMA IdleType == Idle \in Request /\ Idle.pc = "idle"
  BY DEF Idle, Request, Labels

\* Deleting rows keeps the types of the tables.
LEMMA DeleteType ==
    ASSUME TypeOK, NEW u \in Users, NEW T, Delete(u, T)
    PROVE  /\ rows' \in [Users -> SUBSET Tokens]
           /\ \A v \in Users : IsFiniteSet(rows'[v])
           /\ revoked' \in SUBSET Tokens
           /\ rows'[u] = rows[u] \ T
           /\ \A v \in Users \ {u} : rows'[v] = rows[v]
<1>1. rows' = [rows EXCEPT ![u] = rows[u] \ T] /\ revoked' = revoked \ (rows[u] \cap T)
  BY DEF Delete
<1>2. IsFiniteSet(rows[u] \ T)
  BY FS_Difference DEF TypeOK
<1> QED BY <1>1, <1>2 DEF TypeOK

\* The types hold at the start.
LEMMA TypeInit == Init => TypeOK
<1> SUFFICES ASSUME Init PROVE TypeOK
  OBVIOUS
<1>1. /\ req \in [Reqs -> Request]
      /\ \A r \in Reqs : req[r].pc = "idle"
  BY IdleType DEF Init
<1>2. /\ rows \in [Users -> SUBSET Tokens]
      /\ \A u \in Users : rows[u] \subseteq 1..LegacyIssued
  BY LegacyAssumption DEF Init, Tokens
<1>3. ASSUME NEW u \in Users PROVE IsFiniteSet(rows[u])
  <2>1. 1 \in Int /\ LegacyIssued \in Int
    BY LegacyAssumption
  <2>2. IsFiniteSet(1..LegacyIssued)
    BY ONLY <2>1, FS_Interval
  <2>3. rows[u] \subseteq 1..LegacyIssued
    BY <1>2
  <2> QED BY ONLY <2>2, <2>3, FS_Subset
<1>4. /\ accounts \in SUBSET Users
      /\ revoked \in SUBSET Tokens
      /\ issued \in Nat /\ lapsed \in Nat
      /\ excused \in [Users -> BOOLEAN]
  BY LegacyAssumption DEF Init
<1> QED BY <1>1, <1>2, <1>3, <1>4 DEF TypeOK

\* A call begins with the types of its parameters.
LEMMA BeginType ==
    ASSUME TypeOK, NEW r \in Reqs, NEW label \in Labels,
           NEW op \in {"login", "register", "refresh", "logout", "revoke"},
           NEW u \in Users \cup {NoUser}, NEW t \in Nat,
           label \notin {"idle", "lookup"} => u \in Users,
           label = "revoke" => t \in Tokens,
           Begin(r, label, op, u, t)
    PROVE  /\ req' \in [Reqs -> Request]
           /\ \A s \in Reqs : /\ req'[s].pc \notin {"idle", "lookup"} => req'[s].user \in Users
                              /\ req'[s].pc = "revoke" => req'[s].token \in Tokens
<1> DEFINE new == [Idle EXCEPT !.pc = label, !.op = op, !.user = u, !.token = t,
                               !.alone = (Active = {})]
<1>1. new \in Request /\ new.pc = label /\ new.user = u /\ new.token = t
  BY DEF Request, Idle
<1>2. req' = [Overlapping EXCEPT ![r] = new]
  BY DEF Begin
<1> HIDE DEF new
<1>3. \A s \in Reqs : req'[s] = IF s = r THEN new ELSE Overlapping[s]
  BY <1>2, OverlappingKeeps
<1> QED BY <1>1, <1>2, <1>3, OverlappingKeeps DEF TypeOK

\* A step that moves one request keeps the types when the request is well typed.
LEMMA MoveType ==
    ASSUME TypeOK, NEW r \in Reqs, NEW now \in Request,
           now.pc \notin {"idle", "lookup"} => now.user \in Users,
           now.pc = "revoke" => now.token \in Tokens,
           req' = [req EXCEPT ![r] = now]
    PROVE  /\ req' \in [Reqs -> Request]
           /\ \A s \in Reqs : /\ req'[s].pc \notin {"idle", "lookup"} => req'[s].user \in Users
                              /\ req'[s].pc = "revoke" => req'[s].token \in Tokens
  BY DEF TypeOK

\* A call that returns keeps the types of the calls.
LEMMA ReturnType ==
    ASSUME TypeOK, NEW r \in Reqs, Return(r)
    PROVE  /\ req' \in [Reqs -> Request]
           /\ \A s \in Reqs : /\ req'[s].pc \notin {"idle", "lookup"} => req'[s].user \in Users
                              /\ req'[s].pc = "revoke" => req'[s].token \in Tokens
  BY IdleType, MoveType DEF Return

\* So does one that goes on to its next await.
LEMMA GotoType ==
    ASSUME TypeOK, NEW r \in Reqs, NEW label \in Labels \ {"revoke"}, Goto(r, label),
           req[r].user \in Users
    PROVE  /\ req' \in [Reqs -> Request]
           /\ \A s \in Reqs : /\ req'[s].pc \notin {"idle", "lookup"} => req'[s].user \in Users
                              /\ req'[s].pc = "revoke" => req'[s].token \in Tokens
<1> DEFINE now == [req[r] EXCEPT !.pc = label]
<1>1. /\ now \in Request /\ now.pc = label /\ now.user \in Users
  BY DEF TypeOK, Request
<1>2. req' = [req EXCEPT ![r] = now]
  BY DEF Goto
<1> HIDE DEF now
<1> QED BY <1>1, <1>2, MoveType

\* Every step keeps the types.
LEMMA TypeStep == TypeOK /\ [Next]_vars => TypeOK'
<1> SUFFICES ASSUME TypeOK, [Next]_vars PROVE TypeOK'
  OBVIOUS
<1> USE DEF At, User
<1> DEFINE Requests == /\ req' \in [Reqs -> Request]
                       /\ \A s \in Reqs :
                             /\ req'[s].pc \notin {"idle", "lookup"} => req'[s].user \in Users
                             /\ req'[s].pc = "revoke" => req'[s].token \in Tokens
<1>1. ASSUME NEW r \in Reqs, NEW u \in Users, Login(r, u) PROVE TypeOK'
  <2>1. Requests
    BY <1>1, BeginType DEF Login, Labels
  <2> QED BY <1>1, <2>1 DEF TypeOK, Login
<1>2. ASSUME NEW r \in Reqs, NEW u \in Users, Register(r, u) PROVE TypeOK'
  <2>1. Requests
    BY <1>2, BeginType DEF Register, Labels
  <2> QED BY <1>2, <2>1 DEF TypeOK, Register
<1>3. ASSUME NEW r \in Reqs, CheckEmail(r) PROVE TypeOK'
  <2>1. req[r].user \in Users
    BY <1>3 DEF CheckEmail, TypeOK
  <2>2. Requests
    BY <1>3, <2>1, ReturnType, GotoType DEF CheckEmail, Labels
  <2> QED BY <1>3, <2>2 DEF TypeOK, CheckEmail
<1>4. ASSUME NEW r \in Reqs, CreateAccount(r) PROVE TypeOK'
  <2>1. req[r].user \in Users
    BY <1>4 DEF CreateAccount, TypeOK
  <2>2. Requests
    BY <1>4, <2>1, ReturnType, GotoType DEF CreateAccount, Labels
  <2> QED BY <1>4, <2>1, <2>2 DEF TypeOK, CreateAccount
<1>5. ASSUME NEW r \in Reqs, NEW t \in 1..issued, Refresh(r, t) PROVE TypeOK'
  <2>1. t \in Nat
    BY DEF TypeOK
  <2>2. Requests
    BY <1>5, <2>1, BeginType DEF Refresh, Labels
  <2> QED BY <1>5, <2>2 DEF TypeOK, Refresh
<1>6. ASSUME NEW r \in Reqs, NEW t \in 1..issued, Logout(r, t) PROVE TypeOK'
  <2>1. t \in Nat
    BY DEF TypeOK
  <2>2. Requests
    BY <1>6, <2>1, BeginType DEF Logout, Labels
  <2> QED BY <1>6, <2>2 DEF TypeOK, Logout
<1>7. ASSUME NEW r \in Reqs, Save(r) PROVE TypeOK'
  <2>1. req[r].user \in Users
    BY <1>7 DEF Save, TypeOK
  <2>2. CASE req[r].user \in accounts
    <3> DEFINE now == [req[r] EXCEPT !.pc = "purge", !.token = issued + 1]
    <3>0. req[r] \in Request /\ issued + 1 \in Nat
      BY DEF TypeOK
    <3>1. now \in Request /\ now.pc = "purge" /\ now.user \in Users
      BY <2>1, <3>0 DEF Request, Labels
    <3>2. req' = [req EXCEPT ![r] = now]
      BY <1>7, <2>2 DEF Save
    <3> HIDE DEF now
    <3>3. Requests
      BY <3>1, <3>2, MoveType
    <3>4. IsFiniteSet(rows[req[r].user] \cup {issued + 1})
      BY <2>1, FS_AddElement DEF TypeOK
    <3>5. issued + 1 \in Tokens
      BY DEF TypeOK, Tokens
    <3>6. rows' = [rows EXCEPT ![req[r].user] = rows[req[r].user] \cup {issued + 1}]
      BY <1>7, <2>2 DEF Save
    <3>7. /\ rows' \in [Users -> SUBSET Tokens]
          /\ \A u \in Users : IsFiniteSet(rows'[u])
      BY <2>1, <3>4, <3>5, <3>6 DEF TypeOK
    <3>8. excused' \in [Users -> BOOLEAN]
      BY <1>7, <2>2 DEF TypeOK, Save
    <3>9. issued' \in Nat /\ UNCHANGED <<accounts, revoked, lapsed>>
      BY <1>7, <2>2 DEF TypeOK, Save
    <3> QED BY <3>3, <3>7, <3>8, <3>9 DEF TypeOK
  <2>3. CASE req[r].user \notin accounts
    <3>1. Requests
      BY <1>7, <2>3, ReturnType DEF Save
    <3> QED BY <1>7, <2>3, <3>1 DEF TypeOK, Save
  <2> QED BY <2>2, <2>3
<1>8. ASSUME NEW r \in Reqs, Purge(r) PROVE TypeOK'
  <2>1. req[r].user \in Users
    BY <1>8 DEF Purge, TypeOK
  <2>2. Requests
    BY <1>8, <2>1, GotoType DEF Purge, Labels
  <2> QED BY <1>8, <2>1, <2>2, DeleteType DEF TypeOK, Purge
<1>9. ASSUME NEW r \in Reqs, Count(r) PROVE TypeOK'
  <2>1. req[r].user \in Users
    BY <1>9 DEF Count, TypeOK
  <2> DEFINE n == Cardinality(rows[req[r].user])
  <2>2. n \in Nat
    BY <2>1, RowsFinite
  <2>3. CASE n > MaxTokens
    <3> DEFINE now == [req[r] EXCEPT !.pc = "oldest", !.take = n - MaxTokens]
    <3>1. n - MaxTokens \in Nat
      BY <2>2, <2>3, MaxTokensAssumption
    <3>2. req' = [req EXCEPT ![r] = now]
      BY <1>9, <2>3 DEF Count
    <3> HIDE DEF n
    <3>3. now \in Request /\ now.pc = "oldest" /\ now.user \in Users
      BY <2>1, <3>1 DEF TypeOK, Request, Labels
    <3> HIDE DEF now
    <3>4. Requests
      BY <3>2, <3>3, MoveType
    <3> QED BY <1>9, <3>4 DEF TypeOK, Count
  <2>4. CASE ~(n > MaxTokens)
    <3>1. Requests
      BY <1>9, <2>4, ReturnType DEF Count
    <3> QED BY <1>9, <3>1 DEF TypeOK, Count
  <2> QED BY <2>3, <2>4
<1>10. ASSUME NEW r \in Reqs, FindOldest(r) PROVE TypeOK'
  <2>1. req[r].user \in Users
    BY <1>10 DEF FindOldest, TypeOK
  <2>2. PICK S \in Oldest(rows[req[r].user], req[r].take) :
           IF S = {} THEN Return(r)
           ELSE req' = [req EXCEPT ![r].pc = "remove", ![r].found = S]
    BY <1>10 DEF FindOldest
  <2>3. S \subseteq Tokens
    BY <2>1 DEF Oldest, TypeOK
  <2>4. CASE S = {}
    <3>1. Requests
      BY <2>2, <2>4, ReturnType
    <3> QED BY <1>10, <3>1 DEF TypeOK, FindOldest
  <2>5. CASE S # {}
    <3> DEFINE now == [req[r] EXCEPT !.pc = "remove", !.found = S]
    <3>1. now \in Request /\ now.pc = "remove" /\ now.user \in Users
      BY <2>1, <2>3 DEF TypeOK, Request, Labels
    <3>2. req' = [req EXCEPT ![r] = now]
      BY <2>2, <2>5
    <3> HIDE DEF now
    <3>3. Requests
      BY <3>1, <3>2, MoveType
    <3> QED BY <1>10, <3>3 DEF TypeOK, FindOldest
  <2> QED BY <2>4, <2>5
<1>11. ASSUME NEW r \in Reqs, RemoveOldest(r) PROVE TypeOK'
  <2>1. req[r].user \in Users
    BY <1>11 DEF RemoveOldest, TypeOK
  <2>2. Requests
    BY <1>11, ReturnType DEF RemoveOldest
  <2> QED BY <1>11, <2>1, <2>2, DeleteType DEF TypeOK, RemoveOldest
<1>12. ASSUME NEW r \in Reqs, Lookup(r) PROVE TypeOK'
  <2>1. Requests
    <3>1. CASE Return(r)
      BY <3>1, ReturnType
    <3>2. CASE \E u \in Users, label \in {"drop", "rotate"} :
                  req' = [req EXCEPT ![r].pc = label, ![r].user = u]
      <4>1. PICK u \in Users, label \in {"drop", "rotate"} :
                  req' = [req EXCEPT ![r].pc = label, ![r].user = u]
        BY <3>2
      <4> DEFINE now == [req[r] EXCEPT !.pc = label, !.user = u]
      <4>2. now \in Request /\ now.pc = label /\ now.user = u
        BY DEF TypeOK, Request, Labels
      <4>3. req' = [req EXCEPT ![r] = now]
        BY <4>1
      <4> HIDE DEF now
      <4> QED BY <4>2, <4>3, MoveType
    <3> QED BY <1>12, <3>1, <3>2 DEF Lookup
  <2> QED BY <1>12, <2>1 DEF TypeOK, Lookup
<1>13. ASSUME NEW r \in Reqs, Drop(r) PROVE TypeOK'
  <2>1. req[r].user \in Users
    BY <1>13 DEF Drop, TypeOK
  <2>2. Requests
    BY <1>13, ReturnType DEF Drop
  <2> QED BY <1>13, <2>1, <2>2, DeleteType DEF TypeOK, Drop
<1>14. ASSUME NEW r \in Reqs, Rotate(r) PROVE TypeOK'
  <2>1. req[r].user \in Users
    BY <1>14 DEF Rotate, TypeOK
  <2>2. Requests
    BY <1>14, <2>1, GotoType DEF Rotate, Labels
  <2> QED BY <1>14, <2>1, <2>2, DeleteType DEF TypeOK, Rotate
<1>15. ASSUME NEW r \in Reqs, NEW u \in Users, NEW t \in rows[u], Revoke(r, u, t) PROVE TypeOK'
  <2>1. t \in Nat /\ t \in Tokens
    BY DEF TypeOK, Tokens
  <2>2. Requests
    BY <1>15, <2>1, BeginType DEF Revoke, Labels
  <2> QED BY <1>15, <2>2 DEF TypeOK, Revoke
<1>16. ASSUME NEW r \in Reqs, SaveRevoked(r) PROVE TypeOK'
  <2>1. req[r].user \in Users /\ req[r].token \in Tokens
    BY <1>16 DEF SaveRevoked, TypeOK
  <2>2. Requests
    BY <1>16, ReturnType DEF SaveRevoked
  <2>3. CASE req[r].user \in accounts
    <3>0. IsFiniteSet(rows[req[r].user])
      BY <2>1 DEF TypeOK
    <3>1. IsFiniteSet(rows[req[r].user] \cup {req[r].token})
      BY <3>0, FS_AddElement
    <3>2. rows' = [rows EXCEPT ![req[r].user] = rows[req[r].user] \cup {req[r].token}]
      BY <1>16, <2>3 DEF SaveRevoked
    <3>3. /\ rows' \in [Users -> SUBSET Tokens]
          /\ \A u \in Users : IsFiniteSet(rows'[u])
      BY <2>1, <3>1, <3>2 DEF TypeOK
    <3>4. excused' \in [Users -> BOOLEAN]
      BY <1>16, <2>1, <2>3 DEF SaveRevoked, TypeOK
    <3>5. revoked' \in SUBSET Tokens
      BY <1>16, <2>1, <2>3 DEF SaveRevoked, TypeOK
    <3> QED BY <1>16, <2>2, <3>3, <3>4, <3>5 DEF TypeOK, SaveRevoked
  <2>4. CASE req[r].user \notin accounts
    BY <1>16, <2>2, <2>4 DEF TypeOK, SaveRevoked
  <2> QED BY <2>3, <2>4
<1>17. ASSUME NEW u \in Users, LogoutAllDevices(u) PROVE TypeOK'
  BY <1>17, DeleteType, OverlappingKeeps DEF TypeOK, LogoutAllDevices
<1>18. ASSUME NEW u \in Users, AddAccount(u) PROVE TypeOK'
  BY <1>18 DEF TypeOK, AddAccount
<1>19. ASSUME NEW u \in Users, RemoveAccount(u) PROVE TypeOK'
  BY <1>19, DeleteType, OverlappingKeeps DEF TypeOK, RemoveAccount
<1>20. ASSUME Lapse PROVE TypeOK'
  BY <1>20 DEF TypeOK, Lapse
<1>21. ASSUME NEW r \in Reqs, DbError(r) PROVE TypeOK'
  <2>1. Requests
    BY <1>21, ReturnType DEF DbError
  <2>2. excused' \in [Users -> BOOLEAN]
    BY <1>21 DEF DbError, TypeOK
  <2> QED BY <1>21, <2>1, <2>2 DEF TypeOK, DbError
<1>22. ASSUME UNCHANGED vars PROVE TypeOK'
  BY <1>22 DEF TypeOK, vars
<1> QED
  BY <1>1, <1>2, <1>3, <1>4, <1>5, <1>6, <1>7, <1>8, <1>9, <1>10, <1>11, <1>12, <1>13, <1>14,
     <1>15, <1>16, <1>17, <1>18, <1>19, <1>20, <1>21, <1>22 DEF Next

\* The types, for any constants.
THEOREM TypeCorrect == Spec => []TypeOK
  BY TypeInit, TypeStep, PTL DEF Spec

-----------------------------------------------------------------------------
(* The limit. *)

\* CapInv for one user.
Capped(u) ==
    \/ Cardinality(rows[u]) <= MaxTokens
    \/ excused[u]
    \/ \E r \in Reqs : User(r) = u /\ WillTrim(r)

\* Fewer rows, a smaller count.
LEMMA FewerRows ==
    ASSUME NEW T, IsFiniteSet(T), NEW S, S \subseteq T
    PROVE  /\ IsFiniteSet(S)
           /\ Cardinality(S) \in Nat
           /\ Cardinality(S) <= Cardinality(T)
           /\ Cardinality(T \ S) = Cardinality(T) - Cardinality(S)
<1>1. IsFiniteSet(S) /\ Cardinality(S) <= Cardinality(T)
  BY FS_Subset
<1>2. Cardinality(T \ S) = Cardinality(T) - Cardinality(T \cap S)
  BY FS_Difference
<1>3. T \cap S = S
  OBVIOUS
<1> QED BY <1>1, <1>2, <1>3, FS_CardinalityType

\* A cleanup that will remove enough of some rows will remove enough of fewer.
LEMMA TrimsFewer ==
    ASSUME TypeOK, NEW r \in Reqs, User(r) \in Users, WillTrim(r),
           rows'[User(r)] \subseteq rows[User(r)],
           req'[r].pc = req[r].pc, req'[r].user = req[r].user,
           req'[r].take = req[r].take, req'[r].found = req[r].found
    PROVE  User(r)' = User(r) /\ WillTrim(r)'
<1> DEFINE T == rows[req[r].user]
           S == rows'[req[r].user]
<1>1. IsFiniteSet(T) /\ S \subseteq T
  BY DEF TypeOK, User
<1>2. Cardinality(S) <= Cardinality(T) /\ Cardinality(S) \in Nat /\ Cardinality(T) \in Nat
  BY <1>1, FewerRows, FS_CardinalityType
<1>3. IsFiniteSet(T \ req[r].found) /\ S \ req[r].found \subseteq T \ req[r].found
  BY <1>1, FS_Difference
<1>4. /\ Cardinality(S \ req[r].found) <= Cardinality(T \ req[r].found)
      /\ Cardinality(S \ req[r].found) \in Nat
      /\ Cardinality(T \ req[r].found) \in Nat
  BY <1>3, FewerRows, FS_CardinalityType
<1>5. req[r].take \in Nat /\ MaxTokens \in Nat
  BY MaxTokensAssumption DEF TypeOK, Request
<1>6. CASE At(r, "purge") \/ At(r, "count")
  BY <1>6 DEF WillTrim, At, User
<1>7. CASE At(r, "oldest")
  <2>1. Cardinality(T) <= MaxTokens + req[r].take
    BY <1>7 DEF WillTrim, At, User
  <2>2. Cardinality(S) <= MaxTokens + req[r].take
    BY <2>1, <1>2, <1>5
  <2> QED BY <1>7, <2>2 DEF WillTrim, At, User
<1>8. CASE At(r, "remove")
  <2>1. Cardinality(T \ req[r].found) <= MaxTokens
    BY <1>8 DEF WillTrim, At, User
  <2>2. Cardinality(S \ req[r].found) <= MaxTokens
    BY <2>1, <1>4, <1>5
  <2> QED BY <1>8, <2>2 DEF WillTrim, At, User
<1> QED BY <1>6, <1>7, <1>8 DEF WillTrim

\* A step that stores nothing for a user and ends no cleanup of the user's.
LEMMA CapFrame ==
    ASSUME TypeOK, NEW u \in Users, Capped(u),
           rows'[u] \subseteq rows[u],
           excused[u] => excused'[u],
           \A r \in Reqs : User(r) = u /\ WillTrim(r) =>
               /\ req'[r].pc = req[r].pc
               /\ req'[r].user = req[r].user
               /\ req'[r].take = req[r].take
               /\ req'[r].found = req[r].found
    PROVE  Capped(u)'
<1>1. CASE Cardinality(rows[u]) <= MaxTokens
  <2>1. /\ Cardinality(rows'[u]) <= Cardinality(rows[u])
        /\ Cardinality(rows'[u]) \in Nat
        /\ Cardinality(rows[u]) \in Nat
    BY FewerRows, RowsFinite
  <2>2. Cardinality(rows'[u]) <= MaxTokens
    BY <1>1, <2>1, MaxTokensAssumption
  <2> QED BY <2>2 DEF Capped
<1>2. CASE excused[u]
  BY <1>2 DEF Capped
<1>3. CASE \E r \in Reqs : User(r) = u /\ WillTrim(r)
  <2>1. PICK r \in Reqs : User(r) = u /\ WillTrim(r)
    BY <1>3
  <2>2. User(r)' = u /\ WillTrim(r)'
    BY <2>1, TrimsFewer
  <2> QED BY <2>2 DEF Capped
<1> QED BY <1>1, <1>2, <1>3 DEF Capped

\* A request that is not in a cleanup, and a step of its own that moves no other.
LEMMA Bystanders ==
    ASSUME TypeOK, NEW u \in Users, Capped(u), NEW r \in Reqs,
           ~WillTrim(r) \/ User(r) # u,
           \A s \in Reqs \ {r} : req'[s] = req[s],
           rows'[u] \subseteq rows[u],
           excused[u] => excused'[u]
    PROVE  Capped(u)'
  BY CapFrame

\* What a call that begins leaves in place: every cleanup in flight.
LEMMA BeginFrame ==
    ASSUME TypeOK, NEW u \in Users, Capped(u),
           NEW r \in Reqs, NEW label, NEW op, NEW v, NEW t, Begin(r, label, op, v, t),
           UNCHANGED <<rows, excused>>
    PROVE  Capped(u)'
<1>1. ~WillTrim(r)
  BY DEF Begin, WillTrim, At
<1>2. \A s \in Reqs \ {r} : req'[s] = Overlapping[s]
  BY OverlappingKeeps DEF Begin
<1>3. \A s \in Reqs : User(s) = u /\ WillTrim(s) =>
          /\ req'[s].pc = req[s].pc
          /\ req'[s].user = req[s].user
          /\ req'[s].take = req[s].take
          /\ req'[s].found = req[s].found
  BY <1>1, <1>2, OverlappingKeeps
<1> QED BY <1>3, CapFrame

\* Return and Goto move one request.
LEMMA MovesOne ==
    ASSUME TypeOK, NEW r \in Reqs, NEW now, req' = [req EXCEPT ![r] = now]
    PROVE  /\ \A s \in Reqs \ {r} : req'[s] = req[s]
           /\ req'[r] = now
  BY DEF TypeOK

\* At the start only the rows that were there can be too many, which is excused.
LEMMA CapInit == Init => CapInv
<1> SUFFICES ASSUME Init, NEW u \in Users PROVE Capped(u)
  BY DEF CapInv, Capped
<1>1. Cardinality(rows[u]) > MaxTokens => excused[u]
  BY DEF Init
<1>2. Cardinality(rows[u]) \in Nat /\ MaxTokens \in Nat
  BY TypeInit, RowsFinite, MaxTokensAssumption
<1>3. Cardinality(rows[u]) > MaxTokens \/ Cardinality(rows[u]) <= MaxTokens
  BY <1>2
<1> QED BY <1>1, <1>3 DEF Capped

\* A step of Save: the new row's own cleanup answers for it.
LEMMA SaveCap ==
    ASSUME TypeOK, NEW u \in Users, Capped(u), NEW r \in Reqs, Save(r)
    PROVE  Capped(u)'
<1> USE DEF At, User
<1>1. CASE User(r) = u /\ u \in accounts
  <2>1. req' = [req EXCEPT ![r].pc = "purge", ![r].token = issued + 1]
    BY <1>1 DEF Save
  <2>2. req'[r].pc = "purge" /\ req'[r].user = u
    BY <1>1, <2>1 DEF TypeOK, Request
  <2> QED BY <2>2 DEF Capped, WillTrim
<1>2. CASE User(r) # u \/ u \notin accounts
  <2>1. ~WillTrim(r)
    BY DEF Save, WillTrim
  <2>2. rows'[u] = rows[u] /\ excused'[u] = excused[u]
    BY <1>2 DEF Save, TypeOK
  <2>3. \A s \in Reqs \ {r} : req'[s] = req[s]
    BY DEF Save, TypeOK, Return
  <2> QED BY <2>1, <2>2, <2>3, Bystanders
<1> QED BY <1>1, <1>2

\* Purge only makes room, and its request goes on to count.
LEMMA PurgeCap ==
    ASSUME TypeOK, NEW u \in Users, Capped(u), NEW r \in Reqs, Purge(r)
    PROVE  Capped(u)'
<1> USE DEF At, User
<1>1. User(r) \in Users
  BY DEF Purge, TypeOK
<1>2. req' = [req EXCEPT ![r].pc = "count"]
  BY DEF Purge, Goto
<1>3. CASE User(r) = u
  <2>1. req'[r].pc = "count" /\ req'[r].user = u
    BY <1>2, <1>3 DEF TypeOK, Request
  <2> QED BY <2>1 DEF Capped, WillTrim
<1>4. CASE User(r) # u
  <2>1. rows'[u] = rows[u] /\ excused'[u] = excused[u]
    BY <1>1, <1>4, DeleteType DEF Purge
  <2>2. \A s \in Reqs \ {r} : req'[s] = req[s]
    BY <1>2 DEF TypeOK
  <2> QED BY <1>4, <2>1, <2>2, Bystanders
<1> QED BY <1>3, <1>4

\* Count either finds the limit kept or takes on the whole excess.
LEMMA CountCap ==
    ASSUME TypeOK, NEW u \in Users, Capped(u), NEW r \in Reqs, Count(r)
    PROVE  Capped(u)'
<1> USE DEF At, User
<1> DEFINE n == Cardinality(rows[User(r)])
<1>1. rows' = rows /\ excused' = excused
  BY DEF Count
<1>2. \A s \in Reqs \ {r} : req'[s] = req[s]
  BY DEF Count, TypeOK, Return
<1>3. CASE User(r) # u
  BY <1>1, <1>2, <1>3, Bystanders
<1>4. CASE User(r) = u /\ n > MaxTokens
  <2>1. req' = [req EXCEPT ![r].pc = "oldest", ![r].take = n - MaxTokens]
    BY <1>4 DEF Count
  <2>2. n \in Nat /\ MaxTokens \in Nat
    BY <1>4, RowsFinite, MaxTokensAssumption
  <2> HIDE DEF n
  <2>3. req'[r].pc = "oldest" /\ req'[r].user = u /\ req'[r].take = n - MaxTokens
    BY <1>4, <2>1 DEF TypeOK, Request
  <2>4. n <= MaxTokens + (n - MaxTokens)
    BY <2>2
  <2>5. Cardinality(rows'[u]) = n
    BY <1>1, <1>4 DEF n
  <2> QED BY <2>3, <2>4, <2>5 DEF Capped, WillTrim
<1>5. CASE User(r) = u /\ ~(n > MaxTokens)
  <2>1. Cardinality(rows'[u]) <= MaxTokens
    BY <1>1, <1>5, RowsFinite, MaxTokensAssumption
  <2> QED BY <2>1 DEF Capped
<1> QED BY <1>3, <1>4, <1>5

\* FindOldest finds the whole excess, or all there is.
LEMMA FindOldestCap ==
    ASSUME TypeOK, NEW u \in Users, Capped(u), NEW r \in Reqs, FindOldest(r)
    PROVE  Capped(u)'
<1> USE DEF At, User
<1> DEFINE T == rows[User(r)]
           n == req[r].take
<1>1. rows' = rows /\ excused' = excused
  BY DEF FindOldest
<1>2. \A s \in Reqs \ {r} : req'[s] = req[s]
  BY DEF FindOldest, TypeOK, Return
<1>3. CASE ~WillTrim(r) \/ User(r) # u
  BY <1>1, <1>2, <1>3, Bystanders
<1>4. CASE WillTrim(r) /\ User(r) = u
  <2>1. Cardinality(T) <= MaxTokens + n
    BY <1>4 DEF FindOldest, WillTrim
  <2>2. IsFiniteSet(T) /\ Cardinality(T) \in Nat /\ n \in Nat /\ MaxTokens \in Nat
    BY <1>4, RowsFinite, MaxTokensAssumption DEF TypeOK, Request
  <2>3. PICK S \in Oldest(T, n) :
           IF S = {} THEN Return(r)
           ELSE req' = [req EXCEPT ![r].pc = "remove", ![r].found = S]
    BY DEF FindOldest
  <2>4. /\ S \subseteq T
        /\ IF n <= Cardinality(T) THEN Cardinality(S) = n ELSE S = T
    BY <2>3 DEF Oldest
  <2> HIDE DEF T, n
  <2>5. /\ Cardinality(S) \in Nat
        /\ Cardinality(T \ S) = Cardinality(T) - Cardinality(S)
    BY <2>2, <2>4, FewerRows
  <2>6. Cardinality(T) - Cardinality(S) <= MaxTokens
    BY <2>1, <2>2, <2>4, <2>5
  <2>7. CASE S = {}
    <3>1. T \ S = T
      BY <2>7
    <3>2. Cardinality(rows'[u]) <= MaxTokens
      BY <1>1, <1>4, <2>5, <2>6, <3>1 DEF T
    <3> QED BY <3>2 DEF Capped
  <2>8. CASE S # {}
    <3>1. req'[r].pc = "remove" /\ req'[r].user = u /\ req'[r].found = S
      BY <1>4, <2>3, <2>8 DEF TypeOK, Request
    <3>2. Cardinality(rows'[u] \ S) <= MaxTokens
      BY <1>1, <1>4, <2>5, <2>6 DEF T
    <3> QED BY <3>1, <3>2 DEF Capped, WillTrim
  <2> QED BY <2>7, <2>8
<1> QED BY <1>3, <1>4

\* RemoveOldest does what was found to be enough.
LEMMA RemoveOldestCap ==
    ASSUME TypeOK, NEW u \in Users, Capped(u), NEW r \in Reqs, RemoveOldest(r)
    PROVE  Capped(u)'
<1> USE DEF At, User
<1>1. User(r) \in Users
  BY DEF RemoveOldest, TypeOK
<1>2. /\ rows'[User(r)] = rows[User(r)] \ req[r].found
      /\ \A v \in Users \ {User(r)} : rows'[v] = rows[v]
      /\ excused' = excused
  BY <1>1, DeleteType DEF RemoveOldest
<1>3. \A s \in Reqs \ {r} : req'[s] = req[s]
  BY DEF RemoveOldest, TypeOK, Return
<1>4. CASE ~WillTrim(r) \/ User(r) # u
  BY <1>2, <1>3, <1>4, Bystanders
<1>5. CASE WillTrim(r) /\ User(r) = u
  BY <1>2, <1>5 DEF RemoveOldest, WillTrim, Capped
<1> QED BY <1>4, <1>5

\* The calls that only take rows away, or none, and are in no cleanup.
LEMMA OtherStepCap ==
    ASSUME TypeOK, NEW u \in Users, Capped(u), NEW r \in Reqs,
           \/ CheckEmail(r) \/ CreateAccount(r) \/ Lookup(r) \/ Drop(r) \/ Rotate(r)
    PROVE  Capped(u)'
<1> USE DEF At, User
<1>1. ~WillTrim(r)
  BY DEF WillTrim, CheckEmail, CreateAccount, Lookup, Drop, Rotate
<1>2. CASE CheckEmail(r) \/ CreateAccount(r) \/ Lookup(r)
  <2>1. UNCHANGED <<rows, excused>>
    BY <1>2 DEF CheckEmail, CreateAccount, Lookup
  <2>2. \A s \in Reqs \ {r} : req'[s] = req[s]
    BY <1>2 DEF CheckEmail, CreateAccount, Lookup, Return, Goto, TypeOK
  <2> QED BY <1>1, <2>1, <2>2, Bystanders
<1>3. CASE Drop(r) \/ Rotate(r)
  <2>1. User(r) \in Users
    BY <1>3 DEF Drop, Rotate, TypeOK
  <2>2. rows'[u] \subseteq rows[u] /\ excused' = excused
    BY <1>3, <2>1, DeleteType DEF Drop, Rotate
  <2>3. \A s \in Reqs \ {r} : req'[s] = req[s]
    BY <1>3 DEF Drop, Rotate, Return, Goto, TypeOK
  <2> QED BY <1>1, <2>2, <2>3, Bystanders
<1> QED BY <1>2, <1>3

\* A row that revokeToken puts back excuses the user.
LEMMA SaveRevokedCap ==
    ASSUME TypeOK, NEW u \in Users, Capped(u), NEW r \in Reqs, SaveRevoked(r)
    PROVE  Capped(u)'
<1> USE DEF At, User
<1>1. ~WillTrim(r)
  BY DEF WillTrim, SaveRevoked
<1>2. \A s \in Reqs \ {r} : req'[s] = req[s]
  BY DEF SaveRevoked, Return, TypeOK
<1>3. CASE User(r) = u /\ u \in accounts /\ req[r].token \notin rows[u]
  <2>1. excused'[u]
    BY <1>3 DEF SaveRevoked, TypeOK
  <2> QED BY <2>1 DEF Capped
<1>4. CASE ~(User(r) = u /\ u \in accounts /\ req[r].token \notin rows[u])
  <2>1. rows'[u] = rows[u]
    <3>1. CASE User(r) = u /\ u \in accounts
      <4>1. rows'[u] = rows[u] \cup {req[r].token}
        BY <3>1 DEF SaveRevoked, TypeOK
      <4> QED BY <1>4, <3>1, <4>1
    <3>2. CASE User(r) # u
      BY <3>2 DEF SaveRevoked, TypeOK
    <3>3. CASE u \notin accounts
      BY <3>3 DEF SaveRevoked, TypeOK
    <3> QED BY <3>1, <3>2, <3>3
  <2>2. excused[u] => excused'[u]
    BY DEF SaveRevoked, TypeOK
  <2> QED BY <1>1, <1>2, <2>1, <2>2, Bystanders
<1> QED BY <1>3, <1>4

\* A cleanup that an error cuts off excuses the user.
LEMMA DbErrorCap ==
    ASSUME TypeOK, NEW u \in Users, Capped(u), NEW r \in Reqs, DbError(r)
    PROVE  Capped(u)'
<1> USE DEF At, User
<1>1. rows' = rows
  BY DEF DbError
<1>2. \A s \in Reqs \ {r} : req'[s] = req[s]
  BY DEF DbError, Return, TypeOK
<1>3. excused'[u] <=> excused[u] \/ (Storing(r) /\ User(r) = u)
  BY DEF DbError
<1>4. CASE Storing(r) /\ User(r) = u
  BY <1>3, <1>4 DEF Capped
<1>5. CASE ~(Storing(r) /\ User(r) = u)
  <2>1. ~WillTrim(r) \/ User(r) # u
    BY <1>5 DEF WillTrim, Storing
  <2> QED BY <1>1, <1>2, <1>3, <2>1, Bystanders
<1> QED BY <1>4, <1>5

\* Every step keeps every user capped.
LEMMA CapStep == TypeOK /\ CapInv /\ [Next]_vars => CapInv'
<1> SUFFICES ASSUME TypeOK, [Next]_vars, NEW u \in Users, Capped(u) PROVE Capped(u)'
  BY DEF CapInv, Capped
<1>1. ASSUME NEW r \in Reqs, NEW v \in Users, Login(r, v) \/ Register(r, v) PROVE Capped(u)'
  BY <1>1, BeginFrame DEF Login, Register
<1>2. ASSUME NEW r \in Reqs, NEW t \in 1..issued, Refresh(r, t) \/ Logout(r, t)
      PROVE  Capped(u)'
  BY <1>2, BeginFrame DEF Refresh, Logout
<1>3. ASSUME NEW r \in Reqs, NEW v \in Users, NEW t \in rows[v], Revoke(r, v, t)
      PROVE  Capped(u)'
  BY <1>3, BeginFrame DEF Revoke
<1>4. ASSUME NEW v \in Users, LogoutAllDevices(v) \/ RemoveAccount(v) PROVE Capped(u)'
  <2>1. rows'[u] \subseteq rows[u] /\ excused' = excused /\ req' = Overlapping
    BY <1>4, DeleteType DEF LogoutAllDevices, RemoveAccount
  <2> QED BY <2>1, CapFrame, OverlappingKeeps
<1>5. ASSUME Lapse \/ (\E v \in Users : AddAccount(v)) \/ UNCHANGED vars PROVE Capped(u)'
  BY <1>5, CapFrame DEF Lapse, AddAccount, vars
<1> QED
  BY <1>1, <1>2, <1>3, <1>4, <1>5, SaveCap, PurgeCap, CountCap, FindOldestCap, RemoveOldestCap,
     OtherStepCap, SaveRevokedCap, DbErrorCap DEF Next

\* The limit, for any users, requests, limit and rows at the start: with no
\* token being stored for a user, the user has at most MaxTokens rows, unless
\* excused.  CapInv is the invariant that says why.
THEOREM CapHolds == Spec => []CapInv
<1>1. Init => TypeOK /\ CapInv
  BY TypeInit, CapInit
<1>2. TypeOK /\ CapInv /\ [Next]_vars => (TypeOK /\ CapInv)'
  BY TypeStep, CapStep
<1> QED BY <1>1, <1>2, PTL DEF Spec

\* The limit of sessions: without a call in flight that stores, CapInv leaves it no
\* other way to be exceeded.
THEOREM SessionCapHolds == Spec => []SessionCap
<1>1. CapInv => SessionCap
  BY DEF CapInv, SessionCap, WillTrim, Storing, At
<1> QED BY <1>1, CapHolds, PTL


-----------------------------------------------------------------------------
(* Which sessions a login evicts. *)

\* A call that none has overlapped is the only one, and its count and what it found
\* are those of the rows as they are
Undisturbed(r) ==
    /\ \A s \in Reqs \ {r} : At(s, "idle")
    /\ At(r, "oldest") \/ At(r, "remove") =>
           /\ req[r].take \in Nat
           /\ Cardinality(rows[User(r)]) = MaxTokens + req[r].take
    /\ At(r, "remove") => req[r].found \in Oldest(rows[User(r)], req[r].take)

AloneInv == \A r \in Reqs : ~At(r, "idle") /\ req[r].alone => Undisturbed(r)

\* A call that arrives ends the others' claim, and has one if there are none.
LEMMA AloneArrives ==
    ASSUME TypeOK, AloneInv, NEW r \in Reqs, NEW label \in Labels \ {"oldest", "remove"},
           NEW op, NEW u, NEW t, Begin(r, label, op, u, t)
    PROVE  AloneInv'
<1> DEFINE new == [Idle EXCEPT !.pc = label, !.op = op, !.user = u, !.token = t,
                               !.alone = (Active = {})]
<1>1. new.pc = label /\ new.alone = (Active = {})
  BY DEF Idle
<1>2. req' = [Overlapping EXCEPT ![r] = new]
  BY DEF Begin
<1> HIDE DEF new
<1>3. \A s \in Reqs : req'[s] = IF s = r THEN new ELSE Overlapping[s]
  BY <1>2, OverlappingKeeps
<1>4. \A s \in Reqs \ {r} : req'[s].pc = req[s].pc
  BY <1>3, OverlappingKeeps
<1>5. \A s \in Reqs \ {r} : req[s].pc # "idle" => req'[s].alone = FALSE
  BY <1>3 DEF Overlapping, Active, At, TypeOK, Request
<1>6. Active = {} => \A s \in Reqs : req[s].pc = "idle"
  BY DEF Active, At
<1> SUFFICES ASSUME NEW s \in Reqs, req'[s].pc # "idle", req'[s].alone
             PROVE  Undisturbed(s)'
  BY DEF AloneInv, At
<1>7. s = r
  BY <1>4, <1>5
<1>8. \A o \in Reqs \ {r} : req'[o].pc = "idle"
  BY <1>1, <1>3, <1>4, <1>6, <1>7
<1> QED BY <1>1, <1>3, <1>7, <1>8 DEF Undisturbed, At

\* A call that moves on is the only one, if any is.
LEMMA AloneMoves ==
    ASSUME TypeOK, AloneInv, NEW r \in Reqs, ~At(r, "idle"), NEW now, req' = [req EXCEPT ![r] = now],
           now.pc # "idle" =>
               /\ now.alone = req[r].alone
               /\ now.pc \in {"oldest", "remove"} /\ req[r].alone =>
                      /\ now.take \in Nat
                      /\ Cardinality(rows'[now.user]) = MaxTokens + now.take
               /\ now.pc = "remove" /\ req[r].alone => now.found \in Oldest(rows'[now.user], now.take)
    PROVE  AloneInv'
<1>1. \A s \in Reqs : req'[s] = IF s = r THEN now ELSE req[s]
  BY DEF TypeOK
<1> SUFFICES ASSUME NEW s \in Reqs, req'[s].pc # "idle", req'[s].alone
             PROVE  Undisturbed(s)'
  BY DEF AloneInv, At
<1>2. CASE s # r
  BY <1>1, <1>2 DEF AloneInv, Undisturbed, At
<1>3. CASE s = r
  <2>1. req[r].alone /\ Undisturbed(r)
    BY <1>1, <1>3 DEF AloneInv
  <2>2. \A o \in Reqs \ {r} : req'[o].pc = "idle"
    BY <1>1, <2>1 DEF Undisturbed, At
  <2> QED BY <1>1, <1>3, <2>1, <2>2 DEF Undisturbed, At, User, Oldest
<1> QED BY <1>2, <1>3

\* A call that returns.
LEMMA AloneReturns ==
    ASSUME TypeOK, AloneInv, NEW r \in Reqs, ~At(r, "idle"), Return(r)
    PROVE  AloneInv'
BY IdleType, AloneMoves DEF Return

\* A call that goes on to an await before its count.
LEMMA AloneGoes ==
    ASSUME TypeOK, AloneInv, NEW r \in Reqs, ~At(r, "idle"),
           NEW label \in Labels \ {"oldest", "remove"}, Goto(r, label)
    PROVE  AloneInv'
<1> DEFINE now == [req[r] EXCEPT !.pc = label]
<1>1. now.pc = label /\ now.alone = req[r].alone
  BY DEF TypeOK, Request
<1>2. req' = [req EXCEPT ![r] = now]
  BY DEF Goto
<1> HIDE DEF now
<1> QED BY <1>1, <1>2, AloneMoves

\* Every step keeps the invariant.
LEMMA AloneStep == TypeOK /\ AloneInv /\ [Next]_vars => AloneInv'
<1> SUFFICES ASSUME TypeOK, AloneInv, [Next]_vars PROVE AloneInv'
  OBVIOUS
<1>1. ASSUME NEW r \in Reqs,
             \/ \E u \in Users : Login(r, u) \/ Register(r, u)
             \/ \E t \in 1..issued : Refresh(r, t) \/ Logout(r, t)
             \/ \E u \in Users : \E t \in rows[u] : Revoke(r, u, t)
      PROVE  AloneInv'
  <2>1. PICK label \in Labels \ {"oldest", "remove"} : \E op, u, t : Begin(r, label, op, u, t)
    BY <1>1 DEF Login, Register, Refresh, Logout, Revoke, Labels
  <2> QED BY <2>1, AloneArrives
<1>2. ASSUME NEW r \in Reqs,
             CheckEmail(r) \/ CreateAccount(r) \/ Purge(r) \/ RemoveOldest(r) \/ Drop(r)
             \/ Rotate(r) \/ SaveRevoked(r) \/ DbError(r)
      PROVE  AloneInv'
  <2>1. ~At(r, "idle")
    BY <1>2 DEF CheckEmail, CreateAccount, Purge, RemoveOldest, Drop, Rotate, SaveRevoked, DbError, At
  <2>2. Return(r) \/ \E label \in Labels \ {"oldest", "remove"} : Goto(r, label)
    BY <1>2 DEF CheckEmail, CreateAccount, Purge, RemoveOldest, Drop, Rotate, SaveRevoked, DbError,
                Labels
  <2> QED BY <2>1, <2>2, AloneReturns, AloneGoes
<1>3. ASSUME NEW r \in Reqs, Save(r)
      PROVE  AloneInv'
  <2>1. ~At(r, "idle")
    BY <1>3 DEF Save, At
  <2>2. CASE Return(r)
    BY <2>1, <2>2, AloneReturns
  <2>3. CASE req' = [req EXCEPT ![r].pc = "purge", ![r].token = issued + 1]
    <3> DEFINE now == [req[r] EXCEPT !.pc = "purge", !.token = issued + 1]
    <3>1. now.pc = "purge" /\ now.alone = req[r].alone
      BY DEF TypeOK, Request
    <3>2. req' = [req EXCEPT ![r] = now]
      BY <2>3
    <3> HIDE DEF now
    <3> QED BY <2>1, <3>1, <3>2, AloneMoves
  <2> QED BY <1>3, <2>2, <2>3 DEF Save
<1>4. ASSUME NEW r \in Reqs, Count(r)
      PROVE  AloneInv'
  <2> DEFINE n == Cardinality(rows[req[r].user])
  <2>1. ~At(r, "idle") /\ UNCHANGED rows /\ req[r].user \in Users
    BY <1>4 DEF Count, At, TypeOK
  <2>2. n \in Nat
    BY <2>1, RowsFinite
  <2>3. CASE Return(r)
    BY <2>1, <2>3, AloneReturns
  <2>4. CASE n > MaxTokens /\ req' = [req EXCEPT ![r].pc = "oldest", ![r].take = n - MaxTokens]
    <3> DEFINE now == [req[r] EXCEPT !.pc = "oldest", !.take = n - MaxTokens]
    <3>1. /\ now.pc = "oldest"
          /\ now.alone = req[r].alone
          /\ now.take = n - MaxTokens
          /\ now.user = req[r].user
      BY DEF TypeOK, Request
    <3>2. req' = [req EXCEPT ![r] = now]
      BY <2>4
    <3>3. now.take \in Nat /\ n = MaxTokens + now.take
      BY <2>2, <2>4, <3>1, MaxTokensAssumption
    <3> HIDE DEF now
    <3> QED BY <2>1, <3>1, <3>2, <3>3, AloneMoves
  <2> QED BY <1>4, <2>3, <2>4 DEF Count, User
<1>5. ASSUME NEW r \in Reqs, FindOldest(r)
      PROVE  AloneInv'
  <2>1. ~At(r, "idle") /\ UNCHANGED rows /\ At(r, "oldest")
    BY <1>5 DEF FindOldest, At
  <2>2. PICK S \in Oldest(rows[req[r].user], req[r].take) :
           IF S = {} THEN Return(r)
           ELSE req' = [req EXCEPT ![r].pc = "remove", ![r].found = S]
    BY <1>5 DEF FindOldest, User
  <2>3. CASE S = {}
    BY <2>1, <2>2, <2>3, AloneReturns
  <2>4. CASE S # {}
    <3> DEFINE now == [req[r] EXCEPT !.pc = "remove", !.found = S]
    <3>1. /\ now.pc = "remove"
          /\ now.alone = req[r].alone
          /\ now.take = req[r].take
          /\ now.user = req[r].user
          /\ now.found = S
      BY DEF TypeOK, Request
    <3>2. req' = [req EXCEPT ![r] = now]
      BY <2>2, <2>4
    <3> HIDE DEF now
    <3>3. req[r].alone => /\ req[r].take \in Nat
                          /\ Cardinality(rows[req[r].user]) = MaxTokens + req[r].take
      BY <2>1 DEF AloneInv, Undisturbed, User
    <3>4. S \in Oldest(rows'[now.user], now.take)
      BY <2>1, <2>2, <3>1
    <3> QED BY <2>1, <3>1, <3>2, <3>3, <3>4, AloneMoves
  <2> QED BY <2>3, <2>4
<1>6. ASSUME NEW r \in Reqs, Lookup(r)
      PROVE  AloneInv'
  <2>1. ~At(r, "idle")
    BY <1>6 DEF Lookup, At
  <2>2. CASE Return(r)
    BY <2>1, <2>2, AloneReturns
  <2>3. ASSUME NEW u, NEW label \in {"drop", "rotate"},
               req' = [req EXCEPT ![r].pc = label, ![r].user = u]
        PROVE  AloneInv'
    <3> DEFINE now == [req[r] EXCEPT !.pc = label, !.user = u]
    <3>1. now.pc = label /\ now.alone = req[r].alone
      BY DEF TypeOK, Request
    <3>2. req' = [req EXCEPT ![r] = now]
      BY <2>3
    <3> HIDE DEF now
    <3> QED BY <2>1, <2>3, <3>1, <3>2, AloneMoves
  <2> QED BY <1>6, <2>2, <2>3 DEF Lookup
<1>7. CASE req' = Overlapping
  BY <1>7, OverlappingKeeps DEF AloneInv, Overlapping, Active, At, TypeOK, Request
<1>8. CASE UNCHANGED <<rows, req>>
  BY <1>8 DEF AloneInv, Undisturbed, At, User
<1> QED
  BY <1>1, <1>2, <1>3, <1>4, <1>5, <1>6, <1>7, <1>8
     DEF Next, LogoutAllDevices, AddAccount, RemoveAccount, Lapse, vars

\* Without its n oldest, a set with n more than m has m left.
LEMMA WithoutOldest ==
    ASSUME NEW T, IsFiniteSet(T), NEW n \in Nat, NEW m \in Nat, Cardinality(T) = m + n,
           NEW S \in Oldest(T, n)
    PROVE  Cardinality(T \ S) = m
<1>1. S \subseteq T /\ Cardinality(S) = n
  BY DEF Oldest
<1>2. Cardinality(T \ S) = Cardinality(T) - Cardinality(T \cap S)
  BY FS_Difference
<1>3. T \cap S = S
  BY <1>1
<1> QED BY <1>1, <1>2, <1>3

\* What a step that evicts leaves, when no other call has come between.
LEMMA EvictsOldest ==
    ASSUME TypeOK, AloneInv, Next, NEW r \in Reqs,
           At(r, "remove"), req'[r] = Idle, rows' # rows, req[r].alone
    PROVE  /\ Cardinality(rows'[User(r)]) = MaxTokens
           /\ \A old \in rows[User(r)] \ rows'[User(r)], new \in rows'[User(r)] : old < new
<1>1. Undisturbed(r) /\ User(r) \in Users
  BY DEF AloneInv, At, User, TypeOK
<1>2. \A s \in Reqs \ {r} : At(s, "idle")
  BY <1>1 DEF Undisturbed
<1>3. Overlapping[r].pc = "remove" /\ Idle.pc = "idle"
  BY OverlappingKeeps, IdleType DEF At
<1>4. RemoveOldest(r)
  <2>1. req' # Overlapping
    BY <1>3
  <2>2. \E s \in Reqs : RemoveOldest(s)
    BY <1>2, <2>1
       DEF Next, At, Login, Register, CheckEmail, CreateAccount, Refresh, Logout, Save, Purge, Count,
           FindOldest, Lookup, Drop, Rotate, Revoke, SaveRevoked, LogoutAllDevices, AddAccount,
           RemoveAccount, Lapse, DbError
  <2> QED BY <1>2, <2>2 DEF RemoveOldest, At
<1>5. rows'[User(r)] = rows[User(r)] \ req[r].found
  BY <1>1, <1>4, DeleteType DEF RemoveOldest
<1>6. /\ req[r].take \in Nat
      /\ Cardinality(rows[User(r)]) = MaxTokens + req[r].take
      /\ req[r].found \in Oldest(rows[User(r)], req[r].take)
  BY <1>1 DEF Undisturbed
<1>7. Cardinality(rows'[User(r)]) = MaxTokens
  BY <1>1, <1>5, <1>6, RowsFinite, WithoutOldest, MaxTokensAssumption
<1>8. \A old \in rows[User(r)] \ rows'[User(r)], new \in rows'[User(r)] : old < new
  BY <1>5, <1>6 DEF Oldest
<1> QED BY <1>7, <1>8

\* A login that no other call overlapped evicts the oldest sessions, and no more than
\* the limit asks for, whatever the limit and the rows.
THEOREM NewestKept == Spec => KeepsNewest
<1>1. Init => AloneInv
  BY IdleType DEF Init, AloneInv, At
<1>2. TypeOK /\ AloneInv /\ [Next]_vars => AloneInv'
  BY AloneStep
<1>3. TypeOK /\ AloneInv /\ [Next]_vars =>
         [\A r \in Reqs : At(r, "remove") /\ req'[r] = Idle /\ rows' # rows /\ req[r].alone =>
             LET kept == rows'[User(r)]
             IN /\ Cardinality(kept) = MaxTokens
                /\ \A old \in rows[User(r)] \ kept, new \in kept : old < new]_vars
  BY EvictsOldest
<1> QED BY <1>1, <1>2, <1>3, TypeCorrect, PTL DEF Spec, KeepsNewest

=============================================================================
