--------------------------- MODULE AccountsProofs ---------------------------
(***************************************************************************)
(* Proofs about Accounts, for any addresses, passwords and bodies, any     *)
(* number of calls in flight, any limit and any failures of the database:  *)
(* the types, the uniqueness of addresses, that a removed account stays    *)
(* removed, how failures are counted and locks kept, and on which account  *)
(* a login is judged.                                                      *)
(***************************************************************************)
EXTENDS Accounts, TLAPS

-----------------------------------------------------------------------------
(* Types. *)

RequestsOK ==
    /\ req \in [Reqs -> Request]
    /\ \A r \in Reqs :
          /\ req[r].pc \in {"check", "save"} => req[r].given.email \in Emails
                                               /\ req[r].given.password \in Passwords
          /\ req[r].pc \in {"verdict", "bump"} => req[r].row # None

\* A request moves on to a label that asks nothing of its variables.
LEMMA GotoOK ==
    ASSUME RequestsOK, NEW r \in Reqs, NEW label, Goto(r, label),
           label \in {"token", "touch", "look", "write", "reread", "delete"} \cup Answers
    PROVE  RequestsOK'
<1>1. req' = [req EXCEPT ![r].pc = label]
  BY DEF Goto
<1>2. label \in {"idle"} \cup Calls \cup Answers /\ label \notin {"check", "save", "verdict", "bump"}
  BY DEF Calls, Answers
<1> QED BY <1>1, <1>2 DEF RequestsOK, Request

\* A call begins with arguments of the right kind.
LEMMA BeginOK ==
    ASSUME RequestsOK, NEW r \in Reqs, NEW op, NEW label, NEW given \in Patch, NEW id \in Ids \cup {0},
           op \in {"register", "create", "login", "update", "remove", "increment"},
           label \in {"check", "save", "find", "look"},
           label \in {"check", "save"} => given.email \in Emails /\ given.password \in Passwords,
           Begin(r, op, label, given, id)
    PROVE  RequestsOK'
<1> DEFINE new == [pc |-> label, op |-> op, given |-> given, id |-> id, row |-> None]
<1>1. req' = [req EXCEPT ![r] = new]
  BY DEF Begin
<1>2. new \in Request
  BY DEF Request, Calls
<1> HIDE DEF new
<1>3. new.pc = label /\ new.given = given
  BY DEF new
<1> QED BY <1>1, <1>2, <1>3 DEF RequestsOK

\* What has been all along is noted as a truth value.
LEMMA NoteOK ==
    ASSUME TypeOK, through' = [r \in Reqs |-> Note(r)]
    PROVE  through' \in [Reqs -> [open: BOOLEAN, locked: BOOLEAN]]
<1> SUFFICES ASSUME NEW r \in Reqs
             PROVE  Note(r) \in [open: BOOLEAN, locked: BOOLEAN]
  OBVIOUS
<1>1. through[r] \in [open: BOOLEAN, locked: BOOLEAN]
  BY DEF TypeOK
<1>2. Open(r)' \in BOOLEAN /\ Locked(r)' \in BOOLEAN
  BY DEF Open, Locked
<1>3. /\ (req'[r].op = "login" /\ (At(r, "idle") \/ through[r].open) /\ Open(r)') \in BOOLEAN
      /\ (req'[r].op = "login" /\ (At(r, "idle") \/ through[r].locked) /\ Locked(r)') \in BOOLEAN
  OBVIOUS
<1> QED BY <1>1, <1>3 DEF Note

\* A row that is written is a row.
LEMMA PatchedOK ==
    ASSUME NEW row \in Row, NEW body \in Patch
    PROVE  Patched(row, body) \in Row
<1>1. RoleOf(body) \in Roles
  BY DEF RoleOf, Patch, Roles
<1>2. body.email # None => Lower[body.email] \in Emails
  BY EmailsAssumption DEF Patch
<1>3. body.password # None => Hash(body.password) \in {Hash(p) : p \in Passwords}
  BY DEF Patch
<1> QED BY <1>1, <1>2, <1>3 DEF Patched, Row

LEMMA CountedOK ==
    ASSUME NEW row \in Row, NEW n \in Nat, now \in Nat
    PROVE  Counted(row, n) \in Row
<1>1. now + LockDuration \in Nat
  BY BoundsAssumption
<1> QED BY <1>1 DEF Counted, Row

LEMMA NewRowOK ==
    ASSUME NEW body \in Patch, body.email \in Emails, body.password \in Passwords
    PROVE  NewRow(body) \in Row
<1>1. RoleOf(body) \in Roles
  BY DEF RoleOf, Patch, Roles
<1>2. Lower[body.email] \in Emails /\ Hash(body.password) \in {Hash(p) : p \in Passwords}
  BY EmailsAssumption
<1> QED BY <1>1, <1>2 DEF NewRow, Row

\* The table, apart from the requests and the histories.
TableOK ==
    /\ users \in [Ids -> Row \cup {None}]
    /\ made \in 0..MaxUsers
    /\ \A id \in Ids : id > made => users[id] = None
    /\ now \in 0..MaxNow
    /\ ledger \in [Ids -> [password: Passwords \cup {None}, tally: Nat, torn: BOOLEAN]]

LEMMA TypesSplit ==
    TypeOK <=> TableOK /\ RequestsOK /\ through \in [Reqs -> [open: BOOLEAN, locked: BOOLEAN]]
BY DEF TypeOK, TableOK, RequestsOK

\* A statement that writes one row that is there, and its ledger.
LEMMA WriteOK ==
    ASSUME TableOK, NEW id \in Ids, Exists(id), NEW row \in Row,
           NEW entry \in [password: Passwords \cup {None}, tally: Nat, torn: BOOLEAN],
           users' = [users EXCEPT ![id] = row],
           ledger' = [ledger EXCEPT ![id] = entry],
           UNCHANGED <<made, now>>
    PROVE  TableOK'
BY BoundsAssumption DEF TableOK, Exists, Ids

LEMMA StepTypes ==
    ASSUME TypeOK, Step
    PROVE  TableOK' /\ RequestsOK'
<1>1. TableOK /\ RequestsOK
  BY TypesSplit
<1>2. now \in Nat /\ made \in Nat /\ \A r \in Reqs : req[r] \in Request
  BY <1>1, BoundsAssumption DEF TableOK, RequestsOK
<1>3. ASSUME UNCHANGED <<users, made, now, ledger>> PROVE TableOK'
  BY <1>1, <1>3 DEF TableOK
<1>4. \A id \in Ids : Exists(id) => users[id] \in Row
  BY <1>1 DEF TableOK, Exists
<1>5. \A id \in 1..made : id \in Ids
  BY <1>1, BoundsAssumption DEF TableOK, Ids
<1>6. \A e \in Emails, p \in Passwords, role \in Roles \cup {None} : Body(e, p, role) \in Patch
  BY DEF Body, Patch
<1>7. ASSUME NEW r \in Reqs, Register(r) PROVE TableOK' /\ RequestsOK'
  <2>1. PICK e \in Emails, p \in Passwords : Begin(r, "register", "check", Body(e, p, None), 0)
    BY <1>7 DEF Register
  <2>2. Body(e, p, None) \in Patch /\ Body(e, p, None).email = e /\ Body(e, p, None).password = p
    BY <1>6 DEF Body
  <2> QED BY <1>1, <1>3, <2>1, <2>2, BeginOK DEF Begin
<1>8. ASSUME NEW r \in Reqs, Create(r) PROVE TableOK' /\ RequestsOK'
  <2>1. PICK e \in Emails, p \in Passwords, role \in Roles \cup {None} :
             Begin(r, "create", "save", Body(e, p, role), 0)
    BY <1>8 DEF Create
  <2>2. /\ Body(e, p, role) \in Patch
        /\ Body(e, p, role).email = e /\ Body(e, p, role).password = p
    BY <1>6 DEF Body
  <2> QED BY <1>1, <1>3, <2>1, <2>2, BeginOK DEF Begin
<1>9. ASSUME NEW r \in Reqs, Login(r) PROVE TableOK' /\ RequestsOK'
  <2>1. PICK e \in Emails, p \in Passwords : Begin(r, "login", "find", Body(e, p, None), 0)
    BY <1>9 DEF Login
  <2>2. Body(e, p, None) \in Patch
    BY <1>6
  <2> QED BY <1>1, <1>3, <2>1, <2>2, BeginOK DEF Begin
<1>10. ASSUME NEW r \in Reqs, Update(r) PROVE TableOK' /\ RequestsOK'
  <2>1. PICK body \in Patches, id \in 1..made : Begin(r, "update", "look", body, id)
    BY <1>10 DEF Update
  <2>2. body \in Patch /\ id \in Ids \cup {0}
    BY <1>5, InputsAssumption
  <2> QED BY <1>1, <1>3, <2>1, <2>2, BeginOK DEF Begin
<1>11. ASSUME NEW r \in Reqs, Remove(r) PROVE TableOK' /\ RequestsOK'
  <2>1. PICK id \in 1..made : Begin(r, "remove", "look", Nothing, id)
    BY <1>11 DEF Remove
  <2>2. Nothing \in Patch /\ id \in Ids \cup {0}
    BY <1>5 DEF Nothing, Patch
  <2> QED BY <1>1, <1>3, <2>1, <2>2, BeginOK DEF Begin
<1>12. ASSUME NEW r \in Reqs, IncrementFailedLoginAttempts(r) PROVE TableOK' /\ RequestsOK'
  <2>1. PICK e \in Emails : Begin(r, "increment", "find", Body(e, None, None), 0)
    BY <1>12 DEF IncrementFailedLoginAttempts
  <2>2. Body(e, None, None) \in Patch
    BY DEF Body, Patch
  <2> QED BY <1>1, <1>3, <2>1, <2>2, BeginOK DEF Begin
<1>13. ASSUME NEW r \in Reqs, Answer(r) PROVE TableOK' /\ RequestsOK'
  <2>1. Idle \in Request /\ Idle.pc = "idle"
    BY DEF Idle, Request, Nothing, Patch
  <2> QED BY <1>1, <1>3, <1>13, <2>1 DEF Answer, RequestsOK
<1>14. ASSUME NEW r \in Reqs, CheckEmail(r) PROVE TableOK' /\ RequestsOK'
  <2>1. CASE Goto(r, "refused")
    BY <1>1, <1>3, <1>14, <2>1, GotoOK DEF CheckEmail, Answers
  <2>2. CASE Goto(r, "save")
    BY <1>1, <1>3, <1>14, <2>2 DEF CheckEmail, Goto, At, RequestsOK, Request, Calls
  <2> QED BY <1>14, <2>1, <2>2 DEF CheckEmail
<1>15. ASSUME NEW r \in Reqs, Save(r) PROVE TableOK' /\ RequestsOK'
  <2> DEFINE row == NewRow(req[r].given)
             id == made + 1
  <2>1. row \in Row
    BY <1>1, <1>2, <1>15, NewRowOK DEF RequestsOK, Save, At, Request
  <2>2. CASE Taken(0, row.email)
    BY <1>1, <1>3, <1>15, <2>2, GotoOK DEF Save, Answers
  <2>3. CASE ~Taken(0, row.email)
    <3> HIDE DEF row
    <3>1. /\ made < MaxUsers
          /\ users' = [users EXCEPT ![id] = row]
          /\ made' = id
          /\ now' = now
          /\ ledger' = [ledger EXCEPT ![id].password = req[r].given.password]
          /\ req' = [req EXCEPT ![r].pc = IF req[r].op = "create" THEN "done" ELSE "token",
                                ![r].id = id]
      BY <1>15, <2>3 DEF Save, row
    <3>2. id \in Ids /\ id \in 0..MaxUsers
      BY <1>1, <1>2, <3>1, BoundsAssumption DEF Ids
    <3>3. req[r].given.password \in Passwords
      BY <1>1, <1>15 DEF RequestsOK, Save, At
    <3>4. TableOK'
      <4> DEFINE entry == [ledger[id] EXCEPT !.password = req[r].given.password]
      <4>1. entry \in [password: Passwords \cup {None}, tally: Nat, torn: BOOLEAN]
        BY <1>1, <3>2, <3>3 DEF TableOK
      <4>2. ledger' = [ledger EXCEPT ![id] = entry]
        BY <3>1
      <4> HIDE DEF entry
      <4>3. \A other \in Ids : other > id => users'[other] = None
        BY <1>1, <1>2, <3>1, BoundsAssumption DEF TableOK, Ids
      <4>4. users' \in [Ids -> Row \cup {None}]
        BY <1>1, <2>1, <3>1 DEF TableOK
      <4> QED BY <1>1, <3>1, <3>2, <4>1, <4>2, <4>3, <4>4 DEF TableOK
    <3>5. RequestsOK'
      <4> DEFINE new == [req[r] EXCEPT !.pc = IF req[r].op = "create" THEN "done" ELSE "token",
                                       !.id = id]
      <4>1. new \in Request /\ new.pc \in {"done", "token"}
        BY <1>2, <3>2 DEF Request, Answers, Calls
      <4>2. req' = [req EXCEPT ![r] = new]
        BY <1>1, <3>1 DEF RequestsOK
      <4> HIDE DEF new
      <4> QED BY <1>1, <4>1, <4>2 DEF RequestsOK
    <3> QED BY <3>4, <3>5
  <2> QED BY <2>2, <2>3
<1>16. ASSUME NEW r \in Reqs, FindByEmail(r) PROVE TableOK' /\ RequestsOK'
  <2>1. TableOK'
    BY <1>3, <1>16 DEF FindByEmail
  <2>2. CASE \E id \in Holders(req[r].given.email) :
                req' = [req EXCEPT ![r].pc = IF req[r].op = "login" THEN "verdict" ELSE "bump",
                                   ![r].id = id, ![r].row = users[id]]
    <3>1. PICK id \in Holders(req[r].given.email) :
                req' = [req EXCEPT ![r].pc = IF req[r].op = "login" THEN "verdict" ELSE "bump",
                                   ![r].id = id, ![r].row = users[id]]
      BY <2>2
    <3>2. id \in Ids /\ users[id] \in Row /\ users[id] # None
      BY <1>4 DEF Holders, Exists
    <3> DEFINE new == [req[r] EXCEPT !.pc = IF req[r].op = "login" THEN "verdict" ELSE "bump",
                                     !.id = id, !.row = users[id]]
    <3>3. /\ new \in Request /\ new.pc \in {"verdict", "bump"} /\ new.row # None
          /\ new.given = req[r].given
      BY <1>2, <3>2 DEF Request, Calls
    <3>4. req' = [req EXCEPT ![r] = new]
      BY <1>1, <3>1 DEF RequestsOK
    <3> HIDE DEF new
    <3> QED BY <1>1, <2>1, <3>3, <3>4 DEF RequestsOK
  <2>3. CASE Goto(r, IF req[r].op = "login" THEN "refused" ELSE "done")
    BY <1>1, <2>1, <2>3, GotoOK DEF Answers
  <2> QED BY <1>16, <2>2, <2>3 DEF FindByEmail
<1>17. ASSUME NEW r \in Reqs, Verdict(r) PROVE TableOK' /\ RequestsOK'
  BY <1>1, <1>3, <1>17, GotoOK DEF Verdict, Answers
<1>18. ASSUME NEW r \in Reqs, StoreToken(r) PROVE TableOK' /\ RequestsOK'
  BY <1>1, <1>3, <1>18, GotoOK DEF StoreToken, Answers
<1>19. ASSUME NEW r \in Reqs, Touch(r) PROVE TableOK' /\ RequestsOK'
  <2> DEFINE id == req[r].id
  <2>1. RequestsOK'
    BY <1>1, <1>19, GotoOK DEF Touch, Answers
  <2>2. CASE ~Exists(id)
    BY <1>3, <1>19, <2>1, <2>2 DEF Touch
  <2>3. CASE Exists(id)
    <3>1. users' = [users EXCEPT ![id] = [users[id] EXCEPT !.failed = 0]] /\ UNCHANGED <<made, now>>
      BY <1>19, <2>3 DEF Touch
    <3>2. ledger' = [ledger EXCEPT ![id] = [ledger[id] EXCEPT !.tally = 0,
                                              !.torn = @ \/ Counting(id, Reqs)]]
      BY <1>19, <2>3 DEF Touch, Reset
    <3>3. id \in Ids /\ [users[id] EXCEPT !.failed = 0] \in Row
      BY <1>4, <2>3 DEF Exists, Row
    <3>4. Counting(id, Reqs) \in BOOLEAN
      BY DEF Counting
    <3>5. [ledger[id] EXCEPT !.tally = 0, !.torn = @ \/ Counting(id, Reqs)]
             \in [password: Passwords \cup {None}, tally: Nat, torn: BOOLEAN]
      BY <1>1, <3>3, <3>4 DEF TableOK
    <3> QED BY <1>1, <2>1, <2>3, <3>1, <3>2, <3>3, <3>5, WriteOK
  <2> QED BY <2>2, <2>3
<1>20. ASSUME NEW r \in Reqs, LookUp(r) PROVE TableOK' /\ RequestsOK'
  BY <1>1, <1>3, <1>20, GotoOK DEF LookUp, Answers
<1>21. ASSUME NEW r \in Reqs, Write(r) PROVE TableOK' /\ RequestsOK'
  <2> DEFINE id == req[r].id
             body == req[r].given
             row == Patched(users[id], body)
  <2>1. RequestsOK'
    BY <1>1, <1>21, GotoOK DEF Write, Answers
  <2>2. CASE UNCHANGED <<users, ledger>>
    BY <1>3, <1>21, <2>1, <2>2 DEF Write
  <2>3. CASE /\ Exists(id)
             /\ users' = [users EXCEPT ![id] = row]
             /\ ledger' = [ledger EXCEPT ![id].password =
                              IF body.password = None THEN @ ELSE body.password]
    <3>1. body \in Patch /\ body.password \in Passwords \cup {None}
      BY <1>2 DEF Request, Patch
    <3>2. id \in Ids /\ users[id] \in Row
      BY <1>4, <2>3 DEF Exists
    <3>3. row \in Row
      BY <3>1, <3>2, PatchedOK
    <3> HIDE DEF row
    <3>4. [ledger[id] EXCEPT !.password = IF body.password = None THEN @ ELSE body.password]
             \in [password: Passwords \cup {None}, tally: Nat, torn: BOOLEAN]
      BY <1>1, <3>1, <3>2 DEF TableOK
    <3>5. UNCHANGED <<made, now>>
      BY <1>21 DEF Write
    <3> QED BY <1>1, <2>1, <2>3, <3>2, <3>3, <3>4, <3>5, WriteOK
  <2> QED BY <1>21, <2>2, <2>3 DEF Write
<1>22. ASSUME NEW r \in Reqs, Reread(r) PROVE TableOK' /\ RequestsOK'
  BY <1>1, <1>3, <1>22, GotoOK DEF Reread, Answers
<1>23. ASSUME NEW r \in Reqs, Delete(r) PROVE TableOK' /\ RequestsOK'
  <2>1. RequestsOK'
    BY <1>1, <1>23, GotoOK DEF Delete, Answers
  <2>2. TableOK'
    BY <1>1, <1>23 DEF Delete, TableOK
  <2> QED BY <2>1, <2>2
<1>24. ASSUME NEW r \in Reqs, Bump(r) PROVE TableOK' /\ RequestsOK'
  <2> DEFINE id == req[r].id
             n == req[r].row.failed + 1
  <2>1. RequestsOK'
    BY <1>1, <1>24, GotoOK DEF Bump, Answers
  <2>2. CASE ~Exists(id)
    BY <1>3, <1>24, <2>1, <2>2 DEF Bump
  <2>3. CASE Exists(id)
    <3>1. n \in Nat
      BY <1>1, <1>2, <1>24 DEF Bump, At, RequestsOK, Request, Row
    <3>2. id \in Ids /\ users[id] \in Row
      BY <1>4, <2>3 DEF Exists
    <3>3. Counted(users[id], n) \in Row
      BY <1>2, <3>1, <3>2, CountedOK
    <3>4. Counting(id, Reqs \ {r}) \in BOOLEAN
      BY DEF Counting
    <3>5. [ledger[id] EXCEPT !.tally = @ + 1, !.torn = @ \/ Counting(id, Reqs \ {r})]
             \in [password: Passwords \cup {None}, tally: Nat, torn: BOOLEAN]
      <4>1. /\ ledger[id] \in [password: Passwords \cup {None}, tally: Nat, torn: BOOLEAN]
            /\ ledger[id].tally + 1 \in Nat
        BY <1>1, <3>2 DEF TableOK
      <4>2. (ledger[id].torn \/ Counting(id, Reqs \ {r})) \in BOOLEAN
        BY <3>4, <4>1
      <4> QED BY <4>1, <4>2
    <3>6. /\ users' = [users EXCEPT ![id] = Counted(users[id], n)]
          /\ ledger' = [ledger EXCEPT ![id] =
                [ledger[id] EXCEPT !.tally = @ + 1, !.torn = @ \/ Counting(id, Reqs \ {r})]]
          /\ UNCHANGED <<made, now>>
      BY <1>24, <2>3 DEF Bump
    <3> QED BY <1>1, <2>1, <2>3, <3>2, <3>3, <3>5, <3>6, WriteOK
  <2> QED BY <2>2, <2>3
<1>25. ASSUME NEW id \in Ids, UnlockUser(id) PROVE TableOK' /\ RequestsOK'
  <2>1. [users[id] EXCEPT !.locked = FALSE, !.lockedUntil = 0, !.failed = 0] \in Row
    BY <1>4, <1>25 DEF UnlockUser, Row
  <2>2. Counting(id, Reqs) \in BOOLEAN
    BY DEF Counting
  <2>3. [ledger[id] EXCEPT !.tally = 0, !.torn = @ \/ Counting(id, Reqs)]
           \in [password: Passwords \cup {None}, tally: Nat, torn: BOOLEAN]
    BY <1>1, <2>2 DEF TableOK
  <2>4. /\ users' = [users EXCEPT ![id] =
              [users[id] EXCEPT !.locked = FALSE, !.lockedUntil = 0, !.failed = 0]]
        /\ ledger' = [ledger EXCEPT ![id] =
              [ledger[id] EXCEPT !.tally = 0, !.torn = @ \/ Counting(id, Reqs)]]
        /\ Exists(id) /\ UNCHANGED <<made, now, req>>
    BY <1>25 DEF UnlockUser, Reset
  <2>5. RequestsOK'
    BY <1>1, <2>4 DEF RequestsOK
  <2> QED BY <1>1, <2>1, <2>3, <2>4, <2>5, WriteOK
<1>26. ASSUME NEW id \in Ids, NEW until \in 0..MaxNow, SuspendUser(id, until)
       PROVE  TableOK' /\ RequestsOK'
  <2>1. [users[id] EXCEPT !.until = until] \in Row
    BY <1>4, <1>26, BoundsAssumption DEF SuspendUser, Row
  <2>2. ledger[id] \in [password: Passwords \cup {None}, tally: Nat, torn: BOOLEAN]
        /\ ledger = [ledger EXCEPT ![id] = ledger[id]]
    BY <1>1 DEF TableOK
  <2>3. RequestsOK'
    BY <1>1, <1>26 DEF SuspendUser, RequestsOK
  <2> QED BY <1>1, <1>26, <2>1, <2>2, <2>3, WriteOK DEF SuspendUser
<1>27. ASSUME NEW id \in Ids, NEW p \in Passwords, ChangePassword(id, p)
       PROVE  TableOK' /\ RequestsOK'
  <2>1. [users[id] EXCEPT !.password = Hash(p)] \in Row
    BY <1>4, <1>27 DEF ChangePassword, Row
  <2>2. [ledger[id] EXCEPT !.password = p]
           \in [password: Passwords \cup {None}, tally: Nat, torn: BOOLEAN]
    BY <1>1 DEF TableOK
  <2>3. RequestsOK'
    BY <1>1, <1>27 DEF ChangePassword, RequestsOK
  <2> QED BY <1>1, <1>27, <2>1, <2>2, <2>3, WriteOK DEF ChangePassword
<1>28. ASSUME Tick PROVE TableOK' /\ RequestsOK'
  <2>1. now' \in 0..MaxNow
    BY <1>1, <1>28, BoundsAssumption DEF TableOK, Tick
  <2> QED BY <1>1, <1>28, <2>1 DEF Tick, TableOK, RequestsOK
<1>29. ASSUME NEW r \in Reqs, DbError(r) PROVE TableOK' /\ RequestsOK'
  BY <1>1, <1>3, <1>29, GotoOK DEF DbError, Answers
<1> QED
  BY <1>7, <1>8, <1>9, <1>10, <1>11, <1>12, <1>13, <1>14, <1>15, <1>16, <1>17, <1>18, <1>19,
     <1>20, <1>21, <1>22, <1>23, <1>24, <1>25, <1>26, <1>27, <1>28, <1>29 DEF Step

\* The variables have the types Accounts gives them: every row has an address, a
\* digest and a role, and nothing is in the table that was not created.
THEOREM TypeCorrect == Spec => []TypeOK
<1>1. Init => TypeOK
  BY BoundsAssumption
  DEF Init, TypeOK, Ids, Request, Idle, Nothing, Patch, Unwritten, Calls, Answers
<1>2. TypeOK /\ [Next]_vars => TypeOK'
  <2> SUFFICES ASSUME TypeOK, [Next]_vars PROVE TypeOK'
    OBVIOUS
  <2>1. CASE Next
    BY <2>1, StepTypes, NoteOK, TypesSplit DEF Next, TypeOK, TableOK, RequestsOK
  <2>2. CASE UNCHANGED vars
    BY <2>2 DEF vars, TypeOK
  <2> QED BY <2>1, <2>2
<1> QED BY <1>1, <1>2, PTL DEF Spec

-----------------------------------------------------------------------------
(* The table. *)

\* The statements that write it.
LEMMA TableSteps ==
    ASSUME Step
    PROVE  \/ UNCHANGED <<users, made, ledger>>
           \/ \E r \in Reqs : Save(r) \/ Touch(r) \/ Write(r) \/ Delete(r) \/ Bump(r)
           \/ \E id \in Ids : UnlockUser(id)
           \/ \E id \in Ids, until \in 0..MaxNow : SuspendUser(id, until)
           \/ \E id \in Ids, p \in Passwords : ChangePassword(id, p)
BY DEF Step, Register, Create, Login, Update, Remove, IncrementFailedLoginAttempts, Begin, Answer,
       CheckEmail, FindByEmail, Verdict, StoreToken, LookUp, Reread, Tick, DbError

\* What the table holds, and the ledger says of it.
TableInv == AddressesLower /\ DigestsAgree /\ OnePerAddress

\* A row may be written whose address is in lower case and nobody else's, and
\* whose digest is that of the password the ledger has.
LEMMA OneRow ==
    ASSUME TypeOK, TableInv, NEW id \in Ids, NEW row \in Row, NEW entry,
           users' = [users EXCEPT ![id] = row], ledger' = [ledger EXCEPT ![id] = entry],
           Lower[row.email] = row.email, ~Taken(id, row.email), row.password = Hash(entry.password)
    PROVE  TableInv'
<1>1. /\ users'[id] = row /\ ledger'[id] = entry
      /\ \A other \in Ids \ {id} : users'[other] = users[other] /\ ledger'[other] = ledger[other]
  BY DEF TypeOK
<1> HIDE DEF Ids
<1>2. AddressesLower'
  BY <1>1 DEF TableInv, AddressesLower, Exists
<1>3. DigestsAgree'
  BY <1>1 DEF TableInv, DigestsAgree, Exists
<1>4. \A other \in Ids \ {id} : Exists(other) => Lower[users[other].email] # Lower[row.email]
  BY DEF TableInv, AddressesLower, Taken
<1>5. OnePerAddress'
  BY <1>1, <1>4 DEF TableInv, OnePerAddress, Exists
<1> QED BY <1>2, <1>3, <1>5 DEF TableInv

\* A row may be written that keeps its address and its password.
LEMMA SameAddress ==
    ASSUME TypeOK, TableInv, NEW id \in Ids, Exists(id), NEW row \in Row, NEW entry,
           users' = [users EXCEPT ![id] = row], ledger' = [ledger EXCEPT ![id] = entry],
           row.email = users[id].email, row.password = users[id].password,
           entry.password = ledger[id].password
    PROVE  TableInv'
<1>1. Lower[row.email] = row.email /\ row.password = Hash(entry.password)
  BY DEF TableInv, AddressesLower, DigestsAgree
<1>2. ~Taken(id, row.email)
  BY DEF TableInv, OnePerAddress, Taken
<1> QED BY <1>1, <1>2, OneRow

LEMMA TableStep ==
    ASSUME TypeOK, TableInv, Step
    PROVE  TableInv'
<1>1. \A id \in Ids : Exists(id) => users[id] \in Row
  BY DEF TypeOK, Exists
<1>2. /\ \A r \in Reqs : req[r] \in Request
      /\ \A id \in Ids : ledger[id] \in [password: Passwords \cup {None}, tally: Nat, torn: BOOLEAN]
      /\ now \in Nat
  BY BoundsAssumption DEF TypeOK
<1>3. CASE UNCHANGED <<users, made, ledger>>
  BY <1>3 DEF TableInv, AddressesLower, DigestsAgree, OnePerAddress, Exists
<1>4. ASSUME NEW r \in Reqs, Save(r) PROVE TableInv'
  <2> DEFINE body == req[r].given
             row == NewRow(body)
             id == made + 1
             entry == [ledger[id] EXCEPT !.password = body.password]
  <2>1. CASE Taken(0, row.email)
    BY <1>3, <1>4, <2>1 DEF Save
  <2>2. CASE ~Taken(0, row.email)
    <3>1. body \in Patch /\ body.email \in Emails /\ body.password \in Passwords
      BY <1>2, <1>4 DEF Save, At, TypeOK, Request
    <3>2. row \in Row
      BY <3>1, NewRowOK
    <3>3. /\ made < MaxUsers
          /\ users' = [users EXCEPT ![id] = row]
          /\ ledger' = [ledger EXCEPT ![id] = entry]
      BY <1>4, <2>2 DEF Save
    <3>4. id \in Ids
      BY <3>3, BoundsAssumption DEF TypeOK, Ids
    <3>5. Lower[row.email] = row.email
      BY <3>1, EmailsAssumption DEF NewRow
    <3>6. ~Taken(id, row.email)
      BY <2>2 DEF Taken, Ids
    <3>7. row.password = Hash(entry.password)
      BY <1>2, <3>4 DEF NewRow
    <3> HIDE DEF row, id, entry
    <3> QED BY <3>2, <3>3, <3>4, <3>5, <3>6, <3>7, OneRow
  <2> QED BY <2>1, <2>2
<1>5. ASSUME NEW r \in Reqs, Touch(r) PROVE TableInv'
  <2> DEFINE id == req[r].id
             row == [users[id] EXCEPT !.failed = 0]
             entry == [ledger[id] EXCEPT !.tally = 0, !.torn = @ \/ Counting(id, Reqs)]
  <2>1. CASE ~Exists(id)
    BY <1>3, <1>5, <2>1 DEF Touch
  <2>2. CASE Exists(id)
    <3>1. id \in Ids /\ users' = [users EXCEPT ![id] = row] /\ ledger' = [ledger EXCEPT ![id] = entry]
      BY <1>5, <2>2 DEF Touch, Reset, Exists
    <3>2. row \in Row /\ row.email = users[id].email /\ row.password = users[id].password
      BY <1>1, <2>2, <3>1 DEF Row
    <3>3. entry.password = ledger[id].password
      BY <1>2, <3>1
    <3> HIDE DEF row, entry, id
    <3> QED BY <2>2, <3>1, <3>2, <3>3, SameAddress
  <2> QED BY <2>1, <2>2
<1>6. ASSUME NEW r \in Reqs, Write(r) PROVE TableInv'
  <2> DEFINE id == req[r].id
             body == req[r].given
             row == Patched(users[id], body)
             entry == [ledger[id] EXCEPT !.password = IF body.password = None THEN @ ELSE body.password]
  <2>1. CASE UNCHANGED <<users, ledger>>
    BY <1>3, <1>6, <2>1 DEF Write
  <2>2. CASE /\ Exists(id) /\ ~Taken(id, row.email)
             /\ users' = [users EXCEPT ![id] = row]
             /\ ledger' = [ledger EXCEPT ![id] = entry]
    <3>1. id \in Ids /\ users[id] \in Row /\ body \in Patch
      BY <1>1, <1>2, <2>2 DEF Exists, Request
    <3>2. row \in Row
      BY <3>1, PatchedOK
    <3>3. Lower[row.email] = row.email
      <4>1. CASE body.email = None
        BY <2>2, <3>1, <4>1 DEF Patched, Row, TableInv, AddressesLower
      <4>2. CASE body.email # None
        <5>1. row.email = Lower[body.email] /\ body.email \in Emails
          BY <3>1, <4>2 DEF Patched, Row, Patch
        <5> QED BY <5>1, EmailsAssumption
      <4> QED BY <4>1, <4>2
    <3>4. row.password = Hash(entry.password)
      <4>1. users[id].password = Hash(ledger[id].password)
        BY <2>2, <3>1 DEF TableInv, DigestsAgree
      <4>2. row.password = IF body.password = None THEN users[id].password ELSE Hash(body.password)
        BY <3>1 DEF Patched, Row
      <4>3. entry.password = IF body.password = None THEN ledger[id].password ELSE body.password
        BY <1>2, <3>1
      <4> QED BY <4>1, <4>2, <4>3
    <3> HIDE DEF row, entry, id
    <3> QED BY <2>2, <3>1, <3>2, <3>3, <3>4, OneRow
  <2> QED BY <1>6, <2>1, <2>2 DEF Write
<1>7. ASSUME NEW r \in Reqs, Delete(r) PROVE TableInv'
  <2>1. /\ \A other \in Ids : Exists(other)' => Exists(other) /\ users'[other] = users[other]
        /\ ledger' = ledger
    BY <1>7 DEF Delete, TypeOK, Exists
  <2> QED BY <2>1 DEF TableInv, AddressesLower, DigestsAgree, OnePerAddress
<1>8. ASSUME NEW r \in Reqs, Bump(r) PROVE TableInv'
  <2> DEFINE id == req[r].id
             n == req[r].row.failed + 1
             row == Counted(users[id], n)
             entry == [ledger[id] EXCEPT !.tally = @ + 1, !.torn = @ \/ Counting(id, Reqs \ {r})]
  <2>1. CASE ~Exists(id)
    BY <1>3, <1>8, <2>1 DEF Bump
  <2>2. CASE Exists(id)
    <3>1. id \in Ids /\ users' = [users EXCEPT ![id] = row] /\ ledger' = [ledger EXCEPT ![id] = entry]
      BY <1>8, <2>2 DEF Bump, Exists
    <3>2. n \in Nat
      BY <1>2, <1>8 DEF Bump, At, TypeOK, Request, Row
    <3>3. row \in Row
      BY <1>1, <1>2, <2>2, <3>1, <3>2, CountedOK
    <3>4. row.email = users[id].email /\ row.password = users[id].password
      BY <1>1, <2>2, <3>1 DEF Counted, Row
    <3>5. entry.password = ledger[id].password
      BY <1>2, <3>1
    <3> HIDE DEF row, entry, id
    <3> QED BY <2>2, <3>1, <3>3, <3>4, <3>5, SameAddress
  <2> QED BY <2>1, <2>2
<1>9. ASSUME NEW id \in Ids, UnlockUser(id) PROVE TableInv'
  <2> DEFINE row == [users[id] EXCEPT !.locked = FALSE, !.lockedUntil = 0, !.failed = 0]
             entry == [ledger[id] EXCEPT !.tally = 0, !.torn = @ \/ Counting(id, Reqs)]
  <2>1. Exists(id) /\ users' = [users EXCEPT ![id] = row] /\ ledger' = [ledger EXCEPT ![id] = entry]
    BY <1>9 DEF UnlockUser, Reset
  <2>2. row \in Row /\ row.email = users[id].email /\ row.password = users[id].password
    BY <1>1, <2>1 DEF Row
  <2>3. entry.password = ledger[id].password
    BY <1>2
  <2> HIDE DEF row, entry
  <2> QED BY <2>1, <2>2, <2>3, SameAddress
<1>10. ASSUME NEW id \in Ids, NEW until \in 0..MaxNow, SuspendUser(id, until) PROVE TableInv'
  <2> DEFINE row == [users[id] EXCEPT !.until = until]
  <2>1. Exists(id) /\ users' = [users EXCEPT ![id] = row] /\ ledger' = [ledger EXCEPT ![id] = ledger[id]]
    BY <1>10 DEF SuspendUser, TypeOK
  <2>2. row \in Row /\ row.email = users[id].email /\ row.password = users[id].password
    BY <1>1, <2>1, BoundsAssumption DEF Row
  <2> HIDE DEF row
  <2> QED BY <2>1, <2>2, SameAddress
<1>11. ASSUME NEW id \in Ids, NEW p \in Passwords, ChangePassword(id, p) PROVE TableInv'
  <2> DEFINE row == [users[id] EXCEPT !.password = Hash(p)]
             entry == [ledger[id] EXCEPT !.password = p]
  <2>1. Exists(id) /\ users' = [users EXCEPT ![id] = row] /\ ledger' = [ledger EXCEPT ![id] = entry]
    BY <1>11 DEF ChangePassword
  <2>2. row \in Row /\ row.email = users[id].email /\ row.password = Hash(p)
    BY <1>1, <2>1 DEF Row
  <2>3. entry.password = p
    BY <1>2
  <2>4. Lower[row.email] = row.email /\ ~Taken(id, row.email)
    BY <2>1, <2>2 DEF TableInv, AddressesLower, OnePerAddress, Taken
  <2> HIDE DEF row, entry
  <2> QED BY <2>1, <2>2, <2>3, <2>4, OneRow
<1> QED
  BY <1>3, <1>4, <1>5, <1>6, <1>7, <1>8, <1>9, <1>10, <1>11, TableSteps

\* There is no step that brings the types and the table out of order.
LEMMA TableInvariant == Spec => [](TypeOK /\ TableInv)
<1>1. Init => TableInv
  BY DEF Init, TableInv, AddressesLower, DigestsAgree, OnePerAddress, Exists
<1>2. TypeOK /\ TableInv /\ [Next]_vars => TableInv'
  <2> SUFFICES ASSUME TypeOK, TableInv, [Next]_vars PROVE TableInv'
    OBVIOUS
  <2>1. CASE Next
    BY <2>1, TableStep DEF Next
  <2>2. CASE UNCHANGED vars
    BY <2>2 DEF vars, TableInv, AddressesLower, DigestsAgree, OnePerAddress, Exists
  <2> QED BY <2>1, <2>2
<1> QED BY <1>1, <1>2, TypeCorrect, PTL DEF Spec

\* No two accounts have an address in common, however it is spelled: registrations
\* and updates race, and every place that stores an address lowers it first.
THEOREM AddressesUnique == Spec => []OnePerAddress
BY TableInvariant, PTL DEF TableInv

\* What a removed account leaves behind is never written again.
THEOREM RemovedForGood == Spec => RemovedStaysRemoved
<1> DEFINE Stays == \A id \in 1..made : users[id] = None => users'[id] = None
<1>1. ASSUME TypeOK, Step PROVE Stays
  <2> SUFFICES ASSUME NEW id \in 1..made, users[id] = None PROVE users'[id] = None
    OBVIOUS
  <2>1. id \in Ids /\ ~Exists(id)
    BY <1>1, BoundsAssumption DEF TypeOK, Ids, Exists
  <2>2. CASE UNCHANGED <<users, made, ledger>>
    BY <2>2
  <2>3. ASSUME NEW r \in Reqs, Save(r) PROVE users'[id] = None
    <3>1. users' = users \/ \E row : users' = [users EXCEPT ![made + 1] = row]
      BY <2>3 DEF Save
    <3>2. id # made + 1
      BY <1>1, BoundsAssumption DEF TypeOK
    <3> QED BY <1>1, <2>1, <3>1, <3>2 DEF TypeOK
  <2>4. ASSUME NEW r \in Reqs, Touch(r) \/ Write(r) \/ Bump(r) PROVE users'[id] = None
    <3>1. users' = users \/ \E other, row : Exists(other) /\ users' = [users EXCEPT ![other] = row]
      BY <2>4 DEF Touch, Write, Bump
    <3> QED BY <1>1, <2>1, <3>1 DEF TypeOK
  <2>5. ASSUME NEW r \in Reqs, Delete(r) PROVE users'[id] = None
    BY <1>1, <2>1, <2>5 DEF Delete, TypeOK
  <2>6. ASSUME NEW other \in Ids, \/ UnlockUser(other)
                                  \/ \E until \in 0..MaxNow : SuspendUser(other, until)
                                  \/ \E p \in Passwords : ChangePassword(other, p)
        PROVE  users'[id] = None
    <3>1. \E row : Exists(other) /\ users' = [users EXCEPT ![other] = row]
      BY <2>6 DEF UnlockUser, SuspendUser, ChangePassword
    <3> QED BY <1>1, <2>1, <3>1 DEF TypeOK
  <2> QED BY <1>1, <2>2, <2>3, <2>4, <2>5, <2>6, TableSteps
<1>2. TypeOK /\ [Next]_vars => [Stays]_vars
  BY <1>1 DEF Next
<1> QED BY <1>2, TypeCorrect, PTL DEF Spec, RemovedStaysRemoved

\* Only unlockUser lifts a lock: a login's reset, a count on an old row, an update
\* and a change of password leave it.
THEOREM LocksHold == Spec => LockHolds
<1> DEFINE Holds == \A id \in Ids : Exists(id) /\ users[id].locked /\ Exists(id)'
                                        => users'[id].locked \/ UnlockUser(id)
<1>1. ASSUME TypeOK, Step PROVE Holds
  <2> SUFFICES ASSUME NEW id \in Ids, Exists(id), users[id].locked, Exists(id)'
               PROVE  users'[id].locked \/ UnlockUser(id)
    OBVIOUS
  <2>1. users[id] \in Row /\ now \in Nat
    BY <1>1, BoundsAssumption DEF TypeOK, Exists
  <2>2. \A other, row : users' = [users EXCEPT ![other] = row] =>
            users'[id] = IF other = id THEN row ELSE users[id]
    BY <1>1 DEF TypeOK
  <2>3. CASE UNCHANGED <<users, made, ledger>>
    BY <2>3
  <2>4. ASSUME NEW r \in Reqs, Save(r) PROVE users'[id].locked
    <3>1. users' = users \/ \E row : users' = [users EXCEPT ![made + 1] = row]
      BY <2>4 DEF Save
    <3>2. id # made + 1
      BY <1>1, BoundsAssumption DEF TypeOK, Exists, Ids
    <3> QED BY <2>2, <3>1, <3>2
  <2>5. ASSUME NEW r \in Reqs, Touch(r) PROVE users'[id].locked
    <3>1. users' = users \/ users' = [users EXCEPT ![req[r].id] = [users[req[r].id] EXCEPT !.failed = 0]]
      BY <2>5 DEF Touch
    <3>2. [users[id] EXCEPT !.failed = 0].locked
      BY <2>1 DEF Row
    <3>3. users'[id] = users[id] \/ users'[id] = [users[id] EXCEPT !.failed = 0]
      BY <2>2, <3>1
    <3> QED BY <3>2, <3>3
  <2>6. ASSUME NEW r \in Reqs, Write(r) PROVE users'[id].locked
    <3>1. users' = users \/ users' = [users EXCEPT ![req[r].id] = Patched(users[req[r].id], req[r].given)]
      BY <2>6 DEF Write
    <3>2. Patched(users[id], req[r].given).locked
      BY <2>1 DEF Patched, Row
    <3>3. \/ users'[id] = users[id]
          \/ req[r].id = id /\ users'[id] = Patched(users[req[r].id], req[r].given)
      BY <2>2, <3>1
    <3>4. users'[id] = users[id] \/ users'[id] = Patched(users[id], req[r].given)
      BY <3>3
    <3> QED BY <3>2, <3>4
  <2>7. ASSUME NEW r \in Reqs, Delete(r) PROVE users'[id].locked
    <3>1. users' = [users EXCEPT ![req[r].id] = None] /\ users'[id] # None
      BY <2>7 DEF Delete, Exists
    <3> QED BY <2>2, <3>1
  <2>8. ASSUME NEW r \in Reqs, Bump(r) PROVE users'[id].locked
    <3>1. users' = users \/ users' = [users EXCEPT ![req[r].id] =
                                        Counted(users[req[r].id], req[r].row.failed + 1)]
      BY <2>8 DEF Bump
    <3>2. Counted(users[id], req[r].row.failed + 1).locked
      BY <2>1 DEF Counted, Row
    <3>3. \/ users'[id] = users[id]
          \/ req[r].id = id /\ users'[id] = Counted(users[req[r].id], req[r].row.failed + 1)
      BY <2>2, <3>1
    <3>4. users'[id] = users[id] \/ users'[id] = Counted(users[id], req[r].row.failed + 1)
      BY <3>3
    <3> QED BY <3>2, <3>4
  <2>9. ASSUME NEW other \in Ids, UnlockUser(other) PROVE users'[id].locked \/ UnlockUser(id)
    <3>1. CASE other = id
      BY <2>9, <3>1
    <3>2. CASE other # id
      <4>1. PICK row : users' = [users EXCEPT ![other] = row]
        BY <2>9 DEF UnlockUser
      <4>2. users'[id] = users[id]
        BY <2>2, <3>2, <4>1
      <4> QED BY <4>2
    <3> QED BY <3>1, <3>2
  <2>10. ASSUME NEW other \in Ids, NEW until \in 0..MaxNow, SuspendUser(other, until)
         PROVE  users'[id].locked
    <3>1. users' = [users EXCEPT ![other] = [users[other] EXCEPT !.until = until]]
      BY <2>10 DEF SuspendUser
    <3>2. [users[id] EXCEPT !.until = until].locked
      BY <2>1 DEF Row
    <3> QED BY <2>2, <3>1, <3>2
  <2>11. ASSUME NEW other \in Ids, NEW p \in Passwords, ChangePassword(other, p)
         PROVE  users'[id].locked
    <3>1. users' = [users EXCEPT ![other] = [users[other] EXCEPT !.password = Hash(p)]]
      BY <2>11 DEF ChangePassword
    <3>2. [users[id] EXCEPT !.password = Hash(p)].locked
      BY <2>1 DEF Row
    <3> QED BY <2>2, <3>1, <3>2
  <2> QED
    BY <1>1, <2>3, <2>4, <2>5, <2>6, <2>7, <2>8, <2>9, <2>10, <2>11, TableSteps
<1>2. TypeOK /\ [Next]_vars => [Holds]_vars
  BY <1>1 DEF Next
<1> QED BY <1>2, TypeCorrect, PTL DEF Spec, LockHolds

-----------------------------------------------------------------------------
(* Counts. *)

\* Only findByEmail brings a call to the point where it writes a count.
LEMMA OldCounts ==
    ASSUME TypeOK, Step, NEW s \in Reqs, req'[s].pc = "bump", ~FindByEmail(s)
    PROVE  req'[s] = req[s]
<1>1. \A r \in Reqs : \A new : req' = [req EXCEPT ![r] = new] => req'[s] = IF r = s THEN new ELSE req[s]
  BY DEF TypeOK
<1>2. ASSUME NEW r \in Reqs, NEW label, Goto(r, label), label # "bump"
      PROVE  req'[s] = req[s]
  <2>1. req' = [req EXCEPT ![r] = [req[r] EXCEPT !.pc = label]]
    BY <1>2 DEF Goto
  <2>2. [req[r] EXCEPT !.pc = label].pc = label
    BY DEF TypeOK, Request
  <2> QED BY <1>1, <1>2, <2>1, <2>2
<1>3. ASSUME NEW r \in Reqs, NEW op, NEW label, NEW given, NEW id, label # "bump",
             Begin(r, op, label, given, id)
      PROVE  req'[s] = req[s]
  <2> DEFINE new == [pc |-> label, op |-> op, given |-> given, id |-> id, row |-> None]
  <2>1. req' = [req EXCEPT ![r] = new] /\ new.pc = label
    BY <1>3 DEF Begin
  <2> HIDE DEF new
  <2> QED BY <1>1, <1>3, <2>1
<1>4. ASSUME NEW r \in Reqs,
             Register(r) \/ Create(r) \/ Login(r) \/ Update(r) \/ Remove(r)
                 \/ IncrementFailedLoginAttempts(r)
      PROVE  req'[s] = req[s]
  BY <1>3, <1>4 DEF Register, Create, Login, Update, Remove, IncrementFailedLoginAttempts
<1>5. ASSUME NEW r \in Reqs,
             CheckEmail(r) \/ Verdict(r) \/ StoreToken(r) \/ Touch(r) \/ LookUp(r) \/ Write(r)
                 \/ Reread(r) \/ Delete(r) \/ Bump(r) \/ DbError(r)
      PROVE  req'[s] = req[s]
  <2>1. \E label : label # "bump" /\ Goto(r, label)
    BY <1>5 DEF CheckEmail, Verdict, StoreToken, Touch, LookUp, Write, Reread, Delete, Bump, DbError
  <2> QED BY <1>2, <2>1
<1>6. ASSUME NEW r \in Reqs, Answer(r) PROVE req'[s] = req[s]
  BY <1>1, <1>6 DEF Answer, Idle
<1>7. ASSUME NEW r \in Reqs, Save(r) PROVE req'[s] = req[s]
  <2> DEFINE new == [req[r] EXCEPT !.pc = IF req[r].op = "create" THEN "done" ELSE "token",
                                   !.id = made + 1]
  <2>1. Goto(r, "failed") \/ req' = [req EXCEPT ![r] = new]
    BY <1>7 DEF Save, TypeOK
  <2>2. new.pc # "bump"
    BY DEF TypeOK, Request
  <2> HIDE DEF new
  <2> QED BY <1>1, <1>2, <2>1, <2>2
<1>8. ASSUME NEW r \in Reqs, FindByEmail(r) PROVE req'[s] = req[s]
  <2>1. r # s
    BY <1>8
  <2>2. req'[s] = req[s]
    BY <1>8, <2>1 DEF FindByEmail, Goto, TypeOK
  <2> QED BY <2>2
<1>9. ASSUME UNCHANGED req PROVE req'[s] = req[s]
  BY <1>9
<1> QED
  BY <1>4, <1>5, <1>6, <1>7, <1>8, <1>9 DEF Step, UnlockUser, SuspendUser, ChangePassword, Tick

\* A row that is there may be written with a count that is sound.
LEMMA CountOneRow ==
    ASSUME TypeOK, CountInv, NEW id \in Ids, Exists(id), NEW row, NEW entry,
           users' = [users EXCEPT ![id] = row], ledger' = [ledger EXCEPT ![id] = entry], made' = made,
           \A s \in Reqs : req'[s].pc = "bump" => req'[s] = req[s],
           ~entry.torn => /\ row.failed = entry.tally
                          /\ entry.tally >= MaxAttempts => row.locked
                          /\ \A s \in Reqs : req'[s].pc = "bump" /\ req[s].id = id
                                                 => req[s].row.failed = row.failed
    PROVE  CountInv'
<1>1. /\ users'[id] = row /\ ledger'[id] = entry
      /\ \A other \in Ids : other # id => users'[other] = users[other] /\ ledger'[other] = ledger[other]
  BY DEF TypeOK
<1>2. id <= made /\ Ids \in SUBSET Nat /\ made \in Nat
  BY BoundsAssumption DEF TypeOK, Exists, Ids
<1>3. ASSUME NEW other \in Ids, Exists(other)', ~ledger'[other].torn PROVE CountIsSound(other)'
  <2>1. CASE other = id
    BY <1>1, <1>3, <2>1 DEF CountIsSound, At
  <2>2. CASE other # id
    <3>1. users'[other] = users[other] /\ ledger'[other] = ledger[other]
      BY <1>1, <2>2
    <3>2. CountIsSound(other)
      BY <1>3, <3>1 DEF CountInv, Exists
    <3> QED BY <3>1, <3>2 DEF CountIsSound, At
  <2> QED BY <2>1, <2>2
<1>4. ASSUME NEW other \in Ids, other > made' PROVE ledger'[other] = Unwritten
  BY <1>1, <1>2, <1>4 DEF CountInv
<1>5. ASSUME NEW s \in Reqs, At(s, "bump")' PROVE req'[s].id \in 1..made'
  BY <1>5 DEF CountInv, At
<1> QED BY <1>3, <1>4, <1>5 DEF CountInv

\* ... or with the count it has.
LEMMA SameCount ==
    ASSUME TypeOK, CountInv, NEW id \in Ids, Exists(id), NEW row, NEW entry,
           users' = [users EXCEPT ![id] = row], ledger' = [ledger EXCEPT ![id] = entry], made' = made,
           \A s \in Reqs : req'[s].pc = "bump" => req'[s] = req[s],
           row.failed = users[id].failed, row.locked = users[id].locked,
           entry.tally = ledger[id].tally, entry.torn = ledger[id].torn
    PROVE  CountInv'
<1>1. ASSUME ~entry.torn PROVE CountIsSound(id)
  BY <1>1 DEF CountInv
<1>2. ASSUME ~entry.torn
      PROVE  /\ row.failed = entry.tally
             /\ entry.tally >= MaxAttempts => row.locked
             /\ \A s \in Reqs : req'[s].pc = "bump" /\ req[s].id = id => req[s].row.failed = row.failed
  BY <1>1, <1>2 DEF CountIsSound, At
<1> QED BY <1>2, CountOneRow

LEMMA CountStep ==
    ASSUME TypeOK, CountInv, Step
    PROVE  CountInv'
<1>1. \A id \in Ids : Exists(id) => users[id] \in Row
  BY DEF TypeOK, Exists
<1>2. /\ \A r \in Reqs : req[r] \in Request
      /\ \A id \in Ids : ledger[id] \in [password: Passwords \cup {None}, tally: Nat, torn: BOOLEAN]
      /\ now \in Nat /\ made \in Nat /\ Ids \in SUBSET Nat
      /\ MaxAttempts \in Nat /\ MaxAttempts > 0
  BY BoundsAssumption DEF TypeOK, Ids
<1>3. \A id \in Ids : Exists(id) => id \in 1..made
  BY BoundsAssumption DEF TypeOK, Exists, Ids
<1>4. ASSUME UNCHANGED <<users, made, ledger>>,
             \A s \in Reqs : req'[s].pc = "bump" => req'[s] = req[s]
      PROVE  CountInv'
  BY <1>4 DEF CountInv, CountIsSound, At, Exists
<1>5. ASSUME NEW r \in Reqs, FindByEmail(r) PROVE CountInv'
  <2>1. UNCHANGED <<users, made, ledger>>
    BY <1>5 DEF FindByEmail
  <2>2. CASE req'[r].pc = "bump"
    <3>1. PICK id \in Holders(req[r].given.email) :
              req' = [req EXCEPT ![r].pc = IF req[r].op = "login" THEN "verdict" ELSE "bump",
                                 ![r].id = id, ![r].row = users[id]]
      <4>1. ASSUME Goto(r, IF req[r].op = "login" THEN "refused" ELSE "done") PROVE FALSE
        BY <1>2, <2>2, <4>1 DEF Goto, TypeOK, Request
      <4> QED BY <1>5, <4>1 DEF FindByEmail
    <3>2. /\ \A s \in Reqs : s # r => req'[s] = req[s]
          /\ req'[r].id = id /\ req'[r].row = users[id]
      BY <1>2, <3>1 DEF TypeOK, Request
    <3>3. id \in 1..made
      BY <1>3 DEF Holders, Exists
    <3>4. ASSUME NEW other \in Ids, Exists(other)', ~ledger'[other].torn PROVE CountIsSound(other)'
      <4>1. CountIsSound(other)
        BY <2>1, <3>4 DEF CountInv, Exists
      <4> QED BY <2>1, <3>2, <4>1 DEF CountIsSound, At
    <3>5. \A s \in Reqs : At(s, "bump")' => req'[s].id \in 1..made'
      BY <2>1, <3>2, <3>3 DEF CountInv, At
    <3> QED BY <2>1, <3>4, <3>5 DEF CountInv
  <2>3. CASE req'[r].pc # "bump"
    <3>1. \A s \in Reqs : s # r => req'[s] = req[s]
      BY <1>5 DEF FindByEmail, Goto, TypeOK
    <3> QED BY <1>4, <2>1, <2>3, <3>1
  <2> QED BY <2>2, <2>3
<1>6. CASE \E r \in Reqs : FindByEmail(r)
  BY <1>5, <1>6
<1>7. CASE \A r \in Reqs : ~FindByEmail(r)
  <2>1. \A s \in Reqs : req'[s].pc = "bump" => req'[s] = req[s]
    BY <1>7, OldCounts
  <2>2. CASE UNCHANGED <<users, made, ledger>>
    BY <1>4, <2>1, <2>2
  <2>3. ASSUME NEW r \in Reqs, Save(r) PROVE CountInv'
    <3> DEFINE row == NewRow(req[r].given)
               id == made + 1
               entry == [ledger[id] EXCEPT !.password = req[r].given.password]
    <3>1. CASE Taken(0, row.email)
      BY <2>1, <2>2, <2>3, <3>1 DEF Save
    <3>2. CASE ~Taken(0, row.email)
      <4>1. /\ made < MaxUsers /\ made' = id
            /\ users' = [users EXCEPT ![id] = row]
            /\ ledger' = [ledger EXCEPT ![id] = entry]
        BY <2>3, <3>2 DEF Save
      <4>2. id \in Ids
        BY <1>2, <4>1, BoundsAssumption DEF Ids
      <4>3. row.failed = 0 /\ entry.tally = 0
        <5>1. ledger[id] = Unwritten
          BY <1>2, <4>2 DEF CountInv
        <5> QED BY <5>1 DEF NewRow, Unwritten
      <4> HIDE DEF row, entry
      <4>4. /\ users'[id] = row /\ ledger'[id] = entry
            /\ \A other \in Ids : other # id => /\ users'[other] = users[other]
                                                /\ ledger'[other] = ledger[other]
        BY <4>1, <4>2 DEF TypeOK
      <4>5. \A s \in Reqs : At(s, "bump")' => req[s].id \in 1..made /\ req[s].id # id
        BY <1>2, <2>1 DEF CountInv, At
      <4>6. ASSUME NEW other \in Ids, Exists(other)', ~ledger'[other].torn
            PROVE  CountIsSound(other)'
        <5>1. CASE other = id
          BY <1>2, <2>1, <4>3, <4>4, <4>5, <5>1 DEF CountIsSound, At
        <5>2. CASE other # id
          <6>1. users'[other] = users[other] /\ ledger'[other] = ledger[other]
            BY <4>4, <5>2
          <6>2. CountIsSound(other)
            BY <4>6, <6>1 DEF CountInv, Exists
          <6> QED BY <2>1, <6>1, <6>2 DEF CountIsSound, At
        <5> QED BY <5>1, <5>2
      <4>7. ASSUME NEW other \in Ids, other > made' PROVE ledger'[other] = Unwritten
        BY <1>2, <4>1, <4>4, <4>7 DEF CountInv
      <4>8. \A s \in Reqs : At(s, "bump")' => req'[s].id \in 1..made'
        BY <1>2, <2>1, <4>1, <4>5 DEF At
      <4> QED BY <4>6, <4>7, <4>8 DEF CountInv
    <3> QED BY <3>1, <3>2
  <2>4. ASSUME NEW r \in Reqs, Touch(r) PROVE CountInv'
    <3> DEFINE id == req[r].id
               row == [users[id] EXCEPT !.failed = 0]
               entry == [ledger[id] EXCEPT !.tally = 0, !.torn = @ \/ Counting(id, Reqs)]
    <3>1. CASE ~Exists(id)
      BY <2>1, <2>2, <2>4, <3>1 DEF Touch
    <3>2. CASE Exists(id)
      <4>1. /\ id \in Ids /\ made' = made
            /\ users' = [users EXCEPT ![id] = row] /\ ledger' = [ledger EXCEPT ![id] = entry]
        BY <2>4, <3>2 DEF Touch, Reset, Exists
      <4>2. row.failed = 0 /\ entry.tally = 0
        BY <1>1, <1>2, <3>2, <4>1 DEF Row
      <4>3. ~entry.torn => ~Counting(id, Reqs)
        BY <1>2, <4>1
      <4> HIDE DEF row, entry, id
      <4>4. ~entry.torn => \A s \in Reqs : ~(req'[s].pc = "bump" /\ req[s].id = id)
        BY <2>1, <4>3 DEF Counting, At
      <4>5. row.failed = entry.tally /\ ~(entry.tally >= MaxAttempts)
        BY <1>2, <4>2
      <4> QED BY <2>1, <3>2, <4>1, <4>4, <4>5, CountOneRow
    <3> QED BY <3>1, <3>2
  <2>5. ASSUME NEW r \in Reqs, Write(r) PROVE CountInv'
    <3> DEFINE id == req[r].id
               body == req[r].given
               row == Patched(users[id], body)
               entry == [ledger[id] EXCEPT
                           !.password = IF body.password = None THEN @ ELSE body.password]
    <3>1. CASE UNCHANGED <<users, ledger>>
      BY <2>1, <2>2, <2>5, <3>1 DEF Write
    <3>2. CASE /\ Exists(id)
               /\ users' = [users EXCEPT ![id] = row] /\ ledger' = [ledger EXCEPT ![id] = entry]
      <4>1. id \in Ids /\ made' = made
        BY <2>5, <3>2 DEF Write, Exists
      <4>2. row.failed = users[id].failed /\ row.locked = users[id].locked
        BY <1>1, <3>2, <4>1 DEF Patched, Row
      <4>3. entry.tally = ledger[id].tally /\ entry.torn = ledger[id].torn
        BY <1>2, <4>1
      <4> HIDE DEF row, entry, id
      <4> QED BY <2>1, <3>2, <4>1, <4>2, <4>3, SameCount
    <3> QED BY <2>5, <3>1, <3>2 DEF Write
  <2>6. ASSUME NEW r \in Reqs, Delete(r) PROVE CountInv'
    <3>1. /\ \A other \in Ids : Exists(other)' => Exists(other) /\ users'[other] = users[other]
          /\ ledger' = ledger /\ made' = made
      BY <2>6 DEF Delete, TypeOK, Exists
    <3>2. ASSUME NEW other \in Ids, Exists(other)', ~ledger'[other].torn PROVE CountIsSound(other)'
      <4>1. CountIsSound(other) /\ users'[other] = users[other]
        BY <3>1, <3>2 DEF CountInv
      <4> QED BY <2>1, <3>1, <4>1 DEF CountIsSound, At
    <3> QED BY <2>1, <3>1, <3>2 DEF CountInv, At
  <2>7. ASSUME NEW r \in Reqs, Bump(r) PROVE CountInv'
    <3> DEFINE id == req[r].id
               n == req[r].row.failed + 1
               row == Counted(users[id], n)
               entry == [ledger[id] EXCEPT !.tally = @ + 1, !.torn = @ \/ Counting(id, Reqs \ {r})]
    <3>1. CASE ~Exists(id)
      BY <2>1, <2>2, <2>7, <3>1 DEF Bump
    <3>2. CASE Exists(id)
      <4>1. /\ id \in Ids /\ made' = made
            /\ users' = [users EXCEPT ![id] = row] /\ ledger' = [ledger EXCEPT ![id] = entry]
        BY <2>7, <3>2 DEF Bump, Exists
      <4>2. n \in Nat
        BY <1>2, <2>7 DEF Bump, At, TypeOK, Request, Row
      <4>3. row.failed = n /\ (n >= MaxAttempts => row.locked)
        BY <1>1, <3>2, <4>1, <4>2 DEF Counted, Row
      <4>4. entry.tally = ledger[id].tally + 1 /\ ledger[id].tally \in Nat
        BY <1>2, <4>1
      <4>5. ~entry.torn => ~ledger[id].torn /\ ~Counting(id, Reqs \ {r})
        BY <1>2, <4>1
      <4>6. ~entry.torn => n = ledger[id].tally + 1
        <5>1. ~ledger[id].torn => CountIsSound(id)
          BY <3>2, <4>1 DEF CountInv
        <5>2. At(r, "bump")
          BY <2>7 DEF Bump
        <5> QED BY <4>5, <5>1, <5>2 DEF CountIsSound
      <4>7. req'[r].pc # "bump"
        BY <1>2, <2>7 DEF Bump, Goto, TypeOK, Request
      <4> HIDE DEF row, entry, id, n
      <4>8. ~entry.torn => \A s \in Reqs : ~(req'[s].pc = "bump" /\ req[s].id = id)
        BY <2>1, <4>5, <4>7 DEF Counting, At
      <4>9. ~entry.torn => /\ row.failed = entry.tally
                           /\ entry.tally >= MaxAttempts => row.locked
        BY <4>3, <4>4, <4>6
      <4> QED BY <2>1, <3>2, <4>1, <4>8, <4>9, CountOneRow
    <3> QED BY <3>1, <3>2
  <2>8. ASSUME NEW id \in Ids, UnlockUser(id) PROVE CountInv'
    <3> DEFINE row == [users[id] EXCEPT !.locked = FALSE, !.lockedUntil = 0, !.failed = 0]
               entry == [ledger[id] EXCEPT !.tally = 0, !.torn = @ \/ Counting(id, Reqs)]
    <3>1. /\ Exists(id) /\ made' = made
          /\ users' = [users EXCEPT ![id] = row] /\ ledger' = [ledger EXCEPT ![id] = entry]
      BY <2>8 DEF UnlockUser, Reset
    <3>2. row.failed = 0 /\ entry.tally = 0
      BY <1>1, <1>2, <3>1 DEF Row
    <3>3. ~entry.torn => ~Counting(id, Reqs)
      BY <1>2
    <3> HIDE DEF row, entry
    <3>4. ~entry.torn => \A s \in Reqs : ~(req'[s].pc = "bump" /\ req[s].id = id)
      BY <2>1, <3>3 DEF Counting, At
    <3>5. row.failed = entry.tally /\ ~(entry.tally >= MaxAttempts)
      BY <1>2, <3>2
    <3> QED BY <2>1, <3>1, <3>4, <3>5, CountOneRow
  <2>9. ASSUME NEW id \in Ids, NEW until \in 0..MaxNow, SuspendUser(id, until) PROVE CountInv'
    <3> DEFINE row == [users[id] EXCEPT !.until = until]
    <3>1. /\ Exists(id) /\ made' = made
          /\ users' = [users EXCEPT ![id] = row] /\ ledger' = [ledger EXCEPT ![id] = ledger[id]]
      BY <2>9 DEF SuspendUser, TypeOK
    <3>2. row.failed = users[id].failed /\ row.locked = users[id].locked
      BY <1>1, <3>1 DEF Row
    <3> HIDE DEF row
    <3> QED BY <2>1, <3>1, <3>2, SameCount
  <2>10. ASSUME NEW id \in Ids, NEW p \in Passwords, ChangePassword(id, p) PROVE CountInv'
    <3> DEFINE row == [users[id] EXCEPT !.password = Hash(p)]
               entry == [ledger[id] EXCEPT !.password = p]
    <3>1. /\ Exists(id) /\ made' = made
          /\ users' = [users EXCEPT ![id] = row] /\ ledger' = [ledger EXCEPT ![id] = entry]
      BY <2>10 DEF ChangePassword
    <3>2. row.failed = users[id].failed /\ row.locked = users[id].locked
      BY <1>1, <3>1 DEF Row
    <3>3. entry.tally = ledger[id].tally /\ entry.torn = ledger[id].torn
      BY <1>2
    <3> HIDE DEF row, entry
    <3> QED BY <2>1, <3>1, <3>2, <3>3, SameCount
  <2> QED
    BY <2>2, <2>3, <2>4, <2>5, <2>6, <2>7, <2>8, <2>9, <2>10, TableSteps
<1> QED BY <1>6, <1>7

\* Failures that are counted one after another add up, and lock the account from
\* the MaxAttempts-th on; only counts that overlap, or overlap a reset, are lost.
THEOREM CountsAddUp == Spec => []FailuresCounted
<1>1. Init => CountInv
  BY DEF Init, CountInv, Exists, At, Idle
<1>2. TypeOK /\ CountInv /\ [Next]_vars => CountInv'
  <2> SUFFICES ASSUME TypeOK, CountInv, [Next]_vars PROVE CountInv'
    OBVIOUS
  <2>1. CASE Next
    BY <2>1, CountStep DEF Next
  <2>2. CASE UNCHANGED vars
    BY <2>2 DEF vars, CountInv, CountIsSound, At, Exists
  <2> QED BY <2>1, <2>2
<1>3. CountInv => FailuresCounted
  BY DEF CountInv, CountIsSound, FailuresCounted
<1> QED BY <1>1, <1>2, <1>3, TypeCorrect, PTL DEF Spec

-----------------------------------------------------------------------------
(* Logins. *)

\* The labels a login goes through.
LoginAt(r) == req[r].op = "login" => req[r].pc \in {"find", "verdict", "token", "touch"} \cup Answers

\* What may happen to a login.
LEMMA OwnSteps ==
    ASSUME TypeOK, Step, NEW r \in Reqs, LoginAt(r), req'[r].op = "login"
    PROVE  \/ req'[r] = req[r]
           \/ Login(r) \/ FindByEmail(r) \/ Verdict(r) \/ StoreToken(r) \/ Touch(r) \/ DbError(r)
<1>1. \A s \in Reqs : \A new : req' = [req EXCEPT ![s] = new] => req'[r] = IF s = r THEN new ELSE req[r]
  BY DEF TypeOK
<1>2. ASSUME NEW s \in Reqs, NEW label, Goto(s, label), req[s].pc \notin {"find", "verdict", "token", "touch"} \cup Answers
      PROVE  req'[r] = req[r]
  <2>1. req' = [req EXCEPT ![s] = [req[s] EXCEPT !.pc = label]]
    BY <1>2 DEF Goto
  <2>2. [req[s] EXCEPT !.pc = label].op = req[s].op
    BY DEF TypeOK, Request
  <2> QED BY <1>1, <1>2, <2>1, <2>2 DEF LoginAt
<1>3. ASSUME NEW s \in Reqs, NEW op, NEW label, NEW given, NEW id, op # "login",
             Begin(s, op, label, given, id)
      PROVE  req'[r] = req[r]
  <2> DEFINE new == [pc |-> label, op |-> op, given |-> given, id |-> id, row |-> None]
  <2>1. req' = [req EXCEPT ![s] = new] /\ new.op = op
    BY <1>3 DEF Begin
  <2> HIDE DEF new
  <2> QED BY <1>1, <1>3, <2>1
<1>4. ASSUME NEW s \in Reqs,
             Register(s) \/ Create(s) \/ Update(s) \/ Remove(s) \/ IncrementFailedLoginAttempts(s)
      PROVE  req'[r] = req[r]
  BY <1>3, <1>4 DEF Register, Create, Update, Remove, IncrementFailedLoginAttempts
<1>5. ASSUME NEW s \in Reqs, CheckEmail(s) \/ LookUp(s) \/ Write(s) \/ Reread(s) \/ Delete(s) \/ Bump(s)
      PROVE  req'[r] = req[r]
  <2>1. /\ req[s].pc \in {"check", "look", "write", "reread", "delete", "bump"}
        /\ \E label : Goto(s, label)
    BY <1>5 DEF CheckEmail, LookUp, Write, Reread, Delete, Bump, At
  <2> QED BY <1>2, <2>1 DEF Answers
<1>6. ASSUME NEW s \in Reqs, Answer(s) PROVE req'[r] = req[r]
  BY <1>1, <1>6 DEF Answer, Idle
<1>7. ASSUME NEW s \in Reqs, Save(s) PROVE req'[r] = req[r]
  <2> DEFINE new == [req[s] EXCEPT !.pc = IF req[s].op = "create" THEN "done" ELSE "token",
                                   !.id = made + 1]
  <2>1. req[s].pc = "save" /\ (Goto(s, "failed") \/ req' = [req EXCEPT ![s] = new])
    BY <1>7 DEF Save, TypeOK, At
  <2>2. new.op = req[s].op
    BY DEF TypeOK, Request
  <2>3. s = r => req[s].op # "login"
    BY <2>1 DEF LoginAt, Answers
  <2> HIDE DEF new
  <2>4. CASE Goto(s, "failed")
    BY <1>2, <2>1, <2>4 DEF Answers
  <2>5. CASE req' = [req EXCEPT ![s] = new]
    BY <1>1, <2>2, <2>3, <2>5
  <2> QED BY <2>1, <2>4, <2>5
<1>8. ASSUME NEW s \in Reqs, s # r, FindByEmail(s) \/ Verdict(s) \/ StoreToken(s) \/ Touch(s) \/ DbError(s)
      PROVE  req'[r] = req[r]
  BY <1>8 DEF FindByEmail, Verdict, StoreToken, Touch, DbError, Goto, TypeOK
<1>9. ASSUME NEW s \in Reqs, s # r, Login(s) PROVE req'[r] = req[r]
  BY <1>9 DEF Login, Begin, TypeOK
<1>10. ASSUME UNCHANGED req PROVE req'[r] = req[r]
  BY <1>10
<1> QED
  BY <1>4, <1>5, <1>6, <1>7, <1>8, <1>9, <1>10 DEF Step, UnlockUser, SuspendUser, ChangePassword, Tick

\* Until it is answered, a login notes what it finds, and forgets nothing.
LEMMA NoteSays ==
    ASSUME TypeOK, NEW r \in Reqs, req'[r].op = "login", req[r].pc \notin Answers,
           through' = [s \in Reqs |-> Note(s)]
    PROVE  /\ through'[r].open => (At(r, "idle") \/ through[r].open) /\ Open(r)'
           /\ through'[r].locked => (At(r, "idle") \/ through[r].locked) /\ Locked(r)'
<1> DEFINE open == req'[r].op = "login" /\ (At(r, "idle") \/ through[r].open) /\ Open(r)'
           locked == req'[r].op = "login" /\ (At(r, "idle") \/ through[r].locked) /\ Locked(r)'
<1>1. Note(r) = [open |-> open, locked |-> locked]
  BY DEF Note
<1>2. through'[r] = [open |-> open, locked |-> locked]
  BY <1>1
<1> HIDE DEF open, locked
<1>3. through'[r].open = open /\ through'[r].locked = locked
  BY <1>2
<1> QED BY <1>3 DEF open, locked

LEMMA ClockSteps ==
    ASSUME Step
    PROVE  now' = now \/ Tick
BY DEF Step, Register, Create, Login, Update, Remove, IncrementFailedLoginAttempts, Begin, Answer,
       CheckEmail, Save, FindByEmail, Verdict, StoreToken, Touch, LookUp, Write, Reread, Delete, Bump,
       UnlockUser, SuspendUser, ChangePassword, DbError

LEMMA LoginStep ==
    ASSUME TypeOK, TableInv, LoginInv, Next
    PROVE  LoginInv'
<1> SUFFICES ASSUME NEW r \in Reqs PROVE RowIsFair(r)'
  BY DEF LoginInv
<1>1. Step /\ through' = [s \in Reqs |-> Note(s)]
  BY DEF Next
<1>2. RowIsFair(r) /\ LoginAt(r)
  BY DEF LoginInv, RowIsFair, LoginAt
<1>3. req[r] \in Request
  BY DEF TypeOK
<1>4. through'[r] = Note(r)
  BY <1>1
<1>5. CASE req'[r].op # "login"
  BY <1>5 DEF RowIsFair
<1>6. CASE req'[r].op = "login" /\ req'[r] = req[r]
  <2>1. CASE req[r].pc \in Answers
    <3>1. through'[r] = through[r]
      BY <1>4, <1>6, <2>1 DEF Note
    <3>2. req[r].pc # "verdict"
      BY <2>1 DEF Answers
    <3> QED BY <1>2, <1>6, <3>1, <3>2 DEF RowIsFair, At
  <2>2. CASE req[r].pc \notin Answers
    <3>1. ~At(r, "idle")
      BY <1>2, <1>6, <2>2 DEF LoginAt, At
    <3>2. /\ through'[r].open => through[r].open
          /\ through'[r].locked => through[r].locked
      BY <1>1, <1>6, <2>2, <3>1, NoteSays
    <3>3. now \in Nat /\ now' \in Nat /\ now <= now'
      BY <1>1, ClockSteps, BoundsAssumption DEF TypeOK, Tick
    <3>4. ASSUME At(r, "verdict")
          PROVE  Admits(req[r].row, req[r].given.password)
                     => Admits(req[r].row, req[r].given.password)'
      <4>1. req[r].row \in Row
        BY <1>3, <3>4 DEF TypeOK, Request, At
      <4>2. req[r].row.until \in Nat
        BY <4>1 DEF Row
      <4>3. req[r].row.until <= now => req[r].row.until <= now'
        BY <3>3, <4>2
      <4> QED BY <1>6, <4>3 DEF Admits
    <3> QED BY <1>2, <1>6, <3>2, <3>4 DEF RowIsFair, At
  <2> QED BY <2>1, <2>2
<1>7. CASE Login(r)
  <2>1. req'[r].pc = "find"
    BY <1>7 DEF Login, Begin, TypeOK
  <2> QED BY <2>1 DEF RowIsFair, At, Answers
<1>8. CASE req'[r].op = "login" /\ FindByEmail(r)
  <2>1. UNCHANGED <<users, made, now, ledger>>
    BY <1>8 DEF FindByEmail
  <2>2. req[r].op = "login" /\ req'[r].given = req[r].given /\ At(r, "find")
    <3>1. At(r, "find") /\ \E new : /\ req' = [req EXCEPT ![r] = new]
                                    /\ new.op = req[r].op /\ new.given = req[r].given
      <4>1. ASSUME NEW label, Goto(r, label)
            PROVE  \E new : /\ req' = [req EXCEPT ![r] = new]
                            /\ new.op = req[r].op /\ new.given = req[r].given
        <5>1. /\ [req[r] EXCEPT !.pc = label].op = req[r].op
              /\ [req[r] EXCEPT !.pc = label].given = req[r].given
          BY <1>3 DEF Request
        <5> QED BY <4>1, <5>1 DEF Goto
      <4>2. ASSUME NEW label, NEW id, NEW row,
                   req' = [req EXCEPT ![r].pc = label, ![r].id = id, ![r].row = row]
            PROVE  \E new : /\ req' = [req EXCEPT ![r] = new]
                            /\ new.op = req[r].op /\ new.given = req[r].given
        <5> DEFINE new == [req[r] EXCEPT !.pc = label, !.id = id, !.row = row]
        <5>1. new.op = req[r].op /\ new.given = req[r].given
          BY <1>3 DEF Request
        <5>2. req' = [req EXCEPT ![r] = new]
          BY <4>2 DEF TypeOK
        <5> HIDE DEF new
        <5> QED BY <5>1, <5>2
      <4> DEFINE refusal == IF req[r].op = "login" THEN "refused" ELSE "done"
                 label == IF req[r].op = "login" THEN "verdict" ELSE "bump"
      <4>3. /\ At(r, "find")
            /\ \/ Goto(r, refusal)
               \/ \E id \in Holders(req[r].given.email) :
                     req' = [req EXCEPT ![r].pc = label, ![r].id = id, ![r].row = users[id]]
        BY <1>8 DEF FindByEmail
      <4> HIDE DEF refusal, label
      <4>4. CASE Goto(r, refusal)
        BY <4>1, <4>3, <4>4
      <4>5. CASE \E id \in Holders(req[r].given.email) :
                    req' = [req EXCEPT ![r].pc = label, ![r].id = id, ![r].row = users[id]]
        BY <4>2, <4>3, <4>5
      <4> QED BY <4>3, <4>4, <4>5
    <3> QED BY <1>8, <3>1 DEF TypeOK
  <2>3. through'[r].open => Open(r)'
    BY <1>1, <1>8, <2>2, NoteSays DEF At, Answers
  <2>4. through'[r].locked => Locked(r)'
    BY <1>1, <1>8, <2>2, NoteSays DEF At, Answers
  <2>5. CASE Holders(req[r].given.email) = {} /\ Goto(r, "refused")
    <3>1. ~Open(r)' /\ req'[r].pc = "refused"
      BY <1>3, <2>1, <2>2, <2>5 DEF Open, Holders, Exists, Goto, TypeOK, Request
    <3> QED BY <2>3, <3>1 DEF RowIsFair, At, Answers
  <2>6. ASSUME NEW id \in Holders(req[r].given.email),
               req' = [req EXCEPT ![r].pc = "verdict", ![r].id = id, ![r].row = users[id]]
        PROVE  RowIsFair(r)'
    <3>1. req'[r].pc = "verdict" /\ req'[r].row = users[id]
      BY <1>3, <2>6 DEF TypeOK, Request
    <3>2. id \in Ids /\ Exists(id) /\ users[id].password = Hash(ledger[id].password)
      BY <2>6 DEF Holders, TableInv, DigestsAgree
    <3>3. \A other \in Holders(req[r].given.email) : other = id
      BY <2>6 DEF Holders, TableInv, OnePerAddress
    <3>4. Holders(req[r].given.email)' = Holders(req[r].given.email)
      BY <2>1, <2>2 DEF Holders, Exists
    <3>5. Open(r)' => Admits(users[id], req[r].given.password)
      BY <2>1, <2>2, <3>2, <3>3, <3>4 DEF Open, Admits
    <3>6. Locked(r)' => users[id].locked
      BY <2>1, <3>3, <3>4 DEF Locked
    <3>7. through'[r].open => Admits(req[r].row, req[r].given.password)'
      BY <2>1, <2>2, <2>3, <3>1, <3>5 DEF Admits
    <3>8. through'[r].locked => req'[r].row.locked
      BY <2>4, <3>1, <3>6
    <3> QED BY <3>1, <3>7, <3>8 DEF RowIsFair, At
  <2> QED BY <1>8, <2>2, <2>5, <2>6 DEF FindByEmail
<1>9. CASE req'[r].op = "login" /\ (Verdict(r) \/ StoreToken(r) \/ Touch(r))
  <2>1. req[r].op = "login" /\ req[r].pc \in {"verdict", "token", "touch"}
    BY <1>3, <1>9 DEF Verdict, StoreToken, Touch, Goto, TypeOK, Request, At
  <2>2. /\ through'[r].open => through[r].open
        /\ through'[r].locked => through[r].locked
    BY <1>1, <1>9, <2>1, NoteSays DEF At, Answers
  <2>3. CASE Verdict(r)
    <3>1. At(r, "verdict") /\ req'[r].pc = IF Admits(req[r].row, req[r].given.password)
                                           THEN "token" ELSE "refused"
      BY <1>3, <2>3 DEF Verdict, Goto, TypeOK, Request
    <3>2. CASE Admits(req[r].row, req[r].given.password)
      <4>1. ~through[r].locked
        BY <1>2, <2>1, <3>1, <3>2 DEF RowIsFair, Admits
      <4> QED BY <2>2, <3>1, <3>2, <4>1 DEF RowIsFair, At
    <3>3. CASE ~Admits(req[r].row, req[r].given.password)
      <4>1. ~through[r].open
        BY <1>2, <2>1, <3>1, <3>3 DEF RowIsFair
      <4> QED BY <2>2, <3>1, <3>3, <4>1 DEF RowIsFair, At, Answers
    <3> QED BY <3>2, <3>3
  <2>4. CASE StoreToken(r) \/ Touch(r)
    <3>1. req[r].pc \in {"token", "touch"} /\ req'[r].pc \in {"failed", "touch", "done"}
      BY <1>3, <2>1, <2>4 DEF StoreToken, Touch, At, Goto, TypeOK, Request
    <3>2. ~through[r].locked
      BY <1>2, <2>1, <3>1 DEF RowIsFair
    <3> QED BY <2>2, <3>1, <3>2 DEF RowIsFair, At, Answers
  <2> QED BY <1>9, <2>3, <2>4
<1>10. CASE DbError(r)
  <2>1. req'[r].pc = "failed"
    BY <1>3, <1>10 DEF DbError, Goto, TypeOK, Request
  <2> QED BY <2>1 DEF RowIsFair, At, Answers
<1> QED BY <1>1, <1>2, <1>5, <1>6, <1>7, <1>8, <1>9, <1>10, OwnSteps

LEMMA LoginInvariant == Spec => []LoginInv
<1>1. Init => LoginInv
  BY DEF Init, LoginInv, RowIsFair, At, Idle
<1>2. TypeOK /\ TableInv /\ LoginInv /\ [Next]_vars => LoginInv'
  <2> SUFFICES ASSUME TypeOK, TableInv, LoginInv, [Next]_vars PROVE LoginInv'
    OBVIOUS
  <2>1. CASE Next
    BY <2>1, LoginStep
  <2>2. CASE UNCHANGED vars
    BY <2>2 DEF vars, LoginInv, RowIsFair, At, Admits
  <2> QED BY <2>1, <2>2
<1> QED BY <1>1, <1>2, TableInvariant, PTL DEF Spec

\* A login with the password set last, for an account that is there, unlocked and
\* not suspended from its beginning to its end, is not refused.
THEOREM RightfulLoginsPass == Spec => []RightfulLogin
<1>1. LoginInv => RightfulLogin
  BY DEF LoginInv, RowIsFair, RightfulLogin
<1> QED BY <1>1, LoginInvariant, PTL

\* A login for an account that is locked from its beginning on gets no tokens.
THEOREM LockedOutAlways == Spec => []LockedOut
<1>1. LoginInv => LockedOut
  BY DEF LoginInv, RowIsFair, LockedOut
<1> QED BY <1>1, LoginInvariant, PTL

=============================================================================
