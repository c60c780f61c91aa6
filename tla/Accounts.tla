------------------------------ MODULE Accounts ------------------------------
(***************************************************************************)
(* Rows of the users table: src/modules/users/users.service.ts, with login *)
(* and register of auth.service.ts, which call it.  No call is a           *)
(* transaction: every statement is an action, calls interleave, and what a *)
(* call has read may be out of date when it is used.                       *)
(*                                                                         *)
(* incrementFailedLoginAttempts, unlockUser, suspendUser and changePassword*)
(* are called by no code of the repository; Ops says which operations are. *)
(***************************************************************************)
EXTENDS Naturals, FiniteSets

CONSTANTS
    Emails,       \* spellings of e-mail addresses
    Lower,        \* per spelling: toLowerCase of it
    Passwords,
    Weak,         \* passwords validatePasswordStrength refuses
    Patches,      \* bodies of PATCH /users/:id
    None,
    Reqs,
    Ops,          \* the operations that are called
    MaxAttempts,  \* maxAttempts of incrementFailedLoginAttempts
    LockDuration,
    DbFails,      \* may a statement fail?
    MaxUsers,     \* bound: accounts created
    MaxFailed,    \* bound: failed attempts counted
    MaxNow        \* bound: ticks of the clock

Roles == {"user", "admin"}

Patch == [email: Emails \cup {None}, password: Passwords \cup {None}, role: Roles \cup {None}]

ASSUME EmailsAssumption ==
    /\ Lower \in [Emails -> Emails]
    /\ \A e \in Emails : Lower[Lower[e]] = Lower[e]
ASSUME NoneAssumption == None \notin Emails \cup Passwords \cup Roles
ASSUME InputsAssumption == Weak \subseteq Passwords /\ Patches \subseteq Patch
ASSUME BoundsAssumption ==
    /\ MaxAttempts \in Nat \ {0} /\ LockDuration \in Nat
    /\ MaxUsers \in Nat /\ MaxFailed \in Nat /\ MaxNow \in Nat
    /\ DbFails \in BOOLEAN /\ IsFiniteSet(Reqs)

VARIABLES
    users,   \* per id: the row, or None
    made,    \* ids given out so far
    now,
    req,     \* per request: where it is and its local variables
    ledger,  \* history, per id: the password set last, the failures counted
             \* since the last reset, and whether two counts have overlapped
    through  \* history, per login: what the account has been all along

vars == <<users, made, now, req, ledger, through>>

Ids == 1..MaxUsers

\* bcrypt.hash: the salt is left out, a password is compared with its digest
Hash(p) == [digestOf |-> p]

Row ==
    [email: Emails, password: {Hash(p) : p \in Passwords}, role: Roles,
     failed: Nat, locked: BOOLEAN, lockedUntil: Nat, until: Nat]

Calls == {"check", "save", "find", "verdict", "token", "touch", "look", "write", "reread",
          "delete", "bump"}
Answers == {"done", "refused", "failed"}

Request ==
    [pc: {"idle"} \cup Calls \cup Answers,
     op: {"none", "register", "create", "login", "update", "remove", "increment"},
     given: Patch,            \* its arguments: a body, or an e-mail address and a password
     id: Ids \cup {0},
     row: Row \cup {None}]    \* the row findByEmail returned

Nothing == [email |-> None, password |-> None, role |-> None]

Idle == [pc |-> "idle", op |-> "none", given |-> Nothing, id |-> 0, row |-> None]

TypeOK ==
    /\ users \in [Ids -> Row \cup {None}]
    /\ made \in 0..MaxUsers
    /\ \A id \in Ids : id > made => users[id] = None
    /\ now \in 0..MaxNow
    /\ req \in [Reqs -> Request]
    /\ \A r \in Reqs :
          /\ req[r].pc \in {"check", "save"} => req[r].given.email \in Emails
                                               /\ req[r].given.password \in Passwords
          /\ req[r].pc \in {"verdict", "bump"} => req[r].row # None
    /\ ledger \in [Ids -> [password: Passwords \cup {None}, tally: Nat, torn: BOOLEAN]]
    /\ through \in [Reqs -> [open: BOOLEAN, locked: BOOLEAN]]

Unwritten == [password |-> None, tally |-> 0, torn |-> FALSE]

Init ==
    /\ users = [id \in Ids |-> None]
    /\ made = 0
    /\ now = 0
    /\ req = [r \in Reqs |-> Idle]
    /\ ledger = [id \in Ids |-> Unwritten]
    /\ through = [r \in Reqs |-> [open |-> FALSE, locked |-> FALSE]]

At(r, label) == req[r].pc = label

Goto(r, label) == req' = [req EXCEPT ![r].pc = label]

Exists(id) == id \in Ids /\ users[id] # None

\* findByEmail.  An index on the column keeps addresses apart.
Holders(e) == {id \in Ids : Exists(id) /\ users[id].email = Lower[e]}

Taken(id, e) == \E other \in Ids \ {id} : Exists(other) /\ users[other].email = e

-----------------------------------------------------------------------------
(* Calls arrive, and their answers are returned. *)

\* Bound: every call that may insert a row has an id left for it
Creating == {r \in Reqs : req[r].pc \in {"check", "save"}}
Room == made + Cardinality(Creating) < MaxUsers

Body(e, p, role) == [email |-> e, password |-> p, role |-> role]

Begin(r, op, label, given, id) ==
    /\ op \in Ops
    /\ At(r, "idle")
    /\ req' = [req EXCEPT ![r] = [pc |-> label, op |-> op, given |-> given, id |-> id,
                                  row |-> None]]
    /\ UNCHANGED <<users, made, now, ledger>>

Register(r) ==
    /\ Room
    /\ \E e \in Emails, p \in Passwords : Begin(r, "register", "check", Body(e, p, None), 0)

Create(r) ==
    /\ Room
    /\ \E e \in Emails, p \in Passwords, role \in Roles \cup {None} :
          Begin(r, "create", "save", Body(e, p, role), 0)

Login(r) ==
    \E e \in Emails, p \in Passwords : Begin(r, "login", "find", Body(e, p, None), 0)

Update(r) == \E body \in Patches, id \in 1..made : Begin(r, "update", "look", body, id)

Remove(r) == \E id \in 1..made : Begin(r, "remove", "look", Nothing, id)

IncrementFailedLoginAttempts(r) ==
    \E e \in Emails : Begin(r, "increment", "find", Body(e, None, None), 0)

Answer(r) ==
    /\ req[r].pc \in Answers
    /\ req' = [req EXCEPT ![r] = Idle]
    /\ UNCHANGED <<users, made, now, ledger>>

-----------------------------------------------------------------------------
(* register and create. *)

CheckEmail(r) ==
    /\ At(r, "check")
    /\ Goto(r, IF Holders(req[r].given.email) # {} \/ req[r].given.password \in Weak
               THEN "refused" ELSE "save")
    /\ UNCHANGED <<users, made, now, ledger>>

\* The initialiser of CreateUserDto.role, which UpdateUserDto inherits
RoleOf(body) == IF body.role = None THEN "user" ELSE body.role

NewRow(body) ==
    [email |-> Lower[body.email], password |-> Hash(body.password), role |-> RoleOf(body),
     failed |-> 0, locked |-> FALSE, lockedUntil |-> 0, until |-> 0]

\* bcrypt.hash, then INSERT
Save(r) ==
    /\ At(r, "save")
    /\ LET row == NewRow(req[r].given)
           id  == made + 1
       IN IF Taken(0, row.email)
          THEN Goto(r, "failed") /\ UNCHANGED <<users, made, ledger>>
          ELSE /\ made < MaxUsers
               /\ users' = [users EXCEPT ![id] = row]
               /\ made' = id
               /\ ledger' = [ledger EXCEPT ![id].password = req[r].given.password]
               /\ req' = [req EXCEPT ![r].pc = IF req[r].op = "create" THEN "done" ELSE "token",
                                     ![r].id = id]
    /\ UNCHANGED now

-----------------------------------------------------------------------------
(* login. *)

\* findByEmail of login and of incrementFailedLoginAttempts
FindByEmail(r) ==
    /\ At(r, "find")
    /\ LET login == req[r].op = "login" IN
       \/ /\ Holders(req[r].given.email) = {}
          /\ Goto(r, IF login THEN "refused" ELSE "done")
       \/ \E id \in Holders(req[r].given.email) :
             req' = [req EXCEPT ![r].pc = IF login THEN "verdict" ELSE "bump",
                                ![r].id = id, ![r].row = users[id]]
    /\ UNCHANGED <<users, made, now, ledger>>

\* (mutant: the check of isLocked is forgotten)
AdmitsLocked(row, p) == row.password = Hash(p) /\ row.until <= now

Admits(row, p) == row.password = Hash(p) /\ ~row.locked /\ row.until <= now

\* bcrypt.compare, then the account's status, both on the row as it was found
Verdict(r) ==
    /\ At(r, "verdict")
    /\ Goto(r, IF Admits(req[r].row, req[r].given.password) THEN "token" ELSE "refused")
    /\ UNCHANGED <<users, made, now, ledger>>

\* generateTokenPair, of which AuthSessions has the rest: the INSERT refers to
\* the account
StoreToken(r) ==
    /\ At(r, "token")
    /\ Goto(r, IF ~Exists(req[r].id) THEN "failed"
               ELSE IF req[r].op = "login" THEN "touch" ELSE "done")
    /\ UNCHANGED <<users, made, now, ledger>>

\* Is a count of this account's failures between its read and its write?
Counting(id, others) == \E s \in others : At(s, "bump") /\ req[s].id = id

Reset(id, others) ==
    ledger' = [ledger EXCEPT ![id].tally = 0, ![id].torn = @ \/ Counting(id, others)]

\* updateLastLogin
Touch(r) ==
    /\ At(r, "touch")
    /\ LET id == req[r].id
       IN IF Exists(id)
          THEN users' = [users EXCEPT ![id].failed = 0] /\ Reset(id, Reqs)
          ELSE UNCHANGED <<users, ledger>>
    /\ Goto(r, "done")
    /\ UNCHANGED <<made, now>>

-----------------------------------------------------------------------------
(* update and remove. *)

\* findOne of update and of remove
LookUp(r) ==
    /\ At(r, "look")
    /\ Goto(r, IF ~Exists(req[r].id) THEN "refused"
               ELSE IF req[r].op = "update" THEN "write" ELSE "delete")
    /\ UNCHANGED <<users, made, now, ledger>>

\* (mutant: the address is stored as it was typed)
PatchedAsTyped(row, body) ==
    [row EXCEPT !.email = IF body.email = None THEN @ ELSE body.email,
                !.password = IF body.password = None THEN @ ELSE Hash(body.password),
                !.role = RoleOf(body)]

\* (mutant: the new password is stored as it was typed)
PatchedUnhashed(row, body) ==
    [row EXCEPT !.email = IF body.email = None THEN @ ELSE Lower[body.email],
                !.password = IF body.password = None THEN @ ELSE body.password,
                !.role = RoleOf(body)]

Patched(row, body) ==
    [row EXCEPT !.email = IF body.email = None THEN @ ELSE Lower[body.email],
                !.password = IF body.password = None THEN @ ELSE Hash(body.password),
                !.role = RoleOf(body)]

\* (mutant: save of the entity, which inserts the row when it has gone)
WriteBySave(r) ==
    /\ At(r, "write")
    /\ LET id == req[r].id IN
       /\ users' = [users EXCEPT ![id] =
             Patched(IF Exists(id) THEN @ ELSE NewRow(Body(CHOOSE e \in Emails : TRUE,
                                                           CHOOSE p \in Passwords : TRUE, None)),
                     req[r].given)]
       /\ UNCHANGED ledger
    /\ Goto(r, "reread")
    /\ UNCHANGED <<made, now>>

\* UPDATE ... WHERE id, which changes nothing when the row has gone
Write(r) ==
    /\ At(r, "write")
    /\ LET id   == req[r].id
           body == req[r].given
           row  == Patched(users[id], body)
       IN \/ /\ ~Exists(id)
             /\ Goto(r, "reread")
             /\ UNCHANGED <<users, ledger>>
          \/ /\ Exists(id) /\ Taken(id, row.email)
             /\ Goto(r, "failed")
             /\ UNCHANGED <<users, ledger>>
          \/ /\ Exists(id) /\ ~Taken(id, row.email)
             /\ users' = [users EXCEPT ![id] = row]
             /\ ledger' = [ledger EXCEPT ![id].password =
                              IF body.password = None THEN @ ELSE body.password]
             /\ Goto(r, "reread")
    /\ UNCHANGED <<made, now>>

Reread(r) ==
    /\ At(r, "reread")
    /\ Goto(r, IF Exists(req[r].id) THEN "done" ELSE "refused")
    /\ UNCHANGED <<users, made, now, ledger>>

Delete(r) ==
    /\ At(r, "delete")
    /\ users' = [users EXCEPT ![req[r].id] = None]
    /\ Goto(r, "done")
    /\ UNCHANGED <<made, now, ledger>>

-----------------------------------------------------------------------------
(* The methods nobody calls.  The count is read, raised and written back    *)
(* as a number; lockedUntil is written and never read.                      *)

\* (mutant: the lock is decided anew by every count)
CountedAnew(row, failed) ==
    [row EXCEPT !.failed = failed, !.locked = failed >= MaxAttempts]

\* (mutant: one attempt too many)
CountedShort(row, failed) ==
    IF failed > MaxAttempts
    THEN [row EXCEPT !.failed = failed, !.locked = TRUE, !.lockedUntil = now + LockDuration]
    ELSE [row EXCEPT !.failed = failed]

Counted(row, failed) ==
    IF failed >= MaxAttempts
    THEN [row EXCEPT !.failed = failed, !.locked = TRUE, !.lockedUntil = now + LockDuration]
    ELSE [row EXCEPT !.failed = failed]

Bump(r) ==
    /\ At(r, "bump")
    /\ LET id == req[r].id
       IN IF Exists(id)
          THEN /\ users' = [users EXCEPT ![id] = Counted(@, req[r].row.failed + 1)]
               /\ ledger' = [ledger EXCEPT ![id].tally = @ + 1,
                                           ![id].torn = @ \/ Counting(id, Reqs \ {r})]
          ELSE UNCHANGED <<users, ledger>>
    /\ Goto(r, "done")
    /\ UNCHANGED <<made, now>>

UnlockUser(id) ==
    /\ "unlock" \in Ops
    /\ Exists(id)
    /\ users' = [users EXCEPT ![id].locked = FALSE, ![id].lockedUntil = 0, ![id].failed = 0]
    /\ Reset(id, Reqs)
    /\ UNCHANGED <<made, now, req>>

SuspendUser(id, until) ==
    /\ "suspend" \in Ops
    /\ Exists(id)
    /\ users' = [users EXCEPT ![id].until = until]
    /\ UNCHANGED <<made, now, req, ledger>>

ChangePassword(id, p) ==
    /\ "changePassword" \in Ops
    /\ Exists(id)
    /\ users' = [users EXCEPT ![id].password = Hash(p)]
    /\ ledger' = [ledger EXCEPT ![id].password = p]
    /\ UNCHANGED <<made, now, req>>

-----------------------------------------------------------------------------
Tick ==
    /\ now < MaxNow
    /\ now' = now + 1
    /\ UNCHANGED <<users, made, req, ledger>>

\* A statement fails: the call ends there, and what it did before stays done
DbError(r) ==
    /\ DbFails
    /\ req[r].pc \in Calls
    /\ Goto(r, "failed")
    /\ UNCHANGED <<users, made, now, ledger>>

\* Bound: attempts counted
Countable(r) ==
    req[r].op = "increment" =>
        \A id \in Ids : Exists(id) => /\ users[id].failed < MaxFailed
                                     /\ ledger[id].tally < MaxFailed

Step ==
    \/ \E r \in Reqs : Register(r)
    \/ \E r \in Reqs : Create(r)
    \/ \E r \in Reqs : Login(r)
    \/ \E r \in Reqs : Update(r)
    \/ \E r \in Reqs : Remove(r)
    \/ \E r \in Reqs : IncrementFailedLoginAttempts(r)
    \/ \E r \in Reqs : Answer(r)
    \/ \E r \in Reqs : CheckEmail(r)
    \/ \E r \in Reqs : Save(r)
    \/ \E r \in Reqs : Countable(r) /\ FindByEmail(r)
    \/ \E r \in Reqs : Verdict(r)
    \/ \E r \in Reqs : StoreToken(r)
    \/ \E r \in Reqs : Touch(r)
    \/ \E r \in Reqs : LookUp(r)
    \/ \E r \in Reqs : Write(r)
    \/ \E r \in Reqs : Reread(r)
    \/ \E r \in Reqs : Delete(r)
    \/ \E r \in Reqs : Countable(r) /\ Bump(r)
    \/ \E id \in Ids : UnlockUser(id)
    \/ \E id \in Ids, until \in 0..MaxNow : SuspendUser(id, until)
    \/ \E id \in Ids, p \in Passwords : ChangePassword(id, p)
    \/ Tick
    \/ \E r \in Reqs : DbError(r)

\* The account a login is for is there, neither locked nor suspended, and the
\* login has the password that was set last
Open(r) ==
    \E id \in Holders(req[r].given.email) :
        /\ ledger[id].password = req[r].given.password
        /\ ~users[id].locked /\ users[id].until <= now

Locked(r) == \E id \in Holders(req[r].given.email) : users[id].locked

Note(r) ==
    LET begins == At(r, "idle")
        login  == req'[r].op = "login"
    IN IF req[r].pc \in Answers /\ login THEN through[r]
       ELSE [open   |-> login /\ (begins \/ through[r].open) /\ Open(r)',
             locked |-> login /\ (begins \/ through[r].locked) /\ Locked(r)']

Next == Step /\ through' = [r \in Reqs |-> Note(r)]

Spec == Init /\ [][Next]_vars

-----------------------------------------------------------------------------
(* Why the properties hold. *)

AddressesLower == \A id \in Ids : Exists(id) => Lower[users[id].email] = users[id].email

DigestsAgree == \A id \in Ids : Exists(id) => users[id].password = Hash(ledger[id].password)

\* While the account has been open, or locked, all along, so is the row that was read
RowIsFair(r) ==
    /\ req[r].op = "login" => req[r].pc \in {"find", "verdict", "token", "touch"} \cup Answers
    /\ req[r].op = "login" /\ At(r, "verdict") =>
          /\ through[r].open => Admits(req[r].row, req[r].given.password)
          /\ through[r].locked => req[r].row.locked
    /\ req[r].op = "login" /\ At(r, "refused") => ~through[r].open
    /\ req[r].op = "login" /\ req[r].pc \in {"token", "touch", "done"} => ~through[r].locked

\* A count that will not be lost is that of the row as it is
CountIsSound(id) ==
    /\ users[id].failed = ledger[id].tally
    /\ ledger[id].tally >= MaxAttempts => users[id].locked
    /\ \A r \in Reqs : At(r, "bump") /\ req[r].id = id => req[r].row.failed = users[id].failed

CountInv ==
    /\ \A id \in Ids : Exists(id) /\ ~ledger[id].torn => CountIsSound(id)
    /\ \A id \in Ids : id > made => ledger[id] = Unwritten
    /\ \A r \in Reqs : At(r, "bump") => req[r].id \in 1..made

LoginInv == \A r \in Reqs : RowIsFair(r)

-----------------------------------------------------------------------------
(* Properties. *)

\* No two accounts have the same address in another spelling: the index is
\* case-sensitive, so that it takes toLowerCase at every place where an address
\* is stored (auth.service.ts:124 and the Transform of the DTOs).
OnePerAddress ==
    \A id, other \in Ids :
        Exists(id) /\ Exists(other) /\ Lower[users[id].email] = Lower[users[other].email]
            => id = other

\* auth.service.ts:56-80 judges a login on a row it read an await earlier: still,
\* one with the password that was set last, whatever call set it, for an account
\* that was neither locked nor suspended while it ran, is not refused.
RightfulLogin == \A r \in Reqs : req[r].op = "login" /\ At(r, "refused") => ~through[r].open

\* ... and one for an account that has been locked all along gets no tokens.
LockedOut ==
    \A r \in Reqs :
        req[r].op = "login" /\ req[r].pc \in {"token", "touch", "done"} => ~through[r].locked

\* users.service.ts:88-127: a lock outlives logins that read the account before
\* it, counts that overlap it and updates; only unlockUser lifts it.
LockHolds ==
    [][\A id \in Ids :
          Exists(id) /\ users[id].locked /\ Exists(id)'
              => users'[id].locked \/ UnlockUser(id)]_vars

\* users.service.ts:53-85: an account that has been removed does not come back,
\* whatever was executing when it went (update writes by id; revokeToken of
\* auth.service.ts, which uses save, does put a removed row back).
RemovedStaysRemoved ==
    [][\A id \in 1..made : users[id] = None => users'[id] = None]_vars

\* users.service.ts:101-127: failures counted one after another add up, and the
\* account is locked from the MaxAttempts-th on.  Counts that overlap, or that
\* overlap the reset of a login, may be lost.
FailuresCounted ==
    \A id \in Ids : Exists(id) /\ ~ledger[id].torn =>
        /\ users[id].failed = ledger[id].tally
        /\ ledger[id].tally >= MaxAttempts => users[id].locked

=============================================================================
