----------------------------- MODULE MCAccounts -----------------------------
(* Two spellings of one address and another address; the operations the     *)
(* routes of the program call, and those that count, lock and judge a login.  *)
EXTENDS Accounts, TLC

CONSTANTS a, A, b, p, q

MCLower == (a :> a) @@ (A :> a) @@ (b :> b)

MCOneAddress == a :> a

MCPatches ==
    {[Nothing EXCEPT !.email = A], [Nothing EXCEPT !.password = q],
     [Nothing EXCEPT !.role = "admin"], Nothing}

\* The address and the role play no part in these
MCPasswords == {[Nothing EXCEPT !.password = q]}

Routes == {"register", "create", "login", "update", "remove"}

LockOps == {"register", "login", "update", "increment", "unlock", "suspend", "changePassword"}

AnyRequest == Permutations(Reqs)

=============================================================================
