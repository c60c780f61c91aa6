--------------------------- MODULE MCAuthSessions ---------------------------
(* One user with one row from before tokens were hashed. *)
EXTENDS AuthSessions, TLC

CONSTANT u1

MCLegacy == u1 :> {1}

AnyRequest == Permutations(Reqs)

=============================================================================
