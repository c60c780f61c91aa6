----------------------------- MODULE MCRateLimit -----------------------------
(* Two requests at a time, a limit of two. *)
EXTENDS RateLimit, TLC

AnyRequest == Permutations(Reqs)

=============================================================================
