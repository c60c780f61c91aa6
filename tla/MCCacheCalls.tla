---------------------------- MODULE MCCacheCalls ----------------------------
(* CacheCalls with two keys in one namespace, and a target that the Map's  *)
(* loop does not match: a pattern with a '*' in it.                         *)
EXTENDS CacheCalls

CONSTANTS k1, k2

MCKeys == {k1, k2}

MCTargets == {[globbed |-> {k1, k2}, swept |-> {k1, k2}],
              [globbed |-> {k1, k2}, swept |-> {}]}

=============================================================================
