----------------------------- MODULE MCPackages -----------------------------
(* Small instances of the application packages for TLC.                      *)
EXTENDS Packages, TLC

CONSTANTS s1, s2, b1, b2

MCSizes == b1 :> 1 @@ b2 :> 2

(* Rotation from s1 to s2, with both in between, and three refused ones.      *)
MCConfigs ==
    {[secrets |-> <<s1>>, maxAge |-> 1, maxBody |-> 1],
     [secrets |-> <<s1, s2>>, maxAge |-> 2, maxBody |-> 0],
     [secrets |-> <<s2>>, maxAge |-> 0, maxBody |-> 2],
     [secrets |-> <<s1, s2, s1>>, maxAge |-> 1, maxBody |-> 1],
     [secrets |-> <<"weak", s2>>, maxAge |-> 1, maxBody |-> 1],
     [secrets |-> <<s1>>, maxAge |-> -1, maxBody |-> 1]}

(* Accepted: a tight limiter, and one through both defaults.  Refused: one    *)
(* for each bound.                                                           *)
MCPolicies ==
    {[limit |-> 2, window |-> 2, maxKeys |-> 2],
     [limit |-> 1, window |-> 0, maxKeys |-> 0],
     [limit |-> 0, window |-> 2, maxKeys |-> 2],
     [limit |-> 2, window |-> 9, maxKeys |-> 2],
     [limit |-> 2, window |-> 2, maxKeys |-> 4]}

Symmetry == Permutations(Tokens) \cup Permutations(LimiterCallers)
=============================================================================
