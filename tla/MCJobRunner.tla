---------------------------- MODULE MCJobRunner ----------------------------
(* Small instances of JobRunner for TLC.                                   *)
EXTENDS JobRunner

(* Durations are small numbers: 0 asks for the default, -1 and 9 lie       *)
(* outside the limits.  One Config is accepted as it is, one through its    *)
(* defaults, the others are refused for one field each.                    *)
MCConfigs ==
    {[workers |-> n, idleDelay |-> 1, jobTimeout |-> 2, deps |-> TRUE] :
        n \in {-1, 0, 2, 3}}
    \cup {[workers |-> 1, idleDelay |-> -1, jobTimeout |-> 2, deps |-> TRUE],
          [workers |-> 1, idleDelay |-> 1, jobTimeout |-> 9, deps |-> TRUE],
          [workers |-> 1, idleDelay |-> 1, jobTimeout |-> 2, deps |-> FALSE],
          [workers |-> 2, idleDelay |-> 0, jobTimeout |-> 0, deps |-> TRUE]}
=============================================================================
