------------------------------ MODULE MCSSEHub ------------------------------
(* Small instances of SSEHub for TLC: the hub's own topic, which ServeHTTP *)
(* and Publish use, and one application topic.                             *)
EXTENDS SSEHub, TLC

MCTopics == {"", "orders"}

MCOneTopic == {""}

(* Handlers differ in nothing but their name.                              *)
Symmetry == Permutations(Conns)
=============================================================================
