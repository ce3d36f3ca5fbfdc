----------------------------- MODULE MCScaffold -----------------------------
(* A small instance of Scaffold for TLC: modules with two files and a        *)
(* registration, with files alone, and with one file and a registration, so  *)
(* that two invocations may both replace routes.go.                          *)
EXTENDS Scaffold, TLC

MCModules == {"openapi", "jobs", "mail"}

MCRequests == {<< >>, <<"openapi">>, <<"mail">>, <<"jobs", "openapi">>}

MCLegacy == <<"jobs">>

MCLegacyRoutes == << >>     \* jobs registers none

Symmetry == Permutations(Procs)
=============================================================================
