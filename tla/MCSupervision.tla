--------------------------- MODULE MCSupervision ---------------------------
(* A small instance of Supervision for TLC: the deadlines of the source in    *)
(* units of five seconds, and exit codes that tell 0, 1 and others apart.     *)
EXTENDS Supervision

MCExitCodes == {0, 1, 2}
=============================================================================
