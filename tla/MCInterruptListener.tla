------------------------ MODULE MCInterruptListener ------------------------
(* InterruptListener for TLC: two threads besides the runner can be in the *)
(* signal handler at the same time.                                        *)
EXTENDS InterruptListener

CONSTANTS t1, t2, SIGINT, SIGTERM, SIGHUP
=============================================================================
