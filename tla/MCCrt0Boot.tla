----------------------------- MODULE MCCrt0Boot -----------------------------
(* Two tiles: the program of tile 0 may start a second thread, the one of  *)
(* tile 1 does not.  The tiles share nothing but the code they run.        *)
EXTENDS Crt0Boot

MCWorkers == {<<0, 1>>}
=============================================================================
