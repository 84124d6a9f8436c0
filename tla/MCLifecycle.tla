---------------------------- MODULE MCLifecycle ----------------------------
(***************************************************************************)
(* Instances of Lifecycle for TLC: the ticks are those of the code, and    *)
(* one handler of every kind that matters takes part.                      *)
(***************************************************************************)
EXTENDS Lifecycle

CONSTANTS mouse, log, net

OneDevice == {mouse}
OneLog    == {log}
OneServer == {net}
=============================================================================
