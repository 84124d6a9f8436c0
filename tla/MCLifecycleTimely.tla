------------------------- MODULE MCLifecycleTimely -------------------------
(***************************************************************************)
(* Lifecycle with work that fits into the four seconds of cleanUp(): the   *)
(* instances on which the proved properties are also model-checked.        *)
(***************************************************************************)
EXTENDS MCLifecycle, LifecycleProofs
=============================================================================
