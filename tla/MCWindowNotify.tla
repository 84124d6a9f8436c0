---------------------------- MODULE MCWindowNotify ----------------------------
(***************************************************************************)
(* Two windows of different classes that may have the same titles, one of  *)
(* which, with the mark of a changed file, is a pattern for the other.     *)
(***************************************************************************)
EXTENDS WindowNotify, TLC

CONSTANTS A, B

MCClassOf == A :> "opera" @@ B :> "konsole"
MCCaptions == {"foo.c", "*foo.c"}
MCGlob == {<<t, t>> : t \in {"", "opera", "konsole"} \cup MCCaptions}
            \cup {<<"foo.c", "*foo.c">>}
=============================================================================
