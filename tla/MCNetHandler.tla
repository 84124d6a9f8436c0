---------------------------- MODULE MCNetHandler ----------------------------
(***************************************************************************)
(* Charmaps and texts on which TLC runs NetHandler.                        *)
(***************************************************************************)
EXTENDS NetHandler

Maps(left, right, width) == [left |-> left, right |-> right, width |-> width]

\* Like keymaps/charmap.us: every sequence has two characters.
UsLike == << Maps(<<"a">>, "a", 1), Maps(<<"d">>, "d", 1),
             Maps(<<"^", "^">>, "@+S", 3), Maps(<<"^", "d">>, "DOWN", 4) >>

\* A short sequence that begins a long one, and one inside it.
Nested == << Maps(<<"a">>, "a", 1), Maps(<<"^">>, "6+S", 3),
             Maps(<<"d", "^">>, "END+C", 5),
             Maps(<<"^", "d", "a">>, "z+C", 5), Maps(<<"^", "^">>, "@+S", 3) >>

\* The beginning of the example in the README, section NET.
Readme == << Maps(<<"a">>, "1", 1), Maps(<<"d">>, "4", 1), Maps(<<"d", "a">>, "5", 1) >>

GoodCharmaps   == {UsLike, Nested}
ReadmeCharmaps == {Readme}

ThreeChars == {"a", "d", "^"}
Names      == {"a", "d", "@+S", "DOWN", "6+S", "END+C", "z+C", "1", "4", "5"}
UpToThree  == UNION {[1..n -> ThreeChars] : n \in 1..3}
UpToTwo    == UNION {[1..n -> ThreeChars] : n \in 1..2}
=============================================================================
