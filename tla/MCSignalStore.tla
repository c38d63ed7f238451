---------------------------- MODULE MCSignalStore ----------------------------
(***************************************************************************)
(* Instances of SignalStore for TLC.                                       *)
(***************************************************************************)
EXTENDS SignalRefinement, TLC

CONSTANTS p1, p2, p3, g1, g2, g3, g4, k1, k2, bad, Nil

OnePost    == {p1}
TwoPosts   == {p1, p2}
ThreePosts == {p1, p2, p3}
TwoGets    == {g1, g2}
FourGets   == {g1, g2, g3, g4}
OneKey     == {k1}
TwoKeys    == {k1, k2}
OneKeyAndBad  == {k1, bad}
Nobody     == {}
BigPost    == {p2}

\* Requests of one kind are interchangeable, and so are valid channel keys;
\* p2, which may be oversized, is left out where it is.
Symmetry == Permutations(Posts \ Oversized) \cup Permutations(Gets) \cup Permutations(ValidIds)
=============================================================================
