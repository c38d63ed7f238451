---------------------------- MODULE MCSignalSweep ----------------------------
(***************************************************************************)
(* Instances of SignalStore for TLC, with SignalSweep's history.           *)
(***************************************************************************)
EXTENDS SignalRefinement, SignalSweep, TLC

CONSTANTS p1, p2, p3, g1, g2, k1, k2, Nil

ThreePosts == {p1, p2, p3}
OneGet     == {g1}
TwoGets    == {g1, g2}
TwoKeys    == {k1, k2}
Nobody     == {}

\* Requests of one kind are interchangeable, and so are channel keys.
Symmetry == Permutations(Posts) \cup Permutations(Gets) \cup Permutations(ValidIds)
=============================================================================
