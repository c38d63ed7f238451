---------------------------- MODULE MCRecordStore ----------------------------
(* Small instances of RecordStore for TLC.                                  *)
EXTENDS RecordStore, TLC

CONSTANTS p1, p2, p3, p4, l1, l2, i1, i2, i3, i4

OneLookup   == {l1}
TwoLookups  == {l1, l2}
TwoPuts     == {p1, p2}
FourPuts    == {p1, p2, p3, p4}
TwoIds      == {i1, i2}
FourIds     == {i1, i2, i3, i4}

One         == {1}
OneToTwo    == 1..2

\* Two identifiers that differ in their first bit have none in common.
FirstBit    == [i \in LookupIds |-> [j \in LookupIds |-> IF i = j THEN MaxBits ELSE 0]]

Alike == Permutations(Publishes) \cup Permutations(Lookups) \cup Permutations(LookupIds)

=============================================================================
