----------------------------- MODULE MCSpeakers -----------------------------
EXTENDS Speakers, TLC
CONSTANTS p1, p2, s1, s2, s3
Pair == {{s1, s2}}
All  == {Speakers}
Symmetric == Permutations(Players)
=============================================================================
