---------------------------- MODULE MCTranscode ----------------------------
EXTENDS Transcode, TLC
CONSTANTS v1, v2, v3, c1, c2, c3, w1
Symmetric == Permutations(Variants) \cup Permutations(Requests)
=============================================================================
