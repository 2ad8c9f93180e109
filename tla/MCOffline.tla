----------------------------- MODULE MCOffline -----------------------------
EXTENDS Offline, TLC
CONSTANTS a1, l1, l2, s1, s2
\* A song that is in two playlists, and one that is not.
Playlists == (l1 :> {{s1, s2}}) @@ (l2 :> {{s1}})
=============================================================================
