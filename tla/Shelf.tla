------------------------------- MODULE Shelf -------------------------------
(* What the library promises a listener (server/src/remap.ts:1-5, scanner.ts):
   songs come and go with their files, under whatever names and encodings, and
   what was liked stays liked.  A like ends with a song that has been away for
   the 180 days the library remembers it, and with nothing else.             *)
CONSTANT Songs

VARIABLES
  here,   \* the songs there is a recording of
  liked

vars == <<here, liked>>

Init == here \subseteq Songs /\ liked = {}

\* Songs arrive, and leave with their files.
Change == here' \subseteq Songs /\ liked' = liked

Like(s) == s \in here /\ liked' = liked \cup {s} /\ here' = here

Forget(s) == s \in liked \ here /\ liked' = liked \ {s} /\ here' = here

Next == Change \/ \E s \in Songs : Like(s) \/ Forget(s)

Spec == Init /\ [][Next]_vars
=============================================================================
