----------------------------- MODULE MCPlayback -----------------------------
(* What plays a song, side by side: the account's players on the household's
   speakers, one thing at a time and overlapping; a page's sound; its queue.  All stand at
   their initial state and one of them (`part`) moves, so that the components'
   states are never multiplied.                                             *)
EXTENDS Speakers, PageSound, PageQueue, TLC
CONSTANTS
  p1, p2, s1, s2, s3,      \* players and speakers
  e1, e2                   \* page

VARIABLES
  part,
  \* the speakers again, their operations overlapping
  groups2, owners2, device2, open2, members2, playing2, starting2, polling2, foreign2, reported2,
  chain2, call2, given2, edits2

overlap == <<groups2, owners2, device2, open2, members2, playing2, starting2, polling2, foreign2,
             reported2, chain2, call2, given2, edits2>>

Pair == {{s1, s2}}

Boxes   == {s1, s2}
Overlap == Env \cup {"overlap", "fail"}

O == INSTANCE Speakers WITH
  Speakers <- Boxes, Household <- Pair, MaxOps <- 1, MaxEdits <- 0, Env <- Overlap,
  groups <- groups2, owners <- owners2, device <- device2, open <- open2, members <- members2,
  playing <- playing2, starting <- starting2, polling <- polling2, foreign <- foreign2,
  reported <- reported2, chain <- chain2, call <- call2, given <- given2, edits <- edits2

\* A page with nothing downloaded, and with its first song.
OneKept == {{}, {0}}

\* An album, and a song by itself.
Chosen == {<<1, 2, 3>>, <<3>>}

TogetherInit ==
  /\ part \in {"turn", "overlap", "page", "listing"}
  /\ Init /\ O!Init /\ SoundInit /\ QueueInit
  /\ part # "page" => ~ios /\ kept = {}
  /\ part # "listing" => ~offline /\ ~full

TogetherNext ==
  \/ part = "turn"    /\ Next      /\ UNCHANGED <<part, overlap, soundVars, queueVars>>
  \/ part = "overlap" /\ O!Next    /\ UNCHANGED <<part, vars, soundVars, queueVars>>
  \/ part = "page"    /\ SoundNext /\ UNCHANGED <<part, vars, overlap, queueVars>>
  \/ part = "listing" /\ QueueNext /\ UNCHANGED <<part, vars, overlap, soundVars>>

Together == TogetherInit /\ [][TogetherNext]_<<part, vars, overlap, soundVars, queueVars>>

\* Speakers: who drives a speaker is entered as its owner, and, operations
\* overlapping, who is entered drives it.
OwnersAgree == HeldIsOwned /\ (part = "overlap" => O!OwnedIsHeld)

\* The variables of the component that moves keep their types.
TypesOK ==
  /\ part = "turn"    => TypeOK
  /\ part = "overlap" => O!TypeOK
  /\ part = "page"    => SoundTypeOK
  /\ part = "listing" => QueueTypeOK

Symmetric == Permutations(Players)
=============================================================================
