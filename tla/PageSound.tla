----------------------------- MODULE PageSound -----------------------------
(* The sound of a page (web/src/player/usePlayer.js): two audio elements, the
   one that plays and the spare that holds the next song, and the starts, stops
   and pauses that race for them.  A start is a chain of awaits - a rapid skip
   waits for the taps to stop, a downloaded song for its bytes, a start inside a
   song for its metadata, every start for play() - and each await lets another
   press, the system, or another device's claim in.

   Songs are the positions of a queue played round and round; where in a song
   the playhead is, volume and fades' curves are left out.                   *)
EXTENDS Naturals

CONSTANTS
  Els,      \* the two audio elements
  Nothing,
  Songs,    \* how many songs the queue has
  Downloaded, \* the sets of songs that may be downloaded
  MaxGen,   \* bound on the starts
  MaxWorld, \* bound on what the system and other devices do
  SoundEnv  \* what may happen: "seek" starts inside a song, "rapid" skips,
            \* the system's "pause" and "resume", "yield", a "refused" play(),
            \* "stuck" streams, "fade" from a song into the next

ASSUME SoundAssumption ==
  /\ \E a, b \in Els : a # b /\ Els = {a, b}
  /\ Songs \in Nat \ {0} /\ Downloaded \subseteq SUBSET (0 .. Songs - 1)
  /\ Nothing \notin Els /\ Nothing \notin 0 .. Songs - 1
  /\ MaxGen \in Nat /\ MaxWorld \in Nat

VARIABLES
  ios,      \* an iPhone or iPad: no spare, no fades, a system that resumes
  kept,     \* the downloaded ones
  want,     \* the song the queue stands at, the one shown
  playingRef, \* what the page says of itself
  gen,      \* startGenRef
  loaded,   \* loadedRef
  act,      \* audioRef; the other element is the spare
  src,      \* src[e]: the song element e holds
  sounds,   \* sounds[e]: e is not paused
  fade,     \* fadeRef: the element playing out its song under the next one
  starts,   \* the starts under way
  recover,  \* the watchdog's reload under way
  own,      \* inside ownUntilRef: what the element does is of our doing
  gaveBack, \* a fade's next song would not play: the one before plays on
  world     \* how often the system or another device acted

soundVars == <<ios, kept, want, playingRef, gen, loaded, act, src, sounds, fade, starts,
               recover, own, gaveBack, world>>

Song   == 0 .. Songs - 1

After(s) == (s + 1) % Songs
Spare  == CHOOSE e \in Els : e # act

\* A start: its generation, its song, whether it starts inside the song, the
\* element it took, and the await it is at.
StartOf(g, s, seek, e, at) == [gen |-> g, song |-> s, seek |-> seek, el |-> e, at |-> at]

SoundInit ==
  /\ ios \in BOOLEAN
  /\ kept \in Downloaded
  /\ want = 0 /\ playingRef = FALSE /\ gen = 0 /\ loaded = Nothing
  /\ act = CHOOSE e \in Els : TRUE
  /\ src = [e \in Els |-> Nothing]
  /\ sounds = [e \in Els |-> FALSE]
  /\ fade = Nothing /\ starts = {} /\ recover = Nothing
  /\ own = FALSE /\ gaveBack = FALSE /\ world = 0

World == world < MaxWorld /\ world' = world + 1

(* What an element does.  Emptying it, or giving it another song, pauses it and
   aborts the play() it was asked for; a play() on an empty one is refused.  *)
Emptied(E) ==
  /\ src' = [e \in Els |-> IF e \in E THEN Nothing ELSE src[e]]
  /\ sounds' = [e \in Els |-> e \notin E /\ sounds[e]]

\* endFadeRef: a song still fading out is cut.
Fading == IF fade = Nothing THEN {} ELSE {fade}

\* The watchdog's reload is dropped when the active element changes.
Swapped(e) == act' = e /\ recover' = Nothing

\* startOn, once it knows where the song is: in the foreground the spare that
\* already holds it is swapped in, from the start; else, or with the screen
\* locked, the active element takes it and the spare is emptied.
CanSwap(s) == ~s.seek /\ src[Spare] = s.song /\ fade # Spare
SwapIn(s) ==
  /\ CanSwap(s)
  /\ Swapped(Spare)
  /\ src' = [src EXCEPT ![act] = Nothing]
  /\ sounds' = [e \in Els |-> e = Spare]
  /\ starts' = (starts \ {s}) \cup {[s EXCEPT !.el = Spare, !.at = "swap"]}

LoadInto(s, rest, e) ==
  /\ src' = [x \in Els |-> IF x = e THEN s.song ELSE Nothing]
  /\ sounds' = [x \in Els |-> x = e /\ ~s.seek]
  /\ starts' = rest \cup {[s EXCEPT !.el = e, !.at = IF s.seek THEN "meta" ELSE "play"]}

Load(s) ==
  /\ fade' = Nothing /\ own' = TRUE
  /\ \/ SwapIn(s)
     \/ LoadInto(s, starts \ {s}, act) /\ UNCHANGED <<act, recover>>

\* A start's first step: a rapid skip waits, a downloaded song is fetched, any
\* other is loaded at once.
PlayFrom(song, seek, rapid) ==
  LET s(at) == StartOf(gen + 1, song, seek, Nothing, at) IN
  /\ gen < MaxGen /\ gen' = gen + 1
  /\ want' = song /\ playingRef' = TRUE
  /\ CASE rapid -> /\ starts' = starts \cup {s("hold")}
                   /\ UNCHANGED <<act, src, sounds, fade, recover, own>>
       [] ~rapid /\ song \in kept ->
                   /\ starts' = starts \cup {s("fetch")}
                   /\ Emptied(Fading) /\ fade' = Nothing /\ own' = TRUE
                   /\ UNCHANGED <<act, recover>>
       [] OTHER -> Load(s("load"))
  /\ UNCHANGED <<ios, kept, loaded, world>>

\* A press that starts a song: a tap in a list, a skip, a routed command, or
\* play on a song that is shown but not loaded.
Press ==
  /\ gaveBack' = FALSE
  /\ \E song \in Song :
       \/ PlayFrom(song, FALSE, FALSE)
       \/ "rapid" \in SoundEnv /\ gen > 0 /\ PlayFrom(song, FALSE, TRUE)
       \/ /\ "seek" \in SoundEnv /\ ~playingRef /\ loaded # song /\ song = want
          /\ PlayFrom(song, TRUE, FALSE)

\* The song ended by itself: on to the next one.
Ended ==
  /\ sounds[act] /\ starts = {} /\ PlayFrom(After(want), FALSE, FALSE)
  /\ gaveBack' = FALSE

(* The awaits of a start, one by one.                                        *)
\* Were a skip that another start overtook to go on:
HoldOverAnyway(s) ==
  /\ s.at = "hold"
  /\ IF s.song \in kept
     THEN /\ starts' = (starts \ {s}) \cup {[s EXCEPT !.at = "fetch"]}
          /\ Emptied(Fading) /\ fade' = Nothing /\ own' = TRUE
          /\ UNCHANGED <<act, recover>>
     ELSE Load(s)
  /\ UNCHANGED <<want, playingRef, gen, loaded>>

HoldOver(s) ==
  /\ s.at = "hold"
  /\ IF s.gen # gen
     THEN starts' = starts \ {s} /\ UNCHANGED <<act, src, sounds, fade, recover, own>>
     ELSE IF s.song \in kept
     THEN /\ starts' = (starts \ {s}) \cup {[s EXCEPT !.at = "fetch"]}
          /\ Emptied(Fading) /\ fade' = Nothing /\ own' = TRUE
          /\ UNCHANGED <<act, recover>>
     ELSE Load(s)
  /\ UNCHANGED <<want, playingRef, gen, loaded>>

\* The bytes of a downloaded song are in: it is loaded, no questions asked.
Fetched(s) ==
  s.at = "fetch" /\ Load(s) /\ UNCHANGED <<want, playingRef, gen, loaded>>

\* The metadata is in (or 3 s have passed): play() on the element it took.
Metadata(s) ==
  /\ s.at = "meta"
  /\ sounds' = [sounds EXCEPT ![s.el] = @ \/ src[s.el] # Nothing]
  /\ starts' = (starts \ {s}) \cup {[s EXCEPT !.at = "play"]}
  /\ UNCHANGED <<want, playingRef, gen, loaded, act, src, fade, recover, own>>

\* play() resolves while the element still holds the song and plays it;
\* anything done to the element meanwhile aborted it.
StillHolds(s) == src[s.el] = s.song /\ sounds[s.el]

Played(s) ==
  /\ s.at \in {"play", "swap"} /\ StillHolds(s)
  /\ loaded' = IF s.gen = gen THEN s.song ELSE loaded
  /\ starts' = starts \ {s}
  /\ UNCHANGED <<want, playingRef, gen, act, src, sounds, fade, recover, own>>

\* An aborted or failed play(): the newest start says so, an older one keeps
\* silent.  A swap's play() that aborts is left to whatever aborted it.
Aborted(s) ==
  /\ s.at \in {"play", "swap"} /\ ~StillHolds(s)
  /\ playingRef' = (playingRef /\ (s.at = "swap" \/ s.gen # gen))
  /\ starts' = starts \ {s}
  /\ UNCHANGED <<want, gen, loaded, act, src, sounds, fade, recover, own>>

\* The spare would not play (or not within 4 s): it is emptied, the elements
\* are swapped back and the song is loaded the ordinary way.
SwapFailed(s) ==
  /\ "refused" \in SoundEnv /\ s.at = "swap" /\ StillHolds(s)
  /\ IF s.gen = gen
     THEN LET old == CHOOSE e \in Els : e # s.el IN
          /\ Swapped(old) /\ LoadInto(s, starts \ {s}, old)
          /\ UNCHANGED <<fade, own>>
     ELSE starts' = starts \ {s} /\ UNCHANGED <<act, src, sounds, fade, recover, own>>
  /\ UNCHANGED <<want, playingRef, gen, loaded>>

StartStep ==
  /\ \E s \in starts :
       HoldOver(s) \/ Fetched(s) \/ Metadata(s) \/ Played(s) \/ Aborted(s) \/ SwapFailed(s)
  /\ UNCHANGED <<ios, kept, gaveBack, world>>

(* Pause and play of what is loaded.                                         *)
Pause ==
  /\ playingRef /\ playingRef' = FALSE
  /\ src' = [e \in Els |-> IF e \in Fading THEN Nothing ELSE src[e]]
  /\ sounds' = [e \in Els |-> FALSE] /\ fade' = Nothing /\ own' = TRUE
  /\ UNCHANGED <<ios, kept, want, gen, loaded, act, starts, recover, gaveBack, world>>

\* A dead element (emptied, or its stream cut off) is loaded afresh.
TogglePlay ==
  /\ ~playingRef /\ loaded = want /\ src[act] # Nothing
  /\ playingRef' = TRUE
  /\ sounds' = [sounds EXCEPT ![act] = TRUE]
  /\ UNCHANGED <<ios, kept, want, gen, loaded, act, src, fade, starts, recover, own, gaveBack,
                 world>>

Revive ==
  /\ ~playingRef /\ loaded = want /\ src[act] = Nothing /\ gaveBack' = FALSE
  /\ PlayFrom(want, "seek" \in SoundEnv, FALSE)

\* Another device took over, or the session was handed to one: both elements
\* are emptied.  A start under way is not told.
StopOn ==
  /\ "yield" \in SoundEnv /\ World
  /\ loaded' = Nothing /\ playingRef' = FALSE /\ own' = TRUE
  /\ Emptied(Els) /\ fade' = Nothing
  /\ UNCHANGED <<ios, kept, want, gen, act, starts, recover, gaveBack>>

(* The spare and the fades.                                                  *)
\* 1.5 s into a song the next one is opened in the spare (never on an iPhone);
\* by then a start the current one superseded no longer waits for metadata.
Preload ==
  /\ ~ios /\ playingRef /\ fade = Nothing /\ src[Spare] # After(want)
  /\ \A s \in starts : s.at = "meta" => s.gen = gen /\ s.el = act
  /\ src' = [src EXCEPT ![Spare] = After(want)]
  /\ UNCHANGED <<ios, kept, want, playingRef, gen, loaded, act, sounds, fade, starts, recover, own,
                 gaveBack, world>>

\* beginTransition: the next song starts in the spare while this one ends.
Transition ==
  /\ "fade" \in SoundEnv /\ ~ios /\ playingRef /\ fade = Nothing
  /\ src[act] = want /\ sounds[act] /\ src[Spare] = After(want)
  /\ gen < MaxGen /\ gen' = gen + 1
  /\ want' = After(want) /\ loaded' = After(want)
  /\ fade' = act /\ Swapped(Spare)
  /\ sounds' = [sounds EXCEPT ![Spare] = TRUE]
  /\ own' = TRUE /\ gaveBack' = FALSE
  /\ UNCHANGED <<ios, kept, playingRef, src, starts, world>>

\* The next song would not start: the element that was ending plays on.
GiveBack ==
  /\ "refused" \in SoundEnv /\ fade # Nothing /\ sounds[act]
  /\ sounds' = [sounds EXCEPT ![act] = FALSE]
  /\ Swapped(fade) /\ fade' = Nothing /\ own' = TRUE /\ gaveBack' = TRUE
  /\ UNCHANGED <<ios, kept, want, playingRef, gen, loaded, src, starts, world>>

FadeOver ==
  /\ fade # Nothing /\ Emptied({fade}) /\ fade' = Nothing
  /\ UNCHANGED <<ios, kept, want, playingRef, gen, loaded, act, starts, recover, own,
                 gaveBack, world>>

(* The watchdog: a stuck song is loaded again where it stood, and played if it
   is still the song of the active element and still meant to play.          *)
Reload ==
  /\ "stuck" \in SoundEnv /\ recover = Nothing /\ playingRef /\ sounds[act] /\ ~own
  /\ sounds' = [sounds EXCEPT ![act] = FALSE]
  /\ recover' = [el |-> act, song |-> src[act]] /\ own' = TRUE
  /\ UNCHANGED <<ios, kept, want, playingRef, gen, loaded, act, src, fade, starts,
                 gaveBack, world>>

StillStuck(r) == r.el = act /\ src[r.el] = r.song /\ playingRef

Recovered ==
  /\ recover # Nothing /\ recover' = Nothing
  /\ sounds' = IF StillStuck(recover) THEN [sounds EXCEPT ![recover.el] = TRUE] ELSE sounds
  /\ UNCHANGED <<ios, kept, want, playingRef, gen, loaded, act, src, fade, starts, own,
                 gaveBack, world>>

(* The system.  What it does to the active element outside our own windows is
   followed; inside them it is found by the once-a-second comparison.        *)
FollowSystem(now) == playingRef' = IF own THEN playingRef ELSE now

SystemPause ==
  /\ "pause" \in SoundEnv /\ World /\ sounds[act]
  /\ sounds' = [sounds EXCEPT ![act] = FALSE] /\ FollowSystem(FALSE)
  /\ UNCHANGED <<ios, kept, want, gen, loaded, act, src, fade, starts, recover, own, gaveBack>>

\* iOS resumes whatever element holds a song.
SystemResume ==
  /\ "resume" \in SoundEnv /\ World /\ ios
  /\ \E e \in Els :
       /\ src[e] # Nothing /\ ~sounds[e]
       /\ sounds' = [sounds EXCEPT ![e] = TRUE]
       /\ IF e = act THEN FollowSystem(TRUE) ELSE playingRef' = playingRef
  /\ UNCHANGED <<ios, kept, want, gen, loaded, act, src, fade, starts, recover, own, gaveBack>>
\* Were only a silent element found:
ReconcilePaused ==
  /\ src[act] # Nothing /\ ~own /\ playingRef /\ ~sounds[act]
  /\ playingRef' = FALSE
  /\ UNCHANGED <<ios, kept, want, gen, loaded, act, src, sounds, fade, starts, recover, own,
                 gaveBack, world>>

Reconcile ==
  /\ src[act] # Nothing /\ ~own /\ playingRef # sounds[act]
  /\ playingRef' = sounds[act]
  /\ UNCHANGED <<ios, kept, want, gen, loaded, act, src, sounds, fade, starts, recover, own,
                 gaveBack, world>>

\* The 3 s (10 s, for a reload) of our own doing are over.
OwnOver ==
  /\ own /\ recover = Nothing /\ own' = FALSE
  /\ UNCHANGED <<ios, kept, want, playingRef, gen, loaded, act, src, sounds, fade, starts, recover,
                 gaveBack, world>>

SoundNext ==
  \/ Press \/ Ended \/ StartStep \/ Pause \/ TogglePlay \/ Revive \/ StopOn
  \/ Preload \/ Transition \/ GiveBack \/ FadeOver \/ Reload \/ Recovered
  \/ SystemPause \/ SystemResume \/ Reconcile \/ OwnOver

SoundSpec == SoundInit /\ [][SoundNext]_soundVars

\* Promises settle and timers fire: a start under way gets on, a reload ends, the
\* windows pass and the comparison is made.
SoundFairness ==
  /\ WF_soundVars(StartStep) /\ WF_soundVars(Recovered) /\ WF_soundVars(FadeOver)
  /\ WF_soundVars(OwnOver) /\ WF_soundVars(Reconcile)
SoundFairSpec == SoundSpec /\ SoundFairness
-----------------------------------------------------------------------------
SoundTypeOK ==
  /\ ios \in BOOLEAN /\ kept \subseteq Song /\ want \in Song
  /\ playingRef \in BOOLEAN /\ gen \in 0 .. MaxGen
  /\ loaded \in Song \cup {Nothing} /\ act \in Els
  /\ src \in [Els -> Song \cup {Nothing}] /\ sounds \in [Els -> BOOLEAN]
  /\ fade \in Els \cup {Nothing}
  /\ starts \subseteq [gen : 1 .. MaxGen, song : Song, seek : BOOLEAN, el : Els \cup {Nothing},
                       at : {"hold", "fetch", "meta", "play", "swap"}]
  /\ own \in BOOLEAN /\ gaveBack \in BOOLEAN /\ world \in 0 .. MaxWorld

\* Two songs are never heard at once, a fade apart: whichever starts overlap,
\* and whatever iOS resumes, the element that is not the page's own is silent.
OneSound == \A e \in Els \ {act} : sounds[e] => fade = e

\* The newest start wins: once every start is over, the song heard is the song
\* shown - as long as no song had to be fetched from the downloads.
LatestStartWins ==
  kept = {} /\ ~gaveBack /\ starts = {} /\ sounds[act]
  => src[act] = want

\* Of the songs heard one is the page's own, and it is the newest start's.
HeardIsShown == OneSound /\ LatestStartWins

\* Whatever the system did to the element, the page's play button comes to agree
\* with what is heard.
ButtonAgrees == playingRef # sounds[act] ~> playingRef = sounds[act]
=============================================================================
