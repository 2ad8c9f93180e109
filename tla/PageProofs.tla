------------------------------ MODULE PageProofs ------------------------------
(* Proofs about a page that plays, for any values of the constants.

   PageSound, for any number of songs and starts, whatever the listener, the
   system and other devices do: one song is heard, the newest start's.

   PageQueue, for any lists and any number of lookups under way: the queue is
   left at its song by what is added to it later, and opened again at the song it
   was closed on.  Held: what is kept is the queue there is; Asked: picks are
   looked up for a queue that has the song they are looked up for in front, once,
   and a list is filled in round a song that is in it.                        *)
EXTENDS PageSound, PageQueue, FiniteSetTheorems, SequenceTheorems, TLAPS

-----------------------------------------------------------------------------
(* PageSound.                                                               *)

\* A start that has taken an element.
Past(s) == s.at \in {"meta", "play", "swap"}

Started == [gen : 1 .. MaxGen, song : Song, seek : BOOLEAN, el : Els \cup {Nothing},
            at : {"hold", "fetch", "meta", "play", "swap"}]

\* A start by the time it loads its song.
Loading == [gen : 1 .. MaxGen, song : Song, seek : BOOLEAN, el : Els \cup {Nothing},
            at : {"hold", "fetch", "load"}]

\* What may sound: the spare holds nothing on an iPhone, and a start that waits
\* for metadata will sound where the page plays or fades, or not at all.
Quiet ==
  /\ fade # act
  /\ ios => fade = Nothing /\ \A e \in Els : e # act => src[e] = Nothing
  /\ \A s \in starts : s.at = "meta" => s.el = act \/ s.el = fade \/ src[s.el] = Nothing
  /\ fade # Nothing => \A s \in starts : s.at = "meta" => s.el # act
  /\ OneSound

\* The starts: one of each generation, the newest for the song shown.
Lined ==
  /\ \A s \in starts : s.gen <= gen
  /\ \A s, t \in starts : s.gen = t.gen => s = t
  /\ \A s \in starts : s.gen = gen => s.song = want
  /\ \A s \in starts : Past(s) => s.el \in Els
  /\ \A s \in starts : s.at = "swap" => ~s.seek
  /\ \A s \in starts : s.gen = gen /\ Past(s) => fade = Nothing

\* What sounds holds a song.
Sounding ==
  /\ \A e \in Els : sounds[e] => src[e] # Nothing
  /\ recover # Nothing => recover.song # Nothing

\* Nothing downloaded: the newest start has the element that plays, and what
\* this one holds is the song shown, or about to be.
Newest ==
  /\ \A s \in starts : s.at # "fetch"
  /\ \A s \in starts : s.gen = gen /\ Past(s) => s.el = act /\ src[act] \in {s.song, Nothing}
  /\ ~gaveBack => src[act] \in {want, Nothing} \/ \E s \in starts : s.gen = gen

IInv == SoundTypeOK /\ Quiet /\ Lined /\ Sounding /\ (kept = {} => Newest)

-----------------------------------------------------------------------------

LEMMA SpareIs ==
  ASSUME act \in Els
  PROVE  Spare \in Els /\ Spare # act /\ \A e \in Els : e = act \/ e = Spare
<1>1. PICK a \in Els, b \in Els : a # b /\ Els = {a, b}
  BY SoundAssumption
<1>2. \E e \in Els : e # act
  BY <1>1
<1>3. Spare \in Els /\ Spare # act
  BY <1>2 DEF Spare
<1> QED BY <1>1, <1>3

\* A song is loaded: by swapping the spare in, or into the element that plays.
LEMMA LoadKeeps ==
  ASSUME IInv, NEW s \in Loading, Load(s), UNCHANGED <<ios, kept>>,
         gen' \in {gen, gen + 1}, gen' <= MaxGen, want' \in Song,
         gen' = gen => want' = want,
         s.gen <= gen', \A t \in starts \ {s} : t.gen # s.gen,
         s.gen = gen' => s.song = want',
         kept = {} => s.gen = gen',
         playingRef' \in BOOLEAN, loaded' \in Song \cup {Nothing}, gaveBack' \in BOOLEAN,
         world' \in 0 .. MaxWorld
  PROVE  IInv'
<1>1. act \in Els /\ act # Nothing /\ fade' = Nothing /\ own' = TRUE
  BY SoundAssumption DEF IInv, SoundTypeOK, Load
<1>2. /\ Spare \in Els /\ Spare # act /\ \A e \in Els : e = act \/ e = Spare
  BY <1>1, SpareIs
<1>3. starts \subseteq Started /\ src \in [Els -> Song \cup {Nothing}] /\ sounds \in [Els -> BOOLEAN]
      /\ gen \in 0 .. MaxGen /\ MaxGen \in Nat /\ Nothing \notin Song /\ Nothing \notin Els
  BY SoundAssumption DEF IInv, SoundTypeOK, Started, Song
<1>4. CASE SwapIn(s)
  <2> DEFINE n == [s EXCEPT !.el = Spare, !.at = "swap"]
  <2>1. n \in Started /\ n.gen = s.gen /\ n.song = s.song /\ n.seek = s.seek /\ n.el = Spare /\ n.at = "swap"
    BY <1>2 DEF Loading, Started
  <2>2. /\ ~s.seek /\ src[Spare] = s.song /\ act' = Spare /\ recover' = Nothing
        /\ src' = [src EXCEPT ![act] = Nothing] /\ sounds' = [e \in Els |-> e = Spare]
        /\ starts' = (starts \ {s}) \cup {n}
    BY <1>4 DEF SwapIn, CanSwap, Swapped
  <2>3. s.song \in Song /\ s.gen \in 1 .. MaxGen /\ s.seek \in BOOLEAN
    BY DEF Loading
  <2> HIDE DEF n
  <2>4. src'[act] = Nothing /\ src'[Spare] = s.song /\ src' \in [Els -> Song \cup {Nothing}]
    BY <1>1, <1>2, <1>3, <2>2
  <2>5. starts' \subseteq Started
    BY <1>3, <2>1, <2>2
  <2>6. SoundTypeOK'
    BY <1>1, <1>2, <1>3, <2>2, <2>4, <2>5 DEF IInv, SoundTypeOK, Started, Song
  <2>7. Quiet'
    <3>1. ~ios
      BY <1>2, <1>3, <2>2, <2>3 DEF IInv, Quiet
    <3>2. \A t \in starts' : t.at = "meta" => t.el = Spare \/ src'[t.el] = Nothing
      BY <1>2, <1>3, <2>1, <2>2, <2>4 DEF IInv, Lined, Past
    <3> QED BY <1>1, <1>2, <1>3, <2>2, <3>1, <3>2 DEF Quiet, OneSound
  <2>8. Lined'
    BY <1>1, <1>2, <1>3, <2>1, <2>2, <2>3 DEF IInv, Lined, Past, Started
  <2>9. Sounding'
    BY <1>2, <1>3, <2>2, <2>3, <2>4 DEF Sounding
  <2>10. kept' = {} => Newest'
    BY <1>2, <1>3, <2>1, <2>2, <2>4 DEF IInv, Newest, Past
  <2> QED BY <2>6, <2>7, <2>8, <2>9, <2>10 DEF IInv
<1>5. CASE LoadInto(s, starts \ {s}, act) /\ UNCHANGED <<act, recover>>
  <2> DEFINE n == [s EXCEPT !.el = act, !.at = IF s.seek THEN "meta" ELSE "play"]
  <2>1. n \in Started /\ n.gen = s.gen /\ n.song = s.song /\ n.seek = s.seek /\ n.el = act
        /\ n.at \in {"meta", "play"}
    BY <1>1 DEF Loading, Started
  <2>2. /\ act' = act /\ recover' = recover
        /\ src' = [x \in Els |-> IF x = act THEN s.song ELSE Nothing]
        /\ sounds' = [x \in Els |-> x = act /\ ~s.seek]
        /\ starts' = (starts \ {s}) \cup {n}
    BY <1>5 DEF LoadInto
  <2>3. s.song \in Song /\ s.gen \in 1 .. MaxGen /\ s.seek \in BOOLEAN
    BY DEF Loading
  <2> HIDE DEF n
  <2>4. src'[act] = s.song /\ (\A e \in Els : e # act => src'[e] = Nothing)
        /\ src' \in [Els -> Song \cup {Nothing}]
    BY <1>1, <1>2, <1>3, <2>2, <2>3
  <2>5. starts' \subseteq Started
    BY <1>3, <2>1, <2>2
  <2>6. SoundTypeOK'
    BY <1>1, <1>2, <1>3, <2>2, <2>4, <2>5 DEF IInv, SoundTypeOK, Started, Song
  <2>7. Quiet'
    <3>1. \A t \in starts' : t.at = "meta" => t.el = act \/ src'[t.el] = Nothing
      BY <1>2, <1>3, <2>1, <2>2, <2>4 DEF IInv, Lined, Past
    <3> QED BY <1>1, <1>2, <2>2, <2>4, <3>1 DEF Quiet, OneSound
  <2>8. Lined'
    BY <1>1, <1>2, <1>3, <2>1, <2>2, <2>3 DEF IInv, Lined, Past, Started
  <2>9. Sounding'
    BY <1>2, <1>3, <2>2, <2>3, <2>4 DEF IInv, Sounding
  <2>10. kept' = {} => Newest'
    BY <1>2, <1>3, <2>1, <2>2, <2>4 DEF IInv, Newest, Past
  <2> QED BY <2>6, <2>7, <2>8, <2>9, <2>10 DEF IInv
<1> QED BY <1>4, <1>5 DEF Load

\* A start waits, or its bytes are fetched: nothing else than a fade's end.
LEMMA WaitKeeps ==
  ASSUME IInv, NEW s, NEW n \in Started, n.at \in {"hold", "fetch"},
         n.at = "fetch" => kept # {},
         starts' = (starts \ {s}) \cup {n}, UNCHANGED <<ios, kept, act, recover>>,
         \/ UNCHANGED <<src, sounds, fade, own>>
         \/ Emptied(Fading) /\ fade' = Nothing /\ own' = TRUE,
         gen' \in {gen, gen + 1}, gen' <= MaxGen, want' \in Song,
         gen' = gen => want' = want,
         n.gen = gen', \A t \in starts \ {s} : t.gen # n.gen, n.song = want',
         playingRef' \in BOOLEAN, loaded' \in Song \cup {Nothing}, gaveBack' \in BOOLEAN,
         world' \in 0 .. MaxWorld
  PROVE  IInv'
<1>1. starts \subseteq Started /\ src \in [Els -> Song \cup {Nothing}] /\ sounds \in [Els -> BOOLEAN]
      /\ gen \in 0 .. MaxGen /\ MaxGen \in Nat /\ Nothing \notin Song /\ Nothing \notin Els
      /\ act \in Els /\ fade \in Els \cup {Nothing} /\ own \in BOOLEAN
  BY SoundAssumption DEF IInv, SoundTypeOK, Started, Song
<1>2. starts' \subseteq Started /\ n.gen \in 1 .. MaxGen /\ n.song \in Song
  BY <1>1 DEF Started
<1>3. /\ fade' \in {fade, Nothing} /\ own' \in BOOLEAN
      /\ src' \in [Els -> Song \cup {Nothing}] /\ sounds' \in [Els -> BOOLEAN]
      /\ src'[act] = src[act]
      /\ \A e \in Els :
           \/ fade' = fade /\ src'[e] = src[e] /\ sounds'[e] = sounds[e]
           \/ e # fade /\ src'[e] = src[e] /\ sounds'[e] = sounds[e]
           \/ src'[e] = Nothing /\ sounds'[e] = FALSE
  <2>1. CASE UNCHANGED <<src, sounds, fade, own>>
    <3>1. src' = src /\ sounds' = sounds /\ fade' = fade /\ own' = own
      BY <2>1
    <3> QED BY <1>1, <3>1
  <2>2. CASE Emptied(Fading) /\ fade' = Nothing /\ own' = TRUE
    <3>1. act \notin Fading /\ \A e \in Els : e # fade => e \notin Fading
      BY <1>1 DEF IInv, Quiet, Fading
    <3>2. /\ src' = [e \in Els |-> IF e \in Fading THEN Nothing ELSE src[e]]
          /\ sounds' = [e \in Els |-> e \notin Fading /\ sounds[e]]
      BY <2>2 DEF Emptied
    <3>3. \A e \in Fading : e = fade
      BY DEF Fading
    <3>4. sounds' \in [Els -> BOOLEAN] /\ \A e \in Els : (e \in Fading => sounds'[e] = FALSE) /\ (e \notin Fading => sounds'[e] = sounds[e])
      BY <1>1, <3>2
    <3>5. src' \in [Els -> Song \cup {Nothing}] /\ \A e \in Els : src'[e] = IF e \in Fading THEN Nothing ELSE src[e]
      BY <1>1, <3>2
    <3>6. src'[act] = src[act]
      BY <1>1, <3>1, <3>5
    <3>7. ASSUME NEW e \in Els
          PROVE  \/ e # fade /\ src'[e] = src[e] /\ sounds'[e] = sounds[e]
                 \/ src'[e] = Nothing /\ sounds'[e] = FALSE
      <4>1. CASE e \in Fading
        BY <3>4, <3>5, <4>1
      <4>2. CASE e \notin Fading
        <5>1. fade \in Els => fade \in Fading
          BY <1>1 DEF Fading
        <5> QED BY <3>4, <3>5, <4>2, <5>1
      <4> QED BY <4>1, <4>2
    <3> QED BY <1>1, <2>2, <3>4, <3>5, <3>6, <3>7
  <2> QED BY <2>1, <2>2
<1>4. SoundTypeOK'
  BY <1>1, <1>2, <1>3 DEF IInv, SoundTypeOK, Started, Song
<1>5. Quiet'
  BY <1>1, <1>3 DEF IInv, Quiet, OneSound, Lined, Past
<1>6. Lined'
  <2>1. \A t \in starts' : t = n \/ (t \in starts /\ t.gen # n.gen)
    OBVIOUS
  <2>2. \A t \in starts : t.gen \in Nat /\ t.gen <= gen /\ (gen' = gen + 1 => t.gen # gen')
    BY <1>1 DEF Started, IInv, Lined
  <2>3. ~Past(n)
    BY DEF Past
  <2>4. \A t \in starts' : t.gen <= gen' /\ (t.gen = gen' => t.song = want')
    BY <1>1, <1>2, <2>1, <2>2 DEF IInv, Lined
  <2>5. \A t, u \in starts' : t.gen = u.gen => t = u
    BY <2>1 DEF IInv, Lined
  <2>6. \A t \in starts' :
          /\ Past(t) => t.el \in Els
          /\ t.at = "swap" => ~t.seek
          /\ t.gen = gen' /\ Past(t) => fade' = Nothing
    BY <1>3, <2>1, <2>2, <2>3 DEF IInv, Lined
  <2> QED BY <2>4, <2>5, <2>6 DEF Lined, Past
<1>7. Sounding'
  BY <1>1, <1>3 DEF IInv, Sounding
<1>8. kept' = {} => Newest'
  BY <1>1, <1>2, <1>3 DEF IInv, Newest, Past
<1> QED BY <1>4, <1>5, <1>6, <1>7, <1>8 DEF IInv

LEMMA PlayFromKeeps ==
  ASSUME IInv, NEW to \in Song, NEW seek \in BOOLEAN, NEW rapid \in BOOLEAN,
         PlayFrom(to, seek, rapid), gaveBack' \in BOOLEAN
  PROVE  IInv'
<1> DEFINE s(at) == StartOf(gen + 1, to, seek, Nothing, at)
<1>1. /\ gen \in 0 .. MaxGen /\ MaxGen \in Nat /\ gen < MaxGen /\ gen' = gen + 1
      /\ want' = to /\ playingRef' = TRUE /\ UNCHANGED <<ios, kept, loaded, world>>
      /\ loaded \in Song \cup {Nothing} /\ world \in 0 .. MaxWorld
  BY SoundAssumption DEF IInv, SoundTypeOK, PlayFrom
<1>2. /\ s("hold") \in Started /\ s("fetch") \in Started /\ s("load") \in Loading
      /\ \A at : s(at).gen = gen' /\ s(at).song = to /\ s(at).at = at
  BY <1>1 DEF StartOf, Started, Loading
<1>3. \A t \in starts : t.gen \in 1 .. MaxGen /\ t.gen # gen'
  BY <1>1 DEF IInv, Lined, SoundTypeOK
<1>4. CASE rapid
  <2>1. starts' = starts \cup {s("hold")} /\ UNCHANGED <<act, src, sounds, fade, recover, own>>
    BY <1>4 DEF PlayFrom
  <2> DEFINE n == s("hold")
  <2>2. n \in Started /\ n.at = "hold" /\ n.gen = gen' /\ n.song = to
    BY <1>2
  <2>3. starts' = (starts \ {n}) \cup {n} /\ \A t \in starts \ {n} : t.gen # n.gen
    BY <1>3, <2>1, <2>2
  <2> HIDE DEF n, s
  <2>4. /\ n.at \in {"hold", "fetch"} /\ (n.at = "fetch" => kept # {}) /\ n.song = want'
        /\ UNCHANGED <<ios, kept, act, recover>> /\ UNCHANGED <<src, sounds, fade, own>>
    BY <1>1, <2>1, <2>2
  <2>5. /\ gen' \in {gen, gen + 1} /\ gen' <= MaxGen /\ want' \in Song /\ gen' # gen
        /\ playingRef' \in BOOLEAN /\ loaded' \in Song \cup {Nothing} /\ world' \in 0 .. MaxWorld
    BY <1>1
  <2> QED BY <2>2, <2>3, <2>4, <2>5, WaitKeeps
<1>5. CASE ~rapid /\ to \in kept
  <2>1. /\ starts' = starts \cup {s("fetch")} /\ UNCHANGED <<act, recover>>
        /\ Emptied(Fading) /\ fade' = Nothing /\ own' = TRUE
    BY <1>5 DEF PlayFrom
  <2> DEFINE n == s("fetch")
  <2>2. n \in Started /\ n.at = "fetch" /\ n.gen = gen' /\ n.song = to
    BY <1>2
  <2>3. starts' = (starts \ {n}) \cup {n} /\ \A t \in starts \ {n} : t.gen # n.gen
    BY <1>3, <2>1, <2>2
  <2> HIDE DEF n, s
  <2>4. kept # {} /\ want' \in Song /\ gen' <= MaxGen
    BY <1>1, <1>5
  <2> QED BY <1>1, <2>1, <2>2, <2>3, <2>4, WaitKeeps
<1>6. CASE ~rapid /\ to \notin kept
  <2> DEFINE n == s("load")
  <2>1. Load(n)
    BY <1>6 DEF PlayFrom
  <2>2. n \in Loading /\ n.gen = gen' /\ n.song = to
    BY <1>2
  <2> HIDE DEF n, s
  <2> QED BY <1>1, <1>3, <2>1, <2>2, LoadKeeps
<1> QED BY <1>4, <1>5, <1>6

-----------------------------------------------------------------------------
(* The awaits of a start.                                                   *)

LEMMA HoldOverKeeps ==
  ASSUME IInv, NEW s \in starts, HoldOver(s), UNCHANGED <<ios, kept, gaveBack, world>>
  PROVE  IInv'
<1>1. /\ s \in Started /\ s.at = "hold" /\ UNCHANGED <<want, playingRef, gen, loaded>>
      /\ gen \in 0 .. MaxGen /\ want \in Song /\ playingRef \in BOOLEAN /\ gaveBack \in BOOLEAN
      /\ loaded \in Song \cup {Nothing} /\ world \in 0 .. MaxWorld
      /\ s.gen <= gen /\ \A t \in starts \ {s} : t.gen # s.gen
  BY DEF IInv, SoundTypeOK, HoldOver, Started, Lined
<1>2. CASE s.gen # gen
  <2>1. starts' = starts \ {s} /\ UNCHANGED <<act, src, sounds, fade, recover, own>>
    BY <1>2 DEF HoldOver
  <2> QED BY <1>1, <1>2, <2>1 DEF IInv, SoundTypeOK, Song, Quiet, OneSound, Lined, Sounding, Newest, Past
<1>3. CASE s.gen = gen /\ s.song \in kept
  <2> DEFINE n == [s EXCEPT !.at = "fetch"]
  <2>1. /\ starts' = (starts \ {s}) \cup {n} /\ UNCHANGED <<act, recover>>
        /\ Emptied(Fading) /\ fade' = Nothing /\ own' = TRUE
    BY <1>3 DEF HoldOver
  <2>2. n \in Started /\ n.at = "fetch" /\ n.gen = s.gen /\ n.song = s.song /\ s.song = want
    BY <1>1, <1>3 DEF Started, IInv, Lined
  <2> HIDE DEF n
  <2> QED BY <1>1, <1>3, <2>1, <2>2, WaitKeeps
<1>4. CASE s.gen = gen /\ s.song \notin kept
  <2>1. Load(s)
    BY <1>4 DEF HoldOver
  <2>2. s \in Loading /\ s.song = want
    BY <1>1, <1>4 DEF Started, Loading, IInv, Lined
  <2> QED BY <1>1, <1>4, <2>1, <2>2, LoadKeeps
<1> QED BY <1>2, <1>3, <1>4

LEMMA FetchedKeeps ==
  ASSUME IInv, NEW s \in starts, Fetched(s), UNCHANGED <<ios, kept, gaveBack, world>>
  PROVE  IInv'
<1>1. /\ s \in Started /\ s.at = "fetch" /\ Load(s) /\ UNCHANGED <<want, playingRef, gen, loaded>>
      /\ gen \in 0 .. MaxGen /\ want \in Song /\ playingRef \in BOOLEAN /\ gaveBack \in BOOLEAN
      /\ loaded \in Song \cup {Nothing} /\ world \in 0 .. MaxWorld
      /\ s.gen <= gen /\ (\A t \in starts \ {s} : t.gen # s.gen) /\ (s.gen = gen => s.song = want)
  BY DEF IInv, SoundTypeOK, Fetched, Started, Lined
<1>2. kept # {}
  BY <1>1 DEF IInv, Newest
<1>3. s \in Loading
  BY <1>1 DEF Started, Loading
<1> QED BY <1>1, <1>2, <1>3, LoadKeeps

LEMMA MetadataKeeps ==
  ASSUME IInv, NEW s \in starts, Metadata(s), UNCHANGED <<ios, kept, gaveBack, world>>
  PROVE  IInv'
<1> DEFINE n == [s EXCEPT !.at = "play"]
<1>1. /\ s \in Started /\ s.at = "meta" /\ s.el \in Els /\ s.gen \in 1 .. MaxGen /\ gen \in 0 .. MaxGen
      /\ sounds \in [Els -> BOOLEAN] /\ MaxGen \in Nat
  BY SoundAssumption DEF IInv, SoundTypeOK, Metadata, Started, Lined, Past
<1>2. /\ sounds' = [sounds EXCEPT ![s.el] = @ \/ src[s.el] # Nothing]
      /\ starts' = (starts \ {s}) \cup {n}
      /\ UNCHANGED <<want, playingRef, gen, loaded, act, src, fade, recover, own>>
  BY DEF Metadata
<1>3. n \in Started /\ n.at = "play" /\ n.gen = s.gen /\ n.song = s.song /\ n.el = s.el
  BY <1>1 DEF Started
<1> HIDE DEF n
<1>4. /\ sounds' \in [Els -> BOOLEAN]
      /\ \A e \in Els : sounds'[e] => sounds[e] \/ (e = s.el /\ src[e] # Nothing)
  <2> DEFINE b == sounds[s.el] \/ src[s.el] # Nothing
  <2>1. b \in BOOLEAN /\ sounds' = [sounds EXCEPT ![s.el] = b]
    BY <1>2
  <2>2. b => sounds[s.el] \/ src[s.el] # Nothing
    OBVIOUS
  <2> HIDE DEF b
  <2> QED BY <1>1, <2>1, <2>2
<1>5. SoundTypeOK'
  BY <1>2, <1>3, <1>4 DEF IInv, SoundTypeOK, Started, Song
<1>6. Quiet'
  BY <1>1, <1>2, <1>3, <1>4 DEF IInv, Quiet, OneSound
<1>7. Lined'
  BY <1>1, <1>2, <1>3 DEF IInv, Lined, Past
<1>8. Sounding'
  BY <1>2, <1>4 DEF IInv, Sounding
<1>9. kept' = {} => Newest'
  BY <1>1, <1>2, <1>3 DEF IInv, Newest, Past
<1> QED BY <1>5, <1>6, <1>7, <1>8, <1>9 DEF IInv

LEMMA PlayedKeeps ==
  ASSUME IInv, NEW s \in starts, Played(s) \/ Aborted(s), UNCHANGED <<ios, kept, gaveBack, world>>
  PROVE  IInv'
<1>1. /\ s.at \in {"play", "swap"} /\ starts' = starts \ {s} /\ playingRef' \in BOOLEAN
      /\ loaded' \in Song \cup {Nothing}
      /\ UNCHANGED <<want, gen, act, src, sounds, fade, recover, own>>
  BY DEF Played, Aborted, IInv, SoundTypeOK
<1>2. SoundTypeOK'
  BY <1>1 DEF IInv, SoundTypeOK, Song
<1>3. Quiet' /\ Lined' /\ Sounding'
  BY <1>1 DEF IInv, Quiet, OneSound, Lined, Sounding, Past
<1>4. kept' = {} => Newest'
  BY <1>1 DEF IInv, Newest, Lined, Past
<1> QED BY <1>2, <1>3, <1>4 DEF IInv

\* The element that is not this one.
LEMMA OtherIs ==
  ASSUME NEW x \in Els, NEW o, o = CHOOSE e \in Els : e # x
  PROVE  o \in Els /\ o # x /\ \A e \in Els : e = x \/ e = o
<1>1. PICK a \in Els, b \in Els : a # b /\ Els = {a, b}
  BY SoundAssumption
<1>2. \E e \in Els : e # x
  BY <1>1
<1>3. o \in Els /\ o # x
  BY <1>2
<1> QED BY <1>1, <1>3

LEMMA SwapFailedKeeps ==
  ASSUME IInv, NEW s \in starts, SwapFailed(s), UNCHANGED <<ios, kept, gaveBack, world>>
  PROVE  IInv'
<1>1. /\ s \in Started /\ s.at = "swap" /\ ~s.seek /\ s.el \in Els
      /\ s.song \in Song /\ s.gen \in 1 .. MaxGen /\ gen \in 0 .. MaxGen /\ MaxGen \in Nat
      /\ starts \subseteq Started /\ Nothing \notin Els /\ act \in Els
      /\ UNCHANGED <<want, playingRef, gen, loaded>>
  BY SoundAssumption DEF IInv, SoundTypeOK, SwapFailed, Started, Lined, Past
<1>2. CASE s.gen # gen
  <2>1. starts' = starts \ {s} /\ UNCHANGED <<act, src, sounds, fade, recover, own>>
    BY <1>2 DEF SwapFailed
  <2>2. SoundTypeOK'
    BY <1>1, <2>1 DEF IInv, SoundTypeOK, Song
  <2>3. Quiet' /\ Lined' /\ Sounding'
    BY <1>1, <2>1 DEF IInv, Quiet, OneSound, Lined, Sounding, Past
  <2>4. kept' = {} => Newest'
    BY <1>1, <1>2, <2>1 DEF IInv, Newest, Past
  <2> QED BY <2>2, <2>3, <2>4 DEF IInv
<1>3. CASE s.gen = gen
  <2> DEFINE old == CHOOSE e \in Els : e # s.el
             n   == [s EXCEPT !.el = old, !.at = IF s.seek THEN "meta" ELSE "play"]
  <2>1. /\ act' = old /\ recover' = Nothing /\ UNCHANGED <<fade, own>>
        /\ src' = [x \in Els |-> IF x = old THEN s.song ELSE Nothing]
        /\ sounds' = [x \in Els |-> x = old /\ ~s.seek]
        /\ starts' = (starts \ {s}) \cup {n}
    BY <1>3 DEF SwapFailed, LoadInto, Swapped
  <2>2. old \in Els /\ old # s.el /\ \A e \in Els : e = s.el \/ e = old
    BY <1>1, OtherIs
  <2>3. n \in Started /\ n.gen = s.gen /\ n.song = s.song /\ n.seek = s.seek /\ n.el = old /\ n.at = "play"
    BY <1>1, <2>2 DEF Started
  <2>4. fade = Nothing /\ s.song = want
    BY <1>1, <1>3 DEF IInv, Lined, Past
  <2> HIDE DEF n, old
  <2>5. /\ src' \in [Els -> Song \cup {Nothing}] /\ sounds' \in [Els -> BOOLEAN]
        /\ src'[old] = s.song /\ \A e \in Els : e # old => src'[e] = Nothing /\ sounds'[e] = FALSE
    BY <1>1, <2>1, <2>2
  <2>6. starts' \subseteq Started
    BY <1>1, <2>1, <2>3
  <2>7. SoundTypeOK'
    BY <1>1, <2>1, <2>2, <2>5, <2>6 DEF IInv, SoundTypeOK, Started, Song
  <2>8. Quiet'
    <3>1. \A t \in starts' : t.at = "meta" => t.el = old \/ src'[t.el] = Nothing
      BY <1>1, <2>1, <2>3, <2>5 DEF IInv, Lined, Past
    <3> QED BY <1>1, <2>1, <2>2, <2>4, <2>5, <3>1 DEF IInv, Quiet, OneSound
  <2>9. Lined'
    BY <1>1, <2>1, <2>2, <2>3, <2>4 DEF IInv, Lined, Past
  <2>10. Sounding'
    <3>1. Nothing \notin Song
      BY SoundAssumption DEF Song
    <3> QED BY <1>1, <2>1, <2>5, <3>1 DEF Sounding
  <2>11. kept' = {} => Newest'
    BY <1>1, <1>3, <2>1, <2>3, <2>4, <2>5 DEF IInv, Newest, Lined, Past
  <2> QED BY <2>7, <2>8, <2>9, <2>10, <2>11 DEF IInv
<1> QED BY <1>2, <1>3

-----------------------------------------------------------------------------
(* What is loaded is paused, played, cut; the spare; the watchdog; the system. *)

\* Elements are emptied or fall silent, and with them a fade may end; who plays,
\* and the starts, stay as they are.
LEMMA SilenceKeeps ==
  ASSUME IInv, UNCHANGED <<ios, kept, want, gen, act, starts, recover, gaveBack>>,
         src' \in [Els -> Song \cup {Nothing}], sounds' \in [Els -> BOOLEAN],
         \A e \in Els : src'[e] \in {src[e], Nothing} /\ (sounds'[e] => sounds[e] /\ src'[e] = src[e]),
         \/ fade' = fade
         \/ fade' = Nothing /\ \A e \in Els : e = fade => src'[e] = Nothing,
         playingRef' \in BOOLEAN, loaded' \in Song \cup {Nothing}, own' \in BOOLEAN,
         world' \in 0 .. MaxWorld
  PROVE  IInv'
<1>1. act \in Els /\ fade \in Els \cup {Nothing} /\ fade' \in Els \cup {Nothing} /\ Nothing \notin Els
      /\ Nothing \notin Song
  BY SoundAssumption DEF IInv, SoundTypeOK, Song
<1>2. SoundTypeOK'
  BY <1>1 DEF IInv, SoundTypeOK, Song
<1>3. Quiet'
  <2>1. fade' # act
    BY <1>1 DEF IInv, Quiet
  <2>2. ios => fade' = Nothing /\ \A e \in Els : e # act => src'[e] = Nothing
    BY <1>1 DEF IInv, Quiet
  <2>3. \A s \in starts : s.at = "meta" => s.el = act \/ s.el = fade' \/ src'[s.el] = Nothing
    BY <1>1 DEF IInv, Quiet, Lined, Past
  <2>4. fade' # Nothing => \A s \in starts : s.at = "meta" => s.el # act
    BY <1>1 DEF IInv, Quiet
  <2>5. \A e \in Els : e # act /\ sounds'[e] => fade' = e
    <3>1. ASSUME NEW e \in Els, e # act, sounds'[e] PROVE fade' = e
      <4>1. sounds[e] /\ src'[e] = src[e]
        BY <3>1
      <4>2. fade = e
        BY <3>1, <4>1 DEF IInv, Quiet, OneSound
      <4>3. src[e] # Nothing
        BY <4>1 DEF IInv, Sounding
      <4> QED BY <4>1, <4>2, <4>3
    <3> QED BY <3>1
  <2> QED BY <2>1, <2>2, <2>3, <2>4, <2>5 DEF Quiet, OneSound
<1>4. Lined'
  BY <1>1 DEF IInv, Lined, Past
<1>5. Sounding'
  BY DEF IInv, Sounding
<1>6. kept' = {} => Newest'
  BY <1>1 DEF IInv, Newest, Past
<1> QED BY <1>2, <1>3, <1>4, <1>5, <1>6 DEF IInv

\* An element that may sound does.
LEMMA SoundKeeps ==
  ASSUME IInv, UNCHANGED <<ios, kept, want, gen, loaded, act, src, fade, starts, gaveBack>>,
         NEW e \in Els, e = act \/ ios, src[e] # Nothing, sounds' = [sounds EXCEPT ![e] = TRUE],
         recover' \in {recover, Nothing}, playingRef' \in BOOLEAN, own' \in BOOLEAN,
         world' \in 0 .. MaxWorld
  PROVE  IInv'
<1>1. e = act
  BY DEF IInv, Quiet
<1>2. sounds' \in [Els -> BOOLEAN] /\ \A x \in Els : sounds'[x] => sounds[x] \/ x = act
  BY <1>1 DEF IInv, SoundTypeOK
<1>3. SoundTypeOK'
  BY <1>2 DEF IInv, SoundTypeOK, Song
<1>4. Quiet' /\ Lined'
  BY <1>2 DEF IInv, Quiet, OneSound, Lined, Past
<1>5. Sounding'
  BY <1>1, <1>2 DEF IInv, Sounding
<1>6. kept' = {} => Newest'
  BY DEF IInv, Newest, Past
<1> QED BY <1>3, <1>4, <1>5, <1>6 DEF IInv

\* Nothing but flags change.
LEMMA FlagsKeep ==
  ASSUME IInv, UNCHANGED <<ios, kept, want, gen, loaded, act, src, sounds, fade, starts, gaveBack, world>>,
         recover' \in {recover, Nothing}, playingRef' \in BOOLEAN, own' \in BOOLEAN
  PROVE  IInv'
<1>1. SoundTypeOK'
  BY DEF IInv, SoundTypeOK, Song
<1>2. Quiet' /\ Lined' /\ Sounding'
  BY DEF IInv, Quiet, OneSound, Lined, Sounding, Past
<1>3. kept' = {} => Newest'
  BY DEF IInv, Newest, Past
<1> QED BY <1>1, <1>2, <1>3 DEF IInv

LEMMA PreloadKeeps ==
  ASSUME IInv, Preload
  PROVE  IInv'
<1>1. /\ act \in Els /\ want \in Song /\ src \in [Els -> Song \cup {Nothing}]
      /\ Nothing \notin Song /\ After(want) \in Song
  <2>1. want \in Song /\ Songs \in Nat \ {0} /\ Nothing \notin Song
    BY SoundAssumption DEF IInv, SoundTypeOK, Song
  <2>2. (want + 1) % Songs \in 0 .. Songs - 1
    BY <2>1 DEF Song
  <2> QED BY <2>1, <2>2 DEF IInv, SoundTypeOK, Song, After
<1>2. /\ ~ios /\ fade = Nothing
      /\ \A s \in starts : s.at = "meta" => s.el = act
      /\ src' = [src EXCEPT ![Spare] = After(want)]
      /\ UNCHANGED <<ios, kept, want, playingRef, gen, loaded, act, sounds, fade, starts, recover, own,
                     gaveBack, world>>
  BY DEF Preload
<1>3. Spare \in Els /\ Spare # act
  BY <1>1, SpareIs
<1>4. src' \in [Els -> Song \cup {Nothing}] /\ src'[act] = src[act]
      /\ \A e \in Els : src'[e] = src[e] \/ src'[e] # Nothing
  BY <1>1, <1>2, <1>3
<1>5. SoundTypeOK'
  BY <1>2, <1>4 DEF IInv, SoundTypeOK, Song
<1>6. Quiet' /\ Lined'
  BY <1>2 DEF IInv, Quiet, OneSound, Lined, Past
<1>7. Sounding'
  BY <1>2, <1>4 DEF IInv, Sounding
<1>8. kept' = {} => Newest'
  BY <1>2, <1>4 DEF IInv, Newest, Past
<1> QED BY <1>5, <1>6, <1>7, <1>8 DEF IInv

LEMMA TransitionKeeps ==
  ASSUME IInv, Transition
  PROVE  IInv'
<1>1. /\ act \in Els /\ want \in Song /\ src \in [Els -> Song \cup {Nothing}]
      /\ sounds \in [Els -> BOOLEAN] /\ gen \in 0 .. MaxGen /\ MaxGen \in Nat
      /\ Nothing \notin Song /\ Nothing \notin Els /\ After(want) \in Song /\ starts \subseteq Started
  <2>1. want \in Song /\ Songs \in Nat \ {0} /\ Nothing \notin Song
    BY SoundAssumption DEF IInv, SoundTypeOK, Song
  <2>2. (want + 1) % Songs \in 0 .. Songs - 1
    BY <2>1 DEF Song
  <2> QED BY <2>1, <2>2, SoundAssumption DEF IInv, SoundTypeOK, Song, After, Started
<1>2. /\ ~ios /\ fade = Nothing /\ src[Spare] = After(want) /\ gen < MaxGen /\ gen' = gen + 1
      /\ want' = After(want) /\ loaded' = After(want) /\ fade' = act /\ act' = Spare /\ recover' = Nothing
      /\ sounds' = [sounds EXCEPT ![Spare] = TRUE] /\ own' = TRUE /\ gaveBack' = FALSE
      /\ UNCHANGED <<ios, kept, playingRef, src, starts, world>>
  BY DEF Transition, Swapped
<1>3. Spare \in Els /\ Spare # act /\ \A e \in Els : e = act \/ e = Spare
  BY <1>1, SpareIs
<1>4. sounds' \in [Els -> BOOLEAN] /\ \A e \in Els : sounds'[e] => sounds[e] \/ e = Spare
  BY <1>1, <1>2, <1>3
<1>5. \A s \in starts : s.gen \in Nat /\ s.gen <= gen
  BY <1>1 DEF Started, IInv, Lined
<1>6. SoundTypeOK'
  <2>1. gen' \in 0 .. MaxGen /\ want' \in Song /\ loaded' \in Song \cup {Nothing}
    BY <1>1, <1>2
  <2>2. act' \in Els /\ fade' \in Els \cup {Nothing} /\ own' \in BOOLEAN /\ gaveBack' \in BOOLEAN
    BY <1>1, <1>2, <1>3
  <2>3. starts' = starts /\ src' = src /\ UNCHANGED <<ios, kept, playingRef, world>> /\ Song' = Song
    BY <1>2 DEF Song
  <2> QED BY <1>4, <2>1, <2>2, <2>3 DEF IInv, SoundTypeOK
<1>7. Quiet'
  <2>1. \A s \in starts : s.at = "meta" => s.el = act
    BY <1>1, <1>2, <1>3 DEF IInv, Quiet, Lined, Past
  <2> QED BY <1>1, <1>2, <1>3, <1>4, <2>1 DEF IInv, Quiet, OneSound
<1>8. Lined'
  BY <1>1, <1>2, <1>5 DEF IInv, Lined, Past
<1>9. Sounding'
  BY <1>1, <1>2, <1>3, <1>4 DEF IInv, Sounding
<1>10. kept' = {} => Newest'
  BY <1>1, <1>2, <1>3, <1>5 DEF IInv, Newest, Past
<1> QED BY <1>6, <1>7, <1>8, <1>9, <1>10 DEF IInv

LEMMA GiveBackKeeps ==
  ASSUME IInv, GiveBack
  PROVE  IInv'
<1>1. /\ act \in Els /\ sounds \in [Els -> BOOLEAN] /\ fade \in Els \cup {Nothing} /\ Nothing \notin Els
      /\ fade # act
  BY SoundAssumption DEF IInv, SoundTypeOK, Quiet
<1>2. /\ fade # Nothing /\ sounds' = [sounds EXCEPT ![act] = FALSE] /\ act' = fade /\ recover' = Nothing
      /\ fade' = Nothing /\ own' = TRUE /\ gaveBack' = TRUE
      /\ UNCHANGED <<ios, kept, want, playingRef, gen, loaded, src, starts, world>>
  BY DEF GiveBack, Swapped
<1>3. sounds' \in [Els -> BOOLEAN] /\ \A e \in Els : sounds'[e] => sounds[e] /\ e # act
  BY <1>1, <1>2
<1>4. SoundTypeOK'
  <2>1. act' \in Els
    BY <1>1, <1>2
  <2> QED BY <1>2, <1>3, <2>1 DEF IInv, SoundTypeOK, Song
<1>5. Quiet'
  BY <1>1, <1>2, <1>3 DEF IInv, Quiet, OneSound
<1>6. Lined' /\ Sounding'
  BY <1>2, <1>3 DEF IInv, Lined, Sounding, Past
<1>7. kept' = {} => Newest'
  BY <1>2 DEF IInv, Newest, Lined, Past
<1> QED BY <1>4, <1>5, <1>6, <1>7 DEF IInv

LEMMA ReloadKeeps ==
  ASSUME IInv, Reload
  PROVE  IInv'
<1>1. /\ sounds[act] /\ act \in Els /\ sounds \in [Els -> BOOLEAN]
      /\ sounds' = [sounds EXCEPT ![act] = FALSE] /\ recover' = [el |-> act, song |-> src[act]] /\ own' = TRUE
      /\ UNCHANGED <<ios, kept, want, playingRef, gen, loaded, act, src, fade, starts, gaveBack, world>>
  BY DEF Reload, IInv, SoundTypeOK
<1>2. sounds' \in [Els -> BOOLEAN] /\ \A e \in Els : sounds'[e] => sounds[e]
  BY <1>1
<1>3. SoundTypeOK'
  BY <1>1, <1>2 DEF IInv, SoundTypeOK, Song
<1>4. Quiet' /\ Lined'
  BY <1>1, <1>2 DEF IInv, Quiet, OneSound, Lined, Past
<1>5. Sounding'
  BY <1>1, <1>2 DEF IInv, Sounding
<1>6. kept' = {} => Newest'
  BY <1>1 DEF IInv, Newest, Past
<1> QED BY <1>3, <1>4, <1>5, <1>6 DEF IInv

LEMMA NextKeeps == IInv /\ [SoundNext]_soundVars => IInv'
<1> SUFFICES ASSUME IInv, [SoundNext]_soundVars PROVE IInv'
  OBVIOUS
<1>0. /\ src \in [Els -> Song \cup {Nothing}] /\ sounds \in [Els -> BOOLEAN] /\ act \in Els
      /\ fade \in Els \cup {Nothing} /\ Nothing \notin Els /\ fade # act
      /\ playingRef \in BOOLEAN /\ own \in BOOLEAN /\ loaded \in Song \cup {Nothing} /\ want \in Song
      /\ world \in 0 .. MaxWorld /\ MaxWorld \in Nat
  BY SoundAssumption DEF IInv, SoundTypeOK, Quiet
<1>1. CASE Press
  BY <1>1, PlayFromKeeps DEF Press
<1>2. CASE Ended
  <2>1. After(want) \in Song
    <3>1. want \in Song /\ Songs \in Nat \ {0}
      BY <1>0, SoundAssumption
    <3>2. (want + 1) % Songs \in 0 .. Songs - 1
      BY <3>1 DEF Song
    <3> QED BY <3>2 DEF After, Song
  <2> QED BY <1>2, <2>1, PlayFromKeeps DEF Ended
<1>3. CASE StartStep
  BY <1>3, HoldOverKeeps, FetchedKeeps, MetadataKeeps, PlayedKeeps, SwapFailedKeeps DEF StartStep
<1>4. CASE Pause
  <2>1. /\ playingRef' = FALSE /\ src' = [e \in Els |-> IF e \in Fading THEN Nothing ELSE src[e]]
        /\ sounds' = [e \in Els |-> FALSE] /\ fade' = Nothing /\ own' = TRUE
        /\ UNCHANGED <<ios, kept, want, gen, loaded, act, starts, recover, gaveBack, world>>
    BY <1>4 DEF Pause
  <2>2. \A e \in Els : e = fade => e \in Fading
    BY <1>0 DEF Fading
  <2>3. /\ src' \in [Els -> Song \cup {Nothing}] /\ sounds' \in [Els -> BOOLEAN]
        /\ \A e \in Els : /\ src'[e] \in {src[e], Nothing} /\ ~(sounds'[e])
                         /\ e = fade => src'[e] = Nothing
    BY <1>0, <2>1, <2>2
  <2> QED BY <1>0, <2>1, <2>3, SilenceKeeps
<1>5. CASE TogglePlay
  BY <1>0, <1>5, SoundKeeps DEF TogglePlay
<1>6. CASE Revive
  <2>1. \E seek \in BOOLEAN : PlayFrom(want, seek, FALSE) /\ gaveBack' = FALSE
    <3> DEFINE b == "seek" \in SoundEnv
    <3>1. b \in BOOLEAN
      OBVIOUS
    <3>2. PlayFrom(want, b, FALSE)
      BY <1>6, Zenon DEF Revive
    <3>3. gaveBack' = FALSE
      BY <1>6, Zenon DEF Revive
    <3> HIDE DEF b
    <3> QED BY <3>1, <3>2, <3>3
  <2>2. PICK seek \in BOOLEAN : PlayFrom(want, seek, FALSE) /\ gaveBack' = FALSE
    BY <2>1
  <2> QED BY <1>0, <2>2, PlayFromKeeps
<1>7. CASE StopOn
  <2>1. /\ loaded' = Nothing /\ playingRef' = FALSE /\ own' = TRUE /\ fade' = Nothing
        /\ src' = [e \in Els |-> IF e \in Els THEN Nothing ELSE src[e]]
        /\ sounds' = [e \in Els |-> e \notin Els /\ sounds[e]]
        /\ world < MaxWorld /\ world' = world + 1
        /\ UNCHANGED <<ios, kept, want, gen, act, starts, recover, gaveBack>>
    BY <1>7 DEF StopOn, Emptied, World
  <2>2. /\ src' \in [Els -> Song \cup {Nothing}] /\ sounds' \in [Els -> BOOLEAN]
        /\ \A e \in Els : src'[e] = Nothing /\ ~(sounds'[e])
    BY <1>0, <2>1
  <2>3. world' \in 0 .. MaxWorld
    BY <1>0, <2>1
  <2> QED BY <1>0, <2>1, <2>2, <2>3, SilenceKeeps
<1>8. CASE Preload
  BY <1>8, PreloadKeeps
<1>9. CASE Transition
  BY <1>9, TransitionKeeps
<1>10. CASE GiveBack
  BY <1>10, GiveBackKeeps
<1>11. CASE FadeOver
  <2>1. /\ fade' = Nothing
        /\ src' = [e \in Els |-> IF e \in {fade} THEN Nothing ELSE src[e]]
        /\ sounds' = [e \in Els |-> e \notin {fade} /\ sounds[e]]
        /\ UNCHANGED <<ios, kept, want, playingRef, gen, loaded, act, starts, recover, own, gaveBack, world>>
    BY <1>11 DEF FadeOver, Emptied
  <2>2. /\ src' \in [Els -> Song \cup {Nothing}] /\ sounds' \in [Els -> BOOLEAN]
        /\ \A e \in Els : /\ src'[e] = (IF e = fade THEN Nothing ELSE src[e])
                         /\ sounds'[e] => e # fade /\ sounds[e]
    BY <1>0, <2>1
  <2> QED BY <1>0, <2>1, <2>2, SilenceKeeps
<1>12. CASE Reload
  BY <1>12, ReloadKeeps
<1>13. CASE Recovered
  <2>1. /\ recover # Nothing /\ recover' = Nothing
        /\ UNCHANGED <<ios, kept, want, playingRef, gen, loaded, act, src, fade, starts, own, gaveBack, world>>
    BY <1>13 DEF Recovered
  <2>2. CASE StillStuck(recover)
    <3>1. sounds' = [sounds EXCEPT ![act] = TRUE] /\ src[act] # Nothing
      BY <1>13, <2>1, <2>2 DEF Recovered, StillStuck, IInv, Sounding
    <3> QED BY <1>0, <2>1, <3>1, SoundKeeps
  <2>3. CASE ~StillStuck(recover)
    <3>1. sounds' = sounds
      BY <1>13, <2>3 DEF Recovered
    <3> QED BY <1>0, <2>1, <3>1, FlagsKeep
  <2> QED BY <2>2, <2>3
<1>14. CASE SystemPause
  <2>1. /\ sounds' = [sounds EXCEPT ![act] = FALSE] /\ playingRef' \in BOOLEAN
        /\ world < MaxWorld /\ world' = world + 1
        /\ UNCHANGED <<ios, kept, want, gen, loaded, act, src, fade, starts, recover, own, gaveBack>>
    BY <1>0, <1>14 DEF SystemPause, FollowSystem, World
  <2>2. sounds' \in [Els -> BOOLEAN] /\ \A e \in Els : sounds'[e] => sounds[e]
    BY <1>0, <2>1
  <2>3. world' \in 0 .. MaxWorld
    BY <1>0, <2>1
  <2> QED BY <1>0, <2>1, <2>2, <2>3, SilenceKeeps
<1>15. CASE SystemResume
  <2>1. PICK e \in Els : /\ src[e] # Nothing /\ sounds' = [sounds EXCEPT ![e] = TRUE]
                         /\ IF e = act THEN FollowSystem(TRUE) ELSE playingRef' = playingRef
    BY <1>15 DEF SystemResume
  <2>2. /\ ios /\ world < MaxWorld /\ world' = world + 1
        /\ UNCHANGED <<ios, kept, want, gen, loaded, act, src, fade, starts, recover, own, gaveBack>>
    BY <1>15 DEF SystemResume, World
  <2>3. playingRef' \in BOOLEAN
    BY <1>0, <2>1 DEF FollowSystem
  <2>4. world' \in 0 .. MaxWorld
    BY <1>0, <2>2
  <2> QED BY <1>0, <2>1, <2>2, <2>3, <2>4, SoundKeeps
<1>16. CASE Reconcile
  BY <1>0, <1>16, FlagsKeep DEF Reconcile
<1>17. CASE OwnOver
  BY <1>0, <1>17, FlagsKeep DEF OwnOver
<1>18. CASE UNCHANGED soundVars
  BY <1>0, <1>18, FlagsKeep DEF soundVars
<1> QED BY <1>1, <1>2, <1>3, <1>4, <1>5, <1>6, <1>7, <1>8, <1>9, <1>10, <1>11, <1>12, <1>13, <1>14,
           <1>15, <1>16, <1>17, <1>18 DEF SoundNext

LEMMA InitKeeps == SoundInit => IInv
<1> SUFFICES ASSUME SoundInit PROVE IInv
  OBVIOUS
<1>1. PICK a \in Els, b \in Els : a # b /\ Els = {a, b}
  BY SoundAssumption
<1>2. act \in Els /\ Nothing \notin Els
  BY <1>1, SoundAssumption DEF SoundInit
<1>3. kept \subseteq Song /\ 0 \in Song /\ MaxGen \in Nat /\ MaxWorld \in Nat
  BY SoundAssumption DEF SoundInit, Song
<1>4. SoundTypeOK
  <2>1. /\ ios \in BOOLEAN /\ want \in Song /\ playingRef \in BOOLEAN /\ loaded \in Song \cup {Nothing}
        /\ fade \in Els \cup {Nothing} /\ own \in BOOLEAN /\ gaveBack \in BOOLEAN
        /\ src \in [Els -> Song \cup {Nothing}] /\ sounds \in [Els -> BOOLEAN] /\ starts = {}
    BY <1>3 DEF SoundInit
  <2>2. gen \in 0 .. MaxGen /\ world \in 0 .. MaxWorld
    BY <1>3 DEF SoundInit
  <2> QED BY <1>2, <1>3, <2>1, <2>2 DEF SoundTypeOK
<1> QED BY <1>2, <1>4 DEF SoundInit, IInv, Quiet, OneSound, Lined, Sounding, Newest

-----------------------------------------------------------------------------

\* Whatever is pressed, refused, stuck, paused by the system or taken over, and
\* however starts overlap: the types, and why one song is heard.
THEOREM SoundInvariant == SoundSpec => []IInv
<1>1. SoundInit => IInv
  BY InitKeeps
<1>2. IInv /\ [SoundNext]_soundVars => IInv'
  BY NextKeeps
<1> QED BY <1>1, <1>2, PTL DEF SoundSpec

\* A fade apart one song is heard, and once no start is under way it is the one
\* the page shows (startOn, beginTransition, the watchdog, onPause, onPlay).
THEOREM HeardIsNewest == SoundSpec => []HeardIsShown
<1>1. SoundSpec => []IInv
  BY SoundInvariant
<1>2. IInv => HeardIsShown
  <2> SUFFICES ASSUME IInv PROVE HeardIsShown
    OBVIOUS
  <2>1. OneSound
    BY DEF IInv, Quiet
  <2>2. LatestStartWins
    BY DEF IInv, SoundTypeOK, Sounding, Newest, LatestStartWins
  <2> QED BY <2>1, <2>2 DEF HeardIsShown
<1> QED BY <1>1, <1>2, PTL

-----------------------------------------------------------------------------
(* PageQueue.                                                               *)

QEntry == [id : AnySong, mark : {"own", "queued", "rec"}]

\* The queue, what shuffle goes back to, and what is kept of them: with storage
\* enough, the queue there is.
Held ==
  /\ queue \in Seq(QEntry) /\ original \in Seq(QEntry)
  /\ index \in 0 .. Len(queue) /\ (index = 0 <=> queue = <<>>)
  /\ saved \in [queue : Seq(QEntry), original : Seq(QEntry)]
  /\ ~full /\ queue # <<>> => saved.queue = queue

Settings ==
  /\ shuffle \in {"off", "on", "smart"} /\ repeat \in {"off", "all", "one"}
  /\ ctx \in {NoSong, "album", "artist"} /\ song \in AnySong \cup {NoSong}
  /\ extended \in AnySong \cup {NoSong} /\ offline \in BOOLEAN /\ full \in BOOLEAN

\* A lookup: the song chosen from a list is in it; picks are looked up for a
\* queue that begins with the song they are looked up for, and has it once.
Lookup == [kind : {"more", "again", "artist", "extend", "blend", "play", "transfer", "fill", "handed"},
           about : AnySong \cup {NoSong}, list : Seq(QEntry)]

Asked(a) ==
  /\ a \in Lookup
  /\ a.kind \in {"play", "transfer", "fill", "handed"} => a.about \in Ids(a.list)
  /\ a.kind = "blend" =>
       /\ Len(a.list) >= 4 /\ a.list[1].id = a.about
       /\ \A k \in 2 .. Len(a.list) : a.list[k].id # a.about

QueueInv == Held /\ Settings /\ \A a \in asks : Asked(a)

-----------------------------------------------------------------------------
(* Finite sets of numbers have a least and a greatest member.               *)

LEMMA LeastExists ==
  ASSUME NEW n \in Nat, NEW S, S \subseteq 0 .. n, S # {}
  PROVE  \E m \in S : \A k \in S : m <= k
<1> DEFINE R == StrictSubsetOrdering(0 .. n)
           T == {0 .. k : k \in S}
<1>1. IsFiniteSet(0 .. n)
  BY FS_Interval
<1>2. T \subseteq FiniteSubsetsOf(0 .. n)
  <2>1. ASSUME NEW k \in S PROVE 0 .. k \subseteq 0 .. n
    OBVIOUS
  <2>2. T \subseteq SUBSET (0 .. n)
    BY <2>1
  <2> QED BY <1>1, <2>2, FS_FiniteSubsetsOfFinite
<1>3. IsWellFoundedOn(R, FiniteSubsetsOf(0 .. n))
  BY FS_StrictSubsetOrderingWellFounded
<1>4. T # {}
  OBVIOUS
<1>5. \E x \in T : \A y \in T : ~ (<<y, x>> \in R)
  <2> HIDE DEF R, T
  <2> QED BY <1>2, <1>3, <1>4, WFMin
<1>6. PICK m \in S : \A y \in T : ~ (<<y, 0 .. m>> \in R)
  BY <1>5
<1>7. ASSUME NEW k \in S, k < m PROVE FALSE
  <2>1. 0 .. k \subseteq 0 .. m /\ m \in 0 .. m /\ m \notin 0 .. k
    BY <1>7
  <2>2. 0 .. k \in SUBSET (0 .. n) /\ 0 .. m \in SUBSET (0 .. n)
    OBVIOUS
  <2>3. 0 .. k # 0 .. m
    BY <2>1
  <2>4. <<0 .. k, 0 .. m>> \in R
    BY <2>1, <2>2, <2>3 DEF StrictSubsetOrdering
  <2> QED BY <1>6, <2>4
<1> QED BY <1>7

LEMMA GreatestExists ==
  ASSUME NEW n \in Nat, NEW S, S \subseteq 0 .. n, S # {}
  PROVE  \E m \in S : \A k \in S : k <= m
<1> DEFINE T == {n - k : k \in S}
<1>0. \A k \in S : n - k \in 0 .. n
  OBVIOUS
<1>1. T \subseteq 0 .. n /\ T # {}
  BY <1>0
<1>2. PICK t \in T : \A u \in T : t <= u
  <2> HIDE DEF T
  <2> QED BY <1>1, LeastExists
<1>3. PICK m \in S : t = n - m
  OBVIOUS
<1>4. ASSUME NEW k \in S PROVE k <= m
  <2>1. n - k \in T
    OBVIOUS
  <2>2. t <= n - k
    BY <1>2, <2>1
  <2> QED BY <1>3, <2>2
<1> QED BY <1>4

-----------------------------------------------------------------------------
(* Sequences.                                                               *)

LEMMA ListIs ==
  ASSUME NEW l \in Lists
  PROVE  l \in Seq(AnySong)
<1> DEFINE S == {l[k] : k \in DOMAIN l}
<1>1. l \in Seq(S)
  BY QueueAssumption
<1>2. S \subseteq AnySong
  BY DEF AnySong, Listed
<1> HIDE DEF S
<1> QED BY <1>1, <1>2

LEMMA SimilarIs == Similar \subseteq AnySong
BY DEF AnySong

LEMMA EntriesAre ==
  ASSUME NEW l \in Seq(AnySong)
  PROVE  /\ Entries(l) \in Seq(QEntry) /\ Len(Entries(l)) = Len(l)
         /\ \A k \in 1 .. Len(l) : Entries(l)[k].id = l[k]
<1>1. DOMAIN l = 1 .. Len(l) /\ Len(l) \in Nat /\ \A k \in 1 .. Len(l) : l[k] \in AnySong
  OBVIOUS
<1>2. \A k \in 1 .. Len(l) : Entry(l[k]) \in QEntry /\ Entry(l[k]).id = l[k]
  BY <1>1 DEF Entry, QEntry
<1>3. Entries(l) = [k \in 1 .. Len(l) |-> Entry(l[k])]
  BY <1>1 DEF Entries
<1> QED BY <1>1, <1>2, <1>3

LEMMA EntryIs ==
  ASSUME NEW id \in AnySong
  PROVE  Entry(id) \in QEntry /\ Entry(id).id = id
BY DEF Entry, QEntry

LEMMA PickedIs ==
  ASSUME NEW S, NEW q \in Seq(S), NEW K, K \subseteq 1 .. Len(q), NEW o \in SetToSeqs(K)
  PROVE  /\ Picked(q, o) \in Seq(S) /\ Len(Picked(q, o)) = Cardinality(K)
         /\ IsFiniteSet(K) /\ Cardinality(K) \in Nat
         /\ \A k \in 1 .. Len(Picked(q, o)) : Picked(q, o)[k] \in {q[j] : j \in K}
<1>0. IsFiniteSet(1 .. Len(q))
  BY FS_Interval
<1>1. IsFiniteSet(K) /\ Cardinality(K) \in Nat
  BY <1>0, FS_Subset, FS_CardinalityType
<1>2. o \in [1 .. Cardinality(K) -> K]
  BY DEF SetToSeqs
<1> DEFINE n == Cardinality(K)
<1> HIDE DEF n
<1>3. n \in Nat /\ o \in [1 .. n -> K]
  BY <1>1, <1>2 DEF n
<1>4. \A k \in 1 .. n : o[k] \in K /\ q[o[k]] \in S
  <2>1. \A j \in K : q[j] \in S
    OBVIOUS
  <2> QED BY <1>3, <2>1
<1>5. Picked(q, o) = [k \in 1 .. n |-> q[o[k]]]
  BY <1>3 DEF Picked
<1>6. Picked(q, o) \in Seq(S) /\ Len(Picked(q, o)) = n
  BY <1>3, <1>4, <1>5
<1> QED BY <1>1, <1>3, <1>4, <1>5, <1>6 DEF n

LEMMA ShuffledIs ==
  ASSUME NEW S, NEW q \in Seq(S), NEW K, K \subseteq 1 .. Len(q), NEW r \in Shuffled(q, K)
  PROVE  r \in Seq(S) /\ \A k \in 1 .. Len(r) : r[k] \in {q[j] : j \in K}
<1>1. PICK o \in SetToSeqs(K) : r = Picked(q, o)
  BY DEF Shuffled
<1> QED BY <1>1, PickedIs

\* The song first and the others behind it in any order.
LEMMA OnTop ==
  ASSUME NEW q \in Seq(QEntry), NEW id, NEW r \in Shuffled(q, Others(q, id)), NEW e \in QEntry
  PROVE  /\ <<e>> \o r \in Seq(QEntry) /\ Len(<<e>> \o r) >= 1 /\ (<<e>> \o r)[1] = e
         /\ \A k \in 2 .. Len(<<e>> \o r) : (<<e>> \o r)[k].id # id
<1>1. Others(q, id) \subseteq 1 .. Len(q) /\ \A j \in Others(q, id) : q[j].id # id
  BY DEF Others
<1>2. r \in Seq(QEntry) /\ \A k \in 1 .. Len(r) : r[k] \in {q[j] : j \in Others(q, id)}
  BY <1>1, ShuffledIs
<1>3. \A k \in 1 .. Len(r) : r[k].id # id
  BY <1>1, <1>2
<1> QED BY <1>2, <1>3

LEMMA InsertIs ==
  ASSUME NEW S, NEW q \in Seq(S), NEW e \in S, NEW i \in 1 .. Len(q) + 1
  PROVE  /\ InsertAt(q, i, e) \in Seq(S) /\ Len(InsertAt(q, i, e)) = Len(q) + 1
         /\ \A k \in 1 .. i - 1 : InsertAt(q, i, e)[k] = q[k]
<1> DEFINE x == SubSeq(q, 1, i - 1)
           y == SubSeq(q, i, Len(q))
<1>1. x \in Seq(S) /\ Len(x) = i - 1 /\ \A k \in 1 .. i - 1 : x[k] = q[k]
  OBVIOUS
<1>2. y \in Seq(S) /\ Len(y) = Len(q) - i + 1
  OBVIOUS
<1>3. InsertAt(q, i, e) = (x \o <<e>>) \o y
  BY DEF InsertAt
<1>0. Len(q) \in Nat /\ i \in Nat /\ i >= 1 /\ i <= Len(q) + 1
  OBVIOUS
<1> HIDE DEF x, y
<1> DEFINE z == x \o <<e>>
<1>4. z \in Seq(S) /\ Len(z) = i /\ \A k \in 1 .. i - 1 : z[k] = q[k]
  BY <1>0, <1>1
<1>5. InsertAt(q, i, e) = z \o y
  BY <1>3
<1> HIDE DEF z
<1>6. /\ z \o y \in Seq(S) /\ Len(z \o y) = Len(z) + Len(y)
      /\ \A k \in 1 .. Len(z) : (z \o y)[k] = z[k]
  BY <1>2, <1>4
<1> QED BY <1>0, <1>2, <1>4, <1>5, <1>6

LEMMA RemoveIs ==
  ASSUME NEW S, NEW q \in Seq(S), NEW i \in 1 .. Len(q)
  PROVE  RemoveAt(q, i) \in Seq(S) /\ Len(RemoveAt(q, i)) = Len(q) - 1
<1> DEFINE x == SubSeq(q, 1, i - 1)
           y == SubSeq(q, i + 1, Len(q))
<1>1. x \in Seq(S) /\ Len(x) = i - 1
  OBVIOUS
<1>2. y \in Seq(S) /\ Len(y) = Len(q) - i
  OBVIOUS
<1>3. RemoveAt(q, i) = x \o y
  BY DEF RemoveAt
<1> HIDE DEF x, y
<1>4. Len(q) \in Nat /\ i \in Nat
  OBVIOUS
<1>5. x \o y \in Seq(S) /\ Len(x \o y) = Len(x) + Len(y)
  BY <1>1, <1>2
<1> QED BY <1>1, <1>2, <1>3, <1>4, <1>5

\* Where the queue stands once it is looked for a song: at it, or at the first.
LEMMA PlaceIs ==
  ASSUME NEW q \in Seq(QEntry), q # <<>>, NEW id
  PROVE  Place(q, id) \in 1 .. Len(q) /\ (id \in Ids(q) => q[Place(q, id)].id = id)
<1> DEFINE S == {k \in DOMAIN q : q[k].id = id}
<1>0. DOMAIN q = 1 .. Len(q) /\ Len(q) \in Nat /\ Len(q) >= 1
  OBVIOUS
<1>1. CASE S = {}
  <2>1. Place(q, id) = 1 /\ id \notin Ids(q)
    BY <1>1 DEF Place, Ids
  <2> QED BY <1>0, <2>1
<1>2. CASE S # {}
  <2>1. S \subseteq 0 .. Len(q)
    BY <1>0
  <2>2. PICK m \in S : \A k \in S : m <= k
    <3> HIDE DEF S
    <3> QED BY <1>0, <1>2, <2>1, LeastExists
  <2>3. m \in DOMAIN q /\ q[m].id = id /\ \A j \in 1 .. m - 1 : q[j].id # id
    BY <1>0, <2>2
  <2>4. Place(q, id) \in DOMAIN q /\ q[Place(q, id)].id = id
    BY <1>2, <2>3 DEF Place
  <2> QED BY <1>0, <2>4
<1> QED BY <1>1, <1>2

-----------------------------------------------------------------------------
(* What the operations have in common.                                      *)

\* Whatever is set is saved.
LEMMA SetHeld ==
  ASSUME Held, NEW mode, full \in BOOLEAN, full' = full, original' \in Seq(QEntry),
         queue' \in Seq(QEntry), index' \in 0 .. Len(queue'), index' = 0 <=> queue' = <<>>, Save(mode)
  PROVE  Held'
<1>1. CASE queue' = <<>>
  <2>1. saved' = saved
    BY <1>1 DEF Save
  <2> QED BY <1>1, <2>1 DEF Held
<1>2. CASE queue' # <<>> /\ full
  <2>1. queue'[index'] \in QEntry
    BY <1>2
  <2>2. saved' = [queue |-> <<queue'[index']>>, original |-> <<>>]
    BY <1>2 DEF Save
  <2>3. saved' \in [queue : Seq(QEntry), original : Seq(QEntry)]
    BY <2>1, <2>2
  <2> QED BY <1>2, <2>3 DEF Held
<1>3. CASE queue' # <<>> /\ ~full
  <2>1. saved' = [queue |-> queue', original |-> IF mode = "off" THEN <<>> ELSE original']
    BY <1>3 DEF Save
  <2>2. saved' \in [queue : Seq(QEntry), original : Seq(QEntry)] /\ saved'.queue = queue'
    BY <2>1
  <2> QED BY <2>2 DEF Held
<1> QED BY <1>1, <1>2, <1>3

LEMMA StayHeld ==
  ASSUME Held, full' = full, Stay, original' \in Seq(QEntry)
  PROVE  Held'
BY DEF Held, Stay

LEMMA StopHeld ==
  ASSUME Held, full' = full, NEW i \in 1 .. Len(queue), StopAt(i)
  PROVE  Held' /\ song' = NoSong
BY DEF Held, StopAt

\* skipTo stands at a song of the queue, the last one if it is past it.
LEMMA SkipInIs ==
  ASSUME NEW q \in Seq(QEntry), NEW i \in Nat, SkipIn(q, i)
  PROVE  /\ index' \in 0 .. Len(q) /\ (index' = 0 <=> q = <<>>)
         /\ song' \in AnySong \cup {NoSong}
<1> DEFINE at == IF i < 1 THEN 1 ELSE i
<1>1. Len(q) \in Nat /\ (Len(q) = 0 <=> q = <<>>) /\ at \in Nat /\ at >= 1
  OBVIOUS
<1>2. CASE at > Len(q)
  <2>1. index' = Len(q) /\ song' = NoSong
    BY <1>2 DEF SkipIn
  <2> QED BY <1>1, <2>1
<1>3. CASE ~(at > Len(q))
  <2>1. index' = at /\ song' = q[at].id
    BY <1>3 DEF SkipIn
  <2>2. at \in 1 .. Len(q)
    BY <1>1, <1>3
  <2> HIDE DEF at
  <2>3. q[at] \in QEntry
    BY <2>2
  <2>4. song' \in AnySong
    BY <2>1, <2>3 DEF QEntry
  <2> QED BY <1>1, <2>1, <2>2, <2>4
<1> QED BY <1>2, <1>3

LEMMA SkipHeld ==
  ASSUME Held, full' = full, NEW i \in Nat, Skip(i)
  PROVE  Held' /\ song' \in AnySong \cup {NoSong}
<1>1. queue \in Seq(QEntry) /\ SkipIn(queue, i) /\ UNCHANGED <<queue, original, saved>>
  BY DEF Skip, Held
<1>2. index' \in 0 .. Len(queue) /\ (index' = 0 <=> queue = <<>>) /\ song' \in AnySong \cup {NoSong}
  BY <1>1, SkipInIs
<1> QED BY <1>1, <1>2 DEF Held

LEMMA SkipSetHeld ==
  ASSUME Held, full \in BOOLEAN, full' = full, original' \in Seq(QEntry),
         NEW q \in Seq(QEntry), NEW i \in Nat, SkipSet(q, i)
  PROVE  Held' /\ song' \in AnySong \cup {NoSong}
<1>1. queue' = q /\ SkipIn(q, i) /\ Save(shuffle)
  BY DEF SkipSet
<1>2. index' \in 0 .. Len(q) /\ (index' = 0 <=> q = <<>>) /\ song' \in AnySong \cup {NoSong}
  BY <1>1, SkipInIs
<1> QED BY <1>1, <1>2, SetHeld

LEMMA RestartHeld ==
  ASSUME Held, full \in BOOLEAN, full' = full, Restart
  PROVE  Held' /\ song' \in AnySong \cup {NoSong}
<1>1. CASE Skip(1)
  BY <1>1, SkipHeld
<1>2. CASE ~Skip(1)
  <2> DEFINE base == IF original = <<>> THEN queue ELSE original
             K    == {k \in DOMAIN base : base[k].mark # "queued"}
             Again(o) == Len(o) > 1 /\ o[1].id = Current
             Order(o) == IF Again(o) THEN Append(Tail(o), Head(o)) ELSE o
  <2>1. PICK o \in Shuffled(base, K) : UNCHANGED original /\ SkipSet(Order(o), 1)
    BY <1>2 DEF Restart
  <2>2. base \in Seq(QEntry) /\ K \subseteq 1 .. Len(base)
    BY DEF Held
  <2> HIDE DEF base, K
  <2>3. o \in Seq(QEntry)
    BY <2>1, <2>2, ShuffledIs
  <2>4. Order(o) \in Seq(QEntry)
    <3>1. CASE Again(o)
      <4>1. o # <<>>
        BY <2>3, <3>1
      <4>2. Tail(o) \in Seq(QEntry) /\ Head(o) \in QEntry
        BY <2>3, <4>1
      <4> QED BY <3>1, <4>2
    <3> QED BY <2>3, <3>1
  <2>5. original' \in Seq(QEntry)
    BY <2>1 DEF Held
  <2> HIDE DEF Order
  <2> QED BY <2>1, <2>4, <2>5, SkipSetHeld
<1> QED BY <1>1, <1>2

\* A list started at one of its songs.
LEMMA PlayListHeld ==
  ASSUME Held, full \in BOOLEAN, full' = full, NEW list \in Seq(AnySong), list # <<>>,
         NEW id \in AnySong, PlayList(list, id)
  PROVE  Held' /\ song' = id
<1> DEFINE tracks == Entries(list)
<1>1. tracks \in Seq(QEntry) /\ tracks # <<>>
  BY EntriesAre
<1>2. original' = tracks /\ song' = id
  BY DEF PlayList
<1>3. \/ Set(tracks, Place(tracks, id))
      \/ \E rest \in Shuffled(tracks, Others(tracks, id)) : Set(<<Entry(id)>> \o rest, 1)
  BY DEF PlayList
<1> HIDE DEF tracks
<1>4. CASE Set(tracks, Place(tracks, id))
  <2>1. Place(tracks, id) \in 1 .. Len(tracks)
    BY <1>1, PlaceIs
  <2>2. queue' = tracks /\ index' = Place(tracks, id) /\ Save(shuffle)
    BY <1>4 DEF Set
  <2> QED BY <1>1, <1>2, <2>1, <2>2, SetHeld
<1>5. CASE \E rest \in Shuffled(tracks, Others(tracks, id)) : Set(<<Entry(id)>> \o rest, 1)
  <2>1. PICK rest \in Shuffled(tracks, Others(tracks, id)) : Set(<<Entry(id)>> \o rest, 1)
    BY <1>5
  <2>2. <<Entry(id)>> \o rest \in Seq(QEntry) /\ Len(<<Entry(id)>> \o rest) >= 1
    BY <1>1, EntryIs, OnTop
  <2>3. queue' = <<Entry(id)>> \o rest /\ index' = 1 /\ Save(shuffle)
    BY <2>1 DEF Set
  <2> QED BY <1>1, <1>2, <2>2, <2>3, SetHeld
<1> QED BY <1>2, <1>3, <1>4, <1>5

-----------------------------------------------------------------------------
(* The operations.                                                          *)

LEMMA PlayQueueKeeps ==
  ASSUME QueueInv, UNCHANGED <<offline, full>>, PlayQueue
  PROVE  QueueInv'
<1>1. PICK list \in Lists : \E k \in Playable(list), o \in InOrder(Playable(list)) :
        PlayList(Picked(list, o), list[k])
  BY DEF PlayQueue
<1> DEFINE K == Playable(list)
<1>2. PICK k \in K, o \in InOrder(K) : PlayList(Picked(list, o), list[k])
  BY <1>1
<1>3. list \in Seq(AnySong)
  BY ListIs
<1>4. K \subseteq 1 .. Len(list) /\ o \in SetToSeqs(K)
  BY <1>3 DEF Playable, InOrder
<1>5. k \in 1 .. Len(list) /\ list[k] \in AnySong
  BY <1>3, <1>4
<1> HIDE DEF K
<1>6. /\ Picked(list, o) \in Seq(AnySong) /\ Len(Picked(list, o)) = Cardinality(K)
      /\ IsFiniteSet(K) /\ Cardinality(K) \in Nat
  BY <1>3, <1>4, PickedIs
<1>7. Cardinality(K) # 0
  BY <1>2, <1>6, FS_EmptySet
<1>8. Picked(list, o) # <<>>
  BY <1>6, <1>7
<1>9. Held' /\ song' = list[k]
  BY <1>2, <1>5, <1>6, <1>8, PlayListHeld DEF QueueInv, Settings
<1> QED BY <1>5, <1>9 DEF QueueInv, Settings, PlayQueue

\* What is added goes behind the song that plays and what was added before.
LEMMA QueuedFromIs ==
  ASSUME Held, queue # <<>>
  PROVE  QueuedFrom(index) \in index .. Len(queue)
<1> DEFINE S == {n \in index .. Len(queue) : n < Len(queue) => queue[n + 1].mark # "queued"}
<1>1. Len(queue) \in Nat /\ index \in 1 .. Len(queue)
  BY DEF Held
<1>2. S \subseteq 0 .. Len(queue) /\ Len(queue) \in S
  BY <1>1
<1>3. PICK n \in S : \A k \in S : n <= k
  <2> HIDE DEF S
  <2> QED BY <1>1, <1>2, LeastExists
<1>4. ASSUME NEW k \in index + 1 .. n PROVE queue[k].mark = "queued"
  <2>1. k - 1 \in index .. Len(queue) /\ k - 1 < n /\ k - 1 < Len(queue) /\ (k - 1) + 1 = k
    BY <1>1, <1>3
  <2>2. k - 1 \notin S
    BY <1>1, <1>3, <2>1
  <2> QED BY <2>1, <2>2
<1>5. n \in index .. Len(queue) /\ (n < Len(queue) => queue[n + 1].mark # "queued")
  BY <1>3
<1> QED BY <1>4, <1>5 DEF QueuedFrom

LEMMA AddToQueueKeeps ==
  ASSUME QueueInv, UNCHANGED <<offline, full>>, AddToQueue
  PROVE  QueueInv'
<1>1. PICK id \in AnySong :
        \/ /\ queue = <<>> /\ original' = <<Entry(id)>> /\ song' = NoSong
           /\ Set(<<Entry(id)>>, 1)
        \/ /\ queue # <<>> /\ song' = song
           /\ LET at == QueuedFrom(index)
                  e  == [id |-> id, mark |-> "queued"]
              IN /\ original' = Append(original, e)
                 /\ Set(InsertAt(queue, at + 1, e), index)
  BY DEF AddToQueue
<1>2. full \in BOOLEAN /\ full' = full /\ Held
  BY DEF QueueInv, Settings
<1>3. CASE queue = <<>> /\ original' = <<Entry(id)>> /\ song' = NoSong /\ Set(<<Entry(id)>>, 1)
  <2>1. queue' = <<Entry(id)>> /\ index' = 1 /\ Save(shuffle)
    BY <1>3 DEF Set
  <2>2. <<Entry(id)>> \in Seq(QEntry) /\ Len(<<Entry(id)>>) = 1
    BY EntryIs
  <2>3. Held'
    BY <1>2, <1>3, <2>1, <2>2, SetHeld
  <2> QED BY <1>3, <2>3 DEF QueueInv, Settings, AddToQueue
<1>4. CASE queue # <<>> /\ song' = song
  <2> DEFINE at == QueuedFrom(index)
             e  == [id |-> id, mark |-> "queued"]
  <2>1. original' = Append(original, e) /\ Set(InsertAt(queue, at + 1, e), index)
    BY <1>1, <1>4
  <2>2. e \in QEntry
    BY DEF QEntry
  <2>3. at \in index .. Len(queue) /\ queue \in Seq(QEntry) /\ index \in 1 .. Len(queue)
    BY <1>2, <1>4, QueuedFromIs DEF Held
  <2> HIDE DEF at, e
  <2>4. at + 1 \in 1 .. Len(queue) + 1
    BY <2>3
  <2>5. InsertAt(queue, at + 1, e) \in Seq(QEntry) /\ Len(InsertAt(queue, at + 1, e)) = Len(queue) + 1
    BY <2>2, <2>3, <2>4, InsertIs
  <2>6. original' \in Seq(QEntry)
    BY <1>2, <2>1, <2>2 DEF Held
  <2>7. queue' = InsertAt(queue, at + 1, e) /\ index' = index /\ Save(shuffle)
    BY <2>1 DEF Set
  <2>8. index' \in 0 .. Len(queue') /\ index' # 0 /\ queue' # <<>>
    BY <2>3, <2>5, <2>7
  <2>9. Held'
    BY <1>2, <2>5, <2>6, <2>7, <2>8, SetHeld
  <2> QED BY <1>4, <2>9 DEF QueueInv, Settings, AddToQueue
<1> QED BY <1>1, <1>3, <1>4

LEMMA EditKeeps ==
  ASSUME QueueInv, UNCHANGED <<offline, full>>, Edit
  PROVE  QueueInv'
<1> DEFINE K == {k \in DOMAIN queue : k <= index \/ queue[k].mark # "queued"}
<1>1. /\ full \in BOOLEAN /\ full' = full /\ Held /\ original' \in Seq(QEntry)
      /\ queue \in Seq(QEntry) /\ Len(queue) \in Nat /\ index \in 1 .. Len(queue)
  BY DEF QueueInv, Settings, Edit, Held
<1>2. ASSUME NEW q \in Seq(QEntry), NEW i \in 1 .. Len(q), Set(q, i) PROVE QueueInv'
  <2>1. queue' = q /\ index' = i /\ Save(shuffle) /\ q # <<>>
    BY <1>2 DEF Set
  <2>2. Held'
    BY <1>1, <2>1, SetHeld
  <2> QED BY <2>2 DEF QueueInv, Settings, Edit
<1>3. ASSUME NEW k \in DOMAIN queue \ {index},
             Set(RemoveAt(queue, k), IF k < index THEN index - 1 ELSE index)
      PROVE  QueueInv'
  <2>1. k \in 1 .. Len(queue) /\ k # index
    BY <1>1
  <2>2. RemoveAt(queue, k) \in Seq(QEntry) /\ Len(RemoveAt(queue, k)) = Len(queue) - 1
    BY <1>1, <2>1, RemoveIs
  <2>3. (IF k < index THEN index - 1 ELSE index) \in 1 .. Len(queue) - 1
    BY <1>1, <2>1
  <2> QED BY <1>2, <1>3, <2>2, <2>3
<1>4. ASSUME NEW from \in index + 1 .. Len(queue), NEW to \in index + 1 .. Len(queue),
             Set(InsertAt(RemoveAt(queue, from), to, queue[from]), index)
      PROVE  QueueInv'
  <2> DEFINE r == RemoveAt(queue, from)
  <2>1. from \in 1 .. Len(queue) /\ queue[from] \in QEntry
    BY <1>1
  <2>2. r \in Seq(QEntry) /\ Len(r) = Len(queue) - 1
    BY <1>1, <2>1, RemoveIs
  <2>3. to \in 1 .. Len(r) + 1
    BY <1>1, <2>2
  <2> HIDE DEF r
  <2>4. InsertAt(r, to, queue[from]) \in Seq(QEntry) /\ Len(InsertAt(r, to, queue[from])) = Len(r) + 1
    BY <2>1, <2>2, <2>3, InsertIs
  <2>5. index \in 1 .. Len(InsertAt(r, to, queue[from]))
    BY <1>1, <2>2, <2>4
  <2>6. Set(InsertAt(r, to, queue[from]), index)
    BY <1>4 DEF r
  <2> QED BY <1>2, <2>4, <2>5, <2>6
<1>5. ASSUME NEW o \in InOrder(K), Set(Picked(queue, o), index)
      PROVE  QueueInv'
  <2>1. K \subseteq 1 .. Len(queue) /\ 1 .. index \subseteq K /\ o \in SetToSeqs(K)
    BY <1>1, <1>5 DEF InOrder
  <2> HIDE DEF K
  <2>2. /\ Picked(queue, o) \in Seq(QEntry) /\ Len(Picked(queue, o)) = Cardinality(K)
        /\ IsFiniteSet(K) /\ Cardinality(K) \in Nat
    BY <1>1, <2>1, PickedIs
  <2>3. Cardinality(1 .. index) = index
    BY <1>1, FS_Interval
  <2>4. Cardinality(1 .. index) <= Cardinality(K)
    BY <2>1, <2>2, FS_Subset
  <2>5. index \in 1 .. Len(Picked(queue, o))
    BY <1>1, <2>2, <2>3, <2>4
  <2> QED BY <1>2, <1>5, <2>2, <2>5
<1> QED BY <1>3, <1>4, <1>5 DEF Edit

LEMMA FirstIs ==
  ASSUME NEW n \in Nat, NEW S, S \subseteq 0 .. n, S # {}
  PROVE  First(S) \in S
BY LeastExists DEF First

\* Another song of the queue, or none.
LEMMA AdvanceKeeps ==
  ASSUME QueueInv, UNCHANGED <<offline, full>>, NEW auto \in BOOLEAN, Advance(auto)
  PROVE  QueueInv'
<1>1. /\ full \in BOOLEAN /\ full' = full /\ Held /\ queue # <<>>
      /\ queue \in Seq(QEntry) /\ Len(queue) \in Nat /\ index \in 1 .. Len(queue)
      /\ UNCHANGED <<shuffle, repeat, ctx, extended, asks, offline>>
  BY DEF QueueInv, Settings, Advance, Held
<1>2. ASSUME Held', song' \in AnySong \cup {NoSong} PROVE QueueInv'
  BY <1>1, <1>2 DEF QueueInv, Settings
<1>3. ASSUME NEW i \in Nat, Skip(i) PROVE QueueInv'
  BY <1>1, <1>2, <1>3, SkipHeld
<1>4. ASSUME NEW i \in 1 .. Len(queue), StopAt(i) PROVE QueueInv'
  BY <1>1, <1>2, <1>4, StopHeld
<1>5. ASSUME Restart PROVE QueueInv'
  BY <1>1, <1>2, <1>5, RestartHeld
<1>6. ASSUME NEW i \in Nat, KeptAfter(i) # {} PROVE First(KeptAfter(i)) \in Nat
  <2>1. KeptAfter(i) \subseteq 0 .. Len(queue)
    BY <1>1 DEF KeptAfter
  <2> QED BY <1>1, <1>6, <2>1, FirstIs
<1>7. \/ StopAt(IF index < Len(queue) THEN index + 1 ELSE IF repeat = "all" THEN 1 ELSE index)
      \/ StopAt(index) \/ Skip(index) \/ Skip(index + 1) \/ Restart
      \/ KeptAfter(index) # {} /\ Skip(First(KeptAfter(index)))
      \/ KeptAfter(0) # {} /\ Skip(First(KeptAfter(0)))
  BY DEF Advance
<1>8. (IF index < Len(queue) THEN index + 1 ELSE IF repeat = "all" THEN 1 ELSE index) \in 1 .. Len(queue)
  BY <1>1
<1>9. index \in Nat /\ index + 1 \in Nat /\ 0 \in Nat
  BY <1>1
<1> QED BY <1>1, <1>3, <1>4, <1>5, <1>6, <1>7, <1>8, <1>9

LEMMA PreviousKeeps ==
  ASSUME QueueInv, UNCHANGED <<offline, full>>, Previous
  PROVE  QueueInv'
<1> DEFINE B == {k \in 1 .. index - 1 : ~offline \/ queue[k].id \in Kept}
           to == IF B # {} THEN CHOOSE k \in B : \A j \in B : j <= k ELSE IF offline THEN index ELSE 1
<1>1. /\ full' = full /\ Held /\ Len(queue) \in Nat /\ index \in 1 .. Len(queue)
      /\ UNCHANGED <<shuffle, repeat, ctx, extended, asks, offline>>
  BY DEF QueueInv, Settings, Previous, Held
<1>2. Skip(index) \/ Skip(to)
  BY DEF Previous
<1>3. to \in Nat
  <2>1. CASE B # {}
    <3>1. B \subseteq 0 .. Len(queue)
      BY <1>1
    <3>2. \E k \in B : \A j \in B : j <= k
      <4> HIDE DEF B
      <4> QED BY <1>1, <2>1, <3>1, GreatestExists
    <3>3. (CHOOSE k \in B : \A j \in B : j <= k) \in B
      <4> HIDE DEF B
      <4> QED BY <3>2
    <3>4. to = CHOOSE k \in B : \A j \in B : j <= k
      <4> HIDE DEF B
      <4> QED BY <2>1
    <3> QED BY <1>1, <3>1, <3>3, <3>4
  <2> QED BY <1>1, <2>1
<1> HIDE DEF to
<1>4. Held' /\ song' \in AnySong \cup {NoSong}
  BY <1>1, <1>2, <1>3, SkipHeld
<1> QED BY <1>1, <1>4 DEF QueueInv, Settings

\* Nothing but the lookups changes.
LEMMA AskKeeps ==
  ASSUME QueueInv, UNCHANGED <<offline, full>>, Stay,
         UNCHANGED <<original, song, shuffle, repeat, ctx>>, extended' \in AnySong \cup {NoSong},
         NEW a, Asked(a), Asking(a)
  PROVE  QueueInv'
<1>1. Held'
  BY StayHeld DEF QueueInv, Held
<1>2. asks' = asks \cup {a}
  BY DEF Asking
<1> QED BY <1>1, <1>2 DEF QueueInv, Settings

LEMMA CurrentIs ==
  ASSUME Held, queue # <<>>
  PROVE  index \in 1 .. Len(queue) /\ queue[index] \in QEntry /\ Current = queue[index].id /\ Current \in AnySong
<1>1. index \in 1 .. Len(queue) /\ queue[index] \in QEntry
  BY DEF Held
<1> QED BY <1>1 DEF Current, QEntry

LEMMA LookOnKeeps ==
  ASSUME QueueInv, UNCHANGED <<offline, full>>, LookOn
  PROVE  QueueInv'
<1> DEFINE kind == CASE ctx = "artist" -> "artist" [] ctx = NoSong -> "more" [] OTHER -> "again"
           a    == Ask(kind, Current, queue)
<1>1. Held /\ queue # <<>> /\ queue \in Seq(QEntry) /\ Current \in AnySong
  BY CurrentIs DEF QueueInv, LookOn, Held
<1>2. kind \in {"artist", "more", "again"}
  OBVIOUS
<1>3. Asking(a) /\ Stay /\ UNCHANGED <<original, song, shuffle, repeat, ctx, extended>>
  BY DEF LookOn
<1> HIDE DEF kind
<1>4. a \in Lookup /\ a.kind = kind
  BY <1>1, <1>2 DEF Lookup, Ask
<1>5. Asked(a)
  BY <1>2, <1>4 DEF Asked
<1> HIDE DEF a
<1> QED BY <1>3, <1>5, AskKeeps DEF QueueInv, Settings

LEMMA ExtendKeeps ==
  ASSUME QueueInv, UNCHANGED <<offline, full>>, Extend
  PROVE  QueueInv'
<1>1. queue \in Seq(QEntry) /\ Len(queue) \in 1 .. Len(queue) /\ queue[Len(queue)] \in QEntry
  BY DEF QueueInv, Held, Extend
<1>2. extended' \in AnySong
  BY <1>1 DEF Extend, QEntry
<1> DEFINE a == Ask("extend", extended', <<>>)
<1>3. Asking(a) /\ Stay /\ UNCHANGED <<original, song, shuffle, repeat, ctx>>
  BY DEF Extend
<1>4. a \in Lookup /\ a.kind = "extend"
  BY <1>2 DEF Lookup, Ask
<1>5. Asked(a)
  BY <1>4 DEF Asked
<1> HIDE DEF a
<1> QED BY <1>2, <1>3, <1>5, AskKeeps

LEMMA RoutedKeeps ==
  ASSUME QueueInv, UNCHANGED <<offline, full>>, Routed
  PROVE  QueueInv'
<1>1. PICK list \in Lists : \E k \in DOMAIN list : \E kind \in {"play", "transfer"} :
        Asking(Ask(kind, list[k], Entries(list)))
  BY DEF Routed
<1>2. PICK k \in DOMAIN list, kind \in {"play", "transfer"} : Asking(Ask(kind, list[k], Entries(list)))
  BY <1>1
<1> DEFINE a == Ask(kind, list[k], Entries(list))
<1>3. list \in Seq(AnySong) /\ k \in 1 .. Len(list) /\ list[k] \in AnySong
  <2>1. list \in Seq(AnySong)
    BY ListIs
  <2> QED BY <2>1
<1>4. /\ Entries(list) \in Seq(QEntry) /\ Len(Entries(list)) = Len(list)
      /\ Entries(list)[k].id = list[k]
  BY <1>3, EntriesAre
<1>5. list[k] \in Ids(Entries(list))
  BY <1>3, <1>4 DEF Ids
<1>6. a \in Lookup /\ a.kind = kind /\ a.about = list[k] /\ a.list = Entries(list)
  BY <1>3, <1>4 DEF Lookup, Ask
<1>7. Asked(a)
  BY <1>5, <1>6 DEF Asked
<1>8. Asking(a) /\ Stay /\ UNCHANGED <<original, song, shuffle, repeat, ctx, extended>>
  BY <1>2 DEF Routed
<1> HIDE DEF a
<1> QED BY <1>7, <1>8, AskKeeps DEF QueueInv, Settings

LEMMA ApplySessionKeeps ==
  ASSUME QueueInv, UNCHANGED <<offline, full>>, ApplySession
  PROVE  QueueInv'
<1> DEFINE Of(list, id) == IF \E k \in DOMAIN list : list[k] = id THEN list ELSE <<id>>
<1>1. PICK list \in Lists, id \in AnySong :
        LET q == Entries(Of(list, id)) IN
        /\ original' = q /\ shuffle' \in {shuffle, "off", "on"} /\ repeat' \in {repeat, "off"}
        /\ queue' = q /\ index' = Place(q, id) /\ Save(shuffle')
  BY DEF ApplySession
<1> DEFINE q == Entries(Of(list, id))
<1>2. Of(list, id) \in Seq(AnySong) /\ Of(list, id) # <<>>
  <2>1. list \in Seq(AnySong)
    BY ListIs
  <2>2. CASE \E k \in DOMAIN list : list[k] = id
    BY <2>1, <2>2
  <2>3. CASE ~ \E k \in DOMAIN list : list[k] = id
    BY <2>3
  <2> QED BY <2>2, <2>3
<1> HIDE DEF Of
<1>3. q \in Seq(QEntry) /\ q # <<>>
  BY <1>2, EntriesAre
<1>4. /\ original' = q /\ shuffle' \in {shuffle, "off", "on"} /\ repeat' \in {repeat, "off"}
      /\ queue' = q /\ index' = Place(q, id) /\ Save(shuffle')
  BY <1>1
<1> HIDE DEF q
<1>5. Place(q, id) \in 1 .. Len(q)
  BY <1>3, PlaceIs
<1>6. Held'
  BY <1>3, <1>4, <1>5, SetHeld DEF QueueInv, Settings
<1> QED BY <1>4, <1>6 DEF QueueInv, Settings, ApplySession

\* Shuffle puts the song that plays first; smart shuffle then looks for picks.
LEMMA ShuffleToKeeps ==
  ASSUME QueueInv, UNCHANGED <<offline, full>>, NEW mode \in {"off", "on", "smart"}, ShuffleTo(mode)
  PROVE  QueueInv'
<1>1. /\ full \in BOOLEAN /\ full' = full /\ Held /\ queue \in Seq(QEntry) /\ original \in Seq(QEntry)
      /\ queue # <<>> /\ Save(mode) /\ SetShuffle(mode)
  BY DEF QueueInv, Settings, ShuffleTo, Held
<1>2. index \in 1 .. Len(queue) /\ queue[index] \in QEntry /\ Current = queue[index].id /\ Current \in AnySong
  BY <1>1, CurrentIs
<1>3. ASSUME Held', \A a \in asks' \ asks : Asked(a) PROVE QueueInv'
  <2>1. shuffle' = mode /\ UNCHANGED <<repeat, ctx, song, extended>>
    BY <1>1 DEF SetShuffle
  <2> QED BY <1>3, <2>1 DEF QueueInv, Settings
<1>4. CASE mode = "off"
  <2>1. UNCHANGED original /\ queue' = (IF original = <<>> THEN queue ELSE original) /\ index' = Place(queue', Current)
    BY <1>4 DEF ShuffleTo
  <2>2. queue' \in Seq(QEntry) /\ queue' # <<>>
    BY <1>1, <2>1
  <2>3. Place(queue', Current) \in 1 .. Len(queue')
    BY <2>2, PlaceIs
  <2>4. Held'
    BY <1>1, <2>1, <2>2, <2>3, SetHeld
  <2>5. asks' = asks
    BY <1>1, <1>4 DEF SetShuffle
  <2> QED BY <1>3, <2>4, <2>5
<1>5. CASE mode # "off"
  <2>1. PICK rest \in Shuffled(queue, Others(queue, Current)) :
          queue' = <<queue[index]>> \o rest /\ index' = 1
    BY <1>5 DEF ShuffleTo
  <2>2. /\ queue' \in Seq(QEntry) /\ Len(queue') >= 1 /\ queue'[1] = queue[index]
        /\ \A k \in 2 .. Len(queue') : queue'[k].id # Current
    BY <1>1, <1>2, <2>1, OnTop
  <2>3. original' \in Seq(QEntry)
    BY <1>1, <1>5 DEF ShuffleTo
  <2>4. Held'
    BY <1>1, <2>1, <2>2, <2>3, SetHeld
  <2> DEFINE a == Ask("blend", Current, queue')
  <2>5. asks' = asks \/ (Len(queue') - index' >= 3 /\ asks' = asks \cup {a})
    BY <1>1 DEF SetShuffle
  <2>6. ASSUME Len(queue') - index' >= 3 PROVE Asked(a)
    <3>1. Len(queue') >= 4
      BY <2>1, <2>2, <2>6
    <3>2. a \in Lookup /\ a.kind = "blend" /\ a.about = Current /\ a.list = queue'
      BY <1>2, <2>2 DEF Lookup, Ask
    <3> HIDE DEF a
    <3> QED BY <1>2, <2>2, <3>1, <3>2 DEF Asked
  <2> QED BY <1>3, <2>4, <2>5, <2>6
<1> QED BY <1>4, <1>5

LEMMA ModesKeeps ==
  ASSUME QueueInv, UNCHANGED <<offline, full>>, Modes
  PROVE  QueueInv'
<1>1. CASE \E mode \in {"off", "on", "smart"} : ShuffleTo(mode)
  BY <1>1, ShuffleToKeeps
<1>2. CASE /\ repeat' \in {"off", "all", "one"} \ {repeat}
           /\ Stay /\ UNCHANGED <<original, shuffle, ctx, song, asks, extended>>
  <2>1. Held'
    BY <1>2, StayHeld DEF QueueInv, Held
  <2> QED BY <1>2, <2>1 DEF QueueInv, Settings
<1> QED BY <1>1, <1>2 DEF Modes

LEMMA ReopenKeeps ==
  ASSUME QueueInv, UNCHANGED <<offline, full>>, Reopen
  PROVE  QueueInv'
<1> DEFINE q == saved.queue
<1>1. full \in BOOLEAN /\ full' = full /\ Held
  BY DEF QueueInv, Settings
<1>2. q \in Seq(QEntry) /\ q # <<>> /\ saved.original \in Seq(QEntry)
  BY <1>1 DEF Held, Reopen
<1>3. PICK at \in DOMAIN q : Set(q, at)
  BY DEF Reopen
<1>4. original' \in Seq(QEntry) /\ shuffle' = shuffle
  BY <1>2 DEF Reopen
<1>5. queue' = q /\ index' = at /\ Save(shuffle)
  BY <1>3 DEF Set
<1> HIDE DEF q
<1>6. at \in 1 .. Len(q)
  BY <1>2, <1>3
<1>7. Held'
  BY <1>1, <1>2, <1>4, <1>5, <1>6, SetHeld
<1> QED BY <1>4, <1>7 DEF QueueInv, Settings, Reopen

-----------------------------------------------------------------------------
(* The answers.                                                             *)

LEMMA NewIs ==
  ASSUME NEW found \in Found, NEW ids
  PROVE  New(found, ids) \in Seq(QEntry)
<1>1. PICK id : found = <<>> \/ (id \in Similar /\ found = <<Entry(id)>>)
  BY DEF Found
<1>2. id \in Similar => id \in AnySong
  BY SimilarIs
<1>3. CASE found = <<>>
  BY <1>3 DEF New
<1>4. CASE id \in Similar /\ found = <<Entry(id)>>
  <2>1. Entry(id) \in QEntry
    BY <1>2, <1>4, EntryIs
  <2>2. found \in Seq(QEntry)
    BY <1>4, <2>1
  <2> QED BY <2>2 DEF New
<1> QED BY <1>1, <1>3, <1>4

LEMMA ContinuedHeld ==
  ASSUME QueueInv, UNCHANGED <<offline, full>>, NEW a \in asks, NEW found \in Found, Continued(a, found)
  PROVE  Held' /\ song' \in AnySong \cup {NoSong}
<1> DEFINE new  == New(found, Ids(a.list))
           pick == IF new # <<>> \/ a.kind = "artist" THEN new ELSE New(found, {a.about})
<1>1. /\ full \in BOOLEAN /\ full' = full /\ Held /\ queue \in Seq(QEntry) /\ original \in Seq(QEntry)
      /\ Len(queue) + 1 \in Nat /\ index + 1 \in Nat /\ 1 \in Nat
  BY DEF QueueInv, Settings, Held
<1>2. new \in Seq(QEntry) /\ New(found, {a.about}) \in Seq(QEntry)
  BY NewIs
<1>3. pick \in Seq(QEntry)
  BY <1>2
<1>4. \/ /\ original' = IF a.kind = "artist" THEN original \o pick ELSE original
         /\ SkipSet(queue \o pick, index + 1)
      \/ Restart \/ Skip(1) \/ Skip(Len(queue) + 1)
  BY DEF Continued
<1> HIDE DEF pick
<1>5. CASE /\ original' = IF a.kind = "artist" THEN original \o pick ELSE original
           /\ SkipSet(queue \o pick, index + 1)
  <2>1. queue \o pick \in Seq(QEntry) /\ original \o pick \in Seq(QEntry)
    BY <1>1, <1>3
  <2>2. original' \in Seq(QEntry)
    BY <1>1, <1>5, <2>1
  <2> QED BY <1>1, <1>5, <2>1, <2>2, SkipSetHeld
<1> QED BY <1>1, <1>4, <1>5, RestartHeld, SkipHeld

\* What comes after the end is appended: the queue stays at its song.
LEMMA ExtendedHeld ==
  ASSUME Held, NEW a, NEW found \in Found, Extended(a, found)
  PROVE  /\ Current' = Current /\ song' = song
         /\ full \in BOOLEAN /\ full' = full => Held'
<1>1. queue \in Seq(QEntry) /\ index \in 0 .. Len(queue) /\ (index = 0 <=> queue = <<>>) /\ original' = original
  BY DEF Held, Extended
<1> DEFINE n == New(found, Ids(queue))
<1>2. Stay \/ (queue # <<>> /\ Set(queue \o n, index))
  BY DEF Extended
<1>3. n \in Seq(QEntry)
  BY NewIs
<1> HIDE DEF n
<1>4. CASE Stay
  <2>1. Current' = Current
    BY <1>4 DEF Stay, Current
  <2>2. full' = full => Held'
    BY <1>1, <1>4, StayHeld DEF Held
  <2> QED BY <2>1, <2>2 DEF Extended
<1>5. CASE queue # <<>> /\ Set(queue \o n, index)
  <2>1. queue' = queue \o n /\ index' = index /\ Save(shuffle)
    BY <1>5 DEF Set
  <2>2. /\ queue \o n \in Seq(QEntry) /\ Len(queue \o n) >= Len(queue)
        /\ \A k \in 1 .. Len(queue) : (queue \o n)[k] = queue[k]
    BY <1>1, <1>3
  <2>3. index \in 1 .. Len(queue)
    BY <1>1, <1>5
  <2>4. Current' = Current
    BY <2>1, <2>2, <2>3 DEF Current
  <2>5. index' \in 0 .. Len(queue') /\ index' # 0 /\ queue' # <<>>
    BY <1>1, <2>1, <2>2, <2>3
  <2>6. original' \in Seq(QEntry)
    BY <1>1 DEF Held
  <2>7. full \in BOOLEAN /\ full' = full => Held'
    BY <2>1, <2>2, <2>5, <2>6, SetHeld
  <2> QED BY <2>4, <2>7 DEF Extended
<1> QED BY <1>2, <1>4, <1>5

\* A pick goes behind the third of the songs to come.
LEMMA BlendedHeld ==
  ASSUME Held, NEW a, Asked(a), a.kind = "blend", NEW found \in Found, Blended(a, found)
  PROVE  /\ Current' = Current /\ song' = song
         /\ full \in BOOLEAN /\ full' = full => Held'
<1>1. queue \in Seq(QEntry) /\ index \in 0 .. Len(queue) /\ (index = 0 <=> queue = <<>>) /\ original' = original
  BY DEF Held, Blended
<1> DEFINE e == [Head(found) EXCEPT !.mark = "rec"]
<1>2. \/ Stay
      \/ /\ New(found, Ids(a.list)) # <<>> /\ queue = a.list /\ Current = a.about
         /\ Set(InsertAt(queue, index + 4, e), index)
  BY DEF Blended
<1>3. CASE Stay
  <2>1. Current' = Current
    BY <1>3 DEF Stay, Current
  <2>2. full' = full => Held'
    BY <1>1, <1>3, StayHeld DEF Held
  <2> QED BY <2>1, <2>2 DEF Blended
<1>4. CASE /\ New(found, Ids(a.list)) # <<>> /\ queue = a.list /\ Current = a.about
           /\ Set(InsertAt(queue, index + 4, e), index)
  <2>1. found # <<>>
    BY <1>4 DEF New
  <2>2. PICK id \in Similar : found = <<Entry(id)>>
    BY <2>1 DEF Found
  <2>3. e \in QEntry
    <3>1. Head(found) = Entry(id)
      BY <2>2
    <3>2. id \in AnySong
      BY SimilarIs
    <3> QED BY <3>1, <3>2 DEF Entry, QEntry
  <2>4. Len(queue) >= 4 /\ queue[1].id = Current /\ \A k \in 2 .. Len(queue) : queue[k].id # Current
    BY <1>4 DEF Asked
  <2>5. index = 1
    <3>1. index \in 1 .. Len(queue) /\ Current = queue[index].id
      BY <1>1, <2>4, CurrentIs
    <3> QED BY <1>1, <2>4, <3>1
  <2> HIDE DEF e
  <2>6. /\ InsertAt(queue, 5, e) \in Seq(QEntry) /\ Len(InsertAt(queue, 5, e)) = Len(queue) + 1
        /\ \A k \in 1 .. 5 - 1 : InsertAt(queue, 5, e)[k] = queue[k]
    <3>1. 5 \in 1 .. Len(queue) + 1
      BY <1>1, <2>4
    <3> QED BY <1>1, <2>3, <3>1, InsertIs
  <2>7. queue' = InsertAt(queue, 5, e) /\ index' = 1 /\ Save(shuffle)
    BY <1>4, <2>5 DEF Set
  <2>8. Current' = Current
    BY <2>5, <2>6, <2>7 DEF Current
  <2>9. index' \in 0 .. Len(queue') /\ index' # 0 /\ queue' # <<>>
    BY <1>1, <2>4, <2>6, <2>7
  <2>10. original' \in Seq(QEntry)
    BY <1>1 DEF Held
  <2>11. full \in BOOLEAN /\ full' = full => Held'
    BY <2>6, <2>7, <2>9, <2>10, SetHeld
  <2> QED BY <2>8, <2>11 DEF Blended
<1> QED BY <1>2, <1>3, <1>4

\* The rest of a list is filled in round its song, if that one still plays.
LEMMA FilledHeld ==
  ASSUME Held, NEW a, Asked(a), a.kind \in {"fill", "handed"}, Filled(a)
  PROVE  /\ Current' = Current /\ song' = song
         /\ full \in BOOLEAN /\ full' = full => Held'
<1>1. a.list \in Seq(QEntry) /\ a.about \in Ids(a.list) /\ a.about \in AnySong
  <2>1. a.list \in Seq(QEntry) /\ a.about \in Ids(a.list)
    BY DEF Asked, Lookup
  <2>2. PICK k \in 1 .. Len(a.list) : a.list[k].id = a.about
    BY <2>1 DEF Ids
  <2>3. a.list[k] \in QEntry
    BY <2>1, <2>2
  <2> QED BY <2>1, <2>2, <2>3 DEF QEntry
<1>2. a.list # <<>>
  BY <1>1 DEF Ids
<1>3. original \in Seq(QEntry)
  BY DEF Held
<1>4. CASE Current # a.about
  <2>1. Stay /\ UNCHANGED original
    BY <1>4 DEF Filled
  <2>2. Current' = Current
    BY <2>1 DEF Stay, Current
  <2>3. full' = full => Held'
    BY <1>3, <2>1, StayHeld
  <2> QED BY <2>2, <2>3 DEF Filled
<1>5. ASSUME Current = a.about, original' \in Seq(QEntry), Set(a.list, Place(a.list, a.about))
      PROVE  Current' = Current /\ (full \in BOOLEAN /\ full' = full => Held')
  <2> DEFINE at == Place(a.list, a.about)
  <2>1. at \in 1 .. Len(a.list) /\ a.list[at].id = a.about
    BY <1>1, <1>2, PlaceIs
  <2>2. queue' = a.list /\ index' = at /\ Save(shuffle)
    BY <1>5 DEF Set
  <2> HIDE DEF at
  <2>3. Current' = Current
    BY <1>5, <2>1, <2>2 DEF Current
  <2>4. full \in BOOLEAN /\ full' = full => Held'
    BY <1>1, <1>2, <1>5, <2>1, <2>2, SetHeld
  <2> QED BY <2>3, <2>4
<1>6. ASSUME Current = a.about, original' = a.list,
             NEW rest \in Shuffled(a.list, Others(a.list, a.about)), Set(<<Entry(a.about)>> \o rest, 1)
      PROVE  Current' = Current /\ (full \in BOOLEAN /\ full' = full => Held')
  <2>0. Entry(a.about) \in QEntry /\ Entry(a.about).id = a.about
    BY <1>1, EntryIs
  <2>1. queue' = <<Entry(a.about)>> \o rest /\ index' = 1 /\ Save(shuffle)
    BY <1>6 DEF Set
  <2>2. queue' \in Seq(QEntry) /\ Len(queue') >= 1 /\ queue'[1] = Entry(a.about)
    BY <1>1, <2>0, <2>1, OnTop
  <2>3. Current' = Current
    BY <1>6, <2>0, <2>1, <2>2 DEF Current
  <2>4. full \in BOOLEAN /\ full' = full => Held'
    BY <1>1, <1>6, <2>1, <2>2, SetHeld
  <2> QED BY <2>3, <2>4
<1>7. CASE Current = a.about
  <2>1. \/ original' = original /\ Set(a.list, Place(a.list, a.about))
        \/ original' = a.list /\ Set(a.list, Place(a.list, a.about))
        \/ /\ original' = a.list
           /\ \E rest \in Shuffled(a.list, Others(a.list, a.about)) : Set(<<Entry(a.about)>> \o rest, 1)
    BY <1>7 DEF Filled
  <2>2. song' = song
    BY DEF Filled
  <2> QED BY <1>1, <1>3, <1>5, <1>6, <1>7, <2>1, <2>2
<1> QED BY <1>4, <1>7

LEMMA PlayedFirstKeeps ==
  ASSUME QueueInv, UNCHANGED <<offline, full>>, NEW a \in asks, a.kind \in {"play", "transfer"},
         PlayedFirst(a)
  PROVE  Held' /\ song' \in AnySong /\ \A b \in asks' : Asked(b)
<1>1. full \in BOOLEAN /\ full' = full /\ Held /\ Asked(a) /\ original \in Seq(QEntry)
  BY DEF QueueInv, Settings, Held
<1>2. a.list \in Seq(QEntry) /\ a.about \in Ids(a.list) /\ a.about \in AnySong
  <2>1. a.list \in Seq(QEntry) /\ a.about \in Ids(a.list)
    BY <1>1 DEF Asked, Lookup
  <2>2. PICK k \in 1 .. Len(a.list) : a.list[k].id = a.about
    BY <2>1 DEF Ids
  <2>3. a.list[k] \in QEntry
    BY <2>1, <2>2
  <2> QED BY <2>1, <2>2, <2>3 DEF QEntry
<1>3. Held' /\ song' \in AnySong
  <2>1. CASE a.kind = "play"
    <3>1. PlayList(<<a.about>>, a.about)
      BY <2>1 DEF PlayedFirst
    <3>2. <<a.about>> \in Seq(AnySong) /\ <<a.about>> # <<>>
      BY <1>2
    <3> QED BY <1>1, <1>2, <3>1, <3>2, PlayListHeld
  <2>2. CASE a.kind # "play"
    <3>1. original' = original /\ song' = a.about /\ Set(<<Entry(a.about)>>, 1)
      BY <2>2 DEF PlayedFirst
    <3>2. queue' = <<Entry(a.about)>> /\ index' = 1 /\ Save(shuffle)
      BY <3>1 DEF Set
    <3>3. Entry(a.about) \in QEntry
      BY <1>2, EntryIs
    <3>4. queue' \in Seq(QEntry) /\ Len(queue') = 1
      BY <3>2, <3>3
    <3> QED BY <1>1, <1>2, <3>1, <3>2, <3>4, SetHeld
  <2> QED BY <2>1, <2>2
<1> DEFINE rest == [a EXCEPT !.kind = IF @ = "play" THEN "fill" ELSE "handed"]
<1>4. \A b \in asks' : b \in asks \/ b = rest
  BY DEF PlayedFirst
<1>5. Asked(rest)
  <2>1. a \in Lookup
    BY <1>1 DEF Asked
  <2>2. rest \in Lookup /\ rest.kind \in {"fill", "handed"} /\ rest.about = a.about /\ rest.list = a.list
    BY <2>1 DEF Lookup
  <2> HIDE DEF rest
  <2> QED BY <1>2, <2>2 DEF Asked
<1> HIDE DEF rest
<1> QED BY <1>3, <1>4, <1>5 DEF QueueInv

LEMMA AnswerKeeps ==
  ASSUME QueueInv, UNCHANGED <<offline, full>>, NEW a \in asks, Answer(a)
  PROVE  QueueInv'
<1>1. /\ full \in BOOLEAN /\ full' = full /\ Held /\ Asked(a)
      /\ shuffle' = shuffle /\ UNCHANGED <<repeat, extended>> /\ ctx' \in {NoSong, ctx}
  BY DEF QueueInv, Settings, Answer
<1>2. ASSUME Held', song' \in AnySong \cup {NoSong}, \A b \in asks' : Asked(b) PROVE QueueInv'
  BY <1>1, <1>2 DEF QueueInv, Settings
<1>3. song \in AnySong \cup {NoSong} /\ \A b \in asks \ {a} : Asked(b)
  BY DEF QueueInv, Settings
<1>4. CASE a.kind \in {"play", "transfer"} /\ PlayedFirst(a)
  BY <1>2, <1>4, PlayedFirstKeeps
<1>5. CASE a.kind \in {"fill", "handed"} /\ asks' = asks \ {a} /\ Filled(a)
  BY <1>1, <1>2, <1>3, <1>5, FilledHeld
<1>6. ASSUME asks' = asks \ {a}, NEW found \in Found, Continued(a, found) PROVE QueueInv'
  BY <1>2, <1>3, <1>6, ContinuedHeld
<1>7. ASSUME asks' = asks \ {a}, NEW found \in Found, Extended(a, found) PROVE QueueInv'
  BY <1>1, <1>2, <1>3, <1>7, ExtendedHeld
<1>8. ASSUME asks' = asks \ {a}, NEW found \in Found, a.kind = "blend", Blended(a, found) PROVE QueueInv'
  BY <1>1, <1>2, <1>3, <1>8, BlendedHeld
<1> QED BY <1>4, <1>5, <1>6, <1>7, <1>8 DEF Answer

-----------------------------------------------------------------------------

LEMMA QueueInitHolds == QueueInit => QueueInv
<1> SUFFICES ASSUME QueueInit PROVE QueueInv
  OBVIOUS
<1>1. offline \in BOOLEAN /\ full \in BOOLEAN
  <2>1. \A E : (IF E THEN BOOLEAN ELSE {FALSE}) \subseteq BOOLEAN
    OBVIOUS
  <2> QED BY <2>1 DEF QueueInit
<1>2. Held
  <2>1. queue = <<>> /\ original = <<>> /\ index = 0 /\ saved = [queue |-> <<>>, original |-> <<>>]
    BY DEF QueueInit
  <2> QED BY <2>1 DEF Held
<1>3. Settings /\ asks = {}
  BY <1>1 DEF QueueInit, Settings
<1> QED BY <1>2, <1>3 DEF QueueInv

LEMMA QueueStep == QueueInv /\ [QueueNext]_queueVars => QueueInv'
<1> SUFFICES ASSUME QueueInv, [QueueNext]_queueVars PROVE QueueInv'
  OBVIOUS
<1>1. CASE UNCHANGED queueVars
  BY <1>1 DEF queueVars, QueueInv, Held, Settings
<1>2. CASE QueueNext
  <2>1. UNCHANGED <<offline, full>>
    BY <1>2 DEF QueueNext
  <2>2. \/ PlayQueue \/ AddToQueue \/ Edit \/ Modes \/ Routed \/ ApplySession \/ Previous
        \/ LookOn \/ Reopen \/ Extend
        \/ (\E auto \in BOOLEAN : Advance(auto)) \/ (\E a \in asks : Answer(a))
    BY <1>2 DEF QueueNext, Act
  <2> QED BY <2>1, <2>2, PlayQueueKeeps, AddToQueueKeeps, EditKeeps, ModesKeeps, RoutedKeeps,
             ApplySessionKeeps, PreviousKeeps, LookOnKeeps, ReopenKeeps, ExtendKeeps,
             AdvanceKeeps, AnswerKeeps
<1> QED BY <1>1, <1>2

\* Types, and why: what is kept is the queue there is, storage permitting, and a
\* lookup under way holds what its answer will be measured against.
THEOREM QueueInvariant == QueueSpec => []QueueInv
<1> QED BY QueueInitHolds, QueueStep, PTL DEF QueueSpec

\* For any lists, songs and lookups under way, whatever was done to the queue
\* since they were asked: what is added to it later leaves it at its song.
THEOREM AnswersMoveNothing == QueueSpec => AnswersKeepSong
<1>1. ASSUME QueueInv, NEW a \in asks, a.kind \in {"extend", "blend", "fill", "handed"}, Answer(a)
      PROVE  Current' = Current
  <2>1. Held /\ Asked(a)
    BY <1>1 DEF QueueInv
  <2>2. \/ \E found \in Found : Extended(a, found)
        \/ a.kind = "blend" /\ \E found \in Found : Blended(a, found)
        \/ a.kind \in {"fill", "handed"} /\ Filled(a)
    BY <1>1 DEF Answer
  <2> QED BY <2>1, <2>2, ExtendedHeld, BlendedHeld, FilledHeld
<1>2. QueueInv => [\A a \in asks : a.kind \in {"extend", "blend", "fill", "handed"} /\ Answer(a)
                     => Current' = Current]_queueVars
  BY <1>1
<1> QED BY <1>2, QueueInvariant, PTL DEF AnswersKeepSong

\* For any queue: opened again, the page stands at the song it was closed on,
\* storage permitting.
THEOREM ReopenedAtSong == QueueSpec => RestoredSame
<1>1. ASSUME QueueInv, ~full, queue # <<>>, Reopen PROVE Current' = Current
  <2>1. /\ Held /\ saved.queue = queue /\ queue \in Seq(QEntry) /\ index \in 1 .. Len(queue)
        /\ Current = queue[index].id
    BY <1>1, CurrentIs DEF QueueInv, Held
  <2>2. Current \in Ids(queue)
    BY <2>1 DEF Ids
  <2>3. Set(queue, Place(queue, Current))
    BY <1>1, <2>1, <2>2 DEF Reopen
  <2>4. queue' = queue /\ index' = Place(queue, Current)
    BY <2>3 DEF Set
  <2>5. Place(queue, Current) \in 1 .. Len(queue) /\ queue[Place(queue, Current)].id = Current
    BY <1>1, <2>1, <2>2, PlaceIs
  <2>6. index' # 0
    BY <2>1, <2>4, <2>5
  <2> QED BY <2>4, <2>5, <2>6 DEF Current
<1>2. QueueInv => [~full /\ queue # <<>> /\ Reopen => Current' = Current]_queueVars
  BY <1>1
<1> QED BY <1>2, QueueInvariant, PTL DEF RestoredSame
=============================================================================
