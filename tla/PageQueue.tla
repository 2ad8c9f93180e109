----------------------------- MODULE PageQueue -----------------------------
(* The queue of a page that plays (web/src/player/usePlayer.js): what is played
   next, in what order, and what is left of it after a reload.  Songs to add are
   looked up on the server, and an answer arrives when the queue may have been
   changed, or replaced: every lookup under way is kept in `asks`.

   A start takes effect at once here (PageSound has its awaits); a page that
   mirrors another player sends that player the command instead, which runs the
   operations below over there.                                              *)
EXTENDS Naturals, FiniteSets, SequencesExt

CONSTANTS
  Lists,   \* the lists of songs that can be played: sequences without repeats
  Similar, \* the songs a lookup of similar songs may find
  Kept,    \* the downloaded songs
  NoSong,
  MaxActs,  \* bound on what is done to the queue
  MaxLen,  \* bound on the length of the queue when songs are added
  MaxAsks, \* bound on the lookups under way
  QueueEnv      \* what may be done: "edit", "modes", "routed" commands, "blend",
           \* "reload", and browsers that are "offline" or have little "storage"

VARIABLES
  queue,     \* queueRef: entries [id, mark]
  index,     \* indexRef + 1; 0 with no queue
  original,  \* originalQueueRef: the order shuffle goes back to
  shuffle, repeat,
  ctx,       \* what is played from: an album or playlist, an artist's page, or NoSong
  song,      \* the song that was started last, NoSong once it stopped
  asks,      \* the lookups under way
  extended,  \* extendedForRef
  saved,     \* the queue in the browser's storage
  offline, full, \* no network; a storage too small for a queue
  ops        \* what was done so far

queueVars == <<queue, index, original, shuffle, repeat, ctx, song, asks, extended, saved,
               offline, full, ops>>

ASSUME QueueAssumption == \A l \in Lists : l \in Seq({l[k] : k \in DOMAIN l})

Entry(id)    == [id |-> id, mark |-> "own"]
Entries(ids) == [k \in DOMAIN ids |-> Entry(ids[k])]
Ids(q)       == {q[k].id : k \in DOMAIN q}
Listed       == UNION {{l[k] : k \in DOMAIN l} : l \in Lists}
AnySong      == Listed \cup Similar
Current      == IF index = 0 THEN NoSong ELSE queue[index].id
Place(q, id) == IF \E k \in DOMAIN q : q[k].id = id
                THEN CHOOSE k \in DOMAIN q : q[k].id = id /\ \A j \in 1 .. k - 1 : q[j].id # id
                ELSE 1

\* The entries of q at some of its places: in their order, or in any.
InOrder(K)    == {o \in SetToSeqs(K) : \A i, j \in DOMAIN o : i < j => o[i] < o[j]}
Picked(q, o)  == [k \in DOMAIN o |-> q[o[k]]]
Others(q, id) == {k \in DOMAIN q : q[k].id # id}

\* shuffled.
Shuffled(q, K) == {Picked(q, o) : o \in SetToSeqs(K)}

QueueInit ==
  /\ queue = <<>> /\ index = 0 /\ original = <<>>
  /\ shuffle = "off" /\ repeat = "off" /\ ctx = NoSong /\ song = NoSong
  /\ asks = {} /\ extended = NoSong /\ saved = [queue |-> <<>>, original |-> <<>>]
  /\ offline \in IF "offline" \in QueueEnv THEN BOOLEAN ELSE {FALSE}
  /\ full \in IF "storage" \in QueueEnv THEN BOOLEAN ELSE {FALSE}
  /\ ops = 0

\* Were only the order that shuffle plays saved once, when nothing was yet:
SaveOnce(mode) ==
  saved' = IF saved.queue # <<>> THEN saved
           ELSE [queue |-> queue', original |-> IF mode = "off" THEN <<>> ELSE original']

\* saveQueue, run whenever the queue is set: all of it, or, if that is more than
\* the storage takes, the song it stands at; an empty queue is not saved.
Save(mode) ==
  saved' = IF queue' = <<>> THEN saved
           ELSE IF full THEN [queue |-> <<queue'[index']>>, original |-> <<>>]
           ELSE [queue |-> queue', original |-> IF mode = "off" THEN <<>> ELSE original']

Set(q, i) == queue' = q /\ index' = i /\ Save(shuffle)
Stay      == UNCHANGED <<queue, index, saved>>

Counted == ops < MaxActs /\ ops' = ops + 1

Ask(kind, about, list) == [kind |-> kind, about |-> about, list |-> list]
Asking(a) == Cardinality(asks) < MaxAsks /\ asks' = asks \cup {a}

(* playQueue: offline only what is downloaded; with shuffle on the chosen song
   first and the rest scrambled.                                             *)
Playable(list) == {k \in DOMAIN list : offline => list[k] \in Kept}

PlayList(list, id) ==
  LET tracks == Entries(list) IN
  /\ original' = tracks /\ song' = id
  /\ \/ (shuffle = "off" \/ Len(list) = 1) /\ Set(tracks, Place(tracks, id))
     \/ /\ shuffle # "off" /\ Len(list) > 1
        /\ \E rest \in Shuffled(tracks, Others(tracks, id)) : Set(<<Entry(id)>> \o rest, 1)

PlayQueue ==
  /\ shuffle' = shuffle
  /\ \E list \in Lists : \E k \in Playable(list), o \in InOrder(Playable(list)) :
       PlayList(Picked(list, o), list[k])
  /\ ctx' \in {NoSong, "album", "artist"}
  /\ UNCHANGED <<repeat, asks, extended>>

(* Editing the queue.                                                        *)
QueuedFrom(i) == CHOOSE n \in i .. Len(queue) :
  /\ \A k \in i + 1 .. n : queue[k].mark = "queued"
  /\ n < Len(queue) => queue[n + 1].mark # "queued"

AddToQueue ==
  \E id \in AnySong :
    /\ Len(queue) < MaxLen
    /\ shuffle' = shuffle
    /\ \/ /\ queue = <<>> /\ original' = <<Entry(id)>> /\ song' = NoSong
          /\ Set(<<Entry(id)>>, 1)
       \/ /\ queue # <<>> /\ song' = song
          /\ LET at == QueuedFrom(index)
                 e  == [id |-> id, mark |-> "queued"]
             IN /\ original' = Append(original, e)
                /\ Set(InsertAt(queue, at + 1, e), index)
    /\ UNCHANGED <<repeat, ctx, asks, extended>>
Edit ==
  /\ "edit" \in QueueEnv /\ queue # <<>>
  /\ UNCHANGED <<original, shuffle, repeat, ctx, song, asks, extended>>
  /\ \/ \E k \in DOMAIN queue \ {index} :                                 \* removeFromQueue
          Set(RemoveAt(queue, k), IF k < index THEN index - 1 ELSE index)
     \/ \E from, to \in index + 1 .. Len(queue) :                         \* moveInQueue
          from # to /\ Set(InsertAt(RemoveAt(queue, from), to, queue[from]), index)
     \/ /\ \E k \in index + 1 .. Len(queue) : queue[k].mark = "queued"    \* clearQueued
        /\ \E o \in InOrder({k \in DOMAIN queue : k <= index \/ queue[k].mark # "queued"}) :
             Set(Picked(queue, o), index)

(* skipTo: past the end it parks on the last song, stopped.                  *)
SkipIn(q, i) ==
  LET at == IF i < 1 THEN 1 ELSE i IN
  IF at > Len(q) THEN index' = Len(q) /\ song' = NoSong
                 ELSE index' = at /\ song' = q[at].id

Skip(i) == SkipIn(queue, i) /\ UNCHANGED <<queue, original, saved>>

SkipSet(q, i) == queue' = q /\ SkipIn(q, i) /\ Save(shuffle)

\* restart: with shuffle on a fresh order, never opening on the song just played,
\* and without what was added by hand; where all of it was, nothing is left.
Restart ==
  \/ (shuffle = "off" \/ Len(queue) < 2) /\ Skip(1)
  \/ /\ shuffle # "off" /\ Len(queue) > 1
     /\ LET base == IF original = <<>> THEN queue ELSE original IN
        \E o \in Shuffled(base, {k \in DOMAIN base : base[k].mark # "queued"}) :
          LET again == Len(o) > 1 /\ o[1].id = Current IN
          UNCHANGED original /\ SkipSet(IF again THEN Append(Tail(o), Head(o)) ELSE o, 1)

\* The sleep timer's end of track, and the end of the downloads when offline.
StopAt(i) == index' = i /\ song' = NoSong /\ UNCHANGED <<queue, original, saved>>

KeptAfter(i) == {k \in i + 1 .. Len(queue) : queue[k].id \in Kept}
First(S) == CHOOSE k \in S : \A j \in S : k <= j

AtEnd == index = Len(queue) /\ repeat = "off"

Advance(auto) ==
  /\ queue # <<>>
  /\ \/ auto /\ StopAt(IF index < Len(queue) THEN index + 1
                       ELSE IF repeat = "all" THEN 1 ELSE index)
     \/ /\ offline
        /\ IF auto /\ repeat = "one" /\ Current \in Kept THEN Skip(index)
           ELSE IF KeptAfter(index) # {} THEN Skip(First(KeptAfter(index)))
           ELSE IF repeat = "all" /\ KeptAfter(0) # {} THEN Skip(First(KeptAfter(0)))
           ELSE StopAt(index)
     \/ /\ ~offline /\ ~AtEnd
        /\ IF auto /\ repeat = "one" THEN Skip(index)
           ELSE IF index < Len(queue) THEN Skip(index + 1)
           ELSE IF repeat = "all" THEN Restart
           ELSE Skip(index)
  /\ UNCHANGED <<shuffle, repeat, ctx, extended, asks>>

\* At the end the music goes on: more of the artist, or songs like this one; and
\* when none is found, the album or playlist from its start.
LookOn ==
  /\ queue # <<>> /\ ~offline /\ AtEnd
  /\ Asking(Ask(CASE ctx = "artist" -> "artist" [] ctx = NoSong -> "more" [] OTHER -> "again",
                Current, queue))
  /\ Stay /\ UNCHANGED <<original, song, shuffle, repeat, ctx, extended>>

\* previous: this song again, or the one before (the downloaded one before).
Previous ==
  /\ queue # <<>>
  /\ \/ Skip(index)
     \/ LET before == {k \in 1 .. index - 1 : ~offline \/ queue[k].id \in Kept} IN
        Skip(IF before # {} THEN CHOOSE k \in before : \A j \in before : j <= k
             ELSE IF offline THEN index ELSE 1)
  /\ UNCHANGED <<shuffle, repeat, ctx, extended, asks>>

(* Shuffle and repeat.                                                       *)
SetShuffle(mode) ==
  /\ shuffle' = mode
  /\ asks' = IF mode = "smart" /\ shuffle # "smart" /\ Len(queue') - index' >= 3
             THEN asks \cup {Ask("blend", Current, queue')} ELSE asks
  /\ UNCHANGED <<repeat, ctx, song, extended>>

ShuffleTo(mode) ==
  /\ "modes" \in QueueEnv /\ queue # <<>> /\ mode # shuffle
  /\ \/ /\ mode # "off"
        /\ original' = IF shuffle = "off" THEN queue ELSE original
        /\ \E rest \in Shuffled(queue, Others(queue, Current)) :
             queue' = <<queue[index]>> \o rest /\ index' = 1
     \/ /\ mode = "off" /\ UNCHANGED original
        /\ queue' = IF original = <<>> THEN queue ELSE original
        /\ index' = Place(queue', Current)
  /\ SetShuffle(mode)
  /\ Save(mode)

Modes ==
  \/ \E mode \in {"off", "on", "smart"} : ShuffleTo(mode)
  \/ /\ "modes" \in QueueEnv /\ repeat' \in {"off", "all", "one"} \ {repeat}
     /\ Stay /\ UNCHANGED <<original, shuffle, ctx, song, asks, extended>>

(* Commands of another client: a list to play, or a queue handed over.  The
   chosen song is fetched and played on its own, the rest filled in after.   *)
Routed ==
  /\ "routed" \in QueueEnv /\ ~offline
  /\ \E list \in Lists : \E k \in DOMAIN list : \E kind \in {"play", "transfer"} :
       Asking(Ask(kind, list[k], Entries(list)))
  /\ Stay /\ UNCHANGED <<original, shuffle, repeat, ctx, song, extended>>

\* A session whose player is gone, found while nothing plays here.
ApplySession ==
  /\ "routed" \in QueueEnv /\ ~offline /\ song = NoSong
  /\ \E list \in Lists : \E id \in AnySong :
       LET q == Entries(IF \E k \in DOMAIN list : list[k] = id THEN list ELSE <<id>>) IN
       /\ original' = q /\ shuffle' \in {shuffle, "off", "on"} /\ repeat' \in {repeat, "off"}
       /\ queue' = q /\ index' = Place(q, id) /\ Save(shuffle')
  /\ UNCHANGED <<ctx, song, asks, extended>>

\* Two songs before the end, what comes after it is looked up.
Extend ==
  /\ queue # <<>> /\ Len(queue) - index <= 1 /\ repeat = "off" /\ ~offline
  /\ ctx # "artist" /\ extended # queue[Len(queue)].id
  /\ extended' = queue[Len(queue)].id
  /\ Asking(Ask("extend", extended', <<>>))
  /\ Stay /\ UNCHANGED <<original, shuffle, repeat, ctx, song>>

(* The answers.                                                              *)
New(found, ids) == IF Ids(found) \subseteq ids THEN <<>> ELSE found

\* smartNext and moreOfArtist: append what was found, and on to the next song;
\* nothing found, the queue starts over (or stops).
Continued(a, found) ==
  LET new  == New(found, Ids(a.list))
      pick == IF new # <<>> \/ a.kind = "artist" THEN new
              ELSE New(found, {a.about})
  IN IF pick # <<>>
     THEN /\ original' = IF a.kind = "artist" THEN original \o pick ELSE original
          /\ SkipSet(queue \o pick, index + 1)
     ELSE CASE a.kind = "artist" -> Restart
            [] a.kind = "again" -> Skip(1)
            [] OTHER -> Skip(Len(queue) + 1)

Extended(a, found) ==
  /\ UNCHANGED <<original, song>>
  /\ IF queue # <<>> /\ queue[Len(queue)].id = a.about /\ New(found, Ids(queue)) # <<>>
     THEN Set(queue \o New(found, Ids(queue)), index) ELSE Stay

\* A pick behind every third of the songs to come; the first stands for them.
Blended(a, found) ==
  /\ UNCHANGED <<original, song>>
  /\ IF New(found, Ids(a.list)) # <<>> /\ shuffle = "smart" /\ queue = a.list /\ Current = a.about
     THEN Set(InsertAt(queue, index + 4, [Head(found) EXCEPT !.mark = "rec"]), index) ELSE Stay

PlayedFirst(a) ==
  /\ IF a.kind = "play" THEN PlayList(<<a.about>>, a.about)
     ELSE UNCHANGED original /\ song' = a.about /\ Set(<<Entry(a.about)>>, 1)
  /\ asks' = (asks \ {a}) \cup
             IF Len(a.list) = 1 THEN {} ELSE {[a EXCEPT !.kind = IF @ = "play" THEN "fill" ELSE "handed"]}
\* Were a list filled in whatever plays by then:
FilledAnyway(a) ==
  /\ song' = song
  /\ \/ a.kind = "handed" /\ UNCHANGED original /\ Set(a.list, Place(a.list, a.about))
     \/ a.kind # "handed" /\ original' = a.list /\ Set(a.list, Place(a.list, a.about))

Filled(a) ==
  /\ song' = song
  /\ \/ Current # a.about /\ Stay /\ UNCHANGED original
     \/ /\ Current = a.about /\ a.kind = "handed"
        /\ UNCHANGED original /\ Set(a.list, Place(a.list, a.about))
     \/ /\ Current = a.about /\ a.kind # "handed" /\ original' = a.list
        /\ \/ shuffle = "off" /\ Set(a.list, Place(a.list, a.about))
           \/ /\ shuffle # "off"
              /\ \E rest \in Shuffled(a.list, Others(a.list, a.about)) :
                   Set(<<Entry(a.about)>> \o rest, 1)

\* A lookup finds a song or none.
Found == {<<>>} \cup {<<Entry(id)>> : id \in Similar}

Answer(a) ==
  /\ shuffle' = shuffle
  /\ \/ /\ a.kind \in {"more", "again", "artist", "extend", "blend"} /\ asks' = asks \ {a}
        /\ Len(queue) < MaxLen
        /\ \E found \in Found :
             \/ a.kind \in {"more", "again", "artist"} /\ Continued(a, found)
             \/ a.kind = "extend" /\ Extended(a, found)
             \/ a.kind = "blend" /\ Blended(a, found)
     \/ a.kind \in {"play", "transfer"} /\ PlayedFirst(a)
     \/ a.kind \in {"fill", "handed"} /\ asks' = asks \ {a} /\ Filled(a)
  /\ ctx' = IF a.kind \in {"play", "transfer"} THEN NoSong ELSE ctx
  /\ UNCHANGED <<repeat, extended>>

(* The page is closed and opened again: the saved queue, at the song the playhead
   was saved with, paused.  What was looked up is lost.                      *)
Reopen ==
  /\ "reload" \in QueueEnv /\ saved.queue # <<>>
  /\ LET q == saved.queue IN
     /\ original' = IF saved.original = <<>> THEN q ELSE saved.original
     /\ shuffle' = shuffle
     /\ \E at \in DOMAIN q :
          /\ queue # <<>> => at = IF Current \in Ids(q) THEN Place(q, Current)
                                 ELSE IF index <= Len(q) THEN index ELSE Len(q)
          /\ Set(q, at)
  /\ song' = NoSong /\ asks' = {} /\ extended' = NoSong
  /\ UNCHANGED <<repeat, ctx>>

Act ==
  \/ PlayQueue \/ AddToQueue \/ Edit \/ Modes \/ Routed \/ ApplySession \/ Previous
  \/ LookOn \/ Reopen
  \/ \E auto \in BOOLEAN : Advance(auto)

QueueNext ==
  \/ Counted /\ Act /\ UNCHANGED <<offline, full>>
  \/ (Extend \/ \E a \in asks : Answer(a)) /\ UNCHANGED <<offline, full, ops>>

QueueSpec == QueueInit /\ [][QueueNext]_queueVars
-----------------------------------------------------------------------------
QueueTypeOK ==
  /\ \A k \in DOMAIN queue : queue[k] \in [id : AnySong, mark : {"own", "queued", "rec"}]
  /\ index \in 0 .. Len(queue) /\ (index = 0 <=> queue = <<>>)
  /\ shuffle \in {"off", "on", "smart"} /\ repeat \in {"off", "all", "one"}
  /\ ctx \in {NoSong, "album", "artist"} /\ song \in AnySong \cup {NoSong}
  /\ extended \in AnySong \cup {NoSong} /\ offline \in BOOLEAN /\ full \in BOOLEAN

\* Songs that arrive later - what comes after the end, smart shuffle's picks, the
\* rest of a list another client sent - never move the queue off the song it
\* stands at, whatever was done while they were looked up.
AnswersKeepSong ==
  [][\A a \in asks : a.kind \in {"extend", "blend", "fill", "handed"} /\ Answer(a)
       => Current' = Current]_queueVars

\* A page opened again shows the song it was closed on, in storage enough for a
\* queue.
RestoredSame == [][~full /\ queue # <<>> /\ Reopen => Current' = Current]_queueVars
=============================================================================
