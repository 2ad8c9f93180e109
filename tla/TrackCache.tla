----------------------------- MODULE TrackCache -----------------------------
(* Whole songs in the page's memory (web/src/player/trackCache.js), and the two
   effects of usePlayer.js that drive it: the song playing and the next one are
   asked for, held, a moment after a song starts, and again every two seconds
   while there is no room for more; the gate lets the downloads
   run while the song playing has buffer in hand and stops them when it runs
   short.  One song is downloaded at a time.                                 *)
EXTENDS Naturals, Sequences

CONSTANTS
  Queue,       \* the songs are 1..Queue, in the order they play
  OnDevice,    \* songs that need no download (offline/local.js)
  MaxTries,    \* straight failures before a song is given up (5)
  MaxMoves,    \* bound on what the listener and the link do
  Env          \* "skip", "stop", "short" (of buffer), "bytes" (a broken
               \* connection that brought some), "again" (the queue grows, a
               \* fade ends: the songs are asked for again while one plays)

VARIABLES
  wanted, order, ready, failed, held, paused,
  load,        \* the song downloading, where its download is, its failures
  cur, len,    \* the song playing, the songs queued
  playing,
  gate,        \* the buffer gate: off, shut, open
  due,         \* the preload timer: none, since the song started, set again
  retry,       \* the song the timer of two seconds is for (0: none)
  moves

vars == <<wanted, order, ready, failed, held, paused, load, cur, len, playing, gate, due, retry, moves>>

Songs == 1..Queue
NoLoad == [song |-> 0, at |-> "none", tries |-> 0]

TypeOK ==
  /\ wanted \subseteq Songs /\ ready \subseteq Songs /\ failed \subseteq Songs
  /\ order \in Seq(Songs) /\ held \in BOOLEAN /\ paused \in BOOLEAN
  /\ load \in [song : Songs, at : {"fetch", "wait", "sleep"}, tries : 0..MaxTries] \cup {NoLoad}
  /\ cur \in 1..len /\ len \in Songs /\ playing \in BOOLEAN
  /\ gate \in {"off", "shut", "open"} /\ due \in {"none", "start", "again"}
  /\ retry \in 0..Queue
  /\ moves \in 0..MaxMoves

Init ==
  /\ wanted = {} /\ order = <<>> /\ ready = {} /\ failed = {}
  /\ held = FALSE /\ paused = FALSE /\ load = NoLoad
  /\ cur = 1 /\ len \in {1, Queue}
  /\ playing = TRUE /\ gate = "shut" /\ due = "start" /\ retry = 0 /\ moves = 0

Move(kind) == kind \in Env /\ moves < MaxMoves /\ moves' = moves + 1

-----------------------------------------------------------------------------
(* The cache.                                                              *)

\* pump(): the first song asked for that is missing.
Pump(o, w, rd, fl, waits) ==
  LET missing == {i \in 1..Len(o) : o[i] \in w \ (rd \cup fl)}
      first   == CHOOSE i \in missing : \A k \in missing : i <= k
  IN IF waits \/ missing = {} THEN NoLoad
     ELSE [song |-> o[first], at |-> "fetch", tries |-> 0]

\* keep(tracks, {hold: true}): dropping the song under way pumps before the new
\* order and the hold are in force.
Keep ==
  LET ahead == IF cur < len THEN <<cur, cur + 1>> ELSE <<cur>>
      list  == SelectSeq(ahead, LAMBDA x : x \notin OnDevice)
      next  == {list[i] : i \in 1..Len(list)}
      fresh == failed \ (next \ wanted)
  IN /\ wanted' = next /\ order' = list /\ failed' = fresh /\ ready' = ready \cap next
     /\ held' = TRUE
     /\ load' = IF load.song \in next \cup {0} THEN load
                ELSE Pump(order, next, ready \cap next, fresh, held \/ paused)
     /\ UNCHANGED paused

\* A download in flight is cut, and goes on from its bytes at resume().
CachePause ==
  /\ paused' = TRUE
  /\ load' = IF load.at = "fetch" THEN [load EXCEPT !.at = "wait"] ELSE load
  /\ UNCHANGED <<wanted, order, ready, failed, held>>

CacheResume ==
  /\ held' = FALSE /\ paused' = FALSE
  /\ load' = IF load.at = "wait" THEN [load EXCEPT !.at = "fetch"]
             ELSE IF load = NoLoad THEN Pump(order, wanted, ready, failed, FALSE) ELSE load
  /\ UNCHANGED <<wanted, order, ready, failed>>

\* download() came to its end: the song is in, or it is not asked of the server
\* again; then the next one.
EndedAlone(whole) ==
  /\ ready' = IF whole THEN ready \cup {load.song} ELSE ready
  /\ failed' = IF whole THEN failed ELSE failed \cup {load.song}
  /\ order' = IF whole THEN order ELSE SelectSeq(order, LAMBDA x : x # load.song)
  /\ load' = NoLoad
  /\ UNCHANGED <<wanted, held, paused>>

Ended(whole) ==
  /\ ready' = IF whole THEN ready \cup {load.song} ELSE ready
  /\ failed' = IF whole THEN failed ELSE failed \cup {load.song}
  /\ order' = IF whole THEN order ELSE SelectSeq(order, LAMBDA x : x # load.song)
  /\ load' = Pump(order', wanted, ready', failed', held \/ paused)
  /\ UNCHANGED <<wanted, held, paused>>

Whole == load.at = "fetch" /\ Ended(TRUE) /\ UNCHANGED <<cur, len, playing, gate, due, retry, moves>>

\* 404, or one failure too many.
GiveUp ==
  /\ load.at = "fetch" /\ Ended(FALSE)
  /\ UNCHANGED <<cur, len, playing, gate, due, retry, moves>>

\* Cut with nothing new, or with some: the failures count from the last bytes.
Cut ==
  /\ load.at = "fetch"
  /\ \/ load.tries + 1 < MaxTries /\ load' = [load EXCEPT !.at = "sleep", !.tries = @ + 1]
        /\ UNCHANGED moves
     \/ Move("bytes") /\ load' = [load EXCEPT !.at = "sleep", !.tries = 1]
  /\ UNCHANGED <<wanted, order, ready, failed, held, paused, cur, len, playing, gate, due, retry>>

Wake ==
  /\ load.at = "sleep"
  /\ load' = [load EXCEPT !.at = IF paused THEN "wait" ELSE "fetch"]
  /\ UNCHANGED <<wanted, order, ready, failed, held, paused, cur, len, playing, gate, due, retry, moves>>

-----------------------------------------------------------------------------
(* The player.                                                             *)

\* Room for more is up to the buffer, and certain with the song playing at hand
\* or none to follow; without it, all of it again in two seconds.
NoRoom == cur < len /\ cur \notin ready \cup OnDevice

\* The preload timer, 1.5 s after the song started or the queue grew.
Preload ==
  /\ playing /\ due # "none" /\ Keep /\ due' = "none"
  /\ UNCHANGED retry \/ (NoRoom /\ retry' = cur)
  /\ UNCHANGED <<cur, len, playing, gate, moves>>

\* The timer of two seconds: nothing stops it, and it does nothing for a song
\* that is not the one playing any more.
Retry ==
  /\ retry # 0
  /\ IF retry = cur /\ playing
     THEN Keep /\ (retry' = 0 \/ (NoRoom /\ retry' = cur))
     ELSE retry' = 0 /\ UNCHANGED <<wanted, order, ready, failed, held, paused, load>>
  /\ UNCHANGED <<cur, len, playing, gate, due, moves>>

\* The gate's tick: first at 3 s, so after the preload of the song.
Open ==
  /\ gate = "shut" /\ due # "start"
  /\ CacheResume /\ gate' = "open"
  /\ UNCHANGED <<cur, len, playing, due, retry, moves>>

Shut ==
  /\ Move("short") /\ gate = "open" /\ cur \notin ready \cup OnDevice
  /\ CachePause /\ gate' = "shut"
  /\ UNCHANGED <<cur, len, playing, due, retry>>

\* Another song, or play and pause: both effects start over.
Skip ==
  /\ Move("skip")
  /\ cur' \in 1..len \ {cur}
  /\ gate' = (IF playing THEN "shut" ELSE "off") /\ due' = (IF playing THEN "start" ELSE "none")
  /\ UNCHANGED <<wanted, order, ready, failed, held, paused, load, len, playing, retry>>

Toggle ==
  /\ Move("stop")
  /\ playing' = ~playing
  /\ gate' = (IF playing THEN "off" ELSE "shut") /\ due' = (IF playing THEN "none" ELSE "start")
  /\ UNCHANGED <<wanted, order, ready, failed, held, paused, load, cur, len, retry>>

\* The queue grew or a fade ended: asked for again, the gate left as it is.
Again ==
  /\ Move("again") /\ playing
  /\ len' \in {len, Queue}
  /\ due' = IF due = "start" THEN due ELSE "again"
  /\ UNCHANGED <<wanted, order, ready, failed, held, paused, load, cur, playing, gate, retry>>

Download == Whole \/ GiveUp \/ Cut \/ Wake
Next == Download \/ Preload \/ Retry \/ Open \/ Shut \/ Skip \/ Toggle \/ Again

\* The timers fire, the song playing gets its buffer, and a connection that is
\* tried again and again ends or breaks.
Fairness == WF_vars(Download) /\ WF_vars(Preload) /\ WF_vars(Retry) /\ WF_vars(Open)
FairSpec == Init /\ [][Next]_vars /\ Fairness

-----------------------------------------------------------------------------
(* Properties.                                                             *)

\* trackCache.js:10: "Kept to the few tracks asked for; everything else is
\* released", the song a download is under way for too, and nothing runs while
\* the song playing is short of buffer.
Bounded ==
  /\ ready \cup ({load.song} \ {0}) \subseteq wanted
  /\ paused => load.at # "fetch"

\* usePlayer.js:2128: "this song, then the next": the song playing and the next
\* are in memory in the end, or given up; or they are held, asked for again after
\* the gate opened, which does not open twice.
Fetched ==
  <>[](playing => \/ {cur, cur + 1} \cap 1..len \subseteq ready \cup failed \cup OnDevice
                  \/ held /\ gate = "open")
=============================================================================
