------------------------------ MODULE MCServer ------------------------------
(* What the server does by itself, side by side: the chores; an album whose
   songs go and come back; a song's file as it is upgraded and moved; the drop
   folder, beside an upgrade and beside an owner who removes files; the lyrics
   that are lined up; the wanted list.  One of them (`part`) moves, so that the
   components' states are never multiplied.                                 *)
EXTENDS Chores, Lyrics, Downloads, TLC
CONSTANTS
  sweep, enrich, upgrade, fetch,           \* chores
  xm, xf, ym, zm, mp3, flac, other,        \* files and recordings
  came, bare,                              \* songs with lyrics
  album                                    \* on the wanted list

VARIABLES
  part,
  nas, drop, row, likes, lyrics, heads, gone, ingested, journal, scan, up, ing, acts   \* library

library == <<nas, drop, row, likes, lyrics, heads, gone, ingested, journal, scan, up, ing, acts>>

\* Three days of two units; a chore of each day that is watched too, and two by
\* the clock in the line, one beside it.
Order     == <<sweep, enrich, upgrade, fetch>>
Schedules == [t \in {sweep, enrich, upgrade, fetch} |->
                IF t = sweep THEN {"daily", "watch"} ELSE {"interval"}]
Starts    == <<0, 2, 4>>
Daily     == <<1, 3, 5>>

\* One song, as a lossy file and as the FLAC that takes its place beside it, a
\* folder to move to; and, of another song, a file in the same folder.
Files      == {xm, xf, ym, zm}
Recordings == {mp3, flac, other}
Folder     == [p \in Files |-> IF p = zm THEN "d2" ELSE "d1"]
Flac       == [p \in Files |-> IF p = xm THEN xf ELSE p]
Song       == [a \in Recordings |-> IF a = other THEN "T" ELSE "S"]

Single == [p \in Files |-> IF p = xm THEN mp3 ELSE None]
Album  == [p \in Files |-> CASE p = xm -> mp3 [] p = ym -> other [] OTHER -> None]

\* The songs whose files may come: the album's elsewhere; the song's anywhere
\* but at the other's; and to its own place, by the drop folder.
Returned == [p \in Files |-> IF p = zm THEN {"S"} ELSE {}]
OneSong  == [p \in Files |-> IF p = ym THEN {} ELSE {"S"}]
Landing  == [p \in Files |-> IF p \in {ym, zm} THEN {} ELSE {"S"}]

Going    == {"files", "remove", "like", "forget"}
Anything == {"files", "remove", "move", "like", "forget", "upgrade", "damaged", "crash", "sidecar"}
Dropped  == {"drop", "like", "upgrade", "crash"}
Removed  == {"drop", "remove", "nas"}

A == INSTANCE Library WITH
  Paths <- Files, DirOf <- Folder, FlacOf <- Flac, Audio <- Recordings, SongOf <- Song, Lossy <- {mp3},
  ops <- acts, Holds <- Returned, Shelved <- Album, MaxOps <- 5, Env <- Going
L == INSTANCE Library WITH
  Paths <- Files, DirOf <- Folder, FlacOf <- Flac, Audio <- Recordings, SongOf <- Song, Lossy <- {mp3},
  ops <- acts, Holds <- OneSong, Shelved <- Single, MaxOps <- 4, Env <- Anything
D == INSTANCE Library WITH
  Paths <- Files, DirOf <- Folder, FlacOf <- Flac, Audio <- Recordings, SongOf <- Song, Lossy <- {mp3},
  ops <- acts, Holds <- Landing, Shelved <- Single, MaxOps <- 4, Env <- Dropped
R == INSTANCE Library WITH
  Paths <- Files, DirOf <- Folder, FlacOf <- Flac, Audio <- Recordings, SongOf <- Song, Lossy <- {mp3},
  ops <- acts, Holds <- Landing, Shelved <- Single, MaxOps <- 4, Env <- Removed

\* A component that never moves is left out of the state, but for what the
\* properties of all the parts look at.
LyricsOut ==
  /\ lrc = [x \in Songs |-> IF x \in Came THEN "own" ELSE None] /\ keep = [x \in Songs |-> None]
  /\ text = 0 /\ align = 0 /\ job = 0 /\ line = 0 /\ task = 0 /\ undo = 0
  /\ due = 0 /\ asks = 0 /\ turns = 0
DownloadsOut ==
  /\ lidarr = [a \in Albums |-> [wanted |-> FALSE, done |-> 0, own |-> FALSE]]
  /\ clock = 0 /\ searched = 0 /\ watch = 0 /\ asking = 0 /\ wishes = 0 /\ pass = 0 /\ moved = 0

TogetherInit ==
  /\ part \in {"chores", "album", "library", "drop", "removed", "lyrics", "downloads"}
  /\ Init /\ (part # "chores" => sched[sweep] = "daily")
  /\ IF part = "album" THEN A!Init ELSE L!Init
  /\ part \notin {"album", "library", "drop", "removed"} => lyrics = {}
  /\ IF part = "lyrics" THEN LyricsInit ELSE LyricsOut
  /\ IF part = "downloads" THEN WatchInit ELSE DownloadsOut

TogetherNext ==
  \/ part = "chores"    /\ Next   /\ UNCHANGED <<part, library, lyricsVars, watchVars>>
  \/ part = "album"     /\ A!Next /\ UNCHANGED <<part, vars, lyricsVars, watchVars>>
  \/ part = "library"   /\ L!Next /\ UNCHANGED <<part, vars, lyricsVars, watchVars>>
  \/ part = "drop"      /\ D!Next /\ UNCHANGED <<part, vars, lyricsVars, watchVars>>
  \/ part = "removed"   /\ R!Next /\ UNCHANGED <<part, vars, lyricsVars, watchVars>>
  \/ part = "lyrics"    /\ LyricsNext /\ UNCHANGED <<part, vars, library, watchVars>>
  \/ part = "downloads" /\ WatchNext /\ UNCHANGED <<part, vars, library, lyricsVars>>

Together == TogetherInit /\ [][TogetherNext]_<<part, vars, library, lyricsVars, watchVars>>

\* The variables of the component that moves keep their types.
TypesOK ==
  /\ TypeOK
  /\ part = "album"     => A!TypeOK
  /\ part \in {"library", "drop", "removed"} => L!TypeOK
  /\ part = "lyrics"    => LyricsTypeOK
  /\ part = "downloads" => WatchTypeOK

\* Library: it implements the shelf, and no last copy is cleared away.
KeepsLikes    == A!KeepsLikes
NeverLastCopy == A!NeverLastCopy
=============================================================================
