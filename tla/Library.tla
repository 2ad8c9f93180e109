------------------------------ MODULE Library ------------------------------
(* The music library on the server: the files on the NAS, the rows of the
   database, and what writes both.  scanner.ts reads the files in (a full
   scan, a scan of one folder, a scan of just-copied files), remap.ts moves a
   listener's likes and lyrics when a song's file is replaced, tasks.ts swaps
   lossy files for FLACs with a journal, ingest.ts takes what lands in the
   drop folder to the NAS.  They all run beside each other and the process may
   die between any two steps.

   A track's id is the hash of its audio, so an id and the audio it stands for
   are one element of Audio.  SongOf says which song a recording is of: what
   title, artist and length tell remap.ts.  One account's likes stand for
   everything keyed by a track id (likes, playlist places, plays).          *)
EXTENDS Integers, FiniteSetsExt

CONSTANTS
  Paths, DirOf, FlacOf,   \* files below MUSIC_DIR, their folder, their .flac name
  Audio, SongOf, Lossy,   \* recordings, their song, the ones not FLAC
  None,
  Holds,                  \* the songs whose files may come to be at a path
  Shelved,                \* the files a run starts with, already in the library
  MaxOps,                 \* bound: what happens from outside (files, likes, tasks)
  Env                     \* which of it happens

Scans == {"full", "folder", "ingest"}
Dirs  == {DirOf[p] : p \in Paths}

VARIABLES
  nas, drop,      \* the files: path -> recording
  row,            \* tracks: id -> path
  likes, lyrics, heads,   \* ids with a like, a lyrics row, a head
  gone,           \* gone_tracks: id -> did it take lyrics along, or None
  ingested,       \* ingested: path -> the recording known to be on the NAS
  journal,        \* kv task:flac:journal
  scan,           \* the scans in progress
  up,             \* the FLAC upgrade task
  ing,            \* the ingest's sweep, one folder at a time
  ops

files == <<nas, drop>>
db    == <<row, likes, lyrics, heads, gone, ingested, journal>>
vars  == <<nas, drop, row, likes, lyrics, heads, gone, ingested, journal, scan, up, ing, ops>>

Entry == [old : Audio, new : Paths, lyr : BOOLEAN]
NoScan == [pc |-> "idle", known |-> [p \in Paths |-> None], scope |-> {}, dirs |-> {}, todo |-> {},
           seen |-> {}, seenIds |-> {}, newIds |-> {}, errors |-> FALSE, hand |-> None]
NoUp   == [pc |-> "idle", todo |-> {}, entry |-> None, path |-> None]
NoIng  == [pc |-> "idle", dir |-> None, left |-> {}, kept |-> {}, fresh |-> {}]

Init ==
  /\ nas = Shelved /\ drop = [p \in Paths |-> None]
  /\ row \in [Audio -> Paths \cup {None}]
  /\ \A a \in Audio : LET ps == {p \in Paths : Shelved[p] = a}
                       IN  IF ps = {} THEN row[a] = None ELSE row[a] \in ps
  /\ heads = {a \in Audio : row[a] # None} /\ lyrics \in SUBSET heads
  /\ likes = {}
  /\ gone = [a \in Audio |-> None]
  /\ ingested = [p \in Paths |-> None]
  /\ journal = {} /\ scan = [s \in Scans |-> NoScan] /\ up = NoUp /\ ing = NoIng
  /\ ops = 0

Here      == {a \in Audio : row[a] # None}
At(p)     == {a \in Audio : row[a] = p}

---------------------------------------------------------------------------
(* remap.ts, on a record of what it changes.                                *)
Traces == [row |-> row, likes |-> likes, lyrics |-> lyrics, heads |-> heads, gone |-> gone]

\* What is under the old id moves to the new one unless it has its own; the
\* rest, and the old bytes' head, goes.
Remapped(t, old, new) ==
  IF old = new THEN t
  ELSE LET move(S) == IF old \in S THEN (S \ {old}) \cup {new} ELSE S
       IN  [t EXCEPT !.likes = move(@), !.lyrics = move(@), !.heads = @ \ {old}]

\* The only other recording of the song, else nothing.
Replacement(t, a, exclude) ==
  LET c == {b \in Audio : t.row[b] # None /\ b # a /\ SongOf[b] = SongOf[a]} \ exclude
  IN  IF Cardinality(c) = 1 THEN CHOOSE b \in c : TRUE ELSE None
\* Were what has no replacement not remembered:
RetiredForGood(t, a, exclude) ==
  LET to == Replacement(t, a, exclude)
      u  == IF t.row[a] # None /\ to # None THEN Remapped(t, a, to) ELSE t
  IN  [u EXCEPT !.row[a] = None, !.lyrics = @ \ {a}]

\* A track leaves: its traces go to the replacement, or are remembered.  The
\* row goes and its lyrics with it.
Retired(t, a, exclude) ==
  LET to == Replacement(t, a, exclude)
      u  == IF t.row[a] = None THEN t
            ELSE IF to # None THEN Remapped(t, a, to)
            ELSE IF a \in t.likes \cup t.lyrics THEN [t EXCEPT !.gone[a] = (a \in t.lyrics)]
            ELSE t
  IN  [u EXCEPT !.row[a] = None, !.lyrics = @ \ {a}]

RetiredAll(t, S, exclude) == FoldSet(LAMBDA a, u : Retired(u, a, exclude), t, S)

\* A track arrives: is it the one remembered song's replacement?
Adopted(t, new) ==
  LET c   == {g \in Audio : t.gone[g] # None /\ SongOf[g] = SongOf[new]}
      old == CHOOSE g \in c : TRUE
      u   == Remapped(t, old, new)
  IN  IF t.row[new] = None \/ Cardinality(c) # 1 THEN t
      ELSE IF Replacement(t, old, {}) # new THEN t
      ELSE [u EXCEPT !.lyrics = IF t.gone[old] = TRUE THEN @ \cup {new} ELSE @, !.gone[old] = None]

AdoptedAll(t, S) == FoldSet(LAMBDA a, u : Adopted(u, a), t, S)

\* Likes on songs neither here nor remembered are dropped.
Pruned(t) == [t EXCEPT !.likes = {a \in @ : t.row[a] # None \/ t.gone[a] # None}]

Write(t) ==
  /\ row' = t.row /\ likes' = t.likes /\ lyrics' = t.lyrics /\ heads' = t.heads /\ gone' = t.gone

---------------------------------------------------------------------------
(* scanner.ts.                                                              *)
Scanned(s) == IF s = "ingest" THEN drop ELSE nas

\* The snapshot of what the library knows is taken before the walk.
Begun(scope, dirs, todo) ==
  [NoScan EXCEPT !.pc = "walk", !.known = [p \in Paths |-> IF At(p) = {} THEN None ELSE CHOOSE a \in At(p) : TRUE],
                 !.scope = scope, !.dirs = dirs, !.todo = todo]

\* The whole library, or the folders an import names.
StartScan(dirs) ==
  /\ ops < MaxOps /\ ops' = ops + 1
  /\ scan["full"].pc = "idle"
  /\ scan' = [scan EXCEPT !["full"] = Begun({p \in Paths : DirOf[p] \in dirs}, dirs, {})]
  /\ UNCHANGED <<files, db, up, ing>>

Walk(s, d) ==
  /\ scan[s].pc = "walk" /\ d \in scan[s].dirs
  /\ \E fails \in (IF "nas" \in Env THEN BOOLEAN ELSE {FALSE}) :
       scan' = [scan EXCEPT ![s].dirs = @ \ {d}, ![s].errors = @ \/ fails,
                            ![s].todo = IF fails THEN @ ELSE @ \cup {p \in Paths : DirOf[p] = d /\ nas[p] # None}]
  /\ UNCHANGED <<files, db, up, ing, ops>>

Reading(s) == scan[s].pc = "walk" /\ scan[s].dirs = {}

\* one(file), up to the hash: an unchanged file only gets the head it misses.
Meet(s, p) ==
  LET c == Scanned(s)[p] IN
  /\ Reading(s) /\ scan[s].hand = None /\ p \in scan[s].todo
  /\ scan' = [scan EXCEPT ![s].todo = @ \ {p}, ![s].seen = @ \cup {p},
                          ![s].seenIds = IF c # None /\ scan[s].known[p] = c THEN @ \cup {c} ELSE @,
                          ![s].hand = IF c # None /\ scan[s].known[p] # c THEN [path |-> p, id |-> c] ELSE None]
  /\ heads' = IF c # None /\ scan[s].known[p] = c /\ row[c] # None THEN heads \cup {c} ELSE heads
  /\ UNCHANGED <<files, row, likes, lyrics, gone, ingested, journal, up, ing, ops>>
\* Were the recording that was at the path before forgotten:
RecordedOver(t, p, id, prev) ==
  [t EXCEPT !.row = [a \in Audio |-> IF a = id THEN p ELSE IF a = prev THEN None ELSE t.row[a]]]

\* The row of the recording read, at the path it was read for; a different
\* recording the snapshot had there hands over its traces and goes.
Recorded(t, p, id, prev) ==
  LET u == [t EXCEPT !.row[id] = p]
  IN  IF prev \in {None, id} THEN u
      ELSE LET m == Remapped(u, prev, id)
           IN  [m EXCEPT !.row[prev] = None, !.lyrics = @ \ {prev}]

\* one(file), from the database on.  A path that has another row meanwhile
\* breaks UNIQUE(path), and with it the scan.
Record(s) ==
  LET p    == scan[s].hand.path
      id   == scan[s].hand.id
      prev == scan[s].known[p]
      new  == row[id] = None /\ prev \in {None, id}
  IN
  /\ Reading(s) /\ scan[s].hand # None
  /\ IF At(p) \subseteq {id, prev}
     THEN \E tags \in (IF "sidecar" \in Env THEN BOOLEAN ELSE {FALSE}) :
          LET t == Recorded(Traces, p, id, prev) IN
            /\ Write([t EXCEPT !.heads = @ \cup {id}, !.lyrics = IF tags THEN @ \cup {id} ELSE @])
            /\ scan' = [scan EXCEPT ![s].hand = None, ![s].seenIds = @ \cup {id},
                                    ![s].newIds = IF new THEN @ \cup {id} ELSE @]
     ELSE /\ scan' = [scan EXCEPT ![s] = [NoScan EXCEPT !.pc = "failed"]]
          /\ UNCHANGED <<row, likes, lyrics, heads, gone>>
  /\ UNCHANGED <<files, ingested, journal, up, ing, ops>>

\* The songs the scan did not meet, unless the walk looks like a dropped mount.
Missing(s) ==
  LET inScope == {p \in scan[s].scope : scan[s].known[p] # None}
      lost    == {p \in inScope : p \notin scan[s].seen /\ scan[s].known[p] \notin scan[s].seenIds}
  IN  IF s = "ingest" \/ scan[s].errors \/ 2 * Cardinality(inScope \ lost) < Cardinality(inScope)
      THEN {} ELSE {scan[s].known[p] : p \in lost}

\* The removal pass, the arrivals' memories, the ghosts: no await in between.
EndScan(s) ==
  LET lost == Missing(s)
      t    == Pruned(AdoptedAll(RetiredAll(Traces, lost, lost), scan[s].newIds))
  IN
  /\ Reading(s) /\ scan[s].hand = None /\ scan[s].todo = {}
  /\ Write(t)
  /\ scan' = [scan EXCEPT ![s] = [NoScan EXCEPT !.pc = IF s = "full" THEN "idle" ELSE "done"]]
  /\ UNCHANGED <<files, ingested, journal, up, ing, ops>>

FullFailed ==
  /\ scan["full"].pc = "failed" /\ scan' = [scan EXCEPT !["full"] = NoScan]
  /\ UNCHANGED <<files, db, up, ing, ops>>

---------------------------------------------------------------------------
(* tasks.ts, the FLAC upgrade: one replacement at a time.                   *)

\* A run begins with what an earlier one left in the journal.
UpBegin ==
  /\ ops < MaxOps /\ ops' = ops + 1 /\ "upgrade" \in Env
  /\ up.pc = "idle" /\ up' = [NoUp EXCEPT !.pc = "ready", !.todo = journal]
  /\ UNCHANGED <<files, db, scan, ing>>

UpRecover(e) ==
  /\ up.pc = "ready" /\ e \in up.todo
  /\ up' = [up EXCEPT !.pc = "scan", !.todo = @ \ {e}, !.entry = e]
  /\ UNCHANGED <<files, db, scan, ing, ops>>

Taken(p, dest) == dest # p /\ nas[dest] # None

UpPick(p) ==
  /\ up.pc = "ready" /\ up.todo = {} /\ up.path = None
  /\ \E a \in At(p) : a \in Lossy \/ "damaged" \in Env
  /\ ~Taken(p, FlacOf[p])
  /\ up' = [up EXCEPT !.pc = "find", !.path = p,
                      !.entry = [old |-> CHOOSE a \in At(p) : TRUE, new |-> FlacOf[p], lyr |-> FALSE]]
  /\ UNCHANGED <<files, db, scan, ing, ops>>

\* A verified download of the same song; the name must still be free.
UpJournal ==
  LET e == [up.entry EXCEPT !.lyr = (up.entry.old \in lyrics)] IN
  /\ up.pc = "find" /\ ~Taken(up.path, up.entry.new)
  /\ journal' = journal \cup {e}
  /\ up' = [up EXCEPT !.pc = "rename", !.entry = e]
  /\ UNCHANGED <<files, row, likes, lyrics, heads, gone, ingested, scan, ing, ops>>

UpGiveUp ==
  /\ up.pc = "find" /\ up' = [NoUp EXCEPT !.pc = "idle"]
  /\ UNCHANGED <<files, db, scan, ing, ops>>

UpRename(f) ==
  /\ up.pc = "rename" /\ f \notin Lossy /\ SongOf[f] = SongOf[up.entry.old] /\ f # up.entry.old
  /\ nas' = [nas EXCEPT ![up.entry.new] = f]
  /\ up' = [up EXCEPT !.pc = IF up.entry.new # up.path THEN "remove" ELSE "scan"]
  /\ UNCHANGED <<drop, db, scan, ing, ops>>

UpRemove ==
  /\ up.pc = "remove"
  /\ nas' = [nas EXCEPT ![up.path] = None]
  /\ up' = [up EXCEPT !.pc = "scan"]
  /\ UNCHANGED <<drop, db, scan, ing, ops>>

\* settle: the entry's folder is scanned (an import may be scanning one too).
UpScan ==
  LET d == DirOf[up.entry.new] IN
  /\ up.pc = "scan" /\ scan["folder"].pc = "idle"
  /\ scan' = [scan EXCEPT !["folder"] = Begun({p \in Paths : DirOf[p] = d}, {d}, {})]
  /\ up' = [up EXCEPT !.pc = "settle"]
  /\ UNCHANGED <<files, db, ing, ops>>

\* Then the old id's traces move to whatever owns the path now.
Settled(t, e) ==
  LET c == {a \in Audio : t.row[a] = e.new}
      n == CHOOSE a \in c : TRUE
      u == Remapped(t, e.old, n)
  IN  IF c = {} THEN t ELSE [u EXCEPT !.lyrics = IF e.lyr THEN @ \cup {n} ELSE @]

UpSettle ==
  /\ up.pc = "settle" /\ scan["folder"].pc \in {"done", "failed"}
  /\ scan' = [scan EXCEPT !["folder"] = NoScan]
  /\ IF scan["folder"].pc = "done"
     THEN Write(Settled(Traces, up.entry)) /\ journal' = journal \ {up.entry}
     ELSE UNCHANGED <<row, likes, lyrics, heads, gone, journal>>
  /\ up' = IF up.path = None THEN [up EXCEPT !.pc = "ready", !.entry = None] ELSE NoUp
  /\ UNCHANGED <<files, ingested, ing, ops>>

UpEnd ==
  /\ up.pc = "ready" /\ up.todo = {} /\ up' = NoUp
  /\ UNCHANGED <<files, db, scan, ing, ops>>

---------------------------------------------------------------------------
(* ingest.ts: a settled drop folder is copied, indexed, then cleared.       *)
InDrop(d) == {p \in Paths : DirOf[p] = d /\ drop[p] # None}

Sweep(d) ==
  /\ ops < MaxOps /\ ops' = ops + 1 /\ "drop" \in Env
  /\ ing.pc = "idle" /\ InDrop(d) # {}
  /\ ing' = [NoIng EXCEPT !.pc = "copy", !.dir = d, !.left = InDrop(d)]
  /\ UNCHANGED <<files, db, scan, up>>

\* Known from an earlier sweep, already there, or copied beside, renamed onto
\* its name and verified; a copy that fails ends the folder.
Copy(p) ==
  LET known == ingested[p] = drop[p]
      there == nas[p] = drop[p]
  IN
  /\ ing.pc = "copy" /\ p \in ing.left
  /\ \/ /\ nas' = IF known THEN nas ELSE [nas EXCEPT ![p] = drop[p]]
        /\ ingested' = [ingested EXCEPT ![p] = drop[p]]
        /\ ing' = [ing EXCEPT !.left = @ \ {p}, !.kept = @ \cup {p},
                              !.fresh = IF known \/ there THEN @ ELSE @ \cup {p}]
     \/ /\ "nas" \in Env /\ ~known /\ ~there
        /\ ing' = NoIng /\ UNCHANGED <<nas, ingested>>
  /\ UNCHANGED <<drop, row, likes, lyrics, heads, gone, journal, scan, up, ops>>

Indexed(p) == \E a \in At(p) : a = drop[p] /\ a \in heads

Index ==
  LET todo == {p \in ing.kept : p \in ing.fresh \/ ~Indexed(p)} IN
  /\ ing.pc = "copy" /\ ing.left = {} /\ scan["ingest"].pc = "idle"
  /\ scan' = IF todo = {} THEN scan ELSE [scan EXCEPT !["ingest"] = Begun({}, {}, todo)]
  /\ ing' = [ing EXCEPT !.pc = IF todo = {} THEN "check" ELSE "index"]
  /\ UNCHANGED <<files, db, up, ops>>

\* A scan that breaks ends the sweep.
IndexDone ==
  /\ ing.pc = "index" /\ scan["ingest"].pc \in {"done", "failed"}
  /\ ing' = IF scan["ingest"].pc = "done" THEN [ing EXCEPT !.pc = "check"] ELSE NoIng
  /\ scan' = [scan EXCEPT !["ingest"] = NoScan]
  /\ UNCHANGED <<files, db, up, ops>>
\* Were the sweep to trust what it copied once:
ClearedOnce(d) == \A p \in InDrop(d) : p \in ing.kept

\* maybeDelete: everything now in the folder is kept, on the NAS as it is
\* here, and in the library with a head.
Cleared(d) == \A p \in InDrop(d) : p \in ing.kept /\ nas[p] = drop[p] /\ Indexed(p)

Check ==
  /\ ing.pc = "check"
  /\ ing' = IF Cleared(ing.dir) THEN [ing EXCEPT !.pc = "unlink", !.left = InDrop(ing.dir)] ELSE NoIng
  /\ UNCHANGED <<files, db, scan, up, ops>>

Unlink(p) ==
  /\ ing.pc = "unlink" /\ p \in ing.left
  /\ drop' = [drop EXCEPT ![p] = None]
  /\ ing' = IF ing.left = {p} THEN NoIng ELSE [ing EXCEPT !.left = @ \ {p}]
  /\ UNCHANGED <<nas, db, scan, up, ops>>

---------------------------------------------------------------------------
(* From outside: the owner of the files, a downloader, a listener, a crash. *)
Outside(e) == e \in Env /\ ops < MaxOps /\ ops' = ops + 1

\* A file appears on the NAS, or takes the place of another.
AddFile(p, a) ==
  /\ Outside("files") /\ nas[p] # a
  /\ SongOf[a] \in Holds[p]
  /\ nas' = [nas EXCEPT ![p] = a]
  /\ UNCHANGED <<drop, db, scan, up, ing>>

\* A file goes from the NAS - not in the instant between an ingest's check and
\* its removals.
RemoveFile(p) ==
  /\ Outside("remove") /\ nas[p] # None /\ ing.pc # "unlink" /\ nas' = [nas EXCEPT ![p] = None]
  /\ UNCHANGED <<drop, db, scan, up, ing>>

MoveFile(p, q) ==
  /\ Outside("move") /\ nas[p] # None /\ nas[q] = None /\ SongOf[nas[p]] \in Holds[q]
  /\ nas' = [nas EXCEPT ![q] = nas[p], ![p] = None]
  /\ UNCHANGED <<drop, db, scan, up, ing>>

\* A download lands while no sweep is at that folder's end (it must be old).
Land(p, a) ==
  /\ Outside("drop") /\ drop[p] = None /\ ing.pc # "unlink" /\ SongOf[a] \in Holds[p]
  /\ drop' = [drop EXCEPT ![p] = a]
  /\ UNCHANGED <<nas, db, scan, up, ing>>

Like(a) ==
  /\ Outside("like") /\ row[a] # None /\ a \notin likes
  /\ likes' = likes \cup {a}
  /\ UNCHANGED <<files, row, lyrics, heads, gone, ingested, journal, scan, up, ing>>

\* 180 days later.
Forget(a) ==
  /\ Outside("forget") /\ gone[a] # None
  /\ Write(Pruned([Traces EXCEPT !.gone[a] = None]))
  /\ UNCHANGED <<files, ingested, journal, scan, up, ing>>

Crash ==
  /\ Outside("crash")
  /\ scan' = [s \in Scans |-> NoScan] /\ up' = NoUp /\ ing' = NoIng
  /\ UNCHANGED <<files, db>>

Next ==
  \/ (\E ds \in {Dirs} \cup {{d} : d \in Dirs} : StartScan(ds)) \/ FullFailed
  \/ \E s \in Scans : Record(s) \/ EndScan(s) \/ (\E d \in Dirs : Walk(s, d)) \/ \E p \in Paths : Meet(s, p)
  \/ UpBegin \/ UpJournal \/ UpGiveUp \/ UpRemove \/ UpScan \/ UpSettle \/ UpEnd
  \/ (\E e \in up.todo : UpRecover(e)) \/ (\E p \in Paths : UpPick(p)) \/ \E f \in Audio : UpRename(f)
  \/ Index \/ IndexDone \/ Check
  \/ (\E d \in Dirs : Sweep(d)) \/ \E p \in Paths : Copy(p) \/ Unlink(p) \/ RemoveFile(p)
  \/ \E p \in Paths, a \in Audio : AddFile(p, a) \/ Land(p, a)
  \/ (\E p, q \in Paths : MoveFile(p, q))
  \/ (\E a \in Audio : Like(a) \/ Forget(a))
  \/ Crash

Spec == Init /\ [][Next]_vars

---------------------------------------------------------------------------
(* Properties.                                                              *)

\* The variables keep their types; a path has one row (UNIQUE), and lyrics
\* have a track (they are deleted with it).
TypeOK ==
  /\ nas \in [Paths -> Audio \cup {None}] /\ drop \in [Paths -> Audio \cup {None}]
  /\ row \in [Audio -> Paths \cup {None}] /\ \A p \in Paths : Cardinality(At(p)) <= 1
  /\ likes \subseteq Audio /\ lyrics \subseteq Here /\ heads \subseteq Audio
  /\ gone \in [Audio -> {None, TRUE, FALSE}]
  /\ ingested \in [Paths -> Audio \cup {None}] /\ journal \subseteq Entry
  /\ ops \in 0 .. MaxOps

\* What a listener likes stays liked on a recording of the song that the
\* library has, remembers or is about to settle, whatever upgrades, moves, scans
\* beside each other and crashes come between ("or the playlist shows a blank
\* row and the like is gone"): the library implements the shelf.
Listener == INSTANCE Shelf WITH
  Songs <- {SongOf[a] : a \in Audio},
  here  <- {SongOf[a] : a \in Here},
  liked <- {SongOf[a] : a \in {b \in likes : row[b] # None \/ gone[b] # None
                                             \/ \E e \in journal : e.old = b}}

KeepsLikes == Listener!Spec

\* Clearing the drop folder never deletes the last copy of a song: each file
\* goes only when the NAS has the song.
NeverLastCopy ==
  [][\A p \in Paths : drop[p] # None /\ drop'[p] = None =>
       \E q \in Paths : nas'[q] # None /\ SongOf[nas'[q]] = SongOf[drop[p]]]_vars
=============================================================================
