------------------------------- MODULE Lyrics -------------------------------
(* Lyrics lined up with the vocals on request (server/src/lyricsync.ts): songs
   wait in line in the database, one task works through them, every change is
   kept for undo and goes beside the song as an .lrc.  The scanner, the pass
   that fetches lyrics and the admin's undo write the same rows and files.   *)
EXTENDS Naturals, SequencesExt

CONSTANTS
  Songs, Came,     \* Came: the songs that came with an .lrc of their own
  None,
  MaxAsks,         \* bound on the requests
  MaxTurns,        \* bound on restarts, undos and passes
  LyricsEnv        \* "crash", "undo", "scan", "fetch", "remove", "busy"; "torn":
                   \* a crash before the music's file is kept

ASSUME LyricsAssumption ==
  /\ None \notin Songs /\ Came \subseteq Songs
  /\ None \notin {"own", "web", "timed"} \cup [words : {"own", "web", "timed"}, sidecar : BOOLEAN]
  /\ MaxAsks \in Nat /\ MaxTurns \in Nat

VARIABLES
  text,   \* lyrics: whose words, and whether they were read from the .lrc
  align,  \* lyric_align: the last verdict and what it replaced
  lrc,    \* <name>.lrc: whose words it holds
  keep,   \* <name>.orig.lrc
  job,    \* lyric_jobs
  line,   \* the queued ones by when they were asked for
  task,   \* the task: where it is, its song, the lyrics it read, what it found
  undo,   \* song -> the undo's row of it, until that is worked off
  due,    \* what a pass that fetches lyrics still has before it
  asks, turns

lyricsVars == <<text, align, lrc, keep, job, line, task, undo, due, asks, turns>>

Words == {"own", "web", "timed"}
Row   == [words : Words, sidecar : BOOLEAN]
Off   == [pc |-> "off", song |-> None, prev |-> None, found |-> None]

LyricsTypeOK ==
  /\ text \in [Songs -> Row \cup {None}]
  /\ align \in [Songs -> [state : {"none", "checked", "changed", "undone"}, original : Row \cup {None}]]
  /\ lrc \in [Songs -> Words \cup {None}] /\ keep \in [Songs -> Words \cup {None}]
  /\ job \in [Songs -> {"none", "queued", "running", "done", "failed", "gone"}]
  /\ ToSet(line) \subseteq {s \in Songs : job[s] = "queued"}
  /\ task \in [pc : {"off", "next", "align", "keep", "write"}, song : Songs \cup {None},
               prev : Row \cup {None}, found : Words \cup {None}]
  /\ \A s \in Songs : undo[s] = None
       \/ undo[s] \in [at : {"row", "files"}, original : Row \cup {None}, words : Words \cup {None}]
  /\ due \subseteq Songs
  /\ asks \in 0 .. MaxAsks /\ turns \in 0 .. MaxTurns

\* The others have none, or fetched ones.
LyricsInit ==
  /\ text \in [Songs -> Row \cup {None}]
  /\ \A s \in Songs : text[s] \in IF s \in Came THEN {[words |-> "own", sidecar |-> TRUE]}
                                 ELSE {None, [words |-> "web", sidecar |-> FALSE]}
  /\ align = [s \in Songs |-> [state |-> "none", original |-> None]]
  /\ lrc = [s \in Songs |-> IF text[s] = None THEN None ELSE text[s].words]
  /\ keep = [s \in Songs |-> None]
  /\ job = [s \in Songs |-> "none"] /\ line = <<>> /\ task = Off
  /\ undo = [s \in Songs |-> None] /\ due = {} /\ asks = 0 /\ turns = 0

Waiting == {s \in Songs : job[s] \in {"queued", "running"}}
Kicked  == IF task.pc = "off" THEN [Off EXCEPT !.pc = "next"] ELSE task

\* Sync Lyrics: queued, unless it waits or runs already; the task is kicked.
Ask(s) ==
  /\ asks < MaxAsks /\ asks' = asks + 1 /\ job[s] # "gone" /\ task' = Kicked
  /\ IF s \in Waiting THEN UNCHANGED <<job, line>>
     ELSE job' = [job EXCEPT ![s] = "queued"] /\ line' = Append(line, s)
  /\ UNCHANGED <<text, align, lrc, keep, undo, due, turns>>

\* The next in line, whose lyrics are read now; none left: the task is over.
Pick ==
  /\ task.pc = "next"
  /\ IF line = <<>> THEN task' = Off /\ UNCHANGED <<job, line>>
     ELSE LET s == Head(line) IN
          /\ task' = [pc |-> "align", song |-> s, prev |-> text[s], found |-> None]
          /\ job' = [job EXCEPT ![s] = "running"] /\ line' = Tail(line)
  /\ UNCHANGED <<text, align, lrc, keep, undo, due, asks, turns>>

\* The job's answer; its row may be gone with the song.
Answer(s, state) == job' = [job EXCEPT ![s] = IF @ = "running" THEN state ELSE @]
Over == task' = [Off EXCEPT !.pc = "next"]

\* A verdict that changes nothing, or none at all.
Check ==
  /\ task.pc = "align" /\ Over
  /\ \/ Answer(task.song, "done") /\ align' \in {align, [align EXCEPT ![task.song].state = "checked"]}
     \/ Answer(task.song, "failed") /\ UNCHANGED align
  /\ UNCHANGED <<text, lrc, keep, line, undo, due, asks, turns>>

\* replace: new words or new timing; what the task read is kept for undo.
Original(s) == IF task.prev = None THEN align[s].original ELSE task.prev

Replace ==
  /\ task.pc = "align"
  /\ IF job[task.song] = "gone"                      \* no row to write to
     THEN Over /\ UNCHANGED <<text, align>>
     ELSE \E w \in {"timed", "web"} :
            /\ text' = [text EXCEPT ![task.song] = [words |-> w, sidecar |-> FALSE]]
            /\ align' = [align EXCEPT ![task.song] =
                           [state |-> "changed", original |-> Original(task.song)]]
            /\ task' = [task EXCEPT !.pc = "keep", !.found = w]
  /\ UNCHANGED <<lrc, keep, job, line, undo, due, asks, turns>>

\* The card stays busy: everyone who waits is answered, and the task ends.
CardBusy ==
  /\ "busy" \in LyricsEnv /\ task.pc = "align" /\ task' = Off /\ line' = <<>>
  /\ job' = [s \in Songs |-> IF s \in Waiting THEN "failed" ELSE job[s]]
  /\ UNCHANGED <<text, align, lrc, keep, undo, due, asks, turns>>

\* Were a file kept only when its words had been timed before:
KeepTimed ==
  /\ task.pc = "keep" /\ task' = [task EXCEPT !.pc = "write"]
  /\ keep' = [keep EXCEPT ![task.song] =
                IF task.prev # None /\ ~task.prev.sidecar /\ @ = None THEN lrc[task.song] ELSE @]
  /\ UNCHANGED <<text, align, lrc, job, line, undo, due, asks, turns>>

\* writeSidecar: the file that came with the music is copied aside, once.
Keep ==
  /\ task.pc = "keep" /\ task' = [task EXCEPT !.pc = "write"]
  /\ keep' = [keep EXCEPT ![task.song] =
                IF task.prev # None /\ task.prev.sidecar /\ @ = None THEN lrc[task.song] ELSE @]
  /\ UNCHANGED <<text, align, lrc, job, line, undo, due, asks, turns>>

\* Then the new words are renamed in, and the job is answered.
Write ==
  /\ task.pc = "write" /\ Over /\ Answer(task.song, "done")
  /\ lrc' = [lrc EXCEPT ![task.song] = task.found]
  /\ UNCHANGED <<text, align, keep, line, undo, due, asks, turns>>

TaskStep == Pick \/ Check \/ Replace \/ CardBusy \/ Keep \/ Write

\* Were the running song not put back in line:
CrashForgets ==
  /\ "crash" \in LyricsEnv /\ turns < MaxTurns /\ turns' = turns + 1
  /\ task' = Off /\ due' = {} /\ undo' = [s \in Songs |-> None]
  /\ UNCHANGED <<text, align, lrc, keep, job, line, asks>>

\* A restart: the running song goes back in line, which resumes 30 s later.
Restart ==
  /\ "crash" \in LyricsEnv /\ turns < MaxTurns /\ turns' = turns + 1
  /\ "torn" \in LyricsEnv \/ task.pc # "keep"
  /\ task' = Off /\ due' = {} /\ undo' = [s \in Songs |-> None]
  /\ job' = [s \in Songs |-> IF job[s] = "running" THEN "queued" ELSE job[s]]
  /\ line' = (IF task.song # None /\ job[task.song] = "running" THEN <<task.song>> ELSE <<>>) \o line
  /\ UNCHANGED <<text, align, lrc, keep, asks>>

Resume ==
  /\ task.pc = "off" /\ line # <<>> /\ task' = Kicked
  /\ UNCHANGED <<text, align, lrc, keep, job, line, undo, due, asks, turns>>

\* Undo all: the changed songs are listed, then put back one by one, the row
\* first and the files after it.
Undo ==
  /\ "undo" \in LyricsEnv /\ turns < MaxTurns /\ turns' = turns + 1
  /\ \A s \in Songs : undo[s] = None
  /\ undo' = [s \in Songs |-> IF align[s].state # "changed" THEN None
                              ELSE [at |-> "row", original |-> align[s].original, words |-> text[s].words]]
  /\ UNCHANGED <<text, align, lrc, keep, job, line, task, due, asks>>

UndoRow(s) ==
  /\ undo[s] # None /\ undo[s].at = "row" /\ undo' = [undo EXCEPT ![s].at = "files"]
  /\ text' = [text EXCEPT ![s] = IF @ = None THEN None ELSE undo[s].original]
  /\ align' = [align EXCEPT ![s].state = "undone"]
  /\ UNCHANGED <<lrc, keep, job, line, task, due, asks, turns>>

UndoFiles(s) ==
  /\ undo[s] # None /\ undo[s].at = "files" /\ undo' = [undo EXCEPT ![s] = None]
  /\ keep' = [keep EXCEPT ![s] = None]
  /\ lrc' = [lrc EXCEPT ![s] =
               CASE keep[s] # None                                     -> keep[s]
                 [] keep[s] = None /\ undo[s].original # None          -> undo[s].original.words
                 [] keep[s] = None /\ undo[s].original = None
                      /\ @ = undo[s].words                             -> None
                 [] OTHER                                              -> @]
  /\ UNCHANGED <<text, align, job, line, task, due, asks, turns>>

\* The scanner reads the .lrc of a song without lyrics, and of a changed file
\* whose lyrics came from there.
Scan(s) ==
  /\ "scan" \in LyricsEnv /\ job[s] # "gone" /\ lrc[s] # None /\ (text[s] # None => text[s].sidecar)
  /\ text' = [text EXCEPT ![s] = [words |-> lrc[s], sidecar |-> TRUE]]
  /\ UNCHANGED <<align, lrc, keep, job, line, task, undo, due, asks, turns>>

\* enrichPass: the songs without lyrics are listed, then looked up one by one; a
\* synced sidecar is not overwritten, nor is a file.
Pass ==
  /\ "fetch" \in LyricsEnv /\ turns < MaxTurns /\ turns' = turns + 1 /\ due = {}
  /\ due' = {s \in Songs : text[s] = None /\ job[s] # "gone"}
  /\ UNCHANGED <<text, align, lrc, keep, job, line, task, undo, asks>>

Fetch(s) ==
  /\ s \in due /\ due' = due \ {s}
  /\ \/ UNCHANGED <<text, lrc>>
     \/ /\ text' = [text EXCEPT ![s] = IF @ # None /\ @.sidecar THEN @
                                     ELSE [words |-> "web", sidecar |-> FALSE]]
        /\ lrc' = [lrc EXCEPT ![s] = IF @ = None THEN "web" ELSE @]
  /\ UNCHANGED <<align, keep, job, line, task, undo, asks, turns>>

\* A song leaves the library: its rows cascade away, its job with them.
Leave(s) ==
  /\ "remove" \in LyricsEnv /\ turns < MaxTurns /\ turns' = turns + 1
  /\ job[s] # "gone" /\ job' = [job EXCEPT ![s] = "gone"]
  /\ text' = [text EXCEPT ![s] = None] /\ due' = due \ {s}
  /\ align' = [align EXCEPT ![s] = [state |-> "none", original |-> None]]
  /\ undo' = [undo EXCEPT ![s] = None]
  /\ line' \in IF job[s] = "queued" THEN {RemoveAt(line, i) : i \in {i \in DOMAIN line : line[i] = s}}
                                    ELSE {line}
  /\ UNCHANGED <<lrc, keep, task, asks>>

\* It is back: the scan that adds it reads its .lrc.
Return(s) ==
  /\ job[s] = "gone" /\ job' = [job EXCEPT ![s] = "none"]
  /\ text' = [text EXCEPT ![s] = IF lrc[s] = None THEN None ELSE [words |-> lrc[s], sidecar |-> TRUE]]
  /\ UNCHANGED <<align, lrc, keep, line, task, undo, due, asks, turns>>

LyricsNext ==
  \/ TaskStep \/ Restart \/ Resume \/ Undo \/ Pass
  \/ \E s \in Songs : \/ Ask(s) \/ UndoRow(s) \/ UndoFiles(s) \/ Scan(s) \/ Fetch(s)
                     \/ Leave(s) \/ Return(s)

LyricsSpec == LyricsInit /\ [][LyricsNext]_lyricsVars

\* Every step of the task ends (requests to the aligner and the wait for the card
\* have timeouts), and a restart kicks it again.
LyricsFairSpec == LyricsSpec /\ WF_lyricsVars(TaskStep) /\ WF_lyricsVars(Resume)

\* "A sidecar that came with the music is kept once as <name>.orig.lrc": syncs,
\* scans, fetched lyrics, a song that leaves and returns and restarts never lose
\* it (an undo may).
MusicFileKept == \A s \in Came : "own" \in {lrc[s], keep[s]}

\* Nothing waits forever: a song in line is answered, or leaves the library.
Answered == \A s \in Songs : job[s] = "queued" ~> job[s] \in {"done", "failed", "gone"}
=============================================================================
