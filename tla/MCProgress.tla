----------------------------- MODULE MCProgress -----------------------------
(* What must happen in the end, of six components at once: all stand at their
   initial state, one of them (`part`) moves, with its own fairness.  The
   components' states are never multiplied.                                  *)
EXTENDS MCTranscode, SongCache
CONSTANTS
  g1, g2, g3,              \* song cache
  e1, e2, None,            \* page
  scan, enrich, Unrun,     \* chores
  came, bare                \* lyrics

VARIABLES
  part,
  ios, kept, want, playing, gen, loaded, act, src, sounds, fade, starts, recover, own,
  gaveBack, world,
  now, sched, busy, last, rr, watching, armed, seen, passed, ops,
  words, align, lrc, keep, job, line, task, undo, due, asks, turns,
  wanted, upnext, ready, failed, held, paused, load, cur, len, on, gate, timer, retry, moves

page    == <<ios, kept, want, playing, gen, loaded, act, src, sounds, fade, starts,
             recover, own, gaveBack, world>>
chores  == <<now, sched, busy, last, rr, watching, armed, seen, passed, ops>>
aligned == <<words, align, lrc, keep, job, line, task, undo, due, asks, turns>>
memory  == <<wanted, upnext, ready, failed, held, paused, load, cur, len, on, gate, timer, retry, moves>>

Sizes == [g \in {g1, g2, g3} |-> IF g = g1 THEN 1 ELSE 2]

Elements == {e1, e2}
OneKept  == {{}, {0}}
Heard    == {"seek", "rapid", "pause", "resume", "yield", "refused", "stuck", "fade"}

P == INSTANCE PageSound WITH
  Els <- Elements, Nothing <- None, Songs <- 3, Downloaded <- OneKept, MaxGen <- 2, MaxWorld <- 1,
  SoundEnv <- Heard, playingRef <- playing

\* A day of five units after a day of two, a chore of each day and one of each unit.
Defs   == <<scan, enrich>>
Modes  == [t \in {scan, enrich} |-> IF t = scan THEN {"daily"} ELSE {"interval"}]
Starts == <<0, 2, 5>>
Daily  == <<1, 4, 6>>
ByHand == {"hand", "crash"}

C == INSTANCE Chores WITH
  Alongside <- {}, Watched <- {}, Hours <- 1, Day <- 2, DayStart <- Starts, Points <- Daily,
  MaxTime <- 7, MaxOps <- 1, Env <- ByHand, running <- busy

Pair     == {came, bare}
CameWith == {came}
Beside   == {"crash", "undo", "scan", "fetch", "remove", "busy"}

Y == INSTANCE Lyrics WITH
  Songs <- Pair, Came <- CameWith, MaxAsks <- 2, MaxTurns <- 1, text <- words, LyricsEnv <- Beside

Ahead == {"skip", "stop", "short", "bytes", "again"}

W == INSTANCE TrackCache WITH
  Queue <- 3, OnDevice <- {3}, MaxTries <- 2, MaxMoves <- 3, Env <- Ahead,
  order <- upnext, playing <- on, due <- timer

MemoryOut ==
  /\ wanted = 0 /\ upnext = 0 /\ ready = 0 /\ failed = 0 /\ held = 0 /\ paused = 0 /\ load = 0
  /\ cur = 0 /\ len = 0 /\ on = FALSE /\ gate = 0 /\ timer = 0
  /\ retry = 0 /\ moves = 0
LyricsOut ==
  /\ words = 0 /\ align = 0 /\ lrc = 0 /\ keep = 0 /\ job = 0 /\ line = 0 /\ task = 0 /\ undo = 0
  /\ due = 0 /\ asks = 0 /\ turns = 0

TogetherInit ==
  /\ part \in {"encoders", "cache", "page", "chores", "lyrics", "memory"}
  /\ Init /\ CacheInit /\ P!SoundInit /\ C!Init
  /\ part # "page" => ~ios /\ kept = {}
  /\ IF part = "lyrics" THEN Y!LyricsInit ELSE LyricsOut
  /\ IF part = "memory" THEN W!Init ELSE MemoryOut

TogetherNext ==
  \/ part = "encoders" /\ Next   /\ UNCHANGED <<part, cacheVars, page, chores, aligned, memory>>
  \/ part = "cache"    /\ CacheNext /\ UNCHANGED <<part, vars, page, chores, aligned, memory>>
  \/ part = "page"     /\ P!SoundNext /\ UNCHANGED <<part, vars, cacheVars, chores, aligned, memory>>
  \/ part = "chores"   /\ C!Next /\ UNCHANGED <<part, vars, cacheVars, page, aligned, memory>>
  \/ part = "lyrics"   /\ Y!LyricsNext /\ UNCHANGED <<part, vars, cacheVars, page, chores, memory>>
  \/ part = "memory"   /\ W!Next /\ UNCHANGED <<part, vars, cacheVars, page, chores, aligned>>

\* The fairness of each component, while it is the one that moves.
Together ==
  /\ TogetherInit /\ [][TogetherNext]_<<part, vars, cacheVars, page, chores, aligned, memory>>
  \* Transcode's
  /\ WF_vars(part = "encoders" /\ SomeRunSteps) /\ WF_vars(part = "encoders" /\ SomeKilledExits)
  /\ WF_vars(part = "encoders" /\ SomeCallSteps) /\ WF_vars(part = "encoders" /\ SomeoneHangsUp)
  \* PageSound's
  /\ WF_page(part = "page" /\ P!StartStep) /\ WF_page(part = "page" /\ P!Recovered)
  /\ WF_page(part = "page" /\ P!FadeOver) /\ WF_page(part = "page" /\ P!OwnOver)
  /\ WF_page(part = "page" /\ P!Reconcile)
  \* SongCache's
  /\ \A g \in Tracks : WF_cacheVars(part = "cache" /\ Step(g))
  \* Chores'
  /\ WF_chores(part = "chores" /\ C!Tick) /\ WF_chores(part = "chores" /\ C!Time)
  /\ \A t \in {scan, enrich} : WF_chores(part = "chores" /\ C!End(t))
  \* Lyrics'
  /\ WF_aligned(part = "lyrics" /\ Y!TaskStep) /\ WF_aligned(part = "lyrics" /\ Y!Resume)
  \* TrackCache's
  /\ WF_memory(part = "memory" /\ W!Download) /\ WF_memory(part = "memory" /\ W!Preload)
  /\ WF_memory(part = "memory" /\ W!Retry) /\ WF_memory(part = "memory" /\ W!Open)

\* The variables of the component that moves keep their types.
TypesOK ==
  /\ part = "encoders" => TypeOK
  /\ part = "cache"    => CacheTypeOK
  /\ part = "page"     => P!SoundTypeOK
  /\ part = "chores"   => C!TypeOK
  /\ part = "lyrics"   => Y!LyricsTypeOK
  /\ part = "memory"   => W!TypeOK

\* SongCache and TrackCache: neither cache outgrows what it is to hold, and no
\* file lies on the disk that no row counts.
CacheCounted ==
  /\ part = "cache"  => WithinCap /\ NoneStranded
  /\ part = "memory" => W!Bounded

\* PageSound: the play button comes to agree with what is heard.
ButtonAgrees == P!ButtonAgrees

\* Chores: a daily point that was missed is caught up on.
CaughtUp == part = "chores" => C!CaughtUp

\* Lyrics: a song in line is answered, or leaves the library.
Answered ==
  \A s \in {came, bare} :
    part = "lyrics" /\ job[s] = "queued"
      ~> part = "lyrics" /\ job[s] \in {"done", "failed", "gone"}

\* TrackCache: the song playing and the next are in memory in the end, but for a
\* hold that comes after the gate opened.
Fetched == part = "memory" => W!Fetched
=============================================================================
