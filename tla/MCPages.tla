------------------------------ MODULE MCPages ------------------------------
(* Pages of the household and the encoders they listen to, side by side: three
   pages with one stored client id; a page that moves the music between its
   outputs, whatever it is asked meanwhile and one thing at a time; the streams
   of a song for a listener and a warm, and of two songs for three listeners,
   three runs of each; the downloads of two accounts on one device, the app its service
   worker keeps, and an answer it keeps.  One of them (`part`) moves, so that
   the components' states are never multiplied.                              *)
EXTENDS MCSession, Shell, Answers, Offline
CONSTANTS
  here, r1, r2,        \* the page's own sound, two speakers
  v1, v2, c1, c2, c3, w1,  \* songs, requests and a warm
  a1, a2, q1, q2, s1, l1, l2       \* accounts, qualities, a song, playlists

VARIABLES
  part,
  \* the page's outputs
  dev, want, clock, fresh, loaded, act, sounds, transition, timers, stopping, reading, op,
  \* the encoders
  run, live, fg, running, finishing, dir, call, queue

outputs  == <<dev, want, clock, fresh, loaded, act, sounds, transition, timers, stopping,
              reading, op>>
encoders == <<run, live, fg, running, finishing, dir, call, queue>>

AnyTime  == {"overlap", "fail", "tap", "deaf", "others", "poll"}
InTurn   == {"fail", "tap", "poll", "others"}
One      == {r1}
Two      == {r1, r2}
Streamed == {v1, v2}
Listener == {c1}
Trio     == {c1, c2, c3}
Warming  == {w1}
Nobody   == {}
Streams  == {"play", "whole", "direct", "warm"}
Plays    == {"play", "fail"}

M == INSTANCE Handoff WITH Here <- here, Remotes <- One, MaxOps <- 3, Env <- AnyTime
A == INSTANCE Handoff WITH Here <- here, Remotes <- Two, MaxOps <- 3, Env <- InTurn

T == INSTANCE Transcode WITH
  Variants <- Songs, Requests <- Listener, Warmers <- Warming,
  FgCap <- 1, LiveFloor <- 2, WarmMax <- 1, MaxRuns <- 3, Env <- Streams
L == INSTANCE Transcode WITH
  Variants <- Streamed, Requests <- Trio, Warmers <- Nobody,
  FgCap <- 1, LiveFloor <- 2, WarmMax <- 1, MaxRuns <- 3, Env <- Plays

\* One song in two playlists.
Playlists == (l1 :> {{s1}}) @@ (l2 :> {{s1}})

\* A component that never moves is left out of the state.
SessionOut ==
  /\ srv = [k \in Conns |-> "unused"] /\ now = 0 /\ registry = 0 /\ selfId = 0 /\ np = 0 /\ active = 0 /\ claimedAt = 0
  /\ playing = 0 /\ up = 0 /\ down = 0 /\ owner = 0 /\ alive = 0 /\ link = 0 /\ pid = 0
  /\ claimed = 0 /\ pressedAt = 0 /\ deck = 0 /\ due = 0 /\ pending = 0
OutputsOut ==
  /\ dev = 0 /\ want = 0 /\ clock = 0 /\ fresh = 0 /\ loaded = 0 /\ act = 0 /\ sounds = 0
  /\ transition = 0 /\ timers = 0 /\ stopping = 0 /\ reading = 0 /\ op = 0
EncodersOut ==
  /\ run = 0 /\ live = 0 /\ fg = 0 /\ running = 0 /\ finishing = 0 /\ dir = 0 /\ call = 0
  /\ queue = 0

\* Of these three, what the properties look at first is as at the start.
OfflineOut ==
  /\ lib = [u \in Accounts |-> [tracks |-> [s \in Songs |-> Unset]]]
  /\ user = 0 /\ cache = 0 /\ jobs = 0 /\ job = 0 /\ worker = 0 /\ removing = 0 /\ ops = 0
ShellOut ==
  /\ index = 0 /\ reloads = [n \in 1..Builds |-> 0]
  /\ build = 0 /\ kept = 0 /\ sham = 0 /\ refresh = 0 /\ page = 0 /\ busy = 0 /\ acts = 0
AnswersOut ==
  /\ view = <<Nothing, "server">> /\ news = TRUE
  /\ server = 0 /\ me = 0 /\ copies = 0 /\ req = 0 /\ recent = 0 /\ clearing = 0 /\ asked = 0

TogetherInit ==
  /\ part \in {"tabs", "moves", "alone", "encoders", "listeners", "offline", "shell", "answers"}
  /\ IF part = "tabs" THEN Init ELSE SessionOut
  /\ part \notin {"moves", "alone"} => OutputsOut
  /\ part = "moves" => M!Init
  /\ part = "alone" => A!Init
  /\ part \notin {"encoders", "listeners"} => EncodersOut
  /\ part = "encoders" => T!Init
  /\ part = "listeners" => L!Init
  /\ IF part = "offline" THEN OfflineInit ELSE OfflineOut
  /\ IF part = "shell" THEN ShellInit ELSE ShellOut
  /\ IF part = "answers" THEN AnswersInit ELSE AnswersOut

TogetherNext ==
  \/ part = "tabs"      /\ Next   /\ UNCHANGED <<part, outputs, encoders, offlineVars, shellVars, answersVars>>
  \/ part = "moves"     /\ M!Next /\ UNCHANGED <<part, vars, encoders, offlineVars, shellVars, answersVars>>
  \/ part = "alone"     /\ A!Next /\ UNCHANGED <<part, vars, encoders, offlineVars, shellVars, answersVars>>
  \/ part = "encoders"  /\ T!Next /\ UNCHANGED <<part, vars, outputs, offlineVars, shellVars, answersVars>>
  \/ part = "listeners" /\ L!Next /\ UNCHANGED <<part, vars, outputs, offlineVars, shellVars, answersVars>>
  \/ part = "offline"   /\ OfflineNext /\ UNCHANGED <<part, vars, outputs, encoders, shellVars, answersVars>>
  \/ part = "shell"     /\ ShellNext /\ UNCHANGED <<part, vars, outputs, encoders, offlineVars, answersVars>>
  \/ part = "answers"   /\ AnswersNext /\ UNCHANGED <<part, vars, outputs, encoders, offlineVars, shellVars>>

Together ==
  TogetherInit /\ [][TogetherNext]_<<part, vars, outputs, encoders, offlineVars, shellVars, answersVars>>

\* The variables of the component that moves keep their types.
TypesOK ==
  /\ part = "tabs"      => TypeOK
  /\ part = "moves"     => M!TypeOK
  /\ part = "alone"     => A!TypeOK
  /\ part = "encoders"  => T!TypeOK
  /\ part = "listeners" => L!TypeOK
  /\ part = "offline"   => OfflineTypeOK
  /\ part = "shell"     => ShellTypeOK
  /\ part = "answers"   => AnswersTypeOK

\* Handoff, whatever it is asked meanwhile.
NewestWins  == [][part = "moves" => M!Newest]_outputs

\* Handoff, one thing at a time.
AloneAtRest == part = "alone" => A!AloneAtRest

\* Transcode: no slot is given out over the caps, nor left free beside a sleeper.
SlotsExact ==
  /\ part = "encoders"  => T!LoadCapped
  /\ part = "listeners" => L!LoadCapped /\ L!SleepersBlocked

Alike == Sockets \cup Permutations({v1, v2}) \cup Permutations(Trio)
=============================================================================
