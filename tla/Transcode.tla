----------------------------- MODULE Transcode -----------------------------
(* Transcodes (server/src/stream.ts): who may run ffmpeg, which run of it makes
   which variant, and who waits for it.

   A variant is a (track, profile) pair.  A run is one pass of ensureHls' inner
   function, from asking for a slot to the end of its ffmpeg; a run without a
   variant is one listener's own progressive stream.  `running` joins requests
   for one variant, `finishing` says when its ffmpeg is over, and the `done`
   file in the variant's directory that it need not be made again.  Segments
   are counted: none, at least the first (RUNWAY), all of them. *)
EXTENDS Integers, Sequences, FiniteSets

CONSTANTS
  Variants,
  Requests,      \* requests: each is made once and answered once
  Warmers,    \* the warms that may be under way (WARM_CONCURRENCY)
  FgCap,      \* config.transcodeConcurrency
  LiveFloor,  \* the live cap is at least this (6)
  WarmMax,    \* WARM_QUEUE_MAX
  MaxRuns,    \* bound on the runs
  Env         \* what may be asked and happen: "play", "pre" (a prewarm or a
              \* climb), "whole", "direct", "warm"; and "fail"

Nil == 0
Runs == 1..MaxRuns

ASSUME TranscodeAssumption ==
  /\ FgCap \in Nat \ {0} /\ LiveFloor \in Nat \ {0}
  /\ WarmMax \in Nat \ {0} /\ MaxRuns \in Nat
  /\ Nil \notin Variants /\ Requests \cap Warmers = {}
  /\ IsFiniteSet(Variants)

VARIABLES
  run,        \* run[r]: its variant, kind of slot, progress, ffmpeg and slot held
  live, fg,   \* liveFf, fgActive
  running,    \* variant -> the run requests for it join
  finishing,  \* variant -> the run whose ffmpeg is not over
  dir,        \* dir[v]: the segments there and the done marker
  call,       \* call[c]: what it asked for and the run it waits for
  queue       \* warmQueue

vars == <<run, live, fg, running, finishing, dir, call, queue>>

Callers == Requests \cup Warmers
MaxLive == IF 2 * FgCap > LiveFloor THEN 2 * FgCap ELSE LiveFloor

(* A run waits for a slot (asleep until woken), clears and makes its directory,
   and polls the encode until it has started, or has been given up (stalling:
   after the last look, until it is killed) and failed.                     *)
Phase == {"unborn", "asleep", "awake", "clear", "make", "encode", "stalling", "started", "failed"}
\* ffmpeg: running, sent SIGKILL, exited before its event is handled, exited
\* well with the marker being written, over.
Proc  == {"none", "alive", "killed", "exit0", "exit1", "marking", "done", "failed"}

TypeOK ==
  /\ run \in [Runs -> [of : Variants \cup {Nil}, kind : {"fg", "live"}, phase : Phase,
                       proc : Proc, slot : {"none", "fg", "live", "back"}]]
  /\ live \in 0..MaxLive /\ fg \in 0..FgCap
  /\ running \in [Variants -> Runs \cup {Nil}]
  /\ finishing \in [Variants -> Runs \cup {Nil}]
  /\ dir \in [Variants -> [segs : 0..2, done : BOOLEAN]]
  /\ call \in [Callers -> [is : {"idle", "wait", "finish", "stream", "gone", "ok", "refused"},
                           for : {"none", "play", "pre", "whole", "direct", "warm"},
                           of : Variants \cup {Nil}, on : Runs \cup {Nil}]]
  /\ queue \in Seq(Variants) /\ Len(queue) <= WarmMax

Idle == [is |-> "idle", for |-> "none", of |-> Nil, on |-> Nil]

Init ==
  /\ run = [r \in Runs |-> [of |-> Nil, kind |-> "live", phase |-> "unborn",
                            proc |-> "none", slot |-> "none"]]
  /\ live = 0 /\ fg = 0
  /\ running = [v \in Variants |-> Nil]
  /\ finishing = [v \in Variants |-> Nil]
  /\ dir = [v \in Variants |-> [segs |-> 0, done |-> FALSE]]
  /\ call = [c \in Callers |-> Idle]
  /\ queue = <<>>

-----------------------------------------------------------------------------
(* Slots.                                                                  *)

Full(kind) == live >= MaxLive \/ (kind = "fg" /\ fg >= FgCap)

\* wake(): every waiter looks again.
Woken(rs) == [r \in Runs |-> IF rs[r].phase = "asleep" THEN [rs[r] EXCEPT !.phase = "awake"]
                                                       ELSE rs[r]]

\* A listener's own stream starts its ffmpeg at once.
Granted(x) == [x EXCEPT !.slot = x.kind,
                        !.phase = IF x.of = Nil THEN "started" ELSE "clear",
                        !.proc = IF x.of = Nil THEN "alive" ELSE "none"]

\* The loop of acquire(), from the top: wait, or take the slot.
Acquire(r, x) ==
  \/ /\ Full(x.kind)
     /\ run' = [run EXCEPT ![r] = [x EXCEPT !.phase = "asleep"]]
     /\ UNCHANGED <<live, fg>>
  \/ /\ ~Full(x.kind)
     /\ run' = [run EXCEPT ![r] = Granted(x)]
     /\ live' = live + 1
     /\ fg' = IF x.kind = "fg" THEN fg + 1 ELSE fg

\* slot.startable(): the foreground half of the slot goes back, once.
StartableAsleep(r, rs) ==
  /\ run' = [rs EXCEPT ![r].slot = IF @ = "fg" THEN "live" ELSE @]
  /\ fg' = IF rs[r].slot = "fg" THEN fg - 1 ELSE fg
  /\ UNCHANGED live

Startable(r, rs) ==
  /\ run' = IF rs[r].slot = "fg" THEN Woken([rs EXCEPT ![r].slot = "live"]) ELSE rs
  /\ fg' = IF rs[r].slot = "fg" THEN fg - 1 ELSE fg
  /\ UNCHANGED live

\* slot(): all of it, once, however often it is called.
ReleaseAgain(r, rs) ==
  /\ run' = Woken([rs EXCEPT ![r].slot = "back"])
  /\ fg' = IF rs[r].slot = "fg" THEN fg - 1 ELSE fg
  /\ live' = live - 1

Release(r, rs) ==
  LET held == rs[r].slot \in {"fg", "live"}
  IN /\ run' = IF held THEN Woken([rs EXCEPT ![r].slot = "back"]) ELSE rs
     /\ fg' = IF rs[r].slot = "fg" THEN fg - 1 ELSE fg
     /\ live' = IF held THEN live - 1 ELSE live

TakeOnWaking(r) ==
  /\ run[r].phase = "awake"
  /\ run' = [run EXCEPT ![r] = Granted(run[r])]
  /\ live' = live + 1
  /\ fg' = IF run[r].kind = "fg" THEN fg + 1 ELSE fg
  /\ UNCHANGED <<running, finishing, dir, call, queue>>

Recheck(r) ==
  /\ run[r].phase = "awake"
  /\ Acquire(r, run[r])
  /\ UNCHANGED <<running, finishing, dir, call, queue>>

\* Nothing came free in time: Busy.
Timeout(r) ==
  /\ run[r].phase = "asleep"
  /\ run' = [run EXCEPT ![r].phase = "failed"]
  /\ UNCHANGED <<live, fg, running, finishing, dir, call, queue>>

-----------------------------------------------------------------------------
(* The encode of a variant.                                                *)

\* rm and mkdir, then ffmpeg.
Clear(r) ==
  /\ run[r].phase = "clear"
  /\ run' = [run EXCEPT ![r].phase = "make"]
  /\ dir' = [dir EXCEPT ![run[r].of] = [segs |-> 0, done |-> FALSE]]
  /\ UNCHANGED <<live, fg, running, finishing, call, queue>>

Spawn(r) ==
  /\ run[r].phase = "make"
  /\ run' = [run EXCEPT ![r].phase = "encode", ![r].proc = "alive"]
  /\ finishing' = [finishing EXCEPT ![run[r].of] = r]
  /\ UNCHANGED <<live, fg, running, dir, call, queue>>

CannotPrepare(r) ==
  /\ "fail" \in Env
  /\ run[r].phase \in {"clear", "make"}
  /\ Release(r, [run EXCEPT ![r].phase = "failed"])
  /\ UNCHANGED <<running, finishing, dir, call, queue>>

\* ffmpeg itself: it writes segments and exits; killed, it only exits.
Encode(r) ==
  /\ run[r].proc = "alive" /\ run[r].of # Nil
  /\ dir[run[r].of].segs < 2
  /\ dir' = [dir EXCEPT ![run[r].of].segs = @ + 1]
  /\ UNCHANGED <<run, live, fg, running, finishing, call, queue>>

Exit(r) ==
  /\ \/ /\ run[r].proc = "alive"
        /\ \/ /\ run[r].of # Nil => dir[run[r].of].segs = 2
              /\ run' = [run EXCEPT ![r].proc = "exit0"]
           \/ "fail" \in Env /\ run' = [run EXCEPT ![r].proc = "exit1"]
     \/ run[r].proc = "killed" /\ run' = [run EXCEPT ![r].proc = "exit1"]
  /\ UNCHANGED <<live, fg, running, finishing, dir, call, queue>>

Killed(r, rs) == [rs EXCEPT ![r].proc = IF @ = "alive" THEN "killed" ELSE @]

\* Only the run that owns the entry takes it out.
WithoutAny(map, v, r) == [map EXCEPT ![v] = Nil]

Without(map, v, r) == [map EXCEPT ![v] = IF @ = r THEN Nil ELSE @]

\* fin: a clean exit writes the done marker, and after it or any other exit the
\* slot goes back and the maps forget the run.
AlsoMarks(p) == p \in {"exit0", "exit1"}

Marks(p) == p = "exit0"

Exited(r) ==
  /\ run[r].proc \in {"exit0", "exit1"}
  /\ IF run[r].of = Nil
     THEN /\ Release(r, [run EXCEPT ![r].proc = "done"])
          /\ UNCHANGED <<running, finishing>>
     ELSE IF Marks(run[r].proc)
     THEN /\ run' = [run EXCEPT ![r].proc = "marking"]
          /\ UNCHANGED <<live, fg, running, finishing>>
     ELSE /\ Release(r, [run EXCEPT ![r].proc = "failed"])
          /\ running' = Without(running, run[r].of, r)
          /\ finishing' = Without(finishing, run[r].of, r)
  /\ UNCHANGED <<dir, call, queue>>

\* The marker is written into the directory as it is now: another run may have
\* cleared it, and the write fails while it is not made again.
Mark(r) ==
  /\ run[r].proc = "marking"
  /\ \/ dir' = [dir EXCEPT ![run[r].of].done = TRUE]
     \/ /\ "fail" \in Env \/ \E q \in Runs : run[q].of = run[r].of /\ run[q].phase = "make"
        /\ UNCHANGED dir
  /\ Release(r, [run EXCEPT ![r].proc = "done"])
  /\ running' = Without(running, run[r].of, r)
  /\ finishing' = Without(finishing, run[r].of, r)
  /\ UNCHANGED <<call, queue>>

\* The poll for the first segment, every 50 ms.
Over(r) == run[r].proc \in {"marking", "done", "failed"}

Poll(r) ==
  /\ run[r].phase = "encode"
  /\ \/ /\ Over(r)
        /\ run' = [run EXCEPT ![r].phase = IF run[r].proc = "failed" THEN "failed" ELSE "started"]
        /\ UNCHANGED <<live, fg>>
     \/ /\ ~Over(r) /\ dir[run[r].of].segs > 0
        /\ Startable(r, [run EXCEPT ![r].phase = "started"])
  /\ UNCHANGED <<running, finishing, dir, call, queue>>

\* 30 s without a segment.  The last look is followed by one more sleep, in which
\* ffmpeg goes on; then, without another look, it is killed and a later request
\* may start afresh.
LastLook(r) ==
  /\ run[r].phase = "encode" /\ ~Over(r) /\ dir[run[r].of].segs = 0
  /\ run' = [run EXCEPT ![r].phase = "stalling"]
  /\ UNCHANGED <<live, fg, running, finishing, dir, call, queue>>

Stall(r) ==
  /\ run[r].phase = "stalling"
  /\ run' = Killed(r, [run EXCEPT ![r].phase = "failed"])
  /\ running' = Without(running, run[r].of, r)
  /\ UNCHANGED <<live, fg, finishing, dir, call, queue>>

\* Still encoding long after it started: killed.
Never(r) == FALSE

Overstayed(r) == run[r].of # Nil /\ run[r].phase = "started" /\ run[r].proc = "alive"

Deadline(r) ==
  /\ Overstayed(r)
  /\ run' = Killed(r, run)
  /\ UNCHANGED <<live, fg, running, finishing, dir, call, queue>>

-----------------------------------------------------------------------------
(* Who asks.                                                               *)

Unborn == {r \in Runs : run[r].phase = "unborn"}

\* The next run (a bound: one is left for each variant queued).
Fresh(r) == r \in Unborn /\ Cardinality(Unborn) > Len(queue) /\ \A x \in Unborn : r <= x

NewRun(v, kind) == [of |-> v, kind |-> kind, phase |-> "unborn", proc |-> "none", slot |-> "none"]

\* ensureHls for a variant that is not done: join the run there is, or start one.
Ensure(c, for, v, kind, left) ==
  \E r \in Runs :
    /\ call' = [call EXCEPT ![c] = [is |-> "wait", for |-> for, of |-> v, on |-> r]]
    /\ \/ /\ running[v] = r
          /\ UNCHANGED <<run, live, fg, running>>
       \/ /\ running[v] = Nil /\ r \in Unborn /\ (\A x \in Unborn : r <= x)
          /\ Cardinality(Unborn) > Len(left)
          /\ Acquire(r, NewRun(v, kind))
          /\ running' = [running EXCEPT ![v] = r]

\* A playlist asked for by a player about to play, or ahead of time; the whole
\* song as one file.
Ask(c, for, v) ==
  /\ for \in Env /\ call[c].is = "idle"
  /\ \/ /\ dir[v].done
        /\ call' = [call EXCEPT ![c] = [is |-> "ok", for |-> for, of |-> v, on |-> Nil]]
        /\ UNCHANGED <<run, live, fg, running>>
     \/ /\ ~dir[v].done
        /\ Ensure(c, for, v, IF for = "play" THEN "fg" ELSE "live", queue)
  /\ UNCHANGED <<finishing, dir, queue>>

\* A listener's own stream (mp3, download).
Listen(c) ==
  /\ "direct" \in Env /\ call[c].is = "idle"
  /\ \E r \in Runs :
       /\ Fresh(r)
       /\ Acquire(r, NewRun(Nil, "live"))
       /\ call' = [call EXCEPT ![c] = [is |-> "stream", for |-> "direct", of |-> Nil, on |-> r]]
  /\ UNCHANGED <<running, finishing, dir, queue>>

\* The listener goes: ffmpeg is killed, and the slot of an mp3 goes back at once,
\* that of a download with ffmpeg's exit.
Hangup(c) ==
  /\ call[c].is = "stream" /\ run[call[c].on].phase = "started"
  /\ \/ Release(call[c].on, Killed(call[c].on, run))
     \/ run' = Killed(call[c].on, run) /\ UNCHANGED <<live, fg>>
  /\ call' = [call EXCEPT ![c].is = "ok"]
  /\ UNCHANGED <<running, finishing, dir, queue>>

\* The listener goes while its slot is awaited.  Nobody listens for that yet: the
\* run takes its slot all the same, and nothing but its own end ends its ffmpeg.
LeaveWaiting(c) ==
  /\ call[c].is = "stream" /\ run[call[c].on].phase \in {"asleep", "awake"}
  /\ call' = [call EXCEPT ![c].is = "gone"]
  /\ UNCHANGED <<run, live, fg, running, finishing, dir, queue>>

Answer(c, is) ==
  /\ call' = [call EXCEPT ![c].is = is]
  /\ UNCHANGED <<run, live, fg, running, finishing, dir, queue>>

Wait(c) ==
  LET p == run[call[c].on].phase
  IN /\ c \in Requests
     /\ \/ call[c].is \in {"wait", "stream"} /\ p = "failed" /\ Answer(c, "refused")
        \/ /\ call[c].is = "wait" /\ p = "started" /\ call[c].for # "whole"
           /\ Answer(c, "ok")

\* Those who want the whole song go on to wait for the end of its ffmpeg.
WaitOn(c) ==
  /\ call[c].is = "wait" /\ call[c].for \in {"whole", "warm"}
  /\ run[call[c].on].phase = "started"
  /\ call' = [call EXCEPT ![c].is = "finish", ![c].on = finishing[call[c].of]]
  /\ UNCHANGED <<run, live, fg, running, finishing, dir, queue>>

Ended(c) ==
  call[c].is = "finish" /\ call[c].on \in {Nil} \cup {r \in Runs : run[r].proc \in {"done", "failed"}}

Whole(c) ==
  /\ c \in Requests /\ Ended(c)
  /\ Answer(c, IF dir[call[c].of].done THEN "ok" ELSE "refused")

\* pumpWarm, when warmer w is free: the first variant queued that is not done.
Pump(w, q) ==
  LET due == {i \in 1..Len(q) : ~dir[q[i]].done}
  IN \/ /\ due = {}
        /\ queue' = <<>> /\ call' = [call EXCEPT ![w] = Idle]
        /\ UNCHANGED <<run, live, fg, running>>
     \/ \E i \in due :
          /\ \A j \in due : i <= j
          /\ queue' = SubSeq(q, i + 1, Len(q))
          /\ Ensure(w, "warm", q[i], "live", SubSeq(q, i + 1, Len(q)))

\* warm(): queued unless it is queued, running or done; the oldest goes when the
\* queue is full.
Warm(v) ==
  /\ "warm" \in Env /\ Cardinality(Unborn) > Len(queue)
  /\ running[v] = Nil /\ ~dir[v].done /\ (\A i \in 1..Len(queue) : queue[i] # v)
  /\ LET q    == Append(IF Len(queue) >= WarmMax THEN Tail(queue) ELSE queue, v)
         free == {w \in Warmers : call[w].is = "idle"}
     IN \/ free = {} /\ queue' = q /\ UNCHANGED <<run, live, fg, running, call>>
        \/ \E w \in free : Pump(w, q)
  /\ UNCHANGED <<finishing, dir>>

Warmed(w) ==
  /\ w \in Warmers
  /\ Ended(w) \/ (call[w].is = "wait" /\ run[call[w].on].phase = "failed")
  /\ Pump(w, queue)
  /\ UNCHANGED <<finishing, dir>>

-----------------------------------------------------------------------------
RunStep(r) ==
  \/ Recheck(r) \/ Timeout(r) \/ Clear(r) \/ Spawn(r) \/ CannotPrepare(r)
  \/ Poll(r) \/ LastLook(r) \/ Stall(r) \/ Deadline(r) \/ Exited(r) \/ Mark(r)

CallStep(c) == Wait(c) \/ WaitOn(c) \/ Whole(c) \/ Warmed(c)

Next ==
  \/ \E r \in Runs : RunStep(r) \/ Encode(r) \/ Exit(r)
  \/ \E c \in Callers : CallStep(c) \/ Hangup(c) \/ LeaveWaiting(c)
  \/ \E c \in Requests : Listen(c) \/ \E v \in Variants, f \in {"play", "pre", "whole"} : Ask(c, f, v)
  \/ \E v \in Variants : Warm(v)

Spec == Init /\ [][Next]_vars

\* Timers fire and callbacks run, a killed ffmpeg exits and a listener leaves at
\* some time; ffmpeg may hang, and nobody has to ask for anything.  That they do
\* for one run or call at a time is enough: each of these steps is progress.
SomeRunSteps    == \E r \in Runs : RunStep(r)
SomeKilledExits == \E r \in Runs : run[r].proc = "killed" /\ Exit(r)
SomeCallSteps   == \E c \in Callers : CallStep(c)
SomeoneHangsUp  == \E c \in Callers : Hangup(c)

Fairness ==
  WF_vars(SomeRunSteps) /\ WF_vars(SomeKilledExits) /\ WF_vars(SomeCallSteps) /\ WF_vars(SomeoneHangsUp)

FairSpec == Spec /\ Fairness

-----------------------------------------------------------------------------
(* Properties.                                                             *)

\* stream.ts:151-153: "a hard cap on ffmpeg encodes alive at once": a slot that is
\* given back twice, at the listener's close and at ffmpeg's exit, or a waiter
\* that does not look again, would let one more start.
LoadCapped ==
  /\ Cardinality({r \in Runs : run[r].proc = "alive"}) <= MaxLive
  /\ Cardinality({r \in Runs : /\ run[r].kind = "fg"
                               /\ \/ run[r].phase \in {"clear", "make"}
                                  \/ run[r].phase \in {"encode", "stalling"} /\ run[r].proc = "alive"}) <= FgCap

\* An encode that is writing is the one `running` names.  Segment requests wait
\* only while it does (stream.ts:612), trimming spares its directory (659), and a
\* second ffmpeg is never started in it: not by the late exit of a stalled run
\* either, which may not take out its successor's entry.
AliveIsRunning ==
  \A r \in Runs : run[r].proc = "alive" /\ run[r].of # Nil => running[run[r].of] = r

\* A variant marked done has all its segments: it will never be made again.  One
\* thing spoils that: a run whose ffmpeg ended well in its last sleep and was
\* taken for stalled, so that another run clears the directory before the marker
\* lands (stream.ts:239-243, 225).
LateExit(v) == \E r \in Runs : run[r].of = v /\ run[r].phase = "failed" /\ run[r].proc = "done"

DoneComplete == \A v \in Variants : dir[v].done => dir[v].segs = 2 \/ LateExit(v)

\* Nobody sleeps beside a free slot: what gives one back wakes every waiter.
SleepersBlocked == \A r \in Runs : run[r].phase = "asleep" => Full(run[r].kind)

\* The run of a listener who left while its slot was awaited (stream.ts:455, 461).
Forsaken(r) == \E c \in Callers : call[c].is = "gone" /\ call[c].on = r

\* Whatever hangs or fails, every request is answered in the end and every slot
\* comes back, but those of the ffmpegs that nobody is left to kill.
Settles ==
  <>[](/\ fg = 0 /\ live = Cardinality({r \in Runs : Forsaken(r) /\ run[r].proc = "alive"})
       /\ \A c \in Callers : call[c].is \in {"idle", "gone", "ok", "refused"})

\* stream.ts:241-243: a failed run is not what later requests for the variant
\* get; they start one of their own.
RetryStartsAfresh == \A v \in Variants : running[v] # Nil => run[running[v]].phase # "failed"
=============================================================================
