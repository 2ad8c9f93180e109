-------------------------- MODULE TranscodeProofs --------------------------
(* Proofs about Transcode for any number of variants, requests and runs and
   any caps.  The inductive invariant is in two parts.  Slots: the two counters
   are what the runs hold, and a run's stage says what it may hold.  Mapped: a
   run that prepares or encodes a variant is the one `running` names, so what
   it leaves in the directory is its own, until it is taken for stalled.    *)
EXTENDS Transcode, TLAPS, FiniteSetTheorems

RunRec == [of : Variants \cup {Nil}, kind : {"fg", "live"}, phase : Phase,
           proc : Proc, slot : {"none", "fg", "live", "back"}]

CallRec == [is : {"idle", "wait", "finish", "stream", "gone", "ok", "refused"},
            for : {"none", "play", "pre", "whole", "direct", "warm"},
            of : Variants \cup {Nil}, on : Runs \cup {Nil}]

HeldOf(rs) == {r \in Runs : rs[r].slot \in {"fg", "live"}}
FgOf(rs)   == {r \in Runs : rs[r].slot = "fg"}

\* What a run may hold at its stage: its slot from the grant to the end of its
\* ffmpeg, the foreground half until its first segment.
Fits(x) ==
  /\ x.phase \in {"unborn", "asleep", "awake"} => x.slot = "none" /\ x.proc = "none"
  /\ x.phase \in {"clear", "make"} => x.slot = x.kind /\ x.proc = "none" /\ x.of # Nil
  /\ x.proc = "alive" => x.slot \in {"fg", "live"}
  /\ x.proc = "alive" /\ x.phase \in {"encode", "stalling"} /\ x.kind = "fg" => x.slot = "fg"

BlockedAt(rs, l, f) ==
  \A r \in Runs : rs[r].phase = "asleep" => l >= MaxLive \/ (rs[r].kind = "fg" /\ f >= FgCap)

Slots(rs, l, f) ==
  /\ rs \in [Runs -> RunRec]
  /\ l \in 0..MaxLive /\ l = Cardinality(HeldOf(rs))
  /\ f \in 0..FgCap /\ f = Cardinality(FgOf(rs))
  /\ \A r \in Runs : Fits(rs[r])
  /\ BlockedAt(rs, l, f)

Preparing == {"asleep", "awake", "clear", "make"}

\* Ended well, and not taken for stalled before that was seen.
EndedWell(x) == x.of # Nil /\ x.phase # "failed" /\ x.proc \in {"exit0", "marking"}

Owns(x) == (x.of # Nil /\ (x.phase \in Preparing \/ x.proc = "alive")) \/ EndedWell(x)

Owned == \A r \in Runs : Owns(run[r]) => running[run[r].of] = r

\* Once its ffmpeg has ended well, a run's directory holds the whole song.
Finished == \A r \in Runs : EndedWell(run[r]) => dir[run[r].of].segs = 2

Asked == \A c \in Callers : /\ call[c].is \in {"wait", "stream"} => call[c].on \in Runs
                            /\ call[c].is = "wait" => call[c].of \in Variants

MapsType ==
  /\ running \in [Variants -> Runs \cup {Nil}]
  /\ finishing \in [Variants -> Runs \cup {Nil}]
  /\ dir \in [Variants -> [segs : 0..2, done : BOOLEAN]]
  /\ call \in [Callers -> CallRec]
  /\ queue \in Seq(Variants) /\ Len(queue) <= WarmMax

Mapped == MapsType /\ Owned /\ Finished /\ DoneComplete /\ Asked

IInv == Slots(run, live, fg) /\ Mapped

-----------------------------------------------------------------------------
(* The slots.                                                              *)

LEMMA CapsAreNat == MaxLive \in Nat /\ FgCap \in Nat /\ MaxRuns \in Nat
BY TranscodeAssumption DEF MaxLive

LEMMA RunsFinite == IsFiniteSet(Runs) /\ Nil \notin Runs
BY CapsAreNat, FS_Interval DEF Runs, Nil

LEMMA HeldFinite ==
  ASSUME NEW rs
  PROVE  /\ IsFiniteSet(HeldOf(rs)) /\ Cardinality(HeldOf(rs)) \in Nat
         /\ IsFiniteSet(FgOf(rs)) /\ Cardinality(FgOf(rs)) \in Nat
<1>1. HeldOf(rs) \subseteq Runs /\ FgOf(rs) \subseteq Runs
  BY DEF HeldOf, FgOf
<1>2. IsFiniteSet(HeldOf(rs)) /\ IsFiniteSet(FgOf(rs))
  BY <1>1, RunsFinite, FS_Subset
<1> QED BY <1>2, FS_CardinalityType

\* A step of a run that keeps its slot, and does not fall asleep, keeps the counts.
LEMMA MoveKeeps ==
  ASSUME Slots(run, live, fg), NEW r \in Runs, NEW g \in [Runs -> RunRec],
         \A q \in Runs \ {r} : g[q] = run[q],
         g[r].slot = run[r].slot, g[r].phase # "asleep", Fits(g[r])
  PROVE  Slots(g, live, fg)
<1>1. HeldOf(g) = HeldOf(run) /\ FgOf(g) = FgOf(run)
  BY DEF HeldOf, FgOf
<1>2. \A q \in Runs : Fits(g[q])
  BY DEF Slots
<1>3. BlockedAt(g, live, fg)
  BY DEF Slots, BlockedAt
<1> QED BY <1>1, <1>2, <1>3 DEF Slots

\* acquire(): who finds no slot sleeps, who finds one is counted.
LEMMA AcquireKeeps ==
  ASSUME Slots(run, live, fg), NEW r \in Runs, NEW x \in RunRec,
         run[r].slot = "none", x.slot = "none", x.proc = "none", Acquire(r, x)
  PROVE  /\ Slots(run', live', fg')
         /\ run'[r].of = x.of
         /\ run'[r].proc \in {"none", "alive"} /\ (run'[r].proc = "alive" => x.of = Nil)
         /\ \A q \in Runs \ {r} : run'[q] = run[q]
<1>0. live \in Nat /\ fg \in Nat /\ run \in [Runs -> RunRec]
  BY CapsAreNat DEF Slots
<1>1. CASE Full(x.kind) /\ run' = [run EXCEPT ![r] = [x EXCEPT !.phase = "asleep"]]
           /\ UNCHANGED <<live, fg>>
  <2> DEFINE y == [x EXCEPT !.phase = "asleep"]
  <2>1. y \in RunRec /\ y.slot = "none" /\ y.proc = "none" /\ y.phase = "asleep"
        /\ y.of = x.of /\ y.kind = x.kind /\ Fits(y)
    BY DEF RunRec, Phase, Fits
  <2> HIDE DEF y
  <2>2. run' \in [Runs -> RunRec] /\ run'[r] = y /\ \A q \in Runs \ {r} : run'[q] = run[q]
    BY <1>0, <1>1, <2>1 DEF y
  <2>3. HeldOf(run') = HeldOf(run) /\ FgOf(run') = FgOf(run)
    BY <2>1, <2>2 DEF HeldOf, FgOf
  <2>4. BlockedAt(run', live, fg)
    BY <1>1, <2>1, <2>2 DEF BlockedAt, Slots, Full
  <2>5. \A q \in Runs : Fits(run'[q])
    BY <2>1, <2>2 DEF Slots
  <2> QED BY <1>1, <2>1, <2>2, <2>3, <2>4, <2>5 DEF Slots
<1>2. CASE ~Full(x.kind) /\ run' = [run EXCEPT ![r] = Granted(x)] /\ live' = live + 1
           /\ fg' = IF x.kind = "fg" THEN fg + 1 ELSE fg
  <2> DEFINE y == Granted(x)
  <2>1. /\ y \in RunRec /\ y.slot = x.kind /\ y.of = x.of /\ y.kind = x.kind
        /\ y.phase \in {"started", "clear"} /\ y.proc \in {"none", "alive"}
        /\ y.proc = "alive" => x.of = Nil /\ y.phase = "started"
        /\ y.phase = "clear" => x.of # Nil
        /\ x.kind \in {"fg", "live"}
    BY DEF RunRec, Phase, Proc, Granted
  <2>2. Fits(y)
    BY <2>1 DEF Fits
  <2> HIDE DEF y
  <2>3. run' \in [Runs -> RunRec] /\ run'[r] = y /\ \A q \in Runs \ {r} : run'[q] = run[q]
    BY <1>0, <1>2, <2>1 DEF y
  <2>4. HeldOf(run') = HeldOf(run) \cup {r} /\ r \notin HeldOf(run)
    BY <2>1, <2>3 DEF HeldOf
  <2>5. Cardinality(HeldOf(run')) = live + 1
    BY <2>4, HeldFinite, FS_AddElement DEF Slots
  <2>6. Cardinality(FgOf(run')) = fg'
    <3>1. CASE x.kind = "fg"
      <4>1. FgOf(run') = FgOf(run) \cup {r} /\ r \notin FgOf(run)
        BY <2>1, <2>3, <3>1 DEF FgOf
      <4> QED BY <1>2, <3>1, <4>1, HeldFinite, FS_AddElement DEF Slots
    <3>2. CASE x.kind # "fg"
      <4>1. FgOf(run') = FgOf(run)
        BY <2>1, <2>3, <3>2 DEF FgOf
      <4> QED BY <1>2, <3>2, <4>1 DEF Slots
    <3> QED BY <3>1, <3>2
  <2>7. live' \in 0..MaxLive /\ fg' \in 0..FgCap
    BY <1>0, <1>2, CapsAreNat DEF Full, Slots
  <2>8. BlockedAt(run', live', fg')
    BY <1>0, <1>2, <2>1, <2>3, CapsAreNat DEF BlockedAt, Slots
  <2>9. \A q \in Runs : Fits(run'[q])
    BY <2>2, <2>3 DEF Slots
  <2> QED BY <1>2, <2>1, <2>3, <2>5, <2>6, <2>7, <2>8, <2>9 DEF Slots
<1> QED BY <1>1, <1>2 DEF Acquire

SameButAwake(x, y) ==
  /\ x.of = y.of /\ x.kind = y.kind /\ x.proc = y.proc /\ x.slot = y.slot
  /\ x.phase = y.phase \/ (x.phase = "awake" /\ y.phase = "asleep")

\* wake(): nobody is left asleep, and nothing else changes.
LEMMA WakingKeeps ==
  ASSUME NEW g \in [Runs -> RunRec], \A q \in Runs : Fits(g[q])
  PROVE  /\ Woken(g) \in [Runs -> RunRec]
         /\ \A q \in Runs : /\ Fits(Woken(g)[q]) /\ Woken(g)[q].phase # "asleep"
                            /\ SameButAwake(Woken(g)[q], g[q])
<1> DEFINE w(q) == IF g[q].phase = "asleep" THEN [g[q] EXCEPT !.phase = "awake"] ELSE g[q]
<1>1. ASSUME NEW q \in Runs
      PROVE  w(q) \in RunRec /\ Fits(w(q)) /\ w(q).phase # "asleep" /\ SameButAwake(w(q), g[q])
  <2>1. g[q] \in RunRec /\ Fits(g[q])
    OBVIOUS
  <2>2. CASE g[q].phase = "asleep"
    <3> DEFINE y == [g[q] EXCEPT !.phase = "awake"]
    <3>1. y \in RunRec /\ y.phase = "awake" /\ y.slot = g[q].slot /\ y.proc = g[q].proc
          /\ y.of = g[q].of /\ y.kind = g[q].kind
      BY <2>1 DEF RunRec, Phase
    <3>2. Fits(y)
      BY <2>1, <2>2, <3>1 DEF Fits
    <3> QED BY <2>2, <3>1, <3>2 DEF SameButAwake
  <2>3. CASE g[q].phase # "asleep"
    BY <2>1, <2>3 DEF SameButAwake
  <2> QED BY <2>2, <2>3
<1>2. Woken(g) = [q \in Runs |-> w(q)]
  BY DEF Woken
<1> HIDE DEF w
<1> QED BY <1>1, <1>2

\* slot(): the counters give back what the run held, and everyone looks again.
LEMMA ReleaseKeeps ==
  ASSUME NEW g, Slots(g, live, fg), NEW r \in Runs,
         g[r].phase \in {"encode", "stalling", "started", "failed"}, g[r].proc # "alive",
         Release(r, g)
  PROVE  /\ Slots(run', live', fg')
         /\ \A q \in Runs : q # r => SameButAwake(run'[q], g[q])
         /\ run'[r].of = g[r].of /\ run'[r].kind = g[r].kind
         /\ run'[r].phase = g[r].phase /\ run'[r].proc = g[r].proc
<1>0. live \in Nat /\ fg \in Nat /\ g \in [Runs -> RunRec]
  BY CapsAreNat DEF Slots
<1>1. CASE g[r].slot \notin {"fg", "live"}
  <2>1. run' = g /\ live' = live /\ fg' = fg
    BY <1>1 DEF Release
  <2> QED BY <2>1 DEF SameButAwake
<1>2. CASE g[r].slot \in {"fg", "live"}
  <2> DEFINE h == [g EXCEPT ![r].slot = "back"]
  <2>1. /\ h \in [Runs -> RunRec] /\ \A q \in Runs \ {r} : h[q] = g[q]
        /\ h[r].slot = "back" /\ h[r].of = g[r].of /\ h[r].kind = g[r].kind
        /\ h[r].phase = g[r].phase /\ h[r].proc = g[r].proc
    BY <1>0 DEF RunRec
  <2>2. /\ run' = Woken(h) /\ live' = live - 1
        /\ fg' = IF g[r].slot = "fg" THEN fg - 1 ELSE fg
    BY <1>2 DEF Release
  <2> HIDE DEF h
  <2>3. \A q \in Runs : Fits(h[q])
    BY <2>1 DEF Slots, Fits
  <2>4. /\ run' \in [Runs -> RunRec]
        /\ \A q \in Runs : Fits(run'[q]) /\ run'[q].phase # "asleep" /\ SameButAwake(run'[q], h[q])
    BY <2>1, <2>2, <2>3, WakingKeeps
  <2>5. HeldOf(run') = HeldOf(g) \ {r} /\ r \in HeldOf(g)
    BY <1>2, <2>1, <2>4 DEF HeldOf, SameButAwake
  <2>6. Cardinality(HeldOf(run')) = live - 1
    BY <2>5, HeldFinite, FS_RemoveElement DEF Slots
  <2>7. Cardinality(FgOf(run')) = fg'
    <3>1. CASE g[r].slot = "fg"
      <4>1. FgOf(run') = FgOf(g) \ {r} /\ r \in FgOf(g)
        BY <2>1, <2>4, <3>1 DEF FgOf, SameButAwake
      <4> QED BY <2>2, <3>1, <4>1, HeldFinite, FS_RemoveElement DEF Slots
    <3>2. CASE g[r].slot # "fg"
      <4>1. FgOf(run') = FgOf(g)
        BY <2>1, <2>4, <3>2 DEF FgOf, SameButAwake
      <4> QED BY <2>2, <3>2, <4>1 DEF Slots
    <3> QED BY <3>1, <3>2
  <2>8. live' \in 0..MaxLive /\ fg' \in 0..FgCap
    <3>1. live' \in Nat /\ fg' \in Nat
      BY <2>2, <2>6, <2>7, HeldFinite
    <3> QED BY <1>0, <2>2, <3>1, CapsAreNat DEF Slots
  <2>9. BlockedAt(run', live', fg')
    BY <2>4 DEF BlockedAt
  <2>10. run'[r].phase = g[r].phase
    BY <2>1, <2>4 DEF SameButAwake
  <2> QED BY <2>1, <2>2, <2>4, <2>6, <2>7, <2>8, <2>9, <2>10 DEF Slots, SameButAwake
<1> QED BY <1>1, <1>2

\* slot.startable(): only the foreground half.
LEMMA StartableKeeps ==
  ASSUME NEW g, Slots(g, live, fg), NEW r \in Runs,
         g[r].phase \in {"started", "failed"}, Startable(r, g)
  PROVE  /\ Slots(run', live', fg')
         /\ \A q \in Runs : q # r => SameButAwake(run'[q], g[q])
         /\ run'[r].of = g[r].of /\ run'[r].kind = g[r].kind
         /\ run'[r].phase = g[r].phase /\ run'[r].proc = g[r].proc
<1>0. live \in Nat /\ fg \in Nat /\ g \in [Runs -> RunRec] /\ live' = live
  BY CapsAreNat DEF Slots, Startable
<1>1. CASE g[r].slot # "fg"
  <2>1. run' = g /\ fg' = fg
    BY <1>1 DEF Startable
  <2> QED BY <1>0, <2>1 DEF SameButAwake
<1>2. CASE g[r].slot = "fg"
  <2> DEFINE h == [g EXCEPT ![r].slot = "live"]
  <2>1. /\ h \in [Runs -> RunRec] /\ \A q \in Runs \ {r} : h[q] = g[q]
        /\ h[r].slot = "live" /\ h[r].of = g[r].of /\ h[r].kind = g[r].kind
        /\ h[r].phase = g[r].phase /\ h[r].proc = g[r].proc
    BY <1>0 DEF RunRec
  <2>2. run' = Woken(h) /\ fg' = fg - 1
    BY <1>2 DEF Startable
  <2> HIDE DEF h
  <2>3. \A q \in Runs : Fits(h[q])
    BY <2>1 DEF Slots, Fits
  <2>4. /\ run' \in [Runs -> RunRec]
        /\ \A q \in Runs : Fits(run'[q]) /\ run'[q].phase # "asleep" /\ SameButAwake(run'[q], h[q])
    BY <2>1, <2>2, <2>3, WakingKeeps
  <2>5. HeldOf(run') = HeldOf(g)
    BY <1>2, <2>1, <2>4 DEF HeldOf, SameButAwake
  <2>6. FgOf(run') = FgOf(g) \ {r} /\ r \in FgOf(g)
    BY <1>2, <2>1, <2>4 DEF FgOf, SameButAwake
  <2>7. Cardinality(FgOf(run')) = fg - 1
    BY <2>6, HeldFinite, FS_RemoveElement DEF Slots
  <2>8. fg' \in 0..FgCap
    <3>1. fg' \in Nat
      BY <2>2, <2>7, HeldFinite
    <3> QED BY <1>0, <2>2, <3>1, CapsAreNat DEF Slots
  <2>9. BlockedAt(run', live', fg')
    BY <2>4 DEF BlockedAt
  <2>10. run'[r].phase = g[r].phase
    BY <2>1, <2>4 DEF SameButAwake
  <2> QED BY <1>0, <2>1, <2>2, <2>4, <2>5, <2>7, <2>8, <2>9, <2>10 DEF Slots, SameButAwake
<1> QED BY <1>1, <1>2

-----------------------------------------------------------------------------
(* The maps.  A step of run r leaves the others as they are, or wakes them.  *)

OthersKept(r) == \A q \in Runs \ {r} : SameButAwake(run'[q], run[q])

\* Who owns a variant keeps it when another run's entry goes: Without takes out
\* only the entry of the run it is called for.
LEMMA OwnedKeeps ==
  ASSUME Owned, MapsType, run \in [Runs -> RunRec], NEW r \in Runs, OthersKept(r),
         run'[r].of = run[r].of, Owns(run'[r]) => Owns(run[r]),
         \/ running' = running
         \/ running' = Without(running, run[r].of, r) /\ ~Owns(run'[r])
  PROVE  Owned'
<1> SUFFICES ASSUME NEW q \in Runs, Owns(run'[q])
             PROVE  running'[run'[q].of] = q
  BY DEF Owned
<1>1. Owns(run[q]) /\ run'[q].of = run[q].of
  BY DEF OthersKept, SameButAwake, Owns, EndedWell, Preparing
<1>2. running[run[q].of] = q /\ run[q].of \in Variants
  BY <1>1 DEF Owned, Owns, EndedWell, RunRec
<1>3. CASE running' = running
  BY <1>1, <1>2, <1>3
<1>4. CASE running' = Without(running, run[r].of, r) /\ ~Owns(run'[r])
  <2>1. q # r
    BY <1>4
  <2> QED BY <1>1, <1>2, <1>4, <2>1 DEF Without, MapsType
<1> QED BY <1>3, <1>4

LEMMA WithoutType ==
  ASSUME NEW m \in [Variants -> Runs \cup {Nil}], NEW v, NEW r
  PROVE  Without(m, v, r) \in [Variants -> Runs \cup {Nil}]
BY DEF Without

LEMMA FinishedKeeps ==
  ASSUME Finished, NEW r \in Runs, OthersKept(r), dir' = dir,
         run'[r].of = run[r].of, EndedWell(run'[r]) => EndedWell(run[r])
  PROVE  Finished'
<1> SUFFICES ASSUME NEW q \in Runs, EndedWell(run'[q])
             PROVE  EndedWell(run[q]) /\ run'[q].of = run[q].of
  BY DEF Finished
<1>1. CASE q # r
  BY <1>1 DEF OthersKept, SameButAwake, EndedWell
<1> QED BY <1>1

\* A late exit stays one.
LEMMA LateKeeps ==
  ASSUME NEW r \in Runs, OthersKept(r), run'[r].of = run[r].of,
         run[r].phase # "failed" \/ run[r].proc # "done", NEW v \in Variants, LateExit(v)
  PROVE  LateExit(v)'
<1>1. PICK q \in Runs : run[q].of = v /\ run[q].phase = "failed" /\ run[q].proc = "done"
  BY DEF LateExit
<1>2. run'[q].of = v /\ run'[q].phase = "failed" /\ run'[q].proc = "done"
  BY <1>1 DEF OthersKept, SameButAwake
<1> QED BY <1>2 DEF LateExit

\* What is left of the invariant when no call moves.
LEMMA RestKeeps ==
  ASSUME Mapped, UNCHANGED <<call, queue>>, dir' = dir, NEW r \in Runs, OthersKept(r),
         run'[r].of = run[r].of, run[r].phase # "failed" \/ run[r].proc # "done",
         running' \in [Variants -> Runs \cup {Nil}],
         finishing' \in [Variants -> Runs \cup {Nil}]
  PROVE  MapsType' /\ DoneComplete' /\ Asked'
<1>1. DoneComplete'
  BY LateKeeps DEF Mapped, DoneComplete
<1> QED BY <1>1 DEF Mapped, MapsType, Asked

-----------------------------------------------------------------------------
(* One lemma per action of a run.                                          *)

LEMMA RecheckKeeps ==
  ASSUME IInv, NEW r \in Runs, Recheck(r)
  PROVE  IInv'
<1>1. /\ run \in [Runs -> RunRec] /\ Fits(run[r]) /\ run[r] \in RunRec
      /\ run[r].slot = "none" /\ run[r].proc = "none" /\ Acquire(r, run[r])
  BY DEF IInv, Slots, Recheck, Fits
<1>2. /\ Slots(run', live', fg') /\ run'[r].of = run[r].of
      /\ run'[r].proc \in {"none", "alive"} /\ (run'[r].proc = "alive" => run[r].of = Nil)
      /\ \A q \in Runs \ {r} : run'[q] = run[q]
  BY <1>1, AcquireKeeps DEF IInv
<1>3. OthersKept(r) /\ Owns(run[r]) = (run[r].of # Nil)
  BY <1>1, <1>2 DEF OthersKept, SameButAwake, Owns, EndedWell, Preparing, Recheck
<1>4. Owned'
  BY <1>1, <1>2, <1>3, OwnedKeeps DEF IInv, Mapped, Owns, EndedWell, Recheck
<1>5. Finished'
  BY <1>2, <1>3, FinishedKeeps DEF IInv, Mapped, Recheck, EndedWell
<1>6. MapsType' /\ DoneComplete' /\ Asked'
  BY <1>1, <1>2, <1>3, RestKeeps DEF IInv, Mapped, MapsType, Recheck
<1> QED BY <1>2, <1>4, <1>5, <1>6 DEF IInv, Mapped, Slots

\* Steps that move one run and keep its slot and every map.
LEMMA QuietKeeps ==
  ASSUME IInv, NEW r \in Runs, run' \in [Runs -> RunRec],
         \A q \in Runs \ {r} : run'[q] = run[q],
         run'[r].of = run[r].of, run'[r].slot = run[r].slot,
         run'[r].phase # "asleep", Fits(run'[r]), Owns(run'[r]) => Owns(run[r]),
         EndedWell(run'[r]) => dir[run[r].of].segs = 2,
         run[r].phase # "failed" \/ run[r].proc # "done",
         UNCHANGED <<live, fg, running, dir, call, queue>>,
         finishing' \in [Variants -> Runs \cup {Nil}]
  PROVE  IInv'
<1>1. Slots(run', live', fg')
  BY MoveKeeps DEF IInv
<1>2. OthersKept(r)
  BY DEF OthersKept, SameButAwake
<1>3. Owned'
  BY <1>2, OwnedKeeps DEF IInv, Mapped, Slots
<1>4. Finished'
  BY DEF IInv, Mapped, Finished
<1>5. MapsType' /\ DoneComplete' /\ Asked'
  BY <1>2, RestKeeps DEF IInv, Mapped, MapsType
<1> QED BY <1>1, <1>3, <1>4, <1>5 DEF IInv, Mapped, Slots

LEMMA TimeoutKeeps ==
  ASSUME IInv, NEW r \in Runs, Timeout(r)
  PROVE  IInv'
<1>1. run \in [Runs -> RunRec] /\ run[r] \in RunRec /\ Fits(run[r])
  BY DEF IInv, Slots
<1>2. /\ run' \in [Runs -> RunRec] /\ \A q \in Runs \ {r} : run'[q] = run[q]
      /\ run'[r].of = run[r].of /\ run'[r].slot = run[r].slot
      /\ run'[r].proc = run[r].proc /\ run'[r].phase = "failed"
  BY <1>1 DEF Timeout, RunRec, Phase
<1>3. run[r].slot = "none" /\ run[r].proc = "none"
  BY <1>1 DEF Timeout, Fits
<1>4. Fits(run'[r]) /\ ~Owns(run'[r])
  BY <1>2, <1>3 DEF Fits, Owns, EndedWell, Preparing
<1> QED BY <1>2, <1>3, <1>4, QuietKeeps DEF Timeout, IInv, Mapped, MapsType, EndedWell

LEMMA SpawnKeeps ==
  ASSUME IInv, NEW r \in Runs, Spawn(r)
  PROVE  IInv'
<1>1. run \in [Runs -> RunRec] /\ run[r] \in RunRec /\ Fits(run[r])
  BY DEF IInv, Slots
<1>2. /\ run' \in [Runs -> RunRec] /\ \A q \in Runs \ {r} : run'[q] = run[q]
      /\ run'[r].of = run[r].of /\ run'[r].slot = run[r].slot /\ run'[r].kind = run[r].kind
      /\ run'[r].proc = "alive" /\ run'[r].phase = "encode"
  BY <1>1 DEF Spawn, RunRec, Phase, Proc
<1>3. Fits(run'[r]) /\ Owns(run[r])
  BY <1>1, <1>2 DEF Spawn, Fits, Owns, EndedWell, Preparing, RunRec
<1>4. finishing' \in [Variants -> Runs \cup {Nil}]
  BY DEF Spawn, IInv, Mapped, MapsType
<1> QED BY <1>2, <1>3, <1>4, QuietKeeps DEF Spawn, EndedWell

LEMMA KilledKeepsRest ==
  ASSUME NEW g \in [Runs -> RunRec], NEW r \in Runs
  PROVE  /\ Killed(r, g) \in [Runs -> RunRec]
         /\ \A q \in Runs \ {r} : Killed(r, g)[q] = g[q]
         /\ Killed(r, g)[r].of = g[r].of /\ Killed(r, g)[r].slot = g[r].slot
         /\ Killed(r, g)[r].phase = g[r].phase /\ Killed(r, g)[r].kind = g[r].kind
         /\ Killed(r, g)[r].proc = IF g[r].proc = "alive" THEN "killed" ELSE g[r].proc
BY DEF Killed, RunRec, Proc

LEMMA DeadlineKeeps ==
  ASSUME IInv, NEW r \in Runs, Deadline(r)
  PROVE  IInv'
<1>1. run \in [Runs -> RunRec] /\ run[r] \in RunRec /\ Fits(run[r]) /\ run[r].proc = "alive"
  BY DEF IInv, Slots, Deadline, Overstayed
<1>2. /\ run' \in [Runs -> RunRec] /\ \A q \in Runs \ {r} : run'[q] = run[q]
      /\ run'[r].of = run[r].of /\ run'[r].slot = run[r].slot
      /\ run'[r].proc = "killed" /\ run'[r].phase = "started"
  BY <1>1, KilledKeepsRest DEF Deadline, Overstayed
<1>3. Fits(run'[r]) /\ ~Owns(run'[r])
  BY <1>2 DEF Fits, Owns, EndedWell, Preparing
<1> QED BY <1>1, <1>2, <1>3, QuietKeeps DEF Deadline, IInv, Mapped, MapsType, EndedWell

LEMMA ExitKeeps ==
  ASSUME IInv, NEW r \in Runs, Exit(r)
  PROVE  IInv'
<1>1. run \in [Runs -> RunRec] /\ run[r] \in RunRec /\ Fits(run[r])
  BY DEF IInv, Slots
<1>2. /\ run[r].proc \in {"alive", "killed"}
      /\ run[r].phase \notin {"unborn", "asleep", "awake", "clear", "make"}
  BY <1>1 DEF Exit, Fits
<1>3. /\ run' \in [Runs -> RunRec] /\ \A q \in Runs \ {r} : run'[q] = run[q]
      /\ run'[r].of = run[r].of /\ run'[r].slot = run[r].slot /\ run'[r].phase = run[r].phase
      /\ \/ run'[r].proc = "exit0" /\ run[r].proc = "alive"
            /\ (run[r].of # Nil => dir[run[r].of].segs = 2)
         \/ run'[r].proc = "exit1"
  BY <1>1 DEF Exit, RunRec, Proc
<1>4. Fits(run'[r]) /\ (Owns(run'[r]) => Owns(run[r]))
  BY <1>2, <1>3 DEF Fits, Owns, EndedWell, Preparing
<1> QED BY <1>2, <1>3, <1>4, QuietKeeps DEF Exit, IInv, Mapped, MapsType, EndedWell

\* Nobody else's ffmpeg has ended in the directory a run clears.
LEMMA ClearKeeps ==
  ASSUME IInv, NEW r \in Runs, Clear(r)
  PROVE  IInv'
<1> DEFINE v == run[r].of
<1>1. /\ run \in [Runs -> RunRec] /\ run[r] \in RunRec /\ Fits(run[r])
      /\ run[r].slot = run[r].kind /\ run[r].proc = "none" /\ v \in Variants
  BY DEF IInv, Slots, Clear, Fits, RunRec
<1>2. /\ run' \in [Runs -> RunRec] /\ \A q \in Runs \ {r} : run'[q] = run[q]
      /\ run'[r].of = v /\ run'[r].slot = run[r].slot /\ run'[r].kind = run[r].kind
      /\ run'[r].proc = "none" /\ run'[r].phase = "make"
      /\ UNCHANGED <<live, fg, running, finishing, call, queue>>
      /\ dir' = [dir EXCEPT ![v] = [segs |-> 0, done |-> FALSE]]
  BY <1>1 DEF Clear, RunRec, Phase
<1>3. Fits(run'[r]) /\ Owns(run[r]) /\ OthersKept(r)
  BY <1>1, <1>2, TranscodeAssumption DEF Clear, Fits, Owns, EndedWell, Preparing, OthersKept, SameButAwake
<1>4. Slots(run', live', fg')
  BY <1>2, <1>3, MoveKeeps DEF IInv
<1>5. Owned'
  BY <1>1, <1>2, <1>3, OwnedKeeps DEF IInv, Mapped
<1>6. Finished'
  <2> SUFFICES ASSUME NEW q \in Runs, EndedWell(run[q])
               PROVE  dir'[run[q].of].segs = 2
    BY <1>2 DEF Finished, EndedWell
  <2>1. q # r /\ running[run[q].of] = q /\ running[v] = r
    BY <1>1, <1>3 DEF IInv, Mapped, Owned, Owns, EndedWell
  <2>2. run[q].of # v
    BY <2>1
  <2> QED BY <1>1, <1>2, <2>2 DEF IInv, Mapped, Finished, MapsType, RunRec, EndedWell
<1>7. DoneComplete'
  <2> SUFFICES ASSUME NEW u \in Variants, dir'[u].done
               PROVE  dir'[u].segs = 2 \/ LateExit(u)'
    BY DEF DoneComplete
  <2>1. u # v /\ dir'[u] = dir[u]
    BY <1>1, <1>2 DEF IInv, Mapped, MapsType
  <2>2. dir[u].segs = 2 \/ LateExit(u)
    BY <2>1 DEF IInv, Mapped, DoneComplete
  <2> QED BY <1>1, <1>2, <1>3, <2>1, <2>2, LateKeeps
<1>8. MapsType' /\ Asked'
  BY <1>1, <1>2 DEF IInv, Mapped, MapsType, Asked
<1> QED BY <1>4, <1>5, <1>6, <1>7, <1>8 DEF IInv, Mapped, Slots

LEMMA CannotPrepareKeeps ==
  ASSUME IInv, NEW r \in Runs, CannotPrepare(r)
  PROVE  IInv'
<1> DEFINE g == [run EXCEPT ![r].phase = "failed"]
<1>1. /\ run \in [Runs -> RunRec] /\ run[r] \in RunRec /\ Fits(run[r]) /\ run[r].proc = "none"
  BY DEF IInv, Slots, CannotPrepare, Fits
<1>2. /\ g \in [Runs -> RunRec] /\ \A q \in Runs \ {r} : g[q] = run[q]
      /\ g[r].of = run[r].of /\ g[r].slot = run[r].slot
      /\ g[r].proc = "none" /\ g[r].phase = "failed"
      /\ UNCHANGED <<running, finishing, dir, call, queue>> /\ Release(r, g)
  BY <1>1 DEF CannotPrepare, RunRec, Phase
<1> HIDE DEF g
<1>3. Slots(g, live, fg)
  <2>1. Fits(g[r])
    BY <1>2 DEF Fits
  <2> QED BY <1>2, <2>1, MoveKeeps DEF IInv
<1>4. /\ Slots(run', live', fg') /\ OthersKept(r)
      /\ run'[r].of = run[r].of /\ run'[r].proc = "none" /\ run'[r].phase = "failed"
  BY <1>2, <1>3, ReleaseKeeps DEF OthersKept
<1>5. Owned'
  BY <1>1, <1>2, <1>4, OwnedKeeps DEF IInv, Mapped, Owns, EndedWell, Preparing
<1>6. Finished'
  BY <1>2, <1>4, FinishedKeeps DEF IInv, Mapped, EndedWell
<1>7. MapsType' /\ DoneComplete' /\ Asked'
  BY <1>1, <1>2, <1>4, RestKeeps DEF IInv, Mapped, MapsType
<1> QED BY <1>4, <1>5, <1>6, <1>7 DEF IInv, Mapped, Slots

\* The end of a run: its slot goes back, and its entries if they are its own.
LEMMA EndKeeps ==
  ASSUME IInv, NEW r \in Runs, NEW p \in {"done", "failed"},
         run[r].proc \in {"exit0", "exit1", "marking"},
         Release(r, [run EXCEPT ![r].proc = p]),
         \/ running' = running
         \/ running' = Without(running, run[r].of, r)
  PROVE  Slots(run', live', fg') /\ Owned' /\ OthersKept(r)
         /\ run'[r].of = run[r].of /\ run'[r].proc = p /\ run'[r].phase = run[r].phase
<1> DEFINE g == [run EXCEPT ![r].proc = p]
<1>1. /\ run \in [Runs -> RunRec] /\ run[r] \in RunRec /\ Fits(run[r])
      /\ run[r].phase \in {"encode", "stalling", "started", "failed"}
  BY DEF IInv, Slots, Fits, RunRec, Phase
<1>2. /\ g \in [Runs -> RunRec] /\ \A q \in Runs \ {r} : g[q] = run[q]
      /\ g[r].of = run[r].of /\ g[r].slot = run[r].slot
      /\ g[r].proc = p /\ g[r].phase = run[r].phase /\ Release(r, g)
  BY <1>1 DEF RunRec, Proc
<1> HIDE DEF g
<1>3. Slots(g, live, fg)
  <2>1. Fits(g[r])
    BY <1>1, <1>2 DEF Fits
  <2> QED BY <1>1, <1>2, <2>1, MoveKeeps DEF IInv
<1>4. /\ Slots(run', live', fg') /\ OthersKept(r)
      /\ run'[r].of = run[r].of /\ run'[r].proc = p /\ run'[r].phase = run[r].phase
  BY <1>1, <1>2, <1>3, ReleaseKeeps DEF OthersKept
<1>5. ~Owns(run'[r])
  BY <1>1, <1>4 DEF Owns, EndedWell, Preparing
<1>6. Owned'
  BY <1>1, <1>4, <1>5, OwnedKeeps DEF IInv, Mapped
<1> QED BY <1>4, <1>6

LEMMA ExitedKeeps ==
  ASSUME IInv, NEW r \in Runs, Exited(r)
  PROVE  IInv'
<1>1. /\ run \in [Runs -> RunRec] /\ run[r] \in RunRec /\ Fits(run[r])
      /\ run[r].phase \in {"encode", "stalling", "started", "failed"}
      /\ run[r].proc \in {"exit0", "exit1"} /\ UNCHANGED <<dir, call, queue>>
  BY DEF IInv, Slots, Fits, RunRec, Phase, Exited
<1>2. CASE run[r].of # Nil /\ Marks(run[r].proc)
  <2>1. /\ run' \in [Runs -> RunRec] /\ \A q \in Runs \ {r} : run'[q] = run[q]
        /\ run'[r].of = run[r].of /\ run'[r].slot = run[r].slot
        /\ run'[r].proc = "marking" /\ run'[r].phase = run[r].phase
        /\ run[r].proc = "exit0" /\ UNCHANGED <<live, fg, running, finishing>>
    BY <1>1, <1>2 DEF Exited, Marks, RunRec, Proc
  <2>2. Fits(run'[r]) /\ (EndedWell(run'[r]) => EndedWell(run[r]))
    BY <1>1, <1>2, <2>1 DEF Fits, EndedWell
  <2>3. /\ EndedWell(run'[r]) => dir[run[r].of].segs = 2
        /\ Owns(run'[r]) => Owns(run[r])
    BY <1>1, <2>1, <2>2 DEF IInv, Mapped, Finished, Owns, Preparing
  <2> QED BY <1>1, <2>1, <2>2, <2>3, QuietKeeps DEF IInv, Mapped, MapsType
<1>3. CASE ~(run[r].of # Nil /\ Marks(run[r].proc))
  <2>1. PICK p \in {"done", "failed"} :
          /\ Release(r, [run EXCEPT ![r].proc = p])
          /\ \/ running' = running /\ finishing' = finishing
             \/ running' = Without(running, run[r].of, r)
                /\ finishing' = Without(finishing, run[r].of, r)
    BY <1>3 DEF Exited
  <2>2. /\ Slots(run', live', fg') /\ Owned' /\ OthersKept(r)
        /\ run'[r].of = run[r].of /\ run'[r].proc = p
    BY <1>1, <2>1, EndKeeps
  <2>3. Finished'
    BY <1>1, <2>2, FinishedKeeps DEF IInv, Mapped, EndedWell
  <2>4. MapsType' /\ DoneComplete' /\ Asked'
    BY <1>1, <2>1, <2>2, WithoutType, RestKeeps DEF IInv, Mapped, MapsType
  <2> QED BY <2>2, <2>3, <2>4 DEF IInv, Mapped, Slots
<1> QED BY <1>2, <1>3

LEMMA MarkKeeps ==
  ASSUME IInv, NEW r \in Runs, Mark(r)
  PROVE  IInv'
<1> DEFINE v == run[r].of
<1>1. /\ run[r].proc = "marking" /\ run[r] \in RunRec
      /\ Release(r, [run EXCEPT ![r].proc = "done"])
      /\ running' = Without(running, v, r) /\ finishing' = Without(finishing, v, r)
      /\ UNCHANGED <<call, queue>>
      /\ dir' = [dir EXCEPT ![v].done = TRUE] \/ dir' = dir
  BY DEF Mark, IInv, Slots
<1>2. /\ Slots(run', live', fg') /\ Owned' /\ OthersKept(r)
      /\ run'[r].of = v /\ run'[r].proc = "done" /\ run'[r].phase = run[r].phase
  BY <1>1, EndKeeps
<1>3. MapsType /\ Finished /\ DoneComplete /\ Asked
  BY DEF IInv, Mapped
<1>4. \A u \in Variants : /\ dir'[u].segs = dir[u].segs
                          /\ dir'[u].done => dir[u].done \/ u = v
  BY <1>1, <1>3 DEF MapsType
<1>5. dir' \in [Variants -> [segs : 0..2, done : BOOLEAN]]
  BY <1>1, <1>3 DEF MapsType
<1>6. DoneComplete'
  <2> SUFFICES ASSUME NEW u \in Variants, dir'[u].done
               PROVE  dir'[u].segs = 2 \/ LateExit(u)'
    BY DEF DoneComplete
  <2>1. CASE dir[u].done
    BY <1>1, <1>2, <1>3, <1>4, <2>1, LateKeeps DEF DoneComplete
  <2>2. CASE u = v /\ run[r].phase # "failed"
    <3>1. dir[v].segs = 2
      BY <1>1, <1>3, <2>2, TranscodeAssumption DEF Finished, EndedWell
    <3> QED BY <1>4, <2>2, <3>1
  <2>3. CASE u = v /\ run[r].phase = "failed"
    BY <1>2, <2>3 DEF LateExit
  <2> QED BY <1>4, <2>1, <2>2, <2>3
<1>7. Finished'
  <2> SUFFICES ASSUME NEW q \in Runs, EndedWell(run'[q])
               PROVE  dir'[run'[q].of].segs = 2
    BY DEF Finished
  <2>1. q # r /\ run'[q].of = run[q].of /\ EndedWell(run[q])
    BY <1>2 DEF OthersKept, SameButAwake, EndedWell
  <2>2. run[q].of \in Variants
    BY <2>1 DEF IInv, Slots, RunRec, EndedWell
  <2> QED BY <1>3, <1>4, <2>1, <2>2 DEF Finished
<1>8. MapsType' /\ Asked'
  BY <1>1, <1>3, <1>5, WithoutType DEF MapsType, Asked
<1> QED BY <1>2, <1>6, <1>7, <1>8 DEF IInv, Mapped, Slots

LEMMA PollKeeps ==
  ASSUME IInv, NEW r \in Runs, Poll(r)
  PROVE  IInv'
<1>1. /\ run \in [Runs -> RunRec] /\ run[r] \in RunRec /\ Fits(run[r])
      /\ run[r].phase = "encode" /\ UNCHANGED <<running, finishing, dir, call, queue>>
  BY DEF IInv, Slots, Poll
<1>2. CASE Over(r) /\ UNCHANGED <<live, fg>>
           /\ run' = [run EXCEPT ![r].phase = IF run[r].proc = "failed" THEN "failed" ELSE "started"]
  <2>1. /\ run' \in [Runs -> RunRec] /\ \A q \in Runs \ {r} : run'[q] = run[q]
        /\ run'[r].of = run[r].of /\ run'[r].slot = run[r].slot
        /\ run'[r].proc = run[r].proc /\ run'[r].phase \in {"failed", "started"}
        /\ run[r].proc \in {"marking", "done", "failed"}
    BY <1>1, <1>2 DEF Over, RunRec, Phase
  <2>2. /\ Fits(run'[r]) /\ (Owns(run'[r]) => Owns(run[r]))
        /\ EndedWell(run'[r]) => EndedWell(run[r])
    BY <1>1, <2>1 DEF Fits, Owns, EndedWell, Preparing
  <2> QED BY <1>1, <1>2, <2>1, <2>2, QuietKeeps DEF IInv, Mapped, MapsType, Finished
<1>3. CASE Startable(r, [run EXCEPT ![r].phase = "started"])
  <2> DEFINE g == [run EXCEPT ![r].phase = "started"]
  <2>1. /\ g \in [Runs -> RunRec] /\ \A q \in Runs \ {r} : g[q] = run[q]
        /\ g[r].of = run[r].of /\ g[r].slot = run[r].slot
        /\ g[r].proc = run[r].proc /\ g[r].phase = "started" /\ Startable(r, g)
    BY <1>1, <1>3 DEF RunRec, Phase
  <2> HIDE DEF g
  <2>2. Slots(g, live, fg)
    <3>1. Fits(g[r])
      BY <1>1, <2>1 DEF Fits
    <3> QED BY <2>1, <3>1, MoveKeeps DEF IInv
  <2>3. /\ Slots(run', live', fg') /\ OthersKept(r)
        /\ run'[r].of = run[r].of /\ run'[r].proc = run[r].proc /\ run'[r].phase = "started"
    BY <2>1, <2>2, StartableKeeps DEF OthersKept
  <2>4. (Owns(run'[r]) => Owns(run[r])) /\ (EndedWell(run'[r]) => EndedWell(run[r]))
    BY <1>1, <2>3 DEF Owns, EndedWell, Preparing
  <2>5. Owned'
    BY <1>1, <2>3, <2>4, OwnedKeeps DEF IInv, Mapped
  <2>6. Finished'
    BY <1>1, <2>3, <2>4, FinishedKeeps DEF IInv, Mapped
  <2>7. MapsType' /\ DoneComplete' /\ Asked'
    BY <1>1, <2>3, RestKeeps DEF IInv, Mapped, MapsType
  <2> QED BY <2>3, <2>5, <2>6, <2>7 DEF IInv, Mapped, Slots
<1> QED BY <1>2, <1>3 DEF Poll

\* The last look changes nothing but the run's stage.
LEMMA LastLookKeeps ==
  ASSUME IInv, NEW r \in Runs, LastLook(r)
  PROVE  IInv'
<1>1. run \in [Runs -> RunRec] /\ run[r] \in RunRec /\ Fits(run[r]) /\ run[r].phase = "encode"
  BY DEF IInv, Slots, LastLook
<1>2. /\ run' \in [Runs -> RunRec] /\ \A q \in Runs \ {r} : run'[q] = run[q]
      /\ run'[r].of = run[r].of /\ run'[r].slot = run[r].slot /\ run'[r].kind = run[r].kind
      /\ run'[r].proc = run[r].proc /\ run'[r].phase = "stalling"
  BY <1>1 DEF LastLook, RunRec, Phase
<1>3. Fits(run'[r]) /\ (Owns(run'[r]) => Owns(run[r])) /\ (EndedWell(run'[r]) => EndedWell(run[r]))
  BY <1>1, <1>2 DEF Fits, Owns, EndedWell, Preparing
<1> QED BY <1>1, <1>2, <1>3, QuietKeeps DEF LastLook, IInv, Mapped, MapsType, Finished

\* A run given up on is killed and forgotten, also where its ffmpeg has ended
\* well since the last look: what it still does to the directory is no longer its
\* own.
LEMMA StallKeeps ==
  ASSUME IInv, NEW r \in Runs, Stall(r)
  PROVE  IInv'
<1> DEFINE g == [run EXCEPT ![r].phase = "failed"]
<1>1. /\ run \in [Runs -> RunRec] /\ run[r] \in RunRec /\ Fits(run[r])
      /\ run[r].phase = "stalling" /\ running' = Without(running, run[r].of, r)
      /\ UNCHANGED <<live, fg, finishing, dir, call, queue>> /\ run' = Killed(r, g)
  BY DEF IInv, Slots, Stall
<1>2. /\ g \in [Runs -> RunRec] /\ \A q \in Runs \ {r} : g[q] = run[q]
      /\ g[r].of = run[r].of /\ g[r].slot = run[r].slot
      /\ g[r].proc = run[r].proc /\ g[r].phase = "failed"
  BY <1>1 DEF RunRec, Phase
<1> HIDE DEF g
<1>3. /\ run' \in [Runs -> RunRec] /\ \A q \in Runs \ {r} : run'[q] = run[q]
      /\ run'[r].of = run[r].of /\ run'[r].slot = run[r].slot /\ run'[r].phase = "failed"
      /\ run'[r].proc = IF run[r].proc = "alive" THEN "killed" ELSE run[r].proc
  BY <1>1, <1>2, KilledKeepsRest
<1>4. Fits(run'[r]) /\ ~Owns(run'[r]) /\ ~EndedWell(run'[r]) /\ OthersKept(r)
  BY <1>1, <1>3 DEF Fits, Owns, EndedWell, Preparing, OthersKept, SameButAwake
<1>5. Slots(run', live', fg')
  BY <1>1, <1>3, <1>4, MoveKeeps DEF IInv
<1>6. Owned'
  BY <1>1, <1>3, <1>4, OwnedKeeps DEF IInv, Mapped
<1>7. Finished'
  BY <1>1, <1>3, <1>4, FinishedKeeps DEF IInv, Mapped
<1>8. MapsType' /\ DoneComplete' /\ Asked'
  BY <1>1, <1>3, <1>4, WithoutType, RestKeeps DEF IInv, Mapped, MapsType
<1> QED BY <1>5, <1>6, <1>7, <1>8 DEF IInv, Mapped, Slots

\* A directory that is being written is not one that is complete.
LEMMA EncodeKeeps ==
  ASSUME IInv, NEW r \in Runs, Encode(r)
  PROVE  IInv'
<1> DEFINE v == run[r].of
<1>1. /\ v \in Variants /\ dir[v] \in [segs : 0..2, done : BOOLEAN] /\ dir[v].segs < 2
      /\ dir' = [dir EXCEPT ![v].segs = @ + 1]
      /\ UNCHANGED <<run, live, fg, running, finishing, call, queue>>
  BY DEF IInv, Slots, Mapped, MapsType, Encode, RunRec
<1>2. dir' \in [Variants -> [segs : 0..2, done : BOOLEAN]]
  <2>1. [dir[v] EXCEPT !.segs = @ + 1] \in [segs : 0..2, done : BOOLEAN]
    BY <1>1
  <2> QED BY <1>1, <2>1 DEF IInv, Mapped, MapsType
<1>3. \A u \in Variants : /\ dir'[u].done = dir[u].done
                          /\ dir[u].segs = 2 => dir'[u].segs = 2
  BY <1>1 DEF IInv, Mapped, MapsType
<1>4. DoneComplete'
  BY <1>1, <1>3 DEF IInv, Mapped, DoneComplete, LateExit
<1>5. Finished'
  BY <1>1, <1>3 DEF IInv, Slots, Mapped, Finished, EndedWell, RunRec
<1>6. Owned' /\ Asked' /\ MapsType'
  BY <1>1, <1>2 DEF IInv, Mapped, MapsType, Owned, Asked
<1>7. Slots(run', live', fg')
  BY <1>1 DEF IInv
<1> QED BY <1>4, <1>5, <1>6, <1>7 DEF IInv, Mapped, Slots

-----------------------------------------------------------------------------
(* One lemma per action of a request or a warm.                            *)

\* Only a call and the queue move.
LEMMA CallKeeps ==
  ASSUME IInv, UNCHANGED <<run, live, fg, running, dir, finishing>>,
         call' \in [Callers -> CallRec], Asked',
         queue' \in Seq(Variants) /\ Len(queue') <= WarmMax
  PROVE  IInv'
BY DEF IInv, Slots, BlockedAt, HeldOf, FgOf, Mapped, MapsType, Owned, Finished, DoneComplete, LateExit

LEMMA WaitKeeps ==
  ASSUME IInv, NEW c \in Callers, Wait(c) \/ WaitOn(c) \/ Whole(c)
  PROVE  IInv'
<1>1. MapsType /\ Asked /\ call[c] \in CallRec
  BY DEF IInv, Mapped, MapsType
<1>2. UNCHANGED <<run, live, fg, running, dir, finishing, queue>>
  BY DEF Wait, WaitOn, Whole, Answer
<1>3. PICK i \in {"ok", "refused", "finish"}, o \in Runs \cup {Nil} :
        /\ call' = [call EXCEPT ![c].is = i] \/ call' = [call EXCEPT ![c].is = i, ![c].on = o]
  <2>1. CASE Wait(c)
    BY <2>1 DEF Wait, Answer
  <2>2. CASE WaitOn(c)
    BY <1>1, <2>2 DEF WaitOn, Asked, MapsType
  <2>3. CASE Whole(c)
    BY <2>3 DEF Whole, Answer
  <2> QED BY <2>1, <2>2, <2>3
<1>4. call' \in [Callers -> CallRec]
  <2>1. [call[c] EXCEPT !.is = i] \in CallRec /\ [call[c] EXCEPT !.is = i, !.on = o] \in CallRec
    BY <1>1, <1>3 DEF CallRec
  <2> QED BY <1>1, <1>3, <2>1 DEF MapsType
<1>5. Asked'
  <2>1. call'[c].is \notin {"wait", "stream"}
    BY <1>1, <1>3 DEF MapsType, CallRec
  <2>2. \A d \in Callers \ {c} : call'[d] = call[d]
    BY <1>1, <1>3 DEF MapsType
  <2> QED BY <1>1, <2>1, <2>2 DEF Asked
<1> QED BY <1>1, <1>2, <1>4, <1>5, CallKeeps DEF MapsType

\* A new run of a variant is started only where `running` names none.
LEMMA StartKeeps ==
  ASSUME IInv, NEW r \in Runs, run[r].phase = "unborn",
         NEW v \in Variants \cup {Nil}, NEW kind \in {"fg", "live"},
         Acquire(r, NewRun(v, kind)), dir' = dir,
         \/ v = Nil /\ running' = running
         \/ v # Nil /\ running[v] = Nil /\ running' = [running EXCEPT ![v] = r]
  PROVE  /\ Slots(run', live', fg') /\ Owned' /\ Finished' /\ DoneComplete'
         /\ running' \in [Variants -> Runs \cup {Nil}]
<1>1. /\ run \in [Runs -> RunRec] /\ run[r].slot = "none" /\ run[r].proc = "none"
      /\ running \in [Variants -> Runs \cup {Nil}]
  BY DEF IInv, Slots, Fits, Mapped, MapsType
<1>2. /\ NewRun(v, kind) \in RunRec /\ NewRun(v, kind).slot = "none"
      /\ NewRun(v, kind).proc = "none" /\ NewRun(v, kind).of = v
  BY DEF NewRun, RunRec, Phase, Proc
<1>3. /\ Slots(run', live', fg') /\ run'[r].of = v
      /\ run'[r].proc \in {"none", "alive"}
      /\ \A q \in Runs \ {r} : run'[q] = run[q]
  BY <1>1, <1>2, AcquireKeeps DEF IInv
<1>4. Owned'
  <2> SUFFICES ASSUME NEW q \in Runs, Owns(run'[q])
               PROVE  running'[run'[q].of] = q
    BY DEF Owned
  <2>1. CASE q = r
    BY <1>1, <1>3, <2>1 DEF Owns, EndedWell
  <2>2. CASE q # r
    <3>1. run'[q] = run[q] /\ running[run[q].of] = q /\ run[q].of \in Variants
      BY <1>1, <1>3, <2>2 DEF IInv, Mapped, Owned, Owns, EndedWell, RunRec
    <3>2. q # Nil
      BY RunsFinite
    <3> QED BY <1>1, <3>1, <3>2
  <2> QED BY <2>1, <2>2
<1>5. Finished'
  BY <1>3 DEF IInv, Mapped, Finished, EndedWell
<1>6. DoneComplete'
  BY <1>1, <1>3 DEF IInv, Mapped, DoneComplete, LateExit
<1>7. running' \in [Variants -> Runs \cup {Nil}]
  BY <1>1
<1> QED BY <1>3, <1>4, <1>5, <1>6, <1>7

LEMMA EnsureKeeps ==
  ASSUME IInv, NEW c \in Callers, NEW v \in Variants, NEW kind \in {"fg", "live"},
         NEW for \in {"none", "play", "pre", "whole", "direct", "warm"}, NEW left,
         Ensure(c, for, v, kind, left), UNCHANGED <<finishing, dir>>,
         queue' \in Seq(Variants), Len(queue') <= WarmMax
  PROVE  IInv'
<1>1. MapsType /\ Asked /\ DoneComplete
  BY DEF IInv, Mapped
<1>2. PICK r \in Runs :
        /\ call' = [call EXCEPT ![c] = [is |-> "wait", for |-> for, of |-> v, on |-> r]]
        /\ \/ UNCHANGED <<run, live, fg, running>>
           \/ /\ running[v] = Nil /\ r \in Unborn
              /\ Acquire(r, NewRun(v, kind)) /\ running' = [running EXCEPT ![v] = r]
  BY DEF Ensure
<1>3. call' \in [Callers -> CallRec] /\ Asked'
  BY <1>1, <1>2 DEF MapsType, CallRec, Asked
<1>4. CASE UNCHANGED <<run, live, fg, running>>
  BY <1>3, <1>4, CallKeeps
<1>5. CASE /\ running[v] = Nil /\ r \in Unborn
           /\ Acquire(r, NewRun(v, kind)) /\ running' = [running EXCEPT ![v] = r]
  <2>1. /\ Slots(run', live', fg') /\ Owned' /\ Finished' /\ DoneComplete'
        /\ running' \in [Variants -> Runs \cup {Nil}]
    BY <1>5, StartKeeps, TranscodeAssumption DEF Unborn
  <2>2. MapsType'
    BY <1>1, <1>3, <2>1 DEF MapsType
  <2> QED BY <1>3, <2>1, <2>2 DEF IInv, Mapped, Slots
<1> QED BY <1>2, <1>4, <1>5

LEMMA AskKeeps ==
  ASSUME IInv, NEW c \in Requests, NEW v \in Variants, NEW f \in {"play", "pre", "whole"}, Ask(c, f, v)
  PROVE  IInv'
<1>1. c \in Callers /\ MapsType /\ Asked /\ UNCHANGED <<finishing, dir, queue>>
  BY DEF IInv, Mapped, Callers, Ask
<1>2. CASE call' = [call EXCEPT ![c] = [is |-> "ok", for |-> f, of |-> v, on |-> Nil]]
           /\ UNCHANGED <<run, live, fg, running>>
  <2>1. call' \in [Callers -> CallRec] /\ Asked'
    BY <1>1, <1>2 DEF MapsType, CallRec, Asked
  <2> QED BY <1>1, <1>2, <2>1, CallKeeps DEF MapsType
<1>3. CASE Ensure(c, f, v, IF f = "play" THEN "fg" ELSE "live", queue)
  BY <1>1, <1>3, EnsureKeeps DEF MapsType
<1> QED BY <1>2, <1>3 DEF Ask

LEMMA ListenKeeps ==
  ASSUME IInv, NEW c \in Requests, Listen(c)
  PROVE  IInv'
<1>1. c \in Callers /\ MapsType /\ Asked /\ DoneComplete /\ UNCHANGED <<running, finishing, dir, queue>>
  BY DEF IInv, Mapped, Callers, Listen
<1>2. PICK r \in Runs :
        /\ r \in Unborn /\ Acquire(r, NewRun(Nil, "live"))
        /\ call' = [call EXCEPT ![c] = [is |-> "stream", for |-> "direct", of |-> Nil, on |-> r]]
  BY DEF Listen, Fresh
<1>3. call' \in [Callers -> CallRec] /\ Asked'
  BY <1>1, <1>2 DEF MapsType, CallRec, Asked
<1>4. Slots(run', live', fg') /\ Owned' /\ Finished' /\ DoneComplete'
  BY <1>1, <1>2, StartKeeps DEF Unborn
<1>5. MapsType'
  BY <1>1, <1>3 DEF MapsType
<1> QED BY <1>3, <1>4, <1>5 DEF IInv, Mapped, Slots

\* A listener may leave at any stage of its stream's ffmpeg: what was alive is
\* killed before its slot goes back.
LEMMA HangupKeeps ==
  ASSUME IInv, NEW c \in Callers, Hangup(c)
  PROVE  IInv'
<1> DEFINE r == call[c].on
           g == Killed(r, run)
<1>1. /\ r \in Runs /\ run[r].phase = "started" /\ MapsType /\ Asked /\ DoneComplete
      /\ run \in [Runs -> RunRec] /\ run[r] \in RunRec /\ Fits(run[r])
      /\ UNCHANGED <<running, finishing, dir, queue>>
      /\ call' = [call EXCEPT ![c].is = "ok"]
      /\ \/ Release(r, g)
         \/ run' = g /\ UNCHANGED <<live, fg>>
  BY DEF Hangup, IInv, Slots, Mapped, Asked
<1>2. /\ g \in [Runs -> RunRec] /\ \A q \in Runs \ {r} : g[q] = run[q]
      /\ g[r].of = run[r].of /\ g[r].slot = run[r].slot
      /\ g[r].phase = "started" /\ g[r].kind = run[r].kind
      /\ g[r].proc = IF run[r].proc = "alive" THEN "killed" ELSE run[r].proc
  BY <1>1, KilledKeepsRest
<1>3. call' \in [Callers -> CallRec] /\ Asked'
  <2>1. [call[c] EXCEPT !.is = "ok"] \in CallRec
    BY <1>1 DEF MapsType, CallRec
  <2> QED BY <1>1, <2>1 DEF MapsType, Asked
<1> HIDE DEF g
<1>4. Slots(g, live, fg) /\ g[r].proc # "alive"
  <2>1. Fits(g[r])
    BY <1>1, <1>2 DEF Fits
  <2> QED BY <1>1, <1>2, <2>1, MoveKeeps DEF IInv
<1>5. /\ Slots(run', live', fg') /\ OthersKept(r)
      /\ run'[r].of = run[r].of /\ run'[r].phase = "started" /\ run'[r].proc = g[r].proc
  <2>1. CASE Release(r, g)
    BY <1>1, <1>2, <1>4, <2>1, ReleaseKeeps DEF OthersKept
  <2>2. CASE run' = g /\ UNCHANGED <<live, fg>>
    BY <1>2, <1>4, <2>2 DEF OthersKept, SameButAwake
  <2> QED BY <1>1, <2>1, <2>2
<1>6. (Owns(run'[r]) => Owns(run[r])) /\ (EndedWell(run'[r]) => EndedWell(run[r]))
  BY <1>1, <1>2, <1>5 DEF Owns, EndedWell, Preparing
<1>7. Owned'
  BY <1>1, <1>5, <1>6, OwnedKeeps DEF IInv, Mapped
<1>8. Finished'
  BY <1>1, <1>5, <1>6, FinishedKeeps DEF IInv, Mapped
<1>9. MapsType' /\ DoneComplete'
  <2>1. DoneComplete'
    BY <1>1, <1>5, LateKeeps DEF DoneComplete
  <2> QED BY <1>1, <1>3, <2>1 DEF MapsType
<1> QED BY <1>3, <1>5, <1>7, <1>8, <1>9 DEF IInv, Mapped, Slots

\* Who leaves while waiting changes nothing but the call.
LEMMA LeaveWaitingKeeps ==
  ASSUME IInv, NEW c \in Callers, LeaveWaiting(c)
  PROVE  IInv'
<1>1. MapsType /\ Asked /\ UNCHANGED <<run, live, fg, running, finishing, dir, queue>>
      /\ call' = [call EXCEPT ![c].is = "gone"]
  BY DEF LeaveWaiting, IInv, Mapped
<1>2. [call[c] EXCEPT !.is = "gone"] \in CallRec
  BY <1>1 DEF MapsType, CallRec
<1>3. call' \in [Callers -> CallRec] /\ Asked'
  BY <1>1, <1>2 DEF MapsType, Asked
<1> QED BY <1>1, <1>3, CallKeeps DEF MapsType

\* What warm() makes of the queue keeps within WARM_QUEUE_MAX.
LEMMA PumpKeeps ==
  ASSUME IInv, NEW w \in Callers, NEW q \in Seq(Variants), Len(q) <= WarmMax,
         Pump(w, q), UNCHANGED <<finishing, dir>>
  PROVE  IInv'
<1>1. MapsType /\ Asked /\ WarmMax \in Nat
  BY TranscodeAssumption DEF IInv, Mapped
<1>2. CASE queue' = <<>> /\ call' = [call EXCEPT ![w] = Idle] /\ UNCHANGED <<run, live, fg, running>>
  <2>1. call' \in [Callers -> CallRec] /\ Asked'
    BY <1>1, <1>2 DEF MapsType, CallRec, Asked, Idle
  <2> QED BY <1>1, <1>2, <2>1, CallKeeps
<1>3. ASSUME NEW i \in 1..Len(q), queue' = SubSeq(q, i + 1, Len(q)),
             Ensure(w, "warm", q[i], "live", SubSeq(q, i + 1, Len(q)))
      PROVE  IInv'
  <2>1. q[i] \in Variants
    OBVIOUS
  <2>2. queue' \in Seq(Variants) /\ Len(queue') <= WarmMax
    BY <1>1, <1>3
  <2> QED BY <1>3, <2>1, <2>2, EnsureKeeps
<1> QED BY <1>2, <1>3 DEF Pump

LEMMA WarmKeeps ==
  ASSUME IInv, NEW v \in Variants, Warm(v)
  PROVE  IInv'
<1> DEFINE q == Append(IF Len(queue) >= WarmMax THEN Tail(queue) ELSE queue, v)
<1>1. MapsType /\ Asked /\ WarmMax \in Nat \ {0} /\ UNCHANGED <<finishing, dir>>
  BY TranscodeAssumption DEF IInv, Mapped, Warm
<1>2. q \in Seq(Variants) /\ Len(q) <= WarmMax
  <2>1. queue \in Seq(Variants) /\ Len(queue) \in Nat /\ Len(queue) <= WarmMax
    BY <1>1 DEF MapsType
  <2>2. CASE Len(queue) >= WarmMax
    <3>1. queue # <<>> /\ Len(queue) = WarmMax
      BY <1>1, <2>1, <2>2
    <3>2. Tail(queue) \in Seq(Variants) /\ Len(Tail(queue)) = WarmMax - 1
      BY <2>1, <3>1
    <3> QED BY <1>1, <2>2, <3>2
  <2>3. CASE ~(Len(queue) >= WarmMax)
    BY <1>1, <2>1, <2>3
  <2> QED BY <2>2, <2>3
<1> HIDE DEF q
<1>3. CASE queue' = q /\ UNCHANGED <<run, live, fg, running, call>>
  BY <1>1, <1>2, <1>3, CallKeeps DEF MapsType, Asked
<1>4. CASE \E w \in Warmers : Pump(w, q)
  BY <1>1, <1>2, <1>4, PumpKeeps DEF Callers
<1> QED BY <1>3, <1>4 DEF Warm, q

LEMMA WarmedKeeps ==
  ASSUME IInv, NEW w \in Callers, Warmed(w)
  PROVE  IInv'
BY PumpKeeps DEF Warmed, IInv, Mapped, MapsType

-----------------------------------------------------------------------------
(* The specification.                                                      *)

LEMMA InitHolds ==
  ASSUME Init
  PROVE  IInv
<1>1. run \in [Runs -> RunRec] /\ \A r \in Runs : Fits(run[r])
  BY DEF Init, RunRec, Phase, Proc, Fits
<1>2. HeldOf(run) = {} /\ FgOf(run) = {}
  BY DEF Init, HeldOf, FgOf
<1>3. Slots(run, live, fg)
  <2>1. Cardinality(HeldOf(run)) = 0 /\ Cardinality(FgOf(run)) = 0
    BY <1>2, FS_EmptySet
  <2>2. live = 0 /\ fg = 0 /\ 0 \in 0..MaxLive /\ 0 \in 0..FgCap
    BY CapsAreNat DEF Init
  <2>3. BlockedAt(run, live, fg)
    BY DEF Init, BlockedAt
  <2> QED BY <1>1, <2>1, <2>2, <2>3 DEF Slots
<1>4. MapsType
  BY TranscodeAssumption DEF Init, MapsType, CallRec, Idle
<1>5. Owned /\ Finished /\ DoneComplete /\ Asked
  BY DEF Init, Owned, Owns, Finished, EndedWell, DoneComplete, Asked, Idle
<1> QED BY <1>3, <1>4, <1>5 DEF IInv, Mapped

LEMMA NextKeeps ==
  ASSUME IInv, [Next]_vars
  PROVE  IInv'
<1>1. ASSUME NEW r \in Runs, RunStep(r) \/ Encode(r) \/ Exit(r)
      PROVE  IInv'
  BY <1>1, RecheckKeeps, TimeoutKeeps, ClearKeeps, SpawnKeeps, CannotPrepareKeeps,
     PollKeeps, LastLookKeeps, StallKeeps, DeadlineKeeps, ExitedKeeps, MarkKeeps, EncodeKeeps, ExitKeeps
     DEF RunStep
<1>2. ASSUME NEW c \in Callers, CallStep(c) \/ Hangup(c) \/ LeaveWaiting(c)
      PROVE  IInv'
  BY <1>2, WaitKeeps, WarmedKeeps, HangupKeeps, LeaveWaitingKeeps DEF CallStep
<1>3. ASSUME NEW c \in Requests, Listen(c) \/ \E v \in Variants, f \in {"play", "pre", "whole"} : Ask(c, f, v)
      PROVE  IInv'
  BY <1>3, ListenKeeps, AskKeeps
<1>4. ASSUME NEW v \in Variants, Warm(v)
      PROVE  IInv'
  BY <1>4, WarmKeeps
<1>5. CASE UNCHANGED vars
  BY <1>5 DEF vars, IInv, Slots, BlockedAt, HeldOf, FgOf, Mapped, MapsType, Owned,
              Finished, DoneComplete, LateExit, Asked
<1> QED BY <1>1, <1>2, <1>3, <1>4, <1>5 DEF Next

LEMMA InvImplies ==
  ASSUME IInv
  PROVE  TypeOK /\ LoadCapped /\ AliveIsRunning /\ DoneComplete /\ SleepersBlocked
<1>1. TypeOK
  BY DEF IInv, Slots, RunRec, Mapped, MapsType, CallRec, TypeOK
<1>2. LoadCapped
  <2> DEFINE A == {r \in Runs : run[r].proc = "alive"}
             B == {r \in Runs : /\ run[r].kind = "fg"
                                /\ \/ run[r].phase \in {"clear", "make"}
                                   \/ run[r].phase \in {"encode", "stalling"} /\ run[r].proc = "alive"}
  <2>1. A \subseteq HeldOf(run) /\ B \subseteq FgOf(run)
    BY DEF IInv, Slots, Fits, HeldOf, FgOf
  <2>2. Cardinality(A) <= Cardinality(HeldOf(run)) /\ Cardinality(B) <= Cardinality(FgOf(run))
    BY <2>1, HeldFinite, FS_Subset
  <2>3. /\ Cardinality(A) \in Nat /\ Cardinality(B) \in Nat
    BY <2>1, HeldFinite, FS_Subset, FS_CardinalityType
  <2>4. Cardinality(A) <= MaxLive /\ Cardinality(B) <= FgCap
    BY <2>2, <2>3, CapsAreNat DEF IInv, Slots
  <2> QED BY <2>4 DEF LoadCapped
<1>3. AliveIsRunning
  BY DEF IInv, Mapped, Owned, Owns, AliveIsRunning
<1>4. SleepersBlocked
  BY DEF IInv, Slots, BlockedAt, SleepersBlocked, Full
<1> QED BY <1>1, <1>2, <1>3, <1>4 DEF IInv, Mapped

\* The inductive invariant: what the slot counters and the two maps of stream.ts
\* say of the runs, whatever happens to them.
THEOREM Invariance == Spec => []IInv
<1>1. Init => IInv
  BY InitHolds
<1>2. IInv /\ [Next]_vars => IInv'
  BY NextKeeps
<1> QED BY <1>1, <1>2, PTL DEF Spec

\* Whatever is asked of it and whatever fails, the state keeps its types: the slot
\* counters never go below zero or over their caps (stream.ts:163-206).
THEOREM TranscodeTyped == Spec => []TypeOK
BY Invariance, InvImplies, PTL

\* stream.ts:151-153: the caps hold for any number of requests, warms and listeners
\* leaving, however often a slot is given back.
THEOREM LoadIsCapped == Spec => []LoadCapped
BY Invariance, InvImplies, PTL

\* stream.ts:230-297: whatever stalls, fails or ends late, two ffmpegs never write
\* one variant's directory, and the map names the one that does.
THEOREM OneWriter == Spec => []AliveIsRunning
BY Invariance, InvImplies, PTL

\* stream.ts:225-246: a directory marked done holds the whole song, whichever run
\* marked it and whichever ran before, unless an ffmpeg of the variant ended well
\* after the last look at it and was taken for stalled.
THEOREM MarkedIsWhole == Spec => []DoneComplete
BY Invariance, InvImplies, PTL

\* stream.ts:163-206: a request asleep for a slot always finds the caps reached, so
\* no wake-up is lost.
THEOREM NoLostWakeup == Spec => []SleepersBlocked
BY Invariance, InvImplies, PTL
============================================================================
