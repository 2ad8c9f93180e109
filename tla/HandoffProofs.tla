--------------------------- MODULE HandoffProofs ---------------------------
(* Proofs about Handoff for any speakers, however many starts and switches are
   asked for.  Whatever they are asked beside: types, and what a late answer may
   change.  One at a time, of speakers that obey and answer in time: no output
   but the chosen one sounds at rest.                                         *)
EXTENDS Handoff, FiniteSetTheorems, TLAPS

-----------------------------------------------------------------------------
(* The starts and switches asked for.                                       *)

\* A stage later, the i-th is what it was but for that.
LEMMA StageIs ==
  ASSUME op \in Seq(Ops), NEW i \in DOMAIN op, NEW pc \in {"load", "done"},
         op' = [op EXCEPT ![i].pc = pc]
  PROVE  /\ op' \in Seq(Ops) /\ Len(op') = Len(op) /\ DOMAIN op' = DOMAIN op
         /\ op'[i].pc = pc
         /\ \A j \in DOMAIN op : /\ op'[j].kind = op[j].kind /\ op'[j].to = op[j].to
                                 /\ op'[j].prev = op[j].prev
                                 /\ j # i => op'[j] = op[j]
<1> DEFINE new == [op[i] EXCEPT !.pc = pc]
<1>1. op[i] \in Ops
  OBVIOUS
<1>2. new \in Ops /\ new.pc = pc /\ new.kind = op[i].kind /\ new.to = op[i].to /\ new.prev = op[i].prev
  BY <1>1 DEF Ops
<1>3. op' = [op EXCEPT ![i] = new]
  OBVIOUS
<1> HIDE DEF new
<1>4. op' \in Seq(Ops) /\ Len(op') = Len(op) /\ DOMAIN op' = DOMAIN op
  BY <1>2, <1>3
<1>5. op'[i] = new /\ \A j \in DOMAIN op : j # i => op'[j] = op[j]
  BY <1>3
<1> QED BY <1>2, <1>4, <1>5

\* Asked for, it comes last.
LEMMA AskIs ==
  ASSUME op \in Seq(Ops), NEW kind \in Kinds, NEW pc \in {"ask", "load", "done"}, NEW to \in Outs,
         dev \in Outs, MaxOps \in Nat, Ask(kind, pc, to)
  PROVE  /\ op' \in Seq(Ops) /\ Len(op') = Len(op) + 1 /\ Len(op') <= MaxOps
         /\ DOMAIN op' = DOMAIN op \cup {Len(op')} /\ Len(op') \notin DOMAIN op
         /\ op'[Len(op')] = [kind |-> kind, pc |-> pc, to |-> to, prev |-> dev]
         /\ \A j \in DOMAIN op : op'[j] = op[j]
<1> DEFINE new == [kind |-> kind, pc |-> pc, to |-> to, prev |-> dev]
<1>1. new \in Ops
  BY DEF Ops
<1>2. op' = Append(op, new) /\ Len(op) < MaxOps
  BY DEF Ask
<1> HIDE DEF new
<1>3. op' \in Seq(Ops) /\ Len(op') = Len(op) + 1 /\ Len(op') <= MaxOps
  BY <1>1, <1>2
<1>4. op'[Len(op')] = new /\ \A j \in DOMAIN op : op'[j] = op[j]
  BY <1>1, <1>2, <1>3
<1>5. DOMAIN op' = DOMAIN op \cup {Len(op')} /\ Len(op') \notin DOMAIN op
  BY <1>1, <1>2, <1>3
<1> QED BY <1>3, <1>4, <1>5 DEF new

\* No more timers than the switches that have ended.
Counted == timers + Cardinality(UnderWay) <= Len(op)

LEMMA UnderWayFinite ==
  ASSUME op \in Seq(Ops)
  PROVE  /\ IsFiniteSet(UnderWay) /\ Cardinality(UnderWay) \in Nat /\ Len(op) \in Nat
         /\ Cardinality(UnderWay) <= Len(op)
<1>1. UnderWay \in SUBSET (1 .. Len(op)) /\ Len(op) \in Nat
  BY DEF UnderWay
<1>2. IsFiniteSet(1 .. Len(op)) /\ Cardinality(1 .. Len(op)) = Len(op)
  <2>1. ASSUME NEW n \in Nat PROVE IsFiniteSet(1 .. n) /\ Cardinality(1 .. n) = n
    <3>1. Cardinality(1 .. n) = IF 1 > n THEN 0 ELSE n - 1 + 1
      BY FS_Interval
    <3>2. IsFiniteSet(1 .. n)
      BY FS_Interval
    <3> QED BY <3>1, <3>2
  <2> QED BY <1>1, <2>1
<1>3. IsFiniteSet(UnderWay) /\ Cardinality(UnderWay) <= Len(op)
  BY <1>1, <1>2, FS_Subset
<1> QED BY <1>1, <1>3, FS_CardinalityType

\* An end leaves one less, another stage none less.
LEMMA StageCounts ==
  ASSUME op \in Seq(Ops), NEW i \in UnderWay, NEW pc \in {"load", "done"},
         op' = [op EXCEPT ![i].pc = pc]
  PROVE  /\ UnderWay' = IF pc = "done" THEN UnderWay \ {i} ELSE UnderWay
         /\ Cardinality(UnderWay') = Cardinality(UnderWay) - (IF pc = "done" THEN 1 ELSE 0)
         /\ Cardinality(UnderWay') \in Nat
<1>1. i \in DOMAIN op
  BY DEF UnderWay
<1>2. UnderWay' = IF pc = "done" THEN UnderWay \ {i} ELSE UnderWay
  BY <1>1, StageIs DEF UnderWay
<1>3. /\ Cardinality(UnderWay \ {i}) = Cardinality(UnderWay) - 1
      /\ Cardinality(UnderWay \ {i}) \in Nat
  BY UnderWayFinite, FS_RemoveElement, FS_CardinalityType
<1> QED BY <1>2, <1>3, UnderWayFinite

LEMMA AskCounts ==
  ASSUME op \in Seq(Ops), NEW kind \in Kinds, NEW pc \in {"ask", "load", "done"}, NEW to \in Outs,
         dev \in Outs, MaxOps \in Nat, Ask(kind, pc, to)
  PROVE  /\ UnderWay' = IF pc = "done" THEN UnderWay ELSE UnderWay \cup {Len(op')}
         /\ Cardinality(UnderWay') = Cardinality(UnderWay) + (IF pc = "done" THEN 0 ELSE 1)
<1>0. /\ DOMAIN op' = DOMAIN op \cup {Len(op')} /\ Len(op') \notin DOMAIN op
      /\ op'[Len(op')].pc = pc /\ \A j \in DOMAIN op : op'[j] = op[j]
  <2>1. /\ DOMAIN op' = DOMAIN op \cup {Len(op')} /\ Len(op') \notin DOMAIN op
        /\ \A j \in DOMAIN op : op'[j] = op[j]
    BY AskIs
  <2>2. op'[Len(op')] = [kind |-> kind, pc |-> pc, to |-> to, prev |-> dev]
    BY AskIs
  <2> QED BY <2>1, <2>2
<1>1. UnderWay' = IF pc = "done" THEN UnderWay ELSE UnderWay \cup {Len(op')}
  BY <1>0 DEF UnderWay
<1>2. Len(op') \notin UnderWay
  BY AskIs DEF UnderWay
<1>3. Cardinality(UnderWay \cup {Len(op')}) = Cardinality(UnderWay) + 1
  BY <1>2, UnderWayFinite, FS_AddElement
<1> QED BY <1>1, <1>3, UnderWayFinite

-----------------------------------------------------------------------------
(* Types, whatever happens meanwhile.                                       *)

Typed == TypeOK /\ Counted

\* All but the list and the timers.
Rest ==
  /\ dev \in Outs /\ want \in BOOLEAN /\ clock \in {"stopped", "held", "running"}
  /\ fresh \in BOOLEAN /\ loaded \in BOOLEAN /\ act \in BOOLEAN
  /\ sounds \subseteq Outs /\ transition \in BOOLEAN
  /\ stopping \in [Outs -> {"no", "sent", "verify"}]
  /\ reading \in {"none", "playing", "silent"}

LEMMA AskTyped ==
  ASSUME MaxOps \in Nat, Typed, NEW kind \in Kinds, NEW pc \in {"ask", "load", "done"},
         NEW to \in Outs, Ask(kind, pc, to), Rest',
         timers' = timers \/ (pc = "done" /\ timers' = timers + 1)
  PROVE  Typed'
<1>1. op \in Seq(Ops) /\ dev \in Outs /\ timers \in Nat
  BY DEF Typed, TypeOK
<1>2. op' \in Seq(Ops) /\ Len(op') = Len(op) + 1 /\ Len(op') <= MaxOps
  BY <1>1, AskIs
<1>3. Cardinality(UnderWay') = Cardinality(UnderWay) + (IF pc = "done" THEN 0 ELSE 1)
  BY <1>1, AskCounts
<1>4. Cardinality(UnderWay) \in Nat /\ Len(op) \in Nat
  BY <1>1, UnderWayFinite
<1>5. timers + Cardinality(UnderWay) <= Len(op)
  BY DEF Typed, Counted
<1>6. timers' + Cardinality(UnderWay') <= Len(op')
  BY <1>1, <1>2, <1>3, <1>4, <1>5
<1>7. timers' \in 0 .. MaxOps
  BY <1>1, <1>2, <1>3, <1>4, <1>6
<1> QED BY <1>2, <1>6, <1>7 DEF Typed, TypeOK, Counted, Rest

LEMMA StageTyped ==
  ASSUME MaxOps \in Nat, Typed, NEW i \in UnderWay, NEW pc \in {"load", "done"},
         op' = [op EXCEPT ![i].pc = pc], Rest',
         timers' = timers \/ (pc = "done" /\ timers' = timers + 1)
  PROVE  Typed'
<1>1. op \in Seq(Ops) /\ timers \in Nat /\ Len(op) <= MaxOps /\ i \in DOMAIN op
  BY DEF Typed, TypeOK, UnderWay
<1>2. op' \in Seq(Ops) /\ Len(op') = Len(op)
  BY <1>1, StageIs
<1>3. /\ Cardinality(UnderWay') = Cardinality(UnderWay) - (IF pc = "done" THEN 1 ELSE 0)
      /\ Cardinality(UnderWay') \in Nat
  BY <1>1, StageCounts
<1>4. Cardinality(UnderWay) \in Nat /\ Len(op) \in Nat
  BY <1>1, UnderWayFinite
<1>5. timers + Cardinality(UnderWay) <= Len(op)
  BY DEF Typed, Counted
<1>6. timers' + Cardinality(UnderWay') <= Len(op')
  BY <1>1, <1>2, <1>3, <1>4, <1>5
<1>7. timers' \in 0 .. MaxOps
  BY <1>1, <1>2, <1>3, <1>4, <1>6
<1>8. TypeOK'
  <2>1. op' \in Seq(Ops) /\ Len(op') <= MaxOps
    BY <1>1, <1>2
  <2> QED BY <1>7, <2>1 DEF TypeOK, Rest
<1> QED BY <1>6, <1>8 DEF Typed, Counted

LEMMA SameTyped ==
  ASSUME MaxOps \in Nat, Typed, UNCHANGED op, Rest',
         timers' = timers \/ (timers > 0 /\ timers' = timers - 1)
  PROVE  Typed'
<1>1. op \in Seq(Ops) /\ timers \in 0 .. MaxOps /\ Cardinality(UnderWay) \in Nat /\ Len(op) \in Nat
  BY UnderWayFinite DEF Typed, TypeOK
<1>2. Cardinality(UnderWay') = Cardinality(UnderWay) /\ Len(op') = Len(op)
  BY DEF UnderWay
<1>3. timers + Cardinality(UnderWay) <= Len(op)
  BY DEF Typed, Counted
<1>4. timers' + Cardinality(UnderWay') <= Len(op') /\ timers' \in 0 .. MaxOps
  BY <1>1, <1>2, <1>3
<1> QED BY <1>4 DEF Typed, TypeOK, Counted, Rest

LEMMA StopOnTyped ==
  ASSUME Rest, NEW o \in Outs, NEW ss \in SUBSET Outs, StopOn(o, ss)
  PROVE  /\ sounds' \subseteq ss
         /\ stopping' \in [Outs -> {"no", "sent", "verify"}]
BY DEF Rest, StopOn

Stage == \E i \in DOMAIN op : Status(i) \/ Arrive(i) \/ Refuse(i) \/ Started(i) \/ Fetched(i)
Asked == (\E o \in Outs : Switch(o) \/ TakeOver(o)) \/ Tap \/ Skip \/ Again
Plain == \/ \E o \in Outs : Stopped(o) \/ Verify(o)
         \/ \E r \in Remotes : Silent(r)
         \/ Timer \/ Time \/ Pause \/ Resume \/ HandOut \/ Yield \/ Poll

LEMMA PlainTyped == ASSUME MaxOps \in Nat, Typed, Plain PROVE Typed'
<1>1. Rest
  BY DEF Typed, TypeOK, Rest
<1>2. ASSUME NEW o \in Outs, Stopped(o) \/ Verify(o) PROVE Rest' /\ UNCHANGED <<op, timers>>
  BY <1>1, <1>2 DEF Rest, Stopped, Verify, Obeyed
<1>3. ASSUME NEW r \in Remotes, Silent(r) PROVE Rest' /\ UNCHANGED <<op, timers>>
  BY <1>1, <1>3 DEF Rest, Silent
<1>4. CASE Timer
  BY <1>1, <1>4, SameTyped DEF Rest, Timer
<1>5. ASSUME Time \/ Pause \/ Resume \/ HandOut \/ Yield \/ Poll PROVE Rest' /\ UNCHANGED <<op, timers>>
  <2>1. dev \in Outs
    BY <1>1 DEF Rest
  <2> QED BY <1>1, <1>5, <2>1 DEF Rest, Time, Pause, Resume, HandOut, Yield, Poll
<1> QED BY <1>2, <1>3, <1>4, <1>5, SameTyped DEF Plain

LEMMA AskedTyped == ASSUME MaxOps \in Nat, Typed, Asked PROVE Typed'
<1>1. Rest /\ dev \in Outs
  BY DEF Typed, TypeOK, Rest
<1>2. ASSUME NEW o \in Outs, Switch(o) PROVE Typed'
  <2>1. sounds' \subseteq Outs /\ stopping' \in [Outs -> {"no", "sent", "verify"}]
    BY <1>1, <1>2, StopOnTyped DEF Switch, Rest
  <2>2. Rest'
    BY <1>1, <1>2, <2>1 DEF Rest, Switch
  <2>3. CASE want
    <3>1. PICK pc \in {"ask", "load"} : Ask("switch", pc, o)
      BY <1>2, <2>3 DEF Switch
    <3>2. timers' = timers
      BY <1>2, <2>3 DEF Switch
    <3> QED BY <2>2, <3>1, <3>2, AskTyped DEF Kinds
  <2>4. CASE ~want
    <3>1. Ask("switch", "done", o) /\ timers' = timers + 1
      BY <1>2, <2>4 DEF Switch
    <3> QED BY <2>2, <3>1, AskTyped DEF Kinds
  <2> QED BY <2>3, <2>4
<1>3. ASSUME NEW o \in Outs, TakeOver(o) PROVE Typed'
  <2>1. Rest' /\ Ask("take", "ask", o) /\ timers' = timers
    BY <1>1, <1>3 DEF Rest, TakeOver
  <2> QED BY <2>1, AskTyped DEF Kinds
<1>4. CASE Tap \/ Skip
  <2>1. Rest' /\ Ask("start", "load", dev) /\ timers' = timers
    BY <1>1, <1>4 DEF Rest, Tap, Skip
  <2> QED BY <1>1, <2>1, AskTyped DEF Kinds
<1>5. CASE Again
  <2>1. Rest' /\ Ask("again", "load", dev) /\ timers' = timers
    BY <1>1, <1>5 DEF Rest, Again
  <2> QED BY <1>1, <2>1, AskTyped DEF Kinds
<1> QED BY <1>2, <1>3, <1>4, <1>5 DEF Asked

LEMMA ApplyTyped == ASSUME MaxOps \in Nat, Typed, Apply PROVE Typed'
<1>1. Rest /\ dev \in Outs
  BY DEF Typed, TypeOK, Rest
<1>2. UNCHANGED <<dev, act, sounds, transition, timers, stopping>> /\ reading' = "none"
      /\ fresh' = (fresh \/ clock' = "stopped")
  BY DEF Apply
<1>3. CASE Advance
  <2>1. Rest' /\ Ask("start", "load", dev)
    BY <1>1, <1>2, <1>3 DEF Rest, Advance
  <2> QED BY <1>1, <1>2, <2>1, AskTyped DEF Kinds
<1>4. CASE UNCHANGED <<want, clock, loaded, op>>
  <2>1. Rest'
    BY <1>1, <1>2, <1>4 DEF Rest
  <2> QED BY <1>2, <1>4, <2>1, SameTyped
<1>5. CASE Believed /\ UNCHANGED <<loaded, op>>
  <2>1. Rest'
    BY <1>1, <1>2, <1>5 DEF Rest, Believed
  <2> QED BY <1>2, <1>5, <2>1, SameTyped
<1> QED BY <1>3, <1>4, <1>5 DEF Apply

LEMMA StageStepTyped == ASSUME MaxOps \in Nat, Typed, Stage PROVE Typed'
<1>1. Rest /\ op \in Seq(Ops) /\ \A i \in DOMAIN op : op[i] \in Ops
  BY DEF Typed, TypeOK, Rest
<1>2. PICK i \in DOMAIN op : Status(i) \/ Arrive(i) \/ Refuse(i) \/ Started(i) \/ Fetched(i)
  BY DEF Stage
<1>3. op[i].to \in Outs /\ op[i].prev \in Outs
  BY <1>1 DEF Ops
<1>4. i \in UnderWay
  BY <1>2 DEF UnderWay, Status, Arrive, Refuse, Started, Fetched
<1>5. ASSUME NEW ss \in SUBSET Outs, Moved(i, ss)
      PROVE  /\ sounds' \subseteq Outs /\ stopping' \in [Outs -> {"no", "sent", "verify"}]
             /\ want' \in BOOLEAN /\ loaded' \in BOOLEAN
  BY <1>1, <1>3, <1>5, StopOnTyped DEF Moved
<1>6. CASE Status(i)
  <2>1. \/ op' = [op EXCEPT ![i].pc = "load"] /\ timers' = timers
        \/ op' = [op EXCEPT ![i].pc = "done"] /\ timers' = timers + 1
    BY <1>6 DEF Status, End, Settle
  <2>2. Rest'
    BY <1>1, <1>5, <1>6 DEF Status, Rest
  <2> QED BY <1>4, <2>1, <2>2, StageTyped
<1>7. CASE Arrive(i)
  <2>1. op' = [op EXCEPT ![i].pc = "done"] /\ timers' = timers + 1
    BY <1>7 DEF Arrive, End, Settle
  <2>2. sounds \cup {op[i].to} \in SUBSET Outs
    BY <1>1, <1>3 DEF Rest
  <2>3. Rest'
    BY <1>1, <1>5, <1>7, <2>2 DEF Arrive, Rest
  <2> QED BY <1>4, <2>1, <2>3, StageTyped
<1>8. CASE Refuse(i)
  <2>1. op' = [op EXCEPT ![i].pc = "done"] /\ timers' = timers + 1
    BY <1>8 DEF Refuse, End, Settle
  <2>2. Rest'
    BY <1>1, <1>3, <1>8 DEF Refuse, Rest
  <2> QED BY <1>4, <2>1, <2>2, StageTyped
<1>9. CASE Started(i)
  <2>1. op' = [op EXCEPT ![i].pc = "done"] /\ timers' = timers
    BY <1>9 DEF Started, End
  <2>2. want' \in BOOLEAN /\ loaded' \in BOOLEAN
    BY <1>1, <1>9 DEF Started, Rest
  <2>3. Rest'
    BY <1>1, <1>3, <1>9, <2>2 DEF Started, Rest
  <2> QED BY <1>4, <2>1, <2>3, StageTyped
<1>10. CASE Fetched(i)
  <2>1. timers' = timers /\ \E pc \in {"load", "done"} : op' = [op EXCEPT ![i].pc = pc]
    BY <1>10 DEF Fetched, End
  <2>2. Rest'
    BY <1>1, <1>10 DEF Fetched, Rest
  <2> QED BY <1>4, <2>1, <2>2, StageTyped
<1> QED BY <1>2, <1>6, <1>7, <1>8, <1>9, <1>10

LEMMA StepTyped == ASSUME MaxOps \in Nat, Typed, [Next]_vars PROVE Typed'
<1>1. CASE Plain
  BY <1>1, PlainTyped
<1>2. CASE Asked
  BY <1>2, AskedTyped
<1>3. CASE Apply
  BY <1>3, ApplyTyped
<1>4. CASE Stage
  BY <1>4, StageStepTyped
<1>5. CASE UNCHANGED vars
  <2>1. Rest' /\ UNCHANGED <<op, timers>>
    BY <1>5 DEF Typed, TypeOK, Rest, vars
  <2> QED BY <2>1, SameTyped
<1> QED BY <1>1, <1>2, <1>3, <1>4, <1>5 DEF Next, Plain, Asked, Stage

-----------------------------------------------------------------------------
(* One thing at a time.                                                     *)

\* Nothing is asked for beside another, a speaker stops when it is told to, and
\* a status answer is not older than the 2 s a tap is believed for.
Given == MaxOps \in Nat /\ "overlap" \notin Env /\ "deaf" \notin Env /\ "slow" \notin Env

\* What sounds besides the output chosen is being stopped, or is the one a
\* switch under way comes from; a page that left the session to another is
\* silent, and no answer of its speaker makes it go on.
Alone ==
  /\ \A i \in UnderWay : /\ i = Len(op) /\ op[i].to = dev
                         /\ op[i].kind = "switch" => dev \notin sounds
  /\ UnderWay # {} => \A o \in Outs : stopping[o] # "sent"
  /\ \A o \in sounds : \/ o = dev \/ stopping[o] = "sent"
                       \/ \E i \in UnderWay : op[i].kind = "switch" /\ op[i].prev = o
  /\ act => sounds = {} /\ UnderWay = {} /\ clock = "stopped" /\ (reading = "playing" => fresh)

IInv == Typed /\ Alone

\* At rest there is nothing else to sound.
LEMMA AtRest ==
  ASSUME Given, IInv, Free
  PROVE  UnderWay = {} /\ sounds \subseteq {dev} /\ \A o \in Outs : stopping[o] # "sent"
<1>1. UnderWay = {} /\ \A o \in Outs : stopping[o] # "sent"
  BY DEF Given, Free, Resting
<1>2. sounds \subseteq Outs
  BY DEF IInv, Typed, TypeOK
<1> QED BY <1>1, <1>2 DEF IInv, Alone

LEMMA PlainAlone == ASSUME Given, IInv, Plain PROVE Alone'
<1> USE DEF IInv
<1>1. sounds \subseteq Outs /\ stopping \in [Outs -> {"no", "sent", "verify"}] /\ dev \in Outs
  BY DEF Typed, TypeOK
<1>2. UnderWay' = UnderWay /\ op' = op
  BY DEF Plain, UnderWay, Stopped, Verify, Silent, Timer, Time, Pause, Resume, HandOut, Yield, Poll
<1>3. ASSUME NEW o \in Outs, Stopped(o) PROVE Alone'
  <2>1. /\ stopping[o] = "sent" /\ sounds' = sounds \ {o}
        /\ stopping' = [stopping EXCEPT ![o] = "verify"]
        /\ UNCHANGED <<dev, clock, fresh, act, reading>>
    BY <1>3 DEF Given, Stopped, Obeyed
  <2>2. UnderWay = {} /\ \A u \in Outs : u # o => stopping'[u] = stopping[u]
    BY <1>1, <2>1 DEF Alone
  <2> QED BY <1>1, <1>2, <2>1, <2>2 DEF Alone
<1>4. ASSUME NEW o \in Outs, Verify(o) PROVE Alone'
  <2>1. /\ sounds' \subseteq sounds
        /\ \A u \in Outs : stopping'[u] = "sent" <=> stopping[u] = "sent"
        /\ UNCHANGED <<dev, clock, fresh, act, reading>>
    BY <1>1, <1>4 DEF Given, Verify, Obeyed
  <2> QED BY <1>1, <1>2, <2>1 DEF Alone
<1>5. ASSUME NEW r \in Remotes, Silent(r) PROVE Alone'
  <2>1. sounds' \subseteq sounds /\ UNCHANGED <<dev, clock, fresh, act, reading, stopping>>
    BY <1>5 DEF Silent
  <2> QED BY <1>1, <1>2, <2>1 DEF Alone
<1>6. CASE Timer \/ Time
  <2>1. /\ UNCHANGED <<dev, clock, act, reading, stopping, sounds>>
        /\ fresh' = fresh \/ reading = "none"
    BY <1>6 DEF Given, Timer, Time
  <2> QED BY <1>1, <1>2, <2>1 DEF Alone
<1>7. CASE Pause \/ Resume
  <2>1. Free /\ ~act /\ sounds' \subseteq sounds \cup {dev} /\ UNCHANGED <<dev, act, stopping>>
    BY <1>7 DEF Pause, Resume
  <2> QED BY <1>1, <1>2, <2>1, AtRest DEF Alone
<1>8. CASE HandOut \/ Yield
  <2>1. /\ Free /\ sounds' = sounds \ {dev} /\ clock' = "stopped" /\ fresh' = TRUE
        /\ UNCHANGED <<dev, stopping>>
    BY <1>8 DEF HandOut, Yield
  <2> QED BY <1>1, <1>2, <2>1, AtRest DEF Alone
<1>9. CASE Poll
  <2>1. /\ UNCHANGED <<dev, clock, act, fresh, stopping, sounds>>
        /\ reading' = "playing" => dev \in sounds
    BY <1>9 DEF Poll
  <2> QED BY <1>1, <1>2, <2>1 DEF Alone
<1> QED BY <1>3, <1>4, <1>5, <1>6, <1>7, <1>8, <1>9 DEF Plain

\* Asked for at rest and to be loaded, an output is the only one under way.
LEMMA AskAlone ==
  ASSUME Given, IInv, NEW kind \in Kinds, NEW pc \in {"ask", "load", "done"}, NEW to \in Outs,
         Ask(kind, pc, to)
  PROVE  LET n == Len(op') IN
         /\ UnderWay' = IF pc = "done" THEN {} ELSE {n}
         /\ op'[n].kind = kind /\ op'[n].to = to /\ op'[n].prev = dev
<1>1. op \in Seq(Ops) /\ dev \in Outs /\ MaxOps \in Nat
  BY DEF Given, IInv, Typed, TypeOK
<1>2. UnderWay = {}
  BY AtRest DEF Ask
<1>3. UnderWay' = IF pc = "done" THEN UnderWay ELSE UnderWay \cup {Len(op')}
  BY <1>1, AskCounts
<1>4. op'[Len(op')] = [kind |-> kind, pc |-> pc, to |-> to, prev |-> dev]
  BY <1>1, AskIs
<1> QED BY <1>2, <1>3, <1>4

\* A start on the output chosen.
LEMMA StartAlone ==
  ASSUME Given, IInv, ~act, NEW kind \in {"start", "again"}, Ask(kind, "load", dev),
         UNCHANGED <<dev, act, sounds, stopping>>
  PROVE  Alone'
<1>1. Free /\ dev \in Outs /\ kind \in Kinds
  BY DEF Ask, IInv, Typed, TypeOK, Kinds
<1>2. UnderWay' = {Len(op')} /\ op'[Len(op')].kind = kind /\ op'[Len(op')].to = dev
  BY <1>1, AskAlone
<1>3. sounds \subseteq {dev} /\ \A o \in Outs : stopping[o] # "sent"
  BY <1>1, AtRest
<1> QED BY <1>2, <1>3 DEF Alone

LEMMA AskedAlone == ASSUME Given, IInv, Asked PROVE Alone'
<1>1. /\ sounds \subseteq Outs /\ stopping \in [Outs -> {"no", "sent", "verify"}] /\ dev \in Outs
  BY DEF IInv, Typed, TypeOK
<1>2. ASSUME NEW o \in Outs, Switch(o) PROVE Alone'
  <2>1. Free /\ ~act /\ act' = act /\ o # dev /\ dev' = o
    BY <1>2 DEF Switch, Ask
  <2>2. UnderWay = {} /\ sounds \subseteq {dev} /\ \A u \in Outs : stopping[u] # "sent"
    BY <2>1, AtRest
  <2>3. CASE want
    <3>1. PICK pc \in {"ask", "load"} : Ask("switch", pc, o)
      BY <1>2, <2>3 DEF Switch
    <3>2. UnderWay' = {Len(op')} /\ op'[Len(op')].kind = "switch" /\ op'[Len(op')].to = o
          /\ op'[Len(op')].prev = dev
      BY <3>1, AskAlone DEF Kinds
    <3>3. UNCHANGED <<sounds, stopping>>
      BY <1>2, <2>3 DEF Switch
    <3> QED BY <2>1, <2>2, <3>2, <3>3 DEF Alone
  <2>4. CASE ~want
    <3>1. Ask("switch", "done", o) /\ StopOn(dev, sounds)
      BY <1>2, <2>4 DEF Switch
    <3>2. UnderWay' = {}
      BY <3>1, AskAlone DEF Kinds
    <3>3. \A u \in sounds' : stopping'[u] = "sent"
      BY <1>1, <2>2, <3>1 DEF StopOn
    <3> QED BY <2>1, <3>2, <3>3 DEF Alone
  <2> QED BY <2>3, <2>4
<1>3. ASSUME NEW o \in Outs, TakeOver(o) PROVE Alone'
  <2>1. act /\ Ask("take", "ask", o) /\ Free /\ dev' = o /\ act' = FALSE /\ UNCHANGED <<sounds, stopping>>
    BY <1>3 DEF TakeOver, Ask
  <2>2. UnderWay' = {Len(op')} /\ op'[Len(op')].kind = "take" /\ op'[Len(op')].to = o
    BY <2>1, AskAlone DEF Kinds
  <2>3. sounds = {} /\ \A u \in Outs : stopping[u] # "sent"
    BY <2>1, AtRest DEF IInv, Alone
  <2> QED BY <2>1, <2>2, <2>3 DEF Alone
<1>4. CASE Tap \/ Skip \/ Again
  <2>1. ~act /\ UNCHANGED <<dev, act, sounds, stopping>>
        /\ \E kind \in {"start", "again"} : Ask(kind, "load", dev)
    BY <1>4 DEF Tap, Skip, Again
  <2> QED BY <2>1, StartAlone
<1> QED BY <1>2, <1>3, <1>4 DEF Asked

LEMMA ApplyAlone == ASSUME Given, IInv, Apply PROVE Alone'
<1>1. UNCHANGED <<dev, act, sounds, stopping>> /\ reading # "none" /\ reading' = "none"
  BY DEF Apply
<1>2. reading \in {"playing", "silent"} /\ sounds \subseteq Outs
  BY <1>1 DEF IInv, Typed, TypeOK
<1>3. CASE Advance
  <2>1. ~act /\ Ask("start", "load", dev)
    BY <1>3 DEF IInv, Alone, Advance
  <2> QED BY <1>1, <2>1, StartAlone
<1>4. CASE op' = op /\ (UNCHANGED clock \/ Believed)
  <2>1. UnderWay' = UnderWay
    BY <1>4 DEF UnderWay
  <2>2. act => clock' = "stopped"
    BY <1>2, <1>4 DEF IInv, Alone, Believed
  <2> QED BY <1>1, <1>4, <2>1, <2>2 DEF IInv, Alone
<1> QED BY <1>3, <1>4 DEF Apply

LEMMA StageAlone == ASSUME Given, IInv, Stage PROVE Alone'
<1>1. PICK i \in DOMAIN op : Status(i) \/ Arrive(i) \/ Refuse(i) \/ Started(i) \/ Fetched(i)
  BY DEF Stage
<1>2. /\ op \in Seq(Ops) /\ op[i].prev \in Outs /\ sounds \subseteq Outs
      /\ stopping \in [Outs -> {"no", "sent", "verify"}] /\ dev \in Outs
  <2>1. op \in Seq(Ops) /\ op[i] \in Ops
    BY DEF IInv, Typed, TypeOK
  <2> QED BY <2>1 DEF IInv, Typed, TypeOK, Ops
<1>3. i \in UnderWay
  BY <1>1 DEF UnderWay, Status, Arrive, Refuse, Started, Fetched
<1>4. /\ UnderWay = {i} /\ i = Len(op) /\ op[i].to = dev /\ ~act
      /\ \A o \in Outs : stopping[o] # "sent"
      /\ \A o \in sounds : o = dev \/ (op[i].kind = "switch" /\ op[i].prev = o)
      /\ op[i].kind = "switch" => dev \notin sounds
  BY <1>2, <1>3 DEF IInv, Alone
<1>5. StillMine(i)
  BY <1>2, <1>4 DEF StillMine
<1>6. ASSUME End(i) PROVE UnderWay' = {}
  BY <1>2, <1>3, <1>4, <1>6, StageCounts DEF End
<1>7. ASSUME op' = [op EXCEPT ![i].pc = "load"], UNCHANGED <<dev, act, sounds, stopping>> PROVE Alone'
  <2>1. UnderWay' = {i}
    BY <1>2, <1>3, <1>4, <1>7, StageCounts
  <2>2. Len(op') = Len(op) /\ op'[i].kind = op[i].kind /\ op'[i].to = op[i].to /\ op'[i].prev = op[i].prev
    BY <1>2, <1>7, StageIs
  <2> QED BY <1>4, <1>7, <2>1, <2>2 DEF Alone
<1>8. CASE Status(i)
  <2>1. op' = [op EXCEPT ![i].pc = "load"] /\ UNCHANGED <<dev, act, sounds, stopping>>
    BY <1>4, <1>5, <1>8 DEF Status
  <2> QED BY <1>7, <2>1
<1>9. CASE Arrive(i)
  <2>1. End(i) /\ StopOn(op[i].prev, sounds \cup {dev}) /\ UNCHANGED <<dev, act>> /\ op[i].kind = "switch"
    BY <1>4, <1>5, <1>9 DEF Arrive, Moved
  <2>2. \A o \in sounds' : o = dev \/ stopping'[o] = "sent"
    BY <1>2, <1>4, <2>1 DEF StopOn
  <2> QED BY <1>4, <1>6, <2>1, <2>2 DEF Alone
<1>10. CASE Refuse(i)
  <2>1. End(i) /\ dev' = op[i].prev /\ op[i].kind = "switch" /\ UNCHANGED <<act, sounds, stopping>>
    BY <1>5, <1>10 DEF Refuse
  <2> QED BY <1>4, <1>6, <2>1 DEF Alone
<1>11. CASE Started(i)
  <2>1. End(i) /\ op[i].kind # "switch" /\ sounds' \subseteq sounds \cup {dev}
        /\ UNCHANGED <<dev, act, stopping>>
    BY <1>4, <1>11 DEF Started
  <2> QED BY <1>4, <1>6, <2>1 DEF Alone
<1>12. CASE Fetched(i)
  <2>1. UNCHANGED <<dev, act, sounds, stopping>> /\ op[i].kind = "take"
        /\ (op' = [op EXCEPT ![i].pc = "load"] \/ End(i))
    BY <1>12 DEF Fetched
  <2>2. CASE End(i)
    BY <1>4, <1>6, <2>1, <2>2 DEF Alone
  <2> QED BY <1>7, <2>1, <2>2
<1> QED BY <1>1, <1>8, <1>9, <1>10, <1>11, <1>12

LEMMA StepAlone == ASSUME Given, IInv, [Next]_vars PROVE Alone'
<1>1. CASE Plain
  BY <1>1, PlainAlone
<1>2. CASE Asked
  BY <1>2, AskedAlone
<1>3. CASE Apply
  BY <1>3, ApplyAlone
<1>4. CASE Stage
  BY <1>4, StageAlone
<1>5. CASE UNCHANGED vars
  BY <1>5 DEF IInv, Alone, UnderWay, vars
<1> QED BY <1>1, <1>2, <1>3, <1>4, <1>5 DEF Next, Plain, Asked, Stage

-----------------------------------------------------------------------------
(* The theorems.                                                            *)

LEMMA BaseTyped == ASSUME MaxOps \in Nat, Init PROVE Typed /\ UnderWay = {}
<1>1. op = <<>> /\ UnderWay = {} /\ timers = 0
  BY DEF Init, UnderWay
<1>2. Counted
  BY <1>1, FS_EmptySet DEF Counted
<1>3. Here \in Outs
  BY DEF Outs
<1>4. op \in Seq(Ops) /\ Len(op) <= MaxOps /\ timers \in 0 .. MaxOps
  BY <1>1
<1>5. TypeOK
  BY <1>3, <1>4 DEF Init, TypeOK
<1> QED BY <1>1, <1>2, <1>5 DEF Typed

\* For any speakers and however much is asked for, at the same time too, every
\* variable keeps its type.
THEOREM HandoffTyped == ASSUME MaxOps \in Nat PROVE Spec => []TypeOK
<1>1. Init => Typed
  BY BaseTyped
<1>2. Typed /\ [Next]_vars => Typed'
  BY StepTyped
<1>3. Typed => TypeOK
  BY DEF Typed
<1> QED BY <1>1, <1>2, <1>3, PTL DEF Spec

\* Whatever a page is asked meanwhile, a switch or start that a newer one of its
\* kind replaced (switchGenRef, startGenRef) moves neither the output nor the
\* button when its answer comes.
THEOREM LateChangesNothing == ASSUME MaxOps \in Nat PROVE Spec => NewestWins
<1>1. Init => Typed
  BY BaseTyped
<1>2. Typed /\ [Next]_vars => Typed'
  BY StepTyped
<1>3. ASSUME Typed, [Next]_vars PROVE Newest
  <2> SUFFICES ASSUME NEW i \in DOMAIN op, op[i].kind \in {"switch", "start"}, ~StillMine(i), op'[i] # op[i]
               PROVE  dev' = dev /\ want' = want
    BY DEF Newest
  <2>1. op \in Seq(Ops) /\ dev \in Outs /\ want \in BOOLEAN
    BY <1>3 DEF Typed, TypeOK
  <2>2. CASE Plain \/ UNCHANGED vars
    BY <2>2 DEF Plain, vars, Stopped, Verify, Silent, Timer, Time, Pause, Resume, HandOut, Yield, Poll
  <2>3. ASSUME NEW kind, NEW pc, NEW to, Ask(kind, pc, to) PROVE op'[i] = op[i]
    BY <2>1, <2>3 DEF Ask
  <2>4. CASE Asked \/ Apply
    BY <2>3, <2>4 DEF Asked, Switch, TakeOver, Tap, Skip, Again, Apply, Advance, Believed
  <2>5. ASSUME NEW k \in DOMAIN op, Status(k) \/ Arrive(k) \/ Refuse(k) \/ Started(k) \/ Fetched(k)
        PROVE  dev' = dev /\ want' = want
    <3>1. k = i
      BY <2>5 DEF Status, Arrive, Refuse, Started, Fetched, End
    <3>2. CASE Status(k) \/ Arrive(k) \/ Refuse(k)
      BY <3>1, <3>2 DEF Status, Arrive, Refuse
    <3>3. CASE Started(k)
      BY <2>1, <3>1, <3>3 DEF Started
    <3>4. CASE Fetched(k)
      BY <3>1, <3>4 DEF Fetched
    <3> QED BY <2>5, <3>2, <3>3, <3>4
  <2> QED BY <1>3, <2>2, <2>4, <2>5 DEF Next, Plain, Asked
<1> QED BY <1>1, <1>2, <1>3, PTL DEF Spec, NewestWins

\* However many speakers there are and however often it moves between them, is
\* paused, skips, fails to start, leaves the session to another page and takes it
\* back: at rest no output sounds but the one the page has chosen.
THEOREM OthersSilent == ASSUME Given PROVE Spec => []AloneAtRest
<1>1. MaxOps \in Nat
  BY DEF Given
<1>2. ASSUME Init PROVE IInv
  BY <1>1, <1>2, BaseTyped DEF IInv, Alone, Init
<1>3. IInv /\ [Next]_vars => IInv'
  BY <1>1, StepTyped, StepAlone DEF IInv
<1>4. ASSUME IInv PROVE AloneAtRest
  BY <1>4 DEF IInv, Alone, AloneAtRest, Typed, TypeOK
<1>5. (Init => IInv) /\ (IInv => AloneAtRest)
  BY <1>2, <1>4
<1> QED BY <1>3, <1>5, PTL DEF Spec
=============================================================================
