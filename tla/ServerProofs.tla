---------------------------- MODULE ServerProofs ----------------------------
(* Proofs about what the server does by itself: Chores, Lyrics, Downloads, each
   for any values of its constants.

   Chores, on any calendar without a day longer than Day: the clock starts a
   daily chore once for each of its points, and none in the line starves.  Once:
   a chore that was started since its last point either still runs or is
   remembered with a start after it.  InTurn: what a due chore was passed over
   for and what is still ahead of it in the line make up less than the line.

   Lyrics, however many songs are asked for: types and the line whatever happens
   beside the task; and, as long as nothing is undone and no crash comes between
   a row and the keeping of its file, that no .lrc that came with the music is
   lost.  Held says why: until the file is kept it is untouched, the row still
   says it is the file's (unless the task has just replaced it and is about to
   keep the file), and the task has read that row.

   Downloads: no album is given up before its time for what the pass has read.
   WatchRows: a row is no older than its album's last chance, unless a file it
   does not know of came since.  Passing: what the pass read is there still, and
   if nothing came of the album since it searches or quits only after waiting. *)
EXTENDS Chores, Lyrics, Downloads, FiniteSetTheorems, SequenceTheorems, TLAPS

-----------------------------------------------------------------------------
(* Chores.                                                                  *)

Run    == [started : 0 .. MaxTime, by : {"clock", "hand", "watch"}]
Record == [started : 0 .. MaxTime, ended : 0 .. MaxTime]

\* Days follow each other from the first, each with its point; no point is
\* more than Day after the one before it (no day of more than 24 hours).
Calendar ==
  /\ Day \in Nat /\ DayStart \in Seq(Nat) /\ Points \in Seq(Nat)
  /\ Len(DayStart) # 0 /\ Len(Points) = Len(DayStart)
  /\ DayStart[1] = 0 /\ Points[1] <= Day
  /\ \A i \in 1 .. Len(Points) - 1 : Points[i] < DayStart[i + 1] /\ Points[i + 1] - Points[i] <= Day

\* The tasks are a row without repeats.
Given ==
  /\ Calendar
  /\ Defs \in Seq(Tasks) /\ Alongside \subseteq Tasks /\ Watched \subseteq Tasks
  /\ \A i, j \in DOMAIN Defs : Defs[i] = Defs[j] => i = j
  /\ MaxTime \in Nat /\ MaxOps \in Nat
  /\ Unrun \notin Run /\ Unrun \notin Record

Shape ==
  /\ now \in 0 .. MaxTime
  /\ sched \in [Tasks -> UNION {Modes[t] : t \in Tasks}]
  /\ running \in [Tasks -> Run \cup {Unrun}]
  /\ last \in [Tasks -> Record \cup {Unrun}]
  /\ rr \in 0 .. Len(Defs)
  /\ seen \in [Tasks -> Nat] /\ passed \in [Tasks -> Nat]

-----------------------------------------------------------------------------
(* Finite sets of numbers have a least and a greatest member.               *)

LEMMA LeastExists ==
  ASSUME NEW n \in Nat, NEW S, S \subseteq 0 .. n, S # {}
  PROVE  \E m \in S : \A k \in S : m <= k
<1> DEFINE R == StrictSubsetOrdering(0 .. n)
           T == {0 .. k : k \in S}
<1>1. IsFiniteSet(0 .. n)
  BY FS_Interval
<1>2. T \subseteq FiniteSubsetsOf(0 .. n)
  <2>1. ASSUME NEW k \in S PROVE 0 .. k \subseteq 0 .. n
    OBVIOUS
  <2>2. T \subseteq SUBSET (0 .. n)
    BY <2>1
  <2> QED BY <1>1, <2>2, FS_FiniteSubsetsOfFinite
<1>3. IsWellFoundedOn(R, FiniteSubsetsOf(0 .. n))
  BY FS_StrictSubsetOrderingWellFounded
<1>4. T # {}
  OBVIOUS
<1>5. \E x \in T : \A y \in T : ~ (<<y, x>> \in R)
  <2> HIDE DEF R, T
  <2> QED BY <1>2, <1>3, <1>4, WFMin
<1>6. PICK m \in S : \A y \in T : ~ (<<y, 0 .. m>> \in R)
  BY <1>5
<1>7. ASSUME NEW k \in S, k < m PROVE FALSE
  <2>1. 0 .. k \subseteq 0 .. m /\ m \in 0 .. m /\ m \notin 0 .. k
    BY <1>7
  <2>2. 0 .. k \in SUBSET (0 .. n) /\ 0 .. m \in SUBSET (0 .. n)
    OBVIOUS
  <2>3. 0 .. k # 0 .. m
    BY <2>1
  <2>4. <<0 .. k, 0 .. m>> \in R
    BY <2>1, <2>2, <2>3 DEF StrictSubsetOrdering
  <2> QED BY <1>6, <2>4
<1> QED BY <1>7

LEMMA GreatestExists ==
  ASSUME NEW n \in Nat, NEW S, S \subseteq 0 .. n, S # {}
  PROVE  \E m \in S : \A k \in S : k <= m
<1> DEFINE T == {n - k : k \in S}
<1>0. \A k \in S : n - k \in 0 .. n
  OBVIOUS
<1>1. T \subseteq 0 .. n /\ T # {}
  BY <1>0
<1>2. PICK t \in T : \A u \in T : t <= u
  <2> HIDE DEF T
  <2> QED BY <1>1, LeastExists
<1>3. PICK m \in S : t = n - m
  OBVIOUS
<1>4. ASSUME NEW k \in S PROVE k <= m
  <2>1. n - k \in T
    OBVIOUS
  <2>2. t <= n - k
    BY <1>2, <2>1
  <2> QED BY <1>3, <2>2
<1> QED BY <1>4

\* The last point is not after the time it is asked for, and no point that has
\* come is after it.
LEMMA LastPointIs ==
  ASSUME Given, NEW n \in 0 .. MaxTime
  PROVE  /\ LastPoint(n) \in Int /\ LastPoint(n) <= n
         /\ \A i \in DOMAIN Points : Points[i] <= n => Points[i] <= LastPoint(n)
<1> DEFINE ps == {Points[i] : i \in DOMAIN Points} \cap 0 .. n
<1>1. LastPoint(n) = IF ps = {} THEN -Day ELSE CHOOSE p \in ps : \A q \in ps : q <= p
  BY DEF LastPoint
<1>2. n \in Nat /\ ps \subseteq 0 .. n
  BY DEF Given
<1>3. \A i \in DOMAIN Points : Points[i] <= n => Points[i] \in ps
  BY <1>2 DEF Given, Calendar
<1> HIDE DEF ps
<1>4. CASE ps = {}
  <2>1. LastPoint(n) = -Day
    BY <1>1, <1>4
  <2> QED BY <1>2, <1>3, <1>4, <2>1 DEF Given, Calendar
<1>5. CASE ps # {}
  <2>1. \E p \in ps : \A q \in ps : q <= p
    BY <1>2, <1>5, GreatestExists
  <2>2. LastPoint(n) \in ps /\ \A q \in ps : q <= LastPoint(n)
    BY <1>1, <1>5, <2>1
  <2>3. LastPoint(n) \in 0 .. n
    BY <1>2, <2>2
  <2>4. LastPoint(n) \in Int /\ LastPoint(n) <= n
    BY <1>2, <2>3
  <2> QED BY <1>3, <2>2, <2>4
<1> QED BY <1>4, <1>5

\* What prevPoint computes is not after the last point, or before all time.
LEMMA PrevIsPast ==
  ASSUME Given, NEW n \in 0 .. MaxTime
  PROVE  PrevPoint(n) \in Int /\ (PrevPoint(n) <= LastPoint(n) \/ PrevPoint(n) <= 0)
<1> DEFINE D == {i \in DOMAIN DayStart : DayStart[i] <= n}
           K == Len(Points)
<1>1. n \in Nat /\ Calendar
  BY DEF Given
<1>2. /\ K \in Nat /\ DOMAIN Points = 1 .. K /\ DOMAIN DayStart = 1 .. K
      /\ \A i \in 1 .. K : Points[i] \in Nat /\ DayStart[i] \in Nat
  <2>1. DayStart \in Seq(Nat) /\ Points \in Seq(Nat) /\ Len(Points) = Len(DayStart)
    BY <1>1 DEF Calendar
  <2>2. K \in Nat /\ DOMAIN Points = 1 .. K /\ DOMAIN DayStart = 1 .. K
    BY <2>1
  <2>3. \A i \in DOMAIN Points : Points[i] \in Nat
    BY <2>1
  <2>4. \A i \in DOMAIN DayStart : DayStart[i] \in Nat
    BY <2>1
  <2> QED BY <2>2, <2>3, <2>4
<1>3. 1 \in D /\ D \subseteq 0 .. K
  BY <1>1, <1>2 DEF Calendar
<1>4. PICK i \in D : \A j \in D : j <= i
  <2> HIDE DEF D, K
  <2> QED BY <1>2, <1>3, GreatestExists
<1>5. PICK T \in 1 .. K : T = Today(n) /\ DayStart[T] <= n
  BY <1>2, <1>4 DEF Today
<1>6. PrevPoint(n) = IF Points[T] > n THEN Points[T] - Day ELSE Points[T]
  BY <1>5 DEF PrevPoint
<1>7. Points[T] \in Nat /\ Day \in Nat
  BY <1>1, <1>2 DEF Calendar
<1>8. CASE Points[T] <= n
  <2>1. Points[T] <= LastPoint(n)
    BY <1>2, <1>8, LastPointIs
  <2> QED BY <1>1, <1>6, <1>7, <1>8, <2>1
<1>9. CASE Points[T] > n /\ T = 1
  <2>1. Points[1] <= Day
    BY <1>1 DEF Calendar
  <2> QED BY <1>1, <1>6, <1>7, <1>9, <2>1
<1>10. CASE Points[T] > n /\ T # 1
  <2>1. PICK y \in 1 .. K - 1 : y + 1 = T
    <3>1. T - 1 \in 1 .. K - 1 /\ (T - 1) + 1 = T
      BY <1>2, <1>10
    <3> QED BY <3>1
  <2>2. Points[y] < DayStart[y + 1] /\ Points[y + 1] - Points[y] <= Day
    BY <1>1, <2>1 DEF Calendar
  <2>3. Points[y] < DayStart[T] /\ Points[T] - Points[y] <= Day
    BY <2>1, <2>2
  <2>4. y \in 1 .. K /\ Points[y] \in Nat /\ DayStart[T] \in Nat
    BY <1>2, <2>1
  <2>5. Points[y] <= n
    <3>1. DayStart[T] <= n
      BY <1>5
    <3> HIDE DEF K
    <3> QED BY <1>1, <3>1, <2>3, <2>4
  <2>6. Points[y] <= LastPoint(n) /\ LastPoint(n) \in Int
    BY <1>2, <2>4, <2>5, LastPointIs
  <2>7. PrevPoint(n) = Points[T] - Day
    BY <1>6, <1>10
  <2> HIDE DEF K
  <2> QED BY <1>7, <2>3, <2>4, <2>6, <2>7
<1> QED BY <1>1, <1>7, <1>8, <1>9, <1>10

-----------------------------------------------------------------------------
(* The line is looked through from just past the last one started.          *)

N == Len(Defs)

LEMMA TurnIs ==
  ASSUME Given, NEW r \in 0 .. N, NEW i \in 1 .. N
  PROVE  ((r + i - 1) % N) + 1 = IF r + i <= N THEN r + i ELSE r + i - N
<1> DEFINE n == N
<1>1. n \in Nat \ {0} /\ r \in 0 .. n /\ i \in 1 .. n
  BY DEF Given, N
<1> HIDE DEF n
<1>2. CASE r + i <= n
  <2>1. r + i - 1 \in 0 .. n - 1
    BY <1>1, <1>2
  <2>2. (r + i - 1) % n = r + i - 1
    BY <1>1, <2>1
  <2> QED BY <1>1, <1>2, <2>2 DEF n
<1>3. CASE r + i > n
  <2>1. r + i - 1 - n \in 0 .. n - 1
    BY <1>1, <1>3
  <2>2. (r + i - 1) % n = r + i - 1 - n
    BY <1>1, <2>1
  <2> QED BY <1>1, <1>3, <2>2 DEF n
<1> QED BY <1>1, <1>2, <1>3 DEF n

-----------------------------------------------------------------------------
(* The inductive invariant.                                                 *)

Lines == {i \in 1 .. N : Defs[i] \in Line}

\* Place j is looked at before place i.
Between(j, i) == IF rr < i THEN rr < j /\ j < i ELSE rr < j \/ j < i
Ahead(i)      == {j \in Lines : Between(j, i)}

InTurn == \A i \in Lines : passed[Defs[i]] + Cardinality(Ahead(i)) < Cardinality(Lines)

Recent(t)  == running[t] # Unrun => running[t].started >= LastPoint(now)
Covered(t) == \/ running[t] # Unrun /\ running[t].by = "clock"
              \/ last[t] # Unrun /\ last[t].started >= LastPoint(now)

Once == \A t \in Tasks : seen[t] \in {0, 1} /\ (seen[t] = 1 => Recent(t) /\ Covered(t))

ChoresInv == Shape /\ TypeOK /\ InTurn /\ Once

LEMMA LinesFinite ==
  ASSUME Given
  PROVE  /\ N \in Nat /\ IsFiniteSet(Lines) /\ Cardinality(Lines) \in Nat
         /\ IsFiniteSet(Line) /\ Cardinality(Line) \in Nat
         /\ Cardinality(Lines) <= Cardinality(Line)
<1>1. N \in Nat /\ DOMAIN Defs = 1 .. N /\ \A i \in 1 .. N : Defs[i] \in Tasks
  BY DEF Given, N
<1>2. IsFiniteSet(1 .. N)
  BY <1>1, FS_Interval
<1>3. IsFiniteSet(Lines) /\ Cardinality(Lines) \in Nat
  BY <1>2, FS_Subset, FS_CardinalityType DEF Lines
<1>4. IsFiniteSet(Tasks)
  <2> DEFINE f == [i \in 1 .. N |-> Defs[i]]
  <2>1. f \in Surjection(1 .. N, Tasks)
    BY <1>1 DEF Surjection, Tasks
  <2> HIDE DEF f
  <2> QED BY <1>2, <2>1, FS_Surjection
<1>5. IsFiniteSet(Line) /\ Cardinality(Line) \in Nat
  BY <1>4, FS_Subset, FS_CardinalityType DEF Line
<1>6. Cardinality(Lines) <= Cardinality(Line)
  <2> DEFINE f == [i \in Lines |-> Defs[i]]
  <2>1. f \in [Lines -> Line]
    BY DEF Lines
  <2>2. \A i, j \in Lines : f[i] = f[j] => i = j
    BY <1>1 DEF Lines, Given
  <2>3. f \in Injection(Lines, Line)
    BY <2>1, <2>2 DEF Injection, IsInjective
  <2> HIDE DEF f
  <2> QED BY <1>5, <2>3, FS_Injection
<1> QED BY <1>1, <1>3, <1>5, <1>6

\* Wherever the clock is in the row, a place is not ahead of itself.
LEMMA AheadIsFewer ==
  ASSUME Given, NEW i \in Lines
  PROVE  /\ IsFiniteSet(Ahead(i)) /\ Cardinality(Ahead(i)) \in Nat
         /\ Cardinality(Ahead(i)) < Cardinality(Lines)
<1>1. Ahead(i) \subseteq Lines \ {i}
  BY DEF Ahead, Between, Lines, Given, N
<1>2. IsFiniteSet(Lines \ {i}) /\ Cardinality(Lines \ {i}) = Cardinality(Lines) - 1
  BY LinesFinite, FS_RemoveElement
<1>3. /\ IsFiniteSet(Ahead(i)) /\ Cardinality(Ahead(i)) <= Cardinality(Lines \ {i})
  BY <1>1, <1>2, FS_Subset
<1>4. Cardinality(Ahead(i)) \in Nat
  BY <1>3, FS_CardinalityType
<1> QED BY <1>2, <1>3, <1>4, LinesFinite

LEMMA InLine ==
  ASSUME Given, NEW i \in Lines
  PROVE  i \in 1 .. N /\ Defs[i] \in Line /\ Defs[i] \in Tasks
BY DEF Lines, Line

\* A step that leaves the place alone and passes nobody over keeps the wait.
LEMMA WaitKept ==
  ASSUME Given, Shape, InTurn, rr' = rr,
         \A t \in Line : passed'[t] = passed[t] \/ passed'[t] = 0
  PROVE  InTurn'
<1> SUFFICES ASSUME NEW i \in Lines
             PROVE  passed'[Defs[i]] + Cardinality(Ahead(i)') < Cardinality(Lines)
  BY DEF InTurn
<1>1. Ahead(i)' = Ahead(i)
  BY DEF Ahead, Between
<1>2. passed'[Defs[i]] = passed[Defs[i]] \/ passed'[Defs[i]] = 0
  BY InLine
<1>3. passed[Defs[i]] + Cardinality(Ahead(i)) < Cardinality(Lines)
  BY DEF InTurn
<1> QED BY <1>1, <1>2, <1>3, AheadIsFewer, LinesFinite

\* So does one after which nobody was passed over.
LEMMA WaitAnew ==
  ASSUME Given, Shape', \A t \in Line : passed'[t] = 0
  PROVE  InTurn'
<1> SUFFICES ASSUME NEW i \in Lines
             PROVE  passed'[Defs[i]] + Cardinality(Ahead(i)') < Cardinality(Lines)
  BY DEF InTurn
<1>1. Ahead(i)' \subseteq Lines \ {i}
  BY DEF Ahead, Between, Lines, Given, N
<1>2. IsFiniteSet(Lines \ {i}) /\ Cardinality(Lines \ {i}) = Cardinality(Lines) - 1
  BY LinesFinite, FS_RemoveElement
<1>3. IsFiniteSet(Ahead(i)') /\ Cardinality(Ahead(i)') <= Cardinality(Lines \ {i})
  BY <1>1, <1>2, FS_Subset
<1>4. Cardinality(Ahead(i)') \in Nat
  BY <1>3, FS_CardinalityType
<1>5. passed'[Defs[i]] = 0
  BY InLine
<1> QED BY <1>2, <1>3, <1>4, <1>5, LinesFinite

-----------------------------------------------------------------------------
(* The steps.                                                               *)

\* What the line starts is due, and is ahead of everything else due in it; from
\* there the others are no further away than before, and it is not between.
LEMMA NextIs ==
  ASSUME Given, ChoresInv, NEW p, p \in NextInLine
  PROVE  /\ NextInLine = {p} /\ p \in Lines /\ Due(Defs[p])
         /\ \A t \in Line : running[t] = Unrun
         /\ \A i \in Lines : Due(Defs[i]) /\ i # p =>
              /\ Between(p, i)
              /\ \A j \in Lines : (IF p < i THEN p < j /\ j < i ELSE p < j \/ j < i)
                                    => Between(j, i) /\ j # p
<1> DEFINE ready == {i \in 1 .. N : Defs[Turn(i)] \in Line /\ Due(Defs[Turn(i)])}
           first == CHOOSE i \in ready : \A j \in ready : i <= j
<1>1. NextInLine = IF Busy \/ ready = {} THEN {} ELSE {Turn(first)}
  BY DEF NextInLine, N
<1>2. ~Busy /\ ready # {} /\ NextInLine = {p} /\ p = Turn(first)
  BY <1>1
<1>3. N \in Nat /\ rr \in 0 .. N
  BY LinesFinite DEF ChoresInv, Shape, N
<1>4. \A k \in 1 .. N : Turn(k) = IF rr + k <= N THEN rr + k ELSE rr + k - N
  BY <1>3, TurnIs DEF Turn, N
<1>5. first \in ready /\ \A j \in ready : first <= j
  <2>1. ready \subseteq 0 .. N
    BY <1>3
  <2>2. \E i \in ready : \A j \in ready : i <= j
    <3> HIDE DEF ready
    <3> QED BY <1>2, <1>3, <2>1, LeastExists
  <2> QED BY <2>2
<1>6. first \in 1 .. N /\ Defs[p] \in Line /\ Due(Defs[p])
  BY <1>2, <1>5
<1> HIDE DEF first
<1>7. p = (IF rr + first <= N THEN rr + first ELSE rr + first - N) /\ p \in 1 .. N
  BY <1>2, <1>3, <1>4, <1>6
<1>8. p \in Lines
  BY <1>6, <1>7 DEF Lines
<1>9. \A t \in Line : running[t] = Unrun
  BY <1>2 DEF Busy
<1>10. ASSUME NEW i \in Lines, Due(Defs[i]), i # p
       PROVE  /\ Between(p, i)
              /\ \A j \in Lines : (IF p < i THEN p < j /\ j < i ELSE p < j \/ j < i)
                                    => Between(j, i) /\ j # p
  <2>1. i \in 1 .. N /\ Defs[i] \in Line
    BY DEF Lines
  <2>2. PICK k \in 1 .. N : Turn(k) = i /\ k = IF rr < i THEN i - rr ELSE i - rr + N
    <3>1. CASE rr < i
      <4>1. i - rr \in 1 .. N /\ rr + (i - rr) = i
        BY <1>3, <2>1, <3>1
      <4> QED BY <1>4, <2>1, <3>1, <4>1
    <3>2. CASE ~(rr < i)
      <4>1. PICK k \in 1 .. N : k = i - rr + N
        BY <1>3, <2>1, <3>2
      <4>2. rr + k = i + N
        BY <1>3, <2>1, <4>1
      <4>3. Turn(k) = rr + k - N
        <5>1. ~(rr + k <= N)
          BY <1>3, <2>1, <4>2
        <5> QED BY <1>4, <5>1
      <4>4. Turn(k) = i
        BY <1>3, <2>1, <4>2, <4>3
      <4> QED BY <3>2, <4>1, <4>4
    <3> QED BY <3>1, <3>2
  <2>3. k \in ready
    BY <1>10, <2>1, <2>2
  <2>4. first <= k /\ first # k
    BY <1>2, <1>5, <1>10, <2>2, <2>3
  <2> HIDE DEF ready
  <2>5. Between(p, i)
    BY <1>3, <1>6, <1>7, <2>1, <2>2, <2>4 DEF Between
  <2>6. ASSUME NEW j \in Lines, IF p < i THEN p < j /\ j < i ELSE p < j \/ j < i
        PROVE  Between(j, i) /\ j # p
    <3>1. j \in 1 .. N
      BY DEF Lines
    <3>2. i # p /\ j # p
      BY <1>7, <1>10, <2>1, <2>6, <3>1
    <3>3. CASE rr < i
      <4>1. rr < p /\ p < i
        BY <2>5, <3>3 DEF Between
      <4> QED BY <1>3, <1>7, <2>1, <2>6, <3>1, <3>2, <3>3, <4>1 DEF Between
    <3>4. CASE ~(rr < i)
      <4>1. rr < p \/ p < i
        BY <2>5, <3>4 DEF Between
      <4> QED BY <1>3, <1>7, <2>1, <2>6, <3>1, <3>2, <3>4, <4>1 DEF Between
    <3> QED BY <3>3, <3>4
  <2> QED BY <2>5, <2>6
<1> QED BY <1>2, <1>6, <1>8, <1>9, <1>10

\* A start of what does not run, and is due when the clock starts it, is noted
\* as of now, and the clock starts nothing twice for one point.
LEMMA Started ==
  ASSUME Given, ChoresInv, NEW S \in SUBSET Tasks, NEW by \in {"clock", "hand", "watch"},
         Start(S, by), UNCHANGED <<now, sched, last>>,
         \A t \in S : running[t] = Unrun,
         by = "clock" => \A t \in S : Due(t)
  PROVE  /\ running' \in [Tasks -> Run \cup {Unrun}]
         /\ \A t \in Tasks : running'[t] # Unrun => running'[t].started <= now'
         /\ seen' \in [Tasks -> Nat] /\ passed' \in [Tasks -> Nat]
         /\ Once'
<1> DEFINE new == [started |-> now, by |-> by]
<1>1. /\ now \in 0 .. MaxTime /\ now \in Int /\ MaxTime \in Nat
      /\ running \in [Tasks -> Run \cup {Unrun}]
      /\ last \in [Tasks -> Record \cup {Unrun}]
      /\ seen \in [Tasks -> Nat] /\ passed \in [Tasks -> Nat]
  BY DEF ChoresInv, Shape, Given
<1>2. new \in Run /\ new # Unrun /\ new.started = now /\ new.by = by
  BY <1>1 DEF Run, Given
<1>3. running' = [t \in Tasks |-> IF t \in S THEN new ELSE running[t]]
  BY DEF Start
<1>4. /\ seen' = [t \in Tasks |-> IF by = "clock" /\ t \in S /\ sched[t] = "daily"
                                    THEN seen[t] + 1 ELSE seen[t]]
      /\ passed' \in [Tasks -> Nat]
  <2>1. passed' = [t \in Tasks |-> IF t \in S \/ ~Due(t) THEN 0
                                     ELSE IF by = "clock" /\ S \cap Line # {}
                                            THEN passed[t] + 1 ELSE passed[t]]
    BY DEF Start, Counted
  <2> QED BY <1>1, <2>1 DEF Start, Counted
<1>5. running' \in [Tasks -> Run \cup {Unrun}]
  BY <1>1, <1>2, <1>3
<1>6. ASSUME NEW t \in Tasks, running'[t] # Unrun PROVE running'[t].started <= now'
  BY <1>1, <1>2, <1>3, <1>6 DEF ChoresInv, TypeOK
<1>7. seen' \in [Tasks -> Nat]
  BY <1>1, <1>4
<1>8. ASSUME NEW t \in Tasks
      PROVE  seen'[t] \in {0, 1} /\ (seen'[t] = 1 => Recent(t)' /\ Covered(t)')
  <2>1. seen[t] \in {0, 1} /\ (seen[t] = 1 => Recent(t) /\ Covered(t))
    BY DEF ChoresInv, Once
  <2>2. LastPoint(now) \in Int /\ LastPoint(now) <= now
    BY <1>1, LastPointIs
  <2>3. CASE t \notin S
    <3>1. running'[t] = running[t] /\ seen'[t] = seen[t]
      BY <1>3, <1>4, <2>3
    <3> QED BY <2>1, <3>1 DEF Recent, Covered
  <2>4. CASE t \in S
    <3>1. running[t] = Unrun /\ running'[t] = new
      BY <1>3, <2>4
    <3>2. Recent(t)'
      BY <1>1, <1>2, <2>2, <3>1 DEF Recent
    <3>3. seen[t] = 1 => last[t] # Unrun /\ last[t].started >= LastPoint(now)
      BY <2>1, <3>1 DEF Covered
    <3>4. CASE by = "clock" /\ sched[t] = "daily"
      <4>1. Due(t)
        BY <2>4, <3>4
      <4>2. last[t] = Unrun \/ last[t].started < PrevPoint(now)
        BY <3>4, <4>1 DEF Due, DueBy
      <4>3. PrevPoint(now) \in Int /\ (PrevPoint(now) <= LastPoint(now) \/ PrevPoint(now) <= 0)
        BY <1>1, PrevIsPast
      <4>4. last[t] # Unrun => last[t].started \in Nat
        BY <1>1 DEF Record
      <4>5. seen[t] = 0
        BY <2>1, <2>2, <3>3, <4>2, <4>3, <4>4
      <4>6. seen'[t] = 1
        BY <1>4, <2>4, <3>4, <4>5
      <4>7. Covered(t)'
        BY <1>2, <3>1, <3>4 DEF Covered
      <4> QED BY <3>2, <4>6, <4>7
    <3>5. CASE ~(by = "clock" /\ sched[t] = "daily")
      <4>1. seen'[t] = seen[t]
        BY <1>4, <3>5
      <4>2. seen[t] = 1 => Covered(t)'
        BY <3>3 DEF Covered
      <4> QED BY <2>1, <3>2, <4>1, <4>2
    <3> QED BY <3>4, <3>5
  <2> QED BY <2>3, <2>4
<1> QED BY <1>4, <1>5, <1>6, <1>7, <1>8 DEF Once

\* The clock's step.
LEMMA TickKeeps ==
  ASSUME Given, ChoresInv, Tick PROVE ChoresInv'
<1>1. PICK beside \in {Ready}, next \in {NextInLine} :
        /\ watching' = Synced(sched)
        /\ rr' = IF next = {} THEN rr ELSE CHOOSE i \in next : TRUE
        /\ Start(beside \cup {Defs[i] : i \in next}, "clock")
        /\ UNCHANGED <<now, sched, last, armed, ops>>
  BY DEF Tick
<1> DEFINE S == Ready \cup {Defs[i] : i \in NextInLine}
<1>2. /\ watching' = Synced(sched) /\ Start(S, "clock")
      /\ rr' = IF NextInLine = {} THEN rr ELSE CHOOSE i \in NextInLine : TRUE
      /\ UNCHANGED <<now, sched, last, armed>>
  BY <1>1
<1>3. /\ Ready \subseteq Tasks \ Line
      /\ \A t \in Ready : running[t] = Unrun /\ Due(t)
  BY DEF Ready, Line, Given
<1>4. \A p \in NextInLine : Defs[p] \in Line /\ Defs[p] \in Tasks /\ Due(Defs[p]) /\ running[Defs[p]] = Unrun
  BY NextIs, InLine
<1>5. S \in SUBSET Tasks /\ \A t \in S : running[t] = Unrun /\ Due(t)
  BY <1>3, <1>4
<1>6. /\ running' \in [Tasks -> Run \cup {Unrun}]
      /\ \A t \in Tasks : running'[t] # Unrun => running'[t].started <= now'
      /\ seen' \in [Tasks -> Nat] /\ passed' \in [Tasks -> Nat]
      /\ Once'
  <2> HIDE DEF S
  <2> QED BY <1>2, <1>5, Started
<1>7. rr' \in 0 .. Len(Defs)
  <2>1. CASE NextInLine = {}
    BY <1>2, <2>1 DEF ChoresInv, Shape
  <2>2. CASE NextInLine # {}
    <3>1. rr' \in NextInLine
      BY <1>2, <2>2
    <3> QED BY <3>1, NextIs, InLine, LinesFinite DEF N
  <2> QED BY <2>1, <2>2
<1>8. Shape'
  BY <1>2, <1>6, <1>7 DEF ChoresInv, Shape
<1>9. TypeOK'
  <2>1. watching' \subseteq Watched
    BY <1>2 DEF Synced
  <2> QED BY <1>2, <1>6, <1>7, <2>1 DEF ChoresInv, TypeOK
<1>10. passed' = [t \in Tasks |-> IF t \in S \/ ~Due(t) THEN 0
                                   ELSE IF S \cap Line # {} THEN passed[t] + 1 ELSE passed[t]]
  BY <1>2 DEF Start, Counted
<1>11. InTurn'
  <2>1. CASE NextInLine = {}
    <3>1. S \cap Line = {}
      BY <1>3, <2>1
    <3>2. \A t \in Line : passed'[t] = passed[t] \/ passed'[t] = 0
      BY <1>10, <3>1 DEF Line
    <3> QED BY <1>2, <2>1, <3>2, WaitKept DEF ChoresInv
  <2>2. ASSUME NEW p \in NextInLine PROVE InTurn'
    <3>1. NextInLine = {p} /\ p \in Lines /\ Defs[p] \in S
      BY NextIs
    <3>2. rr' = p
      BY <1>2, <3>1
    <3> HIDE DEF S
    <3> SUFFICES ASSUME NEW i \in Lines
                 PROVE  passed'[Defs[i]] + Cardinality(Ahead(i)') < Cardinality(Lines)
      BY DEF InTurn
    <3>3. Defs[i] \in Line /\ Defs[i] \in Tasks
      BY InLine
    <3>4. \A j \in Lines : Between(j, i)' <=> IF p < i THEN p < j /\ j < i ELSE p < j \/ j < i
      BY <3>2 DEF Between
    <3>5. CASE Defs[i] \in S \/ ~Due(Defs[i])
      <4>1. passed'[Defs[i]] = 0
        BY <1>10, <3>3, <3>5
      <4>2. Ahead(i)' \subseteq Lines \ {i}
        BY <3>2, InLine DEF Ahead, Between
      <4>3. IsFiniteSet(Lines \ {i}) /\ Cardinality(Lines \ {i}) = Cardinality(Lines) - 1
        BY LinesFinite, FS_RemoveElement
      <4>4. IsFiniteSet(Ahead(i)') /\ Cardinality(Ahead(i)') <= Cardinality(Lines \ {i})
        BY <4>2, <4>3, FS_Subset
      <4>5. Cardinality(Ahead(i)') \in Nat
        BY <4>4, FS_CardinalityType
      <4> QED BY <4>1, <4>3, <4>4, <4>5, LinesFinite
    <3>6. CASE Defs[i] \notin S /\ Due(Defs[i])
      <4>1. i # p
        BY <3>1, <3>6
      <4>2. /\ Between(p, i)
            /\ \A j \in Lines : Between(j, i)' => Between(j, i) /\ j # p
        BY <3>4, <3>6, <4>1, NextIs
      <4>3. p \in Ahead(i) /\ Ahead(i)' \subseteq Ahead(i) \ {p}
        BY <3>1, <4>2 DEF Ahead
      <4>4. IsFiniteSet(Ahead(i) \ {p}) /\ Cardinality(Ahead(i) \ {p}) = Cardinality(Ahead(i)) - 1
        BY <4>3, AheadIsFewer, FS_RemoveElement
      <4>5. IsFiniteSet(Ahead(i)') /\ Cardinality(Ahead(i)') <= Cardinality(Ahead(i) \ {p})
        BY <4>3, <4>4, FS_Subset
      <4>6. Cardinality(Ahead(i)') \in Nat
        BY <4>5, FS_CardinalityType
      <4>7. passed'[Defs[i]] = passed[Defs[i]] \/ passed'[Defs[i]] = passed[Defs[i]] + 1
        BY <1>10, <3>3, <3>6
      <4>8. passed[Defs[i]] + Cardinality(Ahead(i)) < Cardinality(Lines) /\ passed[Defs[i]] \in Nat
        BY <3>3 DEF ChoresInv, InTurn, Shape
      <4> QED BY <4>4, <4>5, <4>6, <4>7, <4>8, AheadIsFewer, LinesFinite
    <3> QED BY <3>5, <3>6
  <2> QED BY <2>1, <2>2
<1> QED BY <1>6, <1>8, <1>9, <1>11 DEF ChoresInv

\* The steps that touch neither the clock nor what runs.
LEMMA OutsideKeeps ==
  ASSUME Given, ChoresInv, NEW t \in Tasks, Change(t) \/ WatcherDies(t)
  PROVE  ChoresInv'
<1>1. /\ UNCHANGED <<now, sched, running, last, rr, seen, passed>>
      /\ watching' \subseteq watching /\ armed' \subseteq armed \cup watching
  BY DEF Change, WatcherDies
<1>2. Shape' /\ Once'
  BY <1>1 DEF ChoresInv, Shape, Once, Recent, Covered
<1>3. TypeOK'
  BY <1>1 DEF ChoresInv, TypeOK
<1>4. InTurn'
  BY <1>1, WaitKept DEF ChoresInv
<1> QED BY <1>2, <1>3, <1>4 DEF ChoresInv

\* A start by hand, or of a folder that has settled.
LEMMA AskedKeeps ==
  ASSUME Given, ChoresInv, NEW t \in Tasks, ByHand(t) \/ Settle(t)
  PROVE  ChoresInv'
<1>1. PICK S \in SUBSET Tasks, by \in {"hand", "watch"} :
        Start(S, by) /\ \A u \in S : running[u] = Unrun
  <2>1. CASE ByHand(t)
    BY <2>1 DEF ByHand
  <2>2. CASE Settle(t)
    BY <2>2 DEF Settle
  <2> QED BY <2>1, <2>2
<1>2. UNCHANGED <<now, sched, last, rr, watching>> /\ armed' \subseteq armed
  BY DEF ByHand, Settle
<1>3. /\ running' \in [Tasks -> Run \cup {Unrun}]
      /\ \A u \in Tasks : running'[u] # Unrun => running'[u].started <= now'
      /\ seen' \in [Tasks -> Nat] /\ passed' \in [Tasks -> Nat]
      /\ Once'
  BY <1>1, <1>2, Started
<1>4. Shape'
  BY <1>2, <1>3 DEF ChoresInv, Shape
<1>5. TypeOK'
  BY <1>2, <1>3 DEF ChoresInv, TypeOK
<1>6. InTurn'
  <2>1. \A u \in Line : passed'[u] = passed[u] \/ passed'[u] = 0
    BY <1>1 DEF Start, Counted, Line
  <2> QED BY <1>2, <2>1, WaitKept DEF ChoresInv
<1> QED BY <1>3, <1>4, <1>5, <1>6 DEF ChoresInv

\* A run's start is written down with its end.
LEMMA EndKeeps ==
  ASSUME Given, ChoresInv, NEW t \in Tasks, End(t)
  PROVE  ChoresInv'
<1> DEFINE rec == [started |-> running[t].started, ended |-> now]
<1>1. /\ running[t] # Unrun
      /\ last' = [last EXCEPT ![t] = rec] /\ running' = [running EXCEPT ![t] = Unrun]
      /\ UNCHANGED <<now, sched, rr, watching, armed, seen, passed>>
  BY DEF End
<1>2. /\ now \in 0 .. MaxTime
      /\ running \in [Tasks -> Run \cup {Unrun}]
      /\ last \in [Tasks -> Record \cup {Unrun}]
  BY DEF ChoresInv, Shape
<1>3. running[t].started \in 0 .. MaxTime /\ running[t].started <= now
  BY <1>1, <1>2 DEF Run, ChoresInv, TypeOK
<1>4. rec \in Record /\ rec # Unrun /\ rec.started = running[t].started /\ rec.ended = now
  BY <1>2, <1>3 DEF Record, Given
<1> HIDE DEF rec
<1>5. /\ running' \in [Tasks -> Run \cup {Unrun}] /\ last' \in [Tasks -> Record \cup {Unrun}]
      /\ running'[t] = Unrun /\ last'[t] = rec
      /\ \A u \in Tasks : u # t => running'[u] = running[u] /\ last'[u] = last[u]
  BY <1>1, <1>2, <1>4
<1>6. Shape'
  BY <1>1, <1>5 DEF ChoresInv, Shape
<1>7. TypeOK'
  <2>1. \A u \in Tasks : running'[u] # Unrun => running'[u].started <= now'
    BY <1>1, <1>5 DEF ChoresInv, TypeOK
  <2>2. \A u \in Tasks : last'[u] # Unrun => last'[u].started <= last'[u].ended
    BY <1>3, <1>4, <1>5 DEF ChoresInv, TypeOK
  <2> QED BY <1>1, <2>1, <2>2 DEF ChoresInv, TypeOK
<1>8. InTurn'
  BY <1>1, WaitKept DEF ChoresInv
<1>9. Once'
  <2> SUFFICES ASSUME NEW u \in Tasks, seen[u] = 1
               PROVE  Recent(u)' /\ Covered(u)'
    BY <1>1 DEF ChoresInv, Once
  <2>1. Recent(u) /\ Covered(u)
    BY DEF ChoresInv, Once
  <2>2. CASE u # t
    BY <1>1, <1>5, <2>1, <2>2 DEF Recent, Covered
  <2>3. CASE u = t
    BY <1>1, <1>4, <1>5, <2>1, <2>3 DEF Recent, Covered
  <2> QED BY <2>2, <2>3
<1> QED BY <1>6, <1>7, <1>8, <1>9 DEF ChoresInv

LEMMA ScheduleKeeps ==
  ASSUME Given, ChoresInv, NEW t \in Tasks, NEW m \in Modes[t], PutSchedule(t, m)
  PROVE  ChoresInv'
<1>1. /\ sched' = [sched EXCEPT ![t] = m]
      /\ passed' = [passed EXCEPT ![t] = 0] /\ seen' = [seen EXCEPT ![t] = 0]
      /\ UNCHANGED <<now, running, last, rr>>
      /\ watching' \subseteq Watched /\ armed' \subseteq armed
  BY DEF PutSchedule, Synced
<1>2. Shape'
  <2>1. sched' \in [Tasks -> UNION {Modes[u] : u \in Tasks}]
    BY <1>1 DEF ChoresInv, Shape
  <2>2. seen' \in [Tasks -> Nat] /\ passed' \in [Tasks -> Nat]
    BY <1>1 DEF ChoresInv, Shape
  <2> QED BY <1>1, <2>1, <2>2 DEF ChoresInv, Shape
<1>3. TypeOK'
  <2>1. \A u \in Tasks : sched'[u] \in Modes[u]
    BY <1>1 DEF ChoresInv, Shape, TypeOK
  <2> QED BY <1>1, <2>1 DEF ChoresInv, TypeOK
<1>4. InTurn'
  <2>1. \A u \in Line : passed'[u] = passed[u] \/ passed'[u] = 0
    BY <1>1 DEF ChoresInv, Shape, Line
  <2> QED BY <1>1, <2>1, WaitKept DEF ChoresInv
<1>5. Once'
  <2>1. \A u \in Tasks : seen'[u] = seen[u] \/ seen'[u] = 0
    BY <1>1 DEF ChoresInv, Shape
  <2> QED BY <1>1, <2>1 DEF ChoresInv, Once, Recent, Covered
<1> QED BY <1>2, <1>3, <1>4, <1>5 DEF ChoresInv

LEMMA CrashKeeps ==
  ASSUME Given, ChoresInv, Crash PROVE ChoresInv'
<1>1. /\ running' = [t \in Tasks |-> Unrun] /\ rr' = 0 /\ armed' = {}
      /\ passed' = [t \in Tasks |-> 0] /\ watching' \subseteq Watched
      /\ seen' = [t \in Tasks |-> IF running[t] # Unrun /\ running[t].by = "clock" THEN 0 ELSE seen[t]]
      /\ UNCHANGED <<now, sched, last>>
  BY DEF Crash, Synced
<1>2. Shape'
  <2>1. rr' \in 0 .. Len(Defs)
    BY <1>1, LinesFinite DEF N
  <2>2. seen' \in [Tasks -> Nat] /\ passed' \in [Tasks -> Nat] /\ running' \in [Tasks -> Run \cup {Unrun}]
    BY <1>1 DEF ChoresInv, Shape
  <2> QED BY <1>1, <2>1, <2>2 DEF ChoresInv, Shape
<1>3. TypeOK'
  BY <1>1, <1>2 DEF ChoresInv, TypeOK, Shape
<1>4. InTurn'
  BY <1>1, <1>2, WaitAnew DEF Line
<1>5. Once'
  <2> SUFFICES ASSUME NEW t \in Tasks
               PROVE  seen'[t] \in {0, 1} /\ (seen'[t] = 1 => Recent(t)' /\ Covered(t)')
    BY DEF Once
  <2>1. seen[t] \in {0, 1} /\ (seen[t] = 1 => Covered(t))
    BY DEF ChoresInv, Once
  <2>2. running'[t] = Unrun
    BY <1>1
  <2>3. CASE running[t] # Unrun /\ running[t].by = "clock"
    BY <1>1, <2>3
  <2>4. CASE ~(running[t] # Unrun /\ running[t].by = "clock")
    <3>1. seen'[t] = seen[t]
      BY <1>1, <2>4
    <3>2. seen[t] = 1 => Covered(t)'
      BY <1>1, <2>1, <2>4 DEF Covered
    <3> QED BY <2>1, <2>2, <3>1, <3>2 DEF Recent
  <2> QED BY <2>3, <2>4
<1> QED BY <1>2, <1>3, <1>4, <1>5 DEF ChoresInv

LEMMA TimeKeeps ==
  ASSUME Given, ChoresInv, Time PROVE ChoresInv'
<1>1. /\ now < MaxTime /\ now' = now + 1
      /\ seen' = [t \in Tasks |-> IF LastPoint(now') # LastPoint(now) THEN 0 ELSE seen[t]]
      /\ UNCHANGED <<sched, running, last, rr, watching, armed, passed>>
  BY DEF Time
<1>2. Shape'
  <2>1. now' \in 0 .. MaxTime
    BY <1>1 DEF ChoresInv, Shape, Given
  <2>2. seen' \in [Tasks -> Nat]
    BY <1>1 DEF ChoresInv, Shape
  <2> QED BY <1>1, <2>1, <2>2 DEF ChoresInv, Shape
<1>3. TypeOK'
  <2>1. \A t \in Tasks : running'[t] # Unrun => running'[t].started <= now'
    <3> SUFFICES ASSUME NEW t \in Tasks, running[t] # Unrun
                 PROVE  running[t].started <= now + 1
      BY <1>1
    <3>1. running[t] \in Run /\ now \in 0 .. MaxTime /\ running[t].started <= now /\ MaxTime \in Nat
      BY DEF ChoresInv, Shape, TypeOK, Given
    <3> QED BY <3>1 DEF Run
  <2> QED BY <1>1, <1>2, <2>1 DEF ChoresInv, TypeOK, Shape
<1>4. InTurn'
  BY <1>1, WaitKept DEF ChoresInv
<1>5. Once'
  <2> SUFFICES ASSUME NEW t \in Tasks
               PROVE  seen'[t] \in {0, 1} /\ (seen'[t] = 1 => Recent(t)' /\ Covered(t)')
    BY DEF Once
  <2>1. seen[t] \in {0, 1} /\ (seen[t] = 1 => Recent(t) /\ Covered(t))
    BY DEF ChoresInv, Once
  <2>2. CASE LastPoint(now') # LastPoint(now)
    BY <1>1, <2>2
  <2>3. CASE LastPoint(now') = LastPoint(now)
    <3>1. LastPoint(now)' = LastPoint(now) /\ seen'[t] = seen[t]
      BY <1>1, <2>3 DEF LastPoint
    <3> QED BY <1>1, <2>1, <3>1 DEF Recent, Covered
  <2> QED BY <2>2, <2>3
<1> QED BY <1>2, <1>3, <1>4, <1>5 DEF ChoresInv

-----------------------------------------------------------------------------
(* The theorems.                                                            *)

LEMMA ChoresBase == ASSUME Given, Init PROVE ChoresInv
<1>1. Shape
  <2>1. 0 \in 0 .. Len(Defs) /\ 0 \in 0 .. MaxTime
    BY LinesFinite DEF N, Given
  <2> QED BY <2>1 DEF Init, Shape
<1>2. TypeOK
  BY <1>1 DEF Init, TypeOK, Shape
<1>3. InTurn
  <2> SUFFICES ASSUME NEW i \in Lines
               PROVE  passed[Defs[i]] + Cardinality(Ahead(i)) < Cardinality(Lines)
    BY DEF InTurn
  <2>1. passed[Defs[i]] = 0
    BY InLine DEF Init
  <2> QED BY <2>1, AheadIsFewer, LinesFinite
<1>4. Once
  BY DEF Init, Once
<1> QED BY <1>1, <1>2, <1>3, <1>4 DEF ChoresInv

LEMMA ChoresStep == ASSUME Given, ChoresInv, [Next]_vars PROVE ChoresInv'
<1>1. CASE Tick
  BY <1>1, TickKeeps
<1>2. CASE Time
  BY <1>2, TimeKeeps
<1>3. CASE Crash
  BY <1>3, CrashKeeps
<1>4. CASE \E t \in Tasks : End(t) \/ ByHand(t) \/ Change(t) \/ Settle(t) \/ WatcherDies(t)
  BY <1>4, EndKeeps, AskedKeeps, OutsideKeeps
<1>5. CASE \E t \in Tasks : \E m \in Modes[t] : PutSchedule(t, m)
  BY <1>5, ScheduleKeeps
<1>6. CASE UNCHANGED vars
  <2>1. Shape' /\ TypeOK' /\ Once'
    BY <1>6 DEF vars, ChoresInv, Shape, TypeOK, Once, Recent, Covered
  <2>2. InTurn'
    BY <1>6, WaitKept DEF vars, ChoresInv
  <2> QED BY <2>1, <2>2 DEF ChoresInv
<1> QED BY <1>1, <1>2, <1>3, <1>4, <1>5, <1>6 DEF Next

\* What holds of every reachable state.
LEMMA ChoresInvariance == ASSUME Given PROVE Spec => []ChoresInv
<1>1. Init => ChoresInv
  BY ChoresBase
<1>2. ChoresInv /\ [Next]_vars => ChoresInv'
  BY ChoresStep
<1> QED BY <1>1, <1>2, PTL DEF Spec

\* Every time, run and record stays in its range, for any tasks and schedules:
\* a run never starts in the future, nor ends before its start.
THEOREM ChoresTyped == ASSUME Given PROVE Spec => []TypeOK
<1>1. ChoresInv => TypeOK
  BY DEF ChoresInv
<1> QED BY <1>1, ChoresInvariance, PTL

\* However many chores there are and however long they take, a chore that is due
\* is passed over by each of the others at most once (tasks.ts: "a chore that
\* takes longer than its interval cannot starve the ones listed after it").
THEOREM NoneStarves == ASSUME Given PROVE Spec => []NobodyStarves
<1>1. ASSUME ChoresInv PROVE NobodyStarves
  <2> SUFFICES ASSUME NEW t \in Line PROVE passed[t] < Cardinality(Line)
    BY DEF NobodyStarves
  <2>1. PICK i \in 1 .. N : Defs[i] = t
    BY DEF Line, Tasks, Given, N
  <2>2. i \in Lines
    BY <2>1 DEF Lines
  <2>3. passed[t] + Cardinality(Ahead(i)) < Cardinality(Lines)
    BY <1>1, <2>1, <2>2 DEF ChoresInv, InTurn
  <2>4. passed[t] \in Nat
    BY <1>1 DEF ChoresInv, Shape, Line
  <2> QED BY <2>2, <2>3, <2>4, AheadIsFewer, LinesFinite
<1>2. ChoresInv => NobodyStarves
  BY <1>1
<1> QED BY <1>2, ChoresInvariance, PTL

\* On any calendar of days of at most 24 hours, through restarts, schedules put
\* anew and starts by hand, the clock starts a daily chore once for each time its
\* hour comes.
THEOREM DailyOnce == ASSUME Given PROVE Spec => []OncePerPoint
<1>1. ChoresInv => OncePerPoint
  BY DEF ChoresInv, Once, OncePerPoint
<1> QED BY <1>1, ChoresInvariance, PTL

-----------------------------------------------------------------------------
(* Lyrics.                                                                  *)

\* None is no song, no words and no row.
Marks == None \notin Songs /\ None \notin Words /\ None \notin Row /\ MaxAsks \in Nat /\ MaxTurns \in Nat

LEMMA MarksHold == Marks
  BY LyricsAssumption DEF Marks, Words, Row

UndoRecord == [at : {"row", "files"}, original : Row \cup {None}, words : Words \cup {None}]

-----------------------------------------------------------------------------
(* The line: each song that is queued once.                                 *)

Lined(q, J) ==
  /\ q \in Seq(Songs)
  /\ \A i \in DOMAIN q : J[q[i]] = "queued"
  /\ \A i, k \in DOMAIN q : q[i] = q[k] => i = k

LEMMA AppendLined ==
  ASSUME NEW q, NEW J, NEW K, Lined(q, J), NEW s \in Songs, J[s] # "queued", K[s] = "queued",
         \A x \in Songs : x # s => K[x] = J[x]
  PROVE  Lined(Append(q, s), K)
<1>1. q \in Seq(Songs) /\ Len(q) \in Nat /\ DOMAIN q = 1 .. Len(q)
  BY DEF Lined
<1>2. /\ Append(q, s) \in Seq(Songs) /\ DOMAIN Append(q, s) = 1 .. Len(q) + 1
      /\ \A i \in 1 .. Len(q) : Append(q, s)[i] = q[i]
      /\ Append(q, s)[Len(q) + 1] = s
  BY <1>1
<1>3. \A i \in 1 .. Len(q) : q[i] \in Songs /\ q[i] # s /\ J[q[i]] = "queued"
  BY <1>1 DEF Lined
<1>4. \A i, k \in 1 .. Len(q) : q[i] = q[k] => i = k
  BY <1>1 DEF Lined
<1>5. ASSUME NEW i \in 1 .. Len(q) + 1 PROVE K[Append(q, s)[i]] = "queued"
  BY <1>1, <1>2, <1>3
<1>6. ASSUME NEW i \in 1 .. Len(q) + 1, NEW k \in 1 .. Len(q) + 1, Append(q, s)[i] = Append(q, s)[k]
      PROVE  i = k
  <2>1. (i \in 1 .. Len(q) \/ i = Len(q) + 1) /\ (k \in 1 .. Len(q) \/ k = Len(q) + 1)
    BY <1>1
  <2> QED BY <1>2, <1>3, <1>4, <1>6, <2>1
<1> QED BY <1>2, <1>5, <1>6 DEF Lined

LEMMA TailLined ==
  ASSUME NEW q, NEW J, NEW K, Lined(q, J), q # <<>>,
         \A x \in Songs : x # Head(q) => K[x] = J[x]
  PROVE  Head(q) \in Songs /\ J[Head(q)] = "queued" /\ Lined(Tail(q), K)
<1>1. q \in Seq(Songs) /\ Len(q) \in Nat /\ DOMAIN q = 1 .. Len(q) /\ Len(q) # 0
  BY DEF Lined
<1>2. Head(q) = q[1] /\ Tail(q) \in Seq(Songs) /\ DOMAIN Tail(q) = 1 .. Len(q) - 1
  BY <1>1, HeadTailProperties
<1>3. \A i \in 1 .. Len(q) - 1 : Tail(q)[i] = q[i + 1] /\ i + 1 \in 1 .. Len(q) /\ i + 1 # 1
  BY <1>1, <1>2, HeadTailProperties
<1>4. \A i \in 1 .. Len(q) : q[i] \in Songs /\ J[q[i]] = "queued"
  BY <1>1 DEF Lined
<1>5. \A i, k \in 1 .. Len(q) : q[i] = q[k] => i = k
  BY <1>1 DEF Lined
<1>6. 1 \in 1 .. Len(q)
  BY <1>1
<1>7. ASSUME NEW i \in 1 .. Len(q) - 1 PROVE K[Tail(q)[i]] = "queued"
  BY <1>2, <1>3, <1>4, <1>5, <1>6
<1>8. ASSUME NEW i \in 1 .. Len(q) - 1, NEW k \in 1 .. Len(q) - 1, Tail(q)[i] = Tail(q)[k]
      PROVE  i = k
  <2>1. i + 1 = k + 1
    BY <1>3, <1>5, <1>8
  <2> QED BY <1>1, <2>1
<1> QED BY <1>2, <1>4, <1>6, <1>7, <1>8 DEF Lined

\* A song that leaves the line.
LEMMA RemoveLined ==
  ASSUME NEW q, NEW J, NEW K, Lined(q, J), NEW n \in DOMAIN q,
         \A x \in Songs : x # q[n] => K[x] = J[x]
  PROVE  Lined(RemoveAt(q, n), K)
<1> DEFINE r == RemoveAt(q, n)
<1>1. q \in Seq(Songs) /\ Len(q) \in Nat /\ DOMAIN q = 1 .. Len(q) /\ n \in 1 .. Len(q)
  BY DEF Lined
<1>2. \A i \in 1 .. Len(q) : q[i] \in Songs /\ J[q[i]] = "queued"
  BY <1>1 DEF Lined
<1>3. \A i, k \in 1 .. Len(q) : q[i] = q[k] => i = k
  BY <1>1 DEF Lined
<1> DEFINE a == SubSeq(q, 1, n - 1)
           b == SubSeq(q, n + 1, Len(q))
<1>4. a \in Seq(Songs) /\ Len(a) = n - 1 /\ \A i \in 1 .. n - 1 : a[i] = q[i]
  <2>1. n - 1 \in Int /\ \A i \in 1 .. n - 1 : i \in 1 .. Len(q)
    BY <1>1
  <2>2. \A i \in 1 .. n - 1 : q[i] \in Songs
    BY <1>2, <2>1
  <2>3. /\ a \in Seq(Songs)
        /\ Len(a) = IF 1 <= n - 1 THEN n - 1 - 1 + 1 ELSE 0
        /\ \A i \in 1 .. n - 1 - 1 + 1 : a[i] = q[1 + i - 1]
    BY <2>1, <2>2, SubSeqProperties
  <2> HIDE DEF a
  <2>4. n - 1 - 1 + 1 = n - 1 /\ \A i \in 1 .. n - 1 : 1 + i - 1 = i
    BY <1>1
  <2> QED BY <1>1, <2>3, <2>4
<1>5. b \in Seq(Songs) /\ Len(b) = Len(q) - n /\ \A i \in 1 .. Len(q) - n : b[i] = q[i + n]
  <2>1. n + 1 \in Int /\ Len(q) \in Int /\ \A i \in n + 1 .. Len(q) : i \in 1 .. Len(q)
    BY <1>1
  <2>2. \A i \in n + 1 .. Len(q) : q[i] \in Songs
    BY <1>2, <2>1
  <2>3. /\ b \in Seq(Songs)
        /\ Len(b) = IF n + 1 <= Len(q) THEN Len(q) - (n + 1) + 1 ELSE 0
        /\ \A i \in 1 .. Len(q) - (n + 1) + 1 : b[i] = q[(n + 1) + i - 1]
    BY <2>1, <2>2, SubSeqProperties, SMTT(30)
  <2> HIDE DEF b
  <2>4. Len(q) - (n + 1) + 1 = Len(q) - n /\ \A i \in 1 .. Len(q) - n : (n + 1) + i - 1 = i + n
    BY <1>1
  <2> QED BY <1>1, <2>3, <2>4
<1>6. r = a \o b
  BY DEF RemoveAt
<1> HIDE DEF a, b, r
<1>7. /\ r \in Seq(Songs) /\ DOMAIN r = 1 .. Len(q) - 1
      /\ \A i \in 1 .. Len(q) - 1 : r[i] = IF i <= n - 1 THEN a[i] ELSE b[i - (n - 1)]
  <2>1. /\ r \in Seq(Songs) /\ Len(r) = Len(a) + Len(b)
        /\ \A i \in 1 .. Len(a) + Len(b) : r[i] = IF i <= Len(a) THEN a[i] ELSE b[i - Len(a)]
    BY <1>4, <1>5, <1>6, ConcatProperties
  <2>2. Len(a) = n - 1 /\ Len(b) = Len(q) - n /\ Len(a) + Len(b) = Len(q) - 1
    BY <1>1, <1>4, <1>5
  <2>3. DOMAIN r = 1 .. Len(r)
    BY <2>1
  <2>4. Len(r) = Len(q) - 1
    BY <2>1, <2>2
  <2>5. \A i \in 1 .. Len(q) - 1 : r[i] = IF i <= n - 1 THEN a[i] ELSE b[i - (n - 1)]
    <3> HIDE DEF a
    <3> QED BY <2>1, <2>2
  <2> QED BY <2>1, <2>3, <2>4, <2>5
<1>8. \A i \in 1 .. Len(q) - 1 : r[i] = q[IF i < n THEN i ELSE i + 1]
  <2> TAKE i \in 1 .. Len(q) - 1
  <2>1. CASE i < n
    <3>1. i \in 1 .. n - 1 /\ i <= n - 1
      BY <1>1, <2>1
    <3> QED BY <1>4, <1>7, <2>1, <3>1
  <2>2. CASE ~(i < n)
    <3>1. i - (n - 1) \in 1 .. Len(q) - n /\ ~(i <= n - 1) /\ i - (n - 1) + n = i + 1
      BY <1>1, <2>2
    <3> QED BY <1>5, <1>7, <2>2, <3>1
  <2> QED BY <2>1, <2>2
<1> DEFINE g(i) == IF i < n THEN i ELSE i + 1
<1>9. \A i \in 1 .. Len(q) - 1 : g(i) \in 1 .. Len(q) /\ g(i) # n /\ r[i] = q[g(i)]
  BY <1>1, <1>8
<1>10. \A i, k \in 1 .. Len(q) - 1 : g(i) = g(k) => i = k
  BY <1>1
<1> HIDE DEF g
<1>11. \A i \in 1 .. Len(q) - 1 : K[r[i]] = "queued"
  BY <1>1, <1>2, <1>3, <1>9
<1>12. \A i, k \in 1 .. Len(q) - 1 : r[i] = r[k] => i = k
  BY <1>3, <1>9, <1>10
<1> QED BY <1>7, <1>11, <1>12 DEF Lined, r

\* The running song goes before the others.
LEMMA FrontLined ==
  ASSUME NEW q, NEW J, NEW K, Lined(q, J), NEW s \in Songs, J[s] # "queued", K[s] = "queued",
         \A x \in Songs : J[x] = "queued" => K[x] = "queued"
  PROVE  Lined(<<s>> \o q, K)
<1> DEFINE r == <<s>> \o q
<1>1. q \in Seq(Songs) /\ Len(q) \in Nat /\ DOMAIN q = 1 .. Len(q) /\ <<s>> \in Seq(Songs)
      /\ Len(<<s>>) = 1 /\ <<s>>[1] = s
  BY DEF Lined
<1>2. \A i \in 1 .. Len(q) : q[i] \in Songs /\ J[q[i]] = "queued" /\ q[i] # s
  BY <1>1 DEF Lined
<1>3. \A i, k \in 1 .. Len(q) : q[i] = q[k] => i = k
  BY <1>1 DEF Lined
<1>4. /\ r \in Seq(Songs) /\ Len(r) = 1 + Len(q)
      /\ \A i \in 1 .. 1 + Len(q) : r[i] = IF i <= 1 THEN <<s>>[i] ELSE q[i - 1]
  BY <1>1, ConcatProperties
<1> HIDE DEF r
<1>5. DOMAIN r = 1 .. 1 + Len(q)
  BY <1>1, <1>4
<1>6. \A i \in 1 .. 1 + Len(q) : (i = 1 /\ r[i] = s) \/ (i - 1 \in 1 .. Len(q) /\ r[i] = q[i - 1])
  BY <1>1, <1>4
<1>7. \A i \in 1 .. 1 + Len(q) : K[r[i]] = "queued"
  BY <1>2, <1>6
<1>8. \A i, k \in 1 .. 1 + Len(q) : r[i] = r[k] => i = k
  <2> TAKE i, k \in 1 .. 1 + Len(q)
  <2> HAVE r[i] = r[k]
  <2>1. CASE i = 1 /\ r[i] = s
    BY <1>2, <1>6, <2>1
  <2>2. CASE i - 1 \in 1 .. Len(q) /\ r[i] = q[i - 1]
    <3>1. k - 1 \in 1 .. Len(q) /\ r[k] = q[k - 1]
      BY <1>2, <1>6, <2>2
    <3>2. i - 1 = k - 1
      BY <1>3, <2>2, <3>1
    <3> QED BY <1>1, <3>2
  <2> QED BY <1>6, <2>1, <2>2
<1> QED BY <1>4, <1>5, <1>7, <1>8 DEF Lined, r

-----------------------------------------------------------------------------
(* Types, whatever happens: a song is worked on only in the task's own steps,
   and a change that can be undone has a row, in the library.                *)

Verdict == [state : {"none", "checked", "changed", "undone"}, original : Row \cup {None}]
Task    == [pc : {"off", "next", "align", "keep", "write"}, song : Songs \cup {None},
            prev : Row \cup {None}, found : Words \cup {None}]

Rows    == text \in [Songs -> Row \cup {None}] /\ align \in [Songs -> Verdict]
Files   == lrc \in [Songs -> Words \cup {None}] /\ keep \in [Songs -> Words \cup {None}]
Asked   == job \in [Songs -> {"none", "queued", "running", "done", "failed", "gone"}] /\ Lined(line, job)
AtWork  == task \in Task /\ (task.song \in Songs <=> task.pc \in {"align", "keep", "write"})
Undoing == undo \in [Songs -> UndoRecord \cup {None}]
Bounded == due \subseteq Songs /\ asks \in 0 .. MaxAsks /\ turns \in 0 .. MaxTurns
Changed == \A s \in Songs : align[s].state = "changed" => text[s] # None /\ job[s] # "gone"

Typed == Rows /\ Files /\ Asked /\ AtWork /\ Undoing /\ Bounded /\ Changed

LEMMA NoMark ==
  ASSUME Marks, NEW w \in Words, NEW b \in BOOLEAN PROVE [words |-> w, sidecar |-> b] # None
<1>1. [words |-> w, sidecar |-> b] \in Row
  BY DEF Row
<1> QED BY <1>1 DEF Marks

LEMMA TypedTypes == Typed => LyricsTypeOK
<1> SUFFICES ASSUME Typed PROVE LyricsTypeOK
  OBVIOUS
<1>1. ToSet(line) \subseteq {s \in Songs : job[s] = "queued"}
  BY DEF Typed, Asked, Lined, ToSet
<1> QED BY <1>1 DEF Typed, LyricsTypeOK, Rows, Files, Asked, AtWork, Undoing, Bounded, Verdict, Task, UndoRecord

LEMMA InitTyped == ASSUME Marks PROVE LyricsInit => Typed
<1> SUFFICES ASSUME LyricsInit PROVE Typed
  OBVIOUS
<1>1. Rows /\ Files /\ Undoing
  BY DEF LyricsInit, Rows, Files, Undoing, Verdict, Row, Words
<1>2. Asked
  BY DEF LyricsInit, Asked, Lined
<1>3. AtWork /\ Bounded /\ Changed
  BY DEF Marks, LyricsInit, AtWork, Off, Task, Bounded, Changed
<1> QED BY <1>1, <1>2, <1>3 DEF Typed

LEMMA RowsKept == ASSUME Marks, Typed, LyricsNext PROVE Rows'
<1> USE DEF Typed, Rows
<1>1. CASE \E s \in Songs : Scan(s) \/ Return(s) \/ Fetch(s) \/ Leave(s) \/ UndoRow(s)
  <2> PICK s \in Songs : Scan(s) \/ Return(s) \/ Fetch(s) \/ Leave(s) \/ UndoRow(s)
    BY <1>1
  <2>1. CASE Scan(s) \/ Return(s)
    <3>1. lrc[s] # None => [words |-> lrc[s], sidecar |-> TRUE] \in Row
      BY DEF Row, Files
    <3>2. align' = align /\ \E r \in Row \cup {None} : text' = [text EXCEPT ![s] = r]
      BY <2>1, <3>1 DEF Scan, Return
    <3> QED BY <3>2
  <2>2. CASE Fetch(s)
    <3>1. [words |-> "web", sidecar |-> FALSE] \in Row
      BY DEF Row, Words
    <3>2. align' = align /\ \E r \in Row \cup {None} : text' = text \/ text' = [text EXCEPT ![s] = r]
      BY <2>2, <3>1 DEF Fetch
    <3> QED BY <3>2
  <2>3. CASE Leave(s)
    BY <2>3 DEF Leave, Verdict
  <2>4. CASE UndoRow(s)
    BY <2>4, SMTT(30) DEF UndoRow, Verdict, Undoing, UndoRecord, Marks
  <2> QED BY <2>1, <2>2, <2>3, <2>4
<1>2. CASE Check
  BY <1>2 DEF Check, Verdict
<1>3. CASE Replace
  <2>1. task.song \in Songs /\ Original(task.song) \in Row \cup {None}
    BY <1>3 DEF Replace, Original, Verdict, AtWork, Task
  <2>2. \A w \in {"timed", "web"} : [words |-> w, sidecar |-> FALSE] \in Row
    BY DEF Row, Words
  <2>3. [state |-> "changed", original |-> Original(task.song)] \in Verdict
    BY <2>1 DEF Verdict
  <2> QED BY <1>3, <2>1, <2>2, <2>3 DEF Replace
<1>4. CASE UNCHANGED <<text, align>>
  BY <1>4
<1> QED BY <1>1, <1>2, <1>3, <1>4
        DEF LyricsNext, TaskStep, Pick, CardBusy, Keep, Write, Restart, Resume, Undo, Pass, Ask, UndoFiles

LEMMA FilesKept == ASSUME Marks, Typed, LyricsNext PROVE Files'
<1> USE DEF Typed, Files
<1>1. CASE Keep \/ Write
  BY <1>1 DEF Keep, Write, AtWork, Task
<1>2. CASE \E s \in Songs : UndoFiles(s)
  <2> PICK s \in Songs : UndoFiles(s)
    BY <1>2
  <2>1. undo[s] # None /\ undo[s].original \in Row \cup {None} /\ keep' = [keep EXCEPT ![s] = None]
    BY DEF UndoFiles, Undoing, UndoRecord
  <2>2. lrc' = [lrc EXCEPT ![s] = lrc'[s]] /\ lrc'[s] \in Words \cup {None}
    BY <2>1 DEF UndoFiles, Row
  <2> QED BY <2>1, <2>2
<1>3. CASE \E s \in Songs : Fetch(s)
  BY <1>3 DEF Fetch, Words
<1>4. CASE UNCHANGED <<lrc, keep>>
  BY <1>4
<1> QED BY <1>1, <1>2, <1>3, <1>4
        DEF LyricsNext, TaskStep, Pick, Check, Replace, CardBusy, Restart, Resume, Undo, Pass, Ask, UndoRow, Scan,
            Leave, Return

LEMMA AskedKept == ASSUME Marks, Typed, LyricsNext PROVE Asked'
<1> USE DEF Typed, Asked
<1>0. line \in Seq(Songs) /\ \A i \in DOMAIN line : line[i] \in Songs /\ job[line[i]] = "queued"
  BY DEF Lined
<1>1. CASE \E s \in Songs : Ask(s)
  <2> PICK s \in Songs : Ask(s)
    BY <1>1
  <2>1. CASE s \in Waiting
    BY <2>1 DEF Ask
  <2>2. CASE s \notin Waiting
    <3>1. job' = [job EXCEPT ![s] = "queued"] /\ line' = Append(line, s) /\ job[s] # "queued"
      BY <2>2 DEF Ask, Waiting
    <3>2. job'[s] = "queued" /\ \A x \in Songs : x # s => job'[x] = job[x]
      BY <3>1
    <3> QED BY <3>1, <3>2, AppendLined
  <2> QED BY <2>1, <2>2
<1>2. CASE Pick
  <2>1. CASE line = <<>>
    BY <1>2, <2>1 DEF Pick
  <2>2. CASE line # <<>>
    <3>1. job' = [job EXCEPT ![Head(line)] = "running"] /\ line' = Tail(line)
      BY <1>2, <2>2 DEF Pick
    <3>2. \A x \in Songs : x # Head(line) => job'[x] = job[x]
      BY <3>1
    <3> QED BY <2>2, <3>1, <3>2, TailLined
  <2> QED BY <2>1, <2>2
<1>3. ASSUME NEW state \in {"done", "failed"}, Answer(task.song, state), UNCHANGED line
      PROVE  Asked'
  <2>1. \A x \in Songs : job[x] = "queued" => job'[x] = "queued"
    BY <1>3 DEF Answer
  <2> QED BY <1>0, <1>3, <2>1 DEF Answer, Lined
<1>4. CASE Check \/ Write
  BY <1>3, <1>4 DEF Check, Write
<1>5. CASE CardBusy
  BY <1>5 DEF CardBusy, Lined
<1>6. CASE Restart
  <2>1. job' = [s \in Songs |-> IF job[s] = "running" THEN "queued" ELSE job[s]]
    BY <1>6 DEF Restart
  <2>2. \A x \in Songs : job[x] = "queued" => job'[x] = "queued"
    BY <2>1
  <2>3. CASE task.song # None /\ job[task.song] = "running"
    <3>1. task.song \in Songs /\ job[task.song] # "queued" /\ job'[task.song] = "queued"
      BY <2>1, <2>3 DEF AtWork, Task
    <3>2. line' = <<task.song>> \o line
      BY <1>6, <2>3 DEF Restart
    <3> QED BY <2>1, <2>2, <3>1, <3>2, FrontLined
  <2>4. CASE ~(task.song # None /\ job[task.song] = "running")
    <3>1. line' = line
      BY <1>0, <1>6, <2>4 DEF Restart
    <3> QED BY <1>0, <2>1, <2>2, <3>1 DEF Lined
  <2> QED BY <2>3, <2>4
<1>7. CASE \E s \in Songs : Leave(s)
  <2> PICK s \in Songs : Leave(s)
    BY <1>7
  <2>1. job' = [job EXCEPT ![s] = "gone"] /\ \A x \in Songs : x # s => job'[x] = job[x]
    BY DEF Leave
  <2>2. CASE job[s] = "queued"
    <3>1. PICK n \in DOMAIN line : line[n] = s /\ line' = RemoveAt(line, n)
      BY <2>2 DEF Leave
    <3>2. \A x \in Songs : x # line[n] => job'[x] = job[x]
      BY <2>1, <3>1
    <3>3. Lined(RemoveAt(line, n), job')
      BY <3>2, RemoveLined
    <3> QED BY <2>1, <3>1, <3>3
  <2>3. CASE job[s] # "queued"
    <3>1. line' = line
      BY <2>3 DEF Leave
    <3> QED BY <1>0, <2>1, <2>3, <3>1 DEF Lined
  <2> QED BY <2>2, <2>3
<1>8. CASE \E s \in Songs : Return(s)
  <2> PICK s \in Songs : Return(s)
    BY <1>8
  <2> QED BY <1>0 DEF Return, Lined
<1>9. CASE UNCHANGED <<job, line>>
  BY <1>9
<1> QED BY <1>1, <1>2, <1>4, <1>5, <1>6, <1>7, <1>8, <1>9
        DEF LyricsNext, TaskStep, Replace, Keep, Resume, Undo, Pass, UndoRow, UndoFiles, Scan, Fetch

LEMMA AtWorkKept == ASSUME Marks, Typed, LyricsNext PROVE AtWork'
<1> USE DEF Typed, AtWork
<1>0. Off \in Task /\ [Off EXCEPT !.pc = "next"] \in Task /\ Off.song \notin Songs /\ Off.pc = "off"
      /\ [Off EXCEPT !.pc = "next"].song \notin Songs /\ [Off EXCEPT !.pc = "next"].pc = "next"
  BY DEF Off, Task, Marks
<1>1. CASE task' = Off \/ Over \/ task' = Kicked
  BY <1>0, <1>1 DEF Over, Kicked
<1>2. CASE Pick /\ line # <<>>
  <2>1. Head(line) \in Songs
    BY <1>2 DEF Asked, Lined
  <2> QED BY <1>2, <2>1 DEF Pick, Task, Rows
<1>3. CASE Replace /\ ~Over
  BY <1>3 DEF Replace, Task, Words
<1>4. CASE Keep
  BY <1>4 DEF Keep, Task
<1>5. CASE UNCHANGED task
  BY <1>5
<1> QED BY <1>1, <1>2, <1>3, <1>4, <1>5
        DEF LyricsNext, TaskStep, Pick, Check, Replace, CardBusy, Write, Restart, Resume, Undo, Pass, Ask, UndoRow,
            UndoFiles, Scan, Fetch, Leave, Return

LEMMA UndoingKept == ASSUME Marks, Typed, LyricsNext PROVE Undoing'
<1> USE DEF Typed, Undoing
<1>1. CASE Undo
  <2>1. ASSUME NEW s \in Songs, align[s].state = "changed"
        PROVE  [at |-> "row", original |-> align[s].original, words |-> text[s].words] \in UndoRecord
    BY <2>1 DEF Rows, Verdict, Changed, UndoRecord, Row
  <2> QED BY <1>1, <2>1 DEF Undo
<1>2. CASE \E s \in Songs : UndoRow(s) \/ UndoFiles(s) \/ Leave(s)
  BY <1>2 DEF UndoRow, UndoFiles, Leave, UndoRecord
<1>3. CASE UNCHANGED undo
  BY <1>3
<1>4. CASE Restart
  BY <1>4 DEF Restart
<1> QED BY <1>1, <1>2, <1>3, <1>4
        DEF LyricsNext, TaskStep, Pick, Check, Replace, CardBusy, Keep, Write, Resume, Pass, Ask, Scan, Fetch, Return

LEMMA BoundedKept == ASSUME Marks, Typed, LyricsNext PROVE Bounded'
<1> USE DEF Typed, Bounded, Marks
<1>1. due' \subseteq Songs
  BY SMTT(30) DEF LyricsNext, TaskStep, Pick, Check, Replace, CardBusy, Keep, Write, Restart, Resume, Undo, Pass, Ask, UndoRow,
         UndoFiles, Scan, Fetch, Leave, Return
<1>2. asks' \in 0 .. MaxAsks
  BY SMTT(30) DEF LyricsNext, TaskStep, Pick, Check, Replace, CardBusy, Keep, Write, Restart, Resume, Undo, Pass, Ask, UndoRow,
         UndoFiles, Scan, Fetch, Leave, Return
<1>3. turns' \in 0 .. MaxTurns
  BY SMTT(30) DEF LyricsNext, TaskStep, Pick, Check, Replace, CardBusy, Keep, Write, Restart, Resume, Undo, Pass, Ask, UndoRow,
         UndoFiles, Scan, Fetch, Leave, Return
<1> QED BY <1>1, <1>2, <1>3

LEMMA ChangedKept == ASSUME Marks, Typed, LyricsNext PROVE Changed'
<1> USE DEF Typed, Changed
<1>1. CASE \E s \in Songs : Ask(s)
  <2> PICK s \in Songs : Ask(s)
    BY <1>1
  <2>1. text' = text /\ align' = align /\ \A x \in Songs : job'[x] = "gone" => job[x] = "gone"
    BY DEF Ask, Asked
  <2> QED BY <2>1
<1>2. CASE Pick \/ Check \/ CardBusy \/ Write \/ Restart
  <2>1. text' = text /\ \A x \in Songs : align'[x].state = "changed" => align[x].state = "changed"
    BY <1>2 DEF Pick, Check, CardBusy, Write, Restart, Rows, Verdict
  <2>2. \A x \in Songs : job'[x] = "gone" => job[x] = "gone"
    BY <1>2 DEF Pick, Check, CardBusy, Write, Restart, Answer, Asked, Lined
  <2> QED BY <2>1, <2>2
<1>3. CASE Replace
  <2>1. task.song \in Songs
    BY <1>3 DEF Replace, AtWork
  <2>2. \A w \in {"timed", "web"} : [words |-> w, sidecar |-> FALSE] # None
    BY NoMark DEF Words
  <2> QED BY <1>3, <2>1, <2>2 DEF Replace, Rows
<1>4. CASE \E s \in Songs : UndoRow(s) \/ Leave(s)
  <2> PICK s \in Songs : UndoRow(s) \/ Leave(s)
    BY <1>4
  <2>1. /\ align'[s].state # "changed"
        /\ \A x \in Songs : x # s => text'[x] = text[x] /\ align'[x] = align[x] /\ job'[x] = job[x]
    BY DEF UndoRow, Leave, Rows, Verdict, Asked
  <2> QED BY <2>1
<1>5. CASE \E s \in Songs : Scan(s) \/ Fetch(s) \/ Return(s)
  <2> PICK s \in Songs : Scan(s) \/ Fetch(s) \/ Return(s)
    BY <1>5
  <2>1. align' = align /\ \A x \in Songs : x # s => text'[x] = text[x] /\ job'[x] = job[x]
    BY DEF Scan, Fetch, Return, Rows, Asked
  <2>2. [words |-> "web", sidecar |-> FALSE] # None
    BY NoMark DEF Words
  <2>3. lrc[s] # None => [words |-> lrc[s], sidecar |-> TRUE] # None
    BY NoMark DEF Files
  <2>4. align[s].state = "changed" => text'[s] # None /\ job'[s] # "gone"
    BY <2>2, <2>3 DEF Scan, Fetch, Return, Rows
  <2> QED BY <2>1, <2>4
<1>6. CASE UNCHANGED <<text, align, job>>
  BY <1>6
<1> QED BY <1>1, <1>2, <1>3, <1>4, <1>5, <1>6
        DEF LyricsNext, TaskStep, Keep, Resume, Undo, Pass, UndoFiles

LEMMA StutterTyped == ASSUME Typed, UNCHANGED lyricsVars PROVE Typed'
  BY DEF lyricsVars, Typed, Rows, Files, Asked, AtWork, Undoing, Bounded, Changed

LEMMA NextTyped == ASSUME Marks PROVE Typed /\ [LyricsNext]_lyricsVars => Typed'
  BY RowsKept, FilesKept, AskedKept, AtWorkKept, UndoingKept, BoundedKept, ChangedKept, StutterTyped
     DEF Typed

\* Every row, verdict, file and job is one there can be, and each song in line is
\* queued: across syncs, undos, scans, fetched lyrics, songs that leave and
\* return, and crashes (lyricsync.ts, the tables and files it shares).
THEOREM LyricsTyped == LyricsSpec => []LyricsTypeOK
<1>1. LyricsInit => Typed
  BY InitTyped, MarksHold
<1>2. Typed /\ [LyricsNext]_lyricsVars => Typed'
  BY NextTyped, MarksHold
<1>3. LyricsSpec => []Typed
  BY <1>1, <1>2, PTL DEF LyricsSpec
<1> QED BY <1>3, TypedTypes, PTL

-----------------------------------------------------------------------------
(* The music's own files.                                                   *)

\* Nothing is undone, and no crash comes between a row and the keeping of its file.
Unharmed == Marks /\ Came \subseteq Songs /\ "undo" \notin LyricsEnv /\ "torn" \notin LyricsEnv

NoUndo == \A s \in Songs : undo[s] = None

Held(s) ==
  /\ keep[s] = None /\ lrc[s] = "own" /\ s \notin due
  /\ text[s] = None => job[s] = "gone"
  /\ text[s] # None /\ ~text[s].sidecar => task.pc = "keep" /\ task.song = s
  /\ task.song = s => task.pc # "write" /\ task.prev # None /\ task.prev.sidecar

Kept == \A s \in Came : keep[s] = "own" \/ Held(s)

Inv == Typed /\ NoUndo /\ Kept

LEMMA KeptEnough == Inv => MusicFileKept
  BY DEF Inv, Kept, Held, MusicFileKept

LEMMA InitKept == ASSUME Unharmed PROVE LyricsInit => Inv
<1> SUFFICES ASSUME LyricsInit PROVE Inv
  OBVIOUS
<1>1. Typed /\ NoUndo
  BY InitTyped DEF Unharmed, NoUndo, LyricsInit
<1>2. ASSUME NEW s \in Came PROVE Held(s)
  <2>1. s \in Songs /\ s # None
    BY DEF Unharmed, Marks
  <2>2. [words |-> "own", sidecar |-> TRUE] # None
    BY NoMark DEF Unharmed, Words
  <2>3. text[s] = [words |-> "own", sidecar |-> TRUE]
    BY <1>2, <2>1 DEF LyricsInit
  <2>4. lrc[s] = "own"
    BY <2>1, <2>2, <2>3 DEF LyricsInit
  <2> QED BY <2>1, <2>2, <2>3, <2>4 DEF LyricsInit, Held, Off
<1> QED BY <1>1, <1>2 DEF Inv, Kept

LEMMA NoUndoKept == ASSUME Unharmed, Inv, LyricsNext PROVE NoUndo'
  BY DEF Unharmed, Inv, NoUndo, Typed, Undoing, LyricsNext, TaskStep, Pick, Check, Replace, CardBusy, Keep, Write, Restart,
         Resume, Undo, Pass, Ask, UndoRow, UndoFiles, Scan, Fetch, Leave, Return

\* A file once kept stays kept.
LEMMA KeptStays ==
  ASSUME Unharmed, Inv, LyricsNext, NEW s \in Came, keep[s] = "own" PROVE keep'[s] = "own"
<1>1. s \in Songs /\ "own" # None
  BY DEF Unharmed, Marks, Words
<1>2. CASE Keep
  BY <1>1, <1>2 DEF Keep, Inv, Typed, Files
<1>3. CASE \E x \in Songs : UndoFiles(x)
  BY <1>3 DEF Inv, NoUndo, UndoFiles
<1> QED BY <1>2, <1>3
        DEF LyricsNext, TaskStep, Pick, Check, Replace, CardBusy, Write, Restart, Resume, Undo, Pass, Ask, UndoRow, Scan,
            Fetch, Leave, Return

LEMMA HeldTask ==
  ASSUME Unharmed, Inv, TaskStep, NEW s \in Came, Held(s) PROVE (keep[s] = "own" \/ Held(s))'
<1>1. /\ s \in Songs /\ s # None /\ "own" # None /\ Off.song = None /\ [Off EXCEPT !.pc = "next"].song = None
      /\ task.song \in Songs \cup {None}
      /\ task.song \in Songs <=> task.pc \in {"align", "keep", "write"}
      /\ keep \in [Songs -> Words \cup {None}] /\ text \in [Songs -> Row \cup {None}]
  BY DEF Unharmed, Marks, Words, Off, Inv, Typed, AtWork, Task, Files, Rows
<1>2. task.pc # "keep" => (text[s] # None => text[s].sidecar)
  BY DEF Held
<1>3. ASSUME UNCHANGED <<keep, lrc, due, text>>, task'.song = None, task.pc # "keep",
             job[s] = "gone" => job'[s] = "gone"
      PROVE  Held(s)'
  BY <1>1, <1>2, <1>3 DEF Held
<1>4. ASSUME NEW state, Answer(task.song, state) PROVE job[s] = "gone" => job'[s] = "gone"
  BY <1>1, <1>4 DEF Answer, Inv, Typed, Asked
<1>5. CASE Pick
  <2>1. CASE line = <<>>
    BY <1>1, <1>3, <1>5, <2>1 DEF Pick
  <2>2. CASE line # <<>>
    <3>1. Head(line) \in Songs /\ job[Head(line)] = "queued"
      BY <2>2 DEF Inv, Typed, Asked, Lined
    <3>2. /\ task' = [pc |-> "align", song |-> Head(line), prev |-> text[Head(line)], found |-> None]
          /\ job' = [job EXCEPT ![Head(line)] = "running"] /\ UNCHANGED <<keep, lrc, due, text>>
      BY <1>5, <2>2 DEF Pick
    <3>3. task.pc # "keep"
      BY <1>5 DEF Pick
    <3>4. text[s] = None => job[s] = "gone" /\ job'[s] = "gone"
      BY <1>1, <3>1, <3>2 DEF Held, Inv, Typed, Asked
    <3>5. s = Head(line) => text[s] # None /\ text[s].sidecar
      BY <1>2, <3>1, <3>3 DEF Held
    <3> QED BY <1>2, <3>2, <3>3, <3>4, <3>5 DEF Held
  <2> QED BY <2>1, <2>2
<1>6. CASE Check
  BY <1>1, <1>3, <1>4, <1>6 DEF Check, Over
<1>7. CASE Replace
  <2>1. CASE job[task.song] = "gone"
    BY <1>1, <1>3, <1>7, <2>1 DEF Replace, Over
  <2>2. CASE job[task.song] # "gone"
    <3>1. PICK w \in {"timed", "web"} :
            /\ text' = [text EXCEPT ![task.song] = [words |-> w, sidecar |-> FALSE]]
            /\ task' = [task EXCEPT !.pc = "keep", !.found = w]
      BY <1>7, <2>2 DEF Replace
    <3>2. task'.pc = "keep" /\ task'.song = task.song /\ task'.prev = task.prev
      BY <3>1 DEF Inv, Typed, AtWork, Task
    <3>3. [words |-> w, sidecar |-> FALSE] # None
      BY NoMark DEF Unharmed, Words
    <3>4. s # task.song => text'[s] = text[s] 
      BY <1>1, <3>1
    <3>5. s = task.song => text'[s] # None
      BY <1>1, <3>1, <3>3
    <3>6. UNCHANGED <<lrc, keep, job, due>> /\ task.pc = "align"
      BY <1>7 DEF Replace
    <3> QED BY <1>2, <3>2, <3>4, <3>5, <3>6 DEF Held
  <2> QED BY <2>1, <2>2
<1>8. CASE CardBusy
  <2>1. job[s] = "gone" => job'[s] = "gone"
    BY <1>1, <1>8 DEF CardBusy, Waiting
  <2> QED BY <1>1, <1>3, <1>8, <2>1 DEF CardBusy
<1>9. CASE Keep
  <2>1. task' = [task EXCEPT !.pc = "write"] /\ task'.song = task.song
    BY <1>9 DEF Keep, Inv, Typed, AtWork, Task
  <2>2. CASE task.song = s
    BY <1>1, <1>9, <2>2 DEF Keep, Held
  <2>3. CASE task.song # s
    BY <1>1, <1>9, <2>1, <2>3 DEF Keep, Held
  <2> QED BY <2>2, <2>3
<1>10. CASE Write
  <2>1. task.song # s /\ UNCHANGED <<keep, due, text>> /\ task'.song = None /\ task.pc # "keep"
    BY <1>1, <1>10 DEF Write, Over, Held
  <2>2. lrc'[s] = lrc[s]
    BY <1>1, <1>10, <2>1 DEF Write, Inv, Typed, Files
  <2>3. job[s] = "gone" => job'[s] = "gone"
    BY <1>4, <1>10 DEF Write
  <2> QED BY <1>1, <1>2, <2>1, <2>2, <2>3 DEF Held
<1> QED BY <1>5, <1>6, <1>7, <1>8, <1>9, <1>10 DEF TaskStep

LEMMA HeldOthers ==
  ASSUME Unharmed, Inv, LyricsNext, ~TaskStep, NEW s \in Came, Held(s) PROVE Held(s)'
<1>1. s \in Songs /\ s # None /\ "own" # None /\ Off.song = None /\ [Off EXCEPT !.pc = "next"].song = None
  BY DEF Unharmed, Marks, Words, Off
<1>2. /\ job \in [Songs -> {"none", "queued", "running", "done", "failed", "gone"}]
      /\ text \in [Songs -> Row \cup {None}] /\ lrc \in [Songs -> Words \cup {None}]
      /\ keep \in [Songs -> Words \cup {None}]
      /\ task.song \in Songs \cup {None} /\ (task.song \in Songs <=> task.pc \in {"align", "keep", "write"})
  BY DEF Inv, Typed, Asked, Rows, Files, AtWork, Task
<1>3. CASE Restart
  <2>1. task' = Off /\ UNCHANGED <<text, lrc, keep>> /\ due' = {} /\ task.pc # "keep"
    BY <1>3 DEF Restart, Unharmed
  <2>2. job[s] = "gone" => job'[s] = "gone"
    BY <1>1, <1>3 DEF Restart
  <2> QED BY <1>1, <2>1, <2>2 DEF Held
<1>4. ASSUME task' = Kicked, UNCHANGED <<text, lrc, keep, due>>, job[s] = "gone" => job'[s] = "gone"
      PROVE  Held(s)'
  <2>1. task' = task \/ (task'.song = None /\ task.pc = "off")
    BY <1>1, <1>4 DEF Kicked
  <2> QED BY <1>1, <1>4, <2>1 DEF Held
<1>5. CASE Resume
  BY <1>4, <1>5 DEF Resume
<1>6. CASE Undo \/ Pass
  BY <1>1, <1>6 DEF Undo, Pass, Unharmed, Held
<1>7. CASE \E x \in Songs : Ask(x)
  <2> PICK x \in Songs : Ask(x)
    BY <1>7
  <2>1. job[s] = "gone" => job'[s] = "gone"
    BY <1>1, <1>2 DEF Ask
  <2> QED BY <1>4, <2>1 DEF Ask
<1>8. CASE \E x \in Songs : UndoRow(x) \/ UndoFiles(x)
  BY <1>8 DEF UndoRow, UndoFiles, Inv, NoUndo
<1>9. CASE \E x \in Songs : Scan(x) \/ Fetch(x) \/ Leave(x) \/ Return(x)
  <2> PICK x \in Songs : Scan(x) \/ Fetch(x) \/ Leave(x) \/ Return(x)
    BY <1>9
  <2>1. UNCHANGED <<keep, task>> /\ s \notin due' /\ lrc'[s] = "own"
    BY <1>1, <1>2 DEF Scan, Fetch, Leave, Return, Held
  <2>2. CASE x # s
    <3>1. text'[s] = text[s] /\ job'[s] = job[s]
      BY <1>1, <1>2, <2>2 DEF Scan, Fetch, Leave, Return
    <3> QED BY <2>1, <3>1 DEF Held
  <2>3. CASE x = s
    <3>1. ~Fetch(x)
      BY <2>3 DEF Fetch, Held
    <3>2. [words |-> "own", sidecar |-> TRUE] # None
      BY NoMark DEF Unharmed, Words
    <3>3. IF Leave(x) THEN text'[s] = None /\ job'[s] = "gone"
                      ELSE text'[s] # None /\ text'[s].sidecar
      BY <1>1, <1>2, <2>3, <3>1, <3>2 DEF Scan, Leave, Return, Held
    <3> QED BY <1>1, <2>1, <3>3 DEF Held
  <2> QED BY <2>2, <2>3
<1> QED BY <1>3, <1>5, <1>6, <1>7, <1>8, <1>9 DEF LyricsNext

LEMMA NextKept == ASSUME Unharmed PROVE Inv /\ [LyricsNext]_lyricsVars => Inv'
<1> SUFFICES ASSUME Inv, [LyricsNext]_lyricsVars PROVE Inv'
  OBVIOUS
<1>1. Typed'
  BY NextTyped DEF Unharmed, Inv
<1>2. CASE LyricsNext
  <2>1. ASSUME NEW s \in Came PROVE (keep[s] = "own" \/ Held(s))'
    <3>1. keep[s] = "own" \/ Held(s)
      BY <2>1 DEF Inv, Kept
    <3> QED BY <1>2, <2>1, <3>1, KeptStays, HeldTask, HeldOthers
  <2> QED BY <1>1, <1>2, <2>1, NoUndoKept DEF Inv, Kept
<1>3. CASE UNCHANGED lyricsVars
  BY <1>1, <1>3 DEF lyricsVars, Inv, NoUndo, Kept, Held
<1> QED BY <1>2, <1>3

\* No song's own .lrc is lost to syncs, scans, fetched lyrics, a song that leaves
\* and returns, or restarts: it is in place, or kept as <name>.orig.lrc
\* (writeSidecar, lyricsync.ts).
THEOREM OwnFilesKept ==
  ASSUME "undo" \notin LyricsEnv, "torn" \notin LyricsEnv
  PROVE  LyricsSpec => []MusicFileKept
<1>1. Unharmed
  BY MarksHold, LyricsAssumption DEF Unharmed
<1>2. LyricsInit => Inv
  BY <1>1, InitKept
<1>3. Inv /\ [LyricsNext]_lyricsVars => Inv'
  BY <1>1, NextKept
<1> QED BY <1>2, <1>3, KeptEnough, PTL DEF LyricsSpec

-----------------------------------------------------------------------------
(* Downloads.                                                               *)

\* A search that followed the last request, the last file.
Searched(a) == searched[a] # Nil /\ searched[a] >= moved[a]

\* What a row of an album says of it is not older than its last chance; what it
\* does not say of a file, the next pass finds.
Chances(a, w) ==
  /\ w.done <= lidarr[a].done
  /\ w.done = lidarr[a].done => w.progress >= moved[a]
  /\ lidarr[a].done = 0 =>
       /\ w.seen >= moved[a]
       /\ w.searched # Nil => Searched(a)
       /\ w.fallback # Nil =>
            /\ w.fallback - moved[a] > GiveUp
            /\ "log" \in WatchEnv => Searched(a)

\* An album about to be given up, or whose indexers are about to be asked.
Waited(a) ==
  /\ TooLong(pass.now, moved[a])
  /\ lidarr[a].done = 0 =>
       /\ "log" \in WatchEnv => Searched(a)
       /\ pass.row.fallback # Nil => pass.now - moved[a] > 2 * GiveUp

\* What the pass read is there still, and perhaps more; what it goes by is true
\* of an album that nothing came of since.
Passing ==
  pass # Nil =>
    /\ pass.now <= clock
    /\ \A a \in Albums :
         /\ pass.rows[a].done <= lidarr[a].done
         /\ pass.rows[a].done = lidarr[a].done => moved[a] <= pass.now
         /\ watch[a] # Nil => watch[a].done <= pass.rows[a].done
    /\ pass.step # "look" =>
         /\ pass.at \in Albums /\ pass.row # Nil /\ pass.row.done = pass.rows[pass.at].done
         /\ Seen(pass.at) => Chances(pass.at, pass.row)
    /\ pass.step = "search" => pass.why = "missing" /\ pass.rows[pass.at].done = 0
    /\ pass.step \in {"search", "quit"} /\ pass.why = "missing" /\ Seen(pass.at) => Waited(pass.at)

WatchRows == \A a \in Albums : watch[a] # Nil => Chances(a, watch[a])

WatchInv == WatchTypeOK /\ (\A a \in Albums : moved[a] <= clock) /\ WatchRows /\ Passing

LEMMA Bounds ==
  /\ Times \subseteq Nat /\ Nil \notin Times /\ Nil \notin Albums /\ Nil \notin WatchRow
  /\ Nil \notin Passes /\ Total \in Nat /\ GiveUp \in Nat /\ MaxClock \in Nat /\ MaxWishes \in Nat
  BY WatchAssumption DEF Times

\* A request, a download of Lidarr's own: nothing that the pass goes by.
LEMMA UntouchedKeeps ==
  ASSUME WatchInv, UNCHANGED <<clock, searched, watch, pass, moved>>, lidarr' \in [Albums -> Listed],
         \A x \in Albums : lidarr'[x].done = lidarr[x].done,
         wishes' \in 0 .. MaxWishes, asking' \subseteq Albums
  PROVE  WatchInv'
<1>1. \A x \in Albums : \A w : Chances(x, w)' <=> Chances(x, w)
  BY DEF Chances, Searched
<1>2. \A x \in Albums : (Seen(x)' <=> Seen(x)) /\ (Waited(x)' <=> Waited(x))
  BY DEF Seen, Waited, Searched
<1>3. Passing'
  <2>1. CASE pass # Nil /\ pass.step # "look"
    BY <1>1, <1>2, <2>1 DEF WatchInv, Passing
  <2>2. CASE pass = Nil \/ pass.step = "look"
    BY <2>2 DEF WatchInv, Passing
  <2> QED BY <2>1, <2>2
<1> QED BY <1>1, <1>3 DEF WatchInv, WatchTypeOK, WatchRows

LEMMA RequestKeeps ==
  ASSUME WatchInv, NEW a \in Albums, Request(a)
  PROVE  WatchInv'
<1>1. UNCHANGED <<clock, searched, watch, pass, moved>>
  BY DEF Request
<1>2. \A x \in Albums : lidarr'[x].done = lidarr[x].done
  BY DEF WatchInv, WatchTypeOK, Request, Listed
<1>3. lidarr' \in [Albums -> Listed]
  BY DEF WatchInv, WatchTypeOK, Request, Listed
<1>4. wishes' \in 0 .. MaxWishes /\ asking' \subseteq Albums
  BY Bounds DEF WatchInv, WatchTypeOK, Request
<1> QED BY <1>1, <1>2, <1>3, <1>4, UntouchedKeeps

\* Since when an album asked for is owed its chance.
LEMMA AfreshIs ==
  ASSUME WatchInv, NEW a \in Albums
  PROVE  /\ Afresh(a) \in [Albums -> Times]
         /\ \A x \in Albums : x # a => Afresh(a)[x] = moved[x]
         /\ Afresh(a)[a] <= clock /\ clock \in Nat
         /\ pass # Nil => /\ pass.now \in Nat /\ moved[a] \in Nat
                          /\ moved[a] <= pass.now => Afresh(a)[a] = pass.now
<1> DEFINE t == IF pass = Nil THEN clock ELSE IF moved[a] > pass.now THEN moved[a] ELSE pass.now
<1>1. clock \in Times /\ clock \in Nat /\ moved[a] \in Times /\ moved[a] \in Nat /\ moved[a] <= clock
  BY Bounds DEF WatchInv, WatchTypeOK
<1>2. pass # Nil => pass.now \in Times /\ pass.now \in Nat /\ pass.now <= clock
  BY Bounds DEF WatchInv, WatchTypeOK, Passes, Passing
<1>3. t \in Times /\ t <= clock
  BY <1>1, <1>2
<1>4. Afresh(a) = [moved EXCEPT ![a] = t] /\ moved \in [Albums -> Times]
  BY DEF Afresh, WatchInv, WatchTypeOK
<1>5. Afresh(a)[a] = t
  BY <1>4
<1> HIDE DEF t
<1>6. pass # Nil /\ moved[a] <= pass.now => t = pass.now
  BY <1>1, <1>2 DEF t
<1> QED BY <1>1, <1>2, <1>3, <1>4, <1>5, <1>6

\* An album that starts over, when no row of it is left.
LEMMA AfreshKeeps ==
  ASSUME WatchInv, NEW a \in Albums, moved' = Afresh(a), watch'[a] = Nil, UNCHANGED <<clock, searched, pass>>,
         watch' \in [Albums -> WatchRow \cup {Nil}], lidarr' \in [Albums -> Listed],
         \A x \in Albums : lidarr'[x].done = lidarr[x].done,
         \A x \in Albums : x # a => watch'[x] = watch[x],
         wishes' \in 0 .. MaxWishes, asking' \subseteq Albums
  PROVE  WatchInv'
<1>1. WatchTypeOK' /\ \A x \in Albums : moved'[x] <= clock'
  BY AfreshIs DEF WatchInv, WatchTypeOK
<1>2. ASSUME NEW x \in Albums, x # a
      PROVE  (\A w : Chances(x, w)' <=> Chances(x, w)) /\ (Seen(x)' <=> Seen(x)) /\ (Waited(x)' <=> Waited(x))
  BY <1>2, AfreshIs DEF Chances, Seen, Waited, Searched
<1>3. WatchRows'
  BY <1>2 DEF WatchInv, WatchRows
<1>4. ~Seen(a)'
  BY DEF Seen
<1>5. ASSUME pass # Nil, NEW x \in Albums
      PROVE  /\ pass.rows[x].done <= lidarr'[x].done
             /\ pass.rows[x].done = lidarr'[x].done => moved'[x] <= pass.now
             /\ watch'[x] # Nil => watch'[x].done <= pass.rows[x].done
  <2>1. CASE x # a
    BY <1>5, <2>1, AfreshIs DEF WatchInv, Passing
  <2>2. CASE x = a
    BY <1>5, <2>2, AfreshIs DEF WatchInv, Passing
  <2> QED BY <2>1, <2>2
<1>6. Passing'
  <2>1. CASE pass # Nil /\ pass.step # "look"
    <3>1. Seen(pass.at)' => pass.at # a /\ Seen(pass.at)
      BY <1>2, <1>4, <2>1 DEF WatchInv, Passing
    <3>2. Seen(pass.at)' => Chances(pass.at, pass.row)'
      BY <1>2, <2>1, <3>1 DEF WatchInv, Passing
    <3>3. pass.step \in {"search", "quit"} /\ pass.why = "missing" /\ Seen(pass.at)' => Waited(pass.at)'
      BY <1>2, <2>1, <3>1 DEF WatchInv, Passing
    <3> QED BY <1>5, <2>1, <3>2, <3>3 DEF WatchInv, Passing
  <2>2. CASE pass = Nil \/ pass.step = "look"
    BY <1>5, <2>2 DEF WatchInv, Passing
  <2> QED BY <2>1, <2>2
<1> QED BY <1>1, <1>3, <1>6 DEF WatchInv

LEMMA RecordedKeeps ==
  ASSUME WatchInv, NEW a \in Albums, Recorded(a)
  PROVE  WatchInv'
<1>1. UNCHANGED <<clock, lidarr, searched, wishes, pass>> /\ moved' = Afresh(a)
  BY DEF Recorded
<1>2. /\ watch' \in [Albums -> WatchRow \cup {Nil}] /\ watch'[a] = Nil
      /\ \A x \in Albums : x # a => watch'[x] = watch[x]
  BY DEF WatchInv, WatchTypeOK, Recorded
<1>3. /\ lidarr' \in [Albums -> Listed] /\ wishes' \in 0 .. MaxWishes /\ asking' \subseteq Albums
      /\ \A x \in Albums : lidarr'[x].done = lidarr[x].done
  BY <1>1 DEF WatchInv, WatchTypeOK, Recorded
<1> QED BY <1>1, <1>2, <1>3, AfreshKeeps

LEMMA ChoreKeeps ==
  ASSUME WatchInv, NEW a \in Albums, Chore(a)
  PROVE  WatchInv'
<1>1. UNCHANGED <<clock, searched, watch, asking, pass>>
  BY DEF Chore
<1>2. \A x \in Albums : lidarr'[x].done = lidarr[x].done
  BY DEF WatchInv, WatchTypeOK, Chore, Listed
<1>3. lidarr' \in [Albums -> Listed]
  BY DEF WatchInv, WatchTypeOK, Chore, Listed
<1>4. /\ wishes' \in 0 .. MaxWishes /\ asking' \subseteq Albums
      /\ watch' \in [Albums -> WatchRow \cup {Nil}]
  BY <1>1, Bounds DEF WatchInv, WatchTypeOK, Chore
<1>5. CASE watch[a] # Nil
  <2>1. UNCHANGED moved
    BY <1>5 DEF Chore
  <2> QED BY <1>1, <1>2, <1>3, <1>4, <2>1, UntouchedKeeps
<1>6. CASE watch[a] = Nil
  <2>1. moved' = Afresh(a) /\ watch'[a] = Nil
    BY <1>1, <1>6 DEF Chore
  <2> QED BY <1>1, <1>2, <1>3, <1>4, <2>1, AfreshKeeps
<1> QED BY <1>5, <1>6

LEMMA LandKeeps ==
  ASSUME WatchInv, NEW a \in Albums, Land(a)
  PROVE  WatchInv'
<1>1. UNCHANGED <<clock, searched, watch, asking, wishes, pass>>
  BY DEF Land
<1>2. lidarr' \in [Albums -> Listed] /\ lidarr'[a].done = lidarr[a].done + 1
  <2>1. lidarr[a] \in Listed /\ lidarr[a].done + 1 \in 0 .. Total
    BY Bounds DEF WatchInv, WatchTypeOK, Land, Listed
  <2>2. [lidarr[a] EXCEPT !.done = @ + 1] \in Listed
    BY <2>1 DEF Listed
  <2>3. lidarr' = [lidarr EXCEPT ![a] = [lidarr[a] EXCEPT !.done = @ + 1]]
    BY DEF WatchInv, WatchTypeOK, Land
  <2> QED BY <2>1, <2>2, <2>3 DEF WatchInv, WatchTypeOK, Listed
<1>3. \A x \in Albums : x # a => moved'[x] = moved[x] /\ lidarr'[x] = lidarr[x]
  BY DEF WatchInv, WatchTypeOK, Land
<1>4. moved'[a] = clock /\ moved' \in [Albums -> Times]
  BY DEF WatchInv, WatchTypeOK, Land
<1>5. WatchTypeOK'
  BY <1>1, <1>2, <1>4 DEF WatchInv, WatchTypeOK
<1>6. ASSUME NEW x \in Albums, watch[x] # Nil PROVE Chances(x, watch[x])'
  <2>1. CASE x = a
    <3>1. watch[a].done \in Nat /\ lidarr[a].done \in Nat /\ watch[a].done <= lidarr[a].done
      BY <1>6, <2>1, Bounds DEF WatchInv, WatchTypeOK, WatchRows, Chances, WatchRow, Listed
    <3>2. lidarr'[a].done # 0 /\ watch[a].done <= lidarr'[a].done /\ watch[a].done # lidarr'[a].done
      BY <1>2, <3>1
    <3>3. watch'[x] = watch[a]
      BY <1>1, <2>1
    <3> QED BY <2>1, <3>2, <3>3 DEF Chances
  <2>2. CASE x # a
    BY <1>1, <1>3, <1>6, <2>2 DEF WatchInv, WatchRows, Chances, Searched
  <2> QED BY <2>1, <2>2
<1>7. \A x \in Albums : moved'[x] <= clock
  BY <1>3, <1>4, Bounds DEF WatchInv, WatchTypeOK
<1>8. pass # Nil => /\ pass.rows[a].done <= lidarr'[a].done /\ pass.rows[a].done # lidarr'[a].done
  <2>1. pass # Nil => pass.rows[a].done \in Nat /\ pass.rows[a].done <= lidarr[a].done
    BY Bounds DEF WatchInv, WatchTypeOK, Passing, Passes, Listed
  <2>2. lidarr[a].done \in Nat
    BY Bounds DEF WatchInv, WatchTypeOK, Listed
  <2> QED BY <1>2, <2>1, <2>2
<1>9. Passing'
  <2>1. CASE pass # Nil /\ pass.step # "look"
    <3>1. Seen(pass.at)' => pass.at # a /\ Seen(pass.at)
      BY <1>1, <1>3, <1>8, <2>1 DEF WatchInv, Passing, Seen
    <3>2. Seen(pass.at)' => Chances(pass.at, pass.row)'
      BY <1>1, <1>3, <2>1, <3>1 DEF WatchInv, Passing, Chances, Searched
    <3>3. pass.step \in {"search", "quit"} /\ pass.why = "missing" /\ Seen(pass.at)' => Waited(pass.at)'
      BY <1>1, <1>3, <2>1, <3>1 DEF WatchInv, Passing, Waited, Searched
    <3> QED BY <1>1, <1>3, <1>8, <2>1, <3>2, <3>3 DEF WatchInv, Passing
  <2>2. CASE pass = Nil \/ pass.step = "look"
    BY <1>1, <1>3, <1>8, <2>2 DEF WatchInv, Passing
  <2> QED BY <2>1, <2>2
<1> QED BY <1>1, <1>5, <1>6, <1>7, <1>9 DEF WatchInv, WatchRows

LEMMA OwnKeeps ==
  ASSUME WatchInv, NEW a \in Albums, Own(a)
  PROVE  WatchInv'
<1>1. UNCHANGED <<clock, searched, watch, asking, wishes, pass, moved>>
  BY DEF Own
<1>2. \A x \in Albums : lidarr'[x].done = lidarr[x].done
  BY DEF WatchInv, WatchTypeOK, Own, Listed
<1>3. lidarr' \in [Albums -> Listed]
  BY DEF WatchInv, WatchTypeOK, Own, Listed
<1>4. wishes' \in 0 .. MaxWishes /\ asking' \subseteq Albums
  BY <1>1 DEF WatchInv, WatchTypeOK
<1> QED BY <1>1, <1>2, <1>3, <1>4, UntouchedKeeps

\* A later search still follows.
LEMMA SearchKeeps ==
  ASSUME WatchInv, NEW a \in Albums, Search(a)
  PROVE  WatchInv'
<1>1. UNCHANGED <<clock, lidarr, watch, asking, wishes, pass, moved>>
  BY DEF Search
<1>2. searched' \in [Albums -> Times \cup {Nil}]
  BY DEF WatchInv, WatchTypeOK, Search
<1>3. \A x \in Albums : Searched(x) => Searched(x)'
  <2>1. \A x \in Albums : searched'[x] = IF x = a THEN clock ELSE searched[x]
    BY DEF WatchInv, WatchTypeOK, Search
  <2>2. clock # Nil
    BY Bounds DEF WatchInv, WatchTypeOK
  <2> QED BY <1>1, <2>1, <2>2 DEF WatchInv, Searched
<1>4. \A x \in Albums : \A w : Chances(x, w) => Chances(x, w)'
  BY <1>1, <1>3 DEF Chances
<1>5. WatchRows'
  BY <1>1, <1>4 DEF WatchInv, WatchRows
<1>6. Passing'
  BY <1>1, <1>3, <1>4 DEF WatchInv, Passing, Waited, Seen
<1> QED BY <1>1, <1>2, <1>5, <1>6 DEF WatchInv, WatchTypeOK

LEMMA ClockTickKeeps ==
  ASSUME WatchInv, ClockTick
  PROVE  WatchInv'
<1>1. UNCHANGED <<lidarr, searched, watch, asking, wishes, pass, moved>> /\ clock' = clock + 1
  BY DEF ClockTick
<1>2. clock' \in Times /\ clock \in Nat
  BY Bounds DEF WatchInv, WatchTypeOK, ClockTick, Times
<1>3. WatchTypeOK'
  BY <1>1, <1>2 DEF WatchInv, WatchTypeOK
<1>4. WatchRows'
  BY <1>1 DEF WatchInv, WatchRows, Chances, Searched
<1>5. pass # Nil => pass.now \in Nat
  BY Bounds DEF WatchInv, WatchTypeOK, Passes
<1>6. \A x \in Albums : moved[x] \in Nat
  BY Bounds DEF WatchInv, WatchTypeOK
<1>7. \A n \in Nat : n <= clock => n <= clock'
  BY <1>1, <1>2
<1>8. \A x \in Albums : moved'[x] <= clock'
  BY <1>1, <1>6, <1>7 DEF WatchInv
<1>9. Passing'
  BY <1>1, <1>5, <1>7 DEF WatchInv, Passing, Chances, Waited, Searched, Seen
<1> QED BY <1>3, <1>4, <1>8, <1>9 DEF WatchInv

LEMMA StartPassKeeps ==
  ASSUME WatchInv, StartPass
  PROVE  WatchInv'
<1>1. UNCHANGED <<clock, lidarr, searched, watch, asking, wishes, moved>>
  BY DEF StartPass
<1>2. pass' \in Passes /\ pass'.now = clock /\ pass'.rows = lidarr /\ pass'.step = "look"
  BY DEF WatchInv, WatchTypeOK, StartPass, Passes
<1>3. WatchTypeOK'
  BY <1>1, <1>2 DEF WatchInv, WatchTypeOK
<1>4. WatchRows'
  BY <1>1 DEF WatchInv, WatchRows, Chances, Searched
<1>5. clock \in Nat
  BY Bounds DEF WatchInv, WatchTypeOK
<1>6. \A x \in Albums : lidarr[x].done \in Nat /\ (watch[x] # Nil => watch[x].done <= lidarr[x].done)
  BY Bounds DEF WatchInv, WatchTypeOK, WatchRows, Chances, Listed
<1>7. Passing'
  BY <1>1, <1>2, <1>5, <1>6 DEF WatchInv, Passing
<1> QED BY <1>1, <1>3, <1>4, <1>7 DEF WatchInv

\* A row the pass rewrites, the others as they were.
LEMMA RowsPut ==
  ASSUME WatchInv, NEW a \in Albums, NEW w, UNCHANGED <<lidarr, searched, moved>>,
         watch' = [watch EXCEPT ![a] = w], Chances(a, w)
  PROVE  WatchRows'
<1>1. \A x \in Albums : watch'[x] = IF x = a THEN w ELSE watch[x]
  BY DEF WatchInv, WatchTypeOK
<1> QED BY <1>1 DEF WatchInv, WatchRows, Chances, Searched

\* The next album: nothing is known of it yet.
LEMMA NextAlbumIs ==
  ASSUME WatchInv, pass # Nil, NEW p, \/ p = NextAlbum
                                      \/ \E a : p = [NextAlbum EXCEPT !.todo = @ \ {a}]
  PROVE  p \in Passes /\ p.now = pass.now /\ p.rows = pass.rows /\ p.step = "look"
<1>1. pass \in Passes
  BY DEF WatchInv, WatchTypeOK
<1>2. NextAlbum \in Passes /\ NextAlbum.now = pass.now /\ NextAlbum.rows = pass.rows
        /\ NextAlbum.step = "look"
  BY <1>1 DEF NextAlbum, Passes
<1> QED BY <1>2 DEF Passes

\* With it the pass still stands.
LEMMA NextPasses ==
  ASSUME WatchInv, pass # Nil, NEW n, \/ n = NextAlbum
                                      \/ \E a : n = [NextAlbum EXCEPT !.todo = @ \ {a}],
         pass' = n, UNCHANGED <<clock, moved>>,
         \A x \in Albums : lidarr'[x].done = lidarr[x].done,
         \A x \in Albums : watch'[x] # Nil => watch'[x].done <= pass.rows[x].done
  PROVE  Passing' /\ pass' \in Passes
<1>1. pass' \in Passes /\ pass'.now = pass.now /\ pass'.rows = pass.rows /\ pass'.step = "look"
  BY NextAlbumIs
<1> QED BY <1>1 DEF WatchInv, Passing

LEMMA LookKeeps ==
  ASSUME WatchInv, NEW a \in Albums, Look(a)
  PROVE  WatchInv'
<1> DEFINE r == pass.rows[a]
           w == watch[a]
<1>1. UNCHANGED <<clock, lidarr, searched, asking, wishes, moved>> /\ pass # Nil /\ pass \in Passes
  BY DEF Look, WatchInv, WatchTypeOK
<1>2. /\ r \in Listed /\ r.done <= lidarr[a].done /\ pass.now \in Times
      /\ r.done = lidarr[a].done => moved[a] <= pass.now
      /\ r.done \in Nat /\ lidarr[a].done \in Nat
      /\ \A x \in Albums : watch[x] # Nil => watch[x].done <= pass.rows[x].done
  BY <1>1, Bounds DEF WatchInv, WatchTypeOK, Passing, Passes, Listed
<1>3. CASE w = Nil
  <2> DEFINE n == [seen |-> pass.now, done |-> r.done, progress |-> pass.now,
                   searched |-> Nil, fallback |-> Nil, gaveUp |-> FALSE]
  <2>1. watch' = [watch EXCEPT ![a] = n] /\ pass' = [NextAlbum EXCEPT !.todo = @ \ {a}]
    BY <1>3 DEF Look
  <2>2. n \in WatchRow
    BY <1>2 DEF WatchRow, Listed
  <2>3. Chances(a, n)
    BY <1>2, Bounds DEF Chances, Listed
  <2>4. WatchRows'
    BY <1>1, <2>1, <2>3, RowsPut
  <2>5. \A x \in Albums : watch'[x] # Nil => watch'[x].done <= pass.rows[x].done
    BY <1>2, <2>1 DEF WatchInv, WatchTypeOK
  <2>7. Passing' /\ pass' \in Passes
    BY <1>1, <2>1, <2>5, NextPasses
  <2>6. watch' \in [Albums -> WatchRow \cup {Nil}]
    BY <2>1, <2>2 DEF WatchInv, WatchTypeOK
  <2> QED BY <1>1, <2>4, <2>6, <2>7 DEF WatchInv, WatchTypeOK
<1>4. CASE w # Nil /\ r.done > w.done
  <2> DEFINE n == [w EXCEPT !.done = r.done, !.progress = pass.now]
  <2>1. w \in WatchRow /\ w.done \in Nat
    BY <1>4, Bounds DEF WatchInv, WatchTypeOK, WatchRow
  <2>2. watch' = [watch EXCEPT ![a] = n]
    BY <1>4 DEF Look, WatchInv, WatchTypeOK
  <2>3. pass' = [NextAlbum EXCEPT !.todo = @ \ {a}]
    BY <1>4 DEF Look
  <2>4. n \in WatchRow /\ n.done = r.done /\ n.progress = pass.now
    BY <1>2, <2>1 DEF WatchRow, Listed
  <2>5. r.done # 0 /\ r.done \in Nat
    BY <1>2, <1>4, <2>1, Bounds DEF Listed
  <2>6. Chances(a, n)
    BY <1>2, <2>4, <2>5, Bounds DEF Chances
  <2>7. WatchRows'
    BY <1>1, <2>2, <2>6, RowsPut
  <2>10. \A x \in Albums : watch'[x] # Nil => watch'[x].done <= pass.rows[x].done
    BY <1>2, <2>2, <2>4 DEF WatchInv, WatchTypeOK
  <2>8. Passing' /\ pass' \in Passes
    BY <1>1, <2>3, <2>10, NextPasses
  <2>9. watch' \in [Albums -> WatchRow \cup {Nil}]
    BY <2>2, <2>4 DEF WatchInv, WatchTypeOK
  <2> QED BY <1>1, <2>7, <2>8, <2>9 DEF WatchInv, WatchTypeOK
<1>5. CASE w # Nil /\ ~(r.done > w.done)
  <2>1. UNCHANGED watch /\ pass' = [pass EXCEPT !.todo = @ \ {a}, !.at = a, !.row = w, !.step = "judge"]
    BY <1>5 DEF Look
  <2>2. w \in WatchRow /\ w.done \in Nat /\ Chances(a, w)
    BY <1>5, Bounds DEF WatchInv, WatchTypeOK, WatchRow, WatchRows
  <2>3. w.done = r.done
    BY <1>2, <1>5, <2>2
  <2>4. pass' \in Passes /\ pass'.now = pass.now /\ pass'.rows = pass.rows /\ pass'.at = a
          /\ pass'.row = w /\ pass'.step = "judge"
    BY <1>1, <2>1, <2>2 DEF Passes
  <2>5. WatchRows'
    BY <1>1, <2>1 DEF WatchInv, WatchRows, Chances, Searched
  <2>6. Chances(a, w)'
    BY <1>1, <2>1, <2>2 DEF Chances, Searched
  <2>7. w # Nil
    BY <1>5
  <2>8. Passing'
    BY <1>1, <1>2, <2>1, <2>3, <2>4, <2>6, <2>7 DEF WatchInv, Passing
  <2> QED BY <1>1, <2>1, <2>4, <2>5, <2>8 DEF WatchInv, WatchTypeOK
<1> QED BY <1>3, <1>4, <1>5

\* What the album is about to be judged by.
LEMMA AtIs ==
  ASSUME WatchInv, pass # Nil, pass.step # "look"
  PROVE  /\ pass \in Passes /\ pass.at \in Albums /\ pass.row \in WatchRow
         /\ pass.now \in Nat /\ clock \in Nat /\ pass.now <= clock
         /\ moved[pass.at] \in Nat /\ lidarr[pass.at].done \in Nat
         /\ pass.row.seen \in Nat /\ pass.row.progress \in Nat /\ pass.row.done \in Nat
         /\ pass.row.searched \in Nat \cup {Nil} /\ pass.row.fallback \in Nat \cup {Nil}
         /\ Seen(pass.at) => Chances(pass.at, pass.row) /\ pass.rows[pass.at].done = lidarr[pass.at].done
         /\ pass.row.done = pass.rows[pass.at].done /\ pass.rows[pass.at].done <= lidarr[pass.at].done
<1>1. pass \in Passes /\ pass.at \in Albums /\ pass.row \in WatchRow
  BY DEF WatchInv, WatchTypeOK, Passing, Passes
<1>2. pass.now \in Nat /\ clock \in Nat /\ moved[pass.at] \in Nat
  BY <1>1, Bounds DEF WatchInv, WatchTypeOK, Passes
<1>3. lidarr[pass.at] \in Listed
  BY <1>1 DEF WatchInv, WatchTypeOK
<1>4. /\ lidarr[pass.at].done \in Nat /\ pass.row.done \in Nat
      /\ pass.row.seen \in Nat /\ pass.row.progress \in Nat
      /\ pass.row.searched \in Nat \cup {Nil} /\ pass.row.fallback \in Nat \cup {Nil}
  <2>1. /\ pass.row.done \in 0 .. Total /\ pass.row.seen \in Times /\ pass.row.progress \in Times
        /\ pass.row.searched \in Times \cup {Nil} /\ pass.row.fallback \in Times \cup {Nil}
    BY <1>1 DEF WatchRow
  <2>2. lidarr[pass.at].done \in 0 .. Total
    BY <1>3 DEF Listed
  <2>3. 0 .. Total \subseteq Nat
    OBVIOUS
  <2> QED BY <2>1, <2>2, <2>3, Bounds
<1> QED BY <1>1, <1>2, <1>4 DEF WatchInv, Passing, Seen

\* The first search it goes by is a time.
LEMMA FirstSearchTyped ==
  ASSUME WatchInv, pass # Nil, pass.step # "look", FirstSearch # Nil
  PROVE  FirstSearch \in Times
<1>1. searched[pass.at] \in Times \cup {Nil} /\ pass.row.searched \in Times \cup {Nil}
  BY AtIs DEF WatchInv, WatchTypeOK, WatchRow
<1> QED BY <1>1 DEF FirstSearch

\* A first search it remembers is one that followed the request.
LEMMA FirstSearchIs ==
  ASSUME WatchInv, pass # Nil, pass.step # "look", Seen(pass.at), lidarr[pass.at].done = 0, FirstSearch # Nil
  PROVE  FirstSearch \in Times /\ Searched(pass.at)
<1> DEFINE a == pass.at
           w == pass.row
<1>1. searched[a] \in Times \cup {Nil} /\ w.searched \in Times \cup {Nil}
  BY AtIs DEF WatchInv, WatchTypeOK, WatchRow
<1>2. CASE w.searched # Nil
  <2>1. FirstSearch = w.searched
    BY <1>2 DEF FirstSearch
  <2> QED BY <1>1, <1>2, <2>1, AtIs DEF Chances
<1>3. CASE w.searched = Nil
  <2>1. FirstSearch = searched[a] /\ searched[a] # Nil /\ searched[a] >= w.seen
    BY <1>3 DEF FirstSearch
  <2>2. w.seen >= moved[a]
    BY AtIs DEF Chances
  <2>3. searched[a] \in Nat /\ w.seen \in Nat /\ moved[a] \in Nat
    BY <1>1, <2>1, AtIs, Bounds
  <2>4. searched[a] >= moved[a]
    BY <2>1, <2>2, <2>3
  <2> QED BY <1>1, <2>1, <2>4 DEF Searched
<1> QED BY <1>2, <1>3

\* Missing: a period has passed since the last file and the last request.
LEMMA MissingIs ==
  ASSUME WatchInv, pass # Nil, pass.step # "look", Seen(pass.at), Missing(FirstSearch)
  PROVE  Waited(pass.at)
<1> DEFINE a == pass.at
           w == pass.row
<1>1. CASE lidarr[a].done # 0
  <2>1. TooLong(pass.now, w.progress)
    BY <1>1, AtIs DEF Missing
  <2>2. w.progress >= moved[a]
    BY AtIs DEF Chances
  <2>3. pass.now \in Nat /\ w.progress \in Nat /\ moved[a] \in Nat /\ GiveUp \in Nat
    BY AtIs, Bounds
  <2>4. TooLong(pass.now, moved[a])
    BY <2>1, <2>2, <2>3 DEF TooLong
  <2> QED BY <1>1, <2>4 DEF Waited
<1>2. CASE lidarr[a].done = 0 /\ w.fallback # Nil
  <2>1. TooLong(pass.now, w.fallback)
    BY <1>2, AtIs DEF Missing
  <2>2. w.fallback - moved[a] > GiveUp /\ ("log" \in WatchEnv => Searched(a))
    BY <1>2, AtIs DEF Chances
  <2>3. pass.now \in Nat /\ w.fallback \in Nat /\ moved[a] \in Nat /\ GiveUp \in Nat
    BY <1>2, AtIs, Bounds
  <2>4. TooLong(pass.now, moved[a]) /\ pass.now - moved[a] > 2 * GiveUp
    BY <2>1, <2>2, <2>3 DEF TooLong
  <2> QED BY <2>2, <2>4 DEF Waited
<1>3. CASE lidarr[a].done = 0 /\ w.fallback = Nil
  <2> DEFINE since == IF FirstSearch # Nil /\ FirstSearch > w.progress THEN FirstSearch ELSE w.progress
  <2>1. pass.rows[a].done = 0
    BY <1>3, AtIs
  <2>2. ("log" \in WatchEnv => FirstSearch # Nil) /\ TooLong(pass.now, since)
    BY <1>3, <2>1 DEF Missing
  <2>3. w.progress >= moved[a]
    BY AtIs DEF Chances
  <2>4. pass.now \in Nat /\ w.progress \in Nat /\ moved[a] \in Nat /\ GiveUp \in Nat
    BY AtIs, Bounds
  <2>5. FirstSearch # Nil => FirstSearch \in Nat /\ Searched(a)
    BY <1>3, FirstSearchIs, Bounds
  <2>6. since \in Nat /\ since >= w.progress
    BY <2>4, <2>5
  <2> HIDE DEF since
  <2>7. TooLong(pass.now, moved[a])
    BY <2>2, <2>3, <2>4, <2>6 DEF TooLong
  <2> QED BY <1>3, <2>2, <2>5, <2>7 DEF Waited
<1> QED BY <1>1, <1>2, <1>3

\* A step that leaves the album and its row with the pass.
LEMMA StillAt ==
  ASSUME WatchInv, pass # Nil, pass.step # "look",
         pass' \in Passes, pass'.now = pass.now, pass'.rows = pass.rows, pass'.at = pass.at,
         pass'.row = pass.row, pass'.step # "look",
         UNCHANGED <<clock, lidarr, searched, asking, moved>>,
         \A x \in Albums : /\ watch'[x] = Nil <=> watch[x] = Nil
                           /\ watch[x] # Nil => watch'[x].done = watch[x].done,
         pass'.step = "search" => pass'.why = "missing" /\ pass.rows[pass.at].done = 0,
         pass'.step \in {"search", "quit"} /\ pass'.why = "missing" /\ Seen(pass.at) => Waited(pass.at)
  PROVE  Passing'
<1>1. Chances(pass.at, pass.row) => Chances(pass.at, pass.row)'
  BY DEF Chances, Searched
<1>2. Waited(pass.at) => Waited(pass.at)'
  BY DEF Waited, Searched
<1>3. pass' # Nil
  BY Bounds
<1>4. pass.at \in Albums /\ (Seen(pass.at)' <=> Seen(pass.at))
  BY AtIs DEF Seen
<1> QED BY <1>1, <1>2, <1>3, <1>4, AtIs DEF WatchInv, Passing

LEMMA JudgeKeeps ==
  ASSUME WatchInv, Judge
  PROVE  WatchInv'
<1> DEFINE a == pass.at
           w == pass.row
           none == pass.rows[a].done = 0
<1>1. /\ UNCHANGED <<clock, lidarr, searched, asking, wishes, moved>>
      /\ pass # Nil /\ pass.step # "look" /\ pass \in Passes /\ a \in Albums
  BY AtIs DEF Judge
<1>2. CASE /\ pass' = [pass EXCEPT !.step = "quit", !.why = "other"] /\ UNCHANGED watch
  <2>1. pass' \in Passes /\ pass'.now = pass.now /\ pass'.rows = pass.rows /\ pass'.at = a
          /\ pass'.row = w /\ pass'.step = "quit" /\ pass'.why = "other"
    BY <1>1, <1>2 DEF Passes
  <2>2. Passing'
    BY <1>1, <1>2, <2>1, StillAt
  <2>3. WatchRows'
    BY <1>1, <1>2 DEF WatchInv, WatchRows, Chances, Searched
  <2> QED BY <1>1, <1>2, <2>1, <2>2, <2>3 DEF WatchInv, WatchTypeOK
<1>3. CASE /\ watch' = IF none /\ FirstSearch # Nil /\ watch[a] # Nil
                        THEN [watch EXCEPT ![a].searched = FirstSearch] ELSE watch
           /\ pass' = IF ~Missing(FirstSearch) THEN NextAlbum
                       ELSE [pass EXCEPT !.why = "missing",
                               !.step = IF none /\ w.fallback = Nil /\ "fallback" \in WatchEnv
                                        THEN "search" ELSE "quit"]
  <2>1. /\ WatchRows' /\ watch' \in [Albums -> WatchRow \cup {Nil}]
        /\ \A x \in Albums : /\ watch'[x] = Nil <=> watch[x] = Nil
                             /\ watch[x] # Nil => watch'[x].done = watch[x].done
    <3>1. CASE none /\ FirstSearch # Nil /\ watch[a] # Nil
      <4> DEFINE n == [watch[a] EXCEPT !.searched = FirstSearch]
      <4>1. FirstSearch \in Times
        BY <1>1, FirstSearchTyped, <3>1
      <4>2. lidarr[a].done = 0 => Searched(a)
        BY <1>1, <3>1, FirstSearchIs DEF Seen
      <4>3. watch[a] \in WatchRow /\ Chances(a, watch[a])
        BY <1>1, <3>1 DEF WatchInv, WatchTypeOK, WatchRows
      <4>4. n \in WatchRow /\ n.done = watch[a].done /\ n.progress = watch[a].progress
              /\ n.seen = watch[a].seen /\ n.fallback = watch[a].fallback
        BY <4>1, <4>3 DEF WatchRow
      <4>5. watch' = [watch EXCEPT ![a] = n]
        BY <1>1, <1>3, <3>1
      <4> HIDE DEF n
      <4>6. Chances(a, n)
        BY <4>2, <4>3, <4>4 DEF Chances
      <4>7. WatchRows'
        BY <1>1, <4>5, <4>6, RowsPut
      <4>8. n # Nil
        BY <4>4, Bounds
      <4> QED BY <1>1, <3>1, <4>4, <4>5, <4>7, <4>8 DEF WatchInv, WatchTypeOK
    <3>2. CASE ~(none /\ FirstSearch # Nil /\ watch[a] # Nil)
      <4>1. UNCHANGED watch
        BY <1>3, <3>2
      <4> QED BY <1>1, <4>1 DEF WatchInv, WatchTypeOK, WatchRows, Chances, Searched
    <3> QED BY <3>1, <3>2
  <2>2. Passing' /\ pass' \in Passes
    <3>1. CASE ~Missing(FirstSearch)
      <4>1. \A x \in Albums : watch'[x] # Nil => watch'[x].done <= pass.rows[x].done
        BY <1>1, <2>1 DEF WatchInv, Passing
      <4> QED BY <1>1, <1>3, <3>1, <4>1, NextPasses
    <3>2. CASE Missing(FirstSearch)
      <4> DEFINE st == IF none /\ w.fallback = Nil /\ "fallback" \in WatchEnv
                       THEN "search" ELSE "quit"
      <4>1. pass' = [pass EXCEPT !.why = "missing", !.step = st] /\ st \in {"search", "quit"} /\ (st = "search" => none)
        BY <1>3, <3>2
      <4> HIDE DEF st
      <4>2. pass' \in Passes /\ pass'.now = pass.now /\ pass'.rows = pass.rows /\ pass'.at = a
              /\ pass'.row = w /\ pass'.step # "look" /\ pass'.why = "missing" /\ pass'.step = st
        BY <1>1, <4>1 DEF Passes
      <4>3. Seen(a) => Waited(a)
        BY <1>1, <3>2, MissingIs
      <4> QED BY <1>1, <2>1, <4>1, <4>2, <4>3, StillAt
    <3> QED BY <3>1, <3>2
  <2> QED BY <1>1, <2>1, <2>2 DEF WatchInv, WatchTypeOK
<1> QED BY <1>2, <1>3 DEF Judge

LEMMA IndexersKeep ==
  ASSUME WatchInv, Indexers
  PROVE  WatchInv'
<1> DEFINE a == pass.at
<1>1. /\ UNCHANGED <<clock, lidarr, searched, asking, wishes, moved>>
      /\ pass # Nil /\ pass.step = "search" /\ pass \in Passes /\ a \in Albums
      /\ pass.now \in Times
  BY AtIs DEF Indexers, Passes
<1>2. pass.why = "missing" /\ pass.rows[a].done = 0 /\ (Seen(a) => Waited(a))
  BY <1>1 DEF WatchInv, Passing
<1>3. CASE /\ watch' = IF watch[a] = Nil THEN watch ELSE [watch EXCEPT ![a].fallback = pass.now]
           /\ pass' = NextAlbum
  <2>1. /\ WatchRows' /\ watch' \in [Albums -> WatchRow \cup {Nil}]
        /\ \A x \in Albums : /\ watch'[x] # Nil => watch[x] # Nil
                             /\ watch[x] # Nil => watch'[x].done = watch[x].done
    <3>1. CASE watch[a] # Nil
      <4> DEFINE n == [watch[a] EXCEPT !.fallback = pass.now]
      <4>1. watch[a] \in WatchRow /\ Chances(a, watch[a])
        BY <1>1, <3>1 DEF WatchInv, WatchTypeOK, WatchRows
      <4>2. n \in WatchRow /\ n.done = watch[a].done /\ n.progress = watch[a].progress
              /\ n.seen = watch[a].seen /\ n.searched = watch[a].searched /\ n.fallback = pass.now
        BY <1>1, <4>1 DEF WatchRow
      <4>3. watch' = [watch EXCEPT ![a] = n]
        BY <1>1, <1>3, <3>1
      <4> HIDE DEF n
      <4>4. Chances(a, n)
        BY <1>2, <3>1, <4>1, <4>2 DEF Chances, Waited, TooLong, Seen
      <4>5. WatchRows'
        BY <1>1, <4>3, <4>4, RowsPut
      <4> QED BY <3>1, <4>2, <4>3, <4>5 DEF WatchInv, WatchTypeOK
    <3>2. CASE watch[a] = Nil
      BY <1>1, <1>3, <3>2 DEF WatchInv, WatchTypeOK, WatchRows, Chances, Searched
    <3> QED BY <3>1, <3>2
  <2>2. \A x \in Albums : watch'[x] # Nil => watch'[x].done <= pass.rows[x].done
    BY <1>1, <2>1 DEF WatchInv, Passing
  <2>3. Passing' /\ pass' \in Passes
    BY <1>1, <1>3, <2>2, NextPasses
  <2> QED BY <1>1, <2>1, <2>3 DEF WatchInv, WatchTypeOK
<1>4. CASE pass' = [pass EXCEPT !.step = "quit"] /\ UNCHANGED watch
  <2>1. pass' \in Passes /\ pass'.now = pass.now /\ pass'.rows = pass.rows /\ pass'.at = a
          /\ pass'.row = pass.row /\ pass'.step = "quit"
    BY <1>1, <1>4 DEF Passes
  <2>2. Passing'
    BY <1>1, <1>2, <1>4, <2>1, StillAt
  <2>3. WatchRows'
    BY <1>1, <1>4 DEF WatchInv, WatchRows, Chances, Searched
  <2> QED BY <1>1, <1>4, <2>1, <2>2, <2>3 DEF WatchInv, WatchTypeOK
<1> QED BY <1>3, <1>4 DEF Indexers

LEMMA UnmonitorKeeps ==
  ASSUME WatchInv, Unmonitor
  PROVE  WatchInv'
<1> DEFINE a == pass.at
<1>1. /\ UNCHANGED <<clock, searched, asking, wishes, moved>>
      /\ pass # Nil /\ pass \in Passes /\ a \in Albums
  BY AtIs DEF Unmonitor
<1>2. lidarr' \in [Albums -> Listed] /\ \A x \in Albums : lidarr'[x].done = lidarr[x].done
  <2>1. CASE lidarr' = [lidarr EXCEPT ![a].wanted = FALSE]
    <3>1. lidarr[a] \in Listed
      BY <1>1 DEF WatchInv, WatchTypeOK
    <3>2. [lidarr[a] EXCEPT !.wanted = FALSE] \in Listed
            /\ [lidarr[a] EXCEPT !.wanted = FALSE].done = lidarr[a].done
      BY <3>1 DEF Listed
    <3>3. lidarr' = [lidarr EXCEPT ![a] = [lidarr[a] EXCEPT !.wanted = FALSE]]
      BY <2>1
    <3> QED BY <1>1, <3>2, <3>3 DEF WatchInv, WatchTypeOK
  <2>2. CASE UNCHANGED lidarr
    BY <2>2 DEF WatchInv, WatchTypeOK
  <2> QED BY <2>1, <2>2 DEF Unmonitor
<1>3. /\ WatchRows' /\ watch' \in [Albums -> WatchRow \cup {Nil}]
      /\ \A x \in Albums : /\ watch'[x] # Nil => watch[x] # Nil
                           /\ watch[x] # Nil => watch'[x].done = watch[x].done
  <2>1. CASE watch[a] # Nil /\ watch' = [watch EXCEPT ![a].gaveUp = TRUE]
    <3> DEFINE n == [watch[a] EXCEPT !.gaveUp = TRUE]
    <3>1. watch[a] \in WatchRow
      BY <1>1, <2>1 DEF WatchInv, WatchTypeOK
    <3>2. n \in WatchRow /\ n.done = watch[a].done /\ n.progress = watch[a].progress
            /\ n.seen = watch[a].seen /\ n.searched = watch[a].searched /\ n.fallback = watch[a].fallback
      BY <3>1 DEF WatchRow
    <3>3. watch' = [watch EXCEPT ![a] = n]
      BY <1>1, <2>1
    <3> HIDE DEF n
    <3>4. \A x \in Albums : watch'[x] = IF x = a THEN n ELSE watch[x]
      BY <3>3 DEF WatchInv, WatchTypeOK
    <3>5. WatchRows'
      BY <1>1, <1>2, <2>1, <3>2, <3>4 DEF WatchInv, WatchRows, Chances, Searched
    <3> QED BY <2>1, <3>2, <3>3, <3>4, <3>5 DEF WatchInv, WatchTypeOK
  <2>2. CASE UNCHANGED watch
    BY <1>1, <1>2, <2>2 DEF WatchInv, WatchTypeOK, WatchRows, Chances, Searched
  <2> QED BY <2>1, <2>2 DEF Unmonitor
<1>4. Passing' /\ pass' \in Passes \cup {Nil}
  <2>1. CASE pass' = NextAlbum
    <3>1. \A x \in Albums : watch'[x] # Nil => watch'[x].done <= pass.rows[x].done
      BY <1>1, <1>3 DEF WatchInv, Passing
    <3> QED BY <1>1, <1>2, <2>1, <3>1, NextPasses
  <2>2. CASE pass' = Nil
    BY <2>2 DEF Passing
  <2> QED BY <2>1, <2>2 DEF Unmonitor
<1> QED BY <1>1, <1>2, <1>3, <1>4 DEF WatchInv, WatchTypeOK

LEMMA FinishKeeps ==
  ASSUME WatchInv, Finish
  PROVE  WatchInv'
<1>1. UNCHANGED <<clock, lidarr, searched, asking, wishes, moved>> /\ pass' = Nil
  BY DEF Finish
<1>2. watch' \in [Albums -> WatchRow \cup {Nil}] /\ \A x \in Albums : watch'[x] \in {watch[x], Nil}
  BY DEF WatchInv, WatchTypeOK, Finish
<1>3. WatchRows'
  BY <1>1, <1>2 DEF WatchInv, WatchRows, Chances, Searched
<1> QED BY <1>1, <1>2, <1>3 DEF WatchInv, WatchTypeOK, Passing

LEMMA RestartedKeeps ==
  ASSUME WatchInv, Restarted
  PROVE  WatchInv'
<1>1. UNCHANGED <<clock, lidarr, searched, watch, wishes, moved>> /\ pass' = Nil /\ asking' = {}
  BY DEF Restarted
<1> QED BY <1>1 DEF WatchInv, WatchTypeOK, WatchRows, Chances, Searched, Passing

\* Initially, and step by step.
LEMMA WatchKept ==
  /\ WatchInit => WatchInv
  /\ WatchInv /\ [WatchNext]_watchVars => WatchInv'
<1>1. WatchInit => WatchInv
  <2> SUFFICES ASSUME WatchInit PROVE WatchInv
    OBVIOUS
  <2>1. 0 \in Times /\ 0 \in 0 .. MaxWishes /\ [wanted |-> FALSE, done |-> 0, own |-> FALSE] \in Listed
    BY Bounds, WatchAssumption DEF Times, Listed
  <2>2. WatchTypeOK
    BY <2>1 DEF WatchInit, WatchTypeOK
  <2> QED BY <2>2 DEF WatchInit, WatchInv, WatchRows, Passing
<1>2. ASSUME WatchInv, [WatchNext]_watchVars PROVE WatchInv'
  <2>1. CASE WatchNext
    BY <1>2, <2>1, StartPassKeeps, JudgeKeeps, IndexersKeep, UnmonitorKeeps, FinishKeeps,
       RestartedKeeps, ClockTickKeeps, RequestKeeps, RecordedKeeps, ChoreKeeps, LandKeeps,
       OwnKeeps, SearchKeeps, LookKeeps DEF WatchNext
  <2>2. CASE UNCHANGED watchVars
    BY <1>2, <2>2 DEF WatchInv, watchVars, WatchTypeOK, WatchRows, Chances, Searched, Passing, Waited, Seen
  <2> QED BY <1>2, <2>1, <2>2
<1> QED BY <1>1, <1>2

\* Nothing else takes an album off the list, and it is taken off only waited for.
LEMMA ChanceHolds ==
  ASSUME WatchInv, WatchNext
  PROVE  Chance
<1> SUFFICES ASSUME NEW a \in Albums, lidarr[a].wanted, ~lidarr'[a].wanted, pass.why = "missing",
                    Seen(a)
             PROVE  /\ TooLong(clock, moved[a])
                    /\ lidarr[a].done = 0 =>
                         /\ "log" \in WatchEnv => searched[a] # Nil /\ searched[a] >= moved[a]
                         /\ pass.row.fallback # Nil => clock - moved[a] > 2 * GiveUp
  BY DEF Chance
<1>1. lidarr \in [Albums -> Listed]
  BY DEF WatchInv, WatchTypeOK
<1>2. lidarr' # lidarr
  OBVIOUS
<1>3. ASSUME NEW x \in Albums PROVE ~Request(x) /\ ~Chore(x) /\ ~Land(x) /\ ~Own(x)
  BY <1>1, <1>3 DEF Request, Chore, Land, Own, Listed
<1>4. Unmonitor
  BY <1>2, <1>3 DEF WatchNext, StartPass, Judge, Indexers, Finish, Restarted, ClockTick,
     Recorded, Search, Look
<1>5. a = pass.at /\ pass # Nil /\ pass.step = "quit"
  BY <1>1, <1>4 DEF Unmonitor
<1>6. Waited(a)
  BY <1>5 DEF WatchInv, Passing
<1>7. pass.now \in Nat /\ clock \in Nat /\ pass.now <= clock /\ moved[a] \in Nat /\ GiveUp \in Nat
  BY <1>5, AtIs, Bounds
<1>8. \A n \in Nat : pass.now - moved[a] > n => clock - moved[a] > n
  BY <1>7
<1>9. TooLong(clock, moved[a])
  BY <1>6, <1>7, <1>8 DEF Waited, TooLong
<1>10. 2 * GiveUp \in Nat
  BY <1>7
<1> QED BY <1>6, <1>8, <1>9, <1>10 DEF Waited, Searched

\* The pass's rows, what it read and where it is stay in their ranges, through
\* crashes and unanswered calls.
THEOREM WatchTyped == WatchSpec => []WatchTypeOK
<1>1. WatchInit => WatchInv
  BY WatchKept
<1>2. WatchInv /\ [WatchNext]_watchVars => WatchInv'
  BY WatchKept
<1>3. WatchInv => WatchTypeOK
  BY DEF WatchInv
<1> QED BY <1>1, <1>2, <1>3, PTL DEF WatchSpec

\* "Asked for again: whatever the watcher concluded before starts over"
\* (downloads.ts): whatever is asked, arrives, is searched for, fails or is cut
\* short, an album is taken off the list for want of files only after a whole
\* period since its last request and its last file, unless one of these comes
\* after the pass has read it.
THEOREM NoneGivenUpEarly == WatchSpec => GivenAChance
<1>1. WatchInit => WatchInv
  BY WatchKept
<1>2. WatchInv /\ [WatchNext]_watchVars => WatchInv'
  BY WatchKept
<1>3. WatchInv /\ [WatchNext]_watchVars => [Chance]_watchVars
  BY ChanceHolds
<1> QED BY <1>1, <1>2, <1>3, PTL DEF WatchSpec, GivenAChance
=============================================================================
