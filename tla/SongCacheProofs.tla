--------------------------- MODULE SongCacheProofs ---------------------------
(* Proofs about SongCache for any songs, caps and requests.                  *)
EXTENDS SongCache, FiniteSetTheorems, SequenceTheorems, TLAPS

\* No song twice.
Distinct(q) == \A i, j \in DOMAIN q : q[i] = q[j] => i = j

LEMMA SeqIs ==
  ASSUME NEW q \in Seq(Tracks)
  PROVE  /\ Len(q) \in Nat /\ DOMAIN q = 1 .. Len(q)
         /\ \A i \in 1 .. Len(q) : q[i] \in Tracks
  OBVIOUS

LEMMA Adjacent == \A m, k \in Nat : k <= m => k + 1 <= m \/ m - k = 0
  OBVIOUS

\* A song that joins a queue.
LEMMA AppendIs ==
  ASSUME NEW q \in Seq(Tracks), Distinct(q), NEW s \in Tracks, s \notin ToSet(q)
  PROVE  /\ Append(q, s) \in Seq(Tracks) /\ Distinct(Append(q, s))
         /\ ToSet(Append(q, s)) = ToSet(q) \cup {s}
<1> DEFINE r == Append(q, s)
<1>1. /\ r \in Seq(Tracks) /\ DOMAIN r = 1 .. Len(q) + 1 /\ r[Len(q) + 1] = s
      /\ \A i \in 1 .. Len(q) : r[i] = q[i]
  OBVIOUS
<1>2. Len(q) \in Nat /\ DOMAIN q = 1 .. Len(q)
  BY SeqIs
<1>3. \A i \in 1 .. Len(q) : q[i] # s /\ i \in 1 .. Len(q) + 1
  BY <1>2 DEF ToSet
<1>4. \A i \in 1 .. Len(q) + 1 : i \in 1 .. Len(q) \/ i = Len(q) + 1
  BY <1>2
<1>5. Len(q) + 1 \in 1 .. Len(q) + 1
  BY <1>2
<1> HIDE DEF r
<1>6. Distinct(r)
  BY <1>1, <1>2, <1>3, <1>4 DEF Distinct
<1>7. ToSet(r) = ToSet(q) \cup {s}
  BY <1>1, <1>2, <1>3, <1>4, <1>5 DEF ToSet
<1> QED BY <1>1, <1>6, <1>7 DEF r

\* The first songs of a queue, and what is left.
LEMMA SplitIs ==
  ASSUME NEW q \in Seq(Tracks), Distinct(q), NEW n \in 0 .. Len(q)
  PROVE  /\ SubSeq(q, n + 1, Len(q)) \in Seq(Tracks) /\ Distinct(SubSeq(q, n + 1, Len(q)))
         /\ {q[i] : i \in 1 .. n} \cup ToSet(SubSeq(q, n + 1, Len(q))) = ToSet(q)
         /\ {q[i] : i \in 1 .. n} \cap ToSet(SubSeq(q, n + 1, Len(q))) = {}
<1> DEFINE b == SubSeq(q, n + 1, Len(q))
           a == {q[i] : i \in 1 .. n}
<1>1. Len(q) \in Nat /\ DOMAIN q = 1 .. Len(q) /\ n \in Nat /\ n <= Len(q)
  BY SeqIs
<1>2. /\ b \in Seq(Tracks) /\ DOMAIN b = 1 .. Len(q) - n
      /\ \A i \in 1 .. Len(q) - n : b[i] = q[i + n]
  <2>1. n + 1 \in Int /\ Len(q) \in Int /\ \A i \in n + 1 .. Len(q) : i \in 1 .. Len(q)
    BY <1>1
  <2>2. \A i \in n + 1 .. Len(q) : q[i] \in Tracks
    BY <2>1
  <2>3. /\ b \in Seq(Tracks)
        /\ Len(b) = IF n + 1 <= Len(q) THEN Len(q) - (n + 1) + 1 ELSE 0
        /\ \A i \in 1 .. Len(q) - (n + 1) + 1 : b[i] = q[(n + 1) + i - 1]
    BY <2>1, <2>2, SubSeqProperties
  <2> HIDE DEF b
  <2>4. Len(q) - (n + 1) + 1 = Len(q) - n /\ \A i \in 1 .. Len(q) - n : (n + 1) + i - 1 = i + n
    BY <1>1
  <2>5. Len(b) = Len(q) - n
    <3>1. n + 1 <= Len(q) \/ Len(q) - n = 0
      BY <1>1, Adjacent
    <3>2. n + 1 <= Len(q) => Len(b) = Len(q) - n
      BY <2>3, <2>4
    <3>3. ~(n + 1 <= Len(q)) => Len(b) = 0
      BY <2>3
    <3> QED BY <3>1, <3>2, <3>3
  <2> QED BY <1>1, <2>3, <2>4, <2>5, SeqIs
<1> HIDE DEF b
<1>3. \A i \in 1 .. Len(q) - n : i + n \in 1 .. Len(q) /\ i + n \notin 1 .. n
  BY <1>1
<1>4. \A i \in 1 .. Len(q) : i \in 1 .. n \/ (i - n \in 1 .. Len(q) - n /\ (i - n) + n = i)
  BY <1>1
<1>5. \A i \in 1 .. n : i \in 1 .. Len(q)
  BY <1>1
<1>6. Distinct(b)
  <2> SUFFICES ASSUME NEW i \in 1 .. Len(q) - n, NEW j \in 1 .. Len(q) - n, b[i] = b[j]
               PROVE  i = j
    BY <1>2 DEF Distinct
  <2>1. i + n = j + n
    BY <1>1, <1>2, <1>3 DEF Distinct
  <2> QED BY <1>1, <2>1
<1>7. \A x \in ToSet(b) : x \in ToSet(q) /\ x \notin a
  <2> SUFFICES ASSUME NEW i \in 1 .. Len(q) - n PROVE b[i] \in ToSet(q) /\ b[i] \notin a
    BY <1>2 DEF ToSet
  <2>1. b[i] = q[i + n] /\ i + n \in DOMAIN q /\ i + n \notin 1 .. n
    BY <1>1, <1>2, <1>3
  <2>2. \A j \in 1 .. n : j \in DOMAIN q /\ q[j] # q[i + n]
    BY <1>1, <1>5, <2>1 DEF Distinct
  <2> QED BY <2>1, <2>2 DEF ToSet
<1>8. \A x \in ToSet(q) : x \in a \/ x \in ToSet(b)
  <2> SUFFICES ASSUME NEW i \in 1 .. Len(q), i \notin 1 .. n PROVE q[i] \in ToSet(b)
    BY <1>1 DEF ToSet
  <2>1. b[i - n] = q[i] /\ i - n \in DOMAIN b
    BY <1>2, <1>4
  <2> QED BY <2>1 DEF ToSet
<1>9. a \subseteq ToSet(q)
  BY <1>1, <1>5 DEF ToSet
<1> QED BY <1>2, <1>6, <1>7, <1>8, <1>9 DEF b

\* A row that goes.
LEMMA RowsButIs ==
  ASSUME NEW q \in Seq(Tracks), Distinct(q), NEW s
  PROVE  /\ RowsBut(q, s) \in Seq(Tracks) /\ Distinct(RowsBut(q, s))
         /\ ToSet(RowsBut(q, s)) = ToSet(q) \ {s}
<1>1. CASE ~\E i \in DOMAIN q : q[i] = s
  <2>1. RowsBut(q, s) = q
    BY <1>1 DEF RowsBut
  <2>2. s \notin ToSet(q)
    BY <1>1 DEF ToSet
  <2> QED BY <2>1, <2>2
<1>2. CASE \E i \in DOMAIN q : q[i] = s
  <2> DEFINE n == CHOOSE i \in DOMAIN q : q[i] = s
             r == RemoveAt(q, n)
             a == SubSeq(q, 1, n - 1)
             b == SubSeq(q, n + 1, Len(q))
  <2>1. n \in DOMAIN q /\ q[n] = s /\ RowsBut(q, s) = r
    BY <1>2 DEF RowsBut
  <2> HIDE DEF n
  <2>2. Len(q) \in Nat /\ DOMAIN q = 1 .. Len(q) /\ n \in 1 .. Len(q)
    BY <2>1, SeqIs
  <2>3. /\ a \in Seq(Tracks) /\ Len(a) = n - 1 /\ \A i \in 1 .. n - 1 : a[i] = q[i]
    <3>1. n - 1 \in Int /\ \A i \in 1 .. n - 1 : i \in 1 .. Len(q)
      BY <2>2
    <3>2. \A i \in 1 .. n - 1 : q[i] \in Tracks
      BY <3>1
    <3>3. /\ a \in Seq(Tracks)
          /\ Len(a) = IF 1 <= n - 1 THEN n - 1 - 1 + 1 ELSE 0
          /\ \A i \in 1 .. n - 1 - 1 + 1 : a[i] = q[1 + i - 1]
      BY <3>1, <3>2, SubSeqProperties
    <3> HIDE DEF a
    <3>4. n - 1 - 1 + 1 = n - 1 /\ \A i \in 1 .. n - 1 : 1 + i - 1 = i
      BY <2>2
    <3> QED BY <2>2, <3>3, <3>4
  <2>4. b \in Seq(Tracks) /\ Len(b) = Len(q) - n /\ \A i \in 1 .. Len(q) - n : b[i] = q[i + n]
    <3>1. n + 1 \in Int /\ Len(q) \in Int /\ \A i \in n + 1 .. Len(q) : i \in 1 .. Len(q)
      BY <2>2
    <3>2. \A i \in n + 1 .. Len(q) : q[i] \in Tracks
      BY <3>1
    <3>3. /\ b \in Seq(Tracks)
          /\ Len(b) = IF n + 1 <= Len(q) THEN Len(q) - (n + 1) + 1 ELSE 0
          /\ \A i \in 1 .. Len(q) - (n + 1) + 1 : b[i] = q[(n + 1) + i - 1]
      BY <3>1, <3>2, SubSeqProperties
    <3> HIDE DEF b
    <3>4. Len(q) - (n + 1) + 1 = Len(q) - n /\ \A i \in 1 .. Len(q) - n : (n + 1) + i - 1 = i + n
      BY <2>2
    <3>5. n + 1 <= Len(q) \/ Len(q) - n = 0
      <4>1. n \in Nat /\ n <= Len(q)
        BY <2>2
      <4> QED BY <2>2, <4>1, Adjacent
    <3>6. n + 1 <= Len(q) => Len(b) = Len(q) - n
      BY <3>3, <3>4
    <3>7. ~(n + 1 <= Len(q)) => Len(b) = 0
      BY <3>3
    <3>8. Len(b) = Len(q) - n
      BY <3>5, <3>6, <3>7
    <3> QED BY <3>3, <3>4, <3>8
  <2>5. r = a \o b
    BY DEF RemoveAt
  <2> HIDE DEF a, b, r
  <2>6. /\ r \in Seq(Tracks) /\ DOMAIN r = 1 .. Len(q) - 1
        /\ \A i \in 1 .. Len(q) - 1 : r[i] = IF i <= n - 1 THEN a[i] ELSE b[i - (n - 1)]
    <3>1. /\ r \in Seq(Tracks) /\ Len(r) = Len(a) + Len(b)
          /\ \A i \in 1 .. Len(a) + Len(b) : r[i] = IF i <= Len(a) THEN a[i] ELSE b[i - Len(a)]
      BY <2>3, <2>4, <2>5, ConcatProperties
    <3>2. Len(a) = n - 1 /\ Len(a) + Len(b) = Len(q) - 1
      BY <2>2, <2>3, <2>4
    <3> QED BY <3>1, <3>2, SeqIs
  <2> DEFINE at(i) == IF i <= n - 1 THEN i ELSE i + 1
  <2>7. \A i \in 1 .. Len(q) - 1 : at(i) \in 1 .. Len(q) /\ at(i) # n /\ r[i] = q[at(i)]
    <3> SUFFICES ASSUME NEW i \in 1 .. Len(q) - 1
                 PROVE  at(i) \in 1 .. Len(q) /\ at(i) # n /\ r[i] = q[at(i)]
      OBVIOUS
    <3>1. CASE i <= n - 1
      <4>1. at(i) = i /\ i \in 1 .. n - 1 /\ i \in 1 .. Len(q) /\ i # n
        BY <2>2, <3>1
      <4> QED BY <2>3, <2>6, <3>1, <4>1
    <3>2. CASE ~(i <= n - 1)
      <4>1. at(i) = i + 1 /\ i - (n - 1) \in 1 .. Len(q) - n /\ (i - (n - 1)) + n = i + 1
              /\ i + 1 \in 1 .. Len(q) /\ i + 1 # n
        BY <2>2, <3>2
      <4> QED BY <2>4, <2>6, <3>2, <4>1
    <3> QED BY <3>1, <3>2
  <2>8. \A i, j \in 1 .. Len(q) - 1 : at(i) = at(j) => i = j
    BY <2>2
  <2>9. \A j \in 1 .. Len(q) : j # n => \E i \in 1 .. Len(q) - 1 : at(i) = j
    <3> SUFFICES ASSUME NEW j \in 1 .. Len(q), j # n
                 PROVE  \E i \in 1 .. Len(q) - 1 : at(i) = j
      OBVIOUS
    <3>1. CASE j < n
      <4>1. j \in 1 .. Len(q) - 1 /\ at(j) = j
        BY <2>2, <3>1
      <4> QED BY <4>1
    <3>2. CASE j > n
      <4>1. j - 1 \in 1 .. Len(q) - 1 /\ at(j - 1) = j
        BY <2>2, <3>2
      <4> QED BY <4>1
    <3> QED BY <2>2, <3>1, <3>2
  <2> HIDE DEF at
  <2>10. Distinct(r)
    <3> SUFFICES ASSUME NEW i \in DOMAIN r, NEW j \in DOMAIN r, r[i] = r[j] PROVE i = j
      BY DEF Distinct
    <3>1. i \in 1 .. Len(q) - 1 /\ j \in 1 .. Len(q) - 1
      BY <2>6
    <3>2. q[at(i)] = q[at(j)] /\ at(i) \in DOMAIN q /\ at(j) \in DOMAIN q
      BY <2>2, <2>6, <2>7, <3>1
    <3>3. at(i) = at(j)
      BY <3>2 DEF Distinct
    <3> QED BY <2>8, <3>1, <3>3
  <2>11. \A i \in 1 .. Len(q) - 1 : r[i] \in ToSet(q) \ {s}
    BY <2>1, <2>2, <2>7 DEF ToSet, Distinct
  <2>12. \A j \in 1 .. Len(q) : q[j] # s => \E i \in 1 .. Len(q) - 1 : r[i] = q[j]
    BY <2>1, <2>7, <2>9
  <2>13. ToSet(r) = ToSet(q) \ {s}
    <3>1. ToSet(r) = {r[i] : i \in 1 .. Len(q) - 1} /\ ToSet(q) = {q[i] : i \in 1 .. Len(q)}
      BY <2>2, <2>6 DEF ToSet
    <3>2. ToSet(r) \subseteq ToSet(q) \ {s}
      BY <2>11, <3>1
    <3>3. ToSet(q) \ {s} \subseteq ToSet(r)
      BY <2>12, <3>1
    <3> QED BY <3>2, <3>3
  <2> QED BY <2>1, <2>6, <2>10, <2>13
<1> QED BY <1>1, <1>2

\* The songs with a fetch of their own, by its stages.
Fetching(f) == {s \in Tracks : f[s] # "none"}

\* pump gives the first in the queue a slot, as many as there are.
LEMMA PumpedIs ==
  ASSUME NEW q \in Seq(Tracks), NEW f \in [Tracks -> Stages], Distinct(q),
         \A s \in ToSet(q) : f[s] = "none", Cardinality(Fetching(f)) <= Parallel, Pumped(q, f)
  PROVE  \E N \in SUBSET Tracks :
           /\ waiting' \in Seq(Tracks) /\ Distinct(waiting')
           /\ N \cup ToSet(waiting') = ToSet(q) /\ N \cap ToSet(waiting') = {}
           /\ fetch' = [s \in Tracks |-> IF s \in N THEN "copy" ELSE f[s]]
           /\ tmp' = [s \in Tracks |-> IF s \in N THEN "part" ELSE tmp[s]]
           /\ Cardinality(Fetching(fetch')) <= Parallel
<1> DEFINE free == Parallel - Cardinality(Fetching(f))
           n == IF Len(q) < free THEN Len(q) ELSE free
           N == {q[i] : i \in 1 .. n}
<1>1. /\ waiting' = SubSeq(q, n + 1, Len(q))
      /\ fetch' = [s \in Tracks |-> IF s \in N THEN "copy" ELSE f[s]]
      /\ tmp' = [s \in Tracks |-> IF s \in N THEN "part" ELSE tmp[s]]
  BY DEF Pumped, Fetching
<1>2. IsFiniteSet(Fetching(f)) /\ Cardinality(Fetching(f)) \in Nat
  BY CacheAssumption, FS_Subset, FS_CardinalityType DEF Fetching
<1>3. free \in Nat /\ Len(q) \in Nat
  BY <1>2, CacheAssumption
<1>4. n \in 0 .. Len(q) /\ n <= free /\ n \in Nat
  BY <1>3
<1> HIDE DEF n
<1>5. /\ waiting' \in Seq(Tracks) /\ Distinct(waiting')
      /\ N \cup ToSet(waiting') = ToSet(q) /\ N \cap ToSet(waiting') = {}
  BY <1>1, <1>4, SplitIs
<1>6. DOMAIN q = 1 .. Len(q) /\ \A i \in 1 .. n : i \in 1 .. Len(q) /\ q[i] \in Tracks
  BY <1>3, <1>4, SeqIs
<1>7. IsFiniteSet(N) /\ Cardinality(N) <= n
  <2> DEFINE g == [i \in 1 .. n |-> q[i]]
  <2>1. g \in Surjection(1 .. n, N)
    BY DEF Surjection
  <2>2. IsFiniteSet(1 .. n) /\ Cardinality(1 .. n) = n
    <3>1. 1 \in Int /\ n \in Int
      BY <1>4
    <3>2. IsFiniteSet(1 .. n) /\ Cardinality(1 .. n) = IF 1 > n THEN 0 ELSE n - 1 + 1
      BY <3>1, FS_Interval
    <3>3. CASE 1 > n
      <4>1. n = 0
        BY <1>4, <3>3
      <4> QED BY <3>2, <3>3, <4>1
    <3>4. CASE ~(1 > n)
      <4>1. n - 1 + 1 = n
        BY <1>4
      <4> QED BY <3>2, <3>4, <4>1
    <3> QED BY <3>3, <3>4
  <2> HIDE DEF g, N
  <2> QED BY <2>1, <2>2, FS_Surjection
<1>8. N \in SUBSET Tracks
  BY <1>6
<1> HIDE DEF N
<1>9. Fetching(fetch') = Fetching(f) \cup N
  BY <1>1, <1>8 DEF Fetching
<1>10. Cardinality(Fetching(fetch')) <= Parallel
  <2>1. Cardinality(Fetching(fetch')) =
          Cardinality(Fetching(f)) + Cardinality(N) - Cardinality(Fetching(f) \cap N)
    BY <1>2, <1>7, <1>9, FS_Union
  <2>2. IsFiniteSet(Fetching(f) \cap N)
    BY <1>2, FS_Intersection
  <2>3. Cardinality(Fetching(f) \cap N) \in Nat /\ Cardinality(N) \in Nat
    BY <1>7, <2>2, FS_CardinalityType
  <2> HIDE DEF Fetching
  <2>4. Cardinality(N) <= free
    BY <1>3, <1>4, <1>7, <2>3
  <2> QED BY <1>2, <2>1, <2>3, <2>4, CacheAssumption
<1> QED BY <1>1, <1>5, <1>8, <1>10

-----------------------------------------------------------------------------

\* The queue: who waits has no fetch yet, and waits once.
Queued == Distinct(waiting) /\ \A s \in ToSet(waiting) : fetch[s] = "none"

\* What a copy left is the whole song, unless it was swept away.
CopiedWhole == \A s \in Tracks : fetch[s] = "copied" => tmp[s] \in {"none", "whole"}

\* A file under a final name has its row, or is about to get it.
HasRow == \A s \in file : s \in Rows \/ fetch[s] = "renamed"

\* An eviction is at one song at most, and once the file of that is removed
\* it stays away until its row is deleted.
Evicting ==
  /\ \E T : evict \in [Tracks -> [left : Seq(Tracks), total : T, at : SUBSET Tracks, removed : BOOLEAN]]
  /\ \A x \in Tracks : \A c, d \in evict[x].at : c = d
  /\ \A x \in Tracks : evict[x].removed => evict[x].at # {} /\ evict[x].at \cap file = {}

CacheInv == CacheTypeOK /\ Distinct(order) /\ Queued /\ CopiedWhole /\ HasRow /\ Evicting

\* The types of what the fetches are about.
Typed ==
  /\ fetch \in [Tracks -> Stages] /\ tmp \in [Tracks -> {"none", "part", "whole"}]
  /\ inflight \subseteq Tracks /\ waiting \in Seq(Tracks)
  /\ Cardinality(Active) <= Parallel /\ inflight = Active \cup ToSet(waiting)

\* A row is looked up: what it says of a file is true.
LEMMA GotIs ==
  ASSUME CacheInv, NEW s \in Tracks, order' \in Got(s)
  PROVE  /\ order' \in Seq(Tracks) /\ Distinct(order')
         /\ \A x \in file : x \in Rows => x \in Rows'
<1>1. order \in Seq(Tracks) /\ Distinct(order)
  BY DEF CacheInv, CacheTypeOK
<1> DEFINE r == RowsBut(order, s)
<1>2. r \in Seq(Tracks) /\ Distinct(r) /\ ToSet(r) = ToSet(order) \ {s}
  BY <1>1, RowsButIs
<1> HIDE DEF r
<1>3. CASE order' = order
  BY <1>1, <1>3 DEF Rows
<1>4. CASE s \notin file /\ order' = r
  BY <1>2, <1>4 DEF Rows
<1>5. CASE order' = Append(r, s)
  <2>1. Append(r, s) \in Seq(Tracks) /\ Distinct(Append(r, s)) /\ ToSet(Append(r, s)) = ToSet(r) \cup {s}
    BY <1>2, AppendIs
  <2> QED BY <1>2, <1>5, <2>1 DEF Rows
<1> QED BY <1>3, <1>4, <1>5 DEF Got, r

\* A song asked for waits or is fetched, and no other fetch is disturbed.
LEMMA PumpKeeps ==
  ASSUME CacheInv, NEW q \in Seq(Tracks), NEW f \in [Tracks -> Stages], Distinct(q),
         \A s \in ToSet(q) : f[s] = "none", \A s \in Tracks : f[s] \in {fetch[s], "none"},
         Fetching(f) \cup ToSet(q) = inflight', Cardinality(Fetching(f)) <= Parallel, Pumped(q, f)
  PROVE  /\ Typed' /\ Queued' /\ CopiedWhole'
         /\ \A s \in Tracks : fetch[s] = "renamed" => fetch'[s] = "renamed" \/ f[s] = "none"
<1>1. PICK N \in SUBSET Tracks :
        /\ waiting' \in Seq(Tracks) /\ Distinct(waiting')
        /\ N \cup ToSet(waiting') = ToSet(q) /\ N \cap ToSet(waiting') = {}
        /\ fetch' = [s \in Tracks |-> IF s \in N THEN "copy" ELSE f[s]]
        /\ tmp' = [s \in Tracks |-> IF s \in N THEN "part" ELSE tmp[s]]
        /\ Cardinality(Fetching(fetch')) <= Parallel
  BY PumpedIs
<1>2. tmp \in [Tracks -> {"none", "part", "whole"}]
  BY DEF CacheInv, CacheTypeOK
<1>3. fetch' \in [Tracks -> Stages] /\ tmp' \in [Tracks -> {"none", "part", "whole"}]
  BY <1>1, <1>2 DEF Stages
<1>4. Active' = Fetching(fetch')
  BY DEF Active, Fetching
<1>5. Fetching(fetch') = Fetching(f) \cup N
  BY <1>1 DEF Fetching
<1>6. inflight' = Active' \cup ToSet(waiting)'
  BY <1>1, <1>4, <1>5
<1>7. Fetching(f) \subseteq Tracks /\ ToSet(q) \subseteq Tracks
  <2>1. ToSet(q) \subseteq Tracks
    BY SeqIs DEF ToSet
  <2> QED BY <2>1 DEF Fetching
<1>8. Typed'
  BY <1>1, <1>3, <1>4, <1>6, <1>7 DEF Typed
<1>9. Queued'
  <2>1. \A s \in ToSet(waiting)' : fetch'[s] = "none"
    BY <1>1, <1>7
  <2> QED BY <1>1, <2>1 DEF Queued
<1>10. CopiedWhole'
  BY <1>1 DEF CacheInv, CopiedWhole
<1>11. \A s \in Tracks : fetch[s] = "renamed" => fetch'[s] = "renamed" \/ f[s] = "none"
  <2>1. \A s \in N : f[s] = "none"
    BY <1>1
  <2> QED BY <1>1, <2>1
<1> QED BY <1>8, <1>9, <1>10, <1>11

\* A fetch that is over leaves no eviction behind.
LEMMA OverKeeps ==
  ASSUME CacheInv, NEW s \in Tracks, fetch[s] \notin {"none", "renamed"}, FetchOver(s),
         UNCHANGED <<order, file>>
  PROVE  Typed' /\ Queued' /\ CopiedWhole' /\ HasRow' /\ Evicting'
<1> DEFINE f == [fetch EXCEPT ![s] = "none"]
<1>1. f \in [Tracks -> Stages] /\ \A x \in Tracks : f[x] = IF x = s THEN "none" ELSE fetch[x]
  BY DEF CacheInv, CacheTypeOK, Stages
<1>2. s \notin ToSet(waiting) /\ waiting \in Seq(Tracks) /\ ToSet(waiting) \subseteq Tracks
  BY SeqIs DEF CacheInv, CacheTypeOK, Queued, ToSet
<1>3. Fetching(f) = Active \ {s}
  BY <1>1 DEF Fetching, Active
<1>4. Cardinality(Fetching(f)) <= Parallel
  <2>1. IsFiniteSet(Active)
    BY CacheAssumption, FS_Subset DEF Active
  <2>2. Cardinality(Fetching(f)) <= Cardinality(Active) /\ IsFiniteSet(Fetching(f))
    BY <1>3, <2>1, FS_Subset
  <2>3. Cardinality(Active) \in Nat /\ Cardinality(Fetching(f)) \in Nat
    BY <2>1, <2>2, FS_CardinalityType
  <2>4. Cardinality(Active) <= Parallel
    BY DEF CacheInv, CacheTypeOK
  <2> HIDE DEF f
  <2> QED BY <2>2, <2>3, <2>4, CacheAssumption
<1>5. inflight' = Fetching(f) \cup ToSet(waiting)
  BY <1>2, <1>3 DEF FetchOver, CacheInv, CacheTypeOK
<1>6. Pumped(waiting, f)
  BY DEF FetchOver
<1>7. \A x \in ToSet(waiting) : f[x] = "none"
  BY <1>1, <1>2 DEF CacheInv, Queued
<1> HIDE DEF f
<1>8. /\ Typed' /\ Queued' /\ CopiedWhole'
      /\ \A x \in Tracks : fetch[x] = "renamed" => fetch'[x] = "renamed" \/ f[x] = "none"
  BY <1>1, <1>2, <1>4, <1>5, <1>6, <1>7, PumpKeeps DEF CacheInv, Queued
<1>9. \A x \in Tracks : fetch[x] = "renamed" => fetch'[x] = "renamed"
  BY <1>1, <1>8
<1>10. HasRow'
  BY <1>9 DEF CacheInv, CacheTypeOK, HasRow, Rows
<1>11. Evicting'
  <2>1. PICK T : evict \in [Tracks -> [left : Seq(Tracks), total : T, at : SUBSET Tracks, removed : BOOLEAN]]
    BY DEF CacheInv, Evicting
  <2>2. NoEvict \in [left : Seq(Tracks), total : T \cup {0}, at : SUBSET Tracks, removed : BOOLEAN]
          /\ NoEvict.at = {} /\ ~NoEvict.removed
    BY DEF NoEvict
  <2>3. evict' = [evict EXCEPT ![s] = NoEvict]
    BY DEF FetchOver
  <2>4. evict' \in [Tracks -> [left : Seq(Tracks), total : T \cup {0}, at : SUBSET Tracks, removed : BOOLEAN]]
    BY <2>1, <2>2, <2>3
  <2>5. \A x \in Tracks : evict'[x] = IF x = s THEN NoEvict ELSE evict[x]
    BY <2>1, <2>3
  <2> QED BY <2>2, <2>4, <2>5 DEF CacheInv, Evicting
<1> QED BY <1>8, <1>10, <1>11

LEMMA Parts == CacheTypeOK <=> Typed /\ order \in Seq(Tracks) /\ file \subseteq Tracks
                                /\ sweep \subseteq Tracks /\ wants \in 0 .. MaxWants
  BY DEF CacheTypeOK, Typed

LEMMA WantsIs == \A n \in 0 .. MaxWants : n < MaxWants => n + 1 \in 0 .. MaxWants
  BY CacheAssumption

LEMMA GetKeeps ==
  ASSUME CacheInv, NEW s \in Tracks, Get(s)
  PROVE  CacheInv'
<1>1. order' \in Got(s) /\ UNCHANGED <<file, tmp, inflight, waiting, fetch, evict, sweep>>
  BY DEF Get
<1>2. /\ order' \in Seq(Tracks) /\ Distinct(order')
      /\ \A x \in file : x \in Rows => x \in Rows'
  BY <1>1, GotIs
<1>3. wants' \in 0 .. MaxWants
  BY WantsIs DEF Get, CacheInv, CacheTypeOK
<1>4. Typed'
  BY <1>1, Parts DEF CacheInv, Typed, Active
<1>5. CacheTypeOK'
  BY <1>1, <1>2, <1>3, <1>4 DEF CacheInv, CacheTypeOK, Typed
<1>6. HasRow'
  BY <1>1, <1>2 DEF CacheInv, HasRow
<1> QED BY <1>1, <1>2, <1>5, <1>6 DEF CacheInv, Queued, CopiedWhole, Evicting

LEMMA WantKeeps ==
  ASSUME CacheInv, NEW s \in Tracks, Want(s)
  PROVE  CacheInv'
<1>1. order' \in Got(s) /\ UNCHANGED <<file, evict, sweep>> /\ s \notin inflight
  BY DEF Want
<1>2. /\ order' \in Seq(Tracks) /\ Distinct(order')
      /\ \A x \in file : x \in Rows => x \in Rows'
  BY <1>1, GotIs
<1>3. wants' \in 0 .. MaxWants
  BY WantsIs DEF Want, CacheInv, CacheTypeOK
<1>4. /\ Typed' /\ Queued' /\ CopiedWhole'
      /\ \A x \in Tracks : fetch[x] = "renamed" => fetch'[x] = "renamed"
  <2>1. CASE UNCHANGED <<inflight, waiting, fetch, tmp>>
    BY <2>1, Parts DEF CacheInv, Typed, Active, Queued, CopiedWhole
  <2>2. CASE inflight' = inflight \cup {s} /\ Pumped(Append(waiting, s), fetch)
    <3> DEFINE q == Append(waiting, s)
    <3>1. waiting \in Seq(Tracks) /\ fetch \in [Tracks -> Stages] /\ inflight = Active \cup ToSet(waiting)
      BY DEF CacheInv, CacheTypeOK
    <3>2. s \notin ToSet(waiting) /\ fetch[s] = "none"
      BY <1>1, <3>1 DEF Active
    <3>3. q \in Seq(Tracks) /\ Distinct(q) /\ ToSet(q) = ToSet(waiting) \cup {s}
      BY <3>1, <3>2, AppendIs DEF CacheInv, Queued
    <3> HIDE DEF q
    <3>4. \A x \in ToSet(q) : fetch[x] = "none"
      BY <3>2, <3>3 DEF CacheInv, Queued
    <3>5. Active = Fetching(fetch)
      BY DEF Active, Fetching
    <3>6. Cardinality(Fetching(fetch)) <= Parallel
      BY <3>5 DEF CacheInv, CacheTypeOK
    <3>7. Fetching(fetch) \cup ToSet(q) = inflight'
      BY <2>2, <3>1, <3>3, <3>5
    <3>8. Pumped(q, fetch)
      BY <2>2 DEF q
    <3>9. /\ Typed' /\ Queued' /\ CopiedWhole'
          /\ \A x \in Tracks : fetch[x] = "renamed" => fetch'[x] = "renamed" \/ fetch[x] = "none"
      BY <3>1, <3>3, <3>4, <3>6, <3>7, <3>8, PumpKeeps
    <3> QED BY <3>9
  <2> QED BY <2>1, <2>2 DEF Want
<1>5. CacheTypeOK'
  BY <1>1, <1>2, <1>3, <1>4 DEF CacheInv, CacheTypeOK, Typed
<1>6. HasRow'
  BY <1>1, <1>2, <1>4 DEF CacheInv, CacheTypeOK, HasRow
<1>7. Evicting'
  BY <1>1 DEF CacheInv, Evicting
<1> QED BY <1>2, <1>4, <1>5, <1>6, <1>7 DEF CacheInv

\* A fetch that goes on: the queue and the slots stay as they are.
LEMMA StageKeeps ==
  ASSUME CacheInv, NEW s \in Tracks, NEW to \in Stages \ {"none"}, fetch[s] # "none",
         fetch' = [fetch EXCEPT ![s] = to], UNCHANGED <<inflight, waiting>>,
         tmp' \in [Tracks -> {"none", "part", "whole"}]
  PROVE  Typed' /\ Queued' /\ \A x \in Tracks : fetch'[x] = IF x = s THEN to ELSE fetch[x]
<1>1. fetch \in [Tracks -> Stages]
  BY DEF CacheInv, CacheTypeOK
<1>2. \A x \in Tracks : fetch'[x] = IF x = s THEN to ELSE fetch[x]
  BY <1>1
<1>3. Active' = Active
  BY <1>2 DEF Active
<1>4. fetch' \in [Tracks -> Stages]
  BY <1>1
<1>5. Typed'
  BY <1>3, <1>4, Parts DEF CacheInv, Typed
<1>6. \A x \in ToSet(waiting) : x # s /\ x \in Tracks
  <2>1. \A x \in ToSet(waiting) : x \in Tracks
    BY SeqIs DEF CacheInv, CacheTypeOK, ToSet
  <2> QED BY <2>1 DEF CacheInv, Queued
<1>7. Queued'
  BY <1>2, <1>6 DEF CacheInv, Queued
<1> QED BY <1>2, <1>5, <1>7

LEMMA CopiedKeeps ==
  ASSUME CacheInv, NEW s \in Tracks, Copied(s)
  PROVE  CacheInv'
<1>1. /\ UNCHANGED <<order, file, inflight, waiting, evict, sweep, wants>> /\ fetch[s] = "copy"
      /\ tmp' = [tmp EXCEPT ![s] = "whole"] /\ fetch' = [fetch EXCEPT ![s] = "copied"]
  BY DEF Copied
<1>2. tmp' \in [Tracks -> {"none", "part", "whole"}]
        /\ \A x \in Tracks : tmp'[x] = IF x = s THEN "whole" ELSE tmp[x]
  BY <1>1 DEF CacheInv, CacheTypeOK
<1>3. Typed' /\ Queued' /\ \A x \in Tracks : fetch'[x] = IF x = s THEN "copied" ELSE fetch[x]
  <2>1. "copied" \in Stages \ {"none"} /\ fetch[s] # "none" /\ UNCHANGED <<inflight, waiting>>
    BY <1>1 DEF Stages
  <2> QED BY <1>1, <1>2, <2>1, StageKeeps
<1>4. CopiedWhole'
  BY <1>2, <1>3 DEF CacheInv, CopiedWhole
<1>5. HasRow'
  BY <1>1, <1>3 DEF CacheInv, CacheTypeOK, HasRow, Rows
<1>6. CacheTypeOK'
  BY <1>1, <1>3 DEF CacheInv, CacheTypeOK, Typed
<1> QED BY <1>1, <1>3, <1>4, <1>5, <1>6 DEF CacheInv, Evicting

LEMMA FailedKeeps ==
  ASSUME CacheInv, NEW s \in Tracks, Failed(s)
  PROVE  CacheInv'
<1>1. fetch[s] \in {"copy", "copied"} /\ FetchOver(s) /\ UNCHANGED <<order, file, wants>>
  BY DEF Failed
<1>2. sweep' \subseteq Tracks
  BY DEF Failed, CacheInv, CacheTypeOK
<1>3. Typed' /\ Queued' /\ CopiedWhole' /\ HasRow' /\ Evicting'
  BY <1>1, OverKeeps
<1>4. CacheTypeOK'
  BY <1>1, <1>2, <1>3 DEF CacheInv, CacheTypeOK, Typed
<1> QED BY <1>1, <1>3, <1>4 DEF CacheInv

LEMMA SweptKeeps ==
  ASSUME CacheInv, NEW s \in Tracks, Swept(s)
  PROVE  CacheInv'
<1>1. /\ UNCHANGED <<order, file, inflight, waiting, fetch, evict, wants>>
      /\ sweep' = sweep \ {s} /\ tmp' = [tmp EXCEPT ![s] = "none"]
  BY DEF Swept
<1>2. tmp' \in [Tracks -> {"none", "part", "whole"}]
        /\ \A x \in Tracks : tmp'[x] = IF x = s THEN "none" ELSE tmp[x]
  BY <1>1 DEF CacheInv, CacheTypeOK
<1>3. CacheTypeOK'
  BY <1>1, <1>2 DEF CacheInv, CacheTypeOK, Active
<1>4. CopiedWhole'
  BY <1>1, <1>2 DEF CacheInv, CopiedWhole
<1> QED BY <1>1, <1>3, <1>4 DEF CacheInv, Queued, HasRow, Rows, Evicting

\* While the file of a song is being taken away it gets no new one.
LEMMA RenameKeeps ==
  ASSUME CacheInv, NEW s \in Tracks, Rename(s)
  PROVE  CacheInv'
<1>1. /\ UNCHANGED <<order, inflight, waiting, evict, sweep, wants>> /\ fetch[s] = "copied" /\ Seen(s)
      /\ file' = file \cup {s} /\ tmp' = [tmp EXCEPT ![s] = "none"]
      /\ fetch' = [fetch EXCEPT ![s] = "renamed"]
  BY DEF Rename
<1>2. tmp' \in [Tracks -> {"none", "part", "whole"}]
        /\ \A x \in Tracks : tmp'[x] = IF x = s THEN "none" ELSE tmp[x]
  BY <1>1 DEF CacheInv, CacheTypeOK
<1>3. Typed' /\ Queued' /\ \A x \in Tracks : fetch'[x] = IF x = s THEN "renamed" ELSE fetch[x]
  <2>1. "renamed" \in Stages \ {"none"} /\ fetch[s] # "none" /\ UNCHANGED <<inflight, waiting>>
    BY <1>1 DEF Stages
  <2> QED BY <1>1, <1>2, <2>1, StageKeeps
<1>4. CopiedWhole'
  BY <1>2, <1>3 DEF CacheInv, CopiedWhole
<1>5. HasRow'
  BY <1>1, <1>3 DEF CacheInv, CacheTypeOK, HasRow, Rows
<1>6. CacheTypeOK'
  BY <1>1, <1>3 DEF CacheInv, CacheTypeOK, Typed
<1>7. Evicting'
  <2>1. \A x \in Tracks : evict[x].removed => evict[x].at \cap file' = {}
    BY <1>1 DEF CacheInv, Evicting, Seen
  <2> QED BY <1>1, <2>1 DEF CacheInv, Evicting
<1> QED BY <1>1, <1>3, <1>4, <1>5, <1>6, <1>7 DEF CacheInv

\* An eviction, whatever it has counted.
Eviction(n) == [left : Seq(Tracks), total : {n}, at : SUBSET Tracks, removed : BOOLEAN]

\* A step of one, the others as they were.
LEMMA EvictPut ==
  ASSUME Evicting, NEW s \in Tracks, NEW n, NEW e \in Eviction(n), evict' = [evict EXCEPT ![s] = e],
         file' \subseteq file, \A c, d \in e.at : c = d,
         e.removed => e.at # {} /\ e.at \cap file' = {}
  PROVE  Evicting'
<1>1. PICK T : evict \in [Tracks -> [left : Seq(Tracks), total : T, at : SUBSET Tracks, removed : BOOLEAN]]
  BY DEF Evicting
<1>2. e \in [left : Seq(Tracks), total : T \cup {n}, at : SUBSET Tracks, removed : BOOLEAN]
  BY DEF Eviction
<1>3. evict' \in [Tracks -> [left : Seq(Tracks), total : T \cup {n}, at : SUBSET Tracks, removed : BOOLEAN]]
  BY <1>1, <1>2
<1>4. \A x \in Tracks : evict'[x] = IF x = s THEN e ELSE evict[x]
  BY <1>1
<1>5. \A x \in Tracks : \A c, d \in evict'[x].at : c = d
  BY <1>4 DEF Evicting
<1>6. \A x \in Tracks : evict'[x].removed => evict'[x].at # {} /\ evict'[x].at \cap file' = {}
  BY <1>4 DEF Evicting
<1> QED BY <1>3, <1>5, <1>6 DEF Evicting

LEMMA EvictIs ==
  ASSUME Evicting, NEW s \in Tracks
  PROVE  evict[s] \in Eviction(evict[s].total)
<1>1. PICK T : evict \in [Tracks -> [left : Seq(Tracks), total : T, at : SUBSET Tracks, removed : BOOLEAN]]
  BY DEF Evicting
<1>2. evict[s] \in [left : Seq(Tracks), total : T, at : SUBSET Tracks, removed : BOOLEAN]
  BY <1>1
<1> QED BY <1>2 DEF Eviction

LEMMA RowKeeps ==
  ASSUME CacheInv, NEW s \in Tracks, Row(s)
  PROVE  CacheInv'
<1> DEFINE r == RowsBut(order, s)
           rows == Append(r, s)
<1>1. /\ UNCHANGED <<file, tmp, inflight, waiting, sweep, wants>> /\ fetch[s] = "renamed"
      /\ order' = rows /\ fetch' = [fetch EXCEPT ![s] = "evicting"]
      /\ evict' = [evict EXCEPT ![s] = [left |-> rows, total |-> Bytes(ToSet(rows)),
                                        at |-> {}, removed |-> FALSE]]
  BY DEF Row
<1>2. r \in Seq(Tracks) /\ Distinct(r) /\ ToSet(r) = ToSet(order) \ {s}
  BY RowsButIs DEF CacheInv, CacheTypeOK
<1> HIDE DEF r
<1>3. rows \in Seq(Tracks) /\ Distinct(rows) /\ ToSet(rows) = ToSet(r) \cup {s}
  BY <1>2, AppendIs
<1> DEFINE e == [left |-> rows, total |-> Bytes(ToSet(rows)), at |-> {}, removed |-> FALSE]
<1> HIDE DEF rows
<1>4. Evicting'
  <2>1. e \in Eviction(Bytes(ToSet(rows))) /\ e.at = {} /\ ~e.removed
    BY <1>3 DEF Eviction
  <2>2. evict' = [evict EXCEPT ![s] = e] /\ file' = file
    BY <1>1 DEF rows
  <2> HIDE DEF e
  <2> QED BY <2>1, <2>2, EvictPut DEF CacheInv
<1>5. Typed' /\ Queued' /\ \A x \in Tracks : fetch'[x] = IF x = s THEN "evicting" ELSE fetch[x]
  BY <1>1, StageKeeps DEF Stages, CacheInv, CacheTypeOK
<1>6. CopiedWhole'
  BY <1>1, <1>5 DEF CacheInv, CopiedWhole
<1>7. HasRow'
  BY <1>1, <1>2, <1>3, <1>5 DEF CacheInv, CacheTypeOK, HasRow, Rows
<1>8. CacheTypeOK'
  BY <1>1, <1>3, <1>5 DEF CacheInv, CacheTypeOK, Typed
<1> QED BY <1>1, <1>3, <1>4, <1>5, <1>6, <1>7, <1>8 DEF CacheInv

LEMMA ChooseKeeps ==
  ASSUME CacheInv, NEW s \in Tracks, Choose(s)
  PROVE  CacheInv'
<1> DEFINE e == evict[s]
           c == Head(e.left)
           B == IF c \in inflight THEN {} ELSE {c}
           d == [e EXCEPT !.left = Tail(@), !.at = B]
<1>1. /\ UNCHANGED <<order, file, tmp, inflight, waiting, fetch, sweep, wants>>
      /\ e.at = {} /\ e.left # <<>> /\ evict' = [evict EXCEPT ![s] = d]
  BY DEF Choose
<1>2. e \in Eviction(e.total)
  BY EvictIs DEF CacheInv
<1>3. Tail(e.left) \in Seq(Tracks) /\ c \in Tracks
  <2>1. e.left \in Seq(Tracks)
    BY <1>2 DEF Eviction
  <2> HIDE DEF e
  <2> QED BY <1>1, <2>1, HeadTailProperties
<1>4. B \in SUBSET Tracks /\ \A x, y \in B : x = y
  BY <1>3
<1>5. ~e.removed
  BY <1>1 DEF CacheInv, Evicting
<1> HIDE DEF e, B
<1>6. d \in Eviction(e.total) /\ d.at = B
  BY <1>2, <1>3, <1>4 DEF Eviction
<1>7. ~d.removed
  BY <1>2, <1>5 DEF Eviction
<1> HIDE DEF d
<1>8. \A x, y \in d.at : x = y
  BY <1>4, <1>6
<1>9. Evicting'
  <2>1. Evicting /\ file' \subseteq file
    BY <1>1 DEF CacheInv
  <2>2. \A n, f : f \in Eviction(n) /\ evict' = [evict EXCEPT ![s] = f] /\ (\A x, y \in f.at : x = y)
                 /\ (f.removed => f.at # {} /\ f.at \cap file' = {}) => Evicting'
    BY <2>1, EvictPut
  <2> QED BY <1>1, <1>6, <1>7, <1>8, <2>2
<1> QED BY <1>1, <1>9 DEF CacheInv, CacheTypeOK, Active, Queued, CopiedWhole, HasRow, Rows

LEMMA RemoveFileKeeps ==
  ASSUME CacheInv, NEW s \in Tracks, RemoveFile(s)
  PROVE  CacheInv'
<1> DEFINE e == evict[s]
           d == [e EXCEPT !.removed = TRUE]
<1>1. /\ UNCHANGED <<order, tmp, inflight, waiting, fetch, sweep, wants>>
      /\ e.at # {} /\ file' = file \ e.at /\ evict' = [evict EXCEPT ![s].removed = TRUE]
  BY DEF RemoveFile
<1>2. evict' = [evict EXCEPT ![s] = d]
  BY <1>1
<1>3. e \in Eviction(e.total) /\ \A x, y \in e.at : x = y
  BY EvictIs DEF CacheInv, Evicting
<1> HIDE DEF e
<1>4. d \in Eviction(e.total) /\ d.at = e.at
  BY <1>3 DEF Eviction
<1> HIDE DEF d
<1>5. file' \subseteq file /\ e.at \cap file' = {}
  BY <1>1
<1>6. (\A x, y \in d.at : x = y) /\ d.at # {} /\ d.at \cap file' = {}
  BY <1>1, <1>3, <1>4, <1>5
<1>7. Evicting'
  <2>1. Evicting /\ file' \subseteq file
    BY <1>5 DEF CacheInv
  <2>2. \A n, f : f \in Eviction(n) /\ evict' = [evict EXCEPT ![s] = f] /\ (\A x, y \in f.at : x = y)
                 /\ (f.removed => f.at # {} /\ f.at \cap file' = {}) => Evicting'
    BY <2>1, EvictPut
  <2> QED BY <1>2, <1>4, <1>6, <2>2
<1> QED BY <1>1, <1>5, <1>7 DEF CacheInv, CacheTypeOK, Active, Queued, CopiedWhole, HasRow, Rows

\* The row that is deleted is of a song whose file is gone.
LEMMA DeleteRowKeeps ==
  ASSUME CacheInv, NEW s \in Tracks, DeleteRow(s)
  PROVE  CacheInv'
<1> DEFINE e == evict[s]
           d == [e EXCEPT !.total = @ - Bytes(e.at), !.at = {}, !.removed = FALSE]
<1>1. /\ UNCHANGED <<file, tmp, inflight, waiting, fetch, sweep, wants>> /\ e.removed
      /\ (\E c \in e.at : order' = RowsBut(order, c)) /\ evict' = [evict EXCEPT ![s] = d]
  BY DEF DeleteRow
<1>2. e \in Eviction(e.total) /\ e.at \cap file = {}
  BY <1>1, EvictIs DEF CacheInv, Evicting
<1>3. PICK c \in e.at : order' = RowsBut(order, c)
  BY <1>1
<1>4. c \notin file
  BY <1>2
<1> HIDE DEF e
<1>5. d \in Eviction(e.total - Bytes(e.at)) /\ d.at = {} /\ ~d.removed
  BY <1>2 DEF Eviction
<1> HIDE DEF d
<1>6. Evicting'
  BY <1>1, <1>5, EvictPut DEF CacheInv
<1>7. order' \in Seq(Tracks) /\ Distinct(order') /\ ToSet(order') = ToSet(order) \ {c}
  BY <1>3, RowsButIs DEF CacheInv, CacheTypeOK
<1>8. HasRow'
  BY <1>1, <1>4, <1>7 DEF CacheInv, HasRow, Rows
<1> QED BY <1>1, <1>6, <1>7, <1>8 DEF CacheInv, CacheTypeOK, Active, Queued, CopiedWhole

LEMMA DoneKeeps ==
  ASSUME CacheInv, NEW s \in Tracks, Done(s)
  PROVE  CacheInv'
<1>1. fetch[s] = "evicting" /\ FetchOver(s) /\ UNCHANGED <<order, file, sweep, wants>>
  BY DEF Done
<1>2. Typed' /\ Queued' /\ CopiedWhole' /\ HasRow' /\ Evicting'
  BY <1>1, OverKeeps
<1>3. CacheTypeOK'
  BY <1>1, <1>2 DEF CacheInv, CacheTypeOK, Typed
<1> QED BY <1>1, <1>2, <1>3 DEF CacheInv

LEMMA DropKeeps ==
  ASSUME CacheInv, NEW s \in Tracks, Drop(s)
  PROVE  CacheInv'
<1>1. /\ UNCHANGED <<tmp, inflight, waiting, fetch, evict, sweep>>
      /\ order' = RowsBut(order, s) /\ file' = file \ {s}
  BY DEF Drop
<1>2. order' \in Seq(Tracks) /\ Distinct(order') /\ ToSet(order') = ToSet(order) \ {s}
  BY <1>1, RowsButIs DEF CacheInv, CacheTypeOK
<1>3. wants' \in 0 .. MaxWants
  BY WantsIs DEF Drop, CacheInv, CacheTypeOK
<1>4. HasRow'
  BY <1>1, <1>2 DEF CacheInv, HasRow, Rows
<1>5. Evicting'
  BY <1>1 DEF CacheInv, Evicting
<1> QED BY <1>1, <1>2, <1>3, <1>4, <1>5 DEF CacheInv, CacheTypeOK, Active, Queued, CopiedWhole

LEMMA CacheInitKeeps ==
  ASSUME CacheInit
  PROVE  CacheInv
<1>1. order = <<>> /\ waiting = <<>> /\ file = {} /\ inflight = {} /\ sweep = {} /\ wants = 0
  BY DEF CacheInit
<1>2. <<>> \in Seq(Tracks) /\ DOMAIN <<>> = {} /\ ToSet(<<>>) = {}
  BY DEF ToSet
<1>3. /\ tmp = [x \in Tracks |-> "none"] /\ fetch = [x \in Tracks |-> "none"]
      /\ evict = [x \in Tracks |-> NoEvict]
  BY DEF CacheInit
<1>4. Active = {} /\ Cardinality(Active) = 0
  BY <1>3, FS_EmptySet DEF Active
<1>5. CacheTypeOK
  BY <1>1, <1>2, <1>3, <1>4, CacheAssumption DEF CacheTypeOK, Stages
<1>6. NoEvict \in [left : Seq(Tracks), total : {0}, at : SUBSET Tracks, removed : BOOLEAN]
        /\ NoEvict.at = {} /\ ~NoEvict.removed
  BY <1>2 DEF NoEvict
<1>7. Evicting
  <2>1. evict \in [Tracks -> [left : Seq(Tracks), total : {0}, at : SUBSET Tracks, removed : BOOLEAN]]
    BY <1>3, <1>6
  <2>2. \A x \in Tracks : evict[x].at = {} /\ ~evict[x].removed
    BY <1>3, <1>6
  <2> QED BY <2>1, <2>2 DEF Evicting
<1>8. Distinct(order) /\ Queued
  BY <1>1, <1>2 DEF Distinct, Queued
<1> QED BY <1>1, <1>3, <1>5, <1>7, <1>8 DEF CacheInv, CopiedWhole, HasRow

\* Step by step.
LEMMA CacheKept == CacheInv /\ [CacheNext]_cacheVars => CacheInv'
<1> SUFFICES ASSUME CacheInv, [CacheNext]_cacheVars PROVE CacheInv'
  OBVIOUS
<1>1. CASE CacheNext
  <2>1. PICK s \in Tracks : Get(s) \/ Want(s) \/ Drop(s) \/ Step(s)
    BY <1>1 DEF CacheNext
  <2> QED BY <2>1, GetKeeps, WantKeeps, DropKeeps, CopiedKeeps, FailedKeeps, SweptKeeps,
             RenameKeeps, RowKeeps, ChooseKeeps, RemoveFileKeeps, DeleteRowKeeps, DoneKeeps
          DEF Step
<1>2. CASE UNCHANGED cacheVars
  BY <1>2 DEF cacheVars, CacheInv, CacheTypeOK, Active, Queued, CopiedWhole, HasRow, Rows, Evicting
<1> QED BY <1>1, <1>2

-----------------------------------------------------------------------------

\* Types, no more copies at a time than allowed, and everything on its way has
\* a slot or waits for one, once (want, pump).
THEOREM CacheTyped == CacheSpec => []CacheTypeOK
<1>1. CacheInit => CacheInv
  BY CacheInitKeeps
<1>2. CacheInv => CacheTypeOK
  BY DEF CacheInv
<1> QED BY <1>1, <1>2, CacheKept, PTL DEF CacheSpec

\* A song's final name is only given to all of it (fetch), whatever times out
\* or is swept while it is copied.
THEOREM WholeOnly == CacheSpec => OnlyWhole
<1>1. CacheInit => CacheInv
  BY CacheInitKeeps
<1>2. ASSUME CacheInv, [CacheNext]_cacheVars
      PROVE  [\A s \in Tracks : s \in file' \ file => tmp[s] = "whole"]_cacheVars
  <2>1. CASE CacheNext
    <3>1. PICK t \in Tracks : Get(t) \/ Want(t) \/ Drop(t) \/ Step(t)
      BY <2>1 DEF CacheNext
    <3>2. CASE Rename(t)
      <4>1. file' = file \cup {t} /\ fetch[t] = "copied" /\ tmp[t] # "none"
        BY <3>2 DEF Rename
      <4> QED BY <1>2, <4>1 DEF CacheInv, CopiedWhole
    <3>3. CASE ~Rename(t)
      <4>1. file' \subseteq file
        BY <3>1, <3>3 DEF Get, Want, Drop, Step, Copied, Failed, Swept, Row, Choose, RemoveFile,
           DeleteRow, Done
      <4> QED BY <4>1
    <3> QED BY <3>2, <3>3
  <2> QED BY <1>2, <2>1
<1> QED BY <1>1, <1>2, CacheKept, PTL DEF CacheSpec, OnlyWhole

\* No file is left on the SSD that no row counts and nobody works on (evict).
THEOREM NothingStranded == CacheSpec => []NoneStranded
<1>1. CacheInit => CacheInv
  BY CacheInitKeeps
<1>2. ASSUME CacheInv PROVE NoneStranded
  <2> SUFFICES ASSUME NEW s \in file PROVE s \in Rows \/ s \in inflight
    BY DEF NoneStranded
  <2>1. s \in Rows \/ fetch[s] = "renamed"
    BY <1>2 DEF CacheInv, HasRow
  <2>2. fetch[s] = "renamed" => s \in inflight
    BY <1>2 DEF CacheInv, CacheTypeOK, Active
  <2> QED BY <2>1, <2>2
<1> QED BY <1>1, <1>2, CacheKept, PTL DEF CacheSpec
=============================================================================
