--------------------------- MODULE SpeakersProofs ---------------------------
(* Proofs about Speakers for any accounts, speakers, groups and commands, while
   one thing is over before the next is asked ("overlap" is not in Env): then
   one call at a time moves, and what it has still to run makes good what it
   has undone so far.                                                       *)
EXTENDS Speakers, FiniteSetTheorems, SequenceTheorems, TLAPS

Dos == {"quiet", "dissolve", "halt", "halted", "release", "free", "part", "unlink", "claim", "wait",
        "own", "adopt", "form", "show", "take", "join", "slave", "start", "started", "flip", "read",
        "done"}

\* The segments about a speaker, and those about playing or not.
OnSpeaker == {"part", "unlink", "claim", "own", "adopt", "take", "join", "slave"}
OnPlaying == {"start", "started", "flip", "read"}

Segments == {g \in [do : Dos, of : Players, arg : Speakers \cup {None} \cup BOOLEAN] :
               /\ g.do \in OnSpeaker => g.arg \in Speakers
               /\ g.do \in OnPlaying => g.arg \in BOOLEAN}

Commands == {o \in [op : {"transfer", "play", "toggle", "yield", "regroup", "drop", "handoff"},
                    arg : Speakers \cup {None}, to : SUBSET Speakers, by : Threads \cup {None}] :
               /\ o.op \in {"transfer", "drop", "handoff"} => o.arg \in Speakers
               /\ o.op = "handoff" => o.to # {}}

\* Segments that come first in their call or not at all, those a player's own
\* operations run, and those that come last.
First == {"halted", "started", "flip", "read", "wait"}
OfOps == {"claim", "own", "adopt", "form", "take", "join", "slave", "done"}
Final == {"done", "read"}

\* r holds a segment of v that does one of dos.
Holds(r, dos, v) == \E j \in 1..Len(r) : r[j].do \in dos /\ r[j].of = v

\* What follows a segment in a call of thread t: a transport that is closed is
\* followed by the player's release or its next one; a poll that stops by the
\* close or a start; a claim by the owner's entry.
Leads(t, g, r) ==
  /\ g.do \in Final => r = <<>>
  /\ t[2] = "ops" /\ g.do # "done" => r # <<>>
  /\ g.do \in OfOps => t = <<g.of, "ops">>
  /\ g.do = "claim" => Head(r).do = "own"
  /\ g.do \in {"halt", "halted", "part"} => Holds(r, {"free", "adopt"}, g.of)
  /\ g.do = "quiet" => Holds(r, {"halt", "part"}, g.of)
  /\ g.do = "adopt" => Holds(r, {"start"}, g.of)
  /\ g.do \in {"start", "started", "flip"} => r = <<>> \/ Head(r).do = "done"

Rest(s, i) == SubSeq(s, i + 1, Len(s))

Shaped(t, s) == \A i \in 1..Len(s) : Leads(t, s[i], Rest(s, i))
NoneFirst(s) == \A i \in 1..Len(s) : s[i].do \notin First

Good(t, s) == Shaped(t, s) /\ (s # <<>> => NoneFirst(Tail(s)))

-----------------------------------------------------------------------------
(* Sequences.                                                              *)

LEMMA Put ==
  ASSUME NEW S, NEW g \in S, NEW r \in Seq(S), NEW n, n = <<g>> \o r
  PROVE  /\ n \in Seq(S) /\ n # <<>> /\ Len(n) = Len(r) + 1
         /\ Head(n) = g /\ n[1] = g /\ Tail(n) = r
         /\ \A i \in 1..Len(r) : n[i + 1] = r[i]
<1> DEFINE one == <<g>>
<1>1. one \in Seq(S) /\ Len(one) = 1 /\ one[1] = g
  OBVIOUS
<1> HIDE DEF one
<1>2. n = one \o r
  BY DEF one
<1>3. n \in Seq(S) /\ Len(n) = 1 + Len(r)
  BY <1>1, <1>2, ConcatProperties
<1>4. \A i \in 1..(1 + Len(r)) : n[i] = IF i <= 1 THEN one[i] ELSE r[i - 1]
  BY <1>1, <1>2, ConcatProperties
<1>5. Len(r) \in Nat
  OBVIOUS
<1>6. n[1] = g
  BY <1>1, <1>4, <1>5
<1>7. \A i \in 1..Len(r) : n[i + 1] = r[i]
  BY <1>4, <1>5
<1>8. n # <<>>
  BY <1>3, <1>5
<1>9. Head(n) = g
  BY <1>3, <1>6, <1>8
<1>10. Tail(n) \in Seq(S) /\ Len(Tail(n)) = Len(r)
  BY <1>3, <1>5, <1>8, HeadTailProperties
<1>11. \A i \in 1..Len(Tail(n)) : Tail(n)[i] = r[i]
  BY <1>3, <1>7, <1>8, <1>10, HeadTailProperties
<1>12. Tail(n) = r
  BY <1>10, <1>11, SeqEqual
<1> QED BY <1>3, <1>5, <1>6, <1>7, <1>8, <1>9, <1>12

LEMMA RestIs ==
  ASSUME NEW S, NEW s \in Seq(S), s # <<>>
  PROVE  /\ Rest(s, 1) = Tail(s)
         /\ \A i \in 1..Len(Tail(s)) : Rest(s, i + 1) = Rest(Tail(s), i)
<1> DEFINE r == Tail(s)
<1>1. r \in Seq(S) /\ Len(r) = Len(s) - 1 /\ (\A i \in 1..Len(r) : r[i] = s[i + 1])
  BY HeadTailProperties
<1>2. Rest(s, 1) = r
  BY TailIsSubSeq DEF Rest
<1> HIDE DEF r
<1>3. ASSUME NEW i \in 1..Len(r)
      PROVE  Rest(s, i + 1) = Rest(r, i)
  <2> DEFINE a == Rest(s, i + 1)
             b == Rest(r, i)
  <2>1. Len(s) \in Nat /\ i \in Int /\ Len(r) \in Nat
    BY <1>1
  <2>2. a \in Seq(S) /\ Len(a) = Len(r) - i /\ \A j \in 1..Len(a) : a[j] = s[i + 1 + j]
    <3>1. \A j \in (i + 2)..Len(s) : s[j] \in S
      BY <2>1
    <3>2. a = SubSeq(s, i + 2, Len(s))
      BY <2>1 DEF Rest
    <3> HIDE DEF a
    <3>3. a \in Seq(S) /\ Len(a) = (IF i + 2 <= Len(s) THEN Len(s) - (i + 2) + 1 ELSE 0)
          /\ \A j \in 1..(Len(s) - (i + 2) + 1) : a[j] = s[i + 2 + j - 1]
      BY <2>1, <3>1, <3>2, SubSeqProperties
    <3>4. Len(a) = Len(r) - i
      BY <1>1, <2>1, <3>3
    <3>5. ASSUME NEW j \in 1..Len(a) PROVE a[j] = s[i + 1 + j]
      <4>1. j \in 1..(Len(s) - (i + 2) + 1) /\ i + 2 + j - 1 = i + 1 + j
        BY <1>1, <2>1, <3>4
      <4> QED BY <3>3, <4>1
    <3> QED BY <3>3, <3>4, <3>5
  <2>3. b \in Seq(S) /\ Len(b) = Len(r) - i /\ \A j \in 1..Len(b) : b[j] = r[i + j]
    <3>1. \A j \in (i + 1)..Len(r) : r[j] \in S
      BY <1>1, <2>1
    <3>2. b = SubSeq(r, i + 1, Len(r))
      BY DEF Rest
    <3> HIDE DEF b
    <3>3. b \in Seq(S) /\ Len(b) = (IF i + 1 <= Len(r) THEN Len(r) - (i + 1) + 1 ELSE 0)
          /\ \A j \in 1..(Len(r) - (i + 1) + 1) : b[j] = r[i + 1 + j - 1]
      BY <2>1, <3>1, <3>2, SubSeqProperties
    <3>4. Len(b) = Len(r) - i
      BY <1>1, <2>1, <3>3
    <3>5. ASSUME NEW j \in 1..Len(b) PROVE b[j] = r[i + j]
      <4>1. j \in 1..(Len(r) - (i + 1) + 1) /\ i + 1 + j - 1 = i + j
        BY <1>1, <2>1, <3>4
      <4> QED BY <3>3, <4>1
    <3> QED BY <3>3, <3>4, <3>5
  <2> HIDE DEF a, b
  <2>4. ASSUME NEW j \in 1..Len(a) PROVE a[j] = b[j]
    <3>1. a[j] = s[i + 1 + j] /\ j \in 1..Len(b)
      BY <2>2, <2>3
    <3>2. b[j] = r[i + j]
      BY <2>3, <3>1
    <3>3. i + j \in 1..Len(r) /\ i + j + 1 = i + 1 + j
      BY <2>1, <2>2
    <3> QED BY <1>1, <3>1, <3>2, <3>3
  <2>5. a = b
    BY <2>1, <2>2, <2>3, <2>4, SeqEqual
  <2> QED BY <2>5 DEF a, b
<1> QED BY <1>2, <1>3 DEF r

\* A call is well shaped if its first segment leads to the others, and they are.
LEMMA ShapedPut ==
  ASSUME NEW t, NEW s \in Seq(Segments), s # <<>>
  PROVE  Shaped(t, s) <=> Leads(t, Head(s), Tail(s)) /\ Shaped(t, Tail(s))
<1> DEFINE r == Tail(s)
<1>1. r \in Seq(Segments) /\ Len(r) = Len(s) - 1 /\ (\A i \in 1..Len(r) : r[i] = s[i + 1])
  BY HeadTailProperties
<1>2. Rest(s, 1) = r /\ \A i \in 1..Len(r) : Rest(s, i + 1) = Rest(r, i)
  BY RestIs
<1>3. Head(s) = s[1] /\ 1 \in 1..Len(s)
  OBVIOUS
<1> HIDE DEF r
<1>4. ASSUME Shaped(t, s) PROVE Leads(t, Head(s), r) /\ Shaped(t, r)
  <2>1. Leads(t, s[1], Rest(s, 1))
    BY <1>3, <1>4 DEF Shaped
  <2>2. ASSUME NEW i \in 1..Len(r) PROVE Leads(t, r[i], Rest(r, i))
    <3>1. i + 1 \in 1..Len(s)
      BY <1>1
    <3>2. Leads(t, s[i + 1], Rest(s, i + 1))
      BY <1>4, <3>1 DEF Shaped
    <3> QED BY <1>1, <1>2, <3>2
  <2> QED BY <1>2, <1>3, <2>1, <2>2 DEF Shaped
<1>5. ASSUME Leads(t, Head(s), r), Shaped(t, r) PROVE Shaped(t, s)
  <2>1. ASSUME NEW i \in 1..Len(s) PROVE Leads(t, s[i], Rest(s, i))
    <3>1. CASE i = 1
      BY <1>2, <1>3, <1>5, <3>1
    <3>2. CASE i # 1
      <4>1. PICK k \in 1..Len(r) : i = k + 1
        <5>1. i - 1 \in 1..Len(r) /\ i = (i - 1) + 1
          BY <1>1, <3>2
        <5> QED BY <5>1
      <4>2. Leads(t, r[k], Rest(r, k))
        BY <1>5 DEF Shaped
      <4> QED BY <1>1, <1>2, <4>1, <4>2
    <3> QED BY <3>1, <3>2
  <2> QED BY <2>1 DEF Shaped
<1> QED BY <1>4, <1>5 DEF r

LEMMA HoldsPut ==
  ASSUME NEW s \in Seq(Segments), s # <<>>, NEW dos, NEW v
  PROVE  Holds(s, dos, v) <=> (Head(s).do \in dos /\ Head(s).of = v) \/ Holds(Tail(s), dos, v)
<1> DEFINE r == Tail(s)
<1>1. r \in Seq(Segments) /\ Len(r) = Len(s) - 1 /\ (\A i \in 1..Len(r) : r[i] = s[i + 1])
  BY HeadTailProperties
<1>2. Head(s) = s[1] /\ 1 \in 1..Len(s)
  OBVIOUS
<1> HIDE DEF r
<1>3. ASSUME Holds(s, dos, v) PROVE (Head(s).do \in dos /\ Head(s).of = v) \/ Holds(r, dos, v)
  <2>1. PICK j \in 1..Len(s) : s[j].do \in dos /\ s[j].of = v
    BY <1>3 DEF Holds
  <2>2. CASE j = 1
    BY <1>2, <2>1, <2>2
  <2>3. CASE j # 1
    <3>1. PICK k \in 1..Len(r) : j = k + 1
      <4>1. j - 1 \in 1..Len(r) /\ j = (j - 1) + 1
        BY <1>1, <2>3
      <4> QED BY <4>1
    <3>2. r[k] = s[j]
      BY <1>1, <3>1
    <3> QED BY <2>1, <3>2 DEF Holds
  <2> QED BY <2>2, <2>3
<1>4. ASSUME Head(s).do \in dos, Head(s).of = v PROVE Holds(s, dos, v)
  BY <1>2, <1>4 DEF Holds
<1>5. ASSUME Holds(r, dos, v) PROVE Holds(s, dos, v)
  <2>1. PICK j \in 1..Len(r) : r[j].do \in dos /\ r[j].of = v
    BY <1>5 DEF Holds
  <2>2. s[j + 1] = r[j] /\ j + 1 \in 1..Len(s)
    BY <1>1
  <2> QED BY <2>1, <2>2 DEF Holds
<1> QED BY <1>3, <1>4, <1>5 DEF r

LEMMA NonePut ==
  ASSUME NEW s \in Seq(Segments), s # <<>>
  PROVE  NoneFirst(s) <=> Head(s).do \notin First /\ NoneFirst(Tail(s))
<1> DEFINE r == Tail(s)
<1>1. r \in Seq(Segments) /\ Len(r) = Len(s) - 1 /\ (\A i \in 1..Len(r) : r[i] = s[i + 1])
  BY HeadTailProperties
<1>2. Head(s) = s[1] /\ 1 \in 1..Len(s)
  OBVIOUS
<1> HIDE DEF r
<1>3. ASSUME NoneFirst(s) PROVE Head(s).do \notin First /\ NoneFirst(r)
  <2>1. ASSUME NEW i \in 1..Len(r) PROVE r[i].do \notin First
    <3>1. r[i] = s[i + 1] /\ i + 1 \in 1..Len(s)
      BY <1>1
    <3> QED BY <1>3, <3>1 DEF NoneFirst
  <2> QED BY <1>2, <1>3, <2>1 DEF NoneFirst
<1>4. ASSUME Head(s).do \notin First, NoneFirst(r) PROVE NoneFirst(s)
  <2>1. ASSUME NEW i \in 1..Len(s) PROVE s[i].do \notin First
    <3>1. CASE i = 1
      BY <1>2, <1>4, <3>1
    <3>2. CASE i # 1
      <4>1. PICK k \in 1..Len(r) : i = k + 1
        <5>1. i - 1 \in 1..Len(r) /\ i = (i - 1) + 1
          BY <1>1, <3>2
        <5> QED BY <5>1
      <4> QED BY <1>1, <1>4, <4>1 DEF NoneFirst
    <3> QED BY <3>1, <3>2
  <2> QED BY <2>1 DEF NoneFirst
<1> QED BY <1>3, <1>4 DEF r

\* The rest of a call of t.
Body(t, r) == r \in Seq(Segments) /\ Shaped(t, r) /\ NoneFirst(r)

LEMMA GoodPut ==
  ASSUME NEW t, NEW n \in Seq(Segments), n # <<>>, Body(t, Tail(n)), Leads(t, Head(n), Tail(n))
  PROVE  Good(t, n) /\ (Head(n).do \notin First => Body(t, n))
BY ShapedPut, NonePut DEF Good, Body

\* What is left once the first segment has run.
LEMMA GoodTail ==
  ASSUME NEW t, NEW s \in Seq(Segments), s # <<>>, Good(t, s)
  PROVE  /\ Head(s) \in Segments /\ Tail(s) \in Seq(Segments)
         /\ Leads(t, Head(s), Tail(s))
         /\ Shaped(t, Tail(s)) /\ NoneFirst(Tail(s)) /\ Good(t, Tail(s))
         /\ \A dos, v : Holds(s, dos, v) <=>
              (Head(s).do \in dos /\ Head(s).of = v) \/ Holds(Tail(s), dos, v)
<1> DEFINE r == Tail(s)
<1>1. Head(s) \in Segments /\ r \in Seq(Segments)
  BY HeadTailProperties
<1>2. Leads(t, Head(s), r) /\ Shaped(t, r) /\ NoneFirst(r)
  BY ShapedPut DEF Good
<1>3. ASSUME NEW dos, NEW v
      PROVE  Holds(s, dos, v) <=> (Head(s).do \in dos /\ Head(s).of = v) \/ Holds(r, dos, v)
  BY HoldsPut
<1> HIDE DEF r
<1>4. r # <<>> => NoneFirst(Tail(r))
  BY <1>1, <1>2, NonePut
<1>5. Good(t, r)
  BY <1>2, <1>4 DEF Good
<1> QED BY <1>1, <1>2, <1>3, <1>5 DEF r

\* The first of the sequences concatenated lends its head.
LEMMA ConcatHead ==
  ASSUME NEW S, NEW q \in Seq(S), q # <<>>, NEW r \in Seq(S)
  PROVE  /\ q \o r \in Seq(S) /\ q \o r # <<>>
         /\ Head(q \o r) = Head(q) /\ Tail(q \o r) = Tail(q) \o r
<1> DEFINE n == q \o r
           w == Tail(q) \o r
<1>1. n \in Seq(S) /\ Len(n) = Len(q) + Len(r)
      /\ \A i \in 1..(Len(q) + Len(r)) : n[i] = IF i <= Len(q) THEN q[i] ELSE r[i - Len(q)]
  BY ConcatProperties
<1>2. Tail(q) \in Seq(S) /\ Len(Tail(q)) = Len(q) - 1 /\ \A i \in 1..Len(Tail(q)) : Tail(q)[i] = q[i + 1]
  BY HeadTailProperties
<1>3. w \in Seq(S) /\ Len(w) = Len(q) - 1 + Len(r)
      /\ \A i \in 1..(Len(q) - 1 + Len(r)) : w[i] = IF i <= Len(q) - 1 THEN Tail(q)[i] ELSE r[i - (Len(q) - 1)]
  BY <1>2, ConcatProperties
<1> DEFINE k == Len(q)
<1>4. k \in Nat /\ k > 0 /\ Len(r) \in Nat
  OBVIOUS
<1>10. \A i \in 1..k : n[i] = q[i]
  <2>1. \A i \in 1..k : i \in 1..(Len(q) + Len(r)) /\ i <= Len(q)
    BY <1>4
  <2> HIDE DEF n
  <2> QED BY <1>1, <2>1
<1> HIDE DEF n, w
<1>5. n # <<>>
  <2>1. Len(n) > 0
    BY <1>1, <1>4
  <2> QED BY <1>1, <2>1
<1>6. Head(n) = Head(q)
  <2>1. n[1] = q[1]
    BY <1>1, <1>4
  <2> QED BY <1>1, <1>5, <2>1
<1>7. Tail(n) \in Seq(S) /\ Len(Tail(n)) = Len(n) - 1 /\ \A i \in 1..Len(Tail(n)) : Tail(n)[i] = n[i + 1]
  BY <1>1, <1>5, HeadTailProperties
<1>8. ASSUME NEW i \in 1..Len(Tail(n)) PROVE Tail(n)[i] = w[i]
  <2>1. Tail(n)[i] = n[i + 1] /\ i + 1 \in 1..(k + Len(r))
    BY <1>1, <1>4, <1>7
  <2>2. CASE i <= k - 1
    <3>1. n[i + 1] = q[i + 1]
      <4>1. i + 1 \in 1..k
        BY <1>4, <1>7, <2>2
      <4>2. PICK x \in 1..k : x = i + 1
        BY <4>1
      <4>3. n[x] = q[x]
        BY <1>10
      <4> QED BY <4>2, <4>3
    <3>2. w[i] = Tail(q)[i] /\ Tail(q)[i] = q[i + 1]
      <4>1. i \in 1..Len(Tail(q)) /\ i \in 1..(Len(q) - 1 + Len(r)) /\ i <= Len(q) - 1
        BY <1>1, <1>2, <1>4, <1>7, <2>2
      <4>2. Tail(q)[i] = q[i + 1]
        BY <1>2, <4>1
      <4>3. w[i] = Tail(q)[i]
        BY <1>3, <4>1
      <4> QED BY <4>2, <4>3
    <3> QED BY <2>1, <3>1, <3>2
  <2>3. CASE ~(i <= k - 1)
    <3>1. n[i + 1] = r[i + 1 - k]
      BY <1>1, <1>4, <2>1, <2>3
    <3>2. w[i] = r[i - (k - 1)]
      BY <1>1, <1>3, <1>4, <1>7, <2>3
    <3>3. i + 1 - k = i - (k - 1)
      BY <1>4, <1>7
    <3> QED BY <2>1, <3>1, <3>2, <3>3
  <2> QED BY <2>2, <2>3
<1>9. Tail(n) = w
  <2>1. Len(Tail(n)) = Len(w)
    BY <1>1, <1>3, <1>4, <1>7
  <2> QED BY <1>3, <1>7, <1>8, <2>1, SeqEqual
<1> QED BY <1>1, <1>5, <1>6, <1>9 DEF n, w

\* Members to unlink and to take in, put before the rest of a call.
LEMMA RowGood ==
  ASSUME NEW t, NEW q \in Seq(Segments), NEW r \in Seq(Segments),
         \A i \in 1..Len(q) : /\ q[i].do \in {"unlink", "take", "join"}
                              /\ q[i].do # "unlink" => t = <<q[i].of, "ops">>,
         Shaped(t, r), NoneFirst(r), t[2] = "ops" => r # <<>>,
         NEW n, n = q \o r
  PROVE  /\ n \in Seq(Segments) /\ (r # <<>> => n # <<>>)
         /\ Good(t, n) /\ NoneFirst(n)
         /\ n # <<>> => Head(n).do \notin First
         /\ \A dos, v : Holds(r, dos, v) => Holds(n, dos, v)
<1> DEFINE k == Len(q)
           m == Len(r)
<1>1. k \in Nat /\ m \in Nat
  OBVIOUS
<1>2. n \in Seq(Segments) /\ Len(n) = k + m
      /\ \A i \in 1..(k + m) : n[i] = IF i <= k THEN q[i] ELSE r[i - k]
  BY ConcatProperties
<1>3. Len(r) = m /\ Len(q) = k
  OBVIOUS
<1> HIDE DEF k, m
<1>4. r # <<>> => m > 0
  BY <1>1, <1>3
<1>5. ASSUME NEW i \in 1..k
      PROVE  n[i] = q[i] /\ Leads(t, n[i], Rest(n, i))
  <2>1. n[i] = q[i]
    BY <1>1, <1>2
  <2>2. q[i].do \in {"unlink", "take", "join"} /\ (q[i].do # "unlink" => t = <<q[i].of, "ops">>)
    BY <1>3
  <2>3. ASSUME t[2] = "ops" PROVE Rest(n, i) # <<>>
    <3>1. \A j \in (i + 1)..Len(n) : n[j] \in Segments
      BY <1>1, <1>2
    <3>2. Len(SubSeq(n, i + 1, Len(n))) = IF i + 1 <= Len(n) THEN Len(n) - (i + 1) + 1 ELSE 0
      BY <1>1, <1>2, <3>1, SubSeqProperties
    <3>3. i + 1 <= Len(n) /\ Len(n) - (i + 1) + 1 > 0
      BY <1>1, <1>2, <1>4, <2>3
    <3> DEFINE e == SubSeq(n, i + 1, Len(n))
    <3>4. Len(e) > 0
      BY <1>1, <1>2, <3>2, <3>3
    <3> HIDE DEF e
    <3>5. e # <<>>
      BY <3>4
    <3> QED BY <3>5 DEF e, Rest
  <2> QED BY <2>1, <2>2, <2>3 DEF Leads, Final, OfOps
<1>6. ASSUME NEW i \in 1..m
      PROVE  n[k + i] = r[i] /\ Rest(n, k + i) = Rest(r, i)
  <2>1. n[k + i] = r[i]
    BY <1>1, <1>2
  <2> DEFINE a == Rest(n, k + i)
             b == Rest(r, i)
  <2>2. a \in Seq(Segments) /\ Len(a) = m - i /\ \A j \in 1..Len(a) : a[j] = n[k + i + j]
    <3>1. \A j \in (k + i + 1)..Len(n) : n[j] \in Segments
      BY <1>1, <1>2
    <3>2. a = SubSeq(n, k + i + 1, Len(n))
      BY <1>1 DEF Rest
    <3> HIDE DEF a
    <3>3. a \in Seq(Segments)
          /\ Len(a) = (IF k + i + 1 <= Len(n) THEN Len(n) - (k + i + 1) + 1 ELSE 0)
          /\ \A j \in 1..(Len(n) - (k + i + 1) + 1) : a[j] = n[k + i + 1 + j - 1]
      BY <1>1, <1>2, <3>1, <3>2, SubSeqProperties
    <3>4. Len(a) = m - i
      BY <1>1, <1>2, <3>3
    <3>5. ASSUME NEW j \in 1..Len(a) PROVE a[j] = n[k + i + j]
      <4>1. j \in 1..(Len(n) - (k + i + 1) + 1) /\ k + i + 1 + j - 1 = k + i + j
        BY <1>1, <1>2, <3>4
      <4> QED BY <3>3, <4>1
    <3> QED BY <3>3, <3>4, <3>5
  <2>3. b \in Seq(Segments) /\ Len(b) = m - i /\ \A j \in 1..Len(b) : b[j] = r[i + j]
    <3>1. \A j \in (i + 1)..Len(r) : r[j] \in Segments
      BY <1>1, <1>3
    <3>2. b = SubSeq(r, i + 1, Len(r))
      BY DEF Rest
    <3> HIDE DEF b
    <3>3. b \in Seq(Segments)
          /\ Len(b) = (IF i + 1 <= Len(r) THEN Len(r) - (i + 1) + 1 ELSE 0)
          /\ \A j \in 1..(Len(r) - (i + 1) + 1) : b[j] = r[i + 1 + j - 1]
      BY <1>1, <1>3, <3>1, <3>2, SubSeqProperties
    <3>4. Len(b) = m - i
      BY <1>1, <1>3, <3>3
    <3>5. ASSUME NEW j \in 1..Len(b) PROVE b[j] = r[i + j]
      <4>1. j \in 1..(Len(r) - (i + 1) + 1) /\ i + 1 + j - 1 = i + j
        BY <1>1, <1>3, <3>4
      <4> QED BY <3>3, <4>1
    <3> QED BY <3>3, <3>4, <3>5
  <2> HIDE DEF a, b
  <2>4. ASSUME NEW j \in 1..Len(a) PROVE a[j] = b[j]
    <3>1. a[j] = n[k + i + j] /\ j \in 1..Len(b)
      BY <2>2, <2>3
    <3>2. b[j] = r[i + j]
      BY <2>3, <3>1
    <3> DEFINE x == k + i + j
    <3>3. x \in 1..(k + m) /\ ~(x <= k) /\ x - k = i + j
      BY <1>1, <2>2
    <3>4. a[j] = n[x]
      BY <3>1
    <3> HIDE DEF x
    <3>5. n[x] = r[x - k]
      BY <1>2, <3>3
    <3> QED BY <3>2, <3>3, <3>4, <3>5
  <2>5. a = b
    BY <2>2, <2>3, <2>4, SeqEqual
  <2> QED BY <2>1, <2>5 DEF a, b
<1>7. ASSUME NEW i \in 1..Len(n)
      PROVE  Leads(t, n[i], Rest(n, i)) /\ n[i].do \notin First
  <2>1. CASE i <= k
    <3>1. i \in 1..k
      BY <1>1, <1>2, <2>1
    <3>2. Leads(t, n[i], Rest(n, i)) /\ n[i] = q[i]
      BY <1>5, <3>1
    <3>3. q[i].do \in {"unlink", "take", "join"}
      BY <1>3, <3>1
    <3> QED BY <3>2, <3>3 DEF First
  <2>2. CASE i > k
    <3>1. PICK j \in 1..m : i = k + j
      <4>1. i - k \in 1..m /\ i = k + (i - k)
        BY <1>1, <1>2, <2>2
      <4> QED BY <4>1
    <3>2. n[i] = r[j] /\ Rest(n, i) = Rest(r, j)
      BY <1>6, <3>1
    <3>3. Leads(t, r[j], Rest(r, j)) /\ r[j].do \notin First
      BY <1>3 DEF Shaped, NoneFirst
    <3> QED BY <3>2, <3>3
  <2> QED BY <1>1, <1>2, <2>1, <2>2
<1>8. Shaped(t, n) /\ NoneFirst(n)
  BY <1>7 DEF Shaped, NoneFirst
<1>9. ASSUME NEW dos, NEW v, Holds(r, dos, v) PROVE Holds(n, dos, v)
  <2>1. PICK j \in 1..m : r[j].do \in dos /\ r[j].of = v
    BY <1>3, <1>9 DEF Holds
  <2>2. n[k + j] = r[j] /\ k + j \in 1..Len(n)
    BY <1>1, <1>2, <1>6
  <2> QED BY <2>1, <2>2 DEF Holds
<1>10. ASSUME r # <<>> PROVE n # <<>>
  <2>1. Len(n) > 0
    BY <1>1, <1>2, <1>4, <1>10
  <2>2. n # <<>>
    BY <1>2, <2>1
  <2> QED BY <2>2
<1>11. ASSUME n # <<>> PROVE Head(n).do \notin First /\ NoneFirst(Tail(n))
  BY <1>2, <1>8, <1>11, NonePut
<1> QED BY <1>2, <1>8, <1>9, <1>10, <1>11 DEF Good

LEMMA OrdersOf ==
  ASSUME NEW S \in SUBSET Speakers, NEW o \in SetToSeqs(S)
  PROVE  o \in Seq(Speakers) /\ \A i \in 1..Len(o) : o[i] \in S
<1> DEFINE n == Cardinality(S)
<1>1. n \in Nat
  BY SpeakersAssumption, FS_Subset, FS_CardinalityType
<1>2. o \in [1..n -> S]
  BY DEF SetToSeqs
<1> HIDE DEF n
<1>3. o \in Seq(S)
  BY <1>1, <1>2, SeqDef
<1>4. o \in Seq(Speakers)
  BY <1>3, SeqMonotonic
<1> QED BY <1>3, <1>4

-----------------------------------------------------------------------------
(* The invariant.                                                          *)

Types ==
  /\ groups \subseteq SUBSET Speakers
  /\ owners \in [Speakers -> Players \cup {None}]
  /\ device \in [Players -> Speakers \cup {None}]
  /\ open \in [Players -> BOOLEAN] /\ playing \in [Players -> BOOLEAN]
  /\ polling \in [Players -> BOOLEAN]
  /\ members \in [Players -> SUBSET Speakers]
  /\ reported \in [Players -> {"none", "playing", "paused"}]
  /\ chain \in [Players -> Seq(Commands)]
  /\ call \in [Threads -> Seq(Segments)]

\* A thread that can go on: it runs a call, and does not wait for an operation.
Waits(t)  == Head(call[t]).do = "wait" /\ ~Answered(t, Head(call[t]).of)
Active(t) == call[t] # <<>> /\ ~Waits(t)

\* One thing moves at a time: a thread, or an operation about to start.
OneThread == \A t, u \in Threads : Active(t) /\ Active(u) => t = u
OneStart  == \A p, q \in Players : Startable(p) /\ Startable(q) => p = q
NotBoth   == \A t \in Threads, p \in Players : ~(Active(t) /\ Startable(p))

\* An operation asked of a player that runs one comes from a thread that this
\* one waits for: nothing moves any more.
Blocked == \A p \in Players : Len(chain[p]) > 1 =>
  (\A t \in Threads : ~Active(t)) /\ (\A q \in Players : ~Startable(q))

Chained == \A p \in Players : call[<<p, "ops">>] # <<>> => chain[p] # <<>>

Formed == \A t \in Threads : Good(t, call[t])

\* Nobody else closed the transport a thread found open a step ago.
Sure == \A t \in Threads :
  call[t] # <<>> /\ Head(call[t]).do \in {"halted", "started", "flip", "read"} => open[Head(call[t]).of]

Turned == OneThread /\ OneStart /\ NotBoth /\ Blocked /\ Chained /\ Formed /\ Sure

\* Some call has still to do one of dos for p.
Pends(p, dos) == \E t \in Threads : Holds(call[t], dos, p)

Loud(p) == playing[p] \/ reported[p] = "playing"

\* A player without a transport is silent, or about to be, or to get one.
Voiced == \A p \in Players : Loud(p) => open[p] \/ Pends(p, {"free", "adopt"})

\* A transport is followed by the poll, or about to be, or to be closed.
Watched == "fail" \notin Env =>
  \A p \in Players : open[p] => polling[p] \/ Pends(p, {"halt", "halted", "part", "start", "started"})

IInv == Types /\ Turned /\ Voiced /\ Watched

-----------------------------------------------------------------------------
(* A thread's turn.                                                        *)

\* A thread goes on, and no operation is asked for or done.
LEMMA GoesOn ==
  ASSUME Types, Turned, NEW t \in Threads, Active(t),
         NEW n \in Seq(Segments), Good(t, n), t[2] = "ops" => n # <<>>,
         n # <<>> /\ Head(n).do \in {"halted", "started", "flip", "read"} => open'[Head(n).of],
         call' = [call EXCEPT ![t] = n], chain' = chain
  PROVE  Turned' /\ call' \in [Threads -> Seq(Segments)]
<1>1. call' \in [Threads -> Seq(Segments)] /\ call'[t] = n
      /\ \A u \in Threads : u # t => call'[u] = call[u]
  BY DEF Types
<1>2. \A u \in Threads : u # t => ~Active(u) /\ ~Active(u)'
  BY <1>1 DEF Turned, OneThread, Active, Waits, Answered
<1>3. ASSUME NEW p \in Players PROVE ~Startable(p)'
  <2>1. ~Startable(p) /\ <<p, "ops">> \in Threads
    BY DEF Turned, NotBoth, Threads
  <2>2. CASE t = <<p, "ops">>
    BY <1>1, <2>2 DEF Startable
  <2>3. CASE t # <<p, "ops">>
    BY <1>1, <2>1, <2>3 DEF Startable
  <2> QED BY <2>2, <2>3
<1>4. OneThread' /\ OneStart' /\ NotBoth'
  BY <1>2, <1>3 DEF OneThread, OneStart, NotBoth
<1>5. Blocked'
  BY DEF Turned, Blocked
<1>6. Chained'
  <2>1. ASSUME NEW p \in Players, call'[<<p, "ops">>] # <<>> PROVE chain'[p] # <<>>
    <3>1. <<p, "ops">> \in Threads
      BY DEF Threads
    <3>2. call[<<p, "ops">>] # <<>>
      BY <1>1, <2>1, <3>1 DEF Active
    <3> QED BY <3>2 DEF Turned, Chained
  <2> QED BY <2>1 DEF Chained
<1>7. Formed'
  BY <1>1 DEF Turned, Formed
<1>8. Sure'
  <2>1. ASSUME NEW u \in Threads, call'[u] # <<>>,
               Head(call'[u]).do \in {"halted", "started", "flip", "read"}
        PROVE  open'[Head(call'[u]).of]
    <3>1. CASE u = t
      BY <1>1, <2>1, <3>1
    <3>2. CASE u # t
      <4>1. ~Active(u) /\ call'[u] = call[u]
        BY <1>1, <1>2, <3>2
      <4>2. Head(call[u]).do = "wait"
        BY <2>1, <4>1 DEF Active, Waits
      <4> QED BY <2>1, <4>1, <4>2
    <3> QED BY <3>1, <3>2
  <2> QED BY <2>1 DEF Sure
<1> QED BY <1>1, <1>4, <1>5, <1>6, <1>7, <1>8 DEF Turned

LEMMA StillPends ==
  ASSUME Types, NEW t \in Threads, NEW n, call' = [call EXCEPT ![t] = n],
         NEW p, NEW dos, Holds(call[t], dos, p) => Holds(n, dos, p), Pends(p, dos)
  PROVE  Pends(p, dos)'
<1>1. PICK u \in Threads : Holds(call[u], dos, p)
  BY DEF Pends
<1>2. call'[t] = n /\ (u # t => call'[u] = call[u])
  BY DEF Types
<1>3. Holds(call'[u], dos, p)
  BY <1>1, <1>2
<1> QED BY <1>3 DEF Pends, Holds

LEMMA NowPends ==
  ASSUME Types, NEW t \in Threads, NEW n, call' = [call EXCEPT ![t] = n],
         NEW p, NEW dos, Holds(n, dos, p)
  PROVE  Pends(p, dos)'
<1>1. call'[t] = n
  BY DEF Types
<1> QED BY <1>1 DEF Pends, Holds

\* The thread whose turn it is: the segment it runs, and what follows.
LEMMA TurnOf ==
  ASSUME Types, Turned, NEW t \in Threads, call[t] # <<>>
  PROVE  /\ Head(call[t]) \in Segments /\ Tail(call[t]) \in Seq(Segments)
         /\ Head(call[t]).do \in Dos /\ Head(call[t]).of \in Players
         /\ Head(call[t]).do \in OnSpeaker => Head(call[t]).arg \in Speakers
         /\ Head(call[t]).do \in OnPlaying => Head(call[t]).arg \in BOOLEAN
         /\ Leads(t, Head(call[t]), Tail(call[t]))
         /\ Shaped(t, Tail(call[t])) /\ NoneFirst(Tail(call[t])) /\ Good(t, Tail(call[t]))
         /\ \A dos, v : Holds(call[t], dos, v) <=>
              (Head(call[t]).do \in dos /\ Head(call[t]).of = v) \/ Holds(Tail(call[t]), dos, v)
         /\ Tail(call[t]) # <<>> => Head(Tail(call[t])).do \notin First
<1>1. call[t] \in Seq(Segments) /\ Good(t, call[t])
  BY DEF Types, Turned, Formed
<1> DEFINE s == call[t]
<1> HIDE DEF s
<1>2. s \in Seq(Segments) /\ Good(t, s) /\ s # <<>>
  BY <1>1 DEF s
<1>3. /\ Head(s) \in Segments /\ Tail(s) \in Seq(Segments)
      /\ Leads(t, Head(s), Tail(s))
      /\ Shaped(t, Tail(s)) /\ NoneFirst(Tail(s)) /\ Good(t, Tail(s))
      /\ \A dos, v : Holds(s, dos, v) <=> (Head(s).do \in dos /\ Head(s).of = v) \/ Holds(Tail(s), dos, v)
  BY <1>2, GoodTail
<1>4. Tail(s) # <<>> => Head(Tail(s)).do \notin First
  BY <1>3, NonePut
<1>5. /\ Head(s).do \in Dos /\ Head(s).of \in Players
      /\ Head(s).do \in OnSpeaker => Head(s).arg \in Speakers
      /\ Head(s).do \in OnPlaying => Head(s).arg \in BOOLEAN
  BY <1>3 DEF Segments
<1> QED BY <1>3, <1>4, <1>5 DEF s

-----------------------------------------------------------------------------
(* The calls and their parts are well shaped.                              *)

LEMMA SegIs ==
  ASSUME NEW do \in Dos, do \notin OnSpeaker, do \notin OnPlaying, NEW v \in Players
  PROVE  Seg(do, v) \in Segments /\ Seg(do, v).do = do /\ Seg(do, v).of = v
BY DEF Seg, Segments

LEMMA SegToIs ==
  ASSUME NEW do \in Dos, NEW v \in Players, NEW a,
         (do \in OnSpeaker /\ a \in Speakers) \/ (do \in OnPlaying /\ a \in BOOLEAN)
  PROVE  SegTo(do, v, a) \in Segments /\ SegTo(do, v, a).do = do /\ SegTo(do, v, a).of = v
BY DEF SegTo, Segments, OnSpeaker, OnPlaying

LEMMA YieldGood ==
  ASSUME NEW t, NEW v \in Players, NEW r \in Seq(Segments), Body(t, r),
         t[2] = "ops" => r # <<>>, NEW n, n = Yield(v) \o r
  PROVE  /\ n \in Seq(Segments) /\ n # <<>> /\ Good(t, n) /\ Body(t, n)
         /\ Head(n).do \notin First
         /\ \A dos, w : Holds(r, dos, w) => Holds(n, dos, w)
<1> DEFINE a == Seg("quiet", v)
           b == Seg("dissolve", v)
           c == Seg("halt", v)
           d == Seg("free", v)
<1>1. /\ a \in Segments /\ a.do = "quiet" /\ a.of = v
      /\ b \in Segments /\ b.do = "dissolve" /\ b.of = v
      /\ c \in Segments /\ c.do = "halt" /\ c.of = v
      /\ d \in Segments /\ d.do = "free" /\ d.of = v
  BY SegIs, SegToIs DEF Dos, OnSpeaker, OnPlaying
<1>2. Yield(v) = <<a, b, c, d>>
  BY DEF Yield
<1> HIDE DEF a, b, c, d
<1> DEFINE q4 == <<a, b, c, d>>
           q3 == <<b, c, d>>
           q2 == <<c, d>>
           q1 == <<d>>
           q0 == <<>>
<1>3. q4 \in Seq(Segments) /\ q4 # <<>> /\ Head(q4) = a /\ Tail(q4) = q3
  BY <1>1
<1>4. q3 \in Seq(Segments) /\ q3 # <<>> /\ Head(q3) = b /\ Tail(q3) = q2
  BY <1>1
<1>5. q2 \in Seq(Segments) /\ q2 # <<>> /\ Head(q2) = c /\ Tail(q2) = q1
  BY <1>1
<1>6. q1 \in Seq(Segments) /\ q1 # <<>> /\ Head(q1) = d /\ Tail(q1) = q0
  BY <1>1
<1>7. q0 \o r = r /\ r \in Seq(Segments)
  BY ConcatEmptySeq
<1>8. n = q4 \o r
  BY <1>2
<1> HIDE DEF q4, q3, q2, q1, q0
<1> DEFINE n4 == q4 \o r
           n3 == q3 \o r
           n2 == q2 \o r
           n1 == q1 \o r
<1>9. n4 \in Seq(Segments) /\ n4 # <<>> /\ Head(n4) = a /\ Tail(n4) = n3
  BY <1>3, <1>7, ConcatHead
<1>10. n3 \in Seq(Segments) /\ n3 # <<>> /\ Head(n3) = b /\ Tail(n3) = n2
  BY <1>4, <1>7, ConcatHead
<1>11. n2 \in Seq(Segments) /\ n2 # <<>> /\ Head(n2) = c /\ Tail(n2) = n1
  BY <1>5, <1>7, ConcatHead
<1>12. n1 \in Seq(Segments) /\ n1 # <<>> /\ Head(n1) = d /\ Tail(n1) = r
  BY <1>6, <1>7, ConcatHead
<1> HIDE DEF n4, n3, n2, n1
<1>13. Leads(t, d, r)
  BY <1>1, <1>12 DEF Leads, Final, OfOps
<1>14. Good(t, n1) /\ Body(t, n1)
  BY <1>1, <1>12, <1>13, GoodPut DEF First
<1>15. ASSUME NEW dos, NEW w
      PROVE  Holds(n1, dos, w) <=> (d.do \in dos /\ d.of = w) \/ Holds(r, dos, w)
  BY <1>12, HoldsPut
<1>16. Leads(t, c, n1)
  BY <1>1, <1>11, <1>12, <1>15 DEF Leads, Final, OfOps
<1>17. Good(t, n2) /\ Body(t, n2)
  BY <1>1, <1>11, <1>16, <1>14, GoodPut DEF First
<1>18. ASSUME NEW dos, NEW w
      PROVE  Holds(n2, dos, w) <=> (c.do \in dos /\ c.of = w) \/ Holds(n1, dos, w)
  BY <1>11, HoldsPut
<1>19. Leads(t, b, n2)
  BY <1>1, <1>10, <1>11, <1>15, <1>18 DEF Leads, Final, OfOps
<1>20. Good(t, n3) /\ Body(t, n3)
  BY <1>1, <1>10, <1>19, <1>17, GoodPut DEF First
<1>21. ASSUME NEW dos, NEW w
      PROVE  Holds(n3, dos, w) <=> (b.do \in dos /\ b.of = w) \/ Holds(n2, dos, w)
  BY <1>10, HoldsPut
<1>22. Leads(t, a, n3)
  BY <1>1, <1>9, <1>10, <1>15, <1>18, <1>21 DEF Leads, Final, OfOps
<1>23. Good(t, n4) /\ Body(t, n4)
  BY <1>1, <1>9, <1>22, <1>20, GoodPut DEF First
<1>24. ASSUME NEW dos, NEW w
      PROVE  Holds(n4, dos, w) <=> (a.do \in dos /\ a.of = w) \/ Holds(n3, dos, w)
  BY <1>9, HoldsPut
<1>25. ASSUME NEW dos, NEW w, Holds(r, dos, w) PROVE Holds(n4, dos, w)
  BY <1>15, <1>18, <1>21, <1>24, <1>25
<1>26. Head(n4).do \notin First
  BY <1>1, <1>9 DEF First
<1>27. n = n4
  BY <1>8 DEF n4
<1> QED BY <1>9, <1>23, <1>25, <1>26, <1>27

LEMMA LinkingGood ==
  ASSUME NEW t, NEW v \in Players, NEW m \in Speakers, t = <<v, "ops">>,
         NEW r \in Seq(Segments), Body(t, r), r # <<>>, NEW n, n = Linking(v, m) \o r
  PROVE  /\ n \in Seq(Segments) /\ n # <<>> /\ Good(t, n) /\ Body(t, n)
         /\ Head(n).do \notin First
         /\ \A dos, w : Holds(r, dos, w) => Holds(n, dos, w)
<1> DEFINE a == SegTo("claim", v, m)
           b == SegTo("own", v, m)
           c == SegTo("slave", v, m)
<1>1. /\ a \in Segments /\ a.do = "claim" /\ a.of = v
      /\ b \in Segments /\ b.do = "own" /\ b.of = v
      /\ c \in Segments /\ c.do = "slave" /\ c.of = v
  BY SegIs, SegToIs DEF Dos, OnSpeaker, OnPlaying
<1>2. Linking(v, m) = <<a, b, c>>
  BY DEF Linking
<1> HIDE DEF a, b, c
<1> DEFINE q3 == <<a, b, c>>
           q2 == <<b, c>>
           q1 == <<c>>
           q0 == <<>>
<1>3. q3 \in Seq(Segments) /\ q3 # <<>> /\ Head(q3) = a /\ Tail(q3) = q2
  BY <1>1
<1>4. q2 \in Seq(Segments) /\ q2 # <<>> /\ Head(q2) = b /\ Tail(q2) = q1
  BY <1>1
<1>5. q1 \in Seq(Segments) /\ q1 # <<>> /\ Head(q1) = c /\ Tail(q1) = q0
  BY <1>1
<1>6. q0 \o r = r /\ r \in Seq(Segments)
  BY ConcatEmptySeq
<1>7. n = q3 \o r
  BY <1>2
<1> HIDE DEF q3, q2, q1, q0
<1> DEFINE n3 == q3 \o r
           n2 == q2 \o r
           n1 == q1 \o r
<1>8. n3 \in Seq(Segments) /\ n3 # <<>> /\ Head(n3) = a /\ Tail(n3) = n2
  BY <1>3, <1>6, ConcatHead
<1>9. n2 \in Seq(Segments) /\ n2 # <<>> /\ Head(n2) = b /\ Tail(n2) = n1
  BY <1>4, <1>6, ConcatHead
<1>10. n1 \in Seq(Segments) /\ n1 # <<>> /\ Head(n1) = c /\ Tail(n1) = r
  BY <1>5, <1>6, ConcatHead
<1> HIDE DEF n3, n2, n1
<1>11. Leads(t, c, r)
  BY <1>1, <1>10 DEF Leads, Final, OfOps
<1>12. Good(t, n1) /\ Body(t, n1)
  BY <1>1, <1>10, <1>11, GoodPut DEF First
<1>13. ASSUME NEW dos, NEW w
      PROVE  Holds(n1, dos, w) <=> (c.do \in dos /\ c.of = w) \/ Holds(r, dos, w)
  BY <1>10, HoldsPut
<1>14. Leads(t, b, n1)
  BY <1>1, <1>9, <1>10, <1>13 DEF Leads, Final, OfOps
<1>15. Good(t, n2) /\ Body(t, n2)
  BY <1>1, <1>9, <1>14, <1>12, GoodPut DEF First
<1>16. ASSUME NEW dos, NEW w
      PROVE  Holds(n2, dos, w) <=> (b.do \in dos /\ b.of = w) \/ Holds(n1, dos, w)
  BY <1>9, HoldsPut
<1>17. Leads(t, a, n2)
  BY <1>1, <1>8, <1>9, <1>13, <1>16 DEF Leads, Final, OfOps
<1>18. Good(t, n3) /\ Body(t, n3)
  BY <1>1, <1>8, <1>17, <1>15, GoodPut DEF First
<1>19. ASSUME NEW dos, NEW w
      PROVE  Holds(n3, dos, w) <=> (a.do \in dos /\ a.of = w) \/ Holds(n2, dos, w)
  BY <1>8, HoldsPut
<1>20. ASSUME NEW dos, NEW w, Holds(r, dos, w) PROVE Holds(n3, dos, w)
  BY <1>13, <1>16, <1>19, <1>20
<1>21. Head(n3).do \notin First
  BY <1>1, <1>8 DEF First
<1>22. n = n3
  BY <1>7 DEF n3
<1> QED BY <1>8, <1>18, <1>20, <1>21, <1>22

\* A player that takes a speaker then starts to play there.
LEMMA TakeGood ==
  ASSUME NEW t, NEW v \in Players, NEW s \in Speakers, t = <<v, "ops">>,
         NEW r \in Seq(Segments), Body(t, r), r # <<>>, Holds(r, {"start"}, v), NEW n, n = Take(v, s) \o r
  PROVE  /\ n \in Seq(Segments) /\ n # <<>> /\ Good(t, n) /\ Body(t, n)
         /\ Holds(n, {"free", "adopt"}, v)
<1> DEFINE a == SegTo("claim", v, s)
           b == SegTo("own", v, s)
           c == SegTo("adopt", v, s)
           d == Seg("form", v)
<1>1. /\ a \in Segments /\ a.do = "claim" /\ a.of = v
      /\ b \in Segments /\ b.do = "own" /\ b.of = v
      /\ c \in Segments /\ c.do = "adopt" /\ c.of = v
      /\ d \in Segments /\ d.do = "form" /\ d.of = v
  BY SegIs, SegToIs DEF Dos, OnSpeaker, OnPlaying
<1>2. Take(v, s) = <<a, b, c, d>>
  BY DEF Take
<1> HIDE DEF a, b, c, d
<1> DEFINE q4 == <<a, b, c, d>>
           q3 == <<b, c, d>>
           q2 == <<c, d>>
           q1 == <<d>>
           q0 == <<>>
<1>3. q4 \in Seq(Segments) /\ q4 # <<>> /\ Head(q4) = a /\ Tail(q4) = q3
  BY <1>1
<1>4. q3 \in Seq(Segments) /\ q3 # <<>> /\ Head(q3) = b /\ Tail(q3) = q2
  BY <1>1
<1>5. q2 \in Seq(Segments) /\ q2 # <<>> /\ Head(q2) = c /\ Tail(q2) = q1
  BY <1>1
<1>6. q1 \in Seq(Segments) /\ q1 # <<>> /\ Head(q1) = d /\ Tail(q1) = q0
  BY <1>1
<1>7. q0 \o r = r /\ r \in Seq(Segments)
  BY ConcatEmptySeq
<1>8. n = q4 \o r
  BY <1>2
<1> HIDE DEF q4, q3, q2, q1, q0
<1> DEFINE n4 == q4 \o r
           n3 == q3 \o r
           n2 == q2 \o r
           n1 == q1 \o r
<1>9. n4 \in Seq(Segments) /\ n4 # <<>> /\ Head(n4) = a /\ Tail(n4) = n3
  BY <1>3, <1>7, ConcatHead
<1>10. n3 \in Seq(Segments) /\ n3 # <<>> /\ Head(n3) = b /\ Tail(n3) = n2
  BY <1>4, <1>7, ConcatHead
<1>11. n2 \in Seq(Segments) /\ n2 # <<>> /\ Head(n2) = c /\ Tail(n2) = n1
  BY <1>5, <1>7, ConcatHead
<1>12. n1 \in Seq(Segments) /\ n1 # <<>> /\ Head(n1) = d /\ Tail(n1) = r
  BY <1>6, <1>7, ConcatHead
<1> HIDE DEF n4, n3, n2, n1
<1>13. Leads(t, d, r)
  BY <1>1, <1>12 DEF Leads, Final, OfOps
<1>14. Good(t, n1) /\ Body(t, n1)
  BY <1>1, <1>12, <1>13, GoodPut DEF First
<1>15. ASSUME NEW dos, NEW w
      PROVE  Holds(n1, dos, w) <=> (d.do \in dos /\ d.of = w) \/ Holds(r, dos, w)
  BY <1>12, HoldsPut
<1>16. Leads(t, c, n1)
  BY <1>1, <1>11, <1>12, <1>15 DEF Leads, Final, OfOps
<1>17. Good(t, n2) /\ Body(t, n2)
  BY <1>1, <1>11, <1>16, <1>14, GoodPut DEF First
<1>18. ASSUME NEW dos, NEW w
      PROVE  Holds(n2, dos, w) <=> (c.do \in dos /\ c.of = w) \/ Holds(n1, dos, w)
  BY <1>11, HoldsPut
<1>19. Leads(t, b, n2)
  BY <1>1, <1>10, <1>11, <1>15, <1>18 DEF Leads, Final, OfOps
<1>20. Good(t, n3) /\ Body(t, n3)
  BY <1>1, <1>10, <1>19, <1>17, GoodPut DEF First
<1>21. ASSUME NEW dos, NEW w
      PROVE  Holds(n3, dos, w) <=> (b.do \in dos /\ b.of = w) \/ Holds(n2, dos, w)
  BY <1>10, HoldsPut
<1>22. Leads(t, a, n3)
  BY <1>1, <1>9, <1>10, <1>15, <1>18, <1>21 DEF Leads, Final, OfOps
<1>23. Good(t, n4) /\ Body(t, n4)
  BY <1>1, <1>9, <1>22, <1>20, GoodPut DEF First
<1>24. ASSUME NEW dos, NEW w
      PROVE  Holds(n4, dos, w) <=> (a.do \in dos /\ a.of = w) \/ Holds(n3, dos, w)
  BY <1>9, HoldsPut
<1>25. Holds(n4, {"free", "adopt"}, v)
  BY <1>1, <1>15, <1>18, <1>21, <1>24
<1>26. n = n4
  BY <1>8 DEF n4
<1> QED BY <1>9, <1>23, <1>25, <1>26

LEMMA LeaveGood ==
  ASSUME NEW t, NEW v \in Players, t = <<v, "ops">>,
         NEW r \in Seq(Segments), Body(t, r), r # <<>>, Holds(r, {"free", "adopt"}, v),
         NEW n, n = Leave(v) \o r
  PROVE  n \in Seq(Segments) /\ n # <<>> /\ Good(t, n) /\ Body(t, n)
<1> DEFINE a == Seg("dissolve", v)
           b == Seg("halt", v)
           c == Seg("release", v)
<1>1. /\ a \in Segments /\ a.do = "dissolve" /\ a.of = v
      /\ b \in Segments /\ b.do = "halt" /\ b.of = v
      /\ c \in Segments /\ c.do = "release" /\ c.of = v
  BY SegIs, SegToIs DEF Dos, OnSpeaker, OnPlaying
<1>2. Leave(v) = <<a, b, c>>
  BY DEF Leave
<1> HIDE DEF a, b, c
<1> DEFINE q3 == <<a, b, c>>
           q2 == <<b, c>>
           q1 == <<c>>
           q0 == <<>>
<1>3. q3 \in Seq(Segments) /\ q3 # <<>> /\ Head(q3) = a /\ Tail(q3) = q2
  BY <1>1
<1>4. q2 \in Seq(Segments) /\ q2 # <<>> /\ Head(q2) = b /\ Tail(q2) = q1
  BY <1>1
<1>5. q1 \in Seq(Segments) /\ q1 # <<>> /\ Head(q1) = c /\ Tail(q1) = q0
  BY <1>1
<1>6. q0 \o r = r /\ r \in Seq(Segments)
  BY ConcatEmptySeq
<1>7. n = q3 \o r
  BY <1>2
<1> HIDE DEF q3, q2, q1, q0
<1> DEFINE n3 == q3 \o r
           n2 == q2 \o r
           n1 == q1 \o r
<1>8. n3 \in Seq(Segments) /\ n3 # <<>> /\ Head(n3) = a /\ Tail(n3) = n2
  BY <1>3, <1>6, ConcatHead
<1>9. n2 \in Seq(Segments) /\ n2 # <<>> /\ Head(n2) = b /\ Tail(n2) = n1
  BY <1>4, <1>6, ConcatHead
<1>10. n1 \in Seq(Segments) /\ n1 # <<>> /\ Head(n1) = c /\ Tail(n1) = r
  BY <1>5, <1>6, ConcatHead
<1> HIDE DEF n3, n2, n1
<1>11. Leads(t, c, r)
  BY <1>1, <1>10 DEF Leads, Final, OfOps
<1>12. Good(t, n1) /\ Body(t, n1)
  BY <1>1, <1>10, <1>11, GoodPut DEF First
<1>13. ASSUME NEW dos, NEW w
      PROVE  Holds(n1, dos, w) <=> (c.do \in dos /\ c.of = w) \/ Holds(r, dos, w)
  BY <1>10, HoldsPut
<1>14. Leads(t, b, n1)
  BY <1>1, <1>9, <1>10, <1>13 DEF Leads, Final, OfOps
<1>15. Good(t, n2) /\ Body(t, n2)
  BY <1>1, <1>9, <1>14, <1>12, GoodPut DEF First
<1>16. ASSUME NEW dos, NEW w
      PROVE  Holds(n2, dos, w) <=> (b.do \in dos /\ b.of = w) \/ Holds(n1, dos, w)
  BY <1>9, HoldsPut
<1>17. Leads(t, a, n2)
  BY <1>1, <1>8, <1>9, <1>13, <1>16 DEF Leads, Final, OfOps
<1>18. Good(t, n3) /\ Body(t, n3)
  BY <1>1, <1>8, <1>17, <1>15, GoodPut DEF First
<1>19. ASSUME NEW dos, NEW w
      PROVE  Holds(n3, dos, w) <=> (a.do \in dos /\ a.of = w) \/ Holds(n2, dos, w)
  BY <1>8, HoldsPut
<1>20. n = n3
  BY <1>7 DEF n3
<1> QED BY <1>8, <1>18, <1>20

LEMMA PartGood ==
  ASSUME NEW t, NEW v \in Players, NEW s \in Speakers, t = <<v, "ops">>,
         NEW r \in Seq(Segments), Body(t, r), r # <<>>, Holds(r, {"free", "adopt"}, v),
         NEW n, n = <<Seg("quiet", v), Seg("dissolve", v), SegTo("part", v, s)>> \o r
  PROVE  n \in Seq(Segments) /\ n # <<>> /\ Good(t, n) /\ Body(t, n)
<1> DEFINE a == Seg("quiet", v)
           b == Seg("dissolve", v)
           c == SegTo("part", v, s)
<1>1. /\ a \in Segments /\ a.do = "quiet" /\ a.of = v
      /\ b \in Segments /\ b.do = "dissolve" /\ b.of = v
      /\ c \in Segments /\ c.do = "part" /\ c.of = v
  BY SegIs, SegToIs DEF Dos, OnSpeaker, OnPlaying
<1>2. n = <<a, b, c>> \o r
  OBVIOUS
<1> HIDE DEF a, b, c
<1> DEFINE q3 == <<a, b, c>>
           q2 == <<b, c>>
           q1 == <<c>>
           q0 == <<>>
<1>3. q3 \in Seq(Segments) /\ q3 # <<>> /\ Head(q3) = a /\ Tail(q3) = q2
  BY <1>1
<1>4. q2 \in Seq(Segments) /\ q2 # <<>> /\ Head(q2) = b /\ Tail(q2) = q1
  BY <1>1
<1>5. q1 \in Seq(Segments) /\ q1 # <<>> /\ Head(q1) = c /\ Tail(q1) = q0
  BY <1>1
<1>6. q0 \o r = r /\ r \in Seq(Segments)
  BY ConcatEmptySeq
<1>7. n = q3 \o r
  BY <1>2
<1> HIDE DEF q3, q2, q1, q0
<1> DEFINE n3 == q3 \o r
           n2 == q2 \o r
           n1 == q1 \o r
<1>8. n3 \in Seq(Segments) /\ n3 # <<>> /\ Head(n3) = a /\ Tail(n3) = n2
  BY <1>3, <1>6, ConcatHead
<1>9. n2 \in Seq(Segments) /\ n2 # <<>> /\ Head(n2) = b /\ Tail(n2) = n1
  BY <1>4, <1>6, ConcatHead
<1>10. n1 \in Seq(Segments) /\ n1 # <<>> /\ Head(n1) = c /\ Tail(n1) = r
  BY <1>5, <1>6, ConcatHead
<1> HIDE DEF n3, n2, n1
<1>11. Leads(t, c, r)
  BY <1>1, <1>10 DEF Leads, Final, OfOps
<1>12. Good(t, n1) /\ Body(t, n1)
  BY <1>1, <1>10, <1>11, GoodPut DEF First
<1>13. ASSUME NEW dos, NEW w
      PROVE  Holds(n1, dos, w) <=> (c.do \in dos /\ c.of = w) \/ Holds(r, dos, w)
  BY <1>10, HoldsPut
<1>14. Leads(t, b, n1)
  BY <1>1, <1>9, <1>10, <1>13 DEF Leads, Final, OfOps
<1>15. Good(t, n2) /\ Body(t, n2)
  BY <1>1, <1>9, <1>14, <1>12, GoodPut DEF First
<1>16. ASSUME NEW dos, NEW w
      PROVE  Holds(n2, dos, w) <=> (b.do \in dos /\ b.of = w) \/ Holds(n1, dos, w)
  BY <1>9, HoldsPut
<1>17. Leads(t, a, n2)
  BY <1>1, <1>8, <1>9, <1>13, <1>16 DEF Leads, Final, OfOps
<1>18. Good(t, n3) /\ Body(t, n3)
  BY <1>1, <1>8, <1>17, <1>15, GoodPut DEF First
<1>19. ASSUME NEW dos, NEW w
      PROVE  Holds(n3, dos, w) <=> (a.do \in dos /\ a.of = w) \/ Holds(n2, dos, w)
  BY <1>8, HoldsPut
<1>20. n = n3
  BY <1>7 DEF n3
<1> QED BY <1>8, <1>18, <1>20

LEMMA RegroupGood ==
  ASSUME NEW t, NEW v \in Players, t = <<v, "ops">>,
         NEW r \in Seq(Segments), Body(t, r), r # <<>>, NEW n, n = <<Seg("form", v), Seg("show", v)>> \o r
  PROVE  n \in Seq(Segments) /\ n # <<>> /\ Good(t, n) /\ Body(t, n)
<1> DEFINE a == Seg("form", v)
           b == Seg("show", v)
<1>1. /\ a \in Segments /\ a.do = "form" /\ a.of = v
      /\ b \in Segments /\ b.do = "show" /\ b.of = v
  BY SegIs, SegToIs DEF Dos, OnSpeaker, OnPlaying
<1>2. n = <<a, b>> \o r
  OBVIOUS
<1> HIDE DEF a, b
<1> DEFINE q2 == <<a, b>>
           q1 == <<b>>
           q0 == <<>>
<1>3. q2 \in Seq(Segments) /\ q2 # <<>> /\ Head(q2) = a /\ Tail(q2) = q1
  BY <1>1
<1>4. q1 \in Seq(Segments) /\ q1 # <<>> /\ Head(q1) = b /\ Tail(q1) = q0
  BY <1>1
<1>5. q0 \o r = r /\ r \in Seq(Segments)
  BY ConcatEmptySeq
<1>6. n = q2 \o r
  BY <1>2
<1> HIDE DEF q2, q1, q0
<1> DEFINE n2 == q2 \o r
           n1 == q1 \o r
<1>7. n2 \in Seq(Segments) /\ n2 # <<>> /\ Head(n2) = a /\ Tail(n2) = n1
  BY <1>3, <1>5, ConcatHead
<1>8. n1 \in Seq(Segments) /\ n1 # <<>> /\ Head(n1) = b /\ Tail(n1) = r
  BY <1>4, <1>5, ConcatHead
<1> HIDE DEF n2, n1
<1>9. Leads(t, b, r)
  BY <1>1, <1>8 DEF Leads, Final, OfOps
<1>10. Good(t, n1) /\ Body(t, n1)
  BY <1>1, <1>8, <1>9, GoodPut DEF First
<1>11. ASSUME NEW dos, NEW w
      PROVE  Holds(n1, dos, w) <=> (b.do \in dos /\ b.of = w) \/ Holds(r, dos, w)
  BY <1>8, HoldsPut
<1>12. Leads(t, a, n1)
  BY <1>1, <1>7, <1>8, <1>11 DEF Leads, Final, OfOps
<1>13. Good(t, n2) /\ Body(t, n2)
  BY <1>1, <1>7, <1>12, <1>10, GoodPut DEF First
<1>14. ASSUME NEW dos, NEW w
      PROVE  Holds(n2, dos, w) <=> (a.do \in dos /\ a.of = w) \/ Holds(n1, dos, w)
  BY <1>7, HoldsPut
<1>15. n = n2
  BY <1>6 DEF n2
<1> QED BY <1>7, <1>13, <1>15

LEMMA DropGood ==
  ASSUME NEW t, NEW v \in Players, t = <<v, "ops">>, NEW m \in Speakers,
         NEW r \in Seq(Segments), Body(t, r), r # <<>>, NEW n, n = <<SegTo("unlink", v, m), Seg("show", v)>> \o r
  PROVE  n \in Seq(Segments) /\ n # <<>> /\ Good(t, n) /\ Body(t, n)
<1> DEFINE a == SegTo("unlink", v, m)
           b == Seg("show", v)
<1>1. /\ a \in Segments /\ a.do = "unlink" /\ a.of = v
      /\ b \in Segments /\ b.do = "show" /\ b.of = v
  BY SegIs, SegToIs DEF Dos, OnSpeaker, OnPlaying
<1>2. n = <<a, b>> \o r
  OBVIOUS
<1> HIDE DEF a, b
<1> DEFINE q2 == <<a, b>>
           q1 == <<b>>
           q0 == <<>>
<1>3. q2 \in Seq(Segments) /\ q2 # <<>> /\ Head(q2) = a /\ Tail(q2) = q1
  BY <1>1
<1>4. q1 \in Seq(Segments) /\ q1 # <<>> /\ Head(q1) = b /\ Tail(q1) = q0
  BY <1>1
<1>5. q0 \o r = r /\ r \in Seq(Segments)
  BY ConcatEmptySeq
<1>6. n = q2 \o r
  BY <1>2
<1> HIDE DEF q2, q1, q0
<1> DEFINE n2 == q2 \o r
           n1 == q1 \o r
<1>7. n2 \in Seq(Segments) /\ n2 # <<>> /\ Head(n2) = a /\ Tail(n2) = n1
  BY <1>3, <1>5, ConcatHead
<1>8. n1 \in Seq(Segments) /\ n1 # <<>> /\ Head(n1) = b /\ Tail(n1) = r
  BY <1>4, <1>5, ConcatHead
<1> HIDE DEF n2, n1
<1>9. Leads(t, b, r)
  BY <1>1, <1>8 DEF Leads, Final, OfOps
<1>10. Good(t, n1) /\ Body(t, n1)
  BY <1>1, <1>8, <1>9, GoodPut DEF First
<1>11. ASSUME NEW dos, NEW w
      PROVE  Holds(n1, dos, w) <=> (b.do \in dos /\ b.of = w) \/ Holds(r, dos, w)
  BY <1>8, HoldsPut
<1>12. Leads(t, a, n1)
  BY <1>1, <1>7, <1>8, <1>11 DEF Leads, Final, OfOps
<1>13. Good(t, n2) /\ Body(t, n2)
  BY <1>1, <1>7, <1>12, <1>10, GoodPut DEF First
<1>14. ASSUME NEW dos, NEW w
      PROVE  Holds(n2, dos, w) <=> (a.do \in dos /\ a.of = w) \/ Holds(n1, dos, w)
  BY <1>7, HoldsPut
<1>15. n = n2
  BY <1>6 DEF n2
<1> QED BY <1>7, <1>13, <1>15

LEMMA EmptyBody == \A t : Body(t, <<>>)
BY DEF Body, Shaped, NoneFirst

\* The end of an operation, and a start before it.
LEMMA DoneGood ==
  ASSUME NEW t, NEW v \in Players, t = <<v, "ops">>, NEW n, n = <<Seg("done", v)>>
  PROVE  /\ n \in Seq(Segments) /\ n # <<>> /\ Good(t, n) /\ Body(t, n)
         /\ Head(n).do = "done" /\ Tail(n) = <<>>
<1> DEFINE d == Seg("done", v)
<1>1. d \in Segments /\ d.do = "done" /\ d.of = v
  BY SegIs DEF Dos, OnSpeaker, OnPlaying
<1>2. n = <<d>>
  OBVIOUS
<1> HIDE DEF d
<1> DEFINE one == <<d>>
           none == <<>>
<1>3. one \in Seq(Segments) /\ one # <<>> /\ Head(one) = d /\ Tail(one) = none
  BY <1>1
<1>4. Body(t, none)
  BY EmptyBody
<1>5. Leads(t, d, none)
  BY <1>1 DEF Leads, Final, OfOps
<1> HIDE DEF one, none
<1>6. Good(t, one) /\ Body(t, one)
  BY <1>1, <1>3, <1>4, <1>5, GoodPut DEF First
<1>7. n = one
  BY <1>2 DEF one
<1> QED BY <1>1, <1>3, <1>6, <1>7 DEF none

LEMMA FirstDone ==
  ASSUME NEW t, NEW v \in Players, t = <<v, "ops">>, NEW g \in Segments, g.of = v,
         g.do \in {"start", "flip"}, NEW n, n = <<g>> \o <<Seg("done", v)>>
  PROVE  /\ n \in Seq(Segments) /\ n # <<>> /\ Good(t, n)
         /\ Head(n) = g /\ (g.do \notin First => Body(t, n)) /\ Holds(n, {g.do}, v)
<1> DEFINE d == <<Seg("done", v)>>
<1>1. d \in Seq(Segments) /\ d # <<>> /\ Body(t, d) /\ Head(d).do = "done"
  BY DoneGood
<1> DEFINE m == <<g>> \o d
<1>2. n = m
  OBVIOUS
<1> HIDE DEF d
<1>3. m \in Seq(Segments) /\ m # <<>> /\ Head(m) = g /\ Tail(m) = d
  BY <1>1, Put
<1> HIDE DEF m
<1>4. Leads(t, g, d)
  BY <1>1 DEF Leads, Final, OfOps
<1>5. Good(t, m) /\ (g.do \notin First => Body(t, m))
  BY <1>1, <1>3, <1>4, GoodPut
<1>6. Holds(m, {g.do}, v)
  BY <1>3, HoldsPut
<1> QED BY <1>2, <1>3, <1>5, <1>6

\* The calls of the operations, each with its end.
LEMMA CallsGood ==
  ASSUME Types, NEW v \in Players, NEW t, t = <<v, "ops">>, NEW o \in Commands,
         NEW n, n = Calls(v, o) \o <<Seg("done", v)>>
  PROVE  /\ n \in Seq(Segments) /\ n # <<>> /\ Good(t, n)
         /\ Head(n).do \in First => Head(n).do = "flip" /\ open[Head(n).of]
<1> DEFINE D == <<Seg("done", v)>>
           none == <<>>
<1>1. D \in Seq(Segments) /\ D # <<>> /\ Good(t, D) /\ Body(t, D) /\ Head(D).do = "done"
  BY DoneGood
<1>2. n = Calls(v, o) \o D
  OBVIOUS
<1>3. none \in Seq(Segments) /\ none \o D = D
  BY <1>1, ConcatEmptySeq
<1>4. /\ o.op \in {"transfer", "play", "toggle", "yield", "regroup", "drop", "handoff"}
      /\ o.op \in {"transfer", "drop", "handoff"} => o.arg \in Speakers
      /\ o.op = "handoff" => o.to # {} /\ o.to \subseteq Speakers
  BY DEF Commands
\* What a call amounts to that takes a speaker or not, and starts.
<1>5. ASSUME NEW s \in Speakers, NEW b \in BOOLEAN, NEW X \in Seq(Segments), NEW w,
             w = (X \o Take(v, s) \o Start(v, b)) \o D,
             \/ X = none \/ X = Leave(v)
             \/ \E u \in Speakers : X = <<Seg("quiet", v), Seg("dissolve", v), SegTo("part", v, u)>>
      PROVE  w \in Seq(Segments) /\ w # <<>> /\ Good(t, w) /\ Body(t, w)
  <2> DEFINE g == SegTo("start", v, b)
  <2>1. g \in Segments /\ g.do = "start" /\ g.of = v
    BY SegToIs DEF Dos, OnPlaying
  <2> DEFINE S1 == Start(v, b)
             T1 == Take(v, s)
             x1 == S1 \o D
             x2 == T1 \o x1
             x3 == X \o x2
  <2>2. S1 = <<g>> /\ S1 \in Seq(Segments)
    BY <2>1 DEF Start
  <2>3. T1 \in Seq(Segments)
    <3>1. SegTo("claim", v, s) \in Segments /\ SegTo("own", v, s) \in Segments
          /\ SegTo("adopt", v, s) \in Segments /\ Seg("form", v) \in Segments
      BY SegIs, SegToIs DEF Dos, OnSpeaker, OnPlaying
    <3> QED BY <3>1 DEF Take
  <2> HIDE DEF g
  <2>4. x1 \in Seq(Segments) /\ x1 # <<>> /\ Body(t, x1) /\ Holds(x1, {"start"}, v)
    <3>1. x1 = <<g>> \o <<Seg("done", v)>>
      BY <2>2
    <3> HIDE DEF x1
    <3>2. x1 \in Seq(Segments) /\ x1 # <<>> /\ (g.do \notin First => Body(t, x1)) /\ Holds(x1, {g.do}, v)
      BY <2>1, <3>1, FirstDone
    <3> QED BY <2>1, <3>2 DEF First
  <2> HIDE DEF D, S1
  <2>5. (X \o T1 \o S1) \o D = X \o (T1 \o (S1 \o D))
    <3>1. (X \o T1) \o S1 = X \o (T1 \o S1) /\ T1 \o S1 \in Seq(Segments)
      BY <2>2, <2>3, ConcatAssociative, ConcatProperties
    <3>2. (X \o (T1 \o S1)) \o D = X \o ((T1 \o S1) \o D)
      BY <1>1, <2>2, <2>3, <3>1, ConcatAssociative
    <3>3. (T1 \o S1) \o D = T1 \o (S1 \o D)
      BY <1>1, <2>2, <2>3, ConcatAssociative
    <3> QED BY <3>1, <3>2, <3>3
  <2>6. w = x3
    BY <1>5, <2>5 DEF S1
  <2> HIDE DEF T1, x1
  <2>7. /\ x2 \in Seq(Segments) /\ x2 # <<>> /\ Good(t, x2) /\ Body(t, x2)
        /\ Holds(x2, {"free", "adopt"}, v)
    BY <2>4, TakeGood DEF T1
  <2> HIDE DEF x2
  <2>8. x3 \in Seq(Segments) /\ x3 # <<>> /\ Good(t, x3) /\ Body(t, x3)
    <3>1. CASE X = none
      <4>1. x3 = x2
        BY <2>7, <3>1, ConcatEmptySeq
      <4> QED BY <2>7, <4>1
    <3>2. CASE X = Leave(v)
      BY <2>7, <3>2, LeaveGood
    <3>3. CASE \E u \in Speakers : X = <<Seg("quiet", v), Seg("dissolve", v), SegTo("part", v, u)>>
      BY <2>7, <3>3, PartGood
    <3> QED BY <1>5, <3>1, <3>2, <3>3
  <2> HIDE DEF x3
  <2> QED BY <2>6, <2>8
<1>6. Leave(v) \in Seq(Segments)
  <2>1. Seg("dissolve", v) \in Segments /\ Seg("halt", v) \in Segments /\ Seg("release", v) \in Segments
    BY SegIs DEF Dos, OnSpeaker, OnPlaying
  <2> QED BY <2>1 DEF Leave
<1>7. \A u \in Speakers : <<Seg("quiet", v), Seg("dissolve", v), SegTo("part", v, u)>> \in Seq(Segments)
  <2>1. Seg("quiet", v) \in Segments /\ Seg("dissolve", v) \in Segments
        /\ \A u \in Speakers : SegTo("part", v, u) \in Segments
    BY SegIs, SegToIs DEF Dos, OnSpeaker, OnPlaying
  <2> QED BY <2>1
<1>8. \A b \in BOOLEAN : /\ Start(v, b) \o D \in Seq(Segments) /\ Start(v, b) \o D # <<>>
                         /\ Body(t, Start(v, b) \o D) /\ Start(v, b) \in Seq(Segments)
  <2> SUFFICES ASSUME NEW b \in BOOLEAN
               PROVE  /\ Start(v, b) \o D \in Seq(Segments) /\ Start(v, b) \o D # <<>>
                      /\ Body(t, Start(v, b) \o D) /\ Start(v, b) \in Seq(Segments)
    OBVIOUS
  <2> DEFINE g == SegTo("start", v, b)
  <2>1. g \in Segments /\ g.do = "start" /\ g.of = v
    BY SegToIs DEF Dos, OnPlaying
  <2>2. Start(v, b) = <<g>>
    BY DEF Start
  <2> HIDE DEF g
  <2> DEFINE w == <<g>> \o <<Seg("done", v)>>
  <2>3. Start(v, b) \o D = w
    BY <2>2
  <2> HIDE DEF w, D
  <2>4. w \in Seq(Segments) /\ w # <<>> /\ (g.do \notin First => Body(t, w))
    BY <2>1, FirstDone DEF w
  <2>5. Body(t, w)
    BY <2>1, <2>4 DEF First
  <2>6. Start(v, b) \in Seq(Segments)
    BY <2>1, <2>2
  <2> QED BY <2>3, <2>4, <2>5, <2>6
<1> DEFINE C == Calls(v, o)
<1>9. C = Calls(v, o)
  OBVIOUS
<1> HIDE DEF C, D
<1>10. n = C \o D
  BY <1>2 DEF C
<1>11. \A b \in Seq(Segments) : Good(t, b) /\ Body(t, b) /\ b # <<>> =>
          Head(b).do \notin First
  <2> SUFFICES ASSUME NEW b \in Seq(Segments), Body(t, b), b # <<>>
               PROVE  Head(b).do \notin First
    OBVIOUS
  <2> QED BY NonePut DEF Body
<1>12. CASE o.op = "transfer"
  <2>1. open[v] \in BOOLEAN
    BY DEF Types
  <2> DEFINE X == IF open[v] /\ device[v] # o.arg THEN Leave(v) ELSE none
  <2>2. C = X \o Take(v, o.arg) \o Start(v, TRUE)
    BY <1>9, <1>12 DEF Calls
  <2>3. (X = none \/ X = Leave(v)) /\ X \in Seq(Segments)
    BY <1>3, <1>6
  <2> HIDE DEF X
  <2>4. n \in Seq(Segments) /\ n # <<>> /\ Good(t, n) /\ Body(t, n)
    BY <1>4, <1>5, <1>10, <1>12, <2>2, <2>3
  <2> QED BY <1>11, <2>4
<1>13. CASE o.op = "play"
  <2>1. CASE device[v] = None
    <3>1. C = none
      BY <1>9, <1>13, <2>1 DEF Calls
    <3>2. n = D
      BY <1>3, <1>10, <3>1
    <3> QED BY <1>1, <1>11, <3>2
  <2>2. CASE device[v] # None /\ open[v]
    <3>1. C = none \o Start(v, TRUE)
      BY <1>9, <1>13, <2>2 DEF Calls
    <3>2. none \o Start(v, TRUE) = Start(v, TRUE)
      BY <1>8, ConcatEmptySeq
    <3>3. n = Start(v, TRUE) \o D
      BY <1>10, <3>1, <3>2
    <3>4. n \in Seq(Segments) /\ n # <<>> /\ Body(t, n)
      BY <1>8, <3>3
    <3>5. Good(t, n)
      <4>1. NoneFirst(Tail(n))
        BY <3>4, NonePut DEF Body
      <4> QED BY <3>4, <4>1 DEF Good, Body
    <3> QED BY <1>11, <3>4, <3>5
  <2>3. CASE device[v] # None /\ ~open[v]
    <3>1. C = Take(v, device[v]) \o Start(v, TRUE) /\ device[v] \in Speakers
      BY <1>9, <1>13, <2>3 DEF Calls, Types
    <3>2. Take(v, device[v]) \in Seq(Segments)
      <4>1. SegTo("claim", v, device[v]) \in Segments /\ SegTo("own", v, device[v]) \in Segments
            /\ SegTo("adopt", v, device[v]) \in Segments /\ Seg("form", v) \in Segments
        BY <3>1, SegIs, SegToIs DEF Dos, OnSpeaker, OnPlaying
      <4> QED BY <4>1 DEF Take
    <3>3. none \o Take(v, device[v]) = Take(v, device[v])
      BY <3>2, ConcatEmptySeq
    <3>4. n = (none \o Take(v, device[v]) \o Start(v, TRUE)) \o D
      BY <1>10, <3>1, <3>3
    <3>5. n \in Seq(Segments) /\ n # <<>> /\ Good(t, n) /\ Body(t, n)
      BY <1>3, <1>5, <3>1, <3>4
    <3> QED BY <1>11, <3>5
  <2> QED BY <2>1, <2>2, <2>3
<1>14. CASE o.op = "toggle"
  <2>1. CASE ~open[v]
    <3>1. C = none
      BY <1>9, <1>14, <2>1 DEF Calls
    <3>2. n = D
      BY <1>3, <1>10, <3>1
    <3> QED BY <1>1, <1>11, <3>2
  <2>2. CASE open[v]
    <3>1. PICK b \in BOOLEAN : b = (~playing[v])
      OBVIOUS
    <3> DEFINE g == SegTo("flip", v, b)
    <3>2. g \in Segments /\ g.do = "flip" /\ g.of = v
      BY SegToIs DEF Dos, OnPlaying
    <3>3. C = <<g>>
      BY <1>9, <1>14, <2>2, <3>1 DEF Calls
    <3> HIDE DEF g
    <3> DEFINE w == <<g>> \o <<Seg("done", v)>>
    <3>4. w = <<g>> \o <<Seg("done", v)>>
      OBVIOUS
    <3>5. n = w
      BY <1>10, <3>3 DEF D
    <3> HIDE DEF w
    <3>6. g.do \in {"start", "flip"}
      BY <3>2
    <3>7. w \in Seq(Segments) /\ w # <<>>
      BY <3>2, <3>4, <3>6, FirstDone
    <3>8. Good(t, w)
      BY <3>2, <3>4, <3>6, FirstDone
    <3>9. Head(w) = g
      BY <3>2, <3>4, <3>6, FirstDone
    <3> QED BY <2>2, <3>2, <3>5, <3>7, <3>8, <3>9
  <2> QED BY <2>1, <2>2
<1>15. CASE o.op = "yield"
  <2>1. C = Yield(v)
    BY <1>9, <1>15 DEF Calls
  <2>2. n \in Seq(Segments) /\ n # <<>> /\ Good(t, n) /\ Head(n).do \notin First
    BY <1>1, <1>10, <2>1, YieldGood
  <2> QED BY <2>2
<1>16. CASE o.op = "regroup"
  <2>1. C = <<Seg("form", v), Seg("show", v)>>
    BY <1>9, <1>16 DEF Calls
  <2>2. n = <<Seg("form", v), Seg("show", v)>> \o D
    BY <1>10, <2>1
  <2>3. n \in Seq(Segments) /\ n # <<>> /\ Good(t, n) /\ Body(t, n)
    BY <1>1, <2>2, RegroupGood
  <2> QED BY <1>11, <2>3
<1>17. CASE o.op = "drop"
  <2>1. C = <<SegTo("unlink", v, o.arg), Seg("show", v)>>
    BY <1>9, <1>17 DEF Calls
  <2>2. n = <<SegTo("unlink", v, o.arg), Seg("show", v)>> \o D
    BY <1>10, <2>1
  <2>3. n \in Seq(Segments) /\ n # <<>> /\ Good(t, n) /\ Body(t, n)
    BY <1>1, <1>4, <1>17, <2>2, DropGood
  <2> QED BY <1>11, <2>3
<1>18. CASE o.op = "handoff"
  <2> DEFINE X == <<Seg("quiet", v), Seg("dissolve", v), SegTo("part", v, o.arg)>>
             s == CHOOSE m \in o.to : TRUE
  <2>1. s \in Speakers /\ playing[v] \in BOOLEAN
    BY <1>4, <1>18 DEF Types
  <2>2. C = X \o Take(v, s) \o Start(v, playing[v])
    BY <1>9, <1>18 DEF Calls
  <2>3. X \in Seq(Segments)
        /\ \E u \in Speakers : X = <<Seg("quiet", v), Seg("dissolve", v), SegTo("part", v, u)>>
    BY <1>4, <1>7, <1>18
  <2> HIDE DEF X, s
  <2>4. n \in Seq(Segments) /\ n # <<>> /\ Good(t, n) /\ Body(t, n)
    BY <1>5, <1>10, <2>1, <2>2, <2>3
  <2> QED BY <1>11, <2>4
<1> QED BY <1>4, <1>12, <1>13, <1>14, <1>15, <1>16, <1>17, <1>18

-----------------------------------------------------------------------------
(* One lemma per segment.                                                  *)

\* What a thread may go on with: its call is well shaped, and begins with
\* something that may happen whatever the others did.
Onward(t, n) ==
  /\ n \in Seq(Segments) /\ Good(t, n) /\ (t[2] = "ops" => n # <<>>)
  /\ n # <<>> => Head(n).do \notin First

\* n is r with something before it, and a call t may go on with.
Extended(t, n, r) == Onward(t, n) /\ \A dos, w : Holds(r, dos, w) => Holds(n, dos, w)

LEMMA RowExtended ==
  ASSUME NEW t, NEW q \in Seq(Segments), NEW r, Body(t, r), t[2] = "ops" => r # <<>>,
         \A i \in 1..Len(q) : /\ q[i].do \in {"unlink", "take", "join"}
                              /\ q[i].do # "unlink" => t = <<q[i].of, "ops">>
  PROVE  Extended(t, q \o r, r)
<1> DEFINE n == q \o r
<1>1. r \in Seq(Segments) /\ Shaped(t, r) /\ NoneFirst(r)
  BY DEF Body
<1>2. n \in Seq(Segments) /\ (r # <<>> => n # <<>>) /\ Good(t, n)
      /\ (n # <<>> => Head(n).do \notin First)
  BY <1>1, RowGood
<1>3. ASSUME NEW dos, NEW w, Holds(r, dos, w) PROVE Holds(n, dos, w)
  BY <1>1, <1>3, RowGood
<1> HIDE DEF n
<1>4. Extended(t, n, r)
  BY <1>2, <1>3 DEF Extended, Onward
<1> QED BY <1>4 DEF n

LEMMA LinkingExtended ==
  ASSUME NEW v \in Players, NEW m \in Speakers, NEW t, t = <<v, "ops">>,
         NEW r, Body(t, r), r # <<>>
  PROVE  Extended(t, Linking(v, m) \o r, r)
<1> DEFINE n == Linking(v, m) \o r
<1>1. r \in Seq(Segments)
  BY DEF Body
<1>2. n \in Seq(Segments) /\ n # <<>> /\ Good(t, n) /\ Head(n).do \notin First
  BY <1>1, LinkingGood
<1>3. ASSUME NEW dos, NEW w, Holds(r, dos, w) PROVE Holds(n, dos, w)
  BY <1>1, <1>3, LinkingGood
<1> HIDE DEF n
<1>4. Extended(t, n, r)
  BY <1>2, <1>3 DEF Extended, Onward
<1> QED BY <1>4 DEF n

LEMMA YieldExtended ==
  ASSUME NEW v \in Players, NEW t, NEW r, Body(t, r), t[2] = "ops" => r # <<>>
  PROVE  Extended(t, Yield(v) \o r, r)
<1> DEFINE n == Yield(v) \o r
<1>1. r \in Seq(Segments)
  BY DEF Body
<1>2. n \in Seq(Segments) /\ n # <<>> /\ Good(t, n) /\ Head(n).do \notin First
  BY <1>1, YieldGood
<1>3. ASSUME NEW dos, NEW w, Holds(r, dos, w) PROVE Holds(n, dos, w)
  BY <1>1, <1>3, YieldGood
<1> HIDE DEF n
<1>4. Extended(t, n, r)
  BY <1>2, <1>3 DEF Extended, Onward
<1> QED BY <1>4 DEF n

LEMMA RestOnward ==
  ASSUME IInv, NEW t \in Threads, Active(t), Head(call[t]).do # "done"
  PROVE  Onward(t, Tail(call[t]))
<1>1. call[t] # <<>>
  BY DEF Active
<1> QED BY <1>1, TurnOf DEF IInv, Onward, Leads

Typed == /\ owners' \in [Speakers -> Players \cup {None}]
         /\ device' \in [Players -> Speakers \cup {None}]
         /\ members' \in [Players -> SUBSET Speakers]

\* A step that changes at most who holds which speaker, or tells the session
\* what it was told already.
LEMMA Inert ==
  ASSUME IInv, NEW t \in Threads, Active(t), NEW n, Onward(t, n),
         call' = [call EXCEPT ![t] = n], chain' = chain,
         UNCHANGED <<groups, open, playing, polling>>, Typed,
         reported' \in [Players -> {"none", "playing", "paused"}],
         \A p \in Players : reported'[p] = "playing" => Loud(p),
         Head(call[t]).do \notin {"free", "adopt", "halt", "halted", "part", "start", "started"},
         \A dos, v : "own" \notin dos /\ Holds(Tail(call[t]), dos, v) => Holds(n, dos, v)
  PROVE  IInv'
<1>1. Types /\ Turned /\ n \in Seq(Segments) /\ Good(t, n) /\ call[t] # <<>>
  BY DEF IInv, Onward, Active
<1>2. Turned' /\ call' \in [Threads -> Seq(Segments)]
  <2>1. n # <<>> => Head(n).do \notin {"halted", "started", "flip", "read"}
    BY DEF Onward, First
  <2>2. t[2] = "ops" => n # <<>>
    BY DEF Onward
  <2> QED BY <1>1, <2>1, <2>2, GoesOn
<1>3. Types'
  BY <1>1, <1>2 DEF Types, Typed
<1>4. ASSUME NEW p \in Players, NEW dos, "own" \notin dos,
             dos \subseteq {"free", "adopt", "halt", "halted", "part", "start", "started"},
             Pends(p, dos)
      PROVE  Pends(p, dos)'
  <2>1. Holds(call[t], dos, p) => Holds(n, dos, p)
    BY <1>1, <1>4, TurnOf
  <2> QED BY <1>1, <1>4, <2>1, StillPends
<1>5. Voiced'
  <2>1. ASSUME NEW p \in Players, Loud(p)' PROVE open'[p] \/ Pends(p, {"free", "adopt"})'
    <3>1. Loud(p)
      BY <2>1 DEF Loud
    <3>2. open[p] \/ Pends(p, {"free", "adopt"})
      BY <3>1 DEF IInv, Voiced
    <3>3. Pends(p, {"free", "adopt"}) => Pends(p, {"free", "adopt"})'
      BY <1>4
    <3> QED BY <3>2, <3>3
  <2> QED BY <2>1 DEF Voiced
<1>6. Watched'
  <2> DEFINE X == {"halt", "halted", "part", "start", "started"}
  <2>1. ASSUME NEW p \in Players, open'[p], "fail" \notin Env PROVE polling'[p] \/ Pends(p, X)'
    <3>1. polling[p] \/ Pends(p, X)
      BY <2>1 DEF IInv, Watched
    <3>2. Pends(p, X) => Pends(p, X)'
      BY <1>4
    <3> QED BY <3>1, <3>2
  <2> QED BY <2>1 DEF Watched
<1> QED BY <1>2, <1>3, <1>5, <1>6 DEF IInv

LEMMA DisownedIs ==
  ASSUME Types, NEW v, NEW ss
  PROVE  Disowned(v, ss) \in [Speakers -> Players \cup {None}]
BY DEF Types, Disowned

\* Unlink, Release, Own, Wait, Show and Slave go on with the rest.
LEMMA PlainKeeps ==
  ASSUME IInv, NEW t \in Threads, Active(t), NEW g, g = Head(call[t]), NEW rest, rest = Tail(call[t]),
         UNCHANGED groups,
         \/ g.do = "unlink" /\ Unlink(t, g.of, g.arg, rest)
         \/ g.do = "release" /\ Release(t, g.of, rest)
         \/ g.do = "own" /\ Own(t, g.of, g.arg, rest)
         \/ g.do = "wait" /\ Wait(t, g.of, rest)
         \/ g.do = "show" /\ Show(t, g.of, rest)
         \/ g.do = "slave" /\ Slave(t, g.of, g.arg, rest)
  PROVE  IInv'
<1>1. Types /\ Turned /\ call[t] # <<>>
  BY DEF IInv, Active
<1>2. g.of \in Players /\ (g.do \in OnSpeaker => g.arg \in Speakers)
  BY <1>1, TurnOf
<1>3. Onward(t, rest)
  BY RestOnward
<1>4. g.do \notin {"free", "adopt", "halt", "halted", "part", "start", "started"}
  OBVIOUS
<1>5. \A ss : Disowned(g.of, ss) \in [Speakers -> Players \cup {None}]
  BY <1>1, DisownedIs
<1>6. call' = [call EXCEPT ![t] = rest] /\ chain' = chain /\ UNCHANGED <<open, playing, polling>>
  BY DEF Unlink, Release, Own, Wait, Show, Slave, Continue, hold, voice, watch
<1>7. CASE g.do = "show"
  <2>1. reported' = [reported EXCEPT ![g.of] = Shown(device[g.of], playing[g.of])]
        /\ UNCHANGED <<owners, device, members>>
    BY <1>7 DEF Show, hold
  <2>2. Shown(device[g.of], playing[g.of]) \in {"none", "playing", "paused"}
        /\ (Shown(device[g.of], playing[g.of]) = "playing" => playing[g.of])
    BY DEF Shown
  <2>3. reported' \in [Players -> {"none", "playing", "paused"}]
        /\ \A p \in Players : reported'[p] = "playing" => Loud(p)
    BY <1>1, <1>2, <2>1, <2>2 DEF Types, Loud
  <2>4. Typed
    BY <1>1, <2>1 DEF Types, Typed
  <2> QED BY <1>3, <1>4, <1>6, <2>3, <2>4, Inert
<1>8. CASE g.do # "show"
  <2>1. reported' = reported
    BY <1>8 DEF Unlink, Release, Own, Wait, Slave, hold, voice
  <2>2. reported' \in [Players -> {"none", "playing", "paused"}]
        /\ \A p \in Players : reported'[p] = "playing" => Loud(p)
    BY <1>1, <2>1 DEF Types, Loud
  <2>3. Typed
    <3>1. CASE g.do = "unlink" /\ Unlink(t, g.of, g.arg, rest)
      BY <1>1, <1>2, <1>5, <3>1 DEF Types, Typed, Unlink
    <3>2. CASE g.do = "release" /\ Release(t, g.of, rest)
      BY <1>1, <1>2, <1>5, <3>2 DEF Types, Typed, Release
    <3>3. CASE g.do = "own" /\ Own(t, g.of, g.arg, rest)
      BY <1>1, <1>2, <3>3 DEF Types, Typed, Own, OnSpeaker
    <3>4. CASE g.do = "wait" /\ Wait(t, g.of, rest)
      BY <1>1, <3>4 DEF Types, Typed, Wait, hold
    <3>5. CASE g.do = "slave" /\ Slave(t, g.of, g.arg, rest)
      <4>1. g.arg \in Speakers
        BY <1>2, <3>5 DEF OnSpeaker
      <4>2. device' = device
        BY <3>5 DEF Slave
      <4> DEFINE ms == members[g.of] \cup {g.arg}
      <4>3. ms \in SUBSET Speakers
        BY <1>1, <1>2, <4>1 DEF Types
      <4> HIDE DEF ms
      <4>4. members' = [members EXCEPT ![g.of] = ms] \/ members' = members
        BY <3>5 DEF Slave, ms
      <4>5. owners' = owners \/ owners' = Disowned(g.of, {g.arg})
        BY <3>5 DEF Slave
      <4>6. members' \in [Players -> SUBSET Speakers]
        BY <1>1, <4>3, <4>4 DEF Types
      <4>7. owners' \in [Speakers -> Players \cup {None}]
        BY <1>1, <1>5, <4>5 DEF Types
      <4> QED BY <1>1, <4>2, <4>6, <4>7 DEF Types, Typed
    <3> QED BY <1>8, <3>1, <3>2, <3>3, <3>4, <3>5
  <2> QED BY <1>3, <1>4, <1>6, <2>2, <2>3, Inert
<1> QED BY <1>7, <1>8

\* A thread that only goes on, with more or less to do.
LEMMA OnlyGoesOn ==
  ASSUME IInv, NEW t \in Threads, Active(t), NEW n, Onward(t, n),
         call' = [call EXCEPT ![t] = n], chain' = chain,
         UNCHANGED <<groups, owners, device, open, members, playing, polling, reported>>,
         Head(call[t]).do \notin {"free", "adopt", "halt", "halted", "part", "start", "started"},
         \A dos, v : "own" \notin dos /\ Holds(Tail(call[t]), dos, v) => Holds(n, dos, v)
  PROVE  IInv'
<1>1. Typed
  BY DEF IInv, Types, Typed
<1>2. reported' \in [Players -> {"none", "playing", "paused"}]
      /\ \A p \in Players : reported'[p] = "playing" => Loud(p)
  BY DEF IInv, Types, Loud
<1> QED BY <1>1, <1>2, Inert

\* The unlinks of members, as a row of segments.
LEMMA UnlinksAre ==
  ASSUME NEW v \in Players, NEW S \in SUBSET Speakers, NEW o \in SetToSeqs(S),
         NEW q, q = [i \in 1..Len(o) |-> SegTo("unlink", v, o[i])]
  PROVE  q \in Seq(Segments) /\ Len(q) = Len(o) /\ \A i \in 1..Len(q) : q[i].do = "unlink"
<1>1. o \in Seq(Speakers)
  BY OrdersOf
<1>2. \A i \in 1..Len(o) : SegTo("unlink", v, o[i]) \in Segments /\ SegTo("unlink", v, o[i]).do = "unlink"
  BY <1>1, SegToIs DEF Dos, OnSpeaker
<1>3. Len(o) \in Nat
  BY <1>1
<1>4. q \in Seq(Segments) /\ Len(q) = Len(o)
  BY <1>2, <1>3
<1> QED BY <1>2, <1>4

LEMMA DissolveKeeps ==
  ASSUME IInv, NEW t \in Threads, Active(t), Head(call[t]).do = "dissolve", UNCHANGED groups,
         Dissolve(t, Head(call[t]).of, Tail(call[t]))
  PROVE  IInv'
<1> DEFINE v == Head(call[t]).of
           r == Tail(call[t])
<1>1. Types /\ Turned /\ call[t] # <<>>
  BY DEF IInv, Active
<1>2. v \in Players /\ r \in Seq(Segments) /\ Shaped(t, r) /\ NoneFirst(r) /\ (t[2] = "ops" => r # <<>>)
  BY <1>1, TurnOf DEF Leads
<1>3. members[v] \in SUBSET Speakers
  BY <1>1, <1>2 DEF Types
<1>4. PICK o \in SetToSeqs(members[v]) :
        call' = [call EXCEPT ![t] = [i \in 1..Len(o) |-> SegTo("unlink", v, o[i])] \o r]
  BY DEF Dissolve, Continue
<1> DEFINE q == [i \in 1..Len(o) |-> SegTo("unlink", v, o[i])]
           n == q \o r
<1>5. q \in Seq(Segments) /\ \A i \in 1..Len(q) : q[i].do = "unlink"
  BY <1>2, <1>3, UnlinksAre
<1>6. call' = [call EXCEPT ![t] = n]
  BY <1>4
<1> HIDE DEF q
<1> HIDE DEF r
<1>7. Extended(t, n, r)
  BY <1>2, <1>5, RowExtended DEF Body
<1> HIDE DEF n
<1>8. UNCHANGED <<owners, device, open, members, playing, polling, reported>> /\ chain' = chain
  BY DEF Dissolve, hold, voice, watch
<1> QED BY <1>6, <1>7, <1>8, OnlyGoesOn DEF Extended, r

LEMMA FormKeeps ==
  ASSUME IInv, NEW t \in Threads, Active(t), Head(call[t]).do = "form", UNCHANGED groups,
         Form(t, Head(call[t]).of, Tail(call[t]))
  PROVE  IInv'
<1> DEFINE v == Head(call[t]).of
           r == Tail(call[t])
           ids == IF device[v] = None THEN members[v] ELSE GroupOf(device[v]) \ Excluded(v)
<1>1. Types /\ Turned /\ call[t] # <<>>
  BY DEF IInv, Active
<1>2. v \in Players /\ r \in Seq(Segments) /\ Shaped(t, r) /\ NoneFirst(r) /\ (t[2] = "ops" => r # <<>>)
      /\ t = <<v, "ops">>
  BY <1>1, TurnOf DEF Leads, OfOps
<1>3. members[v] \ ids \in SUBSET Speakers /\ ids \ members[v] \in SUBSET Speakers
  BY <1>1, <1>2 DEF Types, GroupOf
<1>4. PICK gone \in SetToSeqs(members[v] \ ids), new \in SetToSeqs(ids \ members[v]) :
        call' = [call EXCEPT ![t] =
                   [i \in 1..Len(gone) |-> SegTo("unlink", v, gone[i])]
                   \o [i \in 1..Len(new) |-> SegTo(IF new[i] \in OnPurpose(v) THEN "take" ELSE "join", v, new[i])]
                   \o r]
  BY DEF Form, Continue
<1> DEFINE a == [i \in 1..Len(gone) |-> SegTo("unlink", v, gone[i])]
           b == [i \in 1..Len(new) |-> SegTo(IF new[i] \in OnPurpose(v) THEN "take" ELSE "join", v, new[i])]
           n == (a \o b) \o r
<1>5. a \in Seq(Segments) /\ \A i \in 1..Len(a) : a[i].do = "unlink"
  BY <1>2, <1>3, UnlinksAre
<1>6. b \in Seq(Segments) /\ \A i \in 1..Len(b) : b[i].do \in {"take", "join"} /\ b[i].of = v
  <2>1. new \in Seq(Speakers)
    BY <1>3, OrdersOf
  <2> DEFINE e(i) == SegTo(IF new[i] \in OnPurpose(v) THEN "take" ELSE "join", v, new[i])
  <2>2. ASSUME NEW i \in 1..Len(new)
        PROVE  e(i) \in Segments /\ e(i).do \in {"take", "join"} /\ e(i).of = v
    <3>1. new[i] \in Speakers
      BY <2>1
    <3>2. CASE new[i] \in OnPurpose(v)
      BY <1>2, <3>1, <3>2, SegToIs DEF Dos, OnSpeaker
    <3>3. CASE new[i] \notin OnPurpose(v)
      BY <1>2, <3>1, <3>3, SegToIs DEF Dos, OnSpeaker
    <3> QED BY <3>2, <3>3
  <2>3. Len(new) \in Nat
    BY <2>1
  <2>4. b = [i \in 1..Len(new) |-> e(i)]
    OBVIOUS
  <2> HIDE DEF e, b
  <2>5. b \in Seq(Segments) /\ Len(b) = Len(new) /\ \A i \in 1..Len(new) : b[i] = e(i)
    BY <2>2, <2>3, <2>4
  <2> QED BY <2>2, <2>5
<1>7. call' = [call EXCEPT ![t] = n]
  BY <1>4
<1> HIDE DEF a, b
<1> DEFINE q == a \o b
<1>8. q \in Seq(Segments)
      /\ \A i \in 1..Len(q) : /\ q[i].do \in {"unlink", "take", "join"}
                              /\ q[i].do # "unlink" => q[i].of = v
  <2>1. q \in Seq(Segments) /\ Len(q) = Len(a) + Len(b)
        /\ \A i \in 1..(Len(a) + Len(b)) : q[i] = IF i <= Len(a) THEN a[i] ELSE b[i - Len(a)]
    BY <1>5, <1>6, ConcatProperties
  <2>2. Len(a) \in Nat /\ Len(b) \in Nat
    BY <1>5, <1>6
  <2> HIDE DEF q
  <2>3. ASSUME NEW i \in 1..Len(q)
        PROVE  q[i].do \in {"unlink", "take", "join"} /\ (q[i].do # "unlink" => q[i].of = v)
    <3>1. CASE i <= Len(a)
      <4>1. q[i] = a[i] /\ i \in 1..Len(a)
        BY <2>1, <2>2, <3>1
      <4> QED BY <1>5, <4>1
    <3>2. CASE ~(i <= Len(a))
      <4>1. q[i] = b[i - Len(a)] /\ i - Len(a) \in 1..Len(b)
        BY <2>1, <2>2, <3>2
      <4> QED BY <1>6, <4>1
    <3> QED BY <3>1, <3>2
  <2> QED BY <2>1, <2>3
<1> HIDE DEF q, r, v
<1>9. Extended(t, q \o r, r)
  BY <1>2, <1>8, RowExtended DEF Body
<1>10. n = q \o r
  BY DEF q
<1> HIDE DEF n
<1>11. UNCHANGED <<owners, device, open, members, playing, polling, reported>> /\ chain' = chain
  BY DEF Form, hold, voice, watch
<1> QED BY <1>7, <1>9, <1>10, <1>11, OnlyGoesOn DEF Extended, r

LEMMA JoinKeeps ==
  ASSUME IInv, NEW t \in Threads, Active(t), UNCHANGED groups,
         \/ /\ Head(call[t]).do = "join"
            /\ Join(t, Head(call[t]).of, Head(call[t]).arg, Tail(call[t]))
         \/ /\ Head(call[t]).do = "take"
            /\ TakeBusy(t, Head(call[t]).of, Head(call[t]).arg, Tail(call[t]))
  PROVE  IInv'
<1> DEFINE v == Head(call[t]).of
           m == Head(call[t]).arg
           r == Tail(call[t])
           n == Linking(v, m) \o r
<1>1. Types /\ Turned /\ call[t] # <<>>
  BY DEF IInv, Active
<1>2. v \in Players /\ m \in Speakers /\ r \in Seq(Segments) /\ Shaped(t, r) /\ NoneFirst(r)
      /\ r # <<>> /\ t = <<v, "ops">>
  BY <1>1, TurnOf DEF Leads, OfOps, OnSpeaker
<1>3. UNCHANGED <<owners, device, open, members, playing, polling, reported>> /\ chain' = chain
      /\ (call' = [call EXCEPT ![t] = r] \/ call' = [call EXCEPT ![t] = n])
  BY DEF Join, TakeBusy, Continue, hold, voice, watch
<1>4. CASE call' = [call EXCEPT ![t] = r]
  BY <1>3, <1>4, RestOnward, OnlyGoesOn
<1>5. CASE call' = [call EXCEPT ![t] = n]
  <2> HIDE DEF r, v, m
  <2>1. Extended(t, n, r)
    BY <1>2, LinkingExtended DEF Body
  <2> HIDE DEF n
  <2> QED BY <1>3, <1>5, <2>1, OnlyGoesOn DEF Extended, r
<1> QED BY <1>3, <1>4, <1>5

\* A call t may go on with when what its first segment found open still is.
Forward(t, n) ==
  /\ n \in Seq(Segments) /\ Good(t, n) /\ (t[2] = "ops" => n # <<>>)
  /\ n # <<>> /\ Head(n).do \in {"halted", "started", "flip", "read"} => open'[Head(n).of]

LEMMA OnwardForward ==
  ASSUME NEW t, NEW n, Onward(t, n)
  PROVE  Forward(t, n)
BY DEF Onward, Forward, First

\* A step of a thread, from what it does to sound and poll.
LEMMA Goes ==
  ASSUME IInv, NEW t \in Threads, Active(t), NEW n, Forward(t, n),
         call' = [call EXCEPT ![t] = n], chain' = chain, groups' = groups, Typed,
         open' \in [Players -> BOOLEAN], playing' \in [Players -> BOOLEAN],
         polling' \in [Players -> BOOLEAN],
         reported' \in [Players -> {"none", "playing", "paused"}],
         Voiced', Watched'
  PROVE  IInv'
<1>1. Types /\ Turned
  BY DEF IInv
<1>2. Turned' /\ call' \in [Threads -> Seq(Segments)]
  BY <1>1, GoesOn DEF Forward
<1>3. Types'
  BY <1>1, <1>2 DEF Types, Typed
<1> QED BY <1>2, <1>3 DEF IInv

\* What is still to be done for p stays so, but for what the thread just did.
LEMMA PendsOn ==
  ASSUME IInv, NEW t \in Threads, Active(t), NEW n, call' = [call EXCEPT ![t] = n],
         NEW p, NEW dos, Holds(Tail(call[t]), dos, p) => Holds(n, dos, p),
         Head(call[t]).do \notin dos \/ Head(call[t]).of # p, Pends(p, dos)
  PROVE  Pends(p, dos)'
<1>1. Types /\ Turned /\ call[t] # <<>>
  BY DEF IInv, Active
<1>2. Holds(call[t], dos, p) => Holds(n, dos, p)
  BY <1>1, TurnOf
<1> QED BY <1>1, <1>2, StillPends

LEMMA HoldsMore ==
  ASSUME NEW r, NEW A, NEW B, A \subseteq B, NEW v, Holds(r, A, v)
  PROVE  Holds(r, B, v)
BY DEF Holds

LEMMA VoicedOn ==
  ASSUME IInv, NEW t \in Threads, Active(t), NEW n, call' = [call EXCEPT ![t] = n],
         Head(call[t]).do \notin {"free", "adopt"},
         \A v : Holds(Tail(call[t]), {"free", "adopt"}, v) => Holds(n, {"free", "adopt"}, v),
         NEW p \in Players, Loud(p), open[p] => open'[p]
  PROVE  open'[p] \/ Pends(p, {"free", "adopt"})'
<1>1. open[p] \/ Pends(p, {"free", "adopt"})
  BY DEF IInv, Voiced
<1>2. Pends(p, {"free", "adopt"}) => Pends(p, {"free", "adopt"})'
  BY PendsOn
<1> QED BY <1>1, <1>2

Watching == {"halt", "halted", "part", "start", "started"}

LEMMA WatchedOn ==
  ASSUME IInv, NEW t \in Threads, Active(t), NEW n, call' = [call EXCEPT ![t] = n],
         \A v : Holds(Tail(call[t]), Watching, v) => Holds(n, Watching, v),
         NEW p \in Players, Head(call[t]).do \notin Watching \/ Head(call[t]).of # p,
         open[p], polling[p] => polling'[p], "fail" \notin Env
  PROVE  polling'[p] \/ Pends(p, Watching)'
<1>1. polling[p] \/ Pends(p, Watching)
  BY DEF IInv, Watched, Watching
<1>2. Pends(p, Watching) => Pends(p, Watching)'
  BY PendsOn
<1> QED BY <1>1, <1>2

LEMMA QuietKeeps ==
  ASSUME IInv, NEW t \in Threads, Active(t), Head(call[t]).do = "quiet", UNCHANGED groups,
         Quiet(t, Head(call[t]).of, Tail(call[t]))
  PROVE  IInv'
<1> DEFINE v == Head(call[t]).of
           r == Tail(call[t])
<1>1. Types /\ Turned /\ call[t] # <<>>
  BY DEF IInv, Active
<1>2. v \in Players /\ Holds(r, {"halt", "part"}, v)
  BY <1>1, TurnOf DEF Leads
<1>3. Forward(t, r)
  BY RestOnward, OnwardForward
<1>4. call' = [call EXCEPT ![t] = r] /\ chain' = chain /\ polling' = [polling EXCEPT ![v] = FALSE]
      /\ UNCHANGED <<owners, device, open, members, playing, reported>>
  BY DEF Quiet, Continue, hold, voice
<1> HIDE DEF r, v
<1>5. Typed /\ polling' \in [Players -> BOOLEAN]
      /\ \A p \in Players \ {v} : polling'[p] = polling[p]
  BY <1>1, <1>2, <1>4 DEF Types, Typed
<1>6. Voiced'
  <2>1. ASSUME NEW p \in Players, Loud(p)' PROVE open'[p] \/ Pends(p, {"free", "adopt"})'
    <3>1. Loud(p)
      BY <1>4, <2>1 DEF Loud
    <3> QED BY <1>4, <3>1, VoicedOn DEF r
  <2> QED BY <2>1 DEF Voiced
<1>7. Watched'
  <2>1. ASSUME NEW p \in Players, open'[p], "fail" \notin Env
        PROVE  polling'[p] \/ Pends(p, Watching)'
    <3>1. CASE p = v
      <4>1. Holds(r, Watching, p)
        BY <1>2, <3>1, HoldsMore DEF Watching
      <4> QED BY <1>1, <1>4, <4>1, NowPends
    <3>2. CASE p # v
      <4>1. polling'[p] = polling[p]
        BY <1>5, <3>2
      <4>2. Head(call[t]).do \notin Watching
        BY DEF Watching
      <4> QED BY <1>4, <2>1, <4>1, <4>2, WatchedOn DEF r
    <3> QED BY <3>1, <3>2
  <2> QED BY <2>1 DEF Watched, Watching
<1>8. open' \in [Players -> BOOLEAN] /\ playing' \in [Players -> BOOLEAN]
      /\ reported' \in [Players -> {"none", "playing", "paused"}]
  BY <1>1, <1>4 DEF Types
<1> QED BY <1>3, <1>4, <1>5, <1>6, <1>7, <1>8, Goes

\* n holds what r does of what a player's sound and poll rest on.
Keeps(n, r) == \A w : /\ Holds(r, {"free", "adopt"}, w) => Holds(n, {"free", "adopt"}, w)
                      /\ Holds(r, Watching, w) => Holds(n, Watching, w)

\* A step of one player's call leaves the others' sound and poll alone.
Others(v) == \A p \in Players \ {v} :
  /\ open'[p] = open[p] /\ playing'[p] = playing[p]
  /\ polling'[p] = polling[p] /\ reported'[p] = reported[p]

TypedSound ==
  /\ open' \in [Players -> BOOLEAN] /\ playing' \in [Players -> BOOLEAN]
  /\ polling' \in [Players -> BOOLEAN]
  /\ reported' \in [Players -> {"none", "playing", "paused"}]

LEMMA OneChanges ==
  ASSUME IInv, NEW t \in Threads, Active(t), NEW n, Forward(t, n),
         call' = [call EXCEPT ![t] = n], chain' = chain, groups' = groups, Typed, TypedSound,
         NEW v \in Players, v = Head(call[t]).of, Others(v), Keeps(n, Tail(call[t])),
         Loud(v)' => open'[v] \/ Pends(v, {"free", "adopt"})',
         "fail" \notin Env /\ open'[v] => polling'[v] \/ Pends(v, Watching)'
  PROVE  IInv'
<1>1. Voiced'
  <2>1. ASSUME NEW p \in Players, p # v, Loud(p)' PROVE open'[p] \/ Pends(p, {"free", "adopt"})'
    <3>1. Loud(p) /\ open'[p] = open[p]
      BY <2>1 DEF Loud, Others
    <3>2. open[p] \/ Pends(p, {"free", "adopt"})
      BY <3>1 DEF IInv, Voiced
    <3>3. Pends(p, {"free", "adopt"}) => Pends(p, {"free", "adopt"})'
      BY <2>1, PendsOn DEF Keeps
    <3> QED BY <3>1, <3>2, <3>3
  <2> QED BY <2>1 DEF Voiced
<1>2. Watched'
  <2>1. ASSUME NEW p \in Players, p # v, open'[p], "fail" \notin Env
        PROVE  polling'[p] \/ Pends(p, Watching)'
    <3>1. open[p] /\ polling'[p] = polling[p]
      BY <2>1 DEF Others
    <3>2. polling[p] \/ Pends(p, Watching)
      BY <2>1, <3>1 DEF IInv, Watched, Watching
    <3>3. Pends(p, Watching) => Pends(p, Watching)'
      BY <2>1, PendsOn DEF Keeps
    <3> QED BY <3>1, <3>2, <3>3
  <2> QED BY <2>1 DEF Watched, Watching
<1> QED BY <1>1, <1>2, Goes DEF TypedSound

\* A call that goes on with one segment more.
LEMMA OneMore ==
  ASSUME NEW t, NEW g \in Segments, NEW r, Body(t, r), Leads(t, g, r), NEW n, n = <<g>> \o r
  PROVE  /\ n \in Seq(Segments) /\ n # <<>> /\ Good(t, n) /\ Head(n) = g /\ Keeps(n, r)
         /\ g.do \in Watching => Holds(n, Watching, g.of)
<1>1. r \in Seq(Segments)
  BY DEF Body
<1>2. n \in Seq(Segments) /\ n # <<>> /\ Head(n) = g /\ Tail(n) = r
  BY <1>1, Put
<1>3. Good(t, n)
  BY <1>2, GoodPut
<1>4. \A dos, v : Holds(n, dos, v) <=> (g.do \in dos /\ g.of = v) \/ Holds(r, dos, v)
  <2> SUFFICES ASSUME NEW dos, NEW v
               PROVE  Holds(n, dos, v) <=> (g.do \in dos /\ g.of = v) \/ Holds(r, dos, v)
    OBVIOUS
  <2>1. Holds(n, dos, v) <=> (Head(n).do \in dos /\ Head(n).of = v) \/ Holds(Tail(n), dos, v)
    BY <1>2, HoldsPut
  <2> QED BY <1>2, <2>1
<1> QED BY <1>2, <1>3, <1>4 DEF Keeps

LEMMA HaltKeeps ==
  ASSUME IInv, NEW t \in Threads, Active(t), Head(call[t]).do = "halt", UNCHANGED groups,
         Halt(t, Head(call[t]).of, Tail(call[t]))
  PROVE  IInv'
<1>1. Types /\ Turned /\ call[t] # <<>>
  BY DEF IInv, Active
<1>0. PICK v \in Players : v = Head(call[t]).of
  BY <1>1, TurnOf
<1> DEFINE r == Tail(call[t])
           g == Seg("halted", v)
<1>2. v \in Players /\ Leads(t, Head(call[t]), r) /\ Body(t, r)
  BY <1>0, <1>1, TurnOf DEF Body
<1>3. g \in Segments /\ g.do = "halted" /\ g.of = v
  BY <1>2, SegIs DEF Dos, OnSpeaker, OnPlaying
<1>4. Leads(t, g, r)
  BY <1>0, <1>2, <1>3 DEF Leads, Final, OfOps
<1> DEFINE n == (IF open[v] THEN <<g>> ELSE <<>>) \o r
<1>5. call' = [call EXCEPT ![t] = n] /\ chain' = chain
      /\ UNCHANGED <<owners, device, open, members, playing, reported, polling>>
  BY <1>0 DEF Halt, Continue, hold, voice, watch
<1>6. Typed /\ TypedSound /\ Others(v)
  BY <1>0, <1>1, <1>5 DEF Types, Typed, TypedSound, Others
<1>7. Forward(t, n) /\ Keeps(n, r) /\ (open[v] => Holds(n, Watching, v))
  <2>1. CASE open[v]
    <3> DEFINE m == <<g>> \o r
    <3>1. n = m /\ m = <<g>> \o r
      BY <2>1
    <3> HIDE DEF g, r, m
    <3>2. m \in Seq(Segments) /\ m # <<>> /\ Good(t, m) /\ Head(m) = g /\ Keeps(m, r)
          /\ (g.do \in Watching => Holds(m, Watching, g.of))
      BY <1>2, <1>3, <1>4, <3>1, OneMore
    <3>3. Forward(t, m)
      BY <1>3, <1>5, <2>1, <3>2 DEF Forward
    <3> QED BY <1>3, <3>1, <3>2, <3>3 DEF Watching
  <2>2. CASE ~open[v]
    <3>1. n = r
      BY <1>2, <2>2, ConcatEmptySeq DEF Body
    <3>2. Forward(t, r)
      BY RestOnward, OnwardForward
    <3> QED BY <2>2, <3>1, <3>2 DEF Keeps
  <2> QED BY <2>1, <2>2
<1> HIDE DEF n, r
<1>8. Loud(v)' => open'[v] \/ Pends(v, {"free", "adopt"})'
  <2>1. Loud(v)' => Loud(v)
    BY <1>5 DEF Loud
  <2> QED BY <1>0, <1>2, <1>5, <1>7, <2>1, VoicedOn DEF Keeps, r
<1>9. "fail" \notin Env /\ open'[v] => polling'[v] \/ Pends(v, Watching)'
  BY <1>0, <1>1, <1>5, <1>7, NowPends
<1> QED BY <1>0, <1>2, <1>5, <1>6, <1>7, <1>8, <1>9, OneChanges DEF r

LEMMA HaltedKeeps ==
  ASSUME IInv, NEW t \in Threads, Active(t), Head(call[t]).do = "halted", UNCHANGED groups,
         Halted(t, Head(call[t]).of, Tail(call[t]))
  PROVE  IInv'
<1>1. Types /\ Turned /\ call[t] # <<>>
  BY DEF IInv, Active
<1>0. PICK v \in Players : v = Head(call[t]).of
  BY <1>1, TurnOf
<1> DEFINE r == Tail(call[t])
<1>2. v \in Players /\ open[v] /\ Holds(r, {"free", "adopt"}, v)
  BY <1>0, <1>1, TurnOf DEF Leads, Turned, Sure
<1>3. Forward(t, r)
  BY RestOnward, OnwardForward
<1>4. call' = [call EXCEPT ![t] = r] /\ chain' = chain /\ open' = [open EXCEPT ![v] = FALSE]
      /\ UNCHANGED <<owners, device, members, playing, reported, polling>>
  BY <1>0, <1>2 DEF Halted, Continue, voice, watch
<1> HIDE DEF r
<1>5. Typed /\ TypedSound /\ Others(v) /\ ~open'[v]
  BY <1>0, <1>1, <1>2, <1>4 DEF Types, Typed, TypedSound, Others
<1>6. Pends(v, {"free", "adopt"})'
  BY <1>0, <1>1, <1>2, <1>4, NowPends
<1>7. Keeps(r, r)
  BY DEF Keeps
<1> QED BY <1>0, <1>2, <1>3, <1>4, <1>5, <1>6, <1>7, OneChanges DEF r

LEMMA PartKeeps ==
  ASSUME IInv, NEW t \in Threads, Active(t), Head(call[t]).do = "part", UNCHANGED groups,
         Part(t, Head(call[t]).of, Head(call[t]).arg, Tail(call[t]))
  PROVE  IInv'
<1>1. Types /\ Turned /\ call[t] # <<>>
  BY DEF IInv, Active
<1>0. PICK v \in Players : v = Head(call[t]).of
  BY <1>1, TurnOf
<1> DEFINE s == Head(call[t]).arg
           r == Tail(call[t])
<1>2. v \in Players /\ Holds(r, {"free", "adopt"}, v)
  BY <1>0, <1>1, TurnOf DEF Leads
<1>3. Forward(t, r)
  BY RestOnward, OnwardForward
<1>4. call' = [call EXCEPT ![t] = r] /\ chain' = chain /\ open' = [open EXCEPT ![v] = FALSE]
      /\ owners' = Disowned(v, {s}) /\ device' = [device EXCEPT ![v] = None]
      /\ UNCHANGED <<members, playing, reported, polling>>
  BY <1>0 DEF Part, Continue, voice, watch
<1>5. owners' \in [Speakers -> Players \cup {None}]
  BY <1>0, <1>1, <1>4, DisownedIs
<1> HIDE DEF r, s
<1>6. Typed /\ TypedSound /\ Others(v) /\ ~open'[v]
  BY <1>0, <1>1, <1>2, <1>4, <1>5 DEF Types, Typed, TypedSound, Others
<1>7. Pends(v, {"free", "adopt"})'
  BY <1>1, <1>2, <1>4, NowPends
<1>8. Keeps(r, r)
  BY DEF Keeps
<1> QED BY <1>0, <1>2, <1>3, <1>4, <1>6, <1>7, <1>8, OneChanges DEF r

LEMMA FreeKeeps ==
  ASSUME IInv, NEW t \in Threads, Active(t), Head(call[t]).do = "free", UNCHANGED groups,
         Free(t, Head(call[t]).of, Tail(call[t]))
  PROVE  IInv'
<1>1. Types /\ Turned /\ call[t] # <<>>
  BY DEF IInv, Active
<1>0. PICK v \in Players : v = Head(call[t]).of
  BY <1>1, TurnOf
<1> DEFINE r == Tail(call[t])
<1>2. v \in Players
  BY <1>0, <1>1, TurnOf
<1>3. Forward(t, r)
  BY RestOnward, OnwardForward
<1>4. call' = [call EXCEPT ![t] = r] /\ chain' = chain
      /\ owners' = Disowned(v, {device[v]} \cup members[v])
      /\ playing' = [playing EXCEPT ![v] = FALSE] /\ reported' = [reported EXCEPT ![v] = "none"]
      /\ UNCHANGED <<device, open, members, polling>>
  BY <1>0 DEF Free, Continue, watch
<1>5. owners' \in [Speakers -> Players \cup {None}]
  BY <1>0, <1>1, <1>4, DisownedIs
<1> HIDE DEF r
<1>6. Typed /\ TypedSound /\ Others(v) /\ ~Loud(v)'
  BY <1>0, <1>1, <1>2, <1>4, <1>5 DEF Types, Typed, TypedSound, Others, Loud
<1>7. Keeps(r, r)
  BY DEF Keeps
<1>8. "fail" \notin Env /\ open'[v] => polling'[v] \/ Pends(v, Watching)'
  <2>1. Head(call[t]).do \notin Watching
    BY DEF Watching
  <2> QED BY <1>0, <1>2, <1>4, <2>1, WatchedOn DEF r
<1> QED BY <1>0, <1>2, <1>3, <1>4, <1>6, <1>7, <1>8, OneChanges DEF r

LEMMA AdoptKeeps ==
  ASSUME IInv, NEW t \in Threads, Active(t), Head(call[t]).do = "adopt", UNCHANGED groups,
         Adopt(t, Head(call[t]).of, Head(call[t]).arg, Tail(call[t]))
  PROVE  IInv'
<1>1. Types /\ Turned /\ call[t] # <<>>
  BY DEF IInv, Active
<1>0. PICK v \in Players : v = Head(call[t]).of
  BY <1>1, TurnOf
<1> DEFINE s == Head(call[t]).arg
           r == Tail(call[t])
<1>2. v \in Players /\ s \in Speakers /\ Holds(r, {"start"}, v)
  BY <1>0, <1>1, TurnOf DEF Leads, OnSpeaker
<1>3. Forward(t, r)
  BY RestOnward, OnwardForward
<1>4. call' = [call EXCEPT ![t] = r] /\ chain' = chain
      /\ device' = [device EXCEPT ![v] = s] /\ open' = [open EXCEPT ![v] = TRUE]
      /\ UNCHANGED <<owners, members, playing, reported, polling>>
  BY <1>0 DEF Adopt, Continue, voice, watch
<1> HIDE DEF r, s
<1>5. Typed /\ TypedSound /\ Others(v) /\ open'[v]
  BY <1>0, <1>1, <1>2, <1>4 DEF Types, Typed, TypedSound, Others
<1>6. Holds(r, Watching, v)
  BY <1>0, <1>2, HoldsMore DEF Watching
<1>7. Pends(v, Watching)'
  BY <1>1, <1>4, <1>6, NowPends
<1>8. Keeps(r, r)
  BY DEF Keeps
<1> QED BY <1>0, <1>2, <1>3, <1>4, <1>5, <1>7, <1>8, OneChanges DEF r

\* A throw that nothing follows but the end of the operation ends just that.
LEMMA NothingThrown ==
  ASSUME NEW t, NEW r, Body(t, r), r = <<>> \/ Head(r).do = "done"
  PROVE  Thrown(r) = r
<1> DEFINE caught == {i \in 1..Len(r) : r[i].do \in {"own", "done"}}
<1>1. r \in Seq(Segments)
  BY DEF Body
<1>2. CASE r = <<>>
  <2>1. caught = {}
    BY <1>2
  <2> QED BY <1>2, <2>1 DEF Thrown
<1>3. CASE r # <<>>
  <2>1. Leads(t, Head(r), Tail(r))
    BY <1>1, <1>3, ShapedPut DEF Body
  <2>2. Tail(r) = <<>> /\ Head(r).do = "done"
    BY <1>3, <2>1 DEF Leads, Final
  <2>3. Len(r) = 1 /\ r[1] = Head(r)
    <3>1. Len(Tail(r)) = Len(r) - 1 /\ Len(r) \in Nat
      BY <1>1, <1>3, HeadTailProperties
    <3> DEFINE e == Tail(r)
    <3>2. e \in Seq(Segments) /\ e = <<>>
      BY <1>1, <1>3, <2>2, HeadTailProperties
    <3> HIDE DEF e
    <3>3. Len(e) = 0
      BY <3>2
    <3>4. Len(r) = 1
      BY <3>1, <3>3 DEF e
    <3> QED BY <1>1, <3>4
  <2>4. 1 \in caught /\ \A i \in caught : i = 1
    BY <2>2, <2>3
  <2> DEFINE first == CHOOSE i \in caught : \A j \in caught : i <= j
  <2>5. first = 1
    BY <2>4
  <2>6. caught # {} /\ Thrown(r) = SubSeq(r, first, Len(r))
    BY <2>4 DEF Thrown
  <2>7. SubSeq(r, 1, Len(r)) = r
    BY <1>1, <2>3
  <2> QED BY <2>5, <2>6, <2>7
<1> QED BY <1>2, <1>3

LEMMA ShownIs ==
  ASSUME NEW d, NEW p
  PROVE  Shown(d, p) \in {"none", "playing", "paused"}
BY DEF Shown

LEMMA SoundKeeps ==
  ASSUME IInv, NEW t \in Threads, Active(t), Head(call[t]).do = "start", UNCHANGED groups,
         Sound(t, Head(call[t]).of, Head(call[t]).arg, Tail(call[t]))
  PROVE  IInv'
<1>1. Types /\ Turned /\ call[t] # <<>>
  BY DEF IInv, Active
<1>2. PICK v \in Players : v = Head(call[t]).of
  BY <1>1, TurnOf
<1>3. PICK play \in BOOLEAN : play = Head(call[t]).arg
  BY <1>1, TurnOf DEF OnPlaying
<1> DEFINE r == Tail(call[t])
           g == SegTo("started", v, play)
<1>4. Leads(t, Head(call[t]), r) /\ Body(t, r)
  BY <1>1, TurnOf DEF Body
<1>5. g \in Segments /\ g.do = "started" /\ g.of = v
  BY <1>2, <1>3, SegToIs DEF Dos, OnPlaying
<1>6. Leads(t, g, r)
  BY <1>2, <1>4, <1>5 DEF Leads, Final, OfOps
<1>7. UNCHANGED <<owners, device, open, members, polling>> /\ chain' = chain
  BY DEF Sound, hold, watch
<1>8. CASE ~open[v] /\ Continue(t, r) /\ UNCHANGED voice
  <2>1. call' = [call EXCEPT ![t] = r] /\ UNCHANGED <<playing, reported>>
    BY <1>8 DEF Continue, voice
  <2>2. Typed /\ TypedSound /\ Others(v) /\ ~open'[v]
    BY <1>1, <1>7, <1>8, <2>1 DEF Types, Typed, TypedSound, Others
  <2>3. Forward(t, r)
    BY RestOnward, OnwardForward
  <2> HIDE DEF r
  <2>4. Loud(v)' => open'[v] \/ Pends(v, {"free", "adopt"})'
    <3>1. Loud(v)' => Loud(v)
      BY <2>1 DEF Loud
    <3> QED BY <1>2, <1>7, <2>1, <3>1, VoicedOn DEF r
  <2>5. Keeps(r, r)
    BY DEF Keeps
  <2> QED BY <1>2, <1>7, <2>1, <2>2, <2>3, <2>4, <2>5, OneChanges DEF r
<1>9. CASE /\ open[v] /\ playing' = [playing EXCEPT ![v] = play]
           /\ reported' = [reported EXCEPT ![v] = Shown(device[v], play)]
           /\ Continue(t, <<g>> \o r)
  <2> DEFINE n == <<g>> \o r
  <2>1. call' = [call EXCEPT ![t] = n]
    BY <1>9 DEF Continue
  <2>2. Typed /\ TypedSound /\ Others(v) /\ open'[v]
    <3>1. Shown(device[v], play) \in {"none", "playing", "paused"}
      BY ShownIs
    <3> QED BY <1>1, <1>2, <1>7, <1>9, <3>1 DEF Types, Typed, TypedSound, Others
  <2>3. n = <<g>> \o r
    OBVIOUS
  <2> HIDE DEF n, g, r
  <2>4. n \in Seq(Segments) /\ n # <<>> /\ Good(t, n) /\ Head(n) = g /\ Keeps(n, r)
        /\ (g.do \in Watching => Holds(n, Watching, g.of))
    BY <1>4, <1>5, <1>6, <2>3, OneMore
  <2>5. Forward(t, n) /\ Holds(n, Watching, v)
    BY <1>5, <2>2, <2>4 DEF Forward, Watching
  <2>6. Pends(v, Watching)'
    BY <1>1, <2>1, <2>5, NowPends
  <2> QED BY <1>2, <1>7, <2>1, <2>2, <2>4, <2>5, <2>6, OneChanges DEF r
<1> QED BY <1>2, <1>3, <1>8, <1>9 DEF Sound

LEMMA StartedKeeps ==
  ASSUME IInv, NEW t \in Threads, Active(t), Head(call[t]).do = "started", UNCHANGED groups,
         Started(t, Head(call[t]).of, Head(call[t]).arg, Tail(call[t]))
  PROVE  IInv'
<1>1. Types /\ Turned /\ call[t] # <<>>
  BY DEF IInv, Active
<1>2. PICK v \in Players : v = Head(call[t]).of
  BY <1>1, TurnOf
<1>3. PICK play \in BOOLEAN : play = Head(call[t]).arg
  BY <1>1, TurnOf DEF OnPlaying
<1> DEFINE r == Tail(call[t])
<1>4. Leads(t, Head(call[t]), r) /\ Body(t, r) /\ open[v]
  BY <1>1, <1>2, TurnOf DEF Body, Turned, Sure
<1>5. Thrown(r) = r
  BY <1>4, NothingThrown DEF Leads
<1>6. UNCHANGED <<owners, device, open, members>> /\ chain' = chain
      /\ call' = [call EXCEPT ![t] = r]
  BY <1>5 DEF Started, Continue, hold
<1>7. \/ /\ playing' = [playing EXCEPT ![v] = play]
         /\ reported' = [reported EXCEPT ![v] = Shown(device[v], play)]
         /\ polling' = [polling EXCEPT ![v] = TRUE]
      \/ "fail" \in Env /\ UNCHANGED <<playing, reported, polling>>
  BY <1>2, <1>3, <1>4 DEF Started
<1>8. Forward(t, r)
  BY RestOnward, OnwardForward
<1> HIDE DEF r
<1>9. Typed /\ open'[v]
  BY <1>1, <1>4, <1>6 DEF Types, Typed
<1>12. TypedSound /\ Others(v)
  <2>1. CASE UNCHANGED <<playing, reported, polling>>
    BY <1>1, <1>6, <2>1 DEF Types, TypedSound, Others
  <2>2. CASE /\ playing' = [playing EXCEPT ![v] = play]
             /\ reported' = [reported EXCEPT ![v] = Shown(device[v], play)]
             /\ polling' = [polling EXCEPT ![v] = TRUE]
    <3>1. Shown(device[v], play) \in {"none", "playing", "paused"}
      BY ShownIs
    <3> QED BY <1>1, <1>6, <2>2, <3>1 DEF Types, TypedSound, Others
  <2> QED BY <1>7, <2>1, <2>2
<1>10. "fail" \notin Env => polling'[v]
  BY <1>1, <1>2, <1>7 DEF Types
<1>11. Keeps(r, r)
  BY DEF Keeps
<1> QED BY <1>2, <1>6, <1>8, <1>9, <1>10, <1>11, <1>12, OneChanges DEF r

\* The speaker plays or not, and the session is told.
LEMMA SaysKeeps ==
  ASSUME IInv, NEW t \in Threads, Active(t), NEW n, Onward(t, n), Keeps(n, Tail(call[t])),
         call' = [call EXCEPT ![t] = n], chain' = chain,
         UNCHANGED <<groups, owners, device, open, members, polling>>,
         NEW v \in Players, v = Head(call[t]).of, open[v], NEW b \in BOOLEAN,
         Head(call[t]).do \notin Watching,
         \/ /\ playing' = [playing EXCEPT ![v] = b]
            /\ reported' = [reported EXCEPT ![v] = Shown(device[v], b)]
         \/ UNCHANGED <<playing, reported>>
  PROVE  IInv'
<1>1. Types /\ Turned
  BY DEF IInv
<1>2. Typed /\ open'[v]
  BY <1>1 DEF Types, Typed
<1>5. TypedSound /\ Others(v)
  <2>1. CASE UNCHANGED <<playing, reported>>
    BY <1>1, <2>1 DEF Types, TypedSound, Others
  <2>2. CASE /\ playing' = [playing EXCEPT ![v] = b]
             /\ reported' = [reported EXCEPT ![v] = Shown(device[v], b)]
    <3>1. Shown(device[v], b) \in {"none", "playing", "paused"}
      BY ShownIs
    <3> QED BY <1>1, <2>2, <3>1 DEF Types, TypedSound, Others
  <2> QED BY <2>1, <2>2
<1>3. Forward(t, n)
  BY OnwardForward
<1>4. "fail" \notin Env => polling'[v] \/ Pends(v, Watching)'
  BY WatchedOn DEF Keeps
<1> QED BY <1>2, <1>3, <1>4, <1>5, OneChanges

LEMMA FlipKeeps ==
  ASSUME IInv, NEW t \in Threads, Active(t), Head(call[t]).do = "flip", UNCHANGED groups,
         Flip(t, Head(call[t]).of, Head(call[t]).arg, Tail(call[t]))
  PROVE  IInv'
<1>1. Types /\ Turned /\ call[t] # <<>>
  BY DEF IInv, Active
<1>2. PICK v \in Players : v = Head(call[t]).of
  BY <1>1, TurnOf
<1>3. PICK play \in BOOLEAN : play = Head(call[t]).arg
  BY <1>1, TurnOf DEF OnPlaying
<1> DEFINE r == Tail(call[t])
<1>4. Leads(t, Head(call[t]), r) /\ Body(t, r) /\ open[v]
  BY <1>1, <1>2, TurnOf DEF Body, Turned, Sure
<1>5. Thrown(r) = r
  BY <1>4, NothingThrown DEF Leads
<1>6. UNCHANGED <<groups, owners, device, open, members, polling>> /\ chain' = chain
      /\ call' = [call EXCEPT ![t] = r]
  BY <1>5 DEF Flip, Continue, hold, watch
<1>7. \/ /\ playing' = [playing EXCEPT ![v] = play]
         /\ reported' = [reported EXCEPT ![v] = Shown(device[v], play)]
      \/ UNCHANGED <<playing, reported>>
  BY <1>2, <1>3 DEF Flip
<1>8. Onward(t, r)
  BY RestOnward
<1>9. Keeps(r, Tail(call[t])) /\ Head(call[t]).do \notin Watching
  BY DEF Keeps, Watching
<1> HIDE DEF r
<1> QED BY <1>2, <1>4, <1>6, <1>7, <1>8, <1>9, SaysKeeps

\* What a reading leads to: nothing, a yield, or the next track.
LEMMA ReadsOn ==
  ASSUME NEW t, NEW v \in Players, t[2] # "ops"
  PROVE  Onward(t, <<>>) /\ Onward(t, Yield(v)) /\ Onward(t, Start(v, TRUE))
<1> DEFINE none == <<>>
<1>1. Body(t, none) /\ none \in Seq(Segments) /\ Good(t, none)
  <2>1. Body(t, none)
    BY EmptyBody
  <2> QED BY <2>1 DEF Body, Good
<1>2. Onward(t, none)
  BY <1>1 DEF Onward
<1>3. Onward(t, Yield(v))
  <2> DEFINE y == Yield(v)
  <2>1. Extended(t, y \o none, none)
    BY <1>1, YieldExtended
  <2>2. y \in Seq(Segments)
    <3>1. Seg("quiet", v) \in Segments /\ Seg("dissolve", v) \in Segments
          /\ Seg("halt", v) \in Segments /\ Seg("free", v) \in Segments
      BY SegIs DEF Dos, OnSpeaker, OnPlaying
    <3> QED BY <3>1 DEF Yield
  <2> HIDE DEF y
  <2>3. y \o none = y
    BY <2>2, ConcatEmptySeq
  <2> QED BY <2>1, <2>3 DEF Extended, y
<1>4. Onward(t, Start(v, TRUE))
  <2>0. PICK b \in BOOLEAN : b = TRUE
    OBVIOUS
  <2> DEFINE g == SegTo("start", v, b)
  <2>1. g \in Segments /\ g.do = "start" /\ g.of = v
    BY SegToIs DEF Dos, OnPlaying
  <2>2. Leads(t, g, none)
    BY <2>1 DEF Leads, Final, OfOps
  <2>3. Start(v, TRUE) = <<g>>
    BY <2>0 DEF Start
  <2> HIDE DEF g
  <2> DEFINE n == <<g>> \o none
  <2>4. n = <<g>>
    BY <2>1
  <2>5. n = <<g>> \o none
    OBVIOUS
  <2> HIDE DEF n, none
  <2>6. n \in Seq(Segments) /\ Good(t, n) /\ Head(n) = g
    BY <1>1, <2>1, <2>2, <2>5, OneMore
  <2>7. Onward(t, n)
    BY <2>1, <2>6 DEF Onward, First
  <2> QED BY <2>3, <2>4, <2>7
<1> QED BY <1>2, <1>3, <1>4

LEMMA HoldsNone ==
  ASSUME NEW dos, NEW w
  PROVE  ~Holds(<<>>, dos, w)
BY DEF Holds

LEMMA ReadKeeps ==
  ASSUME IInv, NEW t \in Threads, Active(t), Head(call[t]).do = "read", UNCHANGED groups,
         Read(t, Head(call[t]).of, Head(call[t]).arg)
  PROVE  IInv'
<1>1. Types /\ Turned /\ call[t] # <<>>
  BY DEF IInv, Active
<1>2. PICK v \in Players : v = Head(call[t]).of
  BY <1>1, TurnOf
<1>3. PICK reads \in BOOLEAN : reads = Head(call[t]).arg
  BY <1>1, TurnOf DEF OnPlaying
<1> DEFINE r == Tail(call[t])
<1>4. Leads(t, Head(call[t]), r) /\ open[v]
  BY <1>1, <1>2, TurnOf DEF Turned, Sure
<1>5. r = <<>> /\ t[2] # "ops"
  BY <1>4 DEF Leads, Final
<1>6. Onward(t, <<>>) /\ Onward(t, Yield(v)) /\ Onward(t, Start(v, TRUE))
  BY <1>5, ReadsOn
<1>7. \A dos, w : ~Holds(Tail(call[t]), dos, w)
  BY <1>5, HoldsNone
<1>8. Head(call[t]).do \notin {"free", "adopt", "halt", "halted", "part", "start", "started"}
  OBVIOUS
<1>9. Read(t, v, reads)
  BY <1>2, <1>3
<1>10. CASE /\ UNCHANGED <<hold, voice, polling, chain>>
            /\ Continue(t, <<>>) \/ Continue(t, Yield(v)) \/ Continue(t, Start(v, TRUE))
  <2>1. UNCHANGED <<groups, owners, device, open, members, playing, polling, reported>>
        /\ chain' = chain
    BY <1>10 DEF hold, voice
  <2>2. PICK n : call' = [call EXCEPT ![t] = n] /\ Onward(t, n)
    BY <1>6, <1>10 DEF Continue
  <2> QED BY <1>7, <1>8, <2>1, <2>2, OnlyGoesOn
<1>11. CASE Lose(t, v)
  <2> DEFINE none == <<>>
  <2>1. /\ call' = [call EXCEPT ![t] = none] /\ chain' = chain /\ device' = device
        /\ polling' = [polling EXCEPT ![v] = FALSE] /\ open' = [open EXCEPT ![v] = FALSE]
        /\ playing' = [playing EXCEPT ![v] = FALSE] /\ reported' = [reported EXCEPT ![v] = "none"]
        /\ members' = [members EXCEPT ![v] = {}]
        /\ owners' = Disowned(v, {device[v]} \cup members[v])
    BY <1>11 DEF Lose, Continue
  <2>2. owners' \in [Speakers -> Players \cup {None}]
    BY <1>1, <2>1, DisownedIs
  <2>3. Typed /\ TypedSound /\ Others(v) /\ ~open'[v] /\ ~Loud(v)'
    BY <1>1, <2>1, <2>2 DEF Types, Typed, TypedSound, Others, Loud
  <2>4. Onward(t, none) /\ Forward(t, none) /\ Keeps(none, Tail(call[t]))
    BY <1>6, <1>7, OnwardForward DEF Keeps
  <2> HIDE DEF none
  <2> QED BY <1>2, <2>1, <2>3, <2>4, OneChanges
<1>12. CASE \E b \in BOOLEAN : Follow(t, v, b)
  <2>1. PICK b \in BOOLEAN : Follow(t, v, b)
    BY <1>12
  <2> DEFINE none == <<>>
  <2>2. /\ call' = [call EXCEPT ![t] = none] /\ chain' = chain
        /\ UNCHANGED <<groups, owners, device, open, members, polling>>
        /\ playing' = [playing EXCEPT ![v] = b]
        /\ reported' = [reported EXCEPT ![v] = Shown(device[v], b)]
    BY <2>1 DEF Follow, Continue, hold
  <2>3. Onward(t, none) /\ Keeps(none, Tail(call[t]))
    BY <1>6, <1>7 DEF Keeps
  <2>4. Head(call[t]).do \notin Watching
    BY DEF Watching
  <2> HIDE DEF none
  <2> QED BY <1>2, <1>4, <2>2, <2>3, <2>4, SaysKeeps
<1> QED
  <2>1. CASE Busy(v)
    BY <1>9, <1>10, <2>1 DEF Read, watch
  <2>2. CASE ~Busy(v)
    <3>1. \/ Continue(t, Yield(v)) /\ UNCHANGED <<hold, voice, watch, chain>>
          \/ Lose(t, v)
          \/ Follow(t, v, TRUE)
          \/ Continue(t, Start(v, TRUE)) /\ UNCHANGED <<hold, voice, polling, chain>>
          \/ \E b \in {reads} \cup (IF "stopped" \in Env THEN {FALSE} ELSE {}) : Follow(t, v, b)
      BY <1>9, <2>2 DEF Read
    <3>2. {reads} \cup (IF "stopped" \in Env THEN {FALSE} ELSE {}) \subseteq BOOLEAN
      OBVIOUS
    <3> QED BY <1>10, <1>11, <1>12, <3>1, <3>2 DEF watch
  <2> QED BY <2>1, <2>2

\* A step that leaves sound and poll, and what is to be done for them, alone.
LEMMA HeardOn ==
  ASSUME IInv, NEW t \in Threads, Active(t), NEW n, call' = [call EXCEPT ![t] = n],
         UNCHANGED <<open, playing, polling, reported>>, Keeps(n, Tail(call[t])),
         Head(call[t]).do \notin {"free", "adopt"}, Head(call[t]).do \notin Watching
  PROVE  Voiced' /\ Watched'
<1>1. Voiced'
  <2>1. ASSUME NEW p \in Players, Loud(p)' PROVE open'[p] \/ Pends(p, {"free", "adopt"})'
    <3>1. Loud(p)
      BY <2>1 DEF Loud
    <3> QED BY <3>1, VoicedOn DEF Keeps
  <2> QED BY <2>1 DEF Voiced
<1>2. Watched'
  <2>1. ASSUME NEW p \in Players, open'[p], "fail" \notin Env
        PROVE  polling'[p] \/ Pends(p, Watching)'
    BY <2>1, WatchedOn DEF Keeps
  <2> QED BY <2>1 DEF Watched, Watching
<1> QED BY <1>1, <1>2

\* The threads whose turn it is not wait for an operation another one runs.
LEMMA OthersWait ==
  ASSUME IInv, NEW u \in Threads, ~Active(u), call[u] # <<>>
  PROVE  /\ Head(call[u]).do = "wait" /\ Head(call[u]).of \in Players
         /\ \E i \in 1..Len(chain[Head(call[u]).of]) : chain[Head(call[u]).of][i].by = u
<1>1. Types /\ Turned
  BY DEF IInv
<1>2. Head(call[u]).of \in Players
  BY <1>1, TurnOf
<1> QED BY <1>2 DEF Active, Waits, Answered

\* A command is put behind what another player is doing, and waited for.
LEMMA AsksKeeps ==
  ASSUME IInv, NEW v \in Players, NEW t \in Threads, t = <<v, "ops">>, Active(t),
         Head(call[t]).do = "claim", NEW q \in Players, q # v,
         NEW o \in Commands, o.by = t,
         call' = [call EXCEPT ![t] = <<Seg("wait", q)>> \o Tail(call[t])],
         chain' = [chain EXCEPT ![q] = Append(chain[q], o)],
         UNCHANGED <<groups, owners, device, open, members, playing, polling, reported>>
  PROVE  IInv'
<1> DEFINE r == Tail(call[t])
           g == Seg("wait", q)
           n == <<g>> \o r
           c == Append(chain[q], o)
<1>1. Types /\ Turned /\ call[t] # <<>>
  BY DEF IInv, Active
<1>2. Body(t, r) /\ Leads(t, Head(call[t]), r)
  BY <1>1, TurnOf DEF Body
<1>3. g \in Segments /\ g.do = "wait" /\ g.of = q
  BY SegIs DEF Dos, OnSpeaker, OnPlaying
<1>4. Leads(t, g, r)
  BY <1>2, <1>3 DEF Leads, Final, OfOps
<1>5. call' = [call EXCEPT ![t] = n] /\ n = <<g>> \o r /\ chain' = [chain EXCEPT ![q] = c]
  OBVIOUS
<1>6. c \in Seq(Commands) /\ Len(c) = Len(chain[q]) + 1 /\ c[Len(c)] = o
      /\ \A i \in 1..Len(chain[q]) : c[i] = chain[q][i]
  <2>1. chain[q] \in Seq(Commands)
    BY <1>1 DEF Types
  <2> QED BY <2>1
<1> HIDE DEF n, g, r, c
<1>7. n \in Seq(Segments) /\ n # <<>> /\ Good(t, n) /\ Head(n) = g /\ Keeps(n, r)
  BY <1>2, <1>3, <1>4, <1>5, OneMore
<1>8. call' \in [Threads -> Seq(Segments)] /\ call'[t] = n
      /\ \A u \in Threads : u # t => call'[u] = call[u]
  BY <1>1, <1>5, <1>7 DEF Types
<1>9. chain' \in [Players -> Seq(Commands)] /\ chain'[q] = c
      /\ \A p \in Players : p # q => chain'[p] = chain[p]
  BY <1>1, <1>5, <1>6 DEF Types
<1>10. \A p \in Players : /\ Len(chain[p]) \in Nat /\ Len(chain[p]) <= 1
                          /\ \A i \in 1..Len(chain[p]) : i \in 1..Len(chain'[p]) /\ chain'[p][i] = chain[p][i]
  <2>1. ASSUME NEW p \in Players PROVE Len(chain[p]) \in Nat /\ Len(chain[p]) <= 1
    <3>1. chain[p] \in Seq(Commands)
      BY <1>1 DEF Types
    <3>2. ~(Len(chain[p]) > 1)
      BY <1>1 DEF Turned, Blocked
    <3> QED BY <3>1, <3>2
  <2>2. ASSUME NEW p \in Players
        PROVE  \A i \in 1..Len(chain[p]) : i \in 1..Len(chain'[p]) /\ chain'[p][i] = chain[p][i]
    <3>1. CASE p = q
      BY <1>6, <1>9, <2>1, <3>1
    <3>2. CASE p # q
      BY <1>9, <3>2
    <3> QED BY <3>1, <3>2
  <2> QED BY <2>1, <2>2
<1>11. ASSUME NEW u \in Threads PROVE ~Active(u)'
  <2>1. CASE u = t
    <3>1. Len(c) \in 1..Len(c)
      BY <1>6, <1>10
    <3>2. ~Answered(t, q)'
      BY <1>6, <1>9, <3>1 DEF Answered
    <3>3. Head(call'[t]).do = "wait" /\ Head(call'[t]).of = q
      BY <1>3, <1>7, <1>8
    <3>4. Waits(t)'
      BY <3>2, <3>3 DEF Waits
    <3> QED BY <2>1, <3>4 DEF Active
  <2>2. CASE u # t /\ call[u] = <<>>
    BY <1>8, <2>2 DEF Active
  <2>3. CASE u # t /\ call[u] # <<>>
    <3>1. ~Active(u)
      BY <1>1, <2>3 DEF Turned, OneThread
    <3>2. PICK p \in Players : Head(call[u]).do = "wait" /\ p = Head(call[u]).of
                               /\ \E i \in 1..Len(chain[p]) : chain[p][i].by = u
      BY <2>3, <3>1, OthersWait
    <3>3. \E i \in 1..Len(chain'[p]) : chain'[p][i].by = u
      BY <1>10, <3>2
    <3>4. ~Answered(u, p)'
      BY <3>3 DEF Answered
    <3>5. Waits(u)'
      BY <1>8, <2>3, <3>2, <3>4 DEF Waits
    <3> QED BY <3>5 DEF Active
  <2> QED BY <2>1, <2>2, <2>3
<1>12. \A p \in Players : <<p, "ops">> \in Threads /\ ~Startable(p)
  BY <1>1 DEF Threads, Turned, NotBoth
<1>13. ASSUME NEW p \in Players, Startable(p)'
       PROVE  p = q /\ chain[p] = <<>>
  <2>1. CASE p = v
    BY <1>7, <1>8, <1>13, <2>1 DEF Startable
  <2>2. CASE p # v
    <3>1. call'[<<p, "ops">>] = call[<<p, "ops">>]
      BY <1>8, <1>12, <2>2
    <3>2. call[<<p, "ops">>] = <<>> /\ chain'[p] # <<>>
      BY <1>13, <3>1 DEF Startable
    <3>3. chain[p] = <<>>
      BY <1>12, <3>2 DEF Startable
    <3> QED BY <1>9, <3>2, <3>3
  <2> QED BY <2>1, <2>2
<1>14. OneThread' /\ OneStart' /\ NotBoth'
  BY <1>11, <1>13 DEF OneThread, OneStart, NotBoth
<1>15. Blocked'
  <2>1. ASSUME NEW p \in Players, Len(chain'[p]) > 1, NEW x \in Players, Startable(x)'
        PROVE  FALSE
    <3>1. x = q /\ chain[q] = <<>>
      BY <1>13, <2>1
    <3>2. Len(chain[q]) = 0
      BY <3>1
    <3>3. Len(chain'[q]) = 1
      BY <1>6, <1>9, <3>2
    <3>4. p # q => Len(chain'[p]) <= 1 /\ Len(chain'[p]) \in Nat
      BY <1>9, <1>10
    <3> QED BY <2>1, <3>3, <3>4
  <2> QED BY <1>11, <2>1 DEF Blocked
<1>16. Chained'
  <2>1. ASSUME NEW p \in Players, call'[<<p, "ops">>] # <<>> PROVE chain'[p] # <<>>
    <3>1. CASE p = q
      <4>1. Len(c) > 0
        BY <1>6, <1>10
      <4>2. c # <<>>
        BY <1>6, <4>1
      <4> QED BY <1>9, <3>1, <4>2
    <3>2. CASE p # q
      <4>1. call[<<p, "ops">>] # <<>>
        BY <1>1, <1>8, <1>12, <2>1
      <4> QED BY <1>1, <1>9, <3>2, <4>1 DEF Turned, Chained
    <3> QED BY <3>1, <3>2
  <2> QED BY <2>1 DEF Chained
<1>17. Formed'
  BY <1>1, <1>7, <1>8 DEF Turned, Formed
<1>18. Sure'
  <2>1. ASSUME NEW u \in Threads, call'[u] # <<>> PROVE Head(call'[u]).do = "wait"
    BY <1>11, <2>1 DEF Active, Waits
  <2> QED BY <2>1 DEF Sure
<1>19. Types'
  BY <1>1, <1>8, <1>9 DEF Types
<1>20. Voiced' /\ Watched'
  <2>1. Head(call[t]).do \notin Watching
    BY DEF Watching
  <2> QED BY <1>5, <1>7, <2>1, HeardOn DEF r
<1> QED BY <1>14, <1>15, <1>16, <1>17, <1>18, <1>19, <1>20 DEF IInv, Turned

LEMMA ClaimKeeps ==
  ASSUME IInv, NEW t \in Threads, Active(t), Head(call[t]).do = "claim", UNCHANGED groups,
         Claim(t, Head(call[t]).of, Head(call[t]).arg, Tail(call[t]))
  PROVE  IInv'
<1>1. Types /\ Turned /\ call[t] # <<>>
  BY DEF IInv, Active
<1>2. PICK v \in Players : v = Head(call[t]).of
  BY <1>1, TurnOf
<1>3. PICK s \in Speakers : s = Head(call[t]).arg
  BY <1>1, TurnOf DEF OnSpeaker
<1> DEFINE r == Tail(call[t])
<1>4. Leads(t, Head(call[t]), r) /\ Body(t, r)
  BY <1>1, TurnOf DEF Body
<1>5. t = <<v, "ops">> /\ Head(r).do = "own" /\ r # <<>> /\ r \in Seq(Segments)
  BY <1>2, <1>4 DEF Leads, OfOps, Body
<1>6. Claim(t, v, s, r)
  BY <1>2, <1>3
<1>7. UNCHANGED <<groups, device, open, members, playing, polling, reported>>
  BY DEF Claim, voice, watch
<1>8. Head(call[t]).do \notin {"free", "adopt", "halt", "halted", "part", "start", "started"}
  OBVIOUS
<1>9. PICK q \in Players \cup {None} : q = owners[s]
  BY <1>1 DEF Types
<1>10. CASE q \in {None, v}
  <2> DEFINE n == Tail(r)
  <2>1. owners' = [owners EXCEPT ![s] = v] /\ call' = [call EXCEPT ![t] = n] /\ chain' = chain
    BY <1>6, <1>9, <1>10 DEF Claim, Continue
  <2>2. Typed
    BY <1>1, <1>7, <2>1 DEF Types, Typed
  <2>3. Leads(t, Head(r), n) /\ Good(t, r)
    BY <1>4, <1>5, ShapedPut, NonePut DEF Body, Good
  <2>4. n \in Seq(Segments) /\ Good(t, n) /\ NoneFirst(n)
    BY <1>5, <2>3, GoodTail
  <2>5. n # <<>>
    BY <1>5, <2>3 DEF Leads
  <2>6. ASSUME NEW dos, NEW w, "own" \notin dos, Holds(r, dos, w) PROVE Holds(n, dos, w)
    <3>1. Holds(r, dos, w) <=> (Head(r).do \in dos /\ Head(r).of = w) \/ Holds(Tail(r), dos, w)
      BY <1>5, HoldsPut
    <3> QED BY <1>5, <2>6, <3>1
  <2>7. reported' \in [Players -> {"none", "playing", "paused"}]
        /\ \A p \in Players : reported'[p] = "playing" => Loud(p)
    BY <1>1, <1>7 DEF Types, Loud
  <2> HIDE DEF n
  <2>8. Onward(t, n)
    BY <2>4, <2>5, NonePut DEF Onward
  <2>9. \A dos, w : "own" \notin dos /\ Holds(Tail(call[t]), dos, w) => Holds(n, dos, w)
    BY <2>6
  <2> HIDE DEF r
  <2> QED BY <1>7, <1>8, <2>1, <2>2, <2>7, <2>8, <2>9, Inert
<1>11. CASE q \notin {None, v}
  <2>1. q \in Players /\ owners' = owners
    BY <1>6, <1>9, <1>11 DEF Claim
  <2>2. CASE \/ Continue(t, Yield(q) \o r) /\ UNCHANGED chain
             \/ Continue(t, r) /\ UNCHANGED chain
    <3>1. Extended(t, Yield(q) \o r, r)
      BY <1>4, <1>5, <2>1, YieldExtended
    <3>2. Extended(t, r, r)
      BY RestOnward DEF Extended
    <3>3. PICK n : Extended(t, n, r) /\ call' = [call EXCEPT ![t] = n] /\ chain' = chain
      BY <2>2, <3>1, <3>2 DEF Continue
    <3> HIDE DEF r
    <3> QED BY <1>7, <1>8, <2>1, <3>3, OnlyGoesOn DEF Extended, r
  <2>3. CASE \E o \in Commands : /\ o.by = t /\ chain' = [chain EXCEPT ![q] = Append(@, o)]
                                 /\ Continue(t, <<Seg("wait", q)>> \o r)
    <3>1. PICK o \in Commands : /\ o.by = t /\ chain' = [chain EXCEPT ![q] = Append(@, o)]
                                /\ Continue(t, <<Seg("wait", q)>> \o r)
      BY <2>3
    <3>2. chain' = [chain EXCEPT ![q] = Append(chain[q], o)]
          /\ call' = [call EXCEPT ![t] = <<Seg("wait", q)>> \o Tail(call[t])]
      BY <1>1, <2>1, <3>1 DEF Continue, Types
    <3>3. UNCHANGED <<groups, owners, device, open, members, playing, polling, reported>>
      BY <1>7, <2>1
    <3> HIDE DEF r
    <3> QED BY <1>5, <1>11, <2>1, <3>1, <3>2, <3>3, AsksKeeps
  <2>4. Op("drop", s, {}, t) \in Commands /\ Op("drop", s, {}, t).by = t
    BY DEF Op, Commands
  <2>5. ASSUME NEW m \in members[q]
        PROVE  Op("handoff", s, {m}, t) \in Commands /\ Op("handoff", s, {m}, t).by = t
    <3>1. m \in Speakers
      BY <1>1, <2>1 DEF Types
    <3> QED BY <3>1 DEF Op, Commands
  <2>6. \/ /\ chain' = [chain EXCEPT ![q] = Append(@, Op("drop", s, {}, t))]
           /\ Continue(t, <<Seg("wait", q)>> \o r)
        \/ \E m \in members[q] : /\ chain' = [chain EXCEPT ![q] = Append(@, Op("handoff", s, {m}, t))]
                                 /\ Continue(t, <<Seg("wait", q)>> \o r)
        \/ Continue(t, Yield(q) \o r) /\ UNCHANGED chain
        \/ Continue(t, r) /\ UNCHANGED chain
    <3> HIDE DEF r
    <3> QED BY <1>6, <1>9, <1>11 DEF Claim
  <2> QED BY <2>2, <2>3, <2>4, <2>5, <2>6
<1> QED BY <1>10, <1>11

\* An operation is over, and who waited for it may go on.
LEMMA DoneKeeps ==
  ASSUME IInv, NEW t \in Threads, Active(t), Head(call[t]).do = "done", UNCHANGED groups,
         Done(t, Head(call[t]).of)
  PROVE  IInv'
<1>1. Types /\ Turned /\ call[t] # <<>>
  BY DEF IInv, Active
<1>2. PICK v \in Players : v = Head(call[t]).of
  BY <1>1, TurnOf
<1> DEFINE none == <<>>
           c == Tail(chain[v])
<1>3. Leads(t, Head(call[t]), Tail(call[t]))
  BY <1>1, TurnOf
<1>4. Tail(call[t]) = <<>> /\ t = <<v, "ops">>
  BY <1>2, <1>3 DEF Leads, Final, OfOps
<1>5. chain' = [chain EXCEPT ![v] = c] /\ call' = [call EXCEPT ![t] = none]
      /\ UNCHANGED <<owners, device, open, members, playing, polling, reported>>
  BY <1>1, <1>2 DEF Done, Continue, Types, hold, voice, watch
<1>6. chain[v] \in Seq(Commands) /\ chain[v] # <<>> /\ ~(Len(chain[v]) > 1)
  BY <1>1, <1>4 DEF Types, Turned, Chained, Blocked
<1>7. Len(chain[v]) = 1 /\ c \in Seq(Commands) /\ c = <<>>
  <2>1. Len(chain[v]) = 1
    <3> DEFINE e == chain[v]
    <3>1. e \in Seq(Commands) /\ e # <<>> /\ ~(Len(e) > 1)
      BY <1>6
    <3> HIDE DEF e
    <3>2. Len(e) \in Nat \ {0}
      BY <3>1, EmptySeq
    <3>3. Len(e) = 1
      <4>1. PICK k \in Nat \ {0} : k = Len(e)
        BY <3>2
      <4>2. ~(k > 1)
        BY <3>1, <4>1
      <4>3. k = 1
        BY <4>2
      <4> QED BY <4>1, <4>3
    <3> QED BY <3>3 DEF e
  <2>2. c \in Seq(Commands) /\ Len(c) = 0
    BY <1>6, <2>1, HeadTailProperties
  <2> HIDE DEF c
  <2>3. c = <<>>
    BY <2>2, EmptySeq
  <2> QED BY <2>1, <2>2, <2>3
<1> HIDE DEF c
<1>8. chain' \in [Players -> Seq(Commands)] /\ chain'[v] = <<>>
      /\ \A p \in Players : p # v => chain'[p] = chain[p]
  BY <1>1, <1>5, <1>7 DEF Types
<1>9. call' \in [Threads -> Seq(Segments)] /\ call'[t] = <<>>
      /\ \A u \in Threads : u # t => call'[u] = call[u]
  BY <1>1, <1>5 DEF Types
<1>10. ASSUME NEW u \in Threads, call'[u] # <<>>
       PROVE  /\ Head(call'[u]).do = "wait"
              /\ Active(u)' => u = chain[v][1].by
  <2>1. u # t /\ call'[u] = call[u]
    BY <1>9, <1>10
  <2>2. ~Active(u)
    BY <1>1, <2>1 DEF Turned, OneThread
  <2>3. PICK q \in Players : Head(call[u]).do = "wait" /\ q = Head(call[u]).of
                             /\ \E i \in 1..Len(chain[q]) : chain[q][i].by = u
    BY <1>10, <2>1, <2>2, OthersWait
  <2>4. ASSUME Active(u)' PROVE u = chain[v][1].by
    <3>1. Answered(u, q)'
      BY <2>1, <2>3, <2>4 DEF Active, Waits
    <3>2. CASE q = v
      <4>1. PICK i \in 1..Len(chain[v]) : chain[v][i].by = u
        BY <2>3, <3>2
      <4>2. i = 1
        BY <1>7
      <4> QED BY <4>1, <4>2
    <3>3. CASE q # v
      <4>1. chain'[q] = chain[q]
        BY <1>8, <3>3
      <4> QED BY <2>3, <3>1, <4>1 DEF Answered
    <3> QED BY <3>2, <3>3
  <2> QED BY <2>1, <2>3, <2>4
<1>11. ASSUME NEW p \in Players PROVE ~Startable(p)'
  <2>1. CASE p = v
    BY <1>8, <2>1 DEF Startable
  <2>2. CASE p # v
    <3>1. <<p, "ops">> \in Threads /\ <<p, "ops">> # t
      BY <1>4, <2>2 DEF Threads
    <3>2. ~Startable(p)
      BY <1>1 DEF Turned, NotBoth
    <3> QED BY <1>8, <1>9, <2>2, <3>1, <3>2 DEF Startable
  <2> QED BY <2>1, <2>2
<1>12. OneThread'
  BY <1>10 DEF OneThread, Active
<1>13. OneStart' /\ NotBoth'
  BY <1>11 DEF OneStart, NotBoth
<1>14. Blocked'
  <2>1. ASSUME NEW p \in Players PROVE ~(Len(chain'[p]) > 1)
    <3>1. CASE p = v
      <4>1. Len(c) = 0 /\ chain'[p] = c
        BY <1>7, <1>8, <3>1, EmptySeq
      <4> QED BY <4>1
    <3>2. CASE p # v
      BY <1>1, <1>8, <3>2 DEF Turned, Blocked
    <3> QED BY <3>1, <3>2
  <2> QED BY <2>1 DEF Blocked
<1>15. Chained'
  <2>1. ASSUME NEW p \in Players, call'[<<p, "ops">>] # <<>> PROVE chain'[p] # <<>>
    <3>1. <<p, "ops">> \in Threads
      BY DEF Threads
    <3>2. p # v
      BY <1>4, <1>9, <2>1
    <3>3. <<p, "ops">> # t
      BY <1>4, <3>2
    <3>4. call[<<p, "ops">>] # <<>>
      BY <1>9, <2>1, <3>1, <3>3
    <3> QED BY <1>1, <1>8, <3>2, <3>4 DEF Turned, Chained
  <2> QED BY <2>1 DEF Chained
<1>16. Formed'
  <2>1. Body(t, none)
    BY EmptyBody
  <2>2. Good(t, none)
    BY <2>1 DEF Body, Good
  <2> QED BY <1>1, <1>9, <2>2 DEF Turned, Formed
<1>17. Sure'
  BY <1>10 DEF Sure
<1>18. Types'
  BY <1>1, <1>5, <1>8, <1>9 DEF Types
<1>19. Voiced' /\ Watched'
  <2>1. Head(call[t]).do \notin Watching
    BY DEF Watching
  <2>2. Keeps(none, Tail(call[t]))
    BY <1>4 DEF Keeps
  <2> HIDE DEF none
  <2> QED BY <1>5, <2>1, <2>2, HeardOn
<1> QED BY <1>12, <1>13, <1>14, <1>15, <1>16, <1>17, <1>18, <1>19 DEF IInv, Turned

\* Any segment, by whoever's turn it is.
LEMMA ResumeKeeps ==
  ASSUME IInv, NEW t \in Threads, Active(t), Resume(t)
  PROVE  IInv'
<1> DEFINE g == Head(call[t])
           r == Tail(call[t])
<1>1. Types /\ Turned /\ call[t] # <<>> /\ UNCHANGED groups /\ Segment(t, g, r)
  BY DEF IInv, Active, Resume
<1>2. g.do \in Dos
  BY <1>1, TurnOf
<1>3. CASE g.do = "quiet"
  BY <1>1, <1>3, QuietKeeps DEF Segment
<1>4. CASE g.do = "dissolve"
  BY <1>1, <1>4, DissolveKeeps DEF Segment
<1>5. CASE g.do = "halt"
  BY <1>1, <1>5, HaltKeeps DEF Segment
<1>6. CASE g.do = "halted"
  BY <1>1, <1>6, HaltedKeeps DEF Segment
<1>7. CASE g.do = "release"
  BY <1>1, <1>7, PlainKeeps DEF Segment
<1>8. CASE g.do = "free"
  BY <1>1, <1>8, FreeKeeps DEF Segment
<1>9. CASE g.do = "part"
  BY <1>1, <1>9, PartKeeps DEF Segment
<1>10. CASE g.do = "unlink"
  BY <1>1, <1>10, PlainKeeps DEF Segment
<1>11. CASE g.do = "claim"
  BY <1>1, <1>11, ClaimKeeps DEF Segment
<1>12. CASE g.do = "wait"
  BY <1>1, <1>12, PlainKeeps DEF Segment
<1>13. CASE g.do = "own"
  BY <1>1, <1>13, PlainKeeps DEF Segment
<1>14. CASE g.do = "adopt"
  BY <1>1, <1>14, AdoptKeeps DEF Segment
<1>15. CASE g.do = "form"
  BY <1>1, <1>15, FormKeeps DEF Segment
<1>16. CASE g.do = "show"
  BY <1>1, <1>16, PlainKeeps DEF Segment
<1>17. CASE g.do = "take"
  BY <1>1, <1>17, JoinKeeps DEF Segment
<1>18. CASE g.do = "join"
  BY <1>1, <1>18, JoinKeeps DEF Segment
<1>19. CASE g.do = "slave"
  BY <1>1, <1>19, PlainKeeps DEF Segment
<1>20. CASE g.do = "start"
  BY <1>1, <1>20, SoundKeeps DEF Segment
<1>21. CASE g.do = "started"
  BY <1>1, <1>21, StartedKeeps DEF Segment
<1>22. CASE g.do = "flip"
  BY <1>1, <1>22, FlipKeeps DEF Segment
<1>23. CASE g.do = "read"
  BY <1>1, <1>23, ReadKeeps DEF Segment
<1>24. CASE g.do = "done"
  BY <1>1, <1>24, DoneKeeps DEF Segment
<1> QED BY <1>2, <1>3, <1>4, <1>5, <1>6, <1>7, <1>8, <1>9, <1>10, <1>11, <1>12, <1>13, <1>14, <1>15,
           <1>16, <1>17, <1>18, <1>19, <1>20, <1>21, <1>22, <1>23, <1>24 DEF Dos

\* A thread that may take a step is one whose turn it is.
LEMMA MayResume ==
  ASSUME NEW t \in Threads, Resume(t), Types
  PROVE  Active(t)
<1>1. call[t] # <<>>
  BY DEF Resume
<1>2. ASSUME Head(call[t]).do = "wait" PROVE Answered(t, Head(call[t]).of)
  <2>1. Wait(t, Head(call[t]).of, Tail(call[t]))
    BY <1>2 DEF Resume, Segment
  <2> QED BY <2>1 DEF Wait
<1> QED BY <1>1, <1>2 DEF Active, Waits

\* An operation whose turn it is starts.
LEMMA BeginKeeps ==
  ASSUME IInv, NEW v \in Players, Begin(v)
  PROVE  IInv'
<1> DEFINE t == <<v, "ops">>
           n == Calls(v, Head(chain[v])) \o <<Seg("done", v)>>
<1>1. Types /\ Turned /\ Startable(v) /\ t \in Threads
  BY DEF IInv, Begin, Threads
<1>2. chain[v] \in Seq(Commands) /\ chain[v] # <<>> /\ call[t] = <<>>
  BY <1>1 DEF Types, Startable
<1>3. n \in Seq(Segments) /\ n # <<>> /\ Good(t, n)
      /\ (Head(n).do \in First => open[Head(n).of])
  <2> DEFINE o == Head(chain[v])
             m == Calls(v, o) \o <<Seg("done", v)>>
             u == t
  <2>1. o \in Commands
    BY <1>2
  <2>2. n = m /\ m = Calls(v, o) \o <<Seg("done", v)>> /\ u = <<v, "ops">> /\ u = t
    OBVIOUS
  <2> HIDE DEF o, m, u, n, t
  <2>3. m \in Seq(Segments) /\ m # <<>> /\ Good(u, m)
        /\ (Head(m).do \in First => Head(m).do = "flip" /\ open[Head(m).of])
    BY <1>1, <2>1, <2>2, CallsGood
  <2> QED BY <2>2, <2>3
<1>4. call' = [call EXCEPT ![t] = n] /\ chain' = chain
      /\ UNCHANGED <<groups, owners, device, open, members, playing, polling, reported>>
  BY DEF Begin, Continue, hold, voice, watch
<1> HIDE DEF n, t
<1>5. call' \in [Threads -> Seq(Segments)] /\ call'[t] = n
      /\ \A u \in Threads : u # t => call'[u] = call[u]
  BY <1>1, <1>3, <1>4 DEF Types
<1>6. \A u \in Threads : ~Active(u)
  BY <1>1 DEF Turned, NotBoth
<1>7. ASSUME NEW u \in Threads, u # t PROVE ~Active(u)'
  <2>1. ~Active(u) /\ call'[u] = call[u]
    BY <1>5, <1>6, <1>7
  <2> QED BY <1>4, <2>1 DEF Active, Waits, Answered
<1>8. ASSUME NEW p \in Players PROVE ~Startable(p)'
  <2>1. CASE p = v
    BY <1>3, <1>5, <2>1 DEF Startable, t
  <2>2. CASE p # v
    <3>1. <<p, "ops">> \in Threads /\ <<p, "ops">> # t
      BY <2>2 DEF Threads, t
    <3>2. ~Startable(p)
      BY <1>1, <2>2 DEF Turned, OneStart
    <3> QED BY <1>4, <1>5, <3>1, <3>2 DEF Startable
  <2> QED BY <2>1, <2>2
<1>9. OneThread' /\ OneStart' /\ NotBoth'
  BY <1>7, <1>8 DEF OneThread, OneStart, NotBoth
<1>10. Blocked'
  <2>1. \A p \in Players : ~(Len(chain[p]) > 1)
    BY <1>1 DEF Turned, Blocked
  <2> QED BY <1>4, <2>1 DEF Blocked
<1>11. Chained'
  <2>1. ASSUME NEW p \in Players, call'[<<p, "ops">>] # <<>> PROVE chain'[p] # <<>>
    <3>1. CASE p = v
      BY <1>2, <1>4, <3>1
    <3>2. CASE p # v
      <4>1. <<p, "ops">> \in Threads /\ <<p, "ops">> # t
        BY <3>2 DEF Threads, t
      <4>2. call[<<p, "ops">>] # <<>>
        BY <1>5, <2>1, <4>1
      <4> QED BY <1>1, <1>4, <4>2 DEF Turned, Chained
    <3> QED BY <3>1, <3>2
  <2> QED BY <2>1 DEF Chained
<1>12. Formed'
  BY <1>1, <1>3, <1>5 DEF Turned, Formed
<1>13. Sure'
  <2>1. ASSUME NEW u \in Threads, call'[u] # <<>>,
               Head(call'[u]).do \in {"halted", "started", "flip", "read"}
        PROVE  open'[Head(call'[u]).of]
    <3>1. CASE u = t
      BY <1>3, <1>4, <1>5, <2>1, <3>1 DEF First
    <3>2. CASE u # t
      <4>1. Head(call'[u]).do = "wait"
        BY <1>7, <2>1, <3>2 DEF Active, Waits
      <4> QED BY <2>1, <4>1
    <3> QED BY <3>1, <3>2
  <2> QED BY <2>1 DEF Sure
<1>14. Types'
  BY <1>1, <1>4, <1>5 DEF Types
<1>15. ASSUME NEW p \in Players, NEW dos, Pends(p, dos) PROVE Pends(p, dos)'
  <2>1. ~Holds(call[t], dos, p)
    BY <1>2, HoldsNone DEF t
  <2> QED BY <1>1, <1>4, <1>15, <2>1, StillPends
<1>16. Voiced'
  <2>1. ASSUME NEW p \in Players, Loud(p)' PROVE open'[p] \/ Pends(p, {"free", "adopt"})'
    <3>1. Loud(p)
      BY <1>4, <2>1 DEF Loud
    <3>2. open[p] \/ Pends(p, {"free", "adopt"})
      BY <3>1 DEF IInv, Voiced
    <3> QED BY <1>4, <1>15, <3>2
  <2> QED BY <2>1 DEF Voiced
<1>17. Watched'
  <2>1. ASSUME NEW p \in Players, open'[p], "fail" \notin Env
        PROVE  polling'[p] \/ Pends(p, Watching)'
    <3>1. polling[p] \/ Pends(p, Watching)
      BY <1>4, <2>1 DEF IInv, Watched, Watching
    <3> QED BY <1>4, <1>15, <3>1
  <2> QED BY <2>1 DEF Watched, Watching
<1> QED BY <1>9, <1>10, <1>11, <1>12, <1>13, <1>14, <1>16, <1>17 DEF IInv, Turned

-----------------------------------------------------------------------------
(* What is asked once everything is over.                                  *)

\* Nothing moves, and nothing is left to make good.
LEMMA IdleIs ==
  ASSUME IInv, AllIdle
  PROVE  /\ \A t \in Threads : call[t] = <<>> /\ ~Active(t)
         /\ \A p \in Players : chain[p] = <<>>
         /\ \A p \in Players : Loud(p) => open[p]
         /\ "fail" \notin Env => \A p \in Players : open[p] => polling[p]
<1>1. \A t \in Threads : call[t] = <<>> /\ ~Active(t)
  BY DEF AllIdle, Active
<1>2. ASSUME NEW p \in Players, NEW dos PROVE ~Pends(p, dos)
  BY <1>1, HoldsNone DEF Pends
<1>3. \A p \in Players : Loud(p) => open[p]
  BY <1>2 DEF IInv, Voiced
<1>4. "fail" \notin Env => \A p \in Players : open[p] => polling[p]
  BY <1>2 DEF IInv, Watched
<1> QED BY <1>1, <1>3, <1>4 DEF AllIdle

\* At most one player is given an operation.
LEMMA GivesKeep ==
  ASSUME IInv, AllIdle, groups' \subseteq SUBSET Speakers, chain' \in [Players -> Seq(Commands)],
         \A p \in Players : Len(chain'[p]) <= 1,
         \A p, q \in Players : chain'[p] # <<>> /\ chain'[q] # <<>> => p = q,
         UNCHANGED <<owners, device, open, members, playing, polling, reported, call>>
  PROVE  IInv'
<1>1. Types /\ Turned /\ \A t \in Threads : call[t] = <<>>
  BY IdleIs DEF IInv
<1>2. \A t \in Threads : ~Active(t)'
  BY <1>1 DEF Active
<1>3. OneThread' /\ OneStart' /\ NotBoth'
  BY <1>2 DEF OneThread, OneStart, NotBoth, Startable
<1>4. Blocked'
  <2>1. \A p \in Players : ~(Len(chain'[p]) > 1)
    <3>1. ASSUME NEW p \in Players PROVE ~(Len(chain'[p]) > 1)
      <4>1. chain'[p] \in Seq(Commands)
        OBVIOUS
      <4>2. Len(chain'[p]) \in Nat
        BY <4>1, LenProperties
      <4> QED BY <4>2
    <3> QED BY <3>1
  <2> QED BY <2>1 DEF Blocked
<1>5. Chained'
  BY <1>1 DEF Chained, Threads
<1>6. Formed' /\ Sure'
  BY <1>1 DEF Turned, Formed, Sure
<1>7. Types'
  BY <1>1 DEF Types
<1>8. Voiced'
  BY DEF IInv, Voiced, Loud, Pends, Holds
<1>9. Watched'
  BY DEF IInv, Watched, Pends, Holds
<1> QED BY <1>3, <1>4, <1>5, <1>6, <1>7, <1>8, <1>9 DEF IInv, Turned

LEMMA LenNone ==
  ASSUME NEW e, e = <<>>
  PROVE  Len(e) = 0
OBVIOUS

LEMMA GiveKeeps ==
  ASSUME IInv, AllIdle, NEW v \in Players, NEW o \in Commands, Give(v, o)
  PROVE  IInv'
<1> DEFINE c == Append(chain[v], o)
<1>1. Types /\ \A p \in Players : chain[p] = <<>>
  BY IdleIs DEF IInv
<1>2. c \in Seq(Commands) /\ Len(c) = 1
  <2>1. chain[v] \in Seq(Commands) /\ Len(chain[v]) = 0
    BY <1>1, LenNone DEF Types
  <2> QED BY <2>1, AppendProperties
<1>3. chain' = [chain EXCEPT ![v] = c]
      /\ UNCHANGED <<groups, owners, device, open, members, playing, polling, reported, call>>
  BY <1>1 DEF Give, hold, voice, watch, Types
<1> HIDE DEF c
<1>4. chain' \in [Players -> Seq(Commands)] /\ chain'[v] = c
      /\ \A p \in Players : p # v => chain'[p] = <<>>
  BY <1>1, <1>2, <1>3 DEF Types
<1>5. \A p \in Players : Len(chain'[p]) <= 1
  <2>1. ASSUME NEW p \in Players, p # v PROVE Len(chain'[p]) = 0
    BY <1>4, <2>1, LenNone
  <2>2. Len(chain'[v]) = 1
    BY <1>2, <1>4
  <2>3. ASSUME NEW p \in Players PROVE Len(chain'[p]) = 0 \/ Len(chain'[p]) = 1
    BY <2>1, <2>2
  <2>4. ASSUME NEW p \in Players PROVE Len(chain'[p]) <= 1
    <3>1. PICK k \in {0, 1} : Len(chain'[p]) = k
      BY <2>3
    <3>2. k <= 1
      OBVIOUS
    <3> QED BY <3>1, <3>2
  <2> QED BY <2>4
<1>6. groups' \subseteq SUBSET Speakers
  BY <1>1, <1>3 DEF Types
<1> QED BY <1>3, <1>4, <1>5, <1>6, GivesKeep

\* The groups change while at most one player has to follow.
LEMMA RegroupKeeps ==
  ASSUME IInv, AllIdle, "overlap" \notin Env, NEW gs \in SUBSET SUBSET Speakers,
         NEW joining \in SUBSET Speakers, Regroup(gs, joining)
  PROVE  IInv'
<1> DEFINE o == Op("regroup", None, joining, None)
           c == Append(<<>>, o)
<1>1. Types /\ \A p \in Players : chain[p] = <<>>
  BY IdleIs DEF IInv
<1>2. o \in Commands
  BY DEF Op, Commands
<1>3. c \in Seq(Commands) /\ Len(c) = 1
  BY <1>2
<1>4. UNCHANGED <<owners, device, open, members, playing, polling, reported, call>>
      /\ groups' \subseteq SUBSET Speakers
  BY DEF Regroup, hold, voice, watch
<1>5. chain' = [p \in Players |-> IF open[p] /\ device[p] # None THEN c ELSE <<>>]
  <2>1. chain' = [p \in Players |-> IF open[p] /\ device[p] # None THEN Append(chain[p], o) ELSE chain[p]]
    BY DEF Regroup
  <2> QED BY <1>1, <2>1
<1>6. \A p, q \in Players : open[p] /\ open[q] => p = q
  BY DEF Regroup
<1> HIDE DEF c
<1>7. chain' \in [Players -> Seq(Commands)]
  BY <1>3, <1>5
<1>8. ASSUME NEW p \in Players
      PROVE  Len(chain'[p]) <= 1 /\ (chain'[p] # <<>> => open[p])
  <2>1. CASE open[p] /\ device[p] # None
    <3>1. chain'[p] = c
      BY <1>5, <2>1
    <3>2. Len(chain'[p]) = 1
      BY <1>3, <3>1
    <3> QED BY <2>1, <3>2
  <2>2. CASE ~(open[p] /\ device[p] # None)
    <3>1. chain'[p] = <<>>
      BY <1>5, <2>2
    <3>2. Len(chain'[p]) = 0
      BY <3>1, LenNone
    <3> QED BY <3>1, <3>2
  <2> QED BY <2>1, <2>2
<1>9. \A p, q \in Players : chain'[p] # <<>> /\ chain'[q] # <<>> => p = q
  BY <1>6, <1>8
<1>10. \A p \in Players : Len(chain'[p]) <= 1
  BY <1>8
<1> QED BY <1>4, <1>7, <1>9, <1>10, GivesKeep

\* A call starts outside the chains.
LEMMA OutsideKeeps ==
  ASSUME IInv, AllIdle, NEW t \in Threads, t[2] # "ops", NEW n \in Seq(Segments), Good(t, n),
         Head(n).do \in First => open[Head(n).of], call' = [call EXCEPT ![t] = n],
         UNCHANGED <<groups, owners, device, open, members, playing, polling, reported, chain>>
  PROVE  IInv'
<1>1. Types /\ Turned /\ (\A u \in Threads : call[u] = <<>> /\ ~Active(u))
      /\ \A p \in Players : chain[p] = <<>>
  BY IdleIs DEF IInv
<1>2. call' \in [Threads -> Seq(Segments)] /\ call'[t] = n
      /\ \A u \in Threads : u # t => call'[u] = <<>>
  BY <1>1 DEF Types
<1>3. \A u \in Threads : Active(u)' => u = t
  BY <1>2 DEF Active
<1>4. \A p \in Players : ~Startable(p)'
  BY <1>1 DEF Startable
<1>5. OneThread' /\ OneStart' /\ NotBoth'
  BY <1>3, <1>4 DEF OneThread, OneStart, NotBoth
<1>6. Blocked'
  <2>1. \A p \in Players : ~(Len(chain'[p]) > 1)
    BY <1>1
  <2> QED BY <2>1 DEF Blocked
<1>7. Chained'
  <2>1. ASSUME NEW p \in Players PROVE call'[<<p, "ops">>] = <<>>
    <3>1. <<p, "ops">> \in Threads /\ <<p, "ops">>[2] = "ops"
      BY DEF Threads
    <3>2. <<p, "ops">> # t
      BY <3>1
    <3> QED BY <1>2, <3>1, <3>2
  <2> QED BY <2>1 DEF Chained
<1>8. Formed' /\ Sure'
  BY <1>1, <1>2 DEF Turned, Formed, Sure, First
<1>9. Types'
  BY <1>1, <1>2 DEF Types
<1>10. Voiced'
  <2>1. ASSUME NEW p \in Players, Loud(p)' PROVE open'[p]
    BY <2>1, IdleIs DEF Loud
  <2> QED BY <2>1 DEF Voiced
<1>11. Watched'
  <2>1. ASSUME NEW p \in Players, open'[p], "fail" \notin Env PROVE polling'[p]
    BY <2>1, IdleIs
  <2> QED BY <2>1 DEF Watched
<1> QED BY <1>5, <1>6, <1>7, <1>8, <1>9, <1>10, <1>11 DEF IInv, Turned

LEMMA TickKeeps ==
  ASSUME IInv, AllIdle, NEW v \in Players, Tick(v)
  PROVE  IInv'
<1> DEFINE t == <<v, "poll">>
           none == <<>>
           g == SegTo("read", v, playing[v])
           n == <<g>> \o none
<1>1. Types
  BY DEF IInv
<1>2. t \in Threads /\ t[2] # "ops"
  BY DEF Threads
<1>3. g \in Segments /\ g.do = "read" /\ g.of = v
  <2>1. PICK b \in BOOLEAN : b = playing[v]
    BY <1>1 DEF Types
  <2> QED BY <2>1, SegToIs DEF Dos, OnPlaying
<1>4. open[v] /\ call' = [call EXCEPT ![t] = <<g>>]
      /\ UNCHANGED <<groups, owners, device, open, members, playing, polling, reported, chain>>
  BY DEF Tick, Continue, hold, voice, watch
<1> HIDE DEF g
<1>5. n = <<g>> /\ n = <<g>> \o none
  BY <1>3
<1>6. Body(t, none) /\ Leads(t, g, none)
  BY <1>2, <1>3, EmptyBody DEF Leads, Final, OfOps
<1> HIDE DEF n, none, t
<1>7. n \in Seq(Segments) /\ Good(t, n) /\ Head(n) = g
  BY <1>3, <1>5, <1>6, OneMore
<1>8. open[Head(n).of]
  BY <1>3, <1>4, <1>7
<1>9. call' = [call EXCEPT ![t] = n]
  BY <1>4, <1>5
<1> QED BY <1>2, <1>4, <1>7, <1>8, <1>9, OutsideKeeps

LEMMA DropKeeps ==
  ASSUME IInv, AllIdle, NEW v \in Players, DropUnreachable(v)
  PROVE  IInv'
<1>1. Types /\ Turned
  BY DEF IInv
<1>2. PICK m \in members[v] : members' = [members EXCEPT ![v] = @ \ {m}] /\ owners' = Disowned(v, {m})
  BY DEF DropUnreachable
<1>3. reported' = [reported EXCEPT ![v] = Shown(device[v], playing[v])]
      /\ UNCHANGED <<groups, device, open, playing, polling, chain, call>>
  BY DEF DropUnreachable, watch
<1>4. owners' \in [Speakers -> Players \cup {None}]
  BY <1>1, <1>2, DisownedIs
<1>5. Shown(device[v], playing[v]) \in {"none", "playing", "paused"}
      /\ (Shown(device[v], playing[v]) = "playing" => playing[v])
  BY DEF Shown
<1>6. Types' /\ \A p \in Players : Loud(p)' => Loud(p)
  BY <1>1, <1>2, <1>3, <1>4, <1>5 DEF Types, Loud
<1>7. (\A t \in Threads : Active(t)' <=> Active(t)) /\ (\A p \in Players : Startable(p)' <=> Startable(p))
  BY <1>3 DEF Active, Waits, Answered, Startable
<1>8. OneThread' /\ OneStart' /\ NotBoth' /\ Blocked' /\ Chained'
  BY <1>1, <1>3, <1>7 DEF Turned, OneThread, OneStart, NotBoth, Blocked, Chained
<1>9. Formed' /\ Sure'
  BY <1>1, <1>3 DEF Turned, Formed, Sure
<1>10. Voiced'
  BY <1>3, <1>6 DEF IInv, Voiced, Pends, Holds
<1>11. Watched'
  BY <1>3 DEF IInv, Watched, Pends, Holds
<1> QED BY <1>6, <1>8, <1>9, <1>10, <1>11 DEF IInv, Turned

LEMMA InputKeeps ==
  ASSUME IInv, AllIdle, NEW s \in Speakers, Input(s)
  PROVE  IInv'
<1>1. PICK v \in Players :
        \/ /\ Continue(<<v, "ask">>, Yield(v))
           /\ UNCHANGED <<groups, hold, voice, watch, chain, given, edits>>
        \/ Give(v, Op("drop", s, {}, None))
  BY DEF Input
<1>2. CASE Give(v, Op("drop", s, {}, None))
  <2>1. Op("drop", s, {}, None) \in Commands
    BY DEF Op, Commands
  <2> QED BY <1>2, <2>1, GiveKeeps
<1>3. CASE /\ Continue(<<v, "ask">>, Yield(v))
           /\ UNCHANGED <<groups, hold, voice, watch, chain, given, edits>>
  <2> DEFINE t == <<v, "ask">>
             n == Yield(v)
  <2>1. t \in Threads /\ t[2] # "ops"
    BY DEF Threads
  <2>2. call' = [call EXCEPT ![t] = n]
        /\ UNCHANGED <<groups, owners, device, open, members, playing, polling, reported, chain>>
    BY <1>3 DEF Continue, hold, voice, watch
  <2> HIDE DEF t
  <2>3. Onward(t, n)
    BY <2>1, ReadsOn
  <2>4. n # <<>>
    BY DEF Yield
  <2> HIDE DEF n
  <2> QED BY <2>1, <2>2, <2>3, <2>4, OutsideKeeps DEF Onward
<1> QED BY <1>1, <1>2, <1>3

-----------------------------------------------------------------------------
(* The theorems.                                                           *)

LEMMA InitIInv == Init => IInv
<1> SUFFICES ASSUME Init PROVE IInv
  OBVIOUS
<1>1. Types
  BY SpeakersAssumption DEF Init, Types
<1>2. (\A t \in Threads : call[t] = <<>> /\ ~Active(t)) /\ (\A p \in Players : chain[p] = <<>>)
  BY DEF Init, Active
<1>3. OneThread /\ OneStart /\ NotBoth
  BY <1>2 DEF OneThread, OneStart, NotBoth, Startable
<1>4. Blocked
  <2>1. \A p \in Players : ~(Len(chain[p]) > 1)
    BY <1>2
  <2> QED BY <2>1 DEF Blocked
<1>5. Chained /\ Sure
  BY <1>2 DEF Chained, Sure, Threads
<1>6. Formed
  <2> DEFINE none == <<>>
  <2>1. \A t : Body(t, none)
    BY EmptyBody
  <2>2. \A t : Good(t, none)
    BY <2>1 DEF Body, Good
  <2> QED BY <1>2, <2>2 DEF Formed
<1>7. Voiced /\ Watched
  BY DEF Init, Voiced, Watched, Loud
<1> QED BY <1>1, <1>3, <1>4, <1>5, <1>6, <1>7 DEF IInv, Turned

LEMMA StutterKeeps ==
  ASSUME IInv, UNCHANGED vars
  PROVE  IInv'
<1>1. Types'
  BY DEF IInv, Types, vars
<1>2. (\A t \in Threads : Active(t)' <=> Active(t)) /\ (\A p \in Players : Startable(p)' <=> Startable(p))
  BY DEF Active, Waits, Answered, Startable, vars
<1>3. OneThread' /\ OneStart' /\ NotBoth' /\ Blocked' /\ Chained'
  BY <1>2 DEF IInv, Turned, OneThread, OneStart, NotBoth, Blocked, Chained, vars
<1>4. Formed' /\ Sure'
  BY DEF IInv, Turned, Formed, Sure, vars
<1>5. Voiced'
  BY DEF IInv, Voiced, Loud, Pends, Holds, vars
<1>6. Watched'
  BY DEF IInv, Watched, Pends, Holds, vars
<1> QED BY <1>1, <1>3, <1>4, <1>5, <1>6 DEF IInv, Turned

LEMMA NextIInv ==
  ASSUME "overlap" \notin Env, IInv, [Next]_vars
  PROVE  IInv'
<1>1. Types
  BY DEF IInv
<1>2. ASSUME NEW v \in Players, Command(v) PROVE IInv'
  <2>1. \A s \in Speakers : Op("transfer", s, {}, None) \in Commands
    BY DEF Op, Commands
  <2>2. \A c \in {"play", "toggle", "yield"} \cap Env : Op(c, None, {}, None) \in Commands
    BY DEF Op, Commands
  <2>3. PICK o \in Commands : Give(v, o)
    BY <1>2, <2>1, <2>2 DEF Command
  <2>4. AllIdle
    BY <2>3 DEF Give, Turn
  <2> QED BY <2>3, <2>4, GiveKeeps
<1>3. ASSUME NEW v \in Players, Tick(v) PROVE IInv'
  BY <1>3, TickKeeps DEF Tick, Turn
<1>4. ASSUME NEW v \in Players, DropUnreachable(v) PROVE IInv'
  BY <1>4, DropKeeps DEF DropUnreachable, Turn
<1>5. ASSUME NEW s \in Speakers, Input(s) PROVE IInv'
  BY <1>5, InputKeeps DEF Input, Turn
<1>6. ASSUME NEW s \in Speakers, Unjoin(s) PROVE IInv'
  <2> DEFINE gs == {g \ {s} : g \in groups}
  <2>1. Regroup(gs, {}) /\ gs \in SUBSET SUBSET Speakers
    BY <1>1, <1>6 DEF Unjoin, Types
  <2>2. AllIdle
    BY <2>1 DEF Regroup, Turn
  <2> HIDE DEF gs
  <2> QED BY <2>1, <2>2, RegroupKeeps
<1>7. ASSUME NEW s \in Speakers, NEW m \in Speakers, JoinGroup(s, m) PROVE IInv'
  <2> DEFINE all == GroupOf(s) \cup {s, m}
             gs == {g \ all : g \in groups} \cup {all}
  <2>1. Regroup(gs, {s, m})
    BY <1>7 DEF JoinGroup
  <2>2. all \in SUBSET Speakers
    BY <1>1 DEF Types, GroupOf
  <2> HIDE DEF all
  <2>3. gs \in SUBSET SUBSET Speakers /\ {s, m} \in SUBSET Speakers
    BY <1>1, <2>2 DEF Types
  <2>4. AllIdle
    BY <2>1 DEF Regroup, Turn
  <2> HIDE DEF gs
  <2> QED BY <2>1, <2>3, <2>4, RegroupKeeps
<1>8. ASSUME NEW v \in Players, Begin(v) PROVE IInv'
  BY <1>8, BeginKeeps
<1>9. ASSUME NEW t \in Threads, Resume(t) PROVE IInv'
  BY <1>1, <1>9, MayResume, ResumeKeeps
<1>10. CASE Next
  BY <1>2, <1>3, <1>4, <1>5, <1>6, <1>7, <1>8, <1>9, <1>10 DEF Next
<1> QED BY <1>10, StutterKeeps

\* One thing moves at a time, its calls are whole, and what they have undone
\* they have still to make good (ops, claimDevice, yieldDevice, handOff).
THEOREM Invariant ==
  ASSUME "overlap" \notin Env
  PROVE  Spec => []IInv
<1>1. Init => IInv
  BY InitIInv
<1>2. IInv /\ [Next]_vars => IInv'
  BY NextIInv
<1> QED BY <1>1, <1>2, PTL DEF Spec

\* However many accounts, speakers and groups there are and whatever fails, a
\* player without a transport is never left shown as playing.
THEOREM NeverAGhost ==
  ASSUME "overlap" \notin Env
  PROVE  Spec => []NoGhost
<1>1. Spec => []IInv
  BY Invariant
<1>2. IInv => NoGhost
  BY IdleIs DEF NoGhost, Loud
<1> QED BY <1>1, <1>2, PTL

\* While no request fails, music that shows as playing is polled: its end, and a
\* stop from the speaker's own app, are noticed.
THEOREM AlwaysFollowed ==
  ASSUME "overlap" \notin Env, "fail" \notin Env
  PROVE  Spec => []Followed
<1>1. Spec => []IInv
  BY Invariant
<1>2. IInv => Followed
  BY IdleIs DEF Followed, Loud
<1> QED BY <1>1, <1>2, PTL
=============================================================================
