----------------------------- MODULE SongCache -----------------------------
(* Whole songs cached on the SSD (server/src/songcache.ts): what is about to
   play is copied from the NAS beside its final name and renamed in; past the
   cap the least recently played go first.  Reads, copies, evictions and the
   library's own clean-up (remap.ts) all touch the same rows and files.      *)
EXTENDS Integers, FiniteSetsExt, SequencesExt

CONSTANTS
  Tracks, SizeOf,      \* and how many bytes each has
  CapBytes, Parallel,  \* the copies at a time
  MaxWants,            \* bound on the requests
  CacheEnv             \* "slow": a copy times out; "drop": a song is remapped away

ASSUME CacheAssumption ==
  /\ IsFiniteSet(Tracks) /\ SizeOf \in [Tracks -> Nat]
  /\ CapBytes \in Nat /\ Parallel \in Nat /\ MaxWants \in Nat

VARIABLES
  order,     \* song_cache, least recently used first
  file,      \* the songs whose file is under its final name
  tmp,       \* song -> what is in its .tmp: "none", "part", "whole"
  inflight, waiting,
  fetch,     \* song -> where its fetch is
  evict,     \* song -> the eviction its fetch awaits
  sweep,     \* songs whose .tmp a timed-out copy is still removing
  wants

cacheVars == <<order, file, tmp, inflight, waiting, fetch, evict, sweep, wants>>

Stages  == {"none", "copy", "copied", "renamed", "evicting"}
NoEvict == [left |-> <<>>, total |-> 0, at |-> {}, removed |-> FALSE]
Rows    == ToSet(order)
Bytes(S) == FoldSet(LAMBDA s, n : n + SizeOf[s], 0, S)

CacheInit ==
  /\ order = <<>> /\ file = {} /\ tmp = [s \in Tracks |-> "none"]
  /\ inflight = {} /\ waiting = <<>>
  /\ fetch = [s \in Tracks |-> "none"] /\ evict = [s \in Tracks |-> NoEvict]
  /\ sweep = {} /\ wants = 0

Active == {s \in Tracks : fetch[s] # "none"}
\* Each song has one row.
RowsBut(q, s) == IF \E i \in DOMAIN q : q[i] = s
                 THEN RemoveAt(q, CHOOSE i \in DOMAIN q : q[i] = s) ELSE q

\* get: a row whose file is gone is dropped; a hit moves up (once a minute).
Got(s) ==
  CASE s \notin Rows -> {order}
    [] s \in Rows \ file -> {RowsBut(order, s)}
    [] OTHER         -> {order, Append(RowsBut(order, s), s)}

Get(s) ==
  /\ wants < MaxWants /\ wants' = wants + 1
  /\ order' \in Got(s)
  /\ UNCHANGED <<file, tmp, inflight, waiting, fetch, evict, sweep>>

\* pump: the next ones, as many as there are slots for.
Pumped(q, f) ==
  LET free == Parallel - Cardinality({s \in Tracks : f[s] # "none"})
      n    == IF Len(q) < free THEN Len(q) ELSE free
      next == {q[i] : i \in 1 .. n}
  IN  /\ waiting' = SubSeq(q, n + 1, Len(q))
      /\ fetch' = [s \in Tracks |-> IF s \in next THEN "copy" ELSE f[s]]
      /\ tmp' = [s \in Tracks |-> IF s \in next THEN "part" ELSE tmp[s]]
\* Were what is on its way fetched again:
WantTwice(s) ==
  /\ wants < MaxWants /\ wants' = wants + 1
  /\ 2 * SizeOf[s] <= CapBytes
  /\ order' \in Got(s)
  /\ IF s \in Rows /\ s \in file
     THEN UNCHANGED <<inflight, waiting, fetch, tmp>>
     ELSE inflight' = inflight \cup {s} /\ Pumped(Append(waiting, s), fetch)
  /\ UNCHANGED <<file, evict, sweep>>

\* want: not what is cached, on its way, or over half the cap.
Want(s) ==
  /\ wants < MaxWants /\ wants' = wants + 1
  /\ 2 * SizeOf[s] <= CapBytes /\ s \notin inflight
  /\ order' \in Got(s)
  /\ IF s \in Rows /\ s \in file
     THEN UNCHANGED <<inflight, waiting, fetch, tmp>>
     ELSE inflight' = inflight \cup {s} /\ Pumped(Append(waiting, s), fetch)
  /\ UNCHANGED <<file, evict, sweep>>

\* A step of a copy takes turns of the event loop: a removal that has happened
\* is seen by whoever awaits it before the song's copy takes its next step.
Seen(s) == \A x \in Tracks : ~(s \in evict[x].at /\ evict[x].removed)

Copied(s) ==
  /\ Seen(s)
  /\ fetch[s] = "copy" /\ tmp[s] = "part"
  /\ tmp' = [tmp EXCEPT ![s] = "whole"] /\ fetch' = [fetch EXCEPT ![s] = "copied"]
  /\ UNCHANGED <<order, file, inflight, waiting, evict, sweep, wants>>
\* Were the queue not looked at when a fetch is over:
FetchOverUnpumped(s) ==
  /\ inflight' = inflight \ {s} /\ evict' = [evict EXCEPT ![s] = NoEvict]
  /\ fetch' = [fetch EXCEPT ![s] = "none"] /\ UNCHANGED <<waiting, tmp>>

\* The fetch is over: its slot goes to the next in the queue.
FetchOver(s) ==
  /\ inflight' = inflight \ {s} /\ evict' = [evict EXCEPT ![s] = NoEvict]
  /\ Pumped(waiting, [fetch EXCEPT ![s] = "none"])

\* The copy timed out, broke, or its .tmp was swept from under it: the .tmp is
\* removed without waiting for it.
Failed(s) ==
  /\ \/ fetch[s] = "copy" /\ ("slow" \in CacheEnv \/ tmp[s] = "none") /\ sweep' = sweep \cup {s}
     \/ fetch[s] = "copied" /\ tmp[s] = "none" /\ UNCHANGED sweep
  /\ FetchOver(s)
  /\ UNCHANGED <<order, file, wants>>

Swept(s) ==
  /\ s \in sweep /\ sweep' = sweep \ {s} /\ tmp' = [tmp EXCEPT ![s] = "none"]
  /\ UNCHANGED <<order, file, inflight, waiting, fetch, evict, wants>>
\* Were a .tmp renamed as it is when the copy ends badly:
RenameAny(s) ==
  /\ Seen(s)
  /\ fetch[s] \in {"copy", "copied"} /\ tmp[s] # "none"
  /\ file' = file \cup {s} /\ tmp' = [tmp EXCEPT ![s] = "none"]
  /\ fetch' = [fetch EXCEPT ![s] = "renamed"]
  /\ UNCHANGED <<order, inflight, waiting, evict, sweep, wants>>

Rename(s) ==
  /\ Seen(s)
  /\ fetch[s] = "copied" /\ tmp[s] # "none"
  /\ file' = file \cup {s} /\ tmp' = [tmp EXCEPT ![s] = "none"]
  /\ fetch' = [fetch EXCEPT ![s] = "renamed"]
  /\ UNCHANGED <<order, inflight, waiting, evict, sweep, wants>>

\* The row, and evict's snapshot of the rows: one turn of the event loop.
Row(s) ==
  LET rows == Append(RowsBut(order, s), s) IN
  /\ Seen(s)
  /\ fetch[s] = "renamed"
  /\ order' = rows
  /\ fetch' = [fetch EXCEPT ![s] = "evicting"]
  /\ evict' = [evict EXCEPT ![s] = [left |-> rows, total |-> Bytes(ToSet(rows)), at |-> {}, removed |-> FALSE]]
  /\ UNCHANGED <<file, tmp, inflight, waiting, sweep, wants>>
\* The oldest not on its way; its file is removed, and then its row.
Choose(s) ==
  LET e == evict[s]  c == Head(e.left) IN
  /\ fetch[s] = "evicting" /\ e.at = {} /\ e.total > CapBytes /\ e.left # <<>>
  /\ evict' = [evict EXCEPT ![s] = [e EXCEPT !.left = Tail(@), !.at = IF c \in inflight THEN {} ELSE {c}]]
  /\ UNCHANGED <<order, file, tmp, inflight, waiting, fetch, sweep, wants>>
RemoveFile(s) ==
  /\ fetch[s] = "evicting" /\ evict[s].at # {} /\ ~evict[s].removed
  /\ file' = file \ evict[s].at /\ evict' = [evict EXCEPT ![s].removed = TRUE]
  /\ UNCHANGED <<order, tmp, inflight, waiting, fetch, sweep, wants>>

DeleteRow(s) ==
  LET e == evict[s] IN
  /\ fetch[s] = "evicting" /\ e.removed
  /\ \E c \in e.at : order' = RowsBut(order, c)
  /\ evict' = [evict EXCEPT ![s] = [e EXCEPT !.total = @ - Bytes(e.at), !.at = {}, !.removed = FALSE]]
  /\ UNCHANGED <<file, tmp, inflight, waiting, fetch, sweep, wants>>
\* Were a pass to remove one song at most:
DoneAfterOne(s) ==
  /\ fetch[s] = "evicting" /\ evict[s].at = {}
  /\ FetchOver(s)
  /\ UNCHANGED <<order, file, sweep, wants>>

Done(s) ==
  /\ fetch[s] = "evicting" /\ evict[s].at = {}
  /\ evict[s].total <= CapBytes \/ evict[s].left = <<>>
  /\ FetchOver(s)
  /\ UNCHANGED <<order, file, sweep, wants>>

\* remapTrackId: the row and the file of the old bytes go together.
Drop(s) ==
  /\ "drop" \in CacheEnv /\ wants < MaxWants /\ wants' = wants + 1
  /\ order' = RowsBut(order, s) /\ file' = file \ {s}
  /\ UNCHANGED <<tmp, inflight, waiting, fetch, evict, sweep>>

Step(s) == Copied(s) \/ Failed(s) \/ Swept(s) \/ Rename(s) \/ Row(s)
             \/ Choose(s) \/ RemoveFile(s) \/ DeleteRow(s) \/ Done(s)

CacheNext == \E s \in Tracks : Get(s) \/ Want(s) \/ Drop(s) \/ Step(s)

CacheSpec     == CacheInit /\ [][CacheNext]_cacheVars
CacheFairSpec == CacheSpec /\ \A s \in Tracks : WF_cacheVars(Step(s))

---------------------------------------------------------------------------
\* Types, and the bookkeeping of slots.
CacheTypeOK ==
  /\ order \in Seq(Tracks) /\ file \subseteq Tracks
  /\ tmp \in [Tracks -> {"none", "part", "whole"}]
  /\ inflight \subseteq Tracks /\ waiting \in Seq(Tracks)
  /\ fetch \in [Tracks -> Stages] /\ sweep \subseteq Tracks /\ wants \in 0 .. MaxWants
  /\ Cardinality(Active) <= Parallel /\ inflight = Active \cup ToSet(waiting)

\* When no copy is on its way, what the table lists is within SONG_CACHE_GB.
WithinCap == inflight = {} => Bytes(Rows) <= CapBytes

\* No file under a final name that no row lists and nobody is working on: it
\* would be on the SSD forever, counted by nothing.
NoneStranded ==
  \A s \in file : s \in Rows \/ s \in inflight \/ \E x \in Tracks : s \in evict[x].at

\* A half-copied file never gets the song's name.
OnlyWhole == [][\A s \in Tracks : s \in file' \ file => tmp[s] = "whole"]_cacheVars

\* Every fetch gives its slot back, whatever the NAS does.
SlotsReturn == \A s \in Tracks : []<>(s \notin inflight)
=============================================================================
