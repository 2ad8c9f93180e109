------------------------------ MODULE Offline ------------------------------
(* Songs kept in the browser (web/src/offline/store.js): each account on the
   device has a library of its own, the files are shared, one job at a time
   downloads with two workers, and a removal deletes what no library holds.
   The libraries are written under a lock; files come and go outside of it,
   and whose library it is, is asked for every time.  Covers go with the songs
   and are left out.                                                        *)
EXTENDS Naturals, SequencesExt

CONSTANTS
  Accounts, Songs,
  Lists,      \* collection -> the sets of songs it may be saved with
  Quals,      \* qualities
  Unset,
  MaxOps,     \* bound on what the listener does
  OfflineEnv  \* "switch": another account signs in; "fail"; "close": the page
              \* is closed; "race": a removal, or the noting of a file that
              \* is here, is slower than what follows it

ASSUME OfflineAssumption ==
  /\ \A c \in DOMAIN Lists : Lists[c] \subseteq SUBSET Songs
  /\ Unset \notin Quals /\ MaxOps \in Nat

VARIABLES
  user,       \* whose session localStorage has
  lib,        \* account -> its collections' songs, and of each song the quality
              \* it was saved at and whether its file is here
  cache,      \* song -> the quality of its file in Cache Storage
  jobs, job,  \* the line, the one running (its ids: still to do)
  worker,     \* "idle", "over", or the song it is at
  removing,   \* collection -> the files its removal is about to delete
  ops

offlineVars == <<user, lib, cache, jobs, job, worker, removing, ops>>

Cols   == DOMAIN Lists
Job    == [col : Cols, ids : SUBSET Songs, urls : [Songs -> Quals \cup {Unset}]]
Idle   == [at |-> "idle", song |-> Unset, q |-> Unset]
Over   == [Idle EXCEPT !.at = "over"]
Saved  == [q : Quals, file : BOOLEAN]

OfflineTypeOK ==
  /\ user \in Accounts /\ ops \in 0 .. MaxOps
  /\ lib \in [Accounts -> [cols : [Cols -> SUBSET Songs], tracks : [Songs -> Saved \cup {Unset}]]]
  /\ cache \in [Songs -> Quals \cup {Unset}]
  /\ jobs \in Seq(Job) /\ job \in Job \cup {Unset}
  /\ worker \in [1 .. 2 -> [at : {"idle", "over", "fetch", "mark"}, song : Songs \cup {Unset},
                            q : Quals \cup {Unset}]]
  /\ removing \in [Cols -> [keys : SUBSET Songs, at : {"held", "delete"}] \cup {Unset}]

OfflineInit ==
  /\ user \in Accounts /\ ops = 0
  /\ lib = [a \in Accounts |-> [cols |-> [c \in Cols |-> {}], tracks |-> [s \in Songs |-> Unset]]]
  /\ cache = [s \in Songs |-> Unset]
  /\ jobs = <<>> /\ job = Unset /\ worker = [w \in 1 .. 2 |-> Idle]
  /\ removing = [c \in Cols |-> Unset]

Mine        == lib[user]
Present(a)     == {s \in Songs : lib[a].tracks[s] # Unset /\ lib[a].tracks[s].file}
Asked       == ops < MaxOps /\ ops' = ops + 1
Unhurried   == \/ "race" \in OfflineEnv
               \/ (\A c \in Cols : removing[c] = Unset) /\ \A w \in 1 .. 2 : worker[w].at # "mark"

\* pump: the next job, when none runs.
Line(js) ==
  IF job = Unset /\ js # <<>>
  THEN job' = Head(js) /\ jobs' = Tail(js) /\ worker' = [w \in 1 .. 2 |-> Idle]
  ELSE jobs' = js /\ UNCHANGED <<job, worker>>

\* upsert: a song saved again at another quality has no file any more.
Upsert(c, S, q) ==
  [cols   |-> [Mine.cols EXCEPT ![c] = S],
   tracks |-> [s \in Songs |->
                 IF s \notin S \/ (s \in Present(user) /\ Mine.tracks[s].q = q) THEN Mine.tracks[s]
                 ELSE [q |-> q, file |-> FALSE]]]

\* What the button offers (Library.jsx): not while the collection downloads, nor
\* when all of it is here.
Offered(c, S) ==
  ~(job # Unset /\ job.col = c) /\ ~(Mine.cols[c] # {} /\ S \subseteq Present(user))

\* save: what is missing is lined up, instead of an older line-up of the same.
Save(c, S, q) ==
  /\ Offered(c, S) /\ Asked /\ Unhurried /\ lib' = [lib EXCEPT ![user] = Upsert(c, S, q)]
  /\ LET new == [col |-> c, ids |-> {s \in S : ~lib'[user].tracks[s].file},
                 urls |-> [s \in Songs |-> IF s \in S THEN q ELSE Unset]]
         had == {i \in DOMAIN jobs : jobs[i].col = c}
     IN  Line(IF had = {} THEN Append(jobs, new)
              ELSE [i \in DOMAIN jobs |-> IF i \in had THEN new ELSE jobs[i]])
  /\ UNCHANGED <<user, cache, removing>>

\* resume: what every collection lacks, in their order, at the quality it was
\* saved at.
Lacks(c) == {s \in Mine.cols[c] : Mine.tracks[s] # Unset /\ s \notin Present(user)}
Resume ==
  /\ Unhurried
  /\ LET short == {c \in Cols : /\ Lacks(c) # {} /\ (job = Unset \/ job.col # c)
                                /\ \A i \in DOMAIN jobs : jobs[i].col # c}
         Again(c) == [col |-> c, ids |-> Lacks(c),
                      urls |-> [s \in Songs |-> IF s \in Lacks(c) THEN Mine.tracks[s].q ELSE Unset]]
     IN  /\ short # {}
         /\ \E order \in SetToSeqs(short) : Line(jobs \o [i \in DOMAIN order |-> Again(order[i])])
  /\ UNCHANGED <<user, lib, cache, removing, ops>>

-----------------------------------------------------------------------------
(* A worker of the running job.                                             *)

Set(w, to) == worker' = [worker EXCEPT ![w] = to]

\* The next song: the worker ends when the collection is gone by now, and
\* passes over a song that is here.
Take(w, s) ==
  /\ job # Unset /\ worker[w].at = "idle" /\ s \in job.ids
  /\ job' = [job EXCEPT !.ids = @ \ {s}]
  /\ Set(w, IF Mine.cols[job.col] = {} THEN Over
            ELSE IF s \in Present(user) THEN Idle
            ELSE [at |-> "fetch", song |-> s, q |-> job.urls[s]])
  /\ UNCHANGED <<user, lib, cache, jobs, removing, ops>>

\* Downloaded whole and put; three times in vain: left for another time.
Fetched(w) ==
  /\ worker[w].at = "fetch"
  /\ \/ cache' = [cache EXCEPT ![worker[w].song] = worker[w].q] /\ Set(w, [worker[w] EXCEPT !.at = "mark"])
     \/ "fail" \in OfflineEnv /\ Set(w, Idle) /\ UNCHANGED cache
  /\ UNCHANGED <<user, lib, jobs, job, removing, ops>>

\* Then the library says so, if it still has the song.
Mark(w) ==
  LET s == worker[w].song IN
  /\ worker[w].at = "mark" /\ Set(w, Idle)
  /\ lib' = [lib EXCEPT ![user].tracks[s] = IF @ = Unset THEN Unset ELSE [@ EXCEPT !.file = TRUE]]
  /\ UNCHANGED <<user, cache, jobs, job, removing, ops>>

JobOver ==
  /\ job # Unset
  /\ \A w \in 1 .. 2 : worker[w].at = "over" \/ (worker[w].at = "idle" /\ job.ids = {})
  /\ worker' = [w \in 1 .. 2 |-> Idle]
  /\ IF jobs = <<>> THEN job' = Unset /\ UNCHANGED jobs ELSE job' = Head(jobs) /\ jobs' = Tail(jobs)
  /\ UNCHANGED <<user, lib, cache, removing, ops>>

-----------------------------------------------------------------------------
(* A removal: from the library, then what others hold, then the files.      *)

RemoveCollection(c) ==
  LET kept == UNION {Mine.cols[d] : d \in Cols \ {c}}
      gone == Mine.cols[c] \ kept
  IN
  /\ Asked /\ removing[c] = Unset /\ Mine.cols[c] # {}
  /\ lib' = [lib EXCEPT ![user] =
                [cols   |-> [Mine.cols EXCEPT ![c] = {}],
                 tracks |-> [s \in Songs |-> IF s \in gone THEN Unset ELSE Mine.tracks[s]]]]
  /\ removing' = [removing EXCEPT ![c] = [keys |-> gone \cap Present(user), at |-> "held"]]
  /\ UNCHANGED <<user, cache, jobs, job, worker>>

\* Were the others' libraries not asked:
HeldByNone == {}

\* heldElsewhere: of all but the one signed in now.
HeldElsewhere == UNION {Present(a) : a \in Accounts \ {user}}

Held(c) ==
  /\ removing[c] # Unset /\ removing[c].at = "held"
  /\ removing' = [removing EXCEPT ![c] = [keys |-> @.keys \ HeldElsewhere, at |-> "delete"]]
  /\ UNCHANGED <<user, lib, cache, jobs, job, worker, ops>>

Delete(c) ==
  /\ removing[c] # Unset /\ removing[c].at = "delete"
  /\ cache' = [s \in Songs |-> IF s \in removing[c].keys THEN Unset ELSE cache[s]]
  /\ removing' = [removing EXCEPT ![c] = Unset]
  /\ UNCHANGED <<user, lib, jobs, job, worker, ops>>

\* Another account signs in; the page and its downloads go on.
Switch(a) ==
  /\ "switch" \in OfflineEnv /\ a # user /\ Unhurried /\ Asked /\ user' = a
  /\ UNCHANGED <<lib, cache, jobs, job, worker, removing>>

Close ==
  /\ "close" \in OfflineEnv /\ Asked
  /\ jobs' = <<>> /\ job' = Unset /\ worker' = [w \in 1 .. 2 |-> Idle]
  /\ removing' = [c \in Cols |-> Unset]
  /\ UNCHANGED <<user, lib, cache>>

OfflineNext ==
  \/ \E c \in Cols : \/ \E S \in Lists[c], q \in Quals : Save(c, S, q)
                     \/ RemoveCollection(c) \/ Held(c) \/ Delete(c)
  \/ \E w \in 1 .. 2 : Fetched(w) \/ Mark(w) \/ \E s \in Songs : Take(w, s)
  \/ Resume \/ JobOver \/ Close \/ \E a \in Accounts : Switch(a)

OfflineSpec == OfflineInit /\ [][OfflineNext]_offlineVars

\* "A removal deletes only what no account's library still holds": a song any
\* library lists as downloaded has its file, whatever is removed, saved again,
\* cut short or shared with another account.
ListedIsHere == \A a \in Accounts : \A s \in Present(a) : cache[s] # Unset

\* "Saving again at another quality downloads it again (the new file replaces
\* the old under the same key)": the file is of the quality noted.
QualityAsNoted ==
  \A a \in Accounts : \A s \in Present(a) : cache[s] = lib[a].tracks[s].q
=============================================================================
