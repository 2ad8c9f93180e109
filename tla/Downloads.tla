----------------------------- MODULE Downloads -----------------------------
(* The pass that keeps the wanted list honest (server/src/downloads.ts,
   watchDownloads): it remembers since when each wanted album has had no new
   file, asks Lidarr's own indexers once, and takes what never comes off the
   list, for good unless somebody asks again.  Lidarr owns the list and the
   files; the Soulseek searcher's log says which albums it has looked for.   *)
EXTENDS Integers

CONSTANTS
  Albums,
  Nil,        \* no time, row, album or pass
  Total,      \* songs of an album
  GiveUp,     \* giveUpMs
  Stuck,      \* STUCK_MS
  MaxClock,   \* bound on the clock
  MaxWishes,  \* bound on the requests
  WatchEnv    \* "log": the searcher's log is there; "fallback"; "wrong": an import
              \* into another album; "fail"; "crash"

VARIABLES
  clock,
  lidarr,     \* Lidarr's own: is it wanted, its files, a download of its own
  searched,   \* the log's last search of each album
  watch,      \* download_watch
  asking,     \* the requests whose answer from Lidarr is awaited
  wishes,
  pass,       \* the pass: its rows as read, the album it is at and its row of it
  \* Since when the album is owed its chance: a pass under way counts what is
  \* asked meanwhile from its own start.
  moved

watchVars == <<clock, lidarr, searched, watch, asking, wishes, pass, moved>>

Times    == 0 .. MaxClock
Listed   == [wanted : BOOLEAN, done : 0 .. Total, own : BOOLEAN]
WatchRow == [seen : Times, done : 0 .. Total, progress : Times,
             searched : Times \cup {Nil}, fallback : Times \cup {Nil}, gaveUp : BOOLEAN]
Passes   == [now : Times, rows : [Albums -> Listed], todo : SUBSET Albums,
             at : Albums \cup {Nil}, step : {"look", "judge", "search", "quit"},
             row : WatchRow \cup {Nil}, why : {"none", "missing", "other"}]

ASSUME WatchAssumption ==
  /\ Total \in Nat /\ GiveUp \in Nat /\ Stuck \in Nat
  /\ MaxClock \in Nat /\ MaxWishes \in Nat
  /\ Nil \notin Times /\ Nil \notin Albums /\ Nil \notin WatchRow /\ Nil \notin Passes

WatchTypeOK ==
  /\ clock \in Times /\ wishes \in 0 .. MaxWishes /\ asking \subseteq Albums
  /\ lidarr \in [Albums -> Listed]
  /\ searched \in [Albums -> Times \cup {Nil}] /\ moved \in [Albums -> Times]
  /\ watch \in [Albums -> WatchRow \cup {Nil}]
  /\ pass \in Passes \cup {Nil}

WatchInit ==
  /\ clock = 0 /\ wishes = 0 /\ asking = {} /\ pass = Nil
  /\ lidarr = [a \in Albums |-> [wanted |-> FALSE, done |-> 0, own |-> FALSE]]
  /\ searched = [a \in Albums |-> Nil] /\ moved = [a \in Albums |-> 0]
  /\ watch = [a \in Albums |-> Nil]

Complete(r) == r.done = Total
TooLong(t, since) == t - since > GiveUp
Afresh(a) == [moved EXCEPT ![a] = IF pass = Nil THEN clock ELSE IF @ > pass.now THEN @ ELSE pass.now]

\* Request, Retry: Lidarr is told first; answered, the request is recorded,
\* which forgets what the pass concluded (recordRequest).
Request(a) ==
  /\ wishes < MaxWishes /\ a \notin asking /\ ~Complete(lidarr[a])
  /\ wishes' = wishes + 1 /\ asking' = asking \cup {a}
  /\ lidarr' = [lidarr EXCEPT ![a].wanted = TRUE]
  /\ UNCHANGED <<clock, searched, watch, pass, moved>>

\* Were the watch kept:
RecordOnly(a) ==
  /\ a \in asking /\ asking' = asking \ {a}
  /\ moved' = Afresh(a)
  /\ UNCHANGED <<clock, lidarr, searched, watch, wishes, pass>>

Recorded(a) ==
  /\ a \in asking /\ asking' = asking \ {a}
  /\ watch' = [watch EXCEPT ![a] = Nil] /\ moved' = Afresh(a)
  /\ UNCHANGED <<clock, lidarr, searched, wishes, pass>>

\* The chores want it too, unless it was given up (givenUp); nothing is recorded,
\* and a row an interrupted pass left goes on.
Chore(a) ==
  /\ wishes < MaxWishes /\ ~lidarr[a].wanted /\ ~Complete(lidarr[a])
  /\ watch[a] # Nil => ~watch[a].gaveUp
  /\ wishes' = wishes + 1 /\ lidarr' = [lidarr EXCEPT ![a].wanted = TRUE]
  /\ moved' = IF watch[a] = Nil THEN Afresh(a) ELSE moved
  /\ UNCHANGED <<clock, searched, watch, asking, pass>>

\* Lidarr: a file arrives; a download of its own begins or ends.
Land(a) ==
  /\ lidarr[a].done < Total
  /\ lidarr' = [lidarr EXCEPT ![a].done = @ + 1] /\ moved' = [moved EXCEPT ![a] = clock]
  /\ UNCHANGED <<clock, searched, watch, asking, wishes, pass>>

Own(a) ==
  /\ lidarr' = [lidarr EXCEPT ![a].own = ~@]
  /\ UNCHANGED <<clock, searched, watch, asking, wishes, pass, moved>>

Search(a) ==
  /\ "log" \in WatchEnv /\ lidarr[a].wanted /\ searched' = [searched EXCEPT ![a] = clock]
  /\ UNCHANGED <<clock, lidarr, watch, asking, wishes, pass, moved>>

ClockTick ==
  /\ clock < MaxClock /\ clock' = clock + 1
  /\ UNCHANGED <<lidarr, searched, watch, asking, wishes, pass, moved>>

-----------------------------------------------------------------------------
(* The pass.                                                                *)

\* lidarr.all(): what is wanted, and what it downloads itself.
StartPass ==
  /\ pass = Nil
  /\ pass' = [now |-> clock, rows |-> lidarr, at |-> Nil, step |-> "look", row |-> Nil, why |-> "none",
              todo |-> {a \in Albums : lidarr[a].wanted /\ ~Complete(lidarr[a]) /\ ~lidarr[a].own}]
  /\ UNCHANGED <<clock, lidarr, searched, watch, asking, wishes, moved>>

NextAlbum == [pass EXCEPT !.at = Nil, !.step = "look", !.row = Nil, !.why = "none"]

\* An album it meets for the first time or with a new file has its time again.
Look(a) ==
  LET r == pass.rows[a] w == watch[a] IN
  /\ pass # Nil /\ pass.step = "look" /\ a \in pass.todo
  /\ IF w = Nil
     THEN /\ watch' = [watch EXCEPT ![a] = [seen |-> pass.now, done |-> r.done, progress |-> pass.now,
                                            searched |-> Nil, fallback |-> Nil, gaveUp |-> FALSE]]
          /\ pass' = [NextAlbum EXCEPT !.todo = @ \ {a}]
     ELSE IF r.done > w.done
     THEN /\ watch' = [watch EXCEPT ![a].done = r.done, ![a].progress = pass.now]
          /\ pass' = [NextAlbum EXCEPT !.todo = @ \ {a}]
     ELSE /\ pass' = [pass EXCEPT !.todo = @ \ {a}, !.at = a, !.row = w, !.step = "judge"]
          /\ UNCHANGED watch
  /\ UNCHANGED <<clock, lidarr, searched, asking, wishes, moved>>

\* The first search seen since the album was queued, remembered.
FirstSearch ==
  LET a == pass.at w == pass.row IN
  IF "log" \notin WatchEnv \/ w.searched # Nil \/ searched[a] = Nil THEN w.searched
  ELSE IF searched[a] >= w.seen THEN searched[a] ELSE Nil

\* Nothing new for too long: since the last file, or since the first search.
Missing(s) ==
  LET w == pass.row IN
  IF pass.rows[pass.at].done > 0 THEN TooLong(pass.now, w.progress)
  ELSE IF w.fallback # Nil THEN TooLong(pass.now, w.fallback)
  ELSE /\ "log" \in WatchEnv => s # Nil
       /\ TooLong(pass.now, IF s # Nil /\ s > w.progress THEN s ELSE w.progress)

\* After its imports were read (importsSince, awaited).
Judge ==
  LET a == pass.at w == pass.row none == pass.rows[a].done = 0 IN
  /\ pass # Nil /\ pass.step = "judge"
  /\ \/ /\ "wrong" \in WatchEnv /\ none /\ pass.now - w.seen > Stuck
        /\ pass' = [pass EXCEPT !.step = "quit", !.why = "other"] /\ UNCHANGED watch
     \/ /\ watch' = IF none /\ FirstSearch # Nil /\ watch[a] # Nil
                    THEN [watch EXCEPT ![a].searched = FirstSearch] ELSE watch
        /\ pass' = IF ~Missing(FirstSearch) THEN NextAlbum
                   ELSE [pass EXCEPT !.why = "missing",
                           !.step = IF none /\ w.fallback = Nil /\ "fallback" \in WatchEnv
                                    THEN "search" ELSE "quit"]
  /\ UNCHANGED <<clock, lidarr, searched, asking, wishes, moved>>

\* searchIndexers: asked once, and one more period; not answered: given up.
Indexers ==
  LET a == pass.at IN
  /\ pass # Nil /\ pass.step = "search"
  /\ \/ /\ watch' = IF watch[a] = Nil THEN watch ELSE [watch EXCEPT ![a].fallback = pass.now]
        /\ pass' = NextAlbum
     \/ "fail" \in WatchEnv /\ pass' = [pass EXCEPT !.step = "quit"] /\ UNCHANGED watch
  /\ UNCHANGED <<clock, lidarr, searched, asking, wishes, moved>>

\* unmonitor, then the reason is kept; not answered: the next pass tries again.
Unmonitor ==
  LET a == pass.at IN
  /\ pass # Nil /\ pass.step = "quit"
  /\ \/ /\ lidarr' = [lidarr EXCEPT ![a].wanted = FALSE]
        /\ \/ /\ watch' = IF watch[a] = Nil THEN watch ELSE [watch EXCEPT ![a].gaveUp = TRUE]
              /\ pass' = NextAlbum
           \/ "crash" \in WatchEnv /\ pass' = Nil /\ UNCHANGED watch
     \/ "fail" \in WatchEnv /\ pass' = NextAlbum /\ UNCHANGED <<lidarr, watch>>
  /\ UNCHANGED <<clock, searched, asking, wishes, moved>>

\* What is done or no longer wanted is forgotten, unless it was given up.
Finish ==
  /\ pass # Nil /\ pass.step = "look" /\ pass.todo = {} /\ pass' = Nil
  /\ watch' = [a \in Albums |-> IF watch[a] = Nil \/ watch[a].gaveUp
                                   \/ (pass.rows[a].wanted /\ ~Complete(pass.rows[a]))
                                THEN watch[a] ELSE Nil]
  /\ UNCHANGED <<clock, lidarr, searched, asking, wishes, moved>>

Restarted ==
  /\ "crash" \in WatchEnv /\ (pass # Nil \/ asking # {}) /\ pass' = Nil /\ asking' = {}
  /\ UNCHANGED <<clock, lidarr, searched, watch, wishes, moved>>

WatchNext ==
  \/ StartPass \/ Judge \/ Indexers \/ Unmonitor \/ Finish \/ Restarted \/ ClockTick
  \/ \E a \in Albums : Request(a) \/ Recorded(a) \/ Chore(a) \/ Land(a) \/ Own(a) \/ Search(a) \/ Look(a)

WatchSpec == WatchInit /\ [][WatchNext]_watchVars

\* Nothing came of the album since the pass read it: no file, no request recorded.
Seen(a) == watch[a] # Nil /\ lidarr[a].done = pass.rows[a].done

\* "Asked for again: whatever the watcher concluded before starts over": an album
\* is given up for want of files only a whole period after its last file and its
\* last request (or a chore's, when no row was left of it), after a search that
\* followed it, and after a second period when the indexers were asked; unless
\* a file or a request comes after the pass has read the album.
Chance ==
  \A a \in Albums :
    lidarr[a].wanted /\ ~lidarr'[a].wanted /\ pass.why = "missing" /\ Seen(a) =>
      /\ TooLong(clock, moved[a])
      /\ lidarr[a].done = 0 =>
           /\ "log" \in WatchEnv => searched[a] # Nil /\ searched[a] >= moved[a]
           /\ pass.row.fallback # Nil => clock - moved[a] > 2 * GiveUp
GivenAChance == [][Chance]_watchVars
=============================================================================
