------------------------------- MODULE Shell -------------------------------
(* The app as the service worker keeps it (web/public/sw.js), and the page's
   own update to a newer build (web/src/App.jsx).  Every page that loads asks
   the worker to keep the server's build, and so does a page about to reload:
   the worker fetches the index and every file it names, all or nothing, puts
   them beside what is kept, the index last, and removes the rest.  A page is
   opened from the kept index and its kept files.  Behind a captive portal any
   of the answers may be the portal's page: the worker keeps that as well.    *)
EXTENDS Naturals

CONSTANTS
  Builds,      \* the server's builds are 1..Builds, each newer than the last
  Slots,       \* bound on the refreshes that run at once
  MaxActs,     \* bound on what people and the network do
  ShellEnv     \* "fail" (no answer), "stop" (the browser ends the worker),
               \* "portal" (a captive portal answers in the server's place),
               \* "midway" (two refreshes under way get different indexes)

ASSUME ShellAssumption == Builds \in Nat \ {0} /\ MaxActs \in Nat

VARIABLES
  build,       \* the build the server hands out
  index, kept, \* of the cache: the kept index's build (0: none), the files
  sham,        \* the kept files that hold a portal's page
  refresh,     \* the refreshes: where they are, their build, the files left,
               \* those of their files that are a portal's page
  page,        \* the build it runs (0: a page without its files), the newer one
               \* it wants, the one it reloads for, whether it waits to reload
  busy,        \* it sounds, or downloads
  reloads,     \* how often the page reloaded itself for each build
  acts

shellVars == <<build, index, kept, sham, refresh, page, busy, reloads, acts>>

\* A portal's page in the index's place: it names none of the app's files.
Portal   == Builds + 1
\* Built files are named by their content: 0 is one that every build shares.
Files(b) == IF b = Portal THEN {} ELSE {0, b}
Refresh(at, b, left, faked) == [at |-> at, b |-> b, left |-> left, faked |-> faked]
NoRefresh    == Refresh("none", 0, {}, {})
Page(on, want, tried, waits) == [on |-> on, want |-> want, tried |-> tried, waits |-> waits]
Active   == {i \in Slots : refresh[i].at # "none"}

ShellTypeOK ==
  /\ build \in 1..Builds /\ index \in 0..Portal /\ kept \subseteq 0..Builds /\ sham \subseteq kept
  /\ refresh \in [Slots -> [at : {"none", "index", "files", "put", "keys", "prune"},
                        b : 0..Portal, left : SUBSET (0..Builds), faked : SUBSET (0..Builds)]]
  /\ page \in [on : 0..Builds, want : 0..Builds, tried : 0..Builds, waits : BOOLEAN]
  /\ busy \in BOOLEAN /\ reloads \in [1..Builds -> Nat] /\ acts \in 0..MaxActs

\* The first visit: nothing is kept, and the load asks for it to be.
ShellInit ==
  /\ build = 1 /\ index = 0 /\ kept = {} /\ sham = {}
  /\ refresh = [i \in Slots |-> IF i = 1 THEN Refresh("index", 0, {}, {}) ELSE NoRefresh]
  /\ page = Page(1, 0, 0, FALSE)
  /\ busy = FALSE /\ reloads = [b \in 1..Builds |-> 0] /\ acts = 0

ShellOp(kind) == (kind = "" \/ kind \in ShellEnv) /\ acts < MaxActs /\ acts' = acts + 1

-----------------------------------------------------------------------------
(* cacheShell(), one stretch between two awaits at a time.                  *)

Free == {i \in Slots : refresh[i].at = "none"}
\* No refresh under way has another index than b.
Agreed(b) == "midway" \in ShellEnv \/ \A j \in Active : refresh[j].b \in {0, b}

\* A message 'cache-app-shell' (or the worker's install) begins a refresh.
Posted(i) == [refresh EXCEPT ![i] = Refresh("index", 0, {}, {})]

GotIndex(i) ==
  /\ refresh[i].at = "index" /\ Agreed(build)
  /\ refresh' = [refresh EXCEPT ![i] = Refresh("files", build, {}, {})]
  /\ UNCHANGED <<build, index, kept, sham, page, busy, reloads, acts>>

\* A portal's page has status 200 as well.
GotPortal(i) ==
  /\ ShellOp("portal") /\ refresh[i].at = "index" /\ Agreed(Portal)
  /\ refresh' = [refresh EXCEPT ![i] = Refresh("files", Portal, {}, {})]
  /\ UNCHANGED <<build, index, kept, sham, page, busy, reloads>>

\* All or nothing: the server has the files of its own build only, and a file
\* the page runs on may still come from the browser's cache.
GotFiles(i) ==
  /\ refresh[i].at = "files"
  /\ refresh' = [refresh EXCEPT ![i] =
       IF @.b \in {build, page.on, Portal} THEN Refresh("put", @.b, Files(@.b), {}) ELSE NoRefresh]
  /\ UNCHANGED <<build, index, kept, sham, page, busy, reloads, acts>>

\* A portal answers for some of the files, of whatever build.
GotFaked(i) ==
  /\ ShellOp("portal") /\ refresh[i].at = "files"
  /\ \E f \in SUBSET Files(refresh[i].b) \ {{}} :
       /\ refresh[i].b \in {build, page.on} \/ f = Files(refresh[i].b)
       /\ refresh' = [refresh EXCEPT ![i] = Refresh("put", @.b, Files(@.b), f)]
  /\ UNCHANGED <<build, index, kept, sham, page, busy, reloads>>

\* One file is put; a new copy takes the old one's place.
PutFile(i, f) ==
  /\ kept' = kept \cup {f}
  /\ sham' = IF f \in refresh[i].faked THEN sham \cup {f} ELSE sham \ {f}
  /\ refresh' = [refresh EXCEPT ![i] = Refresh("put", @.b, @.left \ {f}, @.faked \ {f})]

\* As a bug would have it: the index before its files.
PutIndexFirst(i) ==
  /\ refresh[i].at = "put"
  /\ IF index # refresh[i].b
     THEN index' = refresh[i].b /\ UNCHANGED <<refresh, kept, sham>>
     ELSE IF refresh[i].left = {}
     THEN refresh' = [refresh EXCEPT ![i] = Refresh("keys", @.b, {}, {})] /\ UNCHANGED <<index, kept, sham>>
     ELSE (\E f \in refresh[i].left : PutFile(i, f)) /\ UNCHANGED index
  /\ UNCHANGED <<build, page, busy, reloads, acts>>

\* The files first, the index after the last of them.
Put(i) ==
  /\ refresh[i].at = "put"
  /\ IF refresh[i].left = {}
     THEN /\ index' = refresh[i].b /\ refresh' = [refresh EXCEPT ![i] = Refresh("keys", @.b, {}, {})]
          /\ UNCHANGED <<kept, sham>>
     ELSE (\E f \in refresh[i].left : PutFile(i, f)) /\ UNCHANGED index
  /\ UNCHANGED <<build, page, busy, reloads, acts>>

Keys(i) ==
  /\ refresh[i].at = "keys"
  /\ refresh' = [refresh EXCEPT ![i] = Refresh("prune", @.b, kept \ Files(@.b), {})]
  /\ UNCHANGED <<build, index, kept, sham, page, busy, reloads, acts>>

Prune(i) ==
  /\ refresh[i].at = "prune"
  /\ IF refresh[i].left = {} THEN refresh' = [refresh EXCEPT ![i] = NoRefresh] /\ UNCHANGED <<kept, sham>>
     ELSE \E f \in refresh[i].left :
            /\ kept' = kept \ {f} /\ sham' = sham \ {f}
            /\ refresh' = [refresh EXCEPT ![i] = Refresh("prune", @.b, @.left \ {f}, {})]
  /\ UNCHANGED <<build, index, page, busy, reloads, acts>>

\* No answer to the index or to one of the files: what was kept stays.
Unanswered(i) ==
  /\ ShellOp("fail") /\ refresh[i].at \in {"index", "files"}
  /\ refresh' = [refresh EXCEPT ![i] = NoRefresh]
  /\ UNCHANGED <<build, index, kept, sham, page, busy, reloads>>

\* The browser ends the worker wherever it is.
Ended ==
  /\ ShellOp("stop") /\ Active # {}
  /\ refresh' = [i \in Slots |-> NoRefresh]
  /\ UNCHANGED <<build, index, kept, sham, page, busy, reloads>>

-----------------------------------------------------------------------------
(* The page.                                                               *)

\* The kept index with its kept files; what is not kept comes from the server.
\* Behind a portal that is as if from nowhere.
Lands(b, online) ==
  CASE b = 0      -> IF online THEN build ELSE 0
    [] b = Portal -> 0
    [] OTHER      -> IF Files(b) \cap sham = {} /\ (Files(b) \subseteq kept \/ (online /\ b = build))
                     THEN b ELSE 0

\* A page loads, and its index asks for the app to be kept; a portal's does not.
Load(on, tried) ==
  /\ page' = Page(on, 0, tried, FALSE)
  /\ \/ index \in {0, Portal} /\ on = 0 /\ UNCHANGED refresh
     \/ Free = {} /\ UNCHANGED refresh
     \/ (index \notin {0, Portal} \/ on # 0) /\ \E i \in Free : refresh' = Posted(i)

\* Someone opens the app again, with or without a connection.
Open ==
  /\ ShellOp("")
  /\ \E online \in BOOLEAN : Load(Lands(index, online), 0)
  /\ busy' = FALSE /\ reloads' = [b \in 1..Builds |-> 0]
  /\ UNCHANGED <<build, index, kept, sham>>

Deploy ==
  /\ build < Builds /\ build' = build + 1
  /\ UNCHANGED <<index, kept, sham, refresh, page, busy, reloads, acts>>

\* saw(): a build that is neither the running one nor the one tried is wanted.
Wanted(b) == IF b \in {page.on, page.tried} THEN page.want ELSE b

\* apply(): nobody is disturbed (quiet for two minutes is chance);
\* the build is noted as tried and the worker asked to keep it.
Apply(w) ==
  /\ w # 0 /\ ~busy /\ ~page.waits
  /\ \E i \in Free :
       /\ refresh' = Posted(i)
       /\ page' = Page(page.on, w, w, TRUE)

Saw ==
  /\ page.on # 0 /\ Wanted(build) # 0
  /\ \/ Apply(Wanted(build))
     \/ /\ page.want # Wanted(build) /\ UNCHANGED refresh
        /\ page' = Page(page.on, Wanted(build), page.tried, page.waits)
  /\ UNCHANGED <<build, index, kept, sham, busy, reloads, acts>>

\* The worker has answered, or 20 s have passed: the page reloads as it is now.
Reload ==
  /\ page.waits
  /\ reloads' = [reloads EXCEPT ![page.tried] = @ + 1]
  /\ busy' = FALSE
  /\ \E online \in BOOLEAN : Load(Lands(index, online), page.tried)
  /\ UNCHANGED <<build, index, kept, sham, acts>>

Use ==
  /\ page.on # 0 /\ ShellOp("") /\ busy' = ~busy
  /\ UNCHANGED <<build, index, kept, sham, refresh, page, reloads>>

ShellNext ==
  \/ \E i \in Slots : GotIndex(i) \/ GotPortal(i) \/ GotFiles(i) \/ GotFaked(i)
                       \/ Put(i) \/ Keys(i) \/ Prune(i) \/ Unanswered(i)
  \/ Ended \/ Open \/ Deploy \/ Saw \/ Reload \/ Use

ShellSpec == ShellInit /\ [][ShellNext]_shellVars

-----------------------------------------------------------------------------
\* Every file the kept index names is kept, whatever answered or ended the
\* refreshes and in whatever order files were put and removed (sw.js).  It is the
\* server's own index and files where no portal answers in its place.
ShellComplete ==
  index # 0 => /\ Files(index) \subseteq kept
               /\ "portal" \notin ShellEnv => index # Portal /\ Files(index) \cap sham = {}

\* A page that reloads itself does so once for a build, wherever the reload
\* lands (App.jsx).
ReloadsOnce == \A b \in 1..Builds : reloads[b] <= 1

\* Both: the app kept lacks none of its files, and whoever uses it is disturbed
\* by each newer build no more than once.
AppKept == ShellComplete /\ ReloadsOnce
=============================================================================
