---------------------------- MODULE BrowserProofs ----------------------------
(* What the browser keeps. The app (Shell), for any number of builds, refreshes,
   accidents and portals, as long as refreshes under way that have an index have
   the same one. An answer (Answers), for any accounts, requests and writes: whoever
   is signed in is shown answers of that account, and, as long as answers come
   in the order they were made, a page left with a kept copy is told of what is
   newer. And the songs (Offline), for any accounts, collections and qualities,
   as long as a removal and the noting of a file end before what follows them.  *)
EXTENDS Shell, Answers, Offline, FiniteSetTheorems, TLAPS

Stage   == {"none", "index", "files", "put", "keys", "prune"}
JobRec  == [at : Stage, b : 0..Portal, left : SUBSET (0..Builds), faked : SUBSET (0..Builds)]
PageRec == [on : 0..Builds, want : 0..Builds, tried : 0..Builds, waits : BOOLEAN]

\* Refreshes under way that have an index have the same one.
Alike ==
  \A i, j \in Active : refresh[i].b # 0 /\ refresh[j].b # 0 => refresh[i].b = refresh[j].b

\* Where no portal answers nothing is a portal's.
Answered(x) == "portal" \notin ShellEnv => x.b # Portal /\ x.faked = {}
Genuine == "portal" \notin ShellEnv => index # Portal /\ sham = {}

\* How far a refresh has come: what it has put is there, and what it removes
\* is none of its own.
Reached(x, ix, ks) ==
  /\ x.at \in {"none", "index"} <=> x.b = 0
  /\ x.at = "put" => Files(x.b) \ x.left \subseteq ks
  /\ x.at \in {"keys", "prune"} => ix = x.b /\ Files(x.b) \subseteq ks
  /\ x.at = "prune" => x.left \cap Files(x.b) = {}

\* Builds are wanted, tried and reloaded for in their order.
InOrder ==
  /\ page.want <= build /\ page.tried <= build
  /\ page.want # 0 => page.want >= page.tried
  /\ ~page.waits /\ page.want # 0 => page.want > page.tried
  /\ page.waits => page.tried # 0 /\ reloads[page.tried] = 0
  /\ \A b \in 1..Builds : reloads[b] # 0 => b <= page.tried

JobsTyped == build \in 1..Builds /\ refresh \in [Slots -> JobRec]
KeptTyped == index \in 0..Portal /\ kept \subseteq 0..Builds /\ sham \subseteq kept
PutInOrder ==
  /\ JobsTyped /\ KeptTyped /\ Alike /\ Genuine /\ ShellComplete
  /\ \A i \in Slots : Reached(refresh[i], index, kept) /\ Answered(refresh[i])
Tried == /\ build \in 1..Builds /\ page \in PageRec /\ reloads \in [1..Builds -> Nat]
         /\ InOrder /\ ReloadsOnce

-----------------------------------------------------------------------------
\* A refresh's type and fields.
LEMMA JobFields ==
  ASSUME NEW at \in Stage, NEW b \in 0..Portal, NEW left \in SUBSET (0..Builds), NEW faked \in SUBSET (0..Builds)
  PROVE  LET x == Refresh(at, b, left, faked)
         IN x \in JobRec /\ x.at = at /\ x.b = b /\ x.left = left /\ x.faked = faked
  BY DEF Refresh, JobRec

\* A build's files are among all there are; a portal's page has none.
LEMMA FilesOf ==
  ASSUME Builds \in Nat
  PROVE  /\ Portal \in Nat /\ Portal > Builds /\ Files(Portal) = {}
         /\ \A b \in 0..Portal : Files(b) \in SUBSET (0..Builds)
  BY DEF Portal, Files

\* A slot with no refresh in it.
LEMMA NoJob ==
  ASSUME Builds \in Nat
  PROVE  /\ NoRefresh \in JobRec /\ NoRefresh.at = "none" /\ NoRefresh.b = 0 /\ Answered(NoRefresh)
         /\ \A ix, ks : Reached(NoRefresh, ix, ks)
<1>1. NoRefresh \in JobRec /\ NoRefresh.at = "none" /\ NoRefresh.b = 0 /\ NoRefresh.left = {} /\ NoRefresh.faked = {}
  BY FilesOf, JobFields DEF NoRefresh, Stage
<1> QED
  BY <1>1, FilesOf DEF Reached, Answered

\* A refresh under way moves on with its index, ends, or takes the one index
\* the others have.
LEMMA AlikeKept ==
  ASSUME "midway" \notin ShellEnv, PutInOrder, build' = build, NEW i \in Slots, NEW x \in JobRec,
         refresh' = [refresh EXCEPT ![i] = x],
         x.at = "none" \/ x.b = 0 \/ (refresh[i].at # "none" /\ x.b = refresh[i].b) \/ Agreed(x.b)
  PROVE  JobsTyped' /\ Alike'
<1>1. \A j \in Slots : refresh'[j] = IF j = i THEN x ELSE refresh[j]
  BY DEF PutInOrder, JobsTyped
<1>2. JobsTyped'
  BY DEF PutInOrder, JobsTyped
<1>3. ASSUME NEW j \in Slots, j # i, refresh[j].at # "none", refresh[j].b # 0, x.at # "none", x.b # 0
      PROVE  x.b = refresh[j].b
  BY <1>3 DEF PutInOrder, Alike, Active, Agreed
<1>4. ASSUME NEW j \in Slots, NEW k \in Slots, j # i, k # i, refresh[j].at # "none", refresh[k].at # "none",
             refresh[j].b # 0, refresh[k].b # 0
      PROVE  refresh[j].b = refresh[k].b
  BY <1>4 DEF PutInOrder, Alike, Active
<1> QED
  BY <1>1, <1>2, <1>3, <1>4 DEF Alike, Active

\* Refreshes that have an index have the same one.
LEMMA SameBuild ==
  ASSUME PutInOrder, NEW i \in Active, NEW j \in Active, refresh[i].b # 0, refresh[j].b # 0
  PROVE  refresh[i].b = refresh[j].b
  BY DEF PutInOrder, Alike

\* A step of a refresh that puts and removes nothing.
LEMMA MoveKeeps ==
  ASSUME "midway" \notin ShellEnv, PutInOrder, UNCHANGED <<build, index, kept, sham>>, NEW i \in Slots, NEW x \in JobRec,
         refresh' = [refresh EXCEPT ![i] = x], Reached(x, index, kept), Answered(x),
         x.at = "none" \/ x.b = 0 \/ (refresh[i].at # "none" /\ x.b = refresh[i].b) \/ Agreed(x.b)
  PROVE  PutInOrder'
<1>1. JobsTyped' /\ Alike'
  BY AlikeKept
<1>2. \A j \in Slots : Reached(refresh'[j], index', kept') /\ Answered(refresh'[j])
  BY DEF PutInOrder, JobsTyped
<1> QED
  BY <1>1, <1>2 DEF PutInOrder, KeptTyped, Genuine, ShellComplete

\* A refresh that begins has no index yet.
LEMMA PostKeeps ==
  ASSUME Builds \in Nat, "midway" \notin ShellEnv, PutInOrder, NEW i \in Free, refresh' = Posted(i),
         UNCHANGED <<build, index, kept, sham>>
  PROVE  PutInOrder'
<1> DEFINE x == Refresh("index", 0, {}, {})
<1>1. x \in JobRec /\ x.at = "index" /\ x.b = 0 /\ x.faked = {}
  BY FilesOf, JobFields DEF Stage
<1>2. i \in Slots /\ refresh' = [refresh EXCEPT ![i] = x]
  BY DEF Free, Posted
<1>3. Reached(x, index, kept) /\ Answered(x)
  BY <1>1, FilesOf DEF Reached, Answered
<1> QED
  BY <1>1, <1>2, <1>3, MoveKeeps

\* The index is put after its files.
LEMMA IndexKeeps ==
  ASSUME Builds \in Nat, "midway" \notin ShellEnv, PutInOrder, NEW i \in Slots, Put(i), refresh[i].left = {}
  PROVE  PutInOrder'
<1> DEFINE b == refresh[i].b
           x == Refresh("keys", b, {}, {})
<1>1. /\ refresh[i] \in JobRec /\ b \in 0..Portal /\ Reached(refresh[i], index, kept) /\ Answered(refresh[i])
      /\ refresh[i].at = "put" /\ UNCHANGED <<build, kept, sham>> /\ index' = b
      /\ refresh' = [refresh EXCEPT ![i] = x]
  BY DEF PutInOrder, JobsTyped, Put, JobRec
<1>2. x \in JobRec /\ x.at = "keys" /\ x.b = b /\ x.faked = {}
  BY <1>1, FilesOf, JobFields DEF Stage
<1>3. b # 0 /\ Files(b) \subseteq kept
  BY <1>1 DEF Reached
<1>4. JobsTyped' /\ Alike'
  BY <1>1, <1>2, AlikeKept
<1>5. ASSUME NEW j \in Slots PROVE Reached(refresh'[j], index', kept') /\ Answered(refresh'[j])
  <2>1. CASE j = i
    BY <1>1, <1>2, <1>3, <2>1 DEF PutInOrder, JobsTyped, Reached, Answered
  <2>2. CASE j # i /\ refresh[j].b # 0
    <3>1. refresh[j].at # "none"
      BY <2>2 DEF PutInOrder, Reached
    <3>2. refresh[j].b = b
      BY <1>1, <1>3, <2>2, <3>1, SameBuild DEF Active
    <3> QED
      BY <1>1, <2>2, <3>2 DEF PutInOrder, JobsTyped, Reached
  <2>3. CASE j # i /\ refresh[j].b = 0
    BY <1>1, <2>3 DEF PutInOrder, JobsTyped, Reached
  <2> QED
    BY <2>1, <2>2, <2>3
<1> QED
  BY <1>1, <1>3, <1>4, <1>5 DEF PutInOrder, KeptTyped, Genuine, ShellComplete, Answered

\* A file is put before the index that names it.
LEMMA FileKeeps ==
  ASSUME Builds \in Nat, "midway" \notin ShellEnv, PutInOrder, NEW i \in Slots, Put(i),
         NEW f \in refresh[i].left, PutFile(i, f), index' = index
  PROVE  PutInOrder'
<1> DEFINE b == refresh[i].b
           x == Refresh("put", b, refresh[i].left \ {f}, refresh[i].faked \ {f})
<1>1. /\ refresh[i] \in JobRec /\ b \in 0..Portal /\ f \in 0..Builds /\ Reached(refresh[i], index, kept)
      /\ Answered(refresh[i]) /\ refresh[i].at = "put" /\ build' = build
      /\ kept' = kept \cup {f} /\ refresh' = [refresh EXCEPT ![i] = x]
      /\ sham' = IF f \in refresh[i].faked THEN sham \cup {f} ELSE sham \ {f}
  BY DEF PutInOrder, JobsTyped, Put, PutFile, JobRec
<1>2. /\ x \in JobRec /\ x.at = "put" /\ x.b = b /\ x.left = refresh[i].left \ {f}
      /\ x.faked = refresh[i].faked \ {f}
  <2>1. refresh[i].left \ {f} \in SUBSET (0..Builds) /\ refresh[i].faked \ {f} \in SUBSET (0..Builds)
    BY <1>1 DEF JobRec
  <2> QED
    BY <1>1, <2>1, JobFields DEF Stage
<1>3. JobsTyped' /\ Alike'
  BY <1>1, <1>2, AlikeKept
<1>4. ASSUME NEW j \in Slots PROVE Reached(refresh'[j], index', kept') /\ Answered(refresh'[j])
  <2>1. CASE j = i
    BY <1>1, <1>2, <2>1 DEF PutInOrder, JobsTyped, Reached, Answered
  <2>2. CASE j # i
    BY <1>1, <2>2 DEF PutInOrder, JobsTyped, Reached
  <2> QED
    BY <2>1, <2>2
<1>5. KeptTyped' /\ Genuine'
  BY <1>1 DEF PutInOrder, KeptTyped, Genuine, Answered
<1>6. ShellComplete'
  BY <1>1, <1>5 DEF PutInOrder, ShellComplete, Genuine
<1> QED
  BY <1>3, <1>4, <1>5, <1>6 DEF PutInOrder

\* What is removed is none of the index's files, which are every refresh's.
LEMMA PruneKeeps ==
  ASSUME Builds \in Nat, "midway" \notin ShellEnv, PutInOrder, NEW i \in Slots, Prune(i), refresh[i].left # {}
  PROVE  PutInOrder'
<1> DEFINE b == refresh[i].b
<1>1. PICK f \in refresh[i].left : /\ kept' = kept \ {f} /\ sham' = sham \ {f}
                                   /\ refresh' = [refresh EXCEPT ![i] = Refresh("prune", b, refresh[i].left \ {f}, {})]
  BY DEF Prune
<1> DEFINE x == Refresh("prune", b, refresh[i].left \ {f}, {})
<1>2. /\ refresh[i] \in JobRec /\ b \in 0..Portal /\ Reached(refresh[i], index, kept) /\ Answered(refresh[i])
      /\ refresh[i].at = "prune" /\ UNCHANGED <<build, index>>
  BY DEF PutInOrder, JobsTyped, Prune, JobRec
<1>3. x \in JobRec /\ x.at = "prune" /\ x.b = b /\ x.left = refresh[i].left \ {f} /\ x.faked = {}
  <2>1. refresh[i].left \ {f} \in SUBSET (0..Builds)
    BY <1>2 DEF JobRec
  <2> QED
    BY <1>2, <2>1, JobFields DEF Stage
<1>4. b # 0 /\ index = b /\ f \notin Files(b)
  BY <1>1, <1>2 DEF Reached
<1>5. JobsTyped' /\ Alike'
  BY <1>1, <1>2, <1>3, AlikeKept
<1>6. ASSUME NEW j \in Slots PROVE Reached(refresh'[j], index', kept') /\ Answered(refresh'[j])
  <2>1. CASE j = i
    BY <1>1, <1>2, <1>3, <1>4, <2>1 DEF PutInOrder, JobsTyped, Reached, Answered
  <2>2. CASE j # i /\ refresh[j].b # 0
    <3>1. refresh[j].at # "none"
      BY <2>2 DEF PutInOrder, Reached
    <3>2. refresh[j].b = b
      BY <1>2, <1>4, <2>2, <3>1, SameBuild DEF Active
    <3> QED
      BY <1>1, <1>2, <1>4, <2>2, <3>2 DEF PutInOrder, JobsTyped, Reached
  <2>3. CASE j # i /\ refresh[j].b = 0
    BY <1>1, <2>3 DEF PutInOrder, JobsTyped, Reached
  <2> QED
    BY <2>1, <2>2, <2>3
<1> QED
  BY <1>1, <1>2, <1>4, <1>5, <1>6 DEF PutInOrder, KeptTyped, Genuine, ShellComplete

\* One step of a refresh.
RefreshStep(i) ==
  \/ GotIndex(i) \/ GotPortal(i) \/ GotFiles(i) \/ GotFaked(i)
  \/ Put(i) \/ Keys(i) \/ Prune(i) \/ Unanswered(i)

\* The files are put before the index, and what is removed is no one's.
LEMMA StepKeeps ==
  ASSUME Builds \in Nat, "midway" \notin ShellEnv, PutInOrder, NEW i \in Slots, RefreshStep(i)
  PROVE  PutInOrder'
<1> DEFINE b == refresh[i].b
<1>0. /\ build \in 1..Builds /\ refresh[i] \in JobRec /\ b \in 0..Portal /\ Reached(refresh[i], index, kept)
      /\ Answered(refresh[i]) /\ build # Portal /\ build \in 0..Portal
  BY FilesOf DEF PutInOrder, JobsTyped, JobRec
<1>1. CASE GotIndex(i)
  <2> DEFINE x == Refresh("files", build, {}, {})
  <2>1. x \in JobRec /\ x.at = "files" /\ x.b = build /\ x.faked = {}
    BY <1>0, JobFields DEF Stage
  <2>2. refresh' = [refresh EXCEPT ![i] = x] /\ UNCHANGED <<build, index, kept, sham>> /\ Agreed(x.b)
    BY <1>1, <2>1 DEF GotIndex
  <2>3. Reached(x, index, kept) /\ Answered(x)
    BY <1>0, <2>1 DEF Reached, Answered
  <2> QED
    BY <2>1, <2>2, <2>3, MoveKeeps
<1>2. CASE GotPortal(i)
  <2> DEFINE x == Refresh("files", Portal, {}, {})
  <2>1. x \in JobRec /\ x.at = "files" /\ x.b = Portal /\ Portal # 0
    BY FilesOf, JobFields DEF Stage
  <2>2. /\ refresh' = [refresh EXCEPT ![i] = x] /\ UNCHANGED <<build, index, kept, sham>> /\ Agreed(x.b)
        /\ "portal" \in ShellEnv
    BY <1>2, <2>1 DEF GotPortal, ShellOp
  <2>3. Reached(x, index, kept) /\ Answered(x)
    BY <2>1, <2>2 DEF Reached, Answered
  <2> QED
    BY <2>1, <2>2, <2>3, MoveKeeps
<1>3. ASSUME NEW fs \in SUBSET Files(b), refresh' = [refresh EXCEPT ![i] = Refresh("put", b, Files(b), fs)],
             refresh[i].at = "files", UNCHANGED <<build, index, kept, sham>>, "portal" \notin ShellEnv => fs = {}
      PROVE  PutInOrder'
  <2> DEFINE x == Refresh("put", b, Files(b), fs)
  <2>1. x \in JobRec /\ x.at = "put" /\ x.b = b /\ x.left = Files(b) /\ x.faked = fs
    <3>1. Files(b) \in SUBSET (0..Builds) /\ fs \in SUBSET (0..Builds)
      BY <1>0, FilesOf
    <3> QED
      BY <1>0, <3>1, JobFields DEF Stage
  <2>2. Reached(x, index, kept) /\ Answered(x)
    BY <1>0, <1>3, <2>1 DEF Reached, Answered
  <2> QED
    BY <1>3, <2>1, <2>2, MoveKeeps
<1>4. ASSUME refresh' = [refresh EXCEPT ![i] = NoRefresh], UNCHANGED <<build, index, kept, sham>>
      PROVE  PutInOrder'
  BY <1>4, NoJob, MoveKeeps
<1>5. CASE GotFiles(i)
  <2>1. UNCHANGED <<build, index, kept, sham>> /\ refresh[i].at = "files"
    BY <1>5 DEF GotFiles
  <2>2. CASE b \in {build, page.on, Portal}
    <3>1. refresh' = [refresh EXCEPT ![i] = Refresh("put", b, Files(b), {})]
      BY <1>5, <2>2 DEF GotFiles
    <3> QED
      BY <1>3, <2>1, <3>1
  <2>3. CASE b \notin {build, page.on, Portal}
    <3>1. refresh' = [refresh EXCEPT ![i] = NoRefresh]
      BY <1>5, <2>3 DEF GotFiles
    <3> QED
      BY <1>4, <2>1, <3>1
  <2> QED
    BY <2>2, <2>3
<1>6. CASE GotFaked(i)
  <2>1. UNCHANGED <<build, index, kept, sham>> /\ refresh[i].at = "files" /\ "portal" \in ShellEnv
    BY <1>6 DEF GotFaked, ShellOp
  <2>2. PICK fs \in SUBSET Files(b) : refresh' = [refresh EXCEPT ![i] = Refresh("put", b, Files(b), fs)]
    BY <1>6 DEF GotFaked
  <2> QED
    BY <1>3, <2>1, <2>2
<1>7. CASE Put(i)
  <2>1. CASE refresh[i].left = {}
    BY <1>7, <2>1, IndexKeeps
  <2>2. CASE refresh[i].left # {}
    <3>1. PICK f \in refresh[i].left : PutFile(i, f)
      BY <1>7, <2>2 DEF Put
    <3>2. index' = index
      BY <1>7, <2>2 DEF Put
    <3> QED
      BY <1>7, <3>1, <3>2, FileKeeps
  <2> QED
    BY <2>1, <2>2
<1>8. CASE Keys(i)
  <2> DEFINE x == Refresh("prune", b, kept \ Files(b), {})
  <2>1. x \in JobRec /\ x.at = "prune" /\ x.b = b /\ x.left = kept \ Files(b) /\ x.faked = {}
    <3>1. kept \ Files(b) \in SUBSET (0..Builds)
      BY DEF PutInOrder, KeptTyped
    <3> QED
      BY <1>0, <3>1, JobFields DEF Stage
  <2>2. /\ refresh' = [refresh EXCEPT ![i] = x] /\ UNCHANGED <<build, index, kept, sham>>
        /\ refresh[i].at = "keys"
    BY <1>8 DEF Keys
  <2>3. Reached(x, index, kept) /\ Answered(x)
    BY <1>0, <2>1, <2>2 DEF Reached, Answered
  <2> QED
    BY <2>1, <2>2, <2>3, MoveKeeps
<1>9. CASE Prune(i)
  <2>1. CASE refresh[i].left = {}
    <3>1. refresh' = [refresh EXCEPT ![i] = NoRefresh] /\ UNCHANGED <<build, index, kept, sham>>
      BY <1>9, <2>1 DEF Prune
    <3> QED
      BY <1>4, <3>1
  <2> QED
    BY <1>9, <2>1, PruneKeeps
<1>10. CASE Unanswered(i)
  BY <1>4, <1>10 DEF Unanswered
<1> QED
  BY <1>1, <1>2, <1>5, <1>6, <1>7, <1>8, <1>9, <1>10 DEF RefreshStep

\* The server's new build touches nothing kept.
LEMMA DeployKeeps ==
  ASSUME Builds \in Nat, PutInOrder, Deploy
  PROVE  PutInOrder'
  BY DEF Deploy, PutInOrder, JobsTyped, KeptTyped, Alike, Active, Genuine, Reached, Answered, ShellComplete

\* The worker is ended: no refresh is under way.
LEMMA EndedKeeps == ASSUME Builds \in Nat, PutInOrder, Ended PROVE PutInOrder'
<1>1. UNCHANGED <<build, index, kept, sham>> /\ \A i \in Slots : refresh'[i] = NoRefresh
  BY DEF Ended
<1>2. JobsTyped'
  BY NoJob DEF Ended, PutInOrder, JobsTyped
<1> QED
  BY <1>1, <1>2, NoJob DEF PutInOrder, KeptTyped, Alike, Active, Genuine, ShellComplete

-----------------------------------------------------------------------------
\* Where a page lands is a build there is.
LEMMA LandsBuild ==
  ASSUME Builds \in Nat, build \in 1..Builds, KeptTyped
  PROVE  \A online \in BOOLEAN : Lands(index, online) \in 0..Builds
  BY FilesOf DEF Lands, KeptTyped, Portal

\* A page that has just loaded wants nothing yet.
LEMMA LoadTried ==
  ASSUME Builds \in Nat, NEW on \in 0..Builds, NEW tried \in 0..Builds, Load(on, tried)
  PROVE  page' \in PageRec /\ page'.want = 0 /\ page'.tried = tried /\ page'.waits = FALSE
<1>1. page' = Page(on, 0, tried, FALSE)
  BY DEF Load
<1> QED
  BY <1>1 DEF Page, PageRec

\* A build is tried once.
LEMMA SawTried == ASSUME Builds \in Nat, Tried, Saw PROVE Tried'
<1> DEFINE w == Wanted(build)
<1>1. /\ UNCHANGED <<build, reloads>> /\ w \in 0..Builds /\ w <= build /\ w # 0
      /\ w # page.want => w = build /\ w # page.tried
  BY DEF Saw, Wanted, Tried, PageRec, InOrder
<1>2. page \in PageRec /\ page.on \in 0..Builds /\ page.want \in 0..Builds /\ page.tried \in 0..Builds
  BY DEF Tried, PageRec
<1>3. CASE Apply(w)
  <2>1. page' = Page(page.on, w, w, TRUE) /\ ~page.waits
    BY <1>3 DEF Apply
  <2>2. page' \in PageRec /\ page'.want = w /\ page'.tried = w /\ page'.waits = TRUE
    BY <1>1, <1>2, <2>1 DEF Page, PageRec
  <2>3. w > page.tried
    BY <1>1, <1>2, <2>1 DEF Tried, InOrder
  <2> QED
    BY <1>1, <1>2, <2>2, <2>3 DEF Tried, InOrder, ReloadsOnce
<1>4. CASE page' = Page(page.on, w, page.tried, page.waits) /\ page.want # w
  <2>1. page.waits \in BOOLEAN
    BY <1>2 DEF PageRec
  <2>2. page' \in PageRec /\ page'.want = w /\ page'.tried = page.tried /\ page'.waits = page.waits
    BY <1>1, <1>2, <1>4, <2>1 DEF Page, PageRec
  <2>3. w > page.tried
    BY <1>1, <1>2, <1>4 DEF Tried, InOrder
  <2> QED
    BY <1>1, <1>2, <2>2, <2>3 DEF Tried, InOrder, ReloadsOnce
<1> QED
  BY <1>3, <1>4 DEF Saw

\* The reload for it is noted.
LEMMA ReloadTried == ASSUME Builds \in Nat, Tried, KeptTyped, Reload PROVE Tried'
<1>1. page.tried \in 1..Builds /\ reloads[page.tried] = 0 /\ build' = build
  BY DEF Reload, Tried, InOrder, PageRec
<1>2. PICK on \in 0..Builds : Load(on, page.tried)
  BY LandsBuild DEF Reload, Tried
<1>3. page' \in PageRec /\ page'.want = 0 /\ page'.tried = page.tried /\ page'.waits = FALSE
  <2>1. page.tried \in 0..Builds
    BY <1>1
  <2> QED
    BY <1>2, <2>1, LoadTried
<1>4. reloads' = [reloads EXCEPT ![page.tried] = 1]
  BY <1>1 DEF Reload, Tried
<1> QED
  BY <1>1, <1>3, <1>4 DEF Tried, InOrder, ReloadsOnce

\* Opened again, nothing is noted.
LEMMA OpenTried == ASSUME Builds \in Nat, Tried, KeptTyped, Open PROVE Tried'
<1>1. PICK on \in 0..Builds : Load(on, 0)
  BY LandsBuild DEF Open, Tried
<1>2. page' \in PageRec /\ page'.want = 0 /\ page'.tried = 0 /\ page'.waits = FALSE
  <2>1. 0 \in 0..Builds
    OBVIOUS
  <2> QED
    BY <1>1, <2>1, LoadTried
<1>3. build' \in 1..Builds /\ reloads' \in [1..Builds -> Nat] /\ \A b \in 1..Builds : reloads'[b] = 0
  BY DEF Open, Tried
<1>4. InOrder'
  BY <1>2, <1>3 DEF InOrder
<1> QED
  BY <1>2, <1>3, <1>4 DEF Tried, ReloadsOnce

-----------------------------------------------------------------------------
\* Nothing of the cache or of a refresh moves.
LEMMA RestKeeps == ASSUME PutInOrder, UNCHANGED <<build, index, kept, sham, refresh>> PROVE PutInOrder'
  BY DEF PutInOrder, JobsTyped, KeptTyped, Alike, Active, Genuine, ShellComplete, Answered

\* Opening and reloading post at most one refresh.
LEMMA LoadKeeps ==
  ASSUME Builds \in Nat, "midway" \notin ShellEnv, PutInOrder, UNCHANGED <<build, index, kept, sham>>,
         NEW on, NEW tried, Load(on, tried)
  PROVE  PutInOrder'
<1>1. CASE refresh' = refresh
  BY <1>1, RestKeeps
<1>2. CASE \E i \in Free : refresh' = Posted(i)
  BY <1>2, PostKeeps
<1> QED
  BY <1>1, <1>2 DEF Load

ShellInv == PutInOrder /\ Tried

\* Every step keeps both.
LEMMA NextKeeps ==
  ASSUME Builds \in Nat, "midway" \notin ShellEnv, ShellInv, [ShellNext]_shellVars
  PROVE  ShellInv'
<1> USE DEF ShellInv
<1>1. ASSUME NEW i \in Slots, RefreshStep(i) PROVE ShellInv'
  <2>1. PutInOrder'
    BY <1>1, StepKeeps
  <2>2. UNCHANGED <<build, page, reloads>>
    BY <1>1 DEF RefreshStep, GotIndex, GotPortal, GotFiles, GotFaked, Put, Keys, Prune, Unanswered
  <2> QED
    BY <2>1, <2>2 DEF Tried, InOrder, ReloadsOnce
<1>2. CASE Ended
  BY <1>2, EndedKeeps DEF Ended, Tried, InOrder, ReloadsOnce
<1>3. CASE Open
  <2>1. PutInOrder'
    BY <1>3, LoadKeeps DEF Open
  <2> QED
    BY <1>3, <2>1, OpenTried DEF PutInOrder
<1>4. CASE Deploy
  <2>1. PutInOrder'
    BY <1>4, DeployKeeps
  <2> QED
    BY <1>4, <2>1 DEF Deploy, Tried, InOrder, ReloadsOnce, PageRec
<1>5. CASE Saw
  <2>1. PutInOrder'
    <3>1. CASE refresh' = refresh
      BY <1>5, <3>1, RestKeeps DEF Saw
    <3>2. CASE \E i \in Free : refresh' = Posted(i)
      BY <1>5, <3>2, PostKeeps DEF Saw
    <3> QED
      BY <1>5, <3>1, <3>2 DEF Saw, Apply
  <2> QED
    BY <1>5, <2>1, SawTried
<1>6. CASE Reload
  <2>1. PutInOrder'
    BY <1>6, LoadKeeps DEF Reload
  <2> QED
    BY <1>6, <2>1, ReloadTried DEF PutInOrder
<1>7. CASE Use \/ UNCHANGED shellVars
  <2>1. PutInOrder'
    BY <1>7, RestKeeps DEF Use, shellVars
  <2> QED
    BY <1>7, <2>1 DEF Use, shellVars, Tried, InOrder, ReloadsOnce
<1> QED
  BY <1>1, <1>2, <1>3, <1>4, <1>5, <1>6, <1>7 DEF ShellNext, RefreshStep

\* At the first visit nothing is kept.
LEMMA InitKeeps == ASSUME Builds \in Nat \ {0}, ShellInit PROVE ShellInv
<1> DEFINE x == Refresh("index", 0, {}, {})
<1>1. x \in JobRec /\ x.at = "index" /\ x.b = 0 /\ x.faked = {} /\ Portal # 0
  BY FilesOf, JobFields DEF Stage
<1>2. PutInOrder
  <2>1. build = 1 /\ index = 0 /\ kept = {} /\ sham = {} /\ \A i \in Slots : refresh[i] \in {x, NoRefresh}
    BY DEF ShellInit
  <2>2. JobsTyped
    BY <1>1, NoJob DEF ShellInit, JobsTyped
  <2>3. Alike /\ \A i \in Slots : Reached(refresh[i], index, kept) /\ Answered(refresh[i])
    BY <1>1, <2>1, NoJob DEF Alike, Active, Reached, Answered
  <2> QED
    BY <1>1, <2>1, <2>2, <2>3, FilesOf DEF PutInOrder, KeptTyped, Genuine, ShellComplete
<1>3. Tried
  <2>1. page \in PageRec /\ page.want = 0 /\ page.tried = 0 /\ page.waits = FALSE
    BY DEF ShellInit, Page, PageRec
  <2>2. build = 1 /\ reloads \in [1..Builds -> Nat] /\ \A b \in 1..Builds : reloads[b] = 0
    BY DEF ShellInit
  <2> QED
    BY <2>1, <2>2 DEF Tried, InOrder, ReloadsOnce
<1> QED
  BY <1>2, <1>3 DEF ShellInv

\* The inductive invariant.
THEOREM Invariance ==
  ASSUME "midway" \notin ShellEnv
  PROVE  ShellSpec => []ShellInv
<1>1. ShellInit => ShellInv
  BY InitKeeps, ShellAssumption
<1>2. ShellInv /\ [ShellNext]_shellVars => ShellInv'
  BY NextKeeps, ShellAssumption
<1> QED
  BY <1>1, <1>2, PTL DEF ShellSpec

\* Every file the kept index names is kept after every step, wherever the browser
\* ends the worker and whoever answers; and it is the server's own app where no
\* portal answers in its place (cacheShell, sw.js).
THEOREM KeptIsWhole ==
  ASSUME "midway" \notin ShellEnv
  PROVE  ShellSpec => []ShellComplete
<1>1. ShellInv => ShellComplete
  BY DEF ShellInv, PutInOrder
<1> QED
  BY <1>1, Invariance, PTL

\* A page reloads itself once for a build (apply, saw; App.jsx).
THEOREM TriedOnce ==
  ASSUME "midway" \notin ShellEnv
  PROVE  ShellSpec => []ReloadsOnce
<1>1. ShellInv => ReloadsOnce
  BY DEF ShellInv, Tried
<1> QED
  BY <1>1, Invariance, PTL

\* Both at once.
THEOREM AppKeptAlways ==
  ASSUME "midway" \notin ShellEnv
  PROVE  ShellSpec => []AppKept
<1>1. ShellInv => AppKept
  BY DEF ShellInv, PutInOrder, Tried, AppKept
<1> QED
  BY <1>1, Invariance, PTL
-----------------------------------------------------------------------------
(* Answers.                                                                *)

ReqRec == [at : {"none", "sent", "answered"}, of : People \cup {Nothing},
           had : Answer \cup {Nothing}, waits : BOOLEAN, ans : Answer \cup {Nothing}, given : BOOLEAN]
How == {"server", "stale", "offline", "lost"}

Typed ==
  /\ server \in [People -> 1..Values] /\ me \in People
  /\ copies \in [Caches -> Answer \cup {Nothing}] /\ req \in [Requests -> ReqRec]
  /\ view \in (Answer \cup {Nothing}) \X How /\ news \in BOOLEAN

\* An answer, if there is one, was made for a.
For(a, ans) == ans # Nothing => ans.of = a

Owned ==
  /\ \A a \in People : For(a, copies[a])
  /\ \A i \in Requests :
       /\ req[i].at = "none" <=> req[i].of = Nothing
       /\ For(req[i].of, req[i].had) /\ For(req[i].of, req[i].ans)
       /\ req[i].at = "answered" => req[i].ans # Nothing
  /\ For(me, view[1])

AnswersInv == Typed /\ Owned

-----------------------------------------------------------------------------
\* A request's fields as it is served.
LEMMA ServedFields ==
  ASSUME NEW x \in ReqRec, NEW a \in Answer
  PROVE  LET y == [x EXCEPT !.at = "answered", !.ans = a]
         IN /\ y \in ReqRec /\ y.at = "answered" /\ y.ans = a
            /\ y.of = x.of /\ y.had = x.had /\ y.given = x.given /\ y.waits = x.waits
  BY DEF ReqRec

\* The same as the page is given what it had.
LEMMA GivenFields ==
  ASSUME NEW x \in ReqRec
  PROVE  LET y == [x EXCEPT !.given = TRUE]
         IN /\ y \in ReqRec /\ y.at = x.at /\ y.ans = x.ans
            /\ y.of = x.of /\ y.had = x.had /\ y.given = TRUE /\ y.waits = x.waits
  BY DEF ReqRec

\* The same of a request that is over.
LEMMA BlankFields ==
  /\ Blank \in ReqRec /\ Blank.at = "none" /\ Blank.of = Nothing
  /\ Blank.had = Nothing /\ Blank.ans = Nothing
  BY DEF Blank, ReqRec

\* What asking, serving and giving do to a request.
LEMMA AskIs ==
  ASSUME Typed, NEW i \in Requests, Ask(i)
  PROVE  \E x \in ReqRec :
           /\ x.at = "sent" /\ x.of = me /\ x.had = copies[me] /\ x.ans = Nothing /\ x.given = FALSE
           /\ (~x.waits => x.had # Nothing)
           /\ req' = [req EXCEPT ![i] = x] /\ UNCHANGED <<server, me, copies, view>> /\ news' = FALSE
<1> DEFINE x == [at |-> "sent", of |-> me, had |-> copies[me], waits |-> copies[me] = Nothing \/ recent,
                 ans |-> Nothing, given |-> FALSE]
<1>1. x \in ReqRec
  BY DEF Typed, ReqRec, Caches
<1>2. req' = [req EXCEPT ![i] = x] /\ UNCHANGED <<server, me, copies, view>> /\ news' = FALSE
  BY DEF Ask, CacheOf
<1>3. ~x.waits => x.had # Nothing
  OBVIOUS
<1> QED
  BY <1>1, <1>2, <1>3

\* The same of serving.
LEMMA ServeIs ==
  ASSUME Typed, Owned, NEW i \in Requests, Serve(i)
  PROVE  \E x \in ReqRec :
           /\ x.at = "answered" /\ x.of = req[i].of /\ x.had = req[i].had /\ x.given = req[i].given
           /\ x.waits = req[i].waits
           /\ x.of \in People /\ x.ans \in Answer /\ x.ans.of = x.of /\ x.ans.v = server[x.of]
           /\ req' = [req EXCEPT ![i] = x] /\ UNCHANGED <<server, me, copies, view, news>>
<1> DEFINE a == [of |-> req[i].of, v |-> server[req[i].of]]
           x == [req[i] EXCEPT !.at = "answered", !.ans = a]
<1>1. req[i] \in ReqRec /\ req[i].of \in People
  BY DEF Serve, Typed, Owned, ReqRec
<1>2. a \in Answer /\ a.of = req[i].of /\ a.v = server[req[i].of]
  BY <1>1 DEF Typed, Answer
<1>3. /\ x \in ReqRec /\ x.at = "answered" /\ x.ans = a /\ x.of = req[i].of /\ x.had = req[i].had
      /\ x.given = req[i].given /\ x.waits = req[i].waits
  BY <1>1, <1>2, ServedFields
<1>4. req' = [req EXCEPT ![i] = x] /\ UNCHANGED <<server, me, copies, view, news>>
  BY DEF Serve
<1> HIDE DEF a, x
<1> QED
  BY <1>1, <1>2, <1>3, <1>4

\* The same of giving what was kept.
LEMMA LateIs ==
  ASSUME Typed, NEW i \in Requests, Late(i)
  PROVE  /\ \E x \in ReqRec :
              /\ x.at = req[i].at /\ x.of = req[i].of /\ x.had = req[i].had /\ x.ans = req[i].ans
              /\ x.given = TRUE /\ x.waits = req[i].waits
              /\ req' = [req EXCEPT ![i] = x] /\ UNCHANGED <<server, me, copies, news>>
         /\ view' = IF req[i].of = me THEN <<req[i].had, "stale">> ELSE view
<1> DEFINE x == [req[i] EXCEPT !.given = TRUE]
<1>1. req[i] \in ReqRec
  BY DEF Typed
<1>2. /\ x \in ReqRec /\ x.at = req[i].at /\ x.ans = req[i].ans /\ x.of = req[i].of
      /\ x.had = req[i].had /\ x.given = TRUE /\ x.waits = req[i].waits
  BY <1>1, GivenFields
<1>3. req' = [req EXCEPT ![i] = x] /\ UNCHANGED <<server, me, copies, news>>
  BY DEF Late
<1>4. view' = IF req[i].of = me THEN <<req[i].had, "stale">> ELSE view
  BY DEF Late, Given
<1> HIDE DEF x
<1> QED
  BY <1>2, <1>3, <1>4

\* Every step keeps the types and the accounts apart.
LEMMA NextOwned ==
  ASSUME Nothing \notin People, Nothing \notin Answer, Values \in Nat, AnswersInv, [AnswersNext]_answersVars
  PROVE  AnswersInv'
<1> USE DEF AnswersInv
<1>1. ASSUME NEW i \in Requests, Ask(i) PROVE AnswersInv'
  <2>1. PICK x \in ReqRec :
          /\ x.at = "sent" /\ x.of = me /\ x.had = copies[me] /\ x.ans = Nothing
          /\ req' = [req EXCEPT ![i] = x] /\ UNCHANGED <<server, me, copies, view>> /\ news' = FALSE
    BY <1>1, AskIs
  <2> QED
    BY <2>1 DEF Typed, Owned, For
<1>2. ASSUME NEW i \in Requests, Serve(i) PROVE AnswersInv'
  BY <1>2, ServeIs DEF Typed, Owned, For
<1>3. ASSUME NEW i \in Requests, Late(i) PROVE AnswersInv'
  <2>1. PICK x \in ReqRec :
          /\ x.at = req[i].at /\ x.of = req[i].of /\ x.had = req[i].had /\ x.ans = req[i].ans
          /\ req' = [req EXCEPT ![i] = x] /\ UNCHANGED <<server, me, copies, news>>
    BY <1>3, LateIs
  <2>2. view' = IF req[i].of = me THEN <<req[i].had, "stale">> ELSE view
    BY <1>3, LateIs
  <2>3. req[i].had \in Answer \cup {Nothing} /\ For(req[i].of, req[i].had)
    BY DEF Typed, Owned, ReqRec
  <2>4. view' \in (Answer \cup {Nothing}) \X How /\ For(me, view'[1])
    BY <2>2, <2>3 DEF Typed, Owned, How
  <2> QED
    BY <2>1, <2>4 DEF Typed, Owned, For
<1>4. ASSUME NEW i \in Requests, Arrive(i) PROVE AnswersInv'
  <2>1. req[i] \in ReqRec /\ req[i].of \in People /\ req[i].ans \in Answer /\ req[i].ans.of = req[i].of
    BY <1>4 DEF Arrive, Typed, Owned, For, ReqRec
  <2>3. /\ req' = [req EXCEPT ![i] = Blank] /\ copies' = [copies EXCEPT ![req[i].of] = req[i].ans]
        /\ UNCHANGED <<server, me>> /\ news' \in BOOLEAN
    BY <1>4 DEF Arrive, CacheOf, Typed
  <2>4. view' = view \/ (req[i].of = me /\ view' = <<req[i].ans, "server">>)
    BY <1>4 DEF Arrive, Given
  <2>5. view' \in (Answer \cup {Nothing}) \X How /\ For(me, view'[1])
    BY <2>1, <2>4 DEF Typed, Owned, For, How
  <2> QED
    BY <2>1, <2>3, <2>5, BlankFields DEF Typed, Owned, For, Caches
<1>5. ASSUME NEW i \in Requests, Down(i) PROVE AnswersInv'
  <2>1. req[i] \in ReqRec /\ view \in (Answer \cup {Nothing}) \X How
    BY DEF Typed
  <2>3. req' = [req EXCEPT ![i] = Blank] /\ UNCHANGED <<server, me, copies, news>>
    BY <1>5 DEF Down
  <2>4. \/ view' = view \/ view' = <<view[1], "lost">>
        \/ req[i].of = me /\ view' = <<req[i].had, "offline">>
    BY <1>5 DEF Down, Given
  <2>5. view' \in (Answer \cup {Nothing}) \X How /\ For(me, view'[1])
    BY <2>1, <2>4 DEF Owned, For, How, ReqRec
  <2> QED
    BY <2>1, <2>3, <2>5, BlankFields DEF Typed, Owned, For
<1>6. CASE ClearApi
  <2>1. copies' \in [Caches -> Answer \cup {Nothing}] /\ \A c \in Caches : copies'[c] = Nothing
    BY <1>6 DEF ClearApi
  <2>2. UNCHANGED <<server, me, req, view, news>>
    BY <1>6 DEF ClearApi
  <2> QED
    BY <2>1, <2>2 DEF Typed, Owned, For, Caches
<1>7. CASE Write \/ WriteElsewhere
  <2>1. /\ server' = [server EXCEPT ![me] = server[me] + 1] /\ server[me] < Values
        /\ UNCHANGED <<me, copies, req, view, news>>
    BY <1>7 DEF Write, WriteElsewhere
  <2>2. server[me] + 1 \in 1..Values
    BY <2>1 DEF Typed
  <2>3. server' \in [People -> 1..Values]
    BY <2>1, <2>2 DEF Typed
  <2> QED
    BY <2>1, <2>3 DEF Typed, Owned, For
<1>8. CASE Age \/ UNCHANGED answersVars
  BY <1>8 DEF Age, answersVars, Typed, Owned, For
<1>9. CASE SignIn
  <2>1. me' \in People /\ view' = <<Nothing, "server">> /\ news' = FALSE /\ UNCHANGED <<server, copies, req>>
    BY <1>9 DEF SignIn
  <2>2. view' \in (Answer \cup {Nothing}) \X How /\ view'[1] = Nothing
    BY <2>1 DEF How
  <2> QED
    BY <2>1, <2>2 DEF Typed, Owned, For
<1> QED
  BY <1>1, <1>2, <1>3, <1>4, <1>5, <1>6, <1>7, <1>8, <1>9 DEF AnswersNext

\* At first nothing is kept.
LEMMA InitOwned == ASSUME Nothing \notin People, Values \in Nat \ {0}, AnswersInit PROVE AnswersInv
<1>1. view = <<Nothing, "server">> /\ news = FALSE /\ me \in People
      /\ server = [a \in People |-> 1] /\ copies = [c \in Caches |-> Nothing]
      /\ req = [i \in Requests |-> Blank]
  BY DEF AnswersInit
<1>2. view \in (Answer \cup {Nothing}) \X How /\ view[1] = Nothing
  BY <1>1 DEF How
<1>3. Typed
  <2>1. 1 \in 1..Values
    OBVIOUS
  <2>2. server \in [People -> 1..Values] /\ copies \in [Caches -> Answer \cup {Nothing}]
    BY <1>1, <2>1
  <2>3. req \in [Requests -> ReqRec]
    BY <1>1, BlankFields
  <2> QED
    BY <1>1, <1>2, <2>2, <2>3 DEF Typed
<1>4. /\ \A a \in People : copies[a] = Nothing
      /\ \A i \in Requests : req[i] = Blank
  BY <1>1 DEF Caches
<1>5. Owned
  BY <1>2, <1>4, BlankFields DEF Owned, For
<1> QED
  BY <1>3, <1>5 DEF AnswersInv

\* Whoever is signed in is shown answers made for that account (apiCacheOf,
\* sw.js).
THEOREM OthersUnseen ==
  AnswersSpec => []OwnAnswers
<1>1. AnswersInit => AnswersInv
  BY InitOwned, AnswersAssumption
<1>2. AnswersInv /\ [AnswersNext]_answersVars => AnswersInv'
  BY NextOwned, AnswersAssumption DEF Answer
<1>3. AnswersInv => OwnAnswers
  BY DEF AnswersInv, Owned, For, OwnAnswers
<1> QED
  BY <1>1, <1>2, <1>3, PTL DEF AnswersSpec
-----------------------------------------------------------------------------
\* Nothing is newer than the server's answer, answers come one at a time, and
\* the one on its way is the newest.
Past(a, ans) == ans # Nothing => ans.v <= server[a]

Dated ==
  /\ \A a \in People : Past(a, copies[a])
  /\ \A i \in Requests : req[i].of # Nothing => Past(req[i].of, req[i].had) /\ Past(req[i].of, req[i].ans)

OneAnswered == \A i, j \in Requests : req[i].at = "answered" /\ req[j].at = "answered" => i = j

NotAfter(x, y) == x # Nothing => x.v <= y.v

Latest ==
  \A i \in Requests : req[i].at = "answered" =>
    /\ NotAfter(copies[req[i].of], req[i].ans)
    /\ \A j \in Requests : req[j].of = req[i].of => NotAfter(req[j].had, req[i].ans)

\* Only a page that asked with something kept is given it.
HadSome == \A i \in Requests : req[i].of # Nothing /\ (~req[i].waits \/ req[i].given) => req[i].had # Nothing

OwnAsked == {i \in Requests : req[i].of = me}

\* A kept copy on the page is about to be replaced, or its own request is still
\* to come, or nothing of the account is newer.
Told ==
  view[2] = "stale" /\ ~news =>
    \/ \E i \in OwnAsked : ~req[i].given
    \/ \E i \in OwnAsked : req[i].given /\ req[i].had = view[1]
    \/ /\ NotAfter(copies[me], view[1])
       /\ \A i \in OwnAsked : NotAfter(req[i].had, view[1])

StaleGiven == view[2] = "stale" => view[1] # Nothing

TInv == AnswersInv /\ Dated /\ OneAnswered /\ Latest /\ HadSome /\ StaleGiven /\ Told

\* Every step keeps what is told.
LEMMA NextTold ==
  ASSUME Nothing \notin People, Nothing \notin Answer, Values \in Nat, "overtake" \notin AnswersEnv, TInv, [AnswersNext]_answersVars
  PROVE  TInv'
<1>0. AnswersInv'
  BY NextOwned DEF TInv
<1> USE DEF TInv, AnswersInv
<1>1. ASSUME NEW i \in Requests, Ask(i) PROVE TInv'
  <2>1. PICK x \in ReqRec :
          /\ x.at = "sent" /\ x.of = me /\ x.had = copies[me] /\ x.ans = Nothing /\ x.given = FALSE
          /\ (~x.waits => x.had # Nothing)
          /\ req' = [req EXCEPT ![i] = x] /\ UNCHANGED <<server, me, copies, view>> /\ news' = FALSE
    BY <1>1, AskIs
  <2>2. me \in People /\ me # Nothing /\ \A j \in Requests : req'[j] = IF j = i THEN x ELSE req[j]
    BY <2>1 DEF Typed
  <2>3. Dated' /\ OneAnswered' /\ HadSome'
    BY <2>1, <2>2 DEF Dated, Past, OneAnswered, HadSome
  <2>4. Latest'
    BY <2>1, <2>2 DEF Latest, NotAfter
  <2>5. Told'
    <3>1. i \in OwnAsked' /\ ~(req'[i].given)
      BY <2>1, <2>2 DEF OwnAsked
    <3> QED
      BY <3>1 DEF Told
  <2> QED
    BY <1>0, <2>1, <2>3, <2>4, <2>5 DEF StaleGiven
<1>2. ASSUME NEW i \in Requests, Serve(i) PROVE TInv'
  <2>1. PICK x \in ReqRec :
           /\ x.at = "answered" /\ x.of = req[i].of /\ x.had = req[i].had /\ x.given = req[i].given
           /\ x.waits = req[i].waits
           /\ x.of \in People /\ x.ans \in Answer /\ x.ans.of = x.of /\ x.ans.v = server[x.of]
           /\ req' = [req EXCEPT ![i] = x] /\ UNCHANGED <<server, me, copies, view, news>>
    BY <1>2, ServeIs
  <2>2. \A j \in Requests : req'[j] = IF j = i THEN x ELSE req[j]
    BY <2>1 DEF Typed
  <2>6. \A j \in Requests : req[j].at # "answered"
    BY <1>2 DEF Serve
  <2>7. server[x.of] \in Nat
    BY <2>1 DEF Typed
  <2>3. Dated'
    BY <2>1, <2>2, <2>7 DEF Dated, Past
  <2>8. OneAnswered'
    BY <2>1, <2>2, <2>6 DEF OneAnswered
  <2>9. HadSome'
    BY <2>1, <2>2 DEF HadSome
  <2>4. Latest'
    BY <2>1, <2>2, <2>6 DEF Latest, NotAfter, Dated, Past
  <2>5. Told'
    <3>1. OwnAsked' = OwnAsked /\ \A j \in OwnAsked : req'[j].had = req[j].had /\ req'[j].given = req[j].given
      BY <2>1, <2>2 DEF OwnAsked
    <3> QED
      BY <2>1, <3>1 DEF Told
  <2> QED
    BY <1>0, <2>1, <2>3, <2>8, <2>9, <2>4, <2>5 DEF StaleGiven
<1>3. ASSUME NEW i \in Requests, Late(i) PROVE TInv'
  <2>1. PICK x \in ReqRec :
           /\ x.at = req[i].at /\ x.of = req[i].of /\ x.had = req[i].had /\ x.ans = req[i].ans
           /\ x.given = TRUE /\ x.waits = req[i].waits
           /\ req' = [req EXCEPT ![i] = x] /\ UNCHANGED <<server, me, copies, news>>
    BY <1>3, LateIs
  <2>2. /\ \A j \in Requests : req'[j] = IF j = i THEN x ELSE req[j]
        /\ ~req[i].waits /\ ~req[i].given /\ req[i].of # Nothing
    BY <1>3, <2>1 DEF Typed, Late, Owned
  <2>3. Dated' /\ OneAnswered' /\ HadSome'
    BY <2>1, <2>2 DEF Dated, Past, OneAnswered, HadSome
  <2>4. Latest'
    BY <2>1, <2>2 DEF Latest, NotAfter
  <2>5. Told'
    <3>1. CASE req[i].of = me
      <4>1. view' = <<req[i].had, "stale">> /\ req[i].had # Nothing
        BY <1>3, <2>2, <3>1, LateIs DEF HadSome
      <4>2. i \in OwnAsked' /\ req'[i].given /\ req'[i].had = view'[1]
        BY <2>1, <2>2, <3>1, <4>1 DEF OwnAsked
      <4> QED
        BY <4>1, <4>2 DEF Told
    <3>2. CASE req[i].of # me
      <4>1. view' = view
        BY <1>3, <3>2, LateIs
      <4>2. OwnAsked' = OwnAsked /\ \A j \in OwnAsked : req'[j] = req[j]
        BY <2>1, <2>2, <3>2 DEF OwnAsked
      <4> QED
        BY <2>1, <4>1, <4>2 DEF Told
    <3> QED
      BY <3>1, <3>2
  <2>6. StaleGiven'
    <3>1. req[i].had # Nothing
      BY <2>2 DEF HadSome
    <3>2. view' = view \/ view' = <<req[i].had, "stale">>
      BY <1>3, LateIs
    <3> QED
      BY <3>1, <3>2 DEF StaleGiven
  <2> QED
    BY <1>0, <2>3, <2>4, <2>5, <2>6
<1>4. ASSUME NEW i \in Requests, Arrive(i) PROVE TInv'
  <2>1. /\ req[i] \in ReqRec /\ req[i].of \in People /\ req[i].ans \in Answer /\ req[i].at = "answered"
        /\ req[i].of # Nothing
    BY <1>4 DEF Arrive, Typed, Owned, For, ReqRec
  <2>2. /\ req' = [req EXCEPT ![i] = Blank] /\ copies' = [copies EXCEPT ![req[i].of] = req[i].ans]
        /\ UNCHANGED <<server, me>>
        /\ news' = (news \/ req[i].had \notin {Nothing, req[i].ans})
        /\ view' = IF req[i].given \/ req[i].of # me THEN view ELSE <<req[i].ans, "server">>
    BY <1>4 DEF Arrive, CacheOf, Differs, Given
  <2>3. /\ \A j \in Requests : req'[j] = IF j = i THEN Blank ELSE req[j]
        /\ \A a \in People : copies'[a] = IF a = req[i].of THEN req[i].ans ELSE copies[a]
        /\ \A j \in Requests \ {i} : req[j].at # "answered"
    BY <2>1, <2>2 DEF Typed, Caches, OneAnswered
  <2>4. Dated' /\ OneAnswered' /\ HadSome' /\ Latest'
    BY <2>1, <2>2, <2>3, BlankFields DEF Dated, Past, OneAnswered, HadSome, Latest
  <2>5. Told'
    <3>1. CASE req[i].of # me
      <4>1. OwnAsked' = OwnAsked /\ view' = view /\ copies'[me] = copies[me] /\ \A j \in OwnAsked : req'[j] = req[j]
        BY <2>1, <2>2, <2>3, <3>1, BlankFields DEF OwnAsked, Typed
      <4> QED
        BY <2>2, <4>1 DEF Told
    <3>2. CASE req[i].of = me /\ ~req[i].given
      BY <2>2, <3>2 DEF Told
    <3>3. CASE req[i].of = me /\ req[i].given
      <4>1. view' = view /\ copies'[me] = req[i].ans /\ OwnAsked' = OwnAsked \ {i} /\ \A j \in OwnAsked' : req'[j] = req[j]
        BY <2>1, <2>2, <2>3, <3>3, BlankFields DEF OwnAsked, Typed
      <4>2. \A j \in OwnAsked' : NotAfter(req[j].had, req[i].ans)
        BY <2>1, <3>3, <4>1 DEF Latest, OwnAsked
      <4>3. req[i].had # Nothing
        BY <2>1, <3>3 DEF HadSome
      <4>4. req[i].ans.v \in Nat
        BY <2>1 DEF Answer
      <4>5. ASSUME view[2] = "stale", ~news', req[i].had = req[i].ans PROVE Told'
        <5>1. ~news
          BY <2>2, <4>5
        <5>2. CASE \E j \in OwnAsked : ~req[j].given
          <6>1. \E j \in OwnAsked' : ~(req'[j].given)
            BY <3>3, <4>1, <5>2
          <6> QED
            BY <6>1 DEF Told
        <5>3. CASE \E j \in OwnAsked : req[j].given /\ req[j].had = view[1]
          <6>1. CASE req[i].had = view[1]
            <7>1. NotAfter(copies'[me], view'[1])
              BY <4>1, <4>4, <4>5, <6>1 DEF NotAfter
            <7>2. \A j \in OwnAsked' : NotAfter(req'[j].had, view'[1])
              BY <4>1, <4>2, <4>5, <6>1
            <7> QED
              BY <2>2, <7>1, <7>2 DEF Told
          <6>2. CASE req[i].had # view[1]
            <7>1. \E j \in OwnAsked' : req'[j].given /\ req'[j].had = view'[1]
              BY <4>1, <5>3, <6>2
            <7> QED
              BY <7>1 DEF Told
          <6> QED
            BY <6>1, <6>2
        <5>4. CASE NotAfter(copies[me], view[1]) /\ \A j \in OwnAsked : NotAfter(req[j].had, view[1])
          <6>1. i \in OwnAsked
            BY <3>3 DEF OwnAsked
          <6>2. NotAfter(copies'[me], view'[1])
            BY <4>1, <4>5, <5>4, <6>1
          <6>3. \A j \in OwnAsked' : NotAfter(req'[j].had, view'[1])
            BY <4>1, <5>4
          <6> QED
            BY <2>2, <6>2, <6>3 DEF Told
        <5> QED
          BY <4>5, <5>1, <5>2, <5>3, <5>4 DEF Told
      <4>6. view[2] = "stale" /\ ~news' => req[i].had = req[i].ans
        BY <2>2, <4>3
      <4>7. ~(view[2] = "stale" /\ ~news') => Told'
        BY <4>1 DEF Told
      <4> QED
        BY <4>5, <4>6, <4>7
    <3> QED
      BY <3>1, <3>2, <3>3
  <2>6. StaleGiven'
    BY <2>2 DEF StaleGiven
  <2> QED
    BY <1>0, <2>4, <2>5, <2>6
<1>5. ASSUME NEW i \in Requests, Down(i) PROVE TInv'
  <2>1. req' = [req EXCEPT ![i] = Blank] /\ UNCHANGED <<server, me, copies, news>> /\ req[i].of # Nothing
    BY <1>5 DEF Down, Owned
  <2>2. /\ \A j \in Requests : req'[j] = IF j = i THEN Blank ELSE req[j]
        /\ me # Nothing
    BY <2>1 DEF Typed
  <2>3. Dated' /\ OneAnswered' /\ HadSome'
    BY <2>1, <2>2, BlankFields DEF Dated, Past, OneAnswered, HadSome
  <2>5. Latest'
    <3> SUFFICES ASSUME NEW j \in Requests, req'[j].at = "answered"
                 PROVE  /\ NotAfter(copies'[req'[j].of], req'[j].ans)
                        /\ \A k \in Requests : req'[k].of = req'[j].of => NotAfter(req'[k].had, req'[j].ans)
      BY DEF Latest
    <3>1. j # i /\ req'[j] = req[j]
      BY <2>2, BlankFields
    <3> QED
      BY <2>1, <2>2, <3>1, BlankFields DEF Latest, NotAfter
  <2>6. StaleGiven'
    BY <1>5 DEF Down, Given, StaleGiven
  <2>4. Told'
    <3>1. CASE req[i].of = me
      <4>1. view'[2] \in {"lost", "offline"}
        BY <1>5, <3>1 DEF Down, Given
      <4> QED
        BY <4>1 DEF Told
    <3>2. CASE req[i].of # me
      <4>1. view' = view
        BY <1>5, <3>2 DEF Down, Given
      <4>2. OwnAsked' = OwnAsked /\ \A j \in OwnAsked : req'[j] = req[j]
        BY <2>1, <2>2, <3>2, BlankFields DEF OwnAsked
      <4> QED
        BY <2>1, <4>1, <4>2 DEF Told
    <3> QED
      BY <3>1, <3>2
  <2> QED
    BY <1>0, <2>3, <2>4, <2>5, <2>6
<1>6. CASE ClearApi
  <2>1. UNCHANGED <<server, me, req, view, news>> /\ \A a \in People : copies'[a] = Nothing
    BY <1>6 DEF ClearApi, Caches
  <2>2. me \in People /\ OwnAsked' = OwnAsked
    BY <2>1 DEF Typed, OwnAsked
  <2>3. Dated' /\ OneAnswered' /\ HadSome' /\ StaleGiven'
    BY <2>1 DEF Dated, Past, OneAnswered, HadSome, StaleGiven
  <2>4. \A a \in People : NotAfter(copies'[a], view'[1]) /\ \A j \in Requests : NotAfter(copies'[a], req'[j].ans)
    BY <2>1 DEF NotAfter
  <2>5. Latest'
    BY <2>1, <2>4 DEF Latest, Owned, Typed, ReqRec
  <2>6. Told'
    BY <2>1, <2>2, <2>4 DEF Told
  <2> QED
    BY <1>0, <2>3, <2>5, <2>6
<1>7. CASE Write \/ WriteElsewhere
  <2>1. /\ server' = [server EXCEPT ![me] = server[me] + 1] /\ UNCHANGED <<me, copies, req, view, news>>
    BY <1>7 DEF Write, WriteElsewhere
  <2>2. \A a \in People : server[a] \in Nat /\ server'[a] \in Nat /\ server'[a] >= server[a]
    BY <2>1 DEF Typed
  <2>3. /\ \A a \in People : copies[a] # Nothing => copies[a].v \in Nat
        /\ \A j \in Requests : /\ req[j].had # Nothing => req[j].had.v \in Nat
                               /\ req[j].ans # Nothing => req[j].ans.v \in Nat
                               /\ req[j].of \in People \cup {Nothing}
    BY DEF Typed, Answer, ReqRec, Caches
  <2>4. Dated'
    BY <2>1, <2>2, <2>3 DEF Dated, Past
  <2> QED
    BY <1>0, <2>1, <2>4 DEF OneAnswered, Latest, HadSome, StaleGiven, Told, OwnAsked
<1>8. CASE Age \/ UNCHANGED answersVars
  BY <1>0, <1>8 DEF Age, answersVars, Dated, Past, OneAnswered, Latest, HadSome, StaleGiven, Told, OwnAsked
<1>9. CASE SignIn
  <2>1. UNCHANGED <<server, copies, req>> /\ view'[2] = "server"
    BY <1>9 DEF SignIn
  <2> QED
    BY <1>0, <2>1 DEF Dated, Past, OneAnswered, Latest, HadSome, StaleGiven, Told
<1> QED
  BY <1>1, <1>2, <1>3, <1>4, <1>5, <1>6, <1>7, <1>8, <1>9 DEF AnswersNext

\* At first nothing is given.
LEMMA InitTold == ASSUME Nothing \notin People, Values \in Nat \ {0}, AnswersInit PROVE TInv
<1>1. AnswersInv
  BY InitOwned
<1>2. view[2] = "server" /\ (\A a \in People : copies[a] = Nothing) /\ \A i \in Requests : req[i] = Blank
  BY DEF AnswersInit, Caches
<1> QED
  BY <1>1, <1>2, BlankFields DEF TInv, Dated, Past, OneAnswered, Latest, HadSome, StaleGiven, Told

\* A page left with a kept copy because the server was late is told of what is
\* newer, as long as answers come in their order (refreshApi, sw.js).
THEOREM NewsReachesThePage ==
  ASSUME "overtake" \notin AnswersEnv
  PROVE  AnswersSpec => []BehindNothing
<1>1. AnswersInit => TInv
  BY InitTold, AnswersAssumption
<1>2. TInv /\ [AnswersNext]_answersVars => TInv'
  BY NextTold, AnswersAssumption DEF Answer
<1>3. TInv => BehindNothing
  <2> SUFFICES ASSUME TInv, ~news, \A i \in Requests : req[i].of # me, view[2] = "stale", copies[me] # Nothing
               PROVE  view[1].v >= copies[me].v
    BY DEF BehindNothing, CacheOf
  <2>1. view[1] # Nothing /\ NotAfter(copies[me], view[1])
    BY DEF TInv, StaleGiven, Told, OwnAsked
  <2>2. view[1] \in Answer /\ copies[me] \in Answer
    BY <2>1, AnswersAssumption DEF TInv, AnswersInv, Typed, Caches
  <2> QED
    BY <2>1, <2>2 DEF NotAfter, Answer
<1> QED
  BY <1>1, <1>2, <1>3, PTL DEF AnswersSpec

-----------------------------------------------------------------------------
(* Offline. A file is deleted only once the account it was removed from does not
   know the song any more and no other account has it (Doomed); and a worker
   about to note a file notes one that is here, unless the song is gone from
   the library (Noting).                                                    *)

\* A library has finitely many collections, and a removal is done before what
\* follows it.
InTurn == IsFiniteSet(Cols) /\ "race" \notin OfflineEnv

Lib == [cols : [Cols -> SUBSET Songs], tracks : [Songs -> Saved \cup {Unset}]]

\* What is left to download has a quality to download it at.
Lined(j) == \A s \in j.ids : j.urls[s] # Unset

JobsLined ==
  /\ \A i \in DOMAIN jobs : Lined(jobs[i])
  /\ job # Unset => Lined(job)

WorkersLined ==
  \A w \in 1 .. 2 : worker[w].at \in {"fetch", "mark"}
    => worker[w].song \in Songs /\ worker[w].q \in Quals

Noting ==
  \A w \in 1 .. 2 : worker[w].at = "mark"
    => cache[worker[w].song] # Unset \/ lib[user].tracks[worker[w].song] = Unset

Doomed ==
  \A c \in Cols : removing[c] # Unset =>
    \A s \in removing[c].keys :
      /\ lib[user].tracks[s] = Unset
      /\ removing[c].at = "delete" => \A a \in Accounts : s \notin Present(a)

IInv == OfflineTypeOK /\ JobsLined /\ WorkersLined /\ Noting /\ Doomed /\ ListedIsHere

-----------------------------------------------------------------------------
(* The libraries: what a step does to the account signed in.                *)

PutLib(l) == lib' = [lib EXCEPT ![user] = l]

\* Only the account signed in changes, and what it says it is given.
LEMMA PutIs ==
  ASSUME OfflineTypeOK, NEW l \in Lib, PutLib(l)
  PROVE  /\ lib' \in [Accounts -> Lib]
         /\ lib'[user] = l
         /\ \A a \in Accounts : a # user => lib'[a] = lib[a]
BY DEF OfflineTypeOK, PutLib, Lib

\* A library whose songs are forgotten or lose their file lists nothing new.
LEMMA ListsNothingNew ==
  ASSUME IInv, NEW l \in Lib, PutLib(l), UNCHANGED cache,
         \A s \in Songs : l.tracks[s] = lib[user].tracks[s] \/ l.tracks[s] = Unset
                            \/ ~l.tracks[s].file
  PROVE  ListedIsHere' /\ \A a \in Accounts : Present(a)' \subseteq Present(a)
<1>1. /\ lib'[user] = l /\ user \in Accounts
      /\ \A a \in Accounts : a # user => lib'[a] = lib[a]
  BY PutIs DEF IInv, OfflineTypeOK
<1>2. ASSUME NEW a \in Accounts, NEW s \in Songs, lib'[a].tracks[s] # Unset, lib'[a].tracks[s].file
      PROVE  lib[a].tracks[s] # Unset /\ lib[a].tracks[s].file
  <2>1. CASE a # user
    BY <1>1, <1>2, <2>1
  <2>2. CASE a = user
    <3>1. l.tracks[s] # Unset /\ l.tracks[s].file
      BY <1>1, <1>2, <2>2
    <3>2. l.tracks[s] = lib[user].tracks[s]
      BY <3>1
    <3> QED BY <2>2, <3>1, <3>2
  <2> QED BY <2>1, <2>2
<1>3. \A a \in Accounts : Present(a)' \subseteq Present(a)
  BY <1>2 DEF Present
<1> QED BY <1>3 DEF IInv, ListedIsHere

-----------------------------------------------------------------------------
(* The line of jobs.                                                        *)

LEMMA LineKeeps ==
  ASSUME OfflineTypeOK, JobsLined, WorkersLined,
         NEW js \in Seq(Job), \A i \in DOMAIN js : Lined(js[i]), Line(js)
  PROVE  /\ jobs' \in Seq(Job) /\ job' \in Job \cup {Unset}
         /\ worker' = worker \/ worker' = [w \in 1 .. 2 |-> Idle]
         /\ JobsLined'
<1>1. CASE job = Unset /\ js # <<>>
  <2>1. job' = Head(js) /\ jobs' = Tail(js) /\ worker' = [w \in 1 .. 2 |-> Idle]
    BY <1>1 DEF Line
  <2>2. /\ Head(js) = js[1] /\ 1 \in DOMAIN js
        /\ Head(js) \in Job /\ Tail(js) \in Seq(Job)
    BY <1>1
  <2>3. \A i \in DOMAIN Tail(js) : i + 1 \in DOMAIN js /\ Tail(js)[i] = js[i + 1]
    BY <1>1
  <2>4. Lined(Head(js)) /\ \A i \in DOMAIN Tail(js) : Lined(Tail(js)[i])
    BY <2>2, <2>3
  <2> QED BY <2>1, <2>2, <2>4 DEF JobsLined, Lined
<1>2. CASE ~(job = Unset /\ js # <<>>)
  <2>1. jobs' = js /\ UNCHANGED <<job, worker>>
    BY <1>2 DEF Line
  <2> QED BY <2>1 DEF OfflineTypeOK, JobsLined, Lined
<1> QED BY <1>1, <1>2

\* Nothing is being removed or noted: what a line-up starts leaves it so.
LEMMA Fresh ==
  ASSUME IInv, InTurn, Unhurried, UNCHANGED removing,
         worker' = worker \/ worker' = [w \in 1 .. 2 |-> Idle]
  PROVE  /\ Noting' /\ Doomed' /\ WorkersLined'
         /\ worker' \in [1 .. 2 -> [at : {"idle", "over", "fetch", "mark"},
                                    song : Songs \cup {Unset}, q : Quals \cup {Unset}]]
<1>1. /\ \A c \in Cols : removing'[c] = Unset
      /\ \A w \in 1 .. 2 : worker[w].at # "mark"
  BY DEF InTurn, Unhurried
<1>2. CASE worker' = worker
  BY <1>1, <1>2 DEF IInv, OfflineTypeOK, WorkersLined, Noting, Doomed
<1>3. CASE worker' = [w \in 1 .. 2 |-> Idle]
  BY <1>1, <1>3 DEF WorkersLined, Noting, Doomed, Idle
<1> QED BY <1>2, <1>3

LEMMA SaveKeeps ==
  ASSUME IInv, InTurn, NEW c \in Cols, NEW S \in Lists[c], NEW q \in Quals, Save(c, S, q)
  PROVE  IInv'
<1> DEFINE l   == Upsert(c, S, q)
           new == [col |-> c, ids |-> {s \in S : ~lib'[user].tracks[s].file},
                   urls |-> [s \in Songs |-> IF s \in S THEN q ELSE Unset]]
           had == {i \in DOMAIN jobs : jobs[i].col = c}
           js  == IF had = {} THEN Append(jobs, new)
                  ELSE [i \in DOMAIN jobs |-> IF i \in had THEN new ELSE jobs[i]]
<1>1. /\ Unhurried /\ ops' \in 0 .. MaxOps /\ PutLib(l) /\ Line(js)
      /\ UNCHANGED <<user, cache, removing>>
  <2>1. Unhurried /\ PutLib(l) /\ UNCHANGED <<user, cache, removing>> /\ Asked
    BY DEF Save, PutLib
  <2>2. ops' \in 0 .. MaxOps
    BY <2>1, OfflineAssumption DEF Asked, IInv, OfflineTypeOK
  <2>3. Line(js)
    BY DEF Save
  <2> QED BY <2>1, <2>2, <2>3
<1>2. S \subseteq Songs
  BY OfflineAssumption DEF Cols
<1>3. lib[user] \in Lib
  BY DEF IInv, OfflineTypeOK, Lib
<1>4. l \in Lib /\ \A s \in Songs : l.tracks[s] = lib[user].tracks[s] \/ ~l.tracks[s].file
  BY <1>2, <1>3 DEF Upsert, Mine, Lib, Saved
<1>5. new \in Job /\ Lined(new)
  BY <1>2, OfflineAssumption DEF Job, Lined, Cols
<1> HIDE DEF l, new
<1>6. js \in Seq(Job) /\ \A i \in DOMAIN js : Lined(js[i])
  <2>1. jobs \in Seq(Job) /\ \A i \in DOMAIN jobs : Lined(jobs[i])
    BY DEF IInv, OfflineTypeOK, JobsLined
  <2>2. CASE had = {}
    BY <1>5, <2>1, <2>2
  <2>3. CASE had # {}
    BY <1>5, <2>1, <2>3
  <2> QED BY <2>2, <2>3
<1> HIDE DEF js
<1>7. /\ jobs' \in Seq(Job) /\ job' \in Job \cup {Unset} /\ JobsLined'
      /\ worker' = worker \/ worker' = [w \in 1 .. 2 |-> Idle]
  BY <1>1, <1>6, LineKeeps DEF IInv
<1>8. /\ Noting' /\ Doomed' /\ WorkersLined'
      /\ worker' \in [1 .. 2 -> [at : {"idle", "over", "fetch", "mark"},
                                 song : Songs \cup {Unset}, q : Quals \cup {Unset}]]
  BY <1>1, <1>7, Fresh
<1>9. ListedIsHere' /\ lib' \in [Accounts -> Lib]
  BY <1>1, <1>4, PutIs, ListsNothingNew DEF IInv
<1> QED BY <1>1, <1>7, <1>8, <1>9 DEF IInv, OfflineTypeOK, Lib

LEMMA ResumeKeeps ==
  ASSUME IInv, InTurn, Resume
  PROVE  IInv'
<1> DEFINE short == {c \in Cols : /\ Lacks(c) # {} /\ (job = Unset \/ job.col # c)
                                  /\ \A i \in DOMAIN jobs : jobs[i].col # c}
           Again(c) == [col |-> c, ids |-> Lacks(c),
                        urls |-> [s \in Songs |-> IF s \in Lacks(c) THEN Mine.tracks[s].q
                                                  ELSE Unset]]
<1>1. PICK order \in SetToSeqs(short) : Line(jobs \o [i \in DOMAIN order |-> Again(order[i])])
  BY DEF Resume
<1>2. Unhurried /\ UNCHANGED <<user, lib, cache, removing, ops>>
  BY DEF Resume
<1>3. ASSUME NEW c \in Cols PROVE Again(c) \in Job /\ Lined(Again(c))
  <2>1. lib[user] \in Lib
    BY DEF IInv, OfflineTypeOK, Lib
  <2>2. Lacks(c) \subseteq Songs /\ \A s \in Lacks(c) : Mine.tracks[s].q \in Quals
    BY <2>1 DEF Lacks, Mine, Lib, Saved
  <2> HIDE DEF Lacks, Mine
  <2>3. Again(c) \in Job
    BY <2>2 DEF Job
  <2>4. Lined(Again(c))
    BY <2>2, OfflineAssumption DEF Lined
  <2> QED BY <2>3, <2>4
<1> DEFINE more == [i \in DOMAIN order |-> Again(order[i])]
<1>4. more \in Seq(Job) /\ \A i \in DOMAIN more : Lined(more[i])
  <2>1. IsFiniteSet(short)
    BY FS_Subset DEF InTurn
  <2>2. Cardinality(short) \in Nat
    BY <2>1, FS_CardinalityType
  <2>3. order \in [1 .. Cardinality(short) -> short]
    BY <1>1 DEF SetToSeqs
  <2> HIDE DEF Again
  <2>4. \A i \in DOMAIN order : order[i] \in Cols
    BY <2>3
  <2> HIDE DEF short
  <2> QED BY <1>3, <2>2, <2>3, <2>4
<1> DEFINE js == jobs \o more
<1>5. js \in Seq(Job) /\ \A i \in DOMAIN js : Lined(js[i])
  <2> HIDE DEF more
  <2>1. jobs \in Seq(Job) /\ \A i \in DOMAIN jobs : Lined(jobs[i])
    BY DEF IInv, OfflineTypeOK, JobsLined
  <2>2. js \in Seq(Job)
    BY <1>4, <2>1
  <2>3. ASSUME NEW i \in DOMAIN js PROVE Lined(js[i])
    <3>1. CASE i <= Len(jobs)
      <4>1. js[i] = jobs[i] /\ i \in DOMAIN jobs
        BY <1>4, <2>1, <3>1
      <4> QED BY <2>1, <4>1
    <3>2. CASE i > Len(jobs)
      <4>1. js[i] = more[i - Len(jobs)] /\ i - Len(jobs) \in DOMAIN more
        BY <1>4, <2>1, <3>2
      <4> QED BY <1>4, <4>1
    <3> QED BY <2>1, <3>1, <3>2
  <2> QED BY <2>2, <2>3
<1>6. Line(js)
  BY <1>1
<1> HIDE DEF js
<1>7. /\ jobs' \in Seq(Job) /\ job' \in Job \cup {Unset} /\ JobsLined'
      /\ worker' = worker \/ worker' = [w \in 1 .. 2 |-> Idle]
  BY <1>5, <1>6, LineKeeps DEF IInv
<1>8. /\ Noting' /\ Doomed' /\ WorkersLined'
      /\ worker' \in [1 .. 2 -> [at : {"idle", "over", "fetch", "mark"},
                                 song : Songs \cup {Unset}, q : Quals \cup {Unset}]]
  BY <1>2, <1>7, Fresh
<1>9. ListedIsHere'
  BY <1>2 DEF IInv, ListedIsHere, Present
<1> QED BY <1>2, <1>7, <1>8, <1>9 DEF IInv, OfflineTypeOK

-----------------------------------------------------------------------------
(* The workers.                                                             *)

WorkerType == [at : {"idle", "over", "fetch", "mark"}, song : Songs \cup {Unset}, q : Quals \cup {Unset}]

LEMMA TakeKeeps ==
  ASSUME IInv, InTurn, NEW w \in 1 .. 2, NEW s \in Songs, Take(w, s)
  PROVE  IInv'
<1> DEFINE to == IF Mine.cols[job.col] = {} THEN Over
                 ELSE IF s \in Present(user) THEN Idle
                 ELSE [at |-> "fetch", song |-> s, q |-> job.urls[s]]
<1>1. /\ job # Unset /\ s \in job.ids /\ worker[w].at = "idle"
      /\ job' = [job EXCEPT !.ids = @ \ {s}]
      /\ worker' = [worker EXCEPT ![w] = to]
      /\ UNCHANGED <<user, lib, cache, jobs, removing, ops>>
  BY DEF Take, Set
<1>2. job \in Job /\ Lined(job)
  BY <1>1 DEF IInv, OfflineTypeOK, JobsLined
<1>3. job' \in Job /\ Lined(job')
  BY <1>1, <1>2 DEF Job, Lined
<1>4. job.urls[s] \in Quals
  BY <1>1, <1>2 DEF Job, Lined
<1>5. /\ to \in WorkerType /\ to.at # "mark"
      /\ to.at = "fetch" => to.song = s /\ to.q \in Quals
  BY <1>4 DEF WorkerType, Over, Idle
<1> HIDE DEF to
<1>6. \A v \in 1 .. 2 : worker'[v] = IF v = w THEN to ELSE worker[v]
  BY <1>1 DEF IInv, OfflineTypeOK
<1>7. OfflineTypeOK'
  BY <1>1, <1>3, <1>5 DEF IInv, OfflineTypeOK, WorkerType
<1>8. JobsLined'
  BY <1>1, <1>3 DEF IInv, JobsLined, Lined
<1>9. WorkersLined' /\ Noting'
  BY <1>1, <1>5, <1>6 DEF IInv, WorkersLined, Noting
<1>10. Doomed' /\ ListedIsHere'
  BY <1>1 DEF IInv, Doomed, ListedIsHere, Present
<1> QED BY <1>7, <1>8, <1>9, <1>10 DEF IInv

LEMMA FetchedKeeps ==
  ASSUME IInv, InTurn, NEW w \in 1 .. 2, Fetched(w)
  PROVE  IInv'
<1> DEFINE s == worker[w].song
<1>1. /\ worker[w].at = "fetch" /\ s \in Songs /\ worker[w].q \in Quals
      /\ UNCHANGED <<user, lib, jobs, job, removing, ops>>
  BY DEF Fetched, IInv, WorkersLined
<1>2. PICK to \in {Idle, [worker[w] EXCEPT !.at = "mark"]} :
        /\ worker' = [worker EXCEPT ![w] = to]
        /\ \/ cache' = [cache EXCEPT ![s] = worker[w].q]
           \/ to = Idle /\ UNCHANGED cache
  BY DEF Fetched, Set
<1>3. /\ cache' \in [Songs -> Quals \cup {Unset}]
      /\ \A r \in Songs : cache[r] # Unset => cache'[r] # Unset
      /\ to.at = "mark" => cache'[s] # Unset
  <2>1. worker[w].q # Unset /\ cache \in [Songs -> Quals \cup {Unset}] /\ Idle.at # "mark"
    BY <1>1, OfflineAssumption DEF IInv, OfflineTypeOK, Idle
  <2> DEFINE q == worker[w].q
  <2>2. q \in Quals /\ q # Unset /\ s \in Songs
    BY <1>1, <2>1
  <2> HIDE DEF q, s
  <2>3. cache' = [cache EXCEPT ![s] = q] \/ (cache' = cache /\ to = Idle)
    BY <1>2 DEF q, s
  <2> QED BY <2>1, <2>2, <2>3
<1>4. worker[w] \in WorkerType
  BY DEF IInv, OfflineTypeOK, WorkerType
<1>5. /\ to \in WorkerType
      /\ to.at \in {"idle", "mark"}
      /\ to.at = "mark" => to.song = s /\ to.q = worker[w].q
  BY <1>2, <1>4 DEF Idle, WorkerType
<1>6. \A v \in 1 .. 2 : worker'[v] = IF v = w THEN to ELSE worker[v]
  BY <1>2 DEF IInv, OfflineTypeOK
<1> HIDE DEF s
<1>7. OfflineTypeOK'
  BY <1>1, <1>2, <1>3, <1>5 DEF IInv, OfflineTypeOK, WorkerType
<1>8. WorkersLined'
  BY <1>1, <1>5, <1>6 DEF IInv, WorkersLined
<1>9. Noting'
  BY <1>1, <1>3, <1>5, <1>6 DEF IInv, Noting, WorkersLined
<1>10. JobsLined' /\ Doomed'
  BY <1>1 DEF IInv, JobsLined, Lined, Doomed, Present
<1>11. ListedIsHere'
  BY <1>1, <1>3 DEF IInv, ListedIsHere, Present
<1> QED BY <1>7, <1>8, <1>9, <1>10, <1>11 DEF IInv

\* What the worker notes is here, or the song is gone from the library.
LEMMA MarkKeeps ==
  ASSUME IInv, InTurn, NEW w \in 1 .. 2, Mark(w)
  PROVE  IInv'
<1> DEFINE s == worker[w].song
           t == lib[user].tracks[s]
           u == IF t = Unset THEN Unset ELSE [t EXCEPT !.file = TRUE]
<1>1. /\ worker[w].at = "mark" /\ s \in Songs
      /\ worker' = [worker EXCEPT ![w] = Idle]
      /\ lib' = [lib EXCEPT ![user].tracks[s] = u]
      /\ UNCHANGED <<user, cache, jobs, job, removing, ops>>
  BY DEF Mark, Set, IInv, WorkersLined
<1>2. lib[user] \in Lib /\ t \in Saved \cup {Unset} /\ user \in Accounts
  BY <1>1 DEF IInv, OfflineTypeOK, Lib
<1>3. u \in Saved \cup {Unset} /\ (t = Unset => u = Unset)
  BY <1>2 DEF Saved
<1>4. cache[s] # Unset \/ t = Unset
  BY <1>1 DEF IInv, Noting
<1> HIDE DEF s, t, u
<1>5. /\ lib' \in [Accounts -> Lib]
      /\ \A a \in Accounts : a # user => lib'[a] = lib[a]
      /\ lib'[user].tracks[s] = u
      /\ \A r \in Songs : r # s => lib'[user].tracks[r] = lib[user].tracks[r]
  <2>1. lib \in [Accounts -> Lib]
    BY DEF IInv, OfflineTypeOK, Lib
  <2> DEFINE m == [lib[user] EXCEPT !.tracks = [lib[user].tracks EXCEPT ![s] = u]]
  <2>2. /\ m \in Lib /\ m.tracks[s] = u
        /\ \A r \in Songs : r # s => m.tracks[r] = lib[user].tracks[r]
    BY <1>1, <1>2, <1>3 DEF Lib
  <2>3. lib' = [lib EXCEPT ![user] = m]
    BY <1>1
  <2> HIDE DEF m
  <2> QED BY <1>2, <2>1, <2>2, <2>3
<1>6. ASSUME NEW a \in Accounts, NEW r \in Present(a)'
      PROVE  r \in Present(a) \/ (a = user /\ r = s /\ cache[s] # Unset)
  <2>1. r \in Songs /\ lib'[a].tracks[r] # Unset /\ lib'[a].tracks[r].file
    BY DEF Present
  <2>2. CASE a = user /\ r = s
    <3>1. t # Unset
      BY <1>3, <1>5, <2>1, <2>2
    <3> QED BY <1>4, <2>2, <3>1
  <2>3. CASE ~(a = user /\ r = s)
    <3>1. lib'[a].tracks[r] = lib[a].tracks[r]
      BY <1>5, <2>1, <2>3
    <3> QED BY <2>1, <3>1 DEF Present
  <2> QED BY <2>2, <2>3
<1>7. \A r \in Songs : lib[user].tracks[r] = Unset => lib'[user].tracks[r] = Unset
  BY <1>3, <1>5 DEF t
<1>8. \A v \in 1 .. 2 : worker'[v] = IF v = w THEN Idle ELSE worker[v]
  BY <1>1 DEF IInv, OfflineTypeOK
<1>9. OfflineTypeOK'
  BY <1>1, <1>5 DEF IInv, OfflineTypeOK, Idle, Lib
<1>10. WorkersLined' /\ JobsLined'
  BY <1>1, <1>8 DEF IInv, WorkersLined, Idle, JobsLined, Lined
<1>11. Noting'
  BY <1>1, <1>7, <1>8 DEF IInv, Noting, WorkersLined, Idle
<1>12. ListedIsHere'
  BY <1>1, <1>6 DEF IInv, ListedIsHere
<1>13. Doomed'
  <2> SUFFICES ASSUME NEW c \in Cols, removing[c] # Unset, NEW r \in removing[c].keys
               PROVE  /\ lib'[user].tracks[r] = Unset
                      /\ removing[c].at = "delete" => \A a \in Accounts : r \notin Present(a)'
    BY <1>1 DEF Doomed
  <2>1. r \in Songs /\ lib[user].tracks[r] = Unset
    BY DEF IInv, OfflineTypeOK, Doomed
  <2>2. lib'[user].tracks[r] = Unset
    BY <1>7, <2>1
  <2>3. ASSUME removing[c].at = "delete", NEW a \in Accounts, r \in Present(a)' PROVE FALSE
    <3>1. r \notin Present(a)
      BY <2>3 DEF IInv, Doomed
    <3>2. a = user
      BY <1>6, <2>3, <3>1
    <3> QED BY <2>2, <2>3, <3>2 DEF Present
  <2> QED BY <1>1, <2>2, <2>3
<1> QED BY <1>9, <1>10, <1>11, <1>12, <1>13 DEF IInv

LEMMA JobOverKeeps ==
  ASSUME IInv, InTurn, JobOver
  PROVE  IInv'
<1>1. /\ worker' = [w \in 1 .. 2 |-> Idle]
      /\ \/ job' = Unset /\ jobs' = jobs
         \/ jobs # <<>> /\ job' = Head(jobs) /\ jobs' = Tail(jobs)
      /\ UNCHANGED <<user, lib, cache, removing, ops>>
  BY DEF JobOver
<1>2. jobs' \in Seq(Job) /\ job' \in Job \cup {Unset} /\ JobsLined'
  <2>1. CASE job' = Unset /\ jobs' = jobs
    BY <2>1 DEF IInv, OfflineTypeOK, JobsLined, Lined
  <2>2. CASE jobs # <<>> /\ job' = Head(jobs) /\ jobs' = Tail(jobs)
    <3> DEFINE js == jobs
    <3>1. js \in Seq(Job) /\ js # <<>> /\ \A i \in DOMAIN js : Lined(js[i])
      BY <2>2 DEF IInv, OfflineTypeOK, JobsLined
    <3> HIDE DEF js
    <3>2. /\ Head(js) = js[1] /\ 1 \in DOMAIN js
          /\ Head(js) \in Job /\ Tail(js) \in Seq(Job)
      BY <3>1
    <3>3. \A i \in DOMAIN Tail(js) : i + 1 \in DOMAIN js /\ Tail(js)[i] = js[i + 1]
      BY <3>1
    <3>4. Lined(Head(js)) /\ \A i \in DOMAIN Tail(js) : Lined(Tail(js)[i])
      BY <3>1, <3>2, <3>3
    <3>5. job' = Head(js) /\ jobs' = Tail(js)
      BY <2>2 DEF js
    <3> QED BY <3>2, <3>4, <3>5 DEF JobsLined, Lined
  <2> QED BY <1>1, <2>1, <2>2
<1>3. OfflineTypeOK'
  BY <1>1, <1>2 DEF IInv, OfflineTypeOK, Idle
<1>4. WorkersLined' /\ Noting'
  BY <1>1 DEF WorkersLined, Noting, Idle
<1>5. Doomed' /\ ListedIsHere'
  BY <1>1 DEF IInv, Doomed, ListedIsHere, Present
<1> QED BY <1>2, <1>3, <1>4, <1>5 DEF IInv

-----------------------------------------------------------------------------
(* A removal, and what else happens.                                        *)

LEMMA RemoveKeeps ==
  ASSUME IInv, InTurn, NEW c \in Cols, RemoveCollection(c)
  PROVE  IInv'
<1> DEFINE stays == UNION {Mine.cols[d] : d \in Cols \ {c}}
           gone == Mine.cols[c] \ stays
           l    == [cols   |-> [Mine.cols EXCEPT ![c] = {}],
                    tracks |-> [s \in Songs |-> IF s \in gone THEN Unset ELSE Mine.tracks[s]]]
           r    == [keys |-> gone \cap Present(user), at |-> "held"]
<1>1. /\ ops' \in 0 .. MaxOps /\ PutLib(l)
      /\ removing' = [removing EXCEPT ![c] = r]
      /\ UNCHANGED <<user, cache, jobs, job, worker>>
  <2>1. Asked
    BY DEF RemoveCollection
  <2>2. ops' \in 0 .. MaxOps
    BY <2>1, OfflineAssumption DEF Asked, IInv, OfflineTypeOK
  <2> QED BY <2>2 DEF RemoveCollection, PutLib
<1>2. lib[user] \in Lib /\ Mine = lib[user]
  BY DEF IInv, OfflineTypeOK, Lib, Mine
<1>3. l \in Lib /\ \A s \in Songs : l.tracks[s] = IF s \in gone THEN Unset ELSE lib[user].tracks[s]
  BY <1>2 DEF Lib
<1>4. r.keys \subseteq Songs /\ r.keys \subseteq gone /\ r.at = "held"
  BY DEF Present
<1>5. r \in [keys : SUBSET Songs, at : {"held", "delete"}]
  BY <1>4
<1> HIDE DEF l, r, gone
<1>6. /\ ListedIsHere' /\ \A a \in Accounts : Present(a)' \subseteq Present(a)
      /\ lib' \in [Accounts -> Lib] /\ lib'[user] = l
  BY <1>1, <1>3, ListsNothingNew, PutIs DEF IInv
<1>7. \A s \in Songs : lib[user].tracks[s] = Unset \/ s \in gone => lib'[user].tracks[s] = Unset
  BY <1>3, <1>6
<1>8. \A d \in Cols : removing'[d] = IF d = c THEN r ELSE removing[d]
  BY <1>1 DEF IInv, OfflineTypeOK
<1>9. OfflineTypeOK'
  BY <1>1, <1>5, <1>6, <1>8 DEF IInv, OfflineTypeOK, Lib
<1>10. WorkersLined' /\ JobsLined'
  BY <1>1 DEF IInv, WorkersLined, JobsLined, Lined
<1>11. Noting'
  BY <1>1, <1>7 DEF IInv, Noting, WorkersLined
<1>12. Doomed'
  <2> SUFFICES ASSUME NEW d \in Cols, removing'[d] # Unset, NEW s \in removing'[d].keys
               PROVE  /\ lib'[user].tracks[s] = Unset
                      /\ removing'[d].at = "delete" => \A a \in Accounts : s \notin Present(a)'
    BY <1>1 DEF Doomed
  <2>1. CASE d = c
    BY <1>4, <1>7, <1>8, <2>1
  <2>2. CASE d # c
    <3>1. removing'[d] = removing[d] /\ s \in Songs /\ lib[user].tracks[s] = Unset
      BY <1>8, <2>2 DEF IInv, OfflineTypeOK, Doomed
    <3> QED BY <1>6, <1>7, <2>2, <3>1 DEF IInv, Doomed
  <2> QED BY <2>1, <2>2
<1> QED BY <1>6, <1>9, <1>10, <1>11, <1>12 DEF IInv

LEMMA HeldKeeps ==
  ASSUME IInv, InTurn, NEW c \in Cols, Held(c)
  PROVE  IInv'
<1> DEFINE r == [keys |-> removing[c].keys \ HeldElsewhere, at |-> "delete"]
<1>1. /\ removing[c] # Unset
      /\ removing' = [removing EXCEPT ![c] = r]
      /\ UNCHANGED <<user, lib, cache, jobs, job, worker, ops>>
  BY DEF Held
<1>2. r \in [keys : SUBSET Songs, at : {"held", "delete"}]
  BY <1>1 DEF IInv, OfflineTypeOK
<1>3. \A d \in Cols : removing'[d] = IF d = c THEN r ELSE removing[d]
  BY <1>1 DEF IInv, OfflineTypeOK
<1>4. ASSUME NEW s \in r.keys
      PROVE  lib[user].tracks[s] = Unset /\ \A a \in Accounts : s \notin Present(a)
  <2>1. s \in removing[c].keys /\ s \notin HeldElsewhere
    OBVIOUS
  <2>2. lib[user].tracks[s] = Unset
    BY <1>1, <2>1 DEF IInv, Doomed
  <2>3. \A a \in Accounts : a # user => s \notin Present(a)
    BY <2>1 DEF HeldElsewhere
  <2>4. s \notin Present(user)
    BY <2>2 DEF Present
  <2> QED BY <2>2, <2>3, <2>4
<1> HIDE DEF r
<1>5. OfflineTypeOK'
  BY <1>1, <1>2 DEF IInv, OfflineTypeOK
<1>6. WorkersLined' /\ JobsLined' /\ Noting' /\ ListedIsHere'
  BY <1>1 DEF IInv, WorkersLined, JobsLined, Lined, Noting, ListedIsHere, Present
<1>7. \A a \in Accounts : Present(a)' = Present(a)
  BY <1>1 DEF Present
<1>8. Doomed'
  BY <1>1, <1>3, <1>4, <1>7 DEF IInv, Doomed
<1> QED BY <1>5, <1>6, <1>8 DEF IInv

\* The files go: no library lists one of them, and none is being noted for a
\* song the account still knows.
LEMMA DeleteKeeps ==
  ASSUME IInv, InTurn, NEW c \in Cols, Delete(c)
  PROVE  IInv'
<1> DEFINE gone == removing[c].keys
<1>1. /\ removing[c] # Unset /\ removing[c].at = "delete"
      /\ cache' = [s \in Songs |-> IF s \in gone THEN Unset ELSE cache[s]]
      /\ removing' = [removing EXCEPT ![c] = Unset]
      /\ UNCHANGED <<user, lib, jobs, job, worker, ops>>
  BY DEF Delete
<1>2. \A s \in gone : lib[user].tracks[s] = Unset /\ \A a \in Accounts : s \notin Present(a)
  BY <1>1 DEF IInv, Doomed
<1> HIDE DEF gone
<1>3. OfflineTypeOK'
  BY <1>1 DEF IInv, OfflineTypeOK
<1>4. WorkersLined' /\ JobsLined'
  BY <1>1 DEF IInv, WorkersLined, JobsLined, Lined
<1>5. Noting'
  BY <1>1, <1>2 DEF IInv, Noting, WorkersLined
<1>6. \A a \in Accounts : Present(a)' = Present(a) /\ Present(a) \subseteq Songs
  BY <1>1 DEF Present
<1>7. ListedIsHere'
  BY <1>1, <1>2, <1>6 DEF IInv, ListedIsHere
<1>8. \A d \in Cols : removing'[d] # Unset => removing'[d] = removing[d]
  BY <1>1 DEF IInv, OfflineTypeOK
<1>9. Doomed'
  BY <1>1, <1>6, <1>8 DEF IInv, Doomed
<1> QED BY <1>3, <1>4, <1>5, <1>7, <1>9 DEF IInv

LEMMA SwitchKeeps ==
  ASSUME IInv, InTurn, NEW a \in Accounts, Switch(a)
  PROVE  IInv'
<1>1. /\ Unhurried /\ Asked /\ user' = a
      /\ UNCHANGED <<lib, cache, jobs, job, worker, removing>>
  BY DEF Switch
<1>2. ops' \in 0 .. MaxOps
  BY <1>1, OfflineAssumption DEF Asked, IInv, OfflineTypeOK
<1>3. OfflineTypeOK'
  BY <1>1, <1>2 DEF IInv, OfflineTypeOK
<1>4. Noting' /\ Doomed'
  BY <1>1, Fresh
<1>5. WorkersLined' /\ JobsLined' /\ ListedIsHere'
  BY <1>1 DEF IInv, WorkersLined, JobsLined, Lined, ListedIsHere, Present
<1> QED BY <1>3, <1>4, <1>5 DEF IInv

LEMMA CloseKeeps ==
  ASSUME IInv, InTurn, Close
  PROVE  IInv'
<1>1. /\ Asked /\ jobs' = <<>> /\ job' = Unset /\ worker' = [w \in 1 .. 2 |-> Idle]
      /\ removing' = [c \in Cols |-> Unset]
      /\ UNCHANGED <<user, lib, cache>>
  BY DEF Close
<1>2. ops' \in 0 .. MaxOps
  BY <1>1, OfflineAssumption DEF Asked, IInv, OfflineTypeOK
<1>3. OfflineTypeOK'
  BY <1>1, <1>2 DEF IInv, OfflineTypeOK, Idle
<1>4. WorkersLined' /\ Noting' /\ Doomed' /\ JobsLined'
  BY <1>1 DEF WorkersLined, Noting, Doomed, JobsLined, Idle
<1>5. ListedIsHere'
  BY <1>1 DEF IInv, ListedIsHere, Present
<1> QED BY <1>3, <1>4, <1>5 DEF IInv

-----------------------------------------------------------------------------

LEMMA Base == InTurn /\ OfflineInit => IInv
<1> SUFFICES ASSUME InTurn, OfflineInit PROVE IInv
  OBVIOUS
<1>1. /\ user \in Accounts /\ ops = 0
      /\ lib = [a \in Accounts |-> [cols |-> [c \in Cols |-> {}], tracks |-> [s \in Songs |-> Unset]]]
      /\ cache = [s \in Songs |-> Unset]
      /\ jobs = <<>> /\ job = Unset /\ worker = [w \in 1 .. 2 |-> Idle]
      /\ removing = [c \in Cols |-> Unset]
  BY DEF OfflineInit
<1>2. \A a \in Accounts : Present(a) = {}
  BY <1>1 DEF Present
<1>3. OfflineTypeOK
  <2>1. lib \in [Accounts -> Lib]
    BY <1>1 DEF Lib
  <2>2. 0 \in 0 .. MaxOps
    BY OfflineAssumption
  <2> QED BY <1>1, <2>1, <2>2 DEF OfflineTypeOK, Lib, Idle
<1>4. JobsLined /\ WorkersLined /\ Noting /\ Doomed /\ ListedIsHere
  BY <1>1, <1>2 DEF JobsLined, WorkersLined, Noting, Doomed, ListedIsHere, Idle
<1> QED BY <1>3, <1>4 DEF IInv

LEMMA Step == InTurn /\ IInv /\ [OfflineNext]_offlineVars => IInv'
<1> SUFFICES ASSUME InTurn, IInv, [OfflineNext]_offlineVars PROVE IInv'
  OBVIOUS
<1>1. ASSUME NEW c \in Cols, NEW S \in Lists[c], NEW q \in Quals, Save(c, S, q) PROVE IInv'
  BY <1>1, SaveKeeps
<1>2. ASSUME NEW c \in Cols, RemoveCollection(c) \/ Held(c) \/ Delete(c) PROVE IInv'
  BY <1>2, RemoveKeeps, HeldKeeps, DeleteKeeps
<1>3. ASSUME NEW w \in 1 .. 2, Fetched(w) \/ Mark(w) \/ \E s \in Songs : Take(w, s) PROVE IInv'
  BY <1>3, FetchedKeeps, MarkKeeps, TakeKeeps
<1>4. CASE Resume \/ JobOver \/ Close \/ \E a \in Accounts : Switch(a)
  BY <1>4, ResumeKeeps, JobOverKeeps, CloseKeeps, SwitchKeeps
<1>5. CASE UNCHANGED offlineVars
  BY <1>5 DEF offlineVars, IInv, OfflineTypeOK, JobsLined, Lined, WorkersLined, Noting, Doomed, ListedIsHere, Present
<1> QED BY <1>1, <1>2, <1>3, <1>4, <1>5 DEF OfflineNext

\* A song any account's library lists as downloaded has its file: whatever is
\* saved, saved again, removed, cut short or shared with another account, for
\* any number of accounts, collections and qualities.
THEOREM ListedHasFile == ASSUME InTurn PROVE OfflineSpec => []ListedIsHere
<1>1. OfflineInit => IInv
  BY Base
<1>2. IInv /\ [OfflineNext]_offlineVars => IInv'
  BY Step
<1>3. IInv => ListedIsHere
  BY DEF IInv
<1> QED BY <1>1, <1>2, <1>3, PTL DEF OfflineSpec

\* The jobs, the workers and the libraries keep their types, and a file is put
\* only at a quality that was asked for.
THEOREM OfflineTyped == ASSUME InTurn PROVE OfflineSpec => [](OfflineTypeOK /\ JobsLined /\ WorkersLined)
<1>1. OfflineInit => IInv
  BY Base
<1>2. IInv /\ [OfflineNext]_offlineVars => IInv'
  BY Step
<1>3. IInv => OfflineTypeOK /\ JobsLined /\ WorkersLined
  BY DEF IInv
<1> QED BY <1>1, <1>2, <1>3, PTL DEF OfflineSpec
=============================================================================
