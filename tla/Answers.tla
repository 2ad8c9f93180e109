------------------------------ MODULE Answers ------------------------------
(* One answer of the API as the service worker keeps it (api, refreshApi and
   apiCacheOf in web/public/sw.js), for the accounts that sign in on one
   device, and what the page makes of it (web/src/api/slopify.js).  Requests
   overlap: each reads what is kept as it begins, gives the page the server's
   answer or, the server being late, what it had read, and keeps the server's
   answer whenever that comes.                                               *)
EXTENDS Naturals

CONSTANTS
  People, Nothing,
  Requests,    \* bound on the requests under way
  Values,      \* the server's answers are 1..Values, each newer than the last
  MaxAsked,    \* bound on what people and the network do
  AnswersEnv   \* "down" (no server), "switch" (another account signs in),
               \* "overtake" (answers come in another order than they were made)

ASSUME AnswersAssumption ==
  /\ Nothing \notin People /\ Nothing \notin [of : People, v : 1..Values]
  /\ Values \in Nat \ {0} /\ MaxAsked \in Nat

VARIABLES
  server,      \* the server's answer for each account
  me,          \* the account signed in on the page
  copies,      \* the caches: an answer and the account it was made for, or Nothing
  req,         \* the requests
  recent,      \* the page wrote less than WRITE_FRESH_MS ago
  clearing,    \* 'clear-api' is on its way
  view,        \* what the page was given last, and how: by the server,
               \* stale (the server being late), offline, or lost
               \* (stale, and the answer never came)
  news,        \* the page was told of a newer answer, and has not asked since
  asked

answersVars == <<server, me, copies, req, recent, clearing, view, news, asked>>

\* apiCacheOf(): a cache for each account; Nothing stands for the one of
\* requests that name none.
CacheForAll(a) == Nothing
CacheOf(a) == a
Caches     == People \cup {Nothing}

Answer == [of : People, v : 1..Values]
Blank  == [at |-> "none", of |-> Nothing, had |-> Nothing, waits |-> FALSE, ans |-> Nothing,
           given |-> FALSE]

AnswersTypeOK ==
  /\ server \in [People -> 1..Values] /\ me \in People
  /\ copies \in [Caches -> Answer \cup {Nothing}]
  /\ \A i \in Requests :
       /\ req[i].at \in {"none", "sent", "answered"} /\ req[i].of \in People \cup {Nothing}
       /\ req[i].had \in Answer \cup {Nothing} /\ req[i].ans \in Answer \cup {Nothing}
       /\ req[i].waits \in BOOLEAN /\ req[i].given \in BOOLEAN
  /\ recent \in BOOLEAN /\ clearing \in BOOLEAN /\ news \in BOOLEAN /\ asked \in 0..MaxAsked
  /\ view \in (Answer \cup {Nothing}) \X {"server", "stale", "offline", "lost"}

AnswersInit ==
  /\ server = [a \in People |-> 1] /\ me \in People
  /\ copies = [c \in Caches |-> Nothing] /\ req = [i \in Requests |-> Blank]
  /\ recent = FALSE /\ clearing = FALSE /\ view = <<Nothing, "server">> /\ news = FALSE /\ asked = 0

AnswersOp(kind) == (kind = "" \/ kind \in AnswersEnv) /\ asked < MaxAsked /\ asked' = asked + 1

\* A page whose account signed out meanwhile drops what it is given.
Given(i, ans, how) == IF req[i].of = me THEN <<ans, how>> ELSE view

-----------------------------------------------------------------------------
(* The worker.                                                             *)

\* api(): what is kept is read; with nothing kept, or just after a write, the
\* server's answer is waited for.
Ask(i) ==
  /\ req[i].at = "none" /\ (IF news THEN UNCHANGED asked ELSE AnswersOp(""))
  /\ req' = [req EXCEPT ![i] =
       [at |-> "sent", of |-> me, had |-> copies[CacheOf(me)],
        waits |-> copies[CacheOf(me)] = Nothing \/ recent, ans |-> Nothing, given |-> FALSE]]
  /\ news' = FALSE
  /\ UNCHANGED <<server, me, copies, recent, clearing, view>>

\* The server makes its answer (external); it may be long on its way, and one
\* made later may overtake it.
Serve(i) ==
  /\ req[i].at = "sent"
  /\ "overtake" \in AnswersEnv \/ \A j \in Requests : req[j].at # "answered"
  /\ req' = [req EXCEPT ![i].at = "answered", ![i].ans = [of |-> req[i].of, v |-> server[req[i].of]]]
  /\ UNCHANGED <<server, me, copies, recent, clearing, view, news, asked>>

\* The server is late: the copy read at the start is given.
Late(i) ==
  /\ req[i].at # "none" /\ ~req[i].waits /\ ~req[i].given
  /\ req' = [req EXCEPT ![i].given = TRUE]
  /\ view' = Given(i, req[i].had, "stale")
  /\ UNCHANGED <<server, me, copies, recent, clearing, news, asked>>

\* As a bug would have it: compared with what is kept by now.
DiffersFromKept(i) == copies[CacheOf(req[i].of)] \notin {Nothing, req[i].ans}
\* refreshApi(): a different answer than the one the request had read.
Differs(i) == req[i].had \notin {Nothing, req[i].ans}

\* refreshApi(): kept, the app told if it differs, given to the page unless
\* the kept copy was.
Arrive(i) ==
  /\ req[i].at = "answered"
  /\ copies' = [copies EXCEPT ![CacheOf(req[i].of)] = req[i].ans]
  /\ view' = IF req[i].given THEN view ELSE Given(i, req[i].ans, "server")
  /\ news' = (news \/ Differs(i))
  /\ req' = [req EXCEPT ![i] = Blank]
  /\ UNCHANGED <<server, me, recent, clearing, asked>>

\* No answer, a 5xx or a portal's page: the kept copy, marked, or none at all.
Down(i) ==
  /\ AnswersOp("down") /\ req[i].at # "none"
  /\ view' = IF req[i].given THEN Given(i, view[1], "lost") ELSE Given(i, req[i].had, "offline")
  /\ req' = [req EXCEPT ![i] = Blank]
  /\ UNCHANGED <<server, me, copies, recent, clearing, news>>

\* The message 'clear-api': every account's kept answers go.
ClearApi ==
  /\ clearing
  /\ copies' = [c \in Caches |-> Nothing] /\ clearing' = FALSE
  /\ UNCHANGED <<server, me, req, recent, view, news, asked>>

-----------------------------------------------------------------------------
(* The page and the server.                                                *)

\* A write of this page goes by: what it asks in the next seconds is fresh.
Write ==
  /\ AnswersOp("") /\ server[me] < Values
  /\ server' = [server EXCEPT ![me] = @ + 1] /\ recent' = TRUE
  /\ UNCHANGED <<me, copies, req, clearing, view, news>>

\* Another device of the account writes.
WriteElsewhere ==
  /\ AnswersOp("") /\ server[me] < Values
  /\ server' = [server EXCEPT ![me] = @ + 1]
  /\ UNCHANGED <<me, copies, req, recent, clearing, view, news>>

Age ==
  /\ recent /\ recent' = FALSE
  /\ UNCHANGED <<server, me, copies, req, clearing, view, news, asked>>

\* clearSession(), and the next sign-in: the page starts clean.
SignIn ==
  /\ AnswersOp("switch")
  /\ me' \in People \ {me}
  /\ view' = <<Nothing, "server">> /\ news' = FALSE /\ clearing' = TRUE
  /\ UNCHANGED <<server, copies, req, recent>>

AnswersNext ==
  \/ \E i \in Requests : Ask(i) \/ Serve(i) \/ Late(i) \/ Arrive(i) \/ Down(i)
  \/ ClearApi \/ Write \/ WriteElsewhere \/ Age \/ SignIn

AnswersSpec == AnswersInit /\ [][AnswersNext]_answersVars

-----------------------------------------------------------------------------
\* Whoever is signed in is shown answers made for that account, whatever was in
\* flight as the last one signed out (apiCacheOf, sw.js).
OwnAnswers == view[1] # Nothing => view[1].of = me

\* A page at rest that was given a kept copy because the server was late shows
\* nothing older than what is kept by now: it is told of the server's newer
\* answer, in whatever order the answers of overlapping requests came and were
\* kept (refreshApi).
BehindNothing ==
  ~news /\ (\A i \in Requests : req[i].of # me) /\ view[2] = "stale" /\ copies[CacheOf(me)] # Nothing
    => view[1].v >= copies[CacheOf(me)].v
=============================================================================
