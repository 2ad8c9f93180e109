------------------------------ MODULE Session ------------------------------
(* The account's session: which client is the one making sound.

   The server half is server/src/session.ts (the clients map, hello, claim,
   nowplaying and the socket's close event); the client half is
   web/src/api/session.js (SessionLink) with the page's player reduced to its
   deck: nothing loaded, paused or playing.  A connection is a socket and the
   two message streams on it; a page has one at a time, the server may still
   know older ones.  Time is a counter: only the order of presses and how long
   ago one happened matter here.                                           *)
EXTENDS Naturals, Sequences, FiniteSets

CONSTANTS
  Users,     \* accounts
  Pages,     \* page loads: SessionLink instances, each with its own `instance`
  Ids,       \* client ids: those browsers store, and suffixed ones to hand out
  Conns,     \* sockets that may ever be opened (bounds the reconnects)
  UserOf,    \* the account a page is signed in to
  BaseId,    \* the id stored by the page's browser: two tabs share it
  None,      \* no id, no connection
  MaxNow,    \* bound on the clock
  UpCap,     \* bound on messages in flight to the server, per connection
  DownCap,   \* bound on messages in flight to a client, per connection
  Env        \* what else may happen: "stop" or, as a bound, "pause" (a pause, and
             \* before the last press), "beat", "drop", "leave", "restart", and
             \* "time" passing with no press

ASSUME SessionAssumption ==
  /\ UserOf \in [Pages -> Users]
  /\ BaseId \in [Pages -> Ids]
  /\ None \notin Ids /\ None \notin Conns /\ None \notin Pages
  /\ MaxNow \in Nat /\ UpCap \in Nat /\ DownCap \in Nat

VARIABLES
  now,
  \* the server
  srv,       \* srv[k]: the server's end of the socket
  registry,  \* clients: id -> the connection registered under it
  selfId,    \* selfId[k]: the id the hello on k was given
  np,        \* np[k]: the client's last reported nowPlaying
  active, claimedAt, playing,   \* of each account's session
  \* the network
  up, down,
  \* the pages
  owner,     \* owner[k]: the page that opened k
  alive, link, pid, claimed, pressedAt, deck, due, pending

serverVars == <<srv, registry, selfId, np, active, claimedAt, playing>>
pageVars   == <<alive, link, pid, claimed, pressedAt, deck, due, pending>>
vars       == <<now, serverVars, up, down, owner, pageVars>>

Deck == {"none", "paused", "playing"}
Time == 0..MaxNow

UpMsg ==
       [type : {"hello"}, id : Ids]
  \cup [type : {"claim"}, reassert : BOOLEAN, ago : Time]
  \cup [type : {"nowplaying"}, np : Deck]
DownMsg == [type : {"hello-ok"}, id : Ids] \cup [type : {"yield"}]

User(k) == UserOf[owner[k]]
Unused  == {k \in Conns : srv[k] = "unused"}

TypeOK ==
  /\ now \in Time
  /\ srv \in [Conns -> {"unused", "open", "closing", "closed"}]
  /\ registry \in [Ids -> Conns \cup {None}]
  /\ selfId \in [Conns -> Ids \cup {None}]
  /\ np \in [Conns -> Deck]
  /\ active \in [Users -> Ids \cup {None}]
  /\ claimedAt \in [Users -> Time]
  /\ playing \in [Users -> BOOLEAN]
  /\ up \in [Conns -> Seq(UpMsg)]
  /\ down \in [Conns -> Seq(DownMsg)]
  /\ owner \in [Conns -> Pages \cup {None}]
  /\ alive \in [Pages -> BOOLEAN]
  /\ link \in [Pages -> Conns \cup {None}]
  /\ pid \in [Pages -> Ids]
  /\ claimed \in [Pages -> BOOLEAN]
  /\ pressedAt \in [Pages -> Time]
  /\ deck \in [Pages -> Deck]
  /\ due \in [Pages -> BOOLEAN]
  /\ pending \in [Pages -> Deck]

Init ==
  /\ now = 0
  /\ srv = [k \in Conns |-> "unused"]
  /\ registry = [i \in Ids |-> None]
  /\ selfId = [k \in Conns |-> None]
  /\ np = [k \in Conns |-> "none"]
  /\ active = [u \in Users |-> None]
  /\ claimedAt = [u \in Users |-> 0]
  /\ playing = [u \in Users |-> FALSE]
  /\ up = [k \in Conns |-> <<>>]
  /\ down = [k \in Conns |-> <<>>]
  /\ owner = [k \in Conns |-> None]
  /\ alive = [p \in Pages |-> TRUE]
  /\ link = [p \in Pages |-> None]
  /\ pid = BaseId
  /\ claimed = [p \in Pages |-> FALSE]
  /\ pressedAt = [p \in Pages |-> 0]
  /\ deck = [p \in Pages |-> "none"]
  /\ due = [p \in Pages |-> FALSE]
  /\ pending = [p \in Pages |-> "none"]

-----------------------------------------------------------------------------
(* What the server sends.  A socket that is not open is skipped.           *)

Registered(reg, k) == \E i \in Ids : reg[i] = k
Members(reg, u) == {k \in Conns : Registered(reg, k) /\ User(k) = u}

Send(d, ks, m) ==
  [k \in Conns |-> IF k \in ks /\ srv[k] = "open" THEN Append(d[k], m) ELSE d[k]]

-----------------------------------------------------------------------------
(* The server's handlers.  A socket the server is closing still hands over
   the frames it had in flight until its close event.                      *)

CanReceive(k) ==
  /\ srv[k] \in {"open", "closing"}
  /\ up[k] # <<>>
  /\ \A j \in Conns : Len(down[j]) < DownCap

\* An id held by another account, or by another page whose socket is open,
\* is not taken over: the newcomer gets a suffixed one.
TakenByAnAccount(k, i) == registry[i] # None /\ User(registry[i]) # User(k)

Taken(k, i) ==
  /\ registry[i] # None
  /\ \/ User(registry[i]) # User(k)
     \/ srv[registry[i]] = "open" /\ owner[registry[i]] # owner[k]

Fresh(i) == /\ \A k \in Conns : selfId[k] # i
            /\ \A p \in Pages : BaseId[p] # i

\* The socket an id was registered under is closed for its successor.
LeftOpen(prev) == srv

Replaced(prev) ==
  [c \in Conns |-> IF c = prev /\ srv[c] = "open" THEN "closing" ELSE srv[c]]

Hello(k) ==
  /\ CanReceive(k) /\ Head(up[k]).type = "hello"
  /\ selfId[k] = None
  /\ \E i \in Ids :
       LET want == Head(up[k]).id
       IN /\ IF Taken(k, want) THEN Fresh(i) ELSE i = want
          /\ registry' = [registry EXCEPT ![i] = k]
          /\ srv' = Replaced(registry[i])
          /\ selfId' = [selfId EXCEPT ![k] = i]
          /\ np' = [np EXCEPT ![k] = "none"]
          /\ up' = [up EXCEPT ![k] = Tail(@)]
          /\ down' = Send(down, {k}, [type |-> "hello-ok", id |-> i])
  /\ UNCHANGED <<now, active, claimedAt, playing, owner, pageVars>>

NowPlaying(k) ==
  /\ CanReceive(k) /\ Head(up[k]).type = "nowplaying"
  /\ selfId[k] # None
  /\ LET u    == User(k)
         me   == selfId[k]
         n    == Head(up[k]).np
         took == n = "playing" /\ active[u] = None
         mine == took \/ active[u] = me
     IN /\ np' = [np EXCEPT ![k] = n]
        /\ active' = [active EXCEPT ![u] = IF ~mine THEN @
                                           ELSE IF n = "none" THEN None ELSE me]
        /\ claimedAt' = [claimedAt EXCEPT ![u] = IF took THEN now ELSE @]
        /\ playing' = [playing EXCEPT ![u] = IF mine THEN n = "playing" ELSE @]
        /\ up' = [up EXCEPT ![k] = Tail(@)]
  /\ UNCHANGED <<now, srv, registry, selfId, down, owner, pageVars>>

\* When play was pressed, on the server's clock: a re-asserted claim says how
\* long ago.
PressedAhead(m) == now + m.ago

PressedOn(m) == IF m.reassert THEN now - m.ago ELSE now

\* A claim that wins stops the account's other clients, one that lost its sender.
ToldWhenPressed(k, yields) ==
  IF yields THEN {k}
  ELSE IF Head(up[k]).reassert THEN {}
  ELSE Members(registry, User(k)) \ {registry[selfId[k]]}

Told(k, yields) ==
  IF yields THEN {k} ELSE Members(registry, User(k)) \ {registry[selfId[k]]}

Claim(k) ==
  /\ CanReceive(k) /\ Head(up[k]).type = "claim"
  /\ selfId[k] # None
  /\ LET u      == User(k)
         me     == selfId[k]
         m      == Head(up[k])
         at     == PressedOn(m)
         held   == active[u] # None /\ active[u] # me /\ registry[active[u]] # None
         yields == m.reassert /\ held /\ claimedAt[u] > at
     IN /\ active' = [active EXCEPT ![u] = IF yields THEN @ ELSE me]
        /\ claimedAt' = [claimedAt EXCEPT ![u] = IF yields THEN @ ELSE at]
        /\ down' = Send(down, Told(k, yields), [type |-> "yield"])
        /\ up' = [up EXCEPT ![k] = Tail(@)]
  /\ UNCHANGED <<now, srv, registry, selfId, np, playing, owner, pageVars>>

\* Letting go of the session: nobody active, the clock frozen.
ReleaseActive(u) ==
  /\ active' = [active EXCEPT ![u] = None]
  /\ UNCHANGED playing

Release(u) ==
  /\ active' = [active EXCEPT ![u] = None]
  /\ playing' = [playing EXCEPT ![u] = FALSE]

\* The socket's close event: a dead peer, a missed heartbeat, or the end of a
\* close the server or the client began.  (A bound: a link in use dies only
\* while there is a socket left to come back with.)
ServerClose(k) ==
  /\ srv[k] \in {"open", "closing"}
  /\ \/ link[owner[k]] # k \/ srv[k] = "closing"
     \/ "drop" \in Env /\ Unused # {}
  /\ srv' = [srv EXCEPT ![k] = "closed"]
  /\ np' = [np EXCEPT ![k] = "none"]
  /\ up' = [up EXCEPT ![k] = <<>>]
  /\ IF selfId[k] = None \/ registry[selfId[k]] # k
     THEN UNCHANGED <<registry, active, playing>>
     ELSE LET u     == User(k)
              me    == selfId[k]
              reg   == [registry EXCEPT ![me] = None]
              still == {i \in Ids : reg[i] # None /\ User(reg[i]) = u
                                                  /\ np[reg[i]] = "playing"}
          IN /\ registry' = reg
             /\ \/ active[u] # me /\ UNCHANGED <<active, playing>>
                \/ /\ active[u] = me
                   /\ \E i \in still : active' = [active EXCEPT ![u] = i]
                   /\ UNCHANGED playing
                \/ active[u] = me /\ still = {} /\ Release(u)
  /\ UNCHANGED <<now, selfId, claimedAt, down, owner, pageVars>>

\* The server stops and starts again: the maps are gone, and a session is
\* loaded back with nobody active and not playing.
Restart ==
  /\ "restart" \in Env
  /\ Unused # {} /\ \E k \in Conns : srv[k] \in {"open", "closing"}
  /\ srv' = [k \in Conns |-> IF srv[k] = "unused" THEN "unused" ELSE "closed"]
  /\ registry' = [i \in Ids |-> None]
  /\ active' = [u \in Users |-> None]
  /\ claimedAt' = [u \in Users |-> 0]
  /\ playing' = [u \in Users |-> FALSE]
  /\ up' = [k \in Conns |-> <<>>]
  /\ np' = [k \in Conns |-> "none"]
  /\ UNCHANGED <<now, selfId, down, owner, pageVars>>

-----------------------------------------------------------------------------
(* The pages.  A frame is sent only while the page's socket is open.       *)

Post(p, ms) == up' = IF link[p] = None THEN up ELSE [up EXCEPT ![link[p]] = @ \o ms]

CanPost(p) == alive[p] /\ (link[p] # None => Len(up[link[p]]) < UpCap)

\* connect() up to onopen: one socket at a time, hello first.
Connect(p) ==
  /\ alive[p] /\ link[p] = None
  /\ \E k \in Unused :
       /\ link' = [link EXCEPT ![p] = k]
       /\ owner' = [owner EXCEPT ![k] = p]
       /\ srv' = [srv EXCEPT ![k] = "open"]
       /\ up' = [up EXCEPT ![k] = <<[type |-> "hello", id |-> pid[p]]>>]
  /\ UNCHANGED <<now, registry, selfId, np, active, claimedAt, playing, down,
                 alive, pid, claimed, pressedAt, deck, due, pending>>

\* onclose, or moveTo leaving the socket for another address: a new
\* connection follows.  The server may learn of it much later.
ConnectionLost(p) ==
  /\ alive[p] /\ link[p] # None
  /\ \/ srv[link[p]] \in {"closing", "closed"}
     \/ "drop" \in Env /\ Unused # {}
  /\ link' = [link EXCEPT ![p] = None]
  /\ down' = [down EXCEPT ![link[p]] = <<>>]
  /\ UNCHANGED <<now, serverVars, up, owner, alive, pid, claimed, pressedAt, deck,
                 due, pending>>

\* The tab is closed or reloaded; nothing of it is left but the stored id.
ClosePage(p) ==
  /\ "leave" \in Env
  /\ alive[p]
  /\ alive' = [alive EXCEPT ![p] = FALSE]
  /\ link' = [link EXCEPT ![p] = None]
  /\ down' = IF link[p] = None THEN down ELSE [down EXCEPT ![link[p]] = <<>>]
  /\ deck' = [deck EXCEPT ![p] = "none"]
  /\ claimed' = [claimed EXCEPT ![p] = FALSE]
  /\ pid' = [pid EXCEPT ![p] = BaseId[p]]
  /\ pressedAt' = [pressedAt EXCEPT ![p] = 0]
  /\ due' = [due EXCEPT ![p] = FALSE]
  /\ pending' = [pending EXCEPT ![p] = "none"]
  /\ UNCHANGED <<now, serverVars, up, owner>>

HasMail(p, type) ==
  /\ alive[p] /\ link[p] # None
  /\ down[link[p]] # <<>> /\ Head(down[link[p]]).type = type

TakeMail(p) == down' = [down EXCEPT ![link[p]] = Tail(@)]

\* hello-ok: adopt the id; a claim held before the drop is re-asserted with how
\* long ago play was pressed, and what was last reported is sent again.
Reassert(p) ==
  IF claimed[p]
  THEN <<[type |-> "claim", reassert |-> TRUE, ago |-> now - pressedAt[p]]>>
  ELSE <<>>

FlushClaim(p) == Reassert(p)

Flush(p) ==
  Reassert(p) \o (IF pending[p] = "none" THEN <<>>
                  ELSE <<[type |-> "nowplaying", np |-> pending[p]]>>)

OnHelloOk(p) ==
  /\ HasMail(p, "hello-ok")
  /\ Post(p, Flush(p))
  /\ pid' = [pid EXCEPT ![p] = Head(down[link[p]]).id]
  /\ TakeMail(p)
  /\ UNCHANGED <<now, serverVars, owner, alive, link, claimed, pressedAt, deck,
                 due, pending>>

OnYieldPlaysOn(p) ==
  /\ HasMail(p, "yield")
  /\ claimed' = [claimed EXCEPT ![p] = FALSE]
  /\ TakeMail(p)
  /\ UNCHANGED <<now, serverVars, up, owner, alive, link, pid, pressedAt, deck, due,
                 pending>>

\* Another client took over: the claim is gone and the sound stops here.
OnYield(p) ==
  /\ HasMail(p, "yield")
  /\ claimed' = [claimed EXCEPT ![p] = FALSE]
  /\ deck' = [deck EXCEPT ![p] = IF @ = "playing" THEN "paused" ELSE @]
  /\ due' = [due EXCEPT ![p] = @ \/ deck[p] = "playing"]
  /\ TakeMail(p)
  /\ UNCHANGED <<now, serverVars, up, owner, alive, link, pid, pressedAt, pending>>

\* Play pressed here: sound first, the claim with it.
Press(p) ==
  /\ deck[p] # "playing" /\ CanPost(p)
  /\ now < MaxNow /\ now' = now + 1
  /\ deck' = [deck EXCEPT ![p] = "playing"]
  /\ due' = [due EXCEPT ![p] = TRUE]
  /\ claimed' = [claimed EXCEPT ![p] = TRUE]
  /\ pressedAt' = [pressedAt EXCEPT ![p] = now']
  /\ Post(p, <<[type |-> "claim", reassert |-> FALSE, ago |-> 0]>>)
  /\ UNCHANGED <<serverVars, down, owner, alive, link, pid, pending>>

\* Paused, or the queue emptied.
Stop(p, d) ==
  /\ "stop" \in Env \/ ("pause" \in Env /\ d = "paused" /\ now < MaxNow)
  /\ alive[p] /\ deck[p] # "none" /\ d # deck[p] /\ d # "playing"
  /\ deck' = [deck EXCEPT ![p] = d]
  /\ due' = [due EXCEPT ![p] = TRUE]
  /\ UNCHANGED <<now, serverVars, up, down, owner, alive, link, pid, claimed,
                 pressedAt, pending>>

\* A change of the deck is reported once, a playing one again every 2 s; a page
\* that shows another client's session puts its report off.
Report(p) ==
  /\ \/ due[p] /\ CanPost(p)
     \/ "beat" \in Env /\ deck[p] = "playing" /\ link[p] # None /\ up[link[p]] = <<>>
  /\ due' = [due EXCEPT ![p] = FALSE]
  /\ pending' = [pending EXCEPT ![p] = deck[p]]
  /\ Post(p, <<[type |-> "nowplaying", np |-> deck[p]]>>)
  /\ UNCHANGED <<now, serverVars, down, owner, alive, link, pid, claimed, pressedAt,
                 deck>>

Tick == /\ "time" \in Env /\ now < MaxNow
        /\ now' = now + 1
        /\ UNCHANGED <<serverVars, up, down, owner, pageVars>>

-----------------------------------------------------------------------------
ServerStep(k) == Hello(k) \/ NowPlaying(k) \/ Claim(k)
PageStep(p)   == OnHelloOk(p) \/ OnYield(p)
UserStep(p)   == Press(p) \/ (\E d \in Deck : Stop(p, d)) \/ ClosePage(p)

Next ==
  \/ \E k \in Conns : ServerStep(k) \/ ServerClose(k)
  \/ \E p \in Pages :
       PageStep(p) \/ Connect(p) \/ ConnectionLost(p) \/ Report(p) \/ UserStep(p)
  \/ Restart
  \/ Tick

Spec == Init /\ [][Next]_vars

\* Frames are handled, a due report is sent, a page without a socket retries,
\* and a socket that died at one end is found dead at the other.
Fairness ==
  /\ \A k \in Conns : /\ WF_vars(ServerStep(k))
                      /\ WF_vars(ServerClose(k) /\ link[owner[k]] # k)
                      /\ WF_vars(ServerClose(k) /\ srv[k] = "closing")
  /\ \A p \in Pages : /\ WF_vars(PageStep(p)) /\ WF_vars(Connect(p))
                      /\ WF_vars(Report(p) /\ due[p])
                      /\ WF_vars(ConnectionLost(p) /\ srv[link[p]] = "closed")

FairSpec == Spec /\ Fairness

-----------------------------------------------------------------------------
(* Properties.                                                             *)

\* The clock of a session nobody is active in stands still: every path that
\* lets go of the session (release, disconnect, restart) also freezes it.
FrozenWithoutActive == \A u \in Users : active[u] = None => ~playing[u]

\* The active client is one of the account's connected clients: a disconnect
\* never leaves the session with a client that is gone.
ActiveRegistered ==
  \A u \in Users : active[u] # None =>
    \E k \in Members(registry, u) : registry[active[u]] = k

\* Everything sent has arrived and every living page is connected.
Settled ==
  /\ \A k \in Conns :
       /\ up[k] = <<>> /\ down[k] = <<>> /\ srv[k] # "closing"
       /\ srv[k] = "open" => link[owner[k]] = k /\ selfId[k] # None
  /\ \A p \in Pages : alive[p] =>
       /\ link[p] # None /\ srv[link[p]] = "open"
       /\ ~due[p]

Sounding(u) == {p \in Pages : UserOf[p] = u /\ deck[p] = "playing"}

\* Two of an account's devices never go on playing at once: whatever was
\* pressed, dropped and re-asserted, once the messages have arrived at most
\* one of its pages makes sound.
OneVoice == Settled => \A u \in Users : Cardinality(Sounding(u)) <= 1

\* The session plays exactly when the active client does: the mirrors' clock
\* runs for real sound, and only then.
ClockFollowsSound ==
  Settled => \A u \in Users :
    playing[u] <=> \E p \in Sounding(u) : pid[p] = active[u]

\* The server closes a socket only for a newer one of the same page: two tabs
\* with one stored id, or another account with that id, never evict each other.
NeverEvicted ==
  [][\A k \in Conns : srv[k] = "open" /\ srv'[k] = "closing"
       => \E j \in Conns : j # k /\ owner[j] = owner[k] /\ selfId'[j] = selfId[k]]_vars

\* At most one open socket goes by a client id: a page that comes back before
\* its old socket is found dead never leaves both of them in the session.
OneSocketPerId ==
  \A j, k \in Conns :
    srv[j] = "open" /\ srv[k] = "open" /\ selfId[j] = selfId[k] /\ selfId[k] # None
    => j = k

\* With presses and drops at an end, the account's pages stop talking over
\* each other for good.
EventuallyOneVoice ==
  <>[](\A u \in Users : Cardinality({p \in Sounding(u) : link[p] # None}) <= 1)
=============================================================================
