--------------------------- MODULE SessionProofs ---------------------------
(* Proofs about Session for any number of accounts, pages, ids and sockets.
   The inductive invariant adds to TypeOK what the registry promises: an id
   leads to the socket that was given it, and an open socket that has said
   hello is the one its id leads to.  OnePlays adds that of two pages of one
   account that play, one is still to be decided; ClockRight adds what is on
   its way between the active client's page and the server's clock.        *)
EXTENDS Session, FiniteSetTheorems, SequenceTheorems, TLAPS

UnusedBlank ==
  \A k \in Conns : /\ owner[k] = None <=> srv[k] = "unused"
                   /\ srv[k] = "unused" => selfId[k] = None

RegistryFaithful == \A i \in Ids : registry[i] # None => selfId[registry[i]] = i

OpenRegistered ==
  \A k \in Conns : srv[k] = "open" /\ selfId[k] # None => registry[selfId[k]] = k

\* A re-asserted claim never dates a press before the clock's zero.
PressesPast ==
  /\ \A p \in Pages : pressedAt[p] <= now
  /\ \A k \in Conns : \A n \in 1..Len(up[k]) :
       up[k][n].type = "claim" => up[k][n].ago <= now

Wiring == UnusedBlank /\ RegistryFaithful /\ OpenRegistered /\ PressesPast

IInv == TypeOK /\ Wiring

-----------------------------------------------------------------------------
(* The fields of a message, by its type.                                   *)

LEMMA UpShape ==
  ASSUME NEW m \in UpMsg
  PROVE  /\ m.type = "hello" => m.id \in Ids
         /\ m.type = "claim" => m.ago \in Time /\ m.reassert \in BOOLEAN
         /\ m.type = "nowplaying" => m.np \in Deck
BY DEF UpMsg

LEMMA DownShape ==
  ASSUME NEW m \in DownMsg, m.type = "hello-ok"
  PROVE  m.id \in Ids
BY DEF DownMsg

LEMMA HeadOfMail ==
  ASSUME NEW S, NEW s \in Seq(S), s # <<>>
  PROVE  Head(s) \in S /\ Tail(s) \in Seq(S)
OBVIOUS

LEMMA SendType ==
  ASSUME NEW d \in [Conns -> Seq(DownMsg)], NEW ks, NEW m \in DownMsg
  PROVE  Send(d, ks, m) \in [Conns -> Seq(DownMsg)]
BY DEF Send

\* Posting frames that date presses in the past keeps the streams well formed.
LEMMA PostKeeps ==
  ASSUME TypeOK, PressesPast, NEW p \in Pages, NEW ms \in Seq(UpMsg), Post(p, ms),
         \A n \in 1..Len(ms) : ms[n].type = "claim" => ms[n].ago <= now
  PROVE  /\ up' \in [Conns -> Seq(UpMsg)]
         /\ \A k \in Conns : \A n \in 1..Len(up'[k]) :
              up'[k][n].type = "claim" => up'[k][n].ago <= now
<1>1. CASE link[p] = None
  BY <1>1 DEF TypeOK, Post, PressesPast
<1>2. CASE link[p] # None
  <2> DEFINE l == link[p]
  <2>1. l \in Conns /\ up[l] \in Seq(UpMsg)
    BY <1>2 DEF TypeOK
  <2>2. up' = [up EXCEPT ![l] = up[l] \o ms]
    BY <1>2 DEF Post
  <2>3. up[l] \o ms \in Seq(UpMsg)
    BY <2>1
  <2>4. up' \in [Conns -> Seq(UpMsg)]
    BY <2>1, <2>2, <2>3 DEF TypeOK
  <2>5. ASSUME NEW k \in Conns, NEW n \in 1..Len(up'[k]), up'[k][n].type = "claim"
        PROVE  up'[k][n].ago <= now
    <3>1. CASE k # l
      BY <2>1, <2>2, <2>5, <3>1 DEF TypeOK, PressesPast
    <3>2. CASE k = l
      <4>1. up'[k] = up[l] \o ms
        BY <2>1, <2>2, <3>2 DEF TypeOK
      <4>2. CASE n <= Len(up[l])
        <5>1. up'[k][n] = up[l][n] /\ n \in 1..Len(up[l])
          BY <2>1, <4>1, <4>2
        <5> QED BY <2>1, <2>5, <5>1 DEF PressesPast
      <4>3. CASE n > Len(up[l])
        <5>1. up'[k][n] = ms[n - Len(up[l])] /\ n - Len(up[l]) \in 1..Len(ms)
          BY <2>1, <4>1, <4>3
        <5> QED BY <2>5, <5>1
      <4> QED BY <2>1, <4>2, <4>3
    <3> QED BY <3>1, <3>2
  <2> QED BY <2>4, <2>5
<1> QED BY <1>1, <1>2

-----------------------------------------------------------------------------
(* One lemma per action.                                                   *)

\* The socket a frame is read from is in use, so its owner is a page.
LEMMA Receiving ==
  ASSUME IInv, NEW k \in Conns, CanReceive(k)
  PROVE  /\ owner[k] \in Pages /\ User(k) \in Users
         /\ Head(up[k]) \in UpMsg
         /\ [up EXCEPT ![k] = Tail(@)] \in [Conns -> Seq(UpMsg)]
         /\ \A c \in Conns : \A n \in 1..Len([up EXCEPT ![k] = Tail(@)][c]) :
              [up EXCEPT ![k] = Tail(@)][c][n].type = "claim"
                => [up EXCEPT ![k] = Tail(@)][c][n].ago <= now
         /\ Head(up[k]).type = "claim" => Head(up[k]).ago <= now
<1> DEFINE rest == [up EXCEPT ![k] = Tail(@)]
<1>1. owner[k] \in Pages /\ User(k) \in Users
  BY SessionAssumption DEF IInv, TypeOK, Wiring, UnusedBlank, CanReceive, User
<1>2. up[k] \in Seq(UpMsg) /\ up[k] # <<>>
  BY DEF IInv, TypeOK, CanReceive
<1>3. Head(up[k]) \in UpMsg /\ Tail(up[k]) \in Seq(UpMsg)
  BY <1>2, HeadOfMail
<1>4. rest \in [Conns -> Seq(UpMsg)]
  BY <1>3 DEF IInv, TypeOK
<1>5. ASSUME NEW c \in Conns, NEW n \in 1..Len(rest[c]), rest[c][n].type = "claim"
      PROVE  rest[c][n].ago <= now
  <2>1. CASE c = k
    <3>1. rest[c] = Tail(up[k])
      BY <2>1 DEF IInv, TypeOK
    <3>. DEFINE s == up[k]
    <3>. HIDE DEF s
    <3>2. s \in Seq(UpMsg) /\ s # <<>> /\ n \in 1..Len(Tail(s))
      BY <1>2, <3>1 DEF s
    <3>3. Tail(s)[n] = s[n + 1] /\ n + 1 \in 1..Len(s)
      BY <3>2
    <3>4. rest[c][n] = up[k][n + 1] /\ n + 1 \in 1..Len(up[k])
      BY <3>1, <3>3 DEF s
    <3> QED BY <1>5, <3>4 DEF IInv, Wiring, PressesPast
  <2>2. CASE c # k
    BY <1>5, <2>2 DEF IInv, TypeOK, Wiring, PressesPast
  <2> QED BY <2>1, <2>2
<1>6. Head(up[k]).type = "claim" => Head(up[k]).ago <= now
  <2>1. Head(up[k]) = up[k][1] /\ 1 \in 1..Len(up[k])
    BY <1>2
  <2> QED BY <2>1 DEF IInv, Wiring, PressesPast
<1> QED BY <1>1, <1>3, <1>4, <1>5, <1>6

LEMMA HelloKeeps ==
  ASSUME IInv, NEW k \in Conns, Hello(k)
  PROVE  IInv'
<1>1. PICK i \in Ids :
        /\ IF Taken(k, Head(up[k]).id) THEN Fresh(i) ELSE i = Head(up[k]).id
        /\ registry' = [registry EXCEPT ![i] = k]
        /\ srv' = Replaced(registry[i])
        /\ selfId' = [selfId EXCEPT ![k] = i]
        /\ np' = [np EXCEPT ![k] = "none"]
        /\ up' = [up EXCEPT ![k] = Tail(@)]
        /\ down' = Send(down, {k}, [type |-> "hello-ok", id |-> i])
  BY DEF Hello
<1>2. CanReceive(k) /\ selfId[k] = None
  BY DEF Hello
<1>3. UNCHANGED <<now, active, claimedAt, playing, owner, pageVars>>
  BY DEF Hello
<1>4. [type |-> "hello-ok", id |-> i] \in DownMsg
  BY DEF DownMsg
<1>5. TypeOK'
  <2>1. up' \in [Conns -> Seq(UpMsg)]
    BY <1>1, <1>2, Receiving
  <2>2. down' \in [Conns -> Seq(DownMsg)]
    BY <1>1, <1>4, SendType DEF IInv, TypeOK
  <2>3. srv' \in [Conns -> {"unused", "open", "closing", "closed"}]
    BY <1>1 DEF IInv, TypeOK, Replaced
  <2> QED BY <1>1, <1>3, <2>1, <2>2, <2>3 DEF IInv, TypeOK, pageVars, Deck
<1>6. UnusedBlank'
  BY <1>1, <1>2, <1>3
     DEF IInv, TypeOK, Wiring, UnusedBlank, CanReceive, Replaced
<1>7. RegistryFaithful'
  <2>1. ASSUME NEW j \in Ids, registry'[j] # None
        PROVE  selfId'[registry'[j]] = j
    <3>1. CASE j = i
      BY <1>1, <3>1 DEF IInv, TypeOK
    <3>2. CASE j # i
      <4>1. registry'[j] = registry[j] /\ selfId[registry[j]] = j
        BY <1>1, <2>1, <3>2 DEF IInv, TypeOK, Wiring, RegistryFaithful
      <4>2. registry[j] # k
        BY <1>2, <4>1, SessionAssumption
      <4> QED BY <1>1, <2>1, <4>1, <4>2 DEF IInv, TypeOK
    <3> QED BY <3>1, <3>2
  <2> QED BY <2>1 DEF RegistryFaithful
<1>8. OpenRegistered'
  <2>1. ASSUME NEW c \in Conns, srv'[c] = "open", selfId'[c] # None
        PROVE  registry'[selfId'[c]] = c
    <3>1. CASE c = k
      BY <1>1, <3>1 DEF IInv, TypeOK
    <3>2. CASE c # k
      <4>1. srv[c] = "open" /\ c # registry[i] /\ selfId'[c] = selfId[c]
        BY <1>1, <2>1, <3>2 DEF IInv, TypeOK, Replaced
      <4>2. registry[selfId[c]] = c /\ selfId[c] # i
        BY <2>1, <4>1 DEF IInv, Wiring, OpenRegistered
      <4> QED BY <1>1, <2>1, <4>1, <4>2 DEF IInv, TypeOK
    <3> QED BY <3>1, <3>2
  <2> QED BY <2>1 DEF OpenRegistered
<1>9. PressesPast'
  BY <1>1, <1>2, <1>3, Receiving
     DEF IInv, Wiring, PressesPast, pageVars
<1> QED BY <1>5, <1>6, <1>7, <1>8, <1>9 DEF IInv, Wiring

LEMMA NowPlayingKeeps ==
  ASSUME IInv, NEW k \in Conns, NowPlaying(k)
  PROVE  IInv'
<1>1. CanReceive(k) /\ Head(up[k]).type = "nowplaying" /\ selfId[k] \in Ids
  BY DEF NowPlaying, IInv, TypeOK
<1>2. User(k) \in Users /\ Head(up[k]).np \in Deck
  BY <1>1, Receiving, UpShape
<1>3. UNCHANGED <<now, srv, registry, selfId, down, owner, pageVars>>
      /\ up' = [up EXCEPT ![k] = Tail(@)]
  BY DEF NowPlaying
<1>4. TypeOK'
  <2>1. up' \in [Conns -> Seq(UpMsg)]
    BY <1>1, <1>3, Receiving
  <2>2. /\ np' \in [Conns -> Deck]
        /\ active' \in [Users -> Ids \cup {None}]
        /\ claimedAt' \in [Users -> Time]
        /\ playing' \in [Users -> BOOLEAN]
    BY <1>1, <1>2 DEF NowPlaying, IInv, TypeOK
  <2> QED BY <1>3, <2>1, <2>2 DEF IInv, TypeOK, pageVars
<1>5. UnusedBlank' /\ RegistryFaithful' /\ OpenRegistered'
  BY <1>3 DEF IInv, Wiring, UnusedBlank, RegistryFaithful, OpenRegistered
<1>6. PressesPast'
  BY <1>1, <1>3, Receiving DEF IInv, Wiring, PressesPast, pageVars
<1> QED BY <1>4, <1>5, <1>6 DEF IInv, Wiring

LEMMA ClaimKeeps ==
  ASSUME IInv, NEW k \in Conns, Claim(k)
  PROVE  IInv'
<1>1. CanReceive(k) /\ Head(up[k]).type = "claim" /\ selfId[k] \in Ids
  BY DEF Claim, IInv, TypeOK
<1>2. User(k) \in Users /\ PressedOn(Head(up[k])) \in Time
  <2>1. /\ User(k) \in Users /\ Head(up[k]).ago \in 0..MaxNow
        /\ Head(up[k]).ago <= now /\ now \in 0..MaxNow
    BY <1>1, Receiving, UpShape DEF Time, IInv, TypeOK
  <2> QED BY <2>1, SessionAssumption DEF PressedOn, Time
<1>3. UNCHANGED <<now, srv, registry, selfId, np, playing, owner, pageVars>>
      /\ up' = [up EXCEPT ![k] = Tail(@)]
  BY DEF Claim
<1>4. TypeOK'
  <2>1. up' \in [Conns -> Seq(UpMsg)]
    BY <1>1, <1>3, Receiving
  <2>2. [type |-> "yield"] \in DownMsg
    BY DEF DownMsg
  <2>3. down' \in [Conns -> Seq(DownMsg)]
    BY <2>2, SendType DEF Claim, IInv, TypeOK
  <2>4. /\ active' \in [Users -> Ids \cup {None}]
        /\ claimedAt' \in [Users -> Time]
    BY <1>1, <1>2 DEF Claim, IInv, TypeOK
  <2> QED BY <1>3, <2>1, <2>3, <2>4 DEF IInv, TypeOK, pageVars
<1>5. UnusedBlank' /\ RegistryFaithful' /\ OpenRegistered'
  BY <1>3 DEF IInv, Wiring, UnusedBlank, RegistryFaithful, OpenRegistered
<1>6. PressesPast'
  BY <1>1, <1>3, Receiving DEF IInv, Wiring, PressesPast, pageVars
<1> QED BY <1>4, <1>5, <1>6 DEF IInv, Wiring

LEMMA ServerCloseKeeps ==
  ASSUME IInv, NEW k \in Conns, ServerClose(k)
  PROVE  IInv'
<1>1. /\ srv' = [srv EXCEPT ![k] = "closed"]
      /\ np' = [np EXCEPT ![k] = "none"]
      /\ up' = [up EXCEPT ![k] = <<>>]
      /\ UNCHANGED <<now, selfId, claimedAt, down, owner, pageVars>>
      /\ srv[k] # "unused"
  BY DEF ServerClose
<1>2. \/ UNCHANGED <<registry, active, playing>> /\ (selfId[k] = None \/ registry[selfId[k]] # k)
      \/ /\ selfId[k] \in Ids /\ registry[selfId[k]] = k
         /\ registry' = [registry EXCEPT ![selfId[k]] = None]
         /\ active' \in [Users -> Ids \cup {None}]
         /\ playing' \in [Users -> BOOLEAN]
  <2>1. CASE selfId[k] = None \/ registry[selfId[k]] # k
    BY <2>1 DEF ServerClose
  <2>2. CASE ~(selfId[k] = None \/ registry[selfId[k]] # k)
    <3>1. /\ selfId[k] \in Ids /\ registry[selfId[k]] = k
          /\ registry' = [registry EXCEPT ![selfId[k]] = None]
      BY <2>2 DEF ServerClose, IInv, TypeOK
    <3>2. \/ UNCHANGED <<active, playing>>
          \/ /\ \E i \in Ids : active' = [active EXCEPT ![User(k)] = i]
             /\ UNCHANGED playing
          \/ Release(User(k))
      BY <2>2, Zenon DEF ServerClose
    <3>3. active' \in [Users -> Ids \cup {None}]
      BY <3>2 DEF Release, IInv, TypeOK
    <3>4. playing' \in [Users -> BOOLEAN]
      BY <3>2 DEF Release, IInv, TypeOK
    <3> QED BY <3>1, <3>3, <3>4
  <2> QED BY <2>1, <2>2
<1>3. TypeOK'
  <2>1. <<>> \in Seq(UpMsg)
    OBVIOUS
  <2>2. up' \in [Conns -> Seq(UpMsg)] /\ np' \in [Conns -> Deck]
    BY <1>1, <2>1 DEF IInv, TypeOK, Deck
  <2> QED BY <1>1, <1>2, <2>2 DEF IInv, TypeOK, pageVars
<1>4. UnusedBlank'
  BY <1>1 DEF IInv, TypeOK, Wiring, UnusedBlank
<1>5. RegistryFaithful' /\ OpenRegistered'
  BY <1>1, <1>2, SessionAssumption
     DEF IInv, TypeOK, Wiring, RegistryFaithful, OpenRegistered
<1>6. PressesPast'
  BY <1>1 DEF IInv, TypeOK, Wiring, PressesPast, pageVars
<1> QED BY <1>3, <1>4, <1>5, <1>6 DEF IInv, Wiring

LEMMA RestartKeeps ==
  ASSUME IInv, Restart
  PROVE  IInv'
<1>1. <<>> \in Seq(UpMsg) /\ 0 \in Time
  BY SessionAssumption DEF Time
<1>2. TypeOK'
  BY <1>1 DEF IInv, TypeOK, Restart, pageVars, Deck
<1>3. UnusedBlank' /\ RegistryFaithful' /\ OpenRegistered'
  BY DEF Restart, IInv, TypeOK, Wiring, UnusedBlank, RegistryFaithful, OpenRegistered
<1>4. PressesPast'
  BY DEF Restart, IInv, TypeOK, Wiring, PressesPast, pageVars
<1> QED BY <1>2, <1>3, <1>4 DEF IInv, Wiring

LEMMA ConnectKeeps ==
  ASSUME IInv, NEW p \in Pages, Connect(p)
  PROVE  IInv'
<1>1. PICK k \in Unused :
        /\ link' = [link EXCEPT ![p] = k]
        /\ owner' = [owner EXCEPT ![k] = p]
        /\ srv' = [srv EXCEPT ![k] = "open"]
        /\ up' = [up EXCEPT ![k] = <<[type |-> "hello", id |-> pid[p]]>>]
  BY DEF Connect
<1>2. UNCHANGED <<now, registry, selfId, np, active, claimedAt, playing, down,
                  alive, pid, claimed, pressedAt, deck, due, pending>>
  BY DEF Connect
<1>3. k \in Conns /\ srv[k] = "unused" /\ selfId[k] = None
  BY DEF Unused, IInv, Wiring, UnusedBlank
<1>4. [type |-> "hello", id |-> pid[p]] \in UpMsg
  BY DEF UpMsg, IInv, TypeOK
<1>5. TypeOK'
  <2>1. <<[type |-> "hello", id |-> pid[p]]>> \in Seq(UpMsg)
    BY <1>4
  <2> QED BY <1>1, <1>2, <1>3, <2>1 DEF IInv, TypeOK
<1>6. UnusedBlank' /\ RegistryFaithful' /\ OpenRegistered'
  BY <1>1, <1>2, <1>3, SessionAssumption
     DEF IInv, TypeOK, Wiring, UnusedBlank, RegistryFaithful, OpenRegistered
<1>7. PressesPast'
  BY <1>1, <1>2, <1>3 DEF IInv, TypeOK, Wiring, PressesPast
<1> QED BY <1>5, <1>6, <1>7 DEF IInv, Wiring

\* The steps of a page that leave the server and the sockets' owners alone.
LEMMA PageKeeps ==
  ASSUME IInv, TypeOK', PressesPast', UNCHANGED <<serverVars, owner>>
  PROVE  IInv'
BY DEF IInv, Wiring, UnusedBlank, RegistryFaithful, OpenRegistered, serverVars

LEMMA ConnectionLostKeeps ==
  ASSUME IInv, NEW p \in Pages, ConnectionLost(p)
  PROVE  IInv'
<1>1. <<>> \in Seq(DownMsg)
  OBVIOUS
<1>2. TypeOK'
  BY <1>1 DEF ConnectionLost, IInv, TypeOK, serverVars
<1>3. PressesPast'
  BY DEF ConnectionLost, IInv, Wiring, PressesPast
<1> QED BY <1>2, <1>3, PageKeeps DEF ConnectionLost

LEMMA ClosePageKeeps ==
  ASSUME IInv, NEW p \in Pages, ClosePage(p)
  PROVE  IInv'
<1>1. <<>> \in Seq(DownMsg) /\ 0 \in Time /\ "none" \in Deck
  BY SessionAssumption DEF Time, Deck
<1>2. down' \in [Conns -> Seq(DownMsg)]
  BY <1>1 DEF ClosePage, IInv, TypeOK
<1>3. TypeOK'
  BY <1>1, <1>2, SessionAssumption DEF ClosePage, IInv, TypeOK, serverVars
<1>4. PressesPast'
  BY DEF ClosePage, IInv, TypeOK, Time, Wiring, PressesPast
<1> QED BY <1>3, <1>4, PageKeeps DEF ClosePage

\* Taking a frame off a page's stream.
LEMMA Mail ==
  ASSUME IInv, NEW p \in Pages, NEW t, HasMail(p, t), TakeMail(p)
  PROVE  /\ Head(down[link[p]]) \in DownMsg /\ Head(down[link[p]]).type = t
         /\ down' \in [Conns -> Seq(DownMsg)]
<1>1. link[p] \in Conns
  BY DEF HasMail, IInv, TypeOK
<1>2. down[link[p]] \in Seq(DownMsg) /\ down[link[p]] # <<>>
  BY <1>1 DEF HasMail, IInv, TypeOK
<1>3. Head(down[link[p]]) \in DownMsg /\ Tail(down[link[p]]) \in Seq(DownMsg)
  BY <1>2, HeadOfMail
<1> QED BY <1>1, <1>3 DEF HasMail, TakeMail, IInv, TypeOK

LEMMA FlushType ==
  ASSUME IInv, NEW p \in Pages
  PROVE  /\ Flush(p) \in Seq(UpMsg)
         /\ \A n \in 1..Len(Flush(p)) :
              Flush(p)[n].type = "claim" => Flush(p)[n].ago <= now
<1> DEFINE claim  == [type |-> "claim", reassert |-> TRUE, ago |-> now - pressedAt[p]]
           report == [type |-> "nowplaying", np |-> pending[p]]
<1>1. pressedAt[p] \in 0..MaxNow /\ now \in 0..MaxNow /\ pressedAt[p] <= now
  BY DEF IInv, TypeOK, Time, Wiring, PressesPast
<1>2. claim \in UpMsg /\ claim.ago <= now
  BY <1>1, SessionAssumption DEF UpMsg, Time
<1>3. report \in UpMsg /\ report.type # "claim"
  BY DEF UpMsg, IInv, TypeOK
<1> DEFINE a == Reassert(p)
           b == IF pending[p] = "none" THEN <<>> ELSE <<report>>
<1>4. a \in Seq(UpMsg) /\ (a = <<>> \/ a = <<claim>>)
  <2>1. CASE claimed[p]
    <3>1. a = <<claim>>
      BY <2>1, Zenon DEF Reassert
    <3> QED BY <1>2, <3>1
  <2>2. CASE ~claimed[p]
    <3>1. a = <<>>
      BY <2>2, Zenon DEF Reassert
    <3> QED BY <3>1
  <2> QED BY <2>1, <2>2
<1>5. b \in Seq(UpMsg) /\ (b = <<>> \/ b = <<report>>)
  BY <1>3
<1>6. Flush(p) = a \o b
  BY DEF Flush
<1> HIDE DEF a, b, claim, report
<1>7. ASSUME NEW n \in 1..Len(a \o b), (a \o b)[n].type = "claim"
      PROVE  (a \o b)[n].ago <= now
  <2>1. CASE n <= Len(a)
    <3>1. (a \o b)[n] = a[n]
      BY <1>4, <1>5, <2>1
    <3>2. Len(a) # 0
      BY <1>4, <2>1
    <3>3. a = <<claim>>
      BY <1>4, <3>2
    <3>4. n = 1
      BY <2>1, <3>3
    <3> QED BY <1>2, <3>1, <3>3, <3>4
  <2>2. CASE n > Len(a)
    <3>1. (a \o b)[n] = b[n - Len(a)] /\ n - Len(a) \in 1..Len(b)
      BY <1>4, <1>5, <2>2
    <3>2. b = <<report>> /\ n - Len(a) = 1
      BY <1>5, <3>1
    <3> QED BY <1>3, <1>7, <3>1, <3>2
  <2> QED BY <1>4, <2>1, <2>2
<1> QED BY <1>4, <1>5, <1>6, <1>7

LEMMA OnHelloOkKeeps ==
  ASSUME IInv, NEW p \in Pages, OnHelloOk(p)
  PROVE  IInv'
<1>1. HasMail(p, "hello-ok") /\ TakeMail(p) /\ Post(p, Flush(p))
      /\ pid' = [pid EXCEPT ![p] = Head(down[link[p]]).id]
      /\ UNCHANGED <<now, serverVars, owner, alive, link, claimed, pressedAt, deck,
                     due, pending>>
  BY DEF OnHelloOk
<1>2. /\ up' \in [Conns -> Seq(UpMsg)]
      /\ \A k \in Conns : \A n \in 1..Len(up'[k]) :
           up'[k][n].type = "claim" => up'[k][n].ago <= now
  BY <1>1, FlushType, PostKeeps DEF IInv, Wiring
<1>3. down' \in [Conns -> Seq(DownMsg)] /\ Head(down[link[p]]).id \in Ids
  BY <1>1, Mail, DownShape
<1>4. TypeOK'
  BY <1>1, <1>2, <1>3 DEF IInv, TypeOK, serverVars
<1>5. PressesPast'
  BY <1>1, <1>2 DEF IInv, Wiring, PressesPast
<1> QED BY <1>1, <1>4, <1>5, PageKeeps

LEMMA OnYieldKeeps ==
  ASSUME IInv, NEW p \in Pages, OnYield(p)
  PROVE  IInv'
<1>1. down' \in [Conns -> Seq(DownMsg)]
  BY Mail DEF OnYield
<1>2. TypeOK'
  BY <1>1 DEF OnYield, IInv, TypeOK, serverVars, Deck
<1>3. PressesPast'
  BY DEF OnYield, IInv, Wiring, PressesPast
<1> QED BY <1>2, <1>3, PageKeeps DEF OnYield

LEMMA PressKeeps ==
  ASSUME IInv, NEW p \in Pages, Press(p)
  PROVE  IInv'
<1> DEFINE claim == [type |-> "claim", reassert |-> FALSE, ago |-> 0]
<1>1. now < MaxNow /\ now' = now + 1 /\ Post(p, <<claim>>)
  BY DEF Press
<1>2. now \in Nat /\ now' \in Time /\ "playing" \in Deck
  BY <1>1, SessionAssumption DEF IInv, TypeOK, Time, Deck
<1>3. claim \in UpMsg /\ claim.ago <= now
  BY <1>2, SessionAssumption DEF UpMsg, Time
<1> HIDE DEF claim
<1>4. /\ <<claim>> \in Seq(UpMsg)
      /\ \A n \in 1..Len(<<claim>>) :
           <<claim>>[n].type = "claim" => <<claim>>[n].ago <= now
  BY <1>3
<1>5. /\ up' \in [Conns -> Seq(UpMsg)]
      /\ \A k \in Conns : \A n \in 1..Len(up'[k]) :
           up'[k][n].type = "claim" => up'[k][n].ago <= now
  BY <1>1, <1>4, PostKeeps DEF IInv, Wiring
<1>6. TypeOK'
  BY <1>2, <1>5 DEF Press, IInv, TypeOK, serverVars
<1>7. PressesPast'
  <2>1. \A q \in Pages : pressedAt'[q] <= now'
    BY <1>1, <1>2 DEF Press, IInv, TypeOK, Time, Wiring, PressesPast
  <2>2. ASSUME NEW k \in Conns, NEW n \in 1..Len(up'[k]), up'[k][n].type = "claim"
        PROVE  up'[k][n].ago <= now'
    <3>1. up'[k][n] \in UpMsg
      BY <1>5
    <3>2. up'[k][n].ago \in 0..MaxNow
      BY <2>2, <3>1, UpShape DEF Time
    <3>3. up'[k][n].ago <= now
      BY <1>5, <2>2
    <3> QED BY <1>1, <1>2, <3>2, <3>3
  <2> QED BY <2>1, <2>2 DEF PressesPast
<1> QED BY <1>6, <1>7, PageKeeps DEF Press

LEMMA StopKeeps ==
  ASSUME IInv, NEW p \in Pages, NEW d \in Deck, Stop(p, d)
  PROVE  IInv'
<1>1. TypeOK'
  BY DEF Stop, IInv, TypeOK, serverVars
<1>2. PressesPast'
  BY DEF Stop, IInv, Wiring, PressesPast
<1> QED BY <1>1, <1>2, PageKeeps DEF Stop

LEMMA ReportKeeps ==
  ASSUME IInv, NEW p \in Pages, Report(p)
  PROVE  IInv'
<1> DEFINE m == [type |-> "nowplaying", np |-> deck[p]]
<1>1. m \in UpMsg /\ m.type # "claim" /\ Post(p, <<m>>)
  BY DEF Report, UpMsg, IInv, TypeOK
<1> HIDE DEF m
<1>2. /\ <<m>> \in Seq(UpMsg)
      /\ \A n \in 1..Len(<<m>>) : <<m>>[n].type = "claim" => <<m>>[n].ago <= now
  BY <1>1
<1>3. /\ up' \in [Conns -> Seq(UpMsg)]
      /\ \A k \in Conns : \A n \in 1..Len(up'[k]) :
           up'[k][n].type = "claim" => up'[k][n].ago <= now
  BY <1>1, <1>2, PostKeeps DEF IInv, Wiring
<1>4. TypeOK'
  BY <1>3 DEF Report, IInv, TypeOK, serverVars
<1>5. PressesPast'
  BY <1>3 DEF Report, IInv, Wiring, PressesPast
<1> QED BY <1>4, <1>5, PageKeeps DEF Report

LEMMA TickKeeps ==
  ASSUME IInv, Tick
  PROVE  IInv'
<1>1. now \in Nat /\ now' \in Time /\ now' = now + 1
  BY SessionAssumption DEF Tick, IInv, TypeOK, Time
<1>2. TypeOK'
  BY <1>1 DEF Tick, IInv, TypeOK, serverVars, pageVars
<1>3. PressesPast'
  <2>1. \A q \in Pages : pressedAt'[q] <= now'
    BY <1>1 DEF Tick, pageVars, IInv, TypeOK, Time, Wiring, PressesPast
  <2>2. ASSUME NEW k \in Conns, NEW n \in 1..Len(up[k]), up[k][n].type = "claim"
        PROVE  up[k][n].ago <= now'
    <3>1. up[k][n].ago \in 0..MaxNow
      BY <2>2, UpShape DEF IInv, TypeOK, Time
    <3>2. up[k][n].ago <= now
      BY <2>2 DEF IInv, Wiring, PressesPast
    <3> QED BY <1>1, <3>1, <3>2
  <2> QED BY <2>1, <2>2 DEF Tick, PressesPast
<1> QED BY <1>2, <1>3, PageKeeps DEF Tick

-----------------------------------------------------------------------------
(* The invariant, and what follows from it.                                *)

LEMMA Base == Init => IInv
<1> SUFFICES ASSUME Init PROVE IInv
  OBVIOUS
<1>1. 0 \in Time /\ <<>> \in Seq(UpMsg) /\ <<>> \in Seq(DownMsg)
  BY SessionAssumption DEF Time
<1>2. TypeOK
  BY <1>1, SessionAssumption DEF Init, TypeOK, Deck
<1>3. Wiring
  BY <1>1, SessionAssumption
     DEF Init, Wiring, UnusedBlank, RegistryFaithful, OpenRegistered, PressesPast
<1> QED BY <1>2, <1>3 DEF IInv

LEMMA Step == IInv /\ [Next]_vars => IInv'
<1> SUFFICES ASSUME IInv, [Next]_vars PROVE IInv'
  OBVIOUS
<1>1. ASSUME NEW k \in Conns, ServerStep(k) \/ ServerClose(k) PROVE IInv'
  BY <1>1, HelloKeeps, NowPlayingKeeps, ClaimKeeps, ServerCloseKeeps DEF ServerStep
<1>2. ASSUME NEW p \in Pages, PageStep(p) PROVE IInv'
  BY <1>2, OnHelloOkKeeps, OnYieldKeeps DEF PageStep
<1>3. ASSUME NEW p \in Pages, Connect(p) \/ ConnectionLost(p) \/ Report(p)
      PROVE  IInv'
  BY <1>3, ConnectKeeps, ConnectionLostKeeps, ReportKeeps
<1>4. ASSUME NEW p \in Pages, UserStep(p) PROVE IInv'
  BY <1>4, PressKeeps, StopKeeps, ClosePageKeeps DEF UserStep
<1>5. CASE UNCHANGED vars
  <2>1. TypeOK' /\ PressesPast'
    BY <1>5 DEF vars, serverVars, pageVars, IInv, TypeOK, Wiring, PressesPast
  <2> QED BY <1>5, <2>1, PageKeeps DEF vars
<1> QED BY <1>1, <1>2, <1>3, <1>4, <1>5, RestartKeeps, TickKeeps DEF Next

\* Every reachable state is well typed, and the registry means what it says.
THEOREM Invariant == Spec => []IInv
BY Base, Step, PTL DEF Spec

\* Type correctness of the session protocol, for any number of clients.
THEOREM TypeCorrect == Spec => []TypeOK
<1>1. IInv => TypeOK
  BY DEF IInv
<1> QED BY <1>1, Invariant, PTL

\* However often a page loses its socket and comes back before the server has
\* found the old one dead, no two open sockets go by one client id.
THEOREM OneSocket == Spec => []OneSocketPerId
<1>1. IInv => OneSocketPerId
  BY DEF IInv, Wiring, OpenRegistered, OneSocketPerId
<1> QED BY <1>1, Invariant, PTL

\* The clock of a session nobody is active in stands still: release, the last
\* player's disconnect and a restart freeze it, and nothing starts it again
\* without naming an active client.
THEOREM Frozen == Spec => []FrozenWithoutActive
<1>1. Init => FrozenWithoutActive
  BY DEF Init, FrozenWithoutActive
<1>2. IInv /\ FrozenWithoutActive /\ [Next]_vars => FrozenWithoutActive'
  <2> SUFFICES ASSUME IInv, FrozenWithoutActive, [Next]_vars
               PROVE  FrozenWithoutActive'
    OBVIOUS
  <2>1. CASE UNCHANGED <<active, playing>>
    BY <2>1 DEF FrozenWithoutActive
  <2>2. ASSUME NEW k \in Conns, NowPlaying(k) PROVE FrozenWithoutActive'
    <3> DEFINE u == User(k)
               n == Head(up[k]).np
               mine == (n = "playing" /\ active[u] = None) \/ active[u] = selfId[k]
    <3>1. /\ selfId[k] # None
          /\ active' = [active EXCEPT ![u] = IF ~mine THEN @ ELSE
                                    IF n = "none" THEN None ELSE selfId[k]]
          /\ playing' = [playing EXCEPT ![u] = IF mine THEN n = "playing" ELSE @]
      BY <2>2, Zenon DEF NowPlaying
    <3> HIDE DEF mine, n, u
    <3>2. ASSUME NEW v \in Users, active'[v] = None
          PROVE  ~playing'[v]
      <4>1. CASE v = u /\ mine
        <5>1. active'[v] = IF n = "none" THEN None ELSE selfId[k]
          BY <3>1, <4>1 DEF IInv, TypeOK
        <5>2. n = "none"
          BY <3>1, <3>2, <5>1
        <5>3. playing'[v] = (n = "playing")
          BY <3>1, <4>1, Zenon DEF IInv, TypeOK
        <5> QED BY <5>2, <5>3
      <4>2. CASE ~(v = u /\ mine)
        <5>1. active'[v] = active[v]
          BY <3>1, <4>2 DEF IInv, TypeOK
        <5>2. playing'[v] = playing[v]
          BY <3>1, <4>2, Zenon DEF IInv, TypeOK
        <5> QED BY <3>2, <5>1, <5>2 DEF FrozenWithoutActive
      <4> QED BY <4>1, <4>2
    <3> QED BY <3>2 DEF FrozenWithoutActive
  <2>3. ASSUME NEW k \in Conns, Claim(k) PROVE FrozenWithoutActive'
    <3>1. /\ selfId[k] # None /\ UNCHANGED playing
          /\ \E i \in {active[User(k)], selfId[k]} :
               active' = [active EXCEPT ![User(k)] = i]
      BY <2>3 DEF Claim
    <3> QED BY <3>1 DEF FrozenWithoutActive, IInv, TypeOK
  <2>4. ASSUME NEW k \in Conns, ServerClose(k) PROVE FrozenWithoutActive'
    <3>1. \/ UNCHANGED <<active, playing>>
          \/ /\ \E i \in Ids : active' = [active EXCEPT ![User(k)] = i]
             /\ UNCHANGED playing
          \/ Release(User(k))
      BY <2>4, Zenon DEF ServerClose
    <3>2. CASE \E i \in Ids : /\ active' = [active EXCEPT ![User(k)] = i]
                              /\ UNCHANGED playing
      BY <3>2, SessionAssumption DEF FrozenWithoutActive, IInv, TypeOK
    <3>3. CASE Release(User(k))
      BY <3>3 DEF Release, FrozenWithoutActive, IInv, TypeOK
    <3> QED BY <2>1, <3>1, <3>2, <3>3
  <2>5. CASE Restart
    BY <2>5 DEF Restart, FrozenWithoutActive
  <2>6. ASSUME NEW k \in Conns, Hello(k) PROVE FrozenWithoutActive'
    BY <2>1, <2>6 DEF Hello
  <2>7. ASSUME NEW p \in Pages,
               PageStep(p) \/ Connect(p) \/ ConnectionLost(p) \/ Report(p) \/ UserStep(p)
        PROVE  UNCHANGED <<active, playing>>
    BY <2>7 DEF PageStep, OnHelloOk, OnYield, Connect, ConnectionLost, Report, UserStep,
                Press, Stop, ClosePage, serverVars
  <2>8. CASE Tick \/ UNCHANGED vars
    BY <2>1, <2>8 DEF Tick, vars, serverVars
  <2> QED BY <2>1, <2>2, <2>3, <2>4, <2>5, <2>6, <2>7, <2>8 DEF Next, ServerStep
<1> QED BY <1>1, <1>2, Invariant, PTL DEF Spec

\* Two tabs that share a stored id, or two accounts, never evict each other:
\* the server closes an open socket only for a newer one of the same page.
THEOREM Evictions == Spec => NeverEvicted
<1> DEFINE A == \A k \in Conns : srv[k] = "open" /\ srv'[k] = "closing"
                  => \E j \in Conns : j # k /\ owner[j] = owner[k] /\ selfId'[j] = selfId[k]
<1>1. IInv /\ [Next]_vars => A
  <2> SUFFICES ASSUME IInv, [Next]_vars,
                      NEW k \in Conns, srv[k] = "open", srv'[k] = "closing"
               PROVE  \E j \in Conns : j # k /\ owner[j] = owner[k]
                                             /\ selfId'[j] = selfId[k]
    OBVIOUS
  <2>1. ASSUME NEW j \in Conns, Hello(j) PROVE owner[j] = owner[k] /\ j # k
                                               /\ selfId'[j] = selfId[k]
    <3>1. PICK i \in Ids :
            /\ IF Taken(j, Head(up[j]).id) THEN Fresh(i) ELSE i = Head(up[j]).id
            /\ srv' = Replaced(registry[i])
            /\ selfId' = [selfId EXCEPT ![j] = i]
      BY <2>1 DEF Hello
    <3>2. selfId[j] = None
      BY <2>1 DEF Hello
    <3>3. registry[i] = k
      BY <3>1 DEF Replaced
    <3>4. registry[i] # None /\ selfId[k] = i /\ i # None
      BY <3>3, SessionAssumption DEF IInv, Wiring, RegistryFaithful
    <3>5. ~Fresh(i)
      BY <3>4 DEF Fresh
    <3>6. ~Taken(j, i)
      BY <3>1, <3>5
    <3>7. owner[k] = owner[j]
      BY <3>3, <3>4, <3>6 DEF Taken
    <3>8. selfId'[j] = i
      BY <3>1 DEF IInv, TypeOK
    <3> QED BY <3>2, <3>4, <3>7, <3>8
  <2>2. ASSUME NEW j \in Conns, ServerClose(j) PROVE FALSE
    BY <2>2 DEF ServerClose, IInv, TypeOK
  <2>3. ASSUME NEW p \in Pages, Connect(p) PROVE FALSE
    BY <2>3 DEF Connect, Unused, IInv, TypeOK
  <2>4. CASE Restart
    BY <2>4 DEF Restart
  <2>5. ASSUME NEW j \in Conns, NowPlaying(j) \/ Claim(j) PROVE FALSE
    BY <2>5 DEF NowPlaying, Claim
  <2>6. ASSUME NEW p \in Pages,
               PageStep(p) \/ ConnectionLost(p) \/ Report(p) \/ UserStep(p)
        PROVE  FALSE
    BY <2>6 DEF PageStep, OnHelloOk, OnYield, ConnectionLost, Report, UserStep,
                Press, Stop, ClosePage, serverVars
  <2>7. CASE Tick \/ UNCHANGED vars
    BY <2>7 DEF Tick, vars, serverVars
  <2> QED BY <2>1, <2>2, <2>3, <2>4, <2>5, <2>6, <2>7 DEF Next, ServerStep
<1>2. Spec => [][A]_vars
  BY <1>1, Invariant, PTL DEF Spec
<1> QED BY <1>2 DEF NeverEvicted
-----------------------------------------------------------------------------
(* One voice.  A page that plays has claimed the session.  Of two pages of one
   account that play, one has something on its way that will be decided: it is
   not connected, its hello or claim is still to be handled, or a yield to
   reach it.                                                               *)

In(s, t) == \E n \in 1..Len(s) : s[n].type = t

Linked == \A p \in Pages : link[p] # None => owner[link[p]] = p

Claimers == \A p \in Pages : deck[p] = "playing" => claimed[p] /\ alive[p]

Undecided(p) ==
  \/ link[p] = None
  \/ srv[link[p]] # "open" \/ selfId[link[p]] = None
  \/ In(down[link[p]], "hello-ok") \/ In(up[link[p]], "claim") \/ In(down[link[p]], "yield")

OneDecided ==
  \A p, q \in Pages :
    p # q /\ UserOf[p] = UserOf[q] /\ deck[p] = "playing" /\ deck[q] = "playing"
      => Undecided(p) \/ Undecided(q)

\* What a stream holds as frames are put on it and taken off.
LEMMA InConcat ==
  ASSUME NEW S, NEW s \in Seq(S), NEW m \in Seq(S), NEW t, In(s, t) \/ In(m, t)
  PROVE  In(s \o m, t)
<1>1. CASE In(s, t)
  <2>1. PICK n \in 1..Len(s) : s[n].type = t
    BY <1>1 DEF In
  <2>2. n \in 1..Len(s \o m) /\ (s \o m)[n] = s[n]
    OBVIOUS
  <2> QED BY <2>1, <2>2 DEF In
<1>2. CASE In(m, t)
  <2>1. PICK n \in 1..Len(m) : m[n].type = t
    BY <1>2 DEF In
  <2>2. Len(s) + n \in 1..Len(s \o m) /\ (s \o m)[Len(s) + n] = m[n]
    OBVIOUS
  <2> QED BY <2>1, <2>2 DEF In
<1> QED BY <1>1, <1>2

\* The same of one frame.
LEMMA InAppend ==
  ASSUME NEW S, NEW s \in Seq(S), NEW m \in S, NEW t, In(s, t) \/ m.type = t
  PROVE  In(Append(s, m), t)
<1>1. CASE In(s, t)
  <2>1. PICK n \in 1..Len(s) : s[n].type = t
    BY <1>1 DEF In
  <2>2. n \in 1..Len(Append(s, m)) /\ Append(s, m)[n] = s[n]
    OBVIOUS
  <2> QED BY <2>1, <2>2 DEF In
<1>2. CASE m.type = t
  <2>1. Len(s) + 1 \in 1..Len(Append(s, m)) /\ Append(s, m)[Len(s) + 1] = m
    OBVIOUS
  <2> QED BY <1>2, <2>1 DEF In
<1> QED BY <1>1, <1>2

\* The same as the first frame, of another type, is handled.
LEMMA InTail ==
  ASSUME NEW S, NEW s \in Seq(S), s # <<>>, NEW t, In(s, t), Head(s).type # t
  PROVE  In(Tail(s), t)
<1>1. PICK n \in 1..Len(s) : s[n].type = t
  BY DEF In
<1>2. n # 1
  BY <1>1
<1>3. n - 1 \in 1..Len(Tail(s)) /\ Tail(s)[n - 1] = s[n]
  BY <1>2
<1> QED BY <1>1, <1>3 DEF In

\* Two pages are never on one socket, and none is on an unused one.
LEMMA LinksApart ==
  ASSUME IInv, Linked, NEW p \in Pages, link[p] # None
  PROVE  /\ link[p] \in Conns /\ srv[link[p]] # "unused"
         /\ \A q \in Pages : link[q] = link[p] => q = p
<1>1. link[p] \in Conns /\ owner[link[p]] = p
  BY DEF IInv, TypeOK, Linked
<1>2. srv[link[p]] # "unused"
  BY <1>1, SessionAssumption DEF IInv, Wiring, UnusedBlank
<1> QED BY <1>1, <1>2 DEF Linked

\* What a page's socket holds is all that decides it.
LEMMA SameSocket ==
  ASSUME NEW p \in Pages, Undecided(p), link'[p] = link[p], link[p] # None,
         srv'[link[p]] = srv[link[p]], selfId'[link[p]] = selfId[link[p]],
         In(down[link[p]], "hello-ok") => In(down'[link[p]], "hello-ok"),
         In(down[link[p]], "yield") => In(down'[link[p]], "yield"),
         In(up[link[p]], "claim") => In(up'[link[p]], "claim")
  PROVE  Undecided(p)'
BY DEF Undecided

\* A hello that is answered leaves its page a claim to re-assert; one that
\* takes an id over leaves the older socket closing.
LEMMA HelloPersists ==
  ASSUME IInv, Linked, NEW k \in Conns, Hello(k), NEW p \in Pages, Undecided(p)
  PROVE  Undecided(p)'
<1>1. CASE link[p] = None
  BY <1>1 DEF Hello, pageVars, Undecided
<1>2. CASE link[p] # None
  <2> DEFINE l == link[p]
  <2>1. l \in Conns /\ link'[p] = l
    BY <1>2, LinksApart DEF Hello, pageVars
  <2>2. PICK i \in Ids :
          /\ registry' = [registry EXCEPT ![i] = k]
          /\ srv' = Replaced(registry[i])
          /\ selfId' = [selfId EXCEPT ![k] = i]
          /\ up' = [up EXCEPT ![k] = Tail(@)]
          /\ down' = Send(down, {k}, [type |-> "hello-ok", id |-> i])
    BY DEF Hello
  <2>3. srv'[l] = srv[l] \/ srv'[l] = "closing"
    BY <2>1, <2>2 DEF Replaced
  <2>4. CASE srv'[l] # "open"
    BY <2>1, <2>4 DEF Undecided
  <2>5. CASE srv'[l] = "open" /\ k = l
    <3>1. srv[l] = "open"
      BY <2>3, <2>5
    <3>2. down'[l] = Append(down[l], [type |-> "hello-ok", id |-> i])
      BY <2>1, <2>2, <2>5, <3>1 DEF Send
    <3>3. down[l] \in Seq(DownMsg) /\ [type |-> "hello-ok", id |-> i] \in DownMsg
      BY <2>1 DEF IInv, TypeOK, DownMsg
    <3>4. In(down'[l], "hello-ok")
      BY <3>2, <3>3, InAppend
    <3> QED BY <2>1, <3>4 DEF Undecided
  <2>6. CASE srv'[l] = "open" /\ k # l
    <3>1. /\ srv'[l] = srv[l] /\ selfId'[l] = selfId[l] /\ up'[l] = up[l]
          /\ down'[l] = down[l]
      BY <2>1, <2>2, <2>3, <2>6 DEF IInv, TypeOK, Send
    <3> QED BY <1>2, <2>1, <3>1, SameSocket
  <2> QED BY <2>4, <2>5, <2>6
<1> QED BY <1>1, <1>2

\* The server's other steps and the end of a socket.
LEMMA NowPlayingPersists ==
  ASSUME IInv, Linked, NEW k \in Conns, NowPlaying(k), NEW p \in Pages, Undecided(p)
  PROVE  Undecided(p)'
<1>1. CASE link[p] = None
  BY <1>1 DEF NowPlaying, pageVars, Undecided
<1>2. CASE link[p] # None
  <2> DEFINE l == link[p]
  <2>1. l \in Conns /\ link'[p] = l
    BY <1>2, LinksApart DEF NowPlaying, pageVars
  <2>2. /\ srv' = srv /\ selfId' = selfId /\ down' = down
        /\ up' = [up EXCEPT ![k] = Tail(@)]
        /\ up[k] # <<>> /\ Head(up[k]).type = "nowplaying"
    BY DEF NowPlaying, CanReceive
  <2>3. up[k] \in Seq(UpMsg)
    BY DEF IInv, TypeOK
  <2>4. In(up[k], "claim") => In(Tail(up[k]), "claim")
    BY <2>2, <2>3, InTail
  <2>5. In(up[l], "claim") => In(up'[l], "claim")
    BY <2>1, <2>2, <2>4 DEF IInv, TypeOK
  <2> QED BY <1>2, <2>1, <2>2, <2>5, SameSocket
<1> QED BY <1>1, <1>2

LEMMA ClosePersists ==
  ASSUME IInv, Linked, NEW k \in Conns, ServerClose(k), NEW p \in Pages, Undecided(p)
  PROVE  Undecided(p)'
<1>1. /\ srv' = [srv EXCEPT ![k] = "closed"] /\ up' = [up EXCEPT ![k] = <<>>]
      /\ UNCHANGED <<selfId, down, link>>
  BY DEF ServerClose, pageVars
<1>2. CASE link[p] = None
  BY <1>1, <1>2 DEF Undecided
<1>3. CASE link[p] = k
  BY <1>1, <1>3 DEF Undecided, IInv, TypeOK
<1>4. CASE link[p] # None /\ link[p] # k
  <2>1. link[p] \in Conns
    BY <1>4, LinksApart
  <2>2. srv'[link[p]] = srv[link[p]] /\ up'[link[p]] = up[link[p]]
    BY <1>1, <1>4, <2>1 DEF IInv, TypeOK
  <2> QED BY <1>1, <1>4, <2>2, SameSocket
<1> QED BY <1>2, <1>3, <1>4

LEMMA RestartPersists ==
  ASSUME IInv, Linked, Restart, NEW p \in Pages, Undecided(p)
  PROVE  Undecided(p)'
<1>1. UNCHANGED <<link, down, selfId>>
  BY DEF Restart, pageVars
<1>2. CASE link[p] = None
  BY <1>1, <1>2 DEF Undecided
<1>3. CASE link[p] # None
  <2>1. link[p] \in Conns
    BY <1>3, LinksApart
  <2>2. srv'[link[p]] # "open"
    BY <2>1 DEF Restart
  <2> QED BY <1>1, <2>2 DEF Undecided
<1> QED BY <1>2, <1>3

\* What one page does to its own socket leaves the others' alone.
LEMMA OthersSocket ==
  ASSUME IInv, Linked, NEW q \in Pages, NEW p \in Pages, p # q, Undecided(p),
         link'[p] = link[p], UNCHANGED <<srv, selfId>>,
         \A k \in Conns : k # link[q] => up'[k] = up[k] /\ down'[k] = down[k]
  PROVE  Undecided(p)'
<1>1. CASE link[p] = None
  BY <1>1 DEF Undecided
<1>2. CASE link[p] # None
  <2>1. link[p] \in Conns /\ link[p] # link[q]
    BY <1>2, LinksApart
  <2> QED BY <1>2, <2>1, SameSocket
<1> QED BY <1>1, <1>2

LEMMA ConnectPersists ==
  ASSUME IInv, Linked, NEW q \in Pages, Connect(q), NEW p \in Pages, Undecided(p)
  PROVE  Undecided(p)'
<1>1. PICK k \in Unused :
        /\ link' = [link EXCEPT ![q] = k]
        /\ srv' = [srv EXCEPT ![k] = "open"]
        /\ up' = [up EXCEPT ![k] = <<[type |-> "hello", id |-> pid[q]]>>]
  BY DEF Connect
<1>2. k \in Conns /\ srv[k] = "unused" /\ selfId[k] = None /\ UNCHANGED <<selfId, down>>
  BY DEF Unused, Connect, IInv, Wiring, UnusedBlank
<1>3. CASE p = q
  BY <1>1, <1>2, <1>3 DEF Undecided, IInv, TypeOK
<1>4. CASE p # q /\ link[p] = None
  BY <1>1, <1>4 DEF Undecided, IInv, TypeOK
<1>5. CASE p # q /\ link[p] # None
  <2>1. link[p] \in Conns /\ link[p] # k
    BY <1>2, <1>5, LinksApart
  <2>2. link'[p] = link[p] /\ srv'[link[p]] = srv[link[p]] /\ up'[link[p]] = up[link[p]]
    BY <1>1, <1>2, <1>5, <2>1 DEF IInv, TypeOK
  <2> QED BY <1>2, <1>5, <2>2, SameSocket
<1> QED BY <1>3, <1>4, <1>5

LEMMA LostPersists ==
  ASSUME IInv, Linked, NEW q \in Pages, ConnectionLost(q) \/ ClosePage(q),
         NEW p \in Pages, Undecided(p)
  PROVE  Undecided(p)'
<1>1. /\ link' = [link EXCEPT ![q] = None] /\ UNCHANGED <<srv, selfId, up>>
      /\ \A k \in Conns : k # link[q] => down'[k] = down[k]
  BY DEF ConnectionLost, ClosePage, serverVars, IInv, TypeOK
<1>2. CASE p = q
  BY <1>1, <1>2 DEF Undecided, IInv, TypeOK
<1>3. CASE p # q
  BY <1>1, <1>3, OthersSocket DEF IInv, TypeOK
<1> QED BY <1>2, <1>3

\* Frames a page puts on its own socket.
LEMMA PostPersists ==
  ASSUME IInv, Linked, NEW q \in Pages, NEW ms \in Seq(UpMsg), Post(q, ms),
         UNCHANGED <<srv, selfId, down, link>>, NEW p \in Pages, Undecided(p)
  PROVE  Undecided(p)'
<1>1. CASE p # q
  BY <1>1, OthersSocket DEF Post, IInv, TypeOK
<1>2. CASE p = q /\ link[p] = None
  BY <1>2 DEF Undecided
<1>3. CASE p = q /\ link[p] # None
  <2>1. link[p] \in Conns /\ up[link[p]] \in Seq(UpMsg)
    BY <1>3, LinksApart DEF IInv, TypeOK
  <2>2. up'[link[p]] = up[link[p]] \o ms
    BY <1>3, <2>1 DEF Post, IInv, TypeOK
  <2>3. In(up[link[p]], "claim") => In(up'[link[p]], "claim")
    BY <2>1, <2>2, InConcat
  <2> QED BY <1>3, <2>3, SameSocket
<1> QED BY <1>1, <1>2, <1>3

\* A claim on a page's own socket leaves it undecided.
LEMMA Claiming ==
  ASSUME IInv, Linked, NEW p \in Pages, NEW ms \in Seq(UpMsg), Post(p, ms),
         In(ms, "claim"), link'[p] = link[p]
  PROVE  Undecided(p)'
<1>1. CASE link[p] = None
  BY <1>1 DEF Undecided
<1>2. CASE link[p] # None
  <2>1. link[p] \in Conns /\ up[link[p]] \in Seq(UpMsg)
    BY <1>2, LinksApart DEF IInv, TypeOK
  <2>2. up'[link[p]] = up[link[p]] \o ms
    BY <1>2, <2>1 DEF Post, IInv, TypeOK
  <2>3. In(up'[link[p]], "claim")
    BY <2>1, <2>2, InConcat
  <2> QED BY <2>3 DEF Undecided
<1> QED BY <1>1, <1>2

LEMMA PressUndecided ==
  ASSUME IInv, Linked, NEW p \in Pages, Press(p)
  PROVE  Undecided(p)'
<1> DEFINE claim == [type |-> "claim", reassert |-> FALSE, ago |-> 0]
<1>1. claim \in UpMsg /\ claim.type = "claim"
  BY SessionAssumption DEF UpMsg, Time
<1>2. Post(p, <<claim>>) /\ link' = link
  BY DEF Press
<1> HIDE DEF claim
<1>3. <<claim>> \in Seq(UpMsg) /\ In(<<claim>>, "claim")
  BY <1>1 DEF In
<1> QED BY <1>2, <1>3, Claiming

LEMMA HelloOkPersists ==
  ASSUME IInv, Linked, Claimers, NEW q \in Pages, OnHelloOk(q),
         NEW p \in Pages, Undecided(p), deck[p] = "playing"
  PROVE  Undecided(p)'
<1>1. /\ Post(q, Flush(q)) /\ HasMail(q, "hello-ok") /\ TakeMail(q)
      /\ UNCHANGED <<srv, selfId, link>>
  BY DEF OnHelloOk, serverVars
<1>2. CASE p # q
  BY <1>1, <1>2, OthersSocket DEF Post, TakeMail, HasMail, IInv, TypeOK
<1>3. CASE p = q
  <2> DEFINE claim == [type |-> "claim", reassert |-> TRUE, ago |-> now - pressedAt[p]]
             rest  == IF pending[p] = "none" THEN <<>>
                      ELSE <<[type |-> "nowplaying", np |-> pending[p]]>>
  <2>1. claimed[p]
    BY DEF Claimers
  <2>2. Flush(p) = <<claim>> \o rest
    <3>1. Reassert(p) = <<claim>>
      BY <2>1, Zenon DEF Reassert
    <3> QED BY <3>1, Zenon DEF Flush
  <2>3. rest \in Seq(UpMsg)
    <3>1. [type |-> "nowplaying", np |-> pending[p]] \in UpMsg
      BY DEF UpMsg, IInv, TypeOK
    <3> QED BY <3>1
  <2>4. claim \in UpMsg /\ claim.type = "claim"
    <3>1. pressedAt[p] \in 0..MaxNow /\ now \in 0..MaxNow /\ pressedAt[p] <= now
      BY DEF IInv, TypeOK, Time, Wiring, PressesPast
    <3>2. claim \in UpMsg
      BY <3>1, SessionAssumption DEF UpMsg, Time
    <3> QED BY <3>2
  <2> HIDE DEF claim, rest
  <2>5. <<claim>> \in Seq(UpMsg) /\ In(<<claim>>, "claim")
    BY <2>4 DEF In
  <2>6. Flush(p) \in Seq(UpMsg)
    BY <2>2, <2>3, <2>5
  <2>7. In(<<claim>> \o rest, "claim")
    BY <2>3, <2>5, InConcat
  <2> QED BY <1>1, <1>3, <2>2, <2>6, <2>7, Claiming
<1> QED BY <1>2, <1>3

LEMMA YieldPersists ==
  ASSUME IInv, Linked, NEW q \in Pages, OnYield(q),
         NEW p \in Pages, Undecided(p), p # q
  PROVE  Undecided(p)'
BY OthersSocket DEF OnYield, TakeMail, HasMail, serverVars, IInv, TypeOK

\* A frame sent to some sockets is on those that are open.
LEMMA Sent ==
  ASSUME TypeOK, NEW ks, NEW m \in DownMsg, down' = Send(down, ks, m), NEW l \in Conns
  PROVE  /\ \A t : In(down[l], t) => In(down'[l], t)
         /\ l \in ks /\ srv[l] = "open" => In(down'[l], m.type)
<1>1. down[l] \in Seq(DownMsg)
  BY DEF TypeOK
<1>2. down'[l] = IF l \in ks /\ srv[l] = "open" THEN Append(down[l], m) ELSE down[l]
  BY DEF Send
<1>3. CASE l \in ks /\ srv[l] = "open"
  BY <1>1, <1>2, <1>3, InAppend
<1>4. CASE ~(l \in ks /\ srv[l] = "open")
  BY <1>2, <1>4
<1> QED BY <1>3, <1>4

\* A claim takes nothing from the pages it is not of.
LEMMA ClaimPersists ==
  ASSUME IInv, Linked, NEW k \in Conns, Claim(k), NEW p \in Pages, link[p] # k,
         Undecided(p)
  PROVE  Undecided(p)'
<1>1. /\ UNCHANGED <<srv, selfId, link>> /\ up' = [up EXCEPT ![k] = Tail(@)]
      /\ \E ks : down' = Send(down, ks, [type |-> "yield"])
  BY DEF Claim, pageVars
<1>2. [type |-> "yield"] \in DownMsg
  BY DEF DownMsg
<1>3. CASE link[p] = None
  BY <1>1, <1>3 DEF Undecided
<1>4. CASE link[p] # None
  <2>1. link[p] \in Conns
    BY <1>4, LinksApart
  <2>2. up'[link[p]] = up[link[p]]
    BY <1>1, <2>1 DEF IInv, TypeOK
  <2>3. \A t : In(down[link[p]], t) => In(down'[link[p]], t)
    BY <1>1, <1>2, <2>1, Sent DEF IInv
  <2> QED BY <1>1, <1>4, <2>2, <2>3, SameSocket
<1> QED BY <1>3, <1>4

\* A claim that is handled reaches the account's other pages or its own: a
\* winner's yield is on every registered socket but its own, a loser's on its.
LEMMA ClaimReaches ==
  ASSUME IInv, Linked, NEW k \in Conns, Claim(k),
         NEW p \in Pages, link[p] = k, NEW q \in Pages, p # q, UserOf[p] = UserOf[q]
  PROVE  Undecided(p)' \/ Undecided(q)'
<1> DEFINE l == link[q]
<1>1. UNCHANGED <<srv, selfId, link>>
  BY DEF Claim, pageVars
<1>2. PICK yields \in BOOLEAN : down' = Send(down, Told(k, yields), [type |-> "yield"])
  <2> DEFINE u == User(k)
             m == Head(up[k])
             held == active[u] # None /\ active[u] # selfId[k] /\ registry[active[u]] # None
             y == m.reassert /\ held /\ claimedAt[u] > PressedOn(m)
  <2>1. down' = Send(down, Told(k, y), [type |-> "yield"])
    BY DEF Claim
  <2>2. Told(k, y) = Told(k, TRUE) \/ Told(k, y) = Told(k, FALSE)
    BY DEF Told
  <2> QED BY <2>1, <2>2
<1>3. [type |-> "yield"] \in DownMsg /\ [type |-> "yield"].type = "yield"
  BY DEF DownMsg
<1>4. CASE srv[k] # "open"
  BY <1>1, <1>4 DEF Undecided
<1>5. CASE srv[k] = "open" /\ yields
  <2>1. In(down'[k], "yield")
    BY <1>2, <1>3, <1>5, Sent DEF Told, IInv
  <2> QED BY <1>1, <2>1 DEF Undecided
<1>6. CASE l = None \/ srv[l] # "open" \/ selfId[l] = None
  BY <1>1, <1>6 DEF Undecided
<1>7. CASE srv[k] = "open" /\ ~yields /\ l # None /\ srv[l] = "open" /\ selfId[l] # None
  <2>1. l \in Conns /\ l # k /\ owner[l] = q
    BY <1>7, LinksApart DEF Linked
  <2>2. selfId[l] \in Ids /\ registry[selfId[l]] = l
    BY <1>7, <2>1 DEF IInv, TypeOK, Wiring, OpenRegistered
  <2>3. owner[k] = p
    BY SessionAssumption DEF Linked
  <2>4. User(l) = User(k)
    BY <2>1, <2>3 DEF User
  <2>5. registry[selfId[k]] = k
    BY <1>7 DEF Claim, IInv, Wiring, OpenRegistered
  <2>6. l \in Members(registry, User(k)) \ {registry[selfId[k]]}
    BY <2>1, <2>2, <2>4, <2>5 DEF Members, Registered
  <2>7. l \in Told(k, yields)
    BY <1>7, <2>6 DEF Told
  <2>8. In(down'[l], "yield")
    BY <1>2, <1>3, <1>7, <2>1, <2>7, Sent DEF IInv
  <2> QED BY <1>1, <2>8 DEF Undecided
<1> QED BY <1>4, <1>5, <1>6, <1>7

\* Whose step it is that a page starts to play by: its own press.
LEMMA Starting ==
  ASSUME IInv, [Next]_vars, NEW p \in Pages, deck'[p] = "playing"
  PROVE  deck[p] = "playing" \/ Press(p)
<1>1. CASE UNCHANGED deck
  BY <1>1
<1>2. ASSUME NEW q \in Pages, Press(q) PROVE deck[p] = "playing" \/ Press(p)
  BY <1>2 DEF Press, IInv, TypeOK
<1>3. ASSUME NEW q \in Pages, NEW d \in Deck, Stop(q, d) PROVE deck[p] = "playing"
  BY <1>3 DEF Stop, IInv, TypeOK
<1>4. ASSUME NEW q \in Pages, ClosePage(q) \/ OnYield(q) PROVE deck[p] = "playing"
  BY <1>4 DEF ClosePage, OnYield, IInv, TypeOK
<1>5. ASSUME NEW k \in Conns, ServerStep(k) \/ ServerClose(k) PROVE UNCHANGED deck
  BY <1>5 DEF ServerStep, Hello, NowPlaying, Claim, ServerClose, pageVars
<1>6. ASSUME NEW q \in Pages, OnHelloOk(q) \/ Connect(q) \/ ConnectionLost(q) \/ Report(q)
      PROVE  UNCHANGED deck
  BY <1>6 DEF OnHelloOk, Connect, ConnectionLost, Report
<1>7. CASE Restart \/ Tick \/ UNCHANGED vars
  BY <1>7 DEF Restart, Tick, vars, pageVars
<1> QED BY <1>1, <1>2, <1>3, <1>4, <1>5, <1>6, <1>7 DEF Next, PageStep, UserStep

\* A page that goes on playing stays undecided through every step but a claim.
LEMMA Persists ==
  ASSUME IInv, Linked, Claimers, [Next]_vars, NEW p \in Pages, Undecided(p),
         deck[p] = "playing", deck'[p] = "playing", \A k \in Conns : ~Claim(k)
  PROVE  Undecided(p)'
<1>1. ASSUME NEW k \in Conns, ServerStep(k) \/ ServerClose(k) PROVE Undecided(p)'
  BY <1>1, HelloPersists, NowPlayingPersists, ClosePersists DEF ServerStep
<1>2. ASSUME NEW q \in Pages, Connect(q) \/ ConnectionLost(q) \/ ClosePage(q)
      PROVE  Undecided(p)'
  BY <1>2, ConnectPersists, LostPersists
<1>3. ASSUME NEW q \in Pages, OnHelloOk(q) PROVE Undecided(p)'
  BY <1>3, HelloOkPersists
<1>4. ASSUME NEW q \in Pages, OnYield(q) PROVE Undecided(p)'
  <2>1. p # q
    BY <1>4 DEF OnYield, IInv, TypeOK
  <2> QED BY <1>4, <2>1, YieldPersists
<1>5. ASSUME NEW q \in Pages, Report(q) PROVE Undecided(p)'
  <2> DEFINE m == [type |-> "nowplaying", np |-> deck[q]]
  <2>1. m \in UpMsg
    BY DEF UpMsg, IInv, TypeOK
  <2>2. <<m>> \in Seq(UpMsg)
    BY <2>1
  <2>3. Post(q, <<m>>) /\ UNCHANGED <<srv, selfId, down, link>>
    BY <1>5 DEF Report, serverVars
  <2> HIDE DEF m
  <2> QED BY <2>2, <2>3, PostPersists
<1>6. ASSUME NEW q \in Pages, Press(q) PROVE Undecided(p)'
  <2> DEFINE m == [type |-> "claim", reassert |-> FALSE, ago |-> 0]
  <2>1. m \in UpMsg
    BY SessionAssumption DEF UpMsg, Time
  <2>2. <<m>> \in Seq(UpMsg)
    BY <2>1
  <2>3. Post(q, <<m>>) /\ UNCHANGED <<srv, selfId, down, link>>
    BY <1>6 DEF Press, serverVars
  <2> HIDE DEF m
  <2> QED BY <2>2, <2>3, PostPersists
<1>7. CASE UNCHANGED <<srv, selfId, up, down, link>>
  BY <1>7 DEF Undecided
<1>8. ASSUME NEW q \in Pages, NEW d \in Deck, Stop(q, d) PROVE Undecided(p)'
  BY <1>7, <1>8 DEF Stop, serverVars
<1>9. CASE Tick \/ UNCHANGED vars
  BY <1>7, <1>9 DEF Tick, vars, serverVars, pageVars
<1> QED BY <1>1, <1>2, <1>3, <1>4, <1>5, <1>6, <1>8, <1>9, RestartPersists
        DEF Next, PageStep, UserStep

LEMMA LinkedKeeps ==
  ASSUME IInv, Linked, [Next]_vars
  PROVE  Linked'
<1>1. CASE UNCHANGED <<link, owner>>
  BY <1>1 DEF Linked
<1>2. ASSUME NEW q \in Pages, Connect(q) PROVE Linked'
  <2>1. PICK k \in Unused : /\ link' = [link EXCEPT ![q] = k]
                            /\ owner' = [owner EXCEPT ![k] = q]
    BY <1>2 DEF Connect
  <2>2. k \in Conns /\ srv[k] = "unused"
    BY DEF Unused
  <2>3. ASSUME NEW p \in Pages, link'[p] # None PROVE owner'[link'[p]] = p
    <3>1. CASE p = q
      BY <2>1, <2>2, <3>1 DEF IInv, TypeOK
    <3>2. CASE p # q
      <4>1. link'[p] = link[p] /\ link[p] # None
        BY <2>1, <2>3, <3>2 DEF IInv, TypeOK
      <4>2. link[p] \in Conns /\ link[p] # k
        BY <2>2, <4>1, LinksApart
      <4> QED BY <2>1, <4>1, <4>2 DEF Linked, IInv, TypeOK
    <3> QED BY <3>1, <3>2
  <2> QED BY <2>3 DEF Linked
<1>3. ASSUME NEW q \in Pages, ConnectionLost(q) \/ ClosePage(q) PROVE Linked'
  <2>1. link' = [link EXCEPT ![q] = None] /\ owner' = owner
    BY <1>3 DEF ConnectionLost, ClosePage
  <2> QED BY <2>1 DEF Linked, IInv, TypeOK
<1>4. ASSUME NEW k \in Conns, ServerStep(k) \/ ServerClose(k)
      PROVE  UNCHANGED <<link, owner>>
  BY <1>4 DEF ServerStep, Hello, NowPlaying, Claim, ServerClose, pageVars
<1>5. ASSUME NEW q \in Pages,
             PageStep(q) \/ Report(q) \/ Press(q) \/ (\E d \in Deck : Stop(q, d))
      PROVE  UNCHANGED <<link, owner>>
  BY <1>5 DEF PageStep, OnHelloOk, OnYield, Report, Press, Stop
<1>6. CASE Restart \/ Tick \/ UNCHANGED vars
  BY <1>1, <1>6 DEF Restart, Tick, vars, pageVars
<1>7. ASSUME NEW q \in Pages,
             PageStep(q) \/ Connect(q) \/ ConnectionLost(q) \/ Report(q) \/ UserStep(q)
      PROVE  Linked'
  BY <1>1, <1>2, <1>3, <1>5, <1>7 DEF UserStep
<1>8. ASSUME NEW k \in Conns, ServerStep(k) \/ ServerClose(k) PROVE Linked'
  BY <1>1, <1>4, <1>8
<1> QED BY <1>6, <1>7, <1>8 DEF Next

LEMMA ClaimersKeeps ==
  ASSUME IInv, Claimers, [Next]_vars
  PROVE  Claimers'
<1>1. CASE UNCHANGED <<deck, claimed, alive>>
  BY <1>1 DEF Claimers
<1>2. ASSUME NEW q \in Pages, Press(q) PROVE Claimers'
  BY <1>2 DEF Press, CanPost, Claimers, IInv, TypeOK
<1>3. ASSUME NEW q \in Pages, NEW d \in Deck, Stop(q, d) PROVE Claimers'
  BY <1>3 DEF Stop, Claimers, IInv, TypeOK
<1>4. ASSUME NEW q \in Pages, OnYield(q) PROVE Claimers'
  BY <1>4 DEF OnYield, HasMail, Claimers, IInv, TypeOK
<1>5. ASSUME NEW q \in Pages, ClosePage(q) PROVE Claimers'
  BY <1>5 DEF ClosePage, Claimers, IInv, TypeOK
<1>6. ASSUME NEW k \in Conns, ServerStep(k) \/ ServerClose(k)
      PROVE  UNCHANGED <<deck, claimed, alive>>
  BY <1>6 DEF ServerStep, Hello, NowPlaying, Claim, ServerClose, pageVars
<1>7. ASSUME NEW q \in Pages, OnHelloOk(q) \/ Report(q) \/ Connect(q) \/ ConnectionLost(q)
      PROVE  UNCHANGED <<deck, claimed, alive>>
  BY <1>7 DEF OnHelloOk, Report, Connect, ConnectionLost
<1>8. CASE Restart \/ Tick \/ UNCHANGED vars
  BY <1>1, <1>8 DEF Restart, Tick, vars, pageVars
<1>9. ASSUME NEW q \in Pages,
             PageStep(q) \/ Connect(q) \/ ConnectionLost(q) \/ Report(q) \/ UserStep(q)
      PROVE  Claimers'
  BY <1>1, <1>2, <1>3, <1>4, <1>5, <1>7, <1>9 DEF PageStep, UserStep
<1>10. ASSUME NEW k \in Conns, ServerStep(k) \/ ServerClose(k) PROVE Claimers'
  BY <1>1, <1>6, <1>10
<1> QED BY <1>8, <1>9, <1>10 DEF Next

LEMMA OneDecidedKeeps ==
  ASSUME IInv, Linked, Claimers, OneDecided, [Next]_vars
  PROVE  OneDecided'
<1> SUFFICES ASSUME NEW p \in Pages, NEW q \in Pages, p # q, UserOf[p] = UserOf[q],
                    deck'[p] = "playing", deck'[q] = "playing"
             PROVE  Undecided(p)' \/ Undecided(q)'
  BY DEF OneDecided
<1>1. CASE Press(p) \/ Press(q)
  BY <1>1, PressUndecided
<1>2. CASE deck[p] = "playing" /\ deck[q] = "playing"
  <2>1. Undecided(p) \/ Undecided(q)
    BY <1>2 DEF OneDecided
  <2>2. CASE \A k \in Conns : ~Claim(k)
    BY <1>2, <2>1, <2>2, Persists
  <2>3. ASSUME NEW k \in Conns, Claim(k) PROVE Undecided(p)' \/ Undecided(q)'
    <3>1. CASE link[p] = k
      BY <2>3, <3>1, ClaimReaches
    <3>2. CASE link[q] = k
      BY <2>3, <3>2, ClaimReaches
    <3>3. CASE link[p] # k /\ link[q] # k
      BY <2>1, <2>3, <3>3, ClaimPersists
    <3> QED BY <3>1, <3>2, <3>3
  <2> QED BY <2>2, <2>3
<1> QED BY <1>1, <1>2, Starting

\* Once everything sent has arrived, nothing is left undecided.
LEMMA NothingLeft ==
  ASSUME IInv, Settled, NEW p \in Pages, alive[p]
  PROVE  ~Undecided(p)
<1>1. link[p] \in Conns /\ link[p] # None /\ srv[link[p]] = "open"
  BY DEF Settled, IInv, TypeOK
<1>2. up[link[p]] = <<>> /\ down[link[p]] = <<>> /\ selfId[link[p]] # None
  BY <1>1 DEF Settled
<1> QED BY <1>1, <1>2 DEF Undecided, In

\* Two of an account's devices never go on playing at once, for any number of
\* accounts, pages and sockets: once everything sent has arrived at most one
\* of an account's pages makes sound.
THEOREM OnePlays == Spec => []OneVoice
<1> DEFINE V == Linked /\ Claimers /\ OneDecided
<1>1. Init => V
  BY DEF Init, Linked, Claimers, OneDecided
<1>2. IInv /\ V /\ [Next]_vars => V'
  BY LinkedKeeps, ClaimersKeeps, OneDecidedKeeps
<1>3. IInv /\ V => OneVoice
  <2> SUFFICES ASSUME IInv, V, Settled, NEW u \in Users
               PROVE  Cardinality(Sounding(u)) <= 1
    BY DEF OneVoice
  <2>1. ASSUME NEW p \in Sounding(u), NEW q \in Sounding(u) PROVE p = q
    <3>1. alive[p] /\ alive[q]
      BY DEF Sounding, Claimers
    <3>2. ~Undecided(p) /\ ~Undecided(q)
      BY <3>1, NothingLeft DEF Sounding
    <3> QED BY <3>2 DEF OneDecided, Sounding
  <2>2. CASE Sounding(u) = {}
    BY <2>2, FS_EmptySet
  <2>3. ASSUME NEW p \in Sounding(u) PROVE Cardinality(Sounding(u)) <= 1
    <3>1. Sounding(u) = {p}
      BY <2>1, <2>3
    <3>2. Cardinality({p}) = 1
      BY FS_Singleton
    <3> QED BY <3>1, <3>2
  <2> QED BY <2>2, <2>3
<1> QED BY <1>1, <1>2, <1>3, Invariant, PTL DEF Spec
-----------------------------------------------------------------------------
(* The clock.  As long as a link ends only with its page or with the server,
   and nobody stops, the session's clock comes to run exactly for the sound of
   the page it is active with.                                             *)

Unbroken == Env \cap {"drop", "stop", "pause"} = {}

\* A page has one open socket, its link, until it is closed.
Wires ==
  /\ \A k \in Conns : srv[k] # "closing"
  /\ \A k \in Conns : srv[k] = "open" /\ alive[owner[k]] => link[owner[k]] = k
  /\ \A j, k \in Conns : srv[j] = "open" /\ srv[k] = "open" /\ owner[j] = owner[k] => j = k
  /\ \A p \in Pages : ~alive[p] => link[p] = None

Unheard == \A k \in Conns : srv[k] = "unused" => np[k] = "none" /\ up[k] = <<>> /\ down[k] = <<>>

RegisteredOpen == \A i \in Ids : registry[i] # None => srv[registry[i]] = "open"

ActiveHere ==
  \A u \in Users : active[u] # None => registry[active[u]] # None /\ User(registry[active[u]]) = u

\* The frames in flight.
UpFrames ==
  \A k \in Conns : \A n \in 1..Len(up[k]) :
    /\ up[k][n].type = "hello" => n = 1 /\ selfId[k] = None
    /\ up[k][n].type = "nowplaying" => up[k][n].np # "none"

DownFrames ==
  \A k \in Conns : \A n \in 1..Len(down[k]) :
    down[k][n].type = "hello-ok" => down[k][n].id = selfId[k]

\* What a page reports and what it has reported.
Decks ==
  \A p \in Pages :
    /\ ~due[p] => pending[p] = deck[p]
    /\ deck[p] = "none" => ~due[p]
    /\ claimed[p] <=> deck[p] = "playing"
    /\ deck[p] # "none" => alive[p]

Silent ==
  \A k \in Conns : srv[k] = "open" /\ alive[owner[k]] /\ deck[owner[k]] = "none"
    => np[k] = "none" /\ ~In(up[k], "nowplaying")

Connected(p) == link[p] # None /\ srv[link[p]] = "open"
Greeted(p)   == Connected(p) /\ selfId[link[p]] # None

\* The last a page has on its way is what its deck is, or it has more to send.
LastWord ==
  \A p \in Pages : Connected(p) /\ ~due[p] /\ up[link[p]] # <<>> =>
    LET m == up[link[p]][Len(up[link[p]])] IN
      m.type = "hello" \/ (m.type = "nowplaying" /\ m.np = deck[p])

Heard ==
  \A p \in Pages : Greeted(p) =>
    due[p] \/ up[link[p]] # <<>> \/ In(down[link[p]], "hello-ok") \/ np[link[p]] = deck[p]

Known ==
  \A p \in Pages : Greeted(p) => In(down[link[p]], "hello-ok") \/ pid[p] = selfId[link[p]]

DecidedActive ==
  \A p \in Pages : deck[p] = "playing" => Undecided(p) \/ active[UserOf[p]] = selfId[link[p]]

\* A page the server will hear from.
Reports(p) ==
  \/ due[p] \/ up[link[p]] # <<>>
  \/ In(down[link[p]], "hello-ok") /\ pending[p] # "none"
  \/ In(down[link[p]], "yield") /\ deck[p] = "playing"

Synced ==
  \A u \in Users : active[u] # None =>
    LET p == owner[registry[active[u]]] IN
      alive[p] => Reports(p) \/ (playing[u] <=> deck[p] = "playing")

Clocked ==
  /\ Linked /\ Wires /\ Unheard /\ RegisteredOpen /\ ActiveHere /\ UpFrames /\ DownFrames
  /\ Decks /\ Silent /\ LastWord /\ Heard /\ Known /\ DecidedActive /\ Synced

-----------------------------------------------------------------------------

\* What a stream holds, frame by frame, as the first is taken off and others put on.
LEMMA AfterTail ==
  ASSUME NEW S, NEW s \in Seq(S), s # <<>>
  PROVE  /\ \A n \in 1..Len(Tail(s)) : n + 1 \in 1..Len(s) /\ Tail(s)[n] = s[n + 1]
         /\ Tail(s) # <<>> => Tail(s)[Len(Tail(s))] = s[Len(s)]
         /\ Tail(s) = <<>> => Len(s) = 1
         /\ Head(s) = s[1] /\ Len(s) \in Nat \ {0}
<1>1. Len(s) \in Nat \ {0} /\ Head(s) = s[1]
  OBVIOUS
<1>2. Tail(s) \in Seq(S) /\ Len(Tail(s)) = Len(s) - 1
  OBVIOUS
<1>3. ASSUME NEW n \in 1..Len(Tail(s)) PROVE n + 1 \in 1..Len(s) /\ Tail(s)[n] = s[n + 1]
  BY <1>1, <1>2
<1>4. ASSUME Tail(s) # <<>> PROVE Tail(s)[Len(Tail(s))] = s[Len(s)]
  <2>1. Len(Tail(s)) \in 1..Len(Tail(s)) /\ Len(Tail(s)) + 1 = Len(s)
    BY <1>1, <1>2, <1>4
  <2> QED BY <1>3, <2>1
<1>5. ASSUME Tail(s) = <<>> PROVE Len(s) = 1
  <2> DEFINE t == Tail(s)
  <2>1. t = <<>> /\ Len(t) = Len(s) - 1
    BY <1>2, <1>5
  <2> HIDE DEF t
  <2>2. Len(t) = 0
    BY <2>1
  <2> QED BY <1>1, <2>1, <2>2
<1> QED BY <1>1, <1>3, <1>4, <1>5

LEMMA AfterConcat ==
  ASSUME NEW S, NEW s \in Seq(S), NEW m \in Seq(S)
  PROVE  /\ \A n \in 1..Len(s \o m) :
              \/ n \in 1..Len(s) /\ (s \o m)[n] = s[n]
              \/ n - Len(s) \in 1..Len(m) /\ (s \o m)[n] = m[n - Len(s)]
         /\ m # <<>> => s \o m # <<>> /\ (s \o m)[Len(s \o m)] = m[Len(m)]
         /\ m = <<>> => s \o m = s
OBVIOUS

LEMMA AfterAppend ==
  ASSUME NEW S, NEW s \in Seq(S), NEW m \in S
  PROVE  \A n \in 1..Len(Append(s, m)) :
           \/ n \in 1..Len(s) /\ Append(s, m)[n] = s[n]
           \/ Append(s, m)[n] = m
OBVIOUS

\* An open socket is of a page, and an id it said hello with is registered to it.
LEMMA OpenOwned ==
  ASSUME IInv, NEW k \in Conns, srv[k] # "unused"
  PROVE  owner[k] \in Pages
BY SessionAssumption DEF IInv, Wiring, UnusedBlank, TypeOK

\* The id an open socket said hello with leads to it.
LEMMA RegisteredTo ==
  ASSUME IInv, NEW k \in Conns, srv[k] = "open", selfId[k] # None
  PROVE  selfId[k] \in Ids /\ registry[selfId[k]] = k
BY DEF IInv, Wiring, OpenRegistered, TypeOK

\* A hello finds its id free: the page has no other socket that could hold it.
LEMMA HelloFresh ==
  ASSUME IInv, Linked, Wires, RegisteredOpen, NEW k \in Conns, Hello(k)
  PROVE  \E i \in Ids :
           /\ registry[i] = None /\ srv' = srv
           /\ registry' = [registry EXCEPT ![i] = k]
           /\ selfId' = [selfId EXCEPT ![k] = i]
           /\ np' = [np EXCEPT ![k] = "none"]
           /\ up' = [up EXCEPT ![k] = Tail(@)]
           /\ down' = Send(down, {k}, [type |-> "hello-ok", id |-> i])
           /\ UNCHANGED <<now, active, claimedAt, playing, owner, pageVars>>
<1>1. PICK i \in Ids :
        /\ IF Taken(k, Head(up[k]).id) THEN Fresh(i) ELSE i = Head(up[k]).id
        /\ registry' = [registry EXCEPT ![i] = k]
        /\ srv' = Replaced(registry[i])
        /\ selfId' = [selfId EXCEPT ![k] = i]
        /\ np' = [np EXCEPT ![k] = "none"]
        /\ up' = [up EXCEPT ![k] = Tail(@)]
        /\ down' = Send(down, {k}, [type |-> "hello-ok", id |-> i])
  BY DEF Hello
<1>2. registry[i] = None
  <2> SUFFICES ASSUME registry[i] # None PROVE FALSE
    OBVIOUS
  <2>1. registry[i] \in Conns /\ selfId[registry[i]] = i /\ srv[registry[i]] = "open"
    BY DEF IInv, Wiring, RegistryFaithful, TypeOK, RegisteredOpen
  <2>2. ~Fresh(i)
    BY <2>1 DEF Fresh
  <2>3. owner[registry[i]] = owner[k]
    BY <1>1, <2>1, <2>2 DEF Taken
  <2>4. srv[k] = "open" /\ selfId[k] = None
    BY DEF Hello, CanReceive, Wires
  <2>5. registry[i] = k
    BY <2>1, <2>3, <2>4 DEF Wires
  <2> QED BY <2>1, <2>4, <2>5, SessionAssumption
<1>3. srv' = srv
  BY <1>1, <1>2, SessionAssumption DEF Replaced, IInv, TypeOK
<1> QED BY <1>1, <1>2, <1>3 DEF Hello

\* The socket the server finds ended is one of a page that was closed.
LEMMA ClosedPages ==
  ASSUME Unbroken, IInv, Linked, Wires, NEW k \in Conns, ServerClose(k)
  PROVE  srv[k] = "open" /\ owner[k] \in Pages /\ ~alive[owner[k]]
<1>1. srv[k] = "open" /\ link[owner[k]] # k
  BY DEF ServerClose, Wires, Unbroken
<1> QED BY <1>1, OpenOwned DEF Wires

\* The steps, part by part: the sockets and the pages at their ends.
LEMMA WiresKeeps ==
  ASSUME Unbroken, IInv, Linked, Wires, RegisteredOpen, [Next]_vars
  PROVE  Wires'
<1>1. CASE UNCHANGED <<srv, owner, alive, link>>
  BY <1>1 DEF Wires
<1>2. ASSUME NEW k \in Conns, Hello(k) PROVE UNCHANGED <<srv, owner, alive, link>>
  BY <1>2, HelloFresh DEF pageVars
<1>3. ASSUME NEW k \in Conns, NowPlaying(k) \/ Claim(k)
      PROVE  UNCHANGED <<srv, owner, alive, link>>
  BY <1>3 DEF NowPlaying, Claim, pageVars
<1>4. ASSUME NEW k \in Conns, ServerClose(k) PROVE Wires'
  <2>1. srv' = [srv EXCEPT ![k] = "closed"] /\ UNCHANGED <<owner, alive, link>>
    BY <1>4 DEF ServerClose, pageVars
  <2>2. \A j \in Conns : srv'[j] # "closing" /\ (srv'[j] = "open" => srv[j] = "open")
    BY <2>1 DEF Wires, IInv, TypeOK
  <2> QED BY <2>1, <2>2 DEF Wires
<1>5. CASE Restart
  <2>1. UNCHANGED <<owner, alive, link>>
    BY <1>5 DEF Restart, pageVars
  <2>2. \A j \in Conns : srv'[j] # "closing" /\ srv'[j] # "open"
    BY <1>5 DEF Restart
  <2> QED BY <2>1, <2>2 DEF Wires
<1>6. ASSUME NEW q \in Pages, Connect(q) PROVE Wires'
  <2>1. PICK k \in Unused : /\ link' = [link EXCEPT ![q] = k]
                            /\ owner' = [owner EXCEPT ![k] = q]
                            /\ srv' = [srv EXCEPT ![k] = "open"]
    BY <1>6 DEF Connect
  <2>2. k \in Conns /\ srv[k] = "unused" /\ alive[q] /\ link[q] = None /\ alive' = alive
    BY <1>6 DEF Connect, Unused
  <2>3. ASSUME NEW j \in Conns, srv[j] = "open" PROVE owner[j] \in Pages /\ owner[j] # q
    <3>1. owner[j] \in Pages
      BY <2>3, OpenOwned
    <3>2. link[q] # j
      BY <2>2, SessionAssumption
    <3> QED BY <2>2, <2>3, <3>1, <3>2 DEF Wires
  <2>4. ASSUME NEW j \in Conns PROVE /\ srv'[j] # "closing"
                                     /\ j # k => srv'[j] = srv[j] /\ owner'[j] = owner[j]
    BY <2>1, <2>4 DEF Wires, IInv, TypeOK
  <2>5. srv'[k] = "open" /\ owner'[k] = q /\ link'[q] = k
    BY <2>1, <2>2 DEF IInv, TypeOK
  <2>6. ASSUME NEW j \in Conns, srv'[j] = "open", alive'[owner'[j]] PROVE link'[owner'[j]] = j
    <3>1. CASE j = k
      BY <2>5, <3>1
    <3>2. CASE j # k
      BY <2>1, <2>2, <2>3, <2>4, <2>6, <3>2 DEF Wires, IInv, TypeOK
    <3> QED BY <3>1, <3>2
  <2>7. ASSUME NEW i \in Conns, NEW j \in Conns, srv'[i] = "open", srv'[j] = "open",
               owner'[i] = owner'[j]
        PROVE  i = j
    BY <2>3, <2>4, <2>5, <2>7 DEF Wires
  <2>8. ASSUME NEW p \in Pages, ~alive'[p] PROVE link'[p] = None
    BY <2>1, <2>2, <2>8 DEF Wires, IInv, TypeOK
  <2> QED BY <2>4, <2>6, <2>7, <2>8 DEF Wires
<1>7. ASSUME NEW q \in Pages, ConnectionLost(q) PROVE Wires'
  <2>1. link' = [link EXCEPT ![q] = None] /\ UNCHANGED <<srv, owner, alive>>
    BY <1>7 DEF ConnectionLost, serverVars
  <2>2. link[q] \in Conns /\ srv[link[q]] = "closed"
    BY <1>7 DEF ConnectionLost, Unbroken, Wires, IInv, TypeOK
  <2> QED BY <2>1, <2>2 DEF Wires, IInv, TypeOK
<1>8. ASSUME NEW q \in Pages, ClosePage(q) PROVE Wires'
  <2>1. link' = [link EXCEPT ![q] = None] /\ alive' = [alive EXCEPT ![q] = FALSE]
        /\ UNCHANGED <<srv, owner>>
    BY <1>8 DEF ClosePage, serverVars
  <2> QED BY <2>1, OpenOwned DEF Wires, IInv, TypeOK
<1>9. ASSUME NEW q \in Pages,
             PageStep(q) \/ Report(q) \/ Press(q) \/ (\E d \in Deck : Stop(q, d))
      PROVE  UNCHANGED <<srv, owner, alive, link>>
  BY <1>9 DEF PageStep, OnHelloOk, OnYield, Report, Press, Stop, serverVars
<1>10. CASE Tick \/ UNCHANGED vars
  BY <1>1, <1>10 DEF Tick, vars, serverVars, pageVars
<1> QED BY <1>1, <1>2, <1>3, <1>4, <1>5, <1>6, <1>7, <1>8, <1>9, <1>10 DEF Next, ServerStep,
   UserStep

\* A socket nobody opened stays silent.
LEMMA UnheardKeeps ==
  ASSUME IInv, Linked, Unheard, [Next]_vars
  PROVE  Unheard'
<1> SUFFICES ASSUME NEW k \in Conns, srv'[k] = "unused"
             PROVE  np'[k] = "none" /\ up'[k] = <<>> /\ down'[k] = <<>>
  BY DEF Unheard
<1>1. ASSUME NEW q \in Pages, link[q] # None PROVE link[q] \in Conns /\ srv[link[q]] # "unused"
  BY <1>1, LinksApart
<1>2. ASSUME NEW j \in Conns, Hello(j)
      PROVE  srv[k] = "unused" /\ UNCHANGED <<np[k], up[k], down[k]>>
  BY <1>2 DEF Hello, CanReceive, Replaced, Send, IInv, TypeOK
<1>3. ASSUME NEW j \in Conns, NowPlaying(j) \/ Claim(j)
      PROVE  srv[k] = "unused" /\ UNCHANGED <<np[k], up[k], down[k]>>
  <2>1. srv' = srv /\ srv[j] # "unused" /\ k # j
    BY <1>3 DEF NowPlaying, Claim, CanReceive
  <2>2. CASE NowPlaying(j)
    BY <2>1, <2>2 DEF NowPlaying, IInv, TypeOK
  <2>3. CASE Claim(j)
    <3>1. up' = [up EXCEPT ![j] = Tail(@)] /\ np' = np
          /\ \E ks : down' = Send(down, ks, [type |-> "yield"])
      BY <2>3 DEF Claim
    <3> QED BY <2>1, <3>1 DEF Send, IInv, TypeOK
  <2> QED BY <1>3, <2>2, <2>3
<1>4. ASSUME NEW j \in Conns, ServerClose(j)
      PROVE  srv[k] = "unused" /\ UNCHANGED <<np[k], up[k], down[k]>>
  BY <1>4 DEF ServerClose, IInv, TypeOK
<1>5. ASSUME Restart
      PROVE  srv[k] = "unused" /\ np'[k] = "none" /\ up'[k] = <<>> /\ down'[k] = down[k]
  BY <1>5 DEF Restart
<1>6. ASSUME NEW q \in Pages, Connect(q)
      PROVE  srv[k] = "unused" /\ UNCHANGED <<np[k], up[k], down[k]>>
  BY <1>6 DEF Connect, Unused, IInv, TypeOK
<1>7. ASSUME NEW q \in Pages, ConnectionLost(q) \/ ClosePage(q)
      PROVE  srv[k] = "unused" /\ UNCHANGED <<np[k], up[k], down[k]>>
  BY <1>1, <1>7 DEF ConnectionLost, ClosePage, serverVars, IInv, TypeOK
<1>8. ASSUME NEW q \in Pages, OnHelloOk(q) \/ OnYield(q)
      PROVE  srv[k] = "unused" /\ UNCHANGED <<np[k], up[k], down[k]>>
  BY <1>1, <1>8 DEF OnHelloOk, OnYield, HasMail, TakeMail, Post, serverVars, IInv, TypeOK
<1>9. ASSUME NEW q \in Pages, Report(q) \/ Press(q) \/ (\E d \in Deck : Stop(q, d))
      PROVE  srv[k] = "unused" /\ UNCHANGED <<np[k], up[k], down[k]>>
  BY <1>1, <1>9 DEF Report, Press, Stop, Post, serverVars, IInv, TypeOK
<1>10. CASE Tick \/ UNCHANGED vars
  BY <1>10 DEF Tick, vars, serverVars, Unheard
<1> QED BY <1>2, <1>3, <1>4, <1>5, <1>6, <1>7, <1>8, <1>9, <1>10
        DEF Next, ServerStep, PageStep, UserStep, Unheard

\* A socket leaves the registry as it ends.
LEMMA RegisteredKeeps ==
  ASSUME Unbroken, IInv, Linked, Wires, RegisteredOpen, [Next]_vars
  PROVE  RegisteredOpen'
<1>1. ASSUME UNCHANGED <<srv, registry>> PROVE RegisteredOpen'
  BY <1>1 DEF RegisteredOpen
<1>2. ASSUME NEW k \in Conns, Hello(k) PROVE RegisteredOpen'
  <2>1. PICK i \in Ids : srv' = srv /\ registry' = [registry EXCEPT ![i] = k]
    BY <1>2, HelloFresh
  <2>2. srv[k] = "open"
    BY <1>2 DEF Hello, CanReceive, Wires
  <2> QED BY <2>1, <2>2 DEF RegisteredOpen, IInv, TypeOK
<1>3. ASSUME NEW k \in Conns, ServerClose(k) PROVE RegisteredOpen'
  <2>1. srv' = [srv EXCEPT ![k] = "closed"]
    BY <1>3 DEF ServerClose
  <2>2. ASSUME NEW i \in Ids, registry'[i] # None
        PROVE  registry[i] = registry'[i] /\ registry[i] # k
    <3>1. registry[i] = k => selfId[k] = i /\ i # None
      BY SessionAssumption DEF IInv, Wiring, RegistryFaithful
    <3>2. CASE selfId[k] = None \/ registry[selfId[k]] # k
      BY <1>3, <2>2, <3>1, <3>2 DEF ServerClose
    <3>3. CASE selfId[k] # None /\ registry[selfId[k]] = k
      <4>1. registry' = [registry EXCEPT ![selfId[k]] = None]
        BY <1>3, <3>3 DEF ServerClose
      <4> QED BY <2>2, <3>1, <4>1 DEF IInv, TypeOK
    <3> QED BY <3>2, <3>3
  <2>3. ASSUME NEW i \in Ids, registry'[i] # None PROVE srv'[registry'[i]] = "open"
    <3>1. registry[i] \in Conns /\ registry[i] # k /\ registry'[i] = registry[i]
      BY <2>2, <2>3 DEF IInv, TypeOK
    <3> QED BY <2>1, <2>3, <3>1 DEF RegisteredOpen, IInv, TypeOK
  <2> QED BY <2>3 DEF RegisteredOpen
<1>4. CASE Restart
  BY <1>4 DEF Restart, RegisteredOpen
<1>5. ASSUME NEW q \in Pages, Connect(q) PROVE RegisteredOpen'
  <2>1. PICK k \in Unused : srv' = [srv EXCEPT ![k] = "open"]
    BY <1>5 DEF Connect
  <2>2. registry' = registry
    BY <1>5 DEF Connect
  <2> QED BY <2>1, <2>2 DEF RegisteredOpen, Unused, IInv, TypeOK
<1>6. ASSUME NEW k \in Conns, NowPlaying(k) \/ Claim(k) PROVE RegisteredOpen'
  BY <1>1, <1>6 DEF NowPlaying, Claim
<1>7. ASSUME NEW q \in Pages, PageStep(q) \/ Report(q) \/ UserStep(q) \/ ConnectionLost(q)
      PROVE  RegisteredOpen'
  BY <1>1, <1>7 DEF PageStep, OnHelloOk, OnYield, Report, UserStep, Press, Stop, ClosePage,
     ConnectionLost, serverVars
<1>8. CASE Tick \/ UNCHANGED vars
  BY <1>1, <1>8 DEF Tick, vars, serverVars
<1> QED BY <1>2, <1>3, <1>4, <1>5, <1>6, <1>7, <1>8 DEF Next, ServerStep

\* A claim makes its sender active, or is turned down.
LEMMA ClaimTakes ==
  ASSUME NEW k \in Conns, Claim(k)
  PROVE  \E yields \in BOOLEAN :
           /\ active' = [active EXCEPT ![User(k)] = IF yields THEN @ ELSE selfId[k]]
           /\ down' = Send(down, Told(k, yields), [type |-> "yield"])
<1> DEFINE u == User(k)
           m == Head(up[k])
           held == active[u] # None /\ active[u] # selfId[k] /\ registry[active[u]] # None
           y == m.reassert /\ held /\ claimedAt[u] > PressedOn(m)
<1>1. /\ active' = [active EXCEPT ![u] = IF y THEN @ ELSE selfId[k]]
      /\ down' = Send(down, Told(k, y), [type |-> "yield"])
  BY DEF Claim
<1> HIDE DEF y
<1>2. CASE y
  <2>1. active' = [active EXCEPT ![u] = IF TRUE THEN @ ELSE selfId[k]]
    BY <1>1, <1>2
  <2>2. Told(k, y) = Told(k, TRUE)
    BY <1>2 DEF Told
  <2> QED BY <1>1, <2>1, <2>2
<1>3. CASE ~y
  <2>1. active' = [active EXCEPT ![u] = IF FALSE THEN @ ELSE selfId[k]]
    BY <1>1, <1>3
  <2>2. Told(k, y) = Told(k, FALSE)
    BY <1>3 DEF Told
  <2> QED BY <1>1, <2>1, <2>2
<1> QED BY <1>2, <1>3

\* The socket of the active client closed: the session goes to one whose page
\* was heard to play, or to nobody.
LEMMA CloseHands ==
  ASSUME IInv, NEW k \in Conns, ServerClose(k), NEW u \in Users
  PROVE  \/ /\ active'[u] = active[u] /\ playing'[u] = playing[u]
            /\ \/ selfId[k] = None \/ registry[selfId[k]] # k
               \/ u # User(k) \/ active[u] # selfId[k]
         \/ /\ active[u] = selfId[k] /\ selfId[k] # None /\ registry[selfId[k]] = k /\ u = User(k)
            /\ \/ /\ active'[u] \in Ids /\ active'[u] # selfId[k] /\ registry[active'[u]] # None
                  /\ User(registry[active'[u]]) = u /\ np[registry[active'[u]]] = "playing"
                  /\ playing'[u] = playing[u]
               \/ /\ active'[u] = None /\ playing'[u] = FALSE
                  /\ \A i \in Ids : i # selfId[k] /\ registry[i] # None /\ User(registry[i]) = u
                       => np[registry[i]] # "playing"
<1>1. CASE selfId[k] = None \/ registry[selfId[k]] # k
  BY <1>1 DEF ServerClose
<1>2. CASE selfId[k] # None /\ registry[selfId[k]] = k
  <2> DEFINE me  == selfId[k]
             reg == [registry EXCEPT ![me] = None]
             still == {i \in Ids : reg[i] # None /\ User(reg[i]) = User(k) /\ np[reg[i]] = "playing"}
  <2>1. \/ active[User(k)] # me /\ UNCHANGED <<active, playing>>
        \/ /\ active[User(k)] = me
           /\ \E i \in still : active' = [active EXCEPT ![User(k)] = i]
           /\ UNCHANGED playing
        \/ active[User(k)] = me /\ still = {} /\ Release(User(k))
    BY <1>2 DEF ServerClose
  <2>2. me \in Ids /\ \A i \in Ids : reg[i] = IF i = me THEN None ELSE registry[i]
    BY <1>2 DEF IInv, TypeOK
  <2>3. still = {i \in Ids : i # me /\ registry[i] # None /\ User(registry[i]) = User(k)
                                   /\ np[registry[i]] = "playing"}
    BY <2>2
  <2> HIDE DEF still, reg
  <2>4. CASE u # User(k) \/ active[User(k)] # me
    <3>1. active'[u] = active[u] /\ playing'[u] = playing[u]
      BY <2>1, <2>4 DEF Release, IInv, TypeOK
    <3> QED BY <2>4, <3>1
  <2>5. CASE u = User(k) /\ active[u] = me
    <3>1. CASE \E i \in still : active' = [active EXCEPT ![User(k)] = i] /\ UNCHANGED playing
      <4>1. PICK i \in still : active' = [active EXCEPT ![User(k)] = i] /\ UNCHANGED playing
        BY <3>1
      <4>2. active'[u] = i
        BY <2>5, <4>1 DEF IInv, TypeOK
      <4> QED BY <1>2, <2>3, <2>5, <4>1, <4>2
    <3>2. CASE still = {} /\ Release(User(k))
      <4>1. active'[u] = None /\ playing'[u] = FALSE
        BY <2>5, <3>2 DEF Release, IInv, TypeOK
      <4> QED BY <1>2, <2>3, <2>5, <3>2, <4>1
    <3> QED BY <2>1, <2>5, <3>1, <3>2
  <2> QED BY <2>4, <2>5
<1> QED BY <1>1, <1>2

\* Whoever becomes active is registered, and one of the account's.
LEMMA ActiveKeeps ==
  ASSUME Unbroken, IInv, Linked, Wires, RegisteredOpen, ActiveHere, [Next]_vars
  PROVE  ActiveHere'
<1>1. ASSUME UNCHANGED <<active, registry, owner>> PROVE ActiveHere'
  BY <1>1 DEF ActiveHere, User
<1>2. ASSUME NEW k \in Conns, Hello(k) PROVE ActiveHere'
  <2>1. PICK i \in Ids : /\ registry[i] = None /\ registry' = [registry EXCEPT ![i] = k]
                         /\ UNCHANGED <<active, owner>>
    BY <1>2, HelloFresh
  <2> QED BY <2>1 DEF ActiveHere, User, IInv, TypeOK
<1>3. ASSUME NEW k \in Conns, NowPlaying(k) PROVE ActiveHere'
  <2>1. srv[k] = "open" /\ selfId[k] # None
    BY <1>3 DEF NowPlaying, CanReceive, Wires
  <2>2. selfId[k] \in Ids /\ registry[selfId[k]] = k
    BY <2>1, RegisteredTo
  <2>3. /\ UNCHANGED <<registry, owner>>
        /\ \A u \in Users : active'[u] \in {active[u], None} \/ (active'[u] = selfId[k] /\ u = User(k))
    BY <1>3 DEF NowPlaying, IInv, TypeOK
  <2> QED BY <2>2, <2>3, SessionAssumption DEF ActiveHere, User
<1>4. ASSUME NEW k \in Conns, Claim(k) PROVE ActiveHere'
  <2>1. srv[k] = "open" /\ selfId[k] # None
    BY <1>4 DEF Claim, CanReceive, Wires
  <2>2. selfId[k] \in Ids /\ registry[selfId[k]] = k
    BY <2>1, RegisteredTo
  <2>3. UNCHANGED <<registry, owner>>
    BY <1>4 DEF Claim
  <2>4. \A u \in Users : active'[u] = active[u] \/ (active'[u] = selfId[k] /\ u = User(k))
    BY <1>4, ClaimTakes DEF IInv, TypeOK
  <2> QED BY <2>2, <2>3, <2>4, SessionAssumption DEF ActiveHere, User
<1>5. ASSUME NEW k \in Conns, ServerClose(k) PROVE ActiveHere'
  <2>1. /\ owner' = owner
        /\ \A i \in Ids : registry[i] # k \/ (i = selfId[k] /\ i # None)
    BY <1>5, SessionAssumption DEF ServerClose, IInv, Wiring, RegistryFaithful
  <2>2. \A i \in Ids : registry[i] # k => registry'[i] = registry[i]
    <3>1. CASE selfId[k] = None \/ registry[selfId[k]] # k
      BY <1>5, <3>1 DEF ServerClose
    <3>2. CASE selfId[k] # None /\ registry[selfId[k]] = k
      <4>1. registry' = [registry EXCEPT ![selfId[k]] = None]
        BY <1>5, <3>2 DEF ServerClose
      <4> QED BY <3>2, <4>1 DEF IInv, TypeOK
    <3> QED BY <3>1, <3>2
  <2>3. ASSUME NEW u \in Users, active'[u] # None
        PROVE  registry'[active'[u]] # None /\ UserOf[owner'[registry'[active'[u]]]] = u
    <3>1. CASE active'[u] = active[u]
      <4>1. active[u] \in Ids /\ registry[active[u]] # None /\ User(registry[active[u]]) = u
        BY <2>3, <3>1 DEF ActiveHere, IInv, TypeOK
      <4>2. registry[active[u]] # k
        <5> SUFFICES ASSUME registry[active[u]] = k PROVE FALSE
          OBVIOUS
        <5>1. active[u] = selfId[k] /\ selfId[k] # None /\ User(k) = u
          BY <2>1, <4>1
        <5>2. active'[u] # selfId[k]
          BY <1>5, <4>1, <5>1, CloseHands
        <5> QED BY <3>1, <5>1, <5>2
      <4> QED BY <2>1, <2>2, <3>1, <4>1, <4>2 DEF User
    <3>2. CASE active'[u] # active[u]
      <4>1. /\ active'[u] \in Ids /\ active'[u] # selfId[k] /\ registry[active'[u]] # None
            /\ User(registry[active'[u]]) = u
        BY <1>5, <2>3, <3>2, CloseHands
      <4> QED BY <2>1, <2>2, <4>1 DEF User
    <3> QED BY <3>1, <3>2
  <2> QED BY <2>3 DEF ActiveHere, User
<1>6. CASE Restart
  BY <1>6 DEF Restart, ActiveHere
<1>7. ASSUME NEW q \in Pages, Connect(q) PROVE ActiveHere'
  <2>1. PICK k \in Unused : owner' = [owner EXCEPT ![k] = q]
    BY <1>7 DEF Connect
  <2>2. k \in Conns /\ srv[k] = "unused" /\ UNCHANGED <<registry, active>>
    BY <1>7 DEF Connect, Unused
  <2>3. ASSUME NEW u \in Users, active[u] # None
        PROVE  registry[active[u]] # None /\ UserOf[owner'[registry[active[u]]]] = u
    <3>1. active[u] \in Ids /\ registry[active[u]] \in Conns /\ registry[active[u]] # None
          /\ srv[registry[active[u]]] = "open" /\ User(registry[active[u]]) = u
      BY <2>3 DEF ActiveHere, RegisteredOpen, IInv, TypeOK
    <3> QED BY <2>1, <2>2, <3>1 DEF User, IInv, TypeOK
  <2> QED BY <2>2, <2>3 DEF ActiveHere, User
<1>8. ASSUME NEW q \in Pages, PageStep(q) \/ Report(q) \/ UserStep(q) \/ ConnectionLost(q)
      PROVE  ActiveHere'
  BY <1>1, <1>8 DEF PageStep, OnHelloOk, OnYield, Report, UserStep, Press, Stop, ClosePage,
     ConnectionLost, serverVars
<1>9. CASE Tick \/ UNCHANGED vars
  BY <1>1, <1>9 DEF Tick, vars, serverVars
<1> QED BY <1>2, <1>3, <1>4, <1>5, <1>6, <1>7, <1>8, <1>9 DEF Next, ServerStep

-----------------------------------------------------------------------------
\* What a page posts: a claim, a report, or both.
LEMMA TwoFrames ==
  ASSUME NEW S, NEW s \in Seq(S), NEW m \in Seq(S), Len(s) = 1, Len(m) = 1
  PROVE  /\ s \o m \in Seq(S) /\ Len(s \o m) = 2
         /\ (s \o m)[1] = s[1] /\ (s \o m)[2] = m[1] /\ s \o m # <<>>
<1>1. /\ s \o m \in Seq(S) /\ Len(s \o m) = Len(s) + Len(m)
      /\ \A i \in 1..Len(s) + Len(m) : (s \o m)[i] = IF i <= Len(s) THEN s[i] ELSE m[i - Len(s)]
  BY ConcatProperties
<1>2. (s \o m)[1] = s[1] /\ (s \o m)[2] = m[1]
  BY <1>1
<1>3. Len(s \o m) = 2
  BY <1>1
<1>4. s \o m # <<>>
  <2> DEFINE t == s \o m
  <2>1. t \in Seq(S) /\ Len(t) = 2
    BY <1>1, <1>3
  <2> HIDE DEF t
  <2>2. t # <<>>
    BY <2>1
  <2> QED BY <2>2 DEF t
<1> QED BY <1>1, <1>2, <1>3, <1>4

\* What a greeted page sends: nothing if it has nothing loaded, else its report last.
LEMMA FlushShape ==
  ASSUME IInv, Decks, NEW p \in Pages
  PROVE  /\ Flush(p) \in Seq(UpMsg)
         /\ \A n \in 1..Len(Flush(p)) : \/ Flush(p)[n].type = "claim"
                                        \/ Flush(p)[n].type = "nowplaying" /\ Flush(p)[n].np # "none"
         /\ Flush(p) # <<>> => /\ deck[p] # "none"
                               /\ \/ due[p]
                                  \/ /\ Flush(p)[Len(Flush(p))].type = "nowplaying"
                                     /\ Flush(p)[Len(Flush(p))].np = deck[p]
         /\ pending[p] # "none" => Flush(p) # <<>>
         /\ Flush(p) = <<>> /\ ~due[p] => deck[p] = "none"
<1> DEFINE c == [type |-> "claim", reassert |-> TRUE, ago |-> now - pressedAt[p]]
           r == [type |-> "nowplaying", np |-> pending[p]]
<1>1. c \in UpMsg /\ c.type = "claim"
  <2>1. pressedAt[p] \in 0..MaxNow /\ now \in 0..MaxNow /\ pressedAt[p] <= now
    BY DEF IInv, TypeOK, Time, Wiring, PressesPast
  <2>2. c \in UpMsg
    BY <2>1, SessionAssumption DEF UpMsg, Time
  <2> QED BY <2>2
<1>2. r \in UpMsg /\ r.type = "nowplaying" /\ r.np = pending[p]
  <2>1. r \in UpMsg
    BY DEF UpMsg, IInv, TypeOK
  <2> QED BY <2>1
<1>3. Reassert(p) = IF claimed[p] THEN <<c>> ELSE <<>>
  BY DEF Reassert
<1>4. Flush(p) = Reassert(p) \o (IF pending[p] = "none" THEN <<>> ELSE <<r>>)
  BY DEF Flush
<1>5. /\ ~due[p] => pending[p] = deck[p]
      /\ deck[p] = "none" => ~due[p]
      /\ claimed[p] => deck[p] = "playing"
  BY DEF Decks
<1> HIDE DEF c, r
<1>6. CASE claimed[p] /\ pending[p] # "none"
  <2>1. Flush(p) = <<c>> \o <<r>>
    BY <1>3, <1>4, <1>6, Zenon
  <2>2. /\ <<c>> \in Seq(UpMsg) /\ Len(<<c>>) = 1 /\ <<c>>[1] = c
        /\ <<r>> \in Seq(UpMsg) /\ Len(<<r>>) = 1 /\ <<r>>[1] = r
    BY <1>1, <1>2
  <2>3. PICK s \in Seq(UpMsg), m \in Seq(UpMsg) :
          Flush(p) = s \o m /\ Len(s) = 1 /\ s[1] = c /\ Len(m) = 1 /\ m[1] = r
    BY <2>1, <2>2
  <2>4. /\ Len(Flush(p)) = 2 /\ Flush(p) \in Seq(UpMsg)
        /\ Flush(p)[1] = c /\ Flush(p)[2] = r /\ Flush(p) # <<>>
    BY <2>3, TwoFrames
  <2> QED BY <1>1, <1>2, <1>5, <1>6, <2>4
<1>7. CASE claimed[p] /\ pending[p] = "none"
  <2>1. Flush(p) = <<c>>
    BY <1>1, <1>3, <1>4, <1>7
  <2> QED BY <1>1, <1>5, <1>7, <2>1
<1>8. CASE ~claimed[p] /\ pending[p] # "none"
  <2>1. Flush(p) = <<r>>
    BY <1>2, <1>3, <1>4, <1>8
  <2> QED BY <1>2, <1>5, <1>8, <2>1
<1>9. CASE ~claimed[p] /\ pending[p] = "none"
  <2>1. Flush(p) = <<>>
    BY <1>3, <1>4, <1>9
  <2> QED BY <1>5, <1>9, <2>1
<1> QED BY <1>6, <1>7, <1>8, <1>9

\* Frames taken off and put on leave the ones in flight in their order.
LEMMA TailUp ==
  ASSUME TypeOK, UpFrames, NEW k \in Conns, up[k] # <<>>, up' = [up EXCEPT ![k] = Tail(@)],
         \A j \in Conns : j # k => selfId'[j] = selfId[j]
  PROVE  UpFrames'
<1> SUFFICES ASSUME NEW j \in Conns, NEW n \in 1..Len(up'[j])
             PROVE  /\ up'[j][n].type = "hello" => n = 1 /\ selfId'[j] = None
                    /\ up'[j][n].type = "nowplaying" => up'[j][n].np # "none"
  BY DEF UpFrames
<1>1. CASE j # k
  BY <1>1 DEF UpFrames, TypeOK
<1>2. CASE j = k
  <2>1. up'[j] = Tail(up[k]) /\ up[k] \in Seq(UpMsg)
    BY <1>2 DEF TypeOK
  <2> DEFINE t == Tail(up[k])
  <2>4. t \in Seq(UpMsg) /\ up'[j] = t
    BY <2>1
  <2> HIDE DEF t
  <2>5. n \in 1..Len(t) /\ n \in Nat \ {0} /\ up'[j][n] = t[n]
    BY <2>4
  <2>2. n \in 1..Len(Tail(up[k])) /\ n \in Nat \ {0} /\ up'[j][n] = Tail(up[k])[n]
    BY <2>5 DEF t
  <2>3. n + 1 \in 1..Len(up[k]) /\ Tail(up[k])[n] = up[k][n + 1]
    BY <2>1, <2>2, AfterTail
  <2> QED BY <1>2, <2>2, <2>3 DEF UpFrames
<1> QED BY <1>1, <1>2

LEMMA PostUp ==
  ASSUME TypeOK, UpFrames, NEW q \in Pages, NEW ms \in Seq(UpMsg), Post(q, ms), selfId' = selfId,
         \A n \in 1..Len(ms) : ms[n].type # "hello" /\ (ms[n].type = "nowplaying" => ms[n].np # "none")
  PROVE  UpFrames'
<1>1. CASE link[q] = None
  BY <1>1 DEF Post, UpFrames
<1>2. CASE link[q] # None
  <2> DEFINE l == link[q]
  <2>1. l \in Conns /\ up[l] \in Seq(UpMsg) /\ up' = [up EXCEPT ![l] = @ \o ms]
    BY <1>2 DEF Post, TypeOK
  <2> SUFFICES ASSUME NEW j \in Conns, NEW n \in 1..Len(up'[j])
               PROVE  /\ up'[j][n].type = "hello" => n = 1 /\ selfId[j] = None
                      /\ up'[j][n].type = "nowplaying" => up'[j][n].np # "none"
    BY DEF UpFrames
  <2>2. CASE j # l
    BY <2>1, <2>2 DEF UpFrames, TypeOK
  <2>3. CASE j = l
    <3>1. up'[j] = up[l] \o ms
      BY <2>1, <2>3 DEF TypeOK
    <3>2. \/ n \in 1..Len(up[l]) /\ up'[j][n] = up[l][n]
          \/ n - Len(up[l]) \in 1..Len(ms) /\ up'[j][n] = ms[n - Len(up[l])]
      BY <2>1, <3>1, AfterConcat
    <3> QED BY <2>1, <2>3, <3>2 DEF UpFrames
  <2> QED BY <2>2, <2>3
<1> QED BY <1>1, <1>2

\* A page that reports has something to report.
LEMMA ReportShape ==
  ASSUME IInv, Decks, NEW p \in Pages, Report(p)
  PROVE  deck[p] # "none"
BY DEF Report, Decks

\* The frames in flight, both ways.
LEMMA UpFramesKeeps ==
  ASSUME IInv, Linked, Decks, UpFrames, [Next]_vars
  PROVE  UpFrames'
<1> USE DEF IInv
<1>1. CASE UNCHANGED <<up, selfId>>
  BY <1>1 DEF UpFrames
<1>2. ASSUME NEW k \in Conns, Hello(k) PROVE UpFrames'
  <2>1. PICK i \in Ids : selfId' = [selfId EXCEPT ![k] = i]
    BY <1>2 DEF Hello
  <2>2. \A j \in Conns : j # k => selfId'[j] = selfId[j]
    BY <2>1 DEF TypeOK
  <2>3. up[k] # <<>> /\ up' = [up EXCEPT ![k] = Tail(@)]
    BY <1>2 DEF Hello, CanReceive
  <2> QED BY <2>2, <2>3, TailUp
<1>3. ASSUME NEW k \in Conns, NowPlaying(k) \/ Claim(k) PROVE UpFrames'
  <2>1. up[k] # <<>> /\ up' = [up EXCEPT ![k] = Tail(@)] /\ selfId' = selfId
    BY <1>3 DEF NowPlaying, Claim, CanReceive
  <2> QED BY <2>1, TailUp
<1>4. ASSUME NEW k \in Conns, ServerClose(k) PROVE UpFrames'
  <2>1. up' = [up EXCEPT ![k] = <<>>] /\ selfId' = selfId
    BY <1>4 DEF ServerClose
  <2>2. ASSUME NEW j \in Conns, NEW n \in 1..Len(up'[j]) PROVE up'[j] = up[j]
    BY <2>1, <2>2 DEF TypeOK
  <2> QED BY <2>1, <2>2 DEF UpFrames
<1>5. CASE Restart
  <2>1. \A j \in Conns : up'[j] = <<>>
    BY <1>5 DEF Restart
  <2> QED BY <2>1 DEF UpFrames
<1>6. ASSUME NEW q \in Pages, Connect(q) PROVE UpFrames'
  <2> DEFINE h == [type |-> "hello", id |-> pid[q]]
  <2>1. PICK k \in Unused : up' = [up EXCEPT ![k] = <<h>>]
    BY <1>6 DEF Connect
  <2>2. k \in Conns /\ selfId[k] = None /\ selfId' = selfId
    BY <1>6 DEF Connect, Unused, Wiring, UnusedBlank
  <2>3. h.type = "hello"
    OBVIOUS
  <2> HIDE DEF h
  <2>4. ASSUME NEW n \in 1..Len(up'[k])
        PROVE  n = 1 /\ up'[k][n].type = "hello"
    BY <2>1, <2>2, <2>3 DEF TypeOK
  <2>5. \A j \in Conns : j # k => up'[j] = up[j]
    BY <2>1 DEF TypeOK
  <2> QED BY <2>2, <2>4, <2>5 DEF UpFrames
<1>7. ASSUME NEW q \in Pages, OnHelloOk(q) PROVE UpFrames'
  <2>1. Post(q, Flush(q)) /\ selfId' = selfId
    BY <1>7 DEF OnHelloOk, serverVars
  <2> QED BY <2>1, FlushShape, PostUp
<1>8. ASSUME NEW q \in Pages, Report(q) PROVE UpFrames'
  <2> DEFINE m == [type |-> "nowplaying", np |-> deck[q]]
  <2>1. m \in UpMsg /\ m.type = "nowplaying" /\ m.np # "none"
    <3>1. m \in UpMsg
      BY DEF UpMsg, TypeOK
    <3> QED BY <1>8, <3>1, ReportShape
  <2>2. Post(q, <<m>>) /\ selfId' = selfId
    BY <1>8 DEF Report, serverVars
  <2> HIDE DEF m
  <2>3. <<m>> \in Seq(UpMsg) /\ \A n \in 1..Len(<<m>>) : <<m>>[n] = m
    BY <2>1
  <2> QED BY <2>1, <2>2, <2>3, PostUp
<1>9. ASSUME NEW q \in Pages, Press(q) PROVE UpFrames'
  <2> DEFINE m == [type |-> "claim", reassert |-> FALSE, ago |-> 0]
  <2>1. m \in UpMsg /\ m.type = "claim"
    <3>1. m \in UpMsg
      BY SessionAssumption DEF UpMsg, Time
    <3> QED BY <3>1
  <2>2. Post(q, <<m>>) /\ selfId' = selfId
    BY <1>9 DEF Press, serverVars
  <2> HIDE DEF m
  <2>3. <<m>> \in Seq(UpMsg) /\ \A n \in 1..Len(<<m>>) : <<m>>[n] = m
    BY <2>1
  <2> QED BY <2>1, <2>2, <2>3, PostUp
<1>10. ASSUME NEW q \in Pages,
              OnYield(q) \/ ConnectionLost(q) \/ ClosePage(q) \/ (\E d \in Deck : Stop(q, d))
       PROVE  UpFrames'
  BY <1>1, <1>10 DEF OnYield, ConnectionLost, ClosePage, Stop, serverVars
<1>11. CASE Tick \/ UNCHANGED vars
  BY <1>1, <1>11 DEF Tick, vars, serverVars
<1> QED BY <1>2, <1>3, <1>4, <1>5, <1>6, <1>7, <1>8, <1>9, <1>10, <1>11
        DEF Next, ServerStep, PageStep, UserStep

\* Of the frames to the pages, those a page takes leave the others.
LEMMA TailDown ==
  ASSUME TypeOK, DownFrames, NEW q \in Pages, link[q] # None, down[link[q]] # <<>>, TakeMail(q),
         selfId' = selfId
  PROVE  DownFrames'
<1> SUFFICES ASSUME NEW j \in Conns, NEW n \in 1..Len(down'[j]), down'[j][n].type = "hello-ok"
             PROVE  down'[j][n].id = selfId[j]
  BY DEF DownFrames
<1>1. link[q] \in Conns /\ down' = [down EXCEPT ![link[q]] = Tail(@)]
  BY DEF TypeOK, TakeMail
<1>2. CASE j # link[q]
  BY <1>1, <1>2 DEF DownFrames, TypeOK
<1>3. CASE j = link[q]
  <2>1. down'[j] = Tail(down[j]) /\ down[j] \in Seq(DownMsg)
    BY <1>1, <1>3 DEF TypeOK
  <2>2. n + 1 \in 1..Len(down[j]) /\ down'[j][n] = down[j][n + 1]
    BY <1>3, <2>1, AfterTail
  <2> QED BY <2>2 DEF DownFrames
<1> QED BY <1>2, <1>3

\* Frames sent, each of the socket it is sent to.
LEMMA SendDown ==
  ASSUME TypeOK, DownFrames, NEW ks, NEW m \in DownMsg, down' = Send(down, ks, m),
         NEW j \in Conns, NEW n \in 1..Len(down'[j])
  PROVE  \/ n \in 1..Len(down[j]) /\ down'[j][n] = down[j][n]
         \/ j \in ks /\ down'[j][n] = m
<1>1. down[j] \in Seq(DownMsg)
  BY DEF TypeOK
<1>2. down'[j] = IF j \in ks /\ srv[j] = "open" THEN Append(down[j], m) ELSE down[j]
  BY DEF Send
<1> QED BY <1>1, <1>2, AfterAppend

\* A hello-ok carries the id its socket was given.
LEMMA DownFramesKeeps ==
  ASSUME IInv, DownFrames, [Next]_vars
  PROVE  DownFrames'
<1> USE DEF IInv
<1>1. CASE UNCHANGED <<down, selfId>>
  BY <1>1 DEF DownFrames
<1>2. ASSUME NEW k \in Conns, Hello(k) PROVE DownFrames'
  <2>0. PICK i \in Ids : /\ selfId' = [selfId EXCEPT ![k] = i] /\ selfId[k] = None
                         /\ down' = Send(down, {k}, [type |-> "hello-ok", id |-> i])
    BY <1>2 DEF Hello
  <2> DEFINE h == [type |-> "hello-ok", id |-> i]
             ks == {k}
  <2>1. selfId' = [selfId EXCEPT ![k] = i] /\ selfId[k] = None /\ down' = Send(down, ks, h)
    BY <2>0
  <2>2. h \in DownMsg /\ h.id = i /\ \A x : x \in ks => x = k
    BY DEF DownMsg
  <2> HIDE DEF h, ks
  <2>3. ASSUME NEW j \in Conns, NEW n \in 1..Len(down'[j]), down'[j][n].type = "hello-ok"
        PROVE  down'[j][n].id = selfId'[j]
    <3>1. CASE n \in 1..Len(down[j]) /\ down'[j][n] = down[j][n]
      <4>1. down[j][n].id = selfId[j] /\ down[j][n] \in DownMsg
        BY <2>3, <3>1 DEF DownFrames, TypeOK
      <4>2. down[j][n].id \in Ids
        BY <2>3, <3>1, <4>1, DownShape
      <4>3. j # k
        BY <2>1, <4>1, <4>2, SessionAssumption
      <4> QED BY <2>1, <3>1, <4>1, <4>3 DEF TypeOK
    <3>2. CASE j = k /\ down'[j][n] = h
      BY <2>1, <2>2, <3>2 DEF TypeOK
    <3>3. \/ n \in 1..Len(down[j]) /\ down'[j][n] = down[j][n]
          \/ j \in ks /\ down'[j][n] = h
      BY <2>1, <2>2, SendDown
    <3> QED BY <2>2, <3>1, <3>2, <3>3
  <2> QED BY <2>3 DEF DownFrames
<1>3. ASSUME NEW k \in Conns, NowPlaying(k) PROVE DownFrames'
  BY <1>1, <1>3 DEF NowPlaying
<1>4. ASSUME NEW k \in Conns, Claim(k) PROVE DownFrames'
  <2>1. PICK ks : down' = Send(down, ks, [type |-> "yield"])
    BY <1>4 DEF Claim
  <2>2. [type |-> "yield"] \in DownMsg /\ selfId' = selfId
    BY <1>4 DEF DownMsg, Claim
  <2>3. ASSUME NEW j \in Conns, NEW n \in 1..Len(down'[j]), down'[j][n].type = "hello-ok"
        PROVE  n \in 1..Len(down[j]) /\ down'[j][n] = down[j][n]
    BY <2>1, <2>2, <2>3, SendDown
  <2> QED BY <2>2, <2>3 DEF DownFrames
<1>5. ASSUME NEW k \in Conns, ServerClose(k) PROVE DownFrames'
  BY <1>1, <1>5 DEF ServerClose
<1>6. ASSUME NEW q \in Pages, ConnectionLost(q) \/ ClosePage(q) PROVE DownFrames'
  <2>1. selfId' = selfId
    BY <1>6 DEF ConnectionLost, ClosePage, serverVars
  <2>2. ASSUME NEW j \in Conns, NEW n \in 1..Len(down'[j]) PROVE down'[j] = down[j]
    BY <1>6, <2>2 DEF ConnectionLost, ClosePage, TypeOK
  <2> QED BY <2>1, <2>2 DEF DownFrames
<1>7. ASSUME NEW q \in Pages, OnHelloOk(q) \/ OnYield(q) PROVE DownFrames'
  <2>1. link[q] # None /\ down[link[q]] # <<>> /\ TakeMail(q) /\ selfId' = selfId
    BY <1>7 DEF OnHelloOk, OnYield, HasMail, serverVars
  <2> QED BY <2>1, TailDown
<1>8. ASSUME NEW q \in Pages, Connect(q) \/ Report(q) \/ Press(q) \/ (\E d \in Deck : Stop(q, d))
      PROVE  DownFrames'
  BY <1>1, <1>8 DEF Connect, Report, Press, Stop, serverVars
<1>9. CASE Restart \/ Tick \/ UNCHANGED vars
  BY <1>1, <1>9 DEF Restart, Tick, vars, serverVars
<1> QED BY <1>2, <1>3, <1>4, <1>5, <1>6, <1>7, <1>8, <1>9 DEF Next, ServerStep, PageStep,
   UserStep

\* Decks, claims and reports go together at the pages.
LEMMA DecksKeeps ==
  ASSUME Unbroken, IInv, Decks, [Next]_vars
  PROVE  Decks'
<1> USE DEF IInv
<1>1. CASE UNCHANGED <<due, pending, deck, claimed, alive>>
  BY <1>1 DEF Decks
<1>2. ASSUME NEW k \in Conns, ServerStep(k) \/ ServerClose(k)
      PROVE  UNCHANGED <<due, pending, deck, claimed, alive>>
  BY <1>2 DEF ServerStep, Hello, NowPlaying, Claim, ServerClose, pageVars
<1>3. ASSUME NEW q \in Pages, OnHelloOk(q) \/ Connect(q) \/ ConnectionLost(q)
      PROVE  UNCHANGED <<due, pending, deck, claimed, alive>>
  BY <1>3 DEF OnHelloOk, Connect, ConnectionLost
<1>4. ASSUME NEW q \in Pages, OnYield(q) PROVE Decks'
  BY <1>4 DEF OnYield, HasMail, Decks, TypeOK
<1>5. ASSUME NEW q \in Pages, Report(q) PROVE Decks'
  BY <1>5 DEF Report, Decks, TypeOK
<1>6. ASSUME NEW q \in Pages, Press(q) PROVE Decks'
  BY <1>6 DEF Press, CanPost, Decks, TypeOK
<1>7. ASSUME NEW q \in Pages, ClosePage(q) PROVE Decks'
  BY <1>7 DEF ClosePage, Decks, TypeOK
<1>8. ASSUME NEW q \in Pages, NEW d \in Deck, Stop(q, d) PROVE FALSE
  BY <1>8 DEF Stop, Unbroken
<1>9. CASE Restart \/ Tick \/ UNCHANGED vars
  BY <1>1, <1>9 DEF Restart, Tick, vars, pageVars
<1> QED BY <1>1, <1>2, <1>3, <1>4, <1>5, <1>6, <1>7, <1>8, <1>9 DEF Next, PageStep, UserStep

\* A page whose state and socket a step leaves alone, but for frames to it.
Same(p) ==
  /\ link[p] # None /\ link'[p] = link[p] /\ srv[link[p]] = "open"
  /\ UNCHANGED <<alive[p], due[p], deck[p], pid[p], pending[p], claimed[p]>>
  /\ selfId'[link[p]] = selfId[link[p]] /\ np'[link[p]] = np[link[p]] /\ up'[link[p]] = up[link[p]]
  /\ \A t : In(down[link[p]], t) => In(down'[link[p]], t)

\* The steps of a page's own: of its socket at the server, and by itself.
Own(p) ==
  \/ link[p] \in Conns /\ link[p] # None /\ srv[link[p]] = "open" /\ ServerStep(link[p])
  \/ link[p] \in Conns /\ link[p] # None /\ srv[link[p]] = "open"
     /\ (PageStep(p) \/ Report(p) \/ Press(p))
  \/ Connect(p)

\* Every step is a page's own or leaves it alone.
LEMMA Bystander ==
  ASSUME Unbroken, IInv, Linked, Wires, RegisteredOpen, [Next]_vars, NEW p \in Pages,
         Connected(p)'
  PROVE  Same(p) \/ Own(p)
<1> USE DEF IInv
<1> DEFINE l == link[p]
<1>1. ASSUME l # None PROVE l \in Conns /\ \A q \in Pages : q # p => link[q] # l
  BY <1>1, LinksApart
<1>2. ASSUME link'[p] = l, UNCHANGED srv PROVE l # None /\ l \in Conns /\ srv[l] = "open"
  BY <1>1, <1>2 DEF Connected
<1>3. ASSUME NEW k \in Conns, Hello(k) PROVE Same(p) \/ Own(p)
  <2>1. PICK i \in Ids : /\ srv' = srv /\ selfId' = [selfId EXCEPT ![k] = i]
                         /\ np' = [np EXCEPT ![k] = "none"] /\ up' = [up EXCEPT ![k] = Tail(@)]
                         /\ down' = Send(down, {k}, [type |-> "hello-ok", id |-> i])
                         /\ UNCHANGED pageVars
    BY <1>3, HelloFresh
  <2>2. l # None /\ l \in Conns /\ srv[l] = "open"
    BY <1>2, <2>1 DEF pageVars
  <2>3. CASE k = l
    BY <1>3, <2>2, <2>3 DEF Own, ServerStep
  <2>4. CASE k # l
    <3>1. down'[l] = down[l] /\ selfId'[l] = selfId[l] /\ np'[l] = np[l] /\ up'[l] = up[l]
      BY <2>1, <2>2, <2>4 DEF Send, TypeOK
    <3> QED BY <2>1, <2>2, <3>1 DEF Same, pageVars
  <2> QED BY <2>3, <2>4
<1>4. ASSUME NEW k \in Conns, NowPlaying(k) PROVE Same(p) \/ Own(p)
  <2>1. /\ np' = [np EXCEPT ![k] = Head(up[k]).np] /\ up' = [up EXCEPT ![k] = Tail(@)]
        /\ UNCHANGED <<srv, selfId, down, pageVars>>
    BY <1>4 DEF NowPlaying
  <2>2. l # None /\ l \in Conns /\ srv[l] = "open"
    BY <1>2, <2>1 DEF pageVars
  <2>3. CASE k = l
    BY <1>4, <2>2, <2>3 DEF Own, ServerStep
  <2>4. CASE k # l
    <3>1. np'[l] = np[l] /\ up'[l] = up[l]
      BY <2>1, <2>2, <2>4 DEF TypeOK
    <3> QED BY <2>1, <2>2, <3>1 DEF Same, pageVars
  <2> QED BY <2>3, <2>4
<1>5. ASSUME NEW k \in Conns, Claim(k) PROVE Same(p) \/ Own(p)
  <2>1. /\ up' = [up EXCEPT ![k] = Tail(@)]
        /\ UNCHANGED <<srv, selfId, np, pageVars>>
    BY <1>5 DEF Claim
  <2>2. l # None /\ l \in Conns /\ srv[l] = "open"
    BY <1>2, <2>1 DEF pageVars
  <2>3. CASE k = l
    BY <1>5, <2>2, <2>3 DEF Own, ServerStep
  <2>4. CASE k # l
    <3>1. up'[l] = up[l]
      BY <2>1, <2>2, <2>4 DEF TypeOK
    <3>2. PICK ks : down' = Send(down, ks, [type |-> "yield"])
      BY <1>5 DEF Claim
    <3>3. [type |-> "yield"] \in DownMsg
      BY DEF DownMsg
    <3>4. \A t : In(down[l], t) => In(down'[l], t)
      BY <2>2, <3>2, <3>3, Sent
    <3> QED BY <2>1, <2>2, <3>1, <3>4 DEF Same, pageVars
  <2> QED BY <2>3, <2>4
<1>6. ASSUME NEW k \in Conns, ServerClose(k) PROVE Same(p)
  <2>1. /\ srv' = [srv EXCEPT ![k] = "closed"] /\ np' = [np EXCEPT ![k] = "none"]
        /\ up' = [up EXCEPT ![k] = <<>>] /\ UNCHANGED <<selfId, down, pageVars>>
    BY <1>6 DEF ServerClose
  <2>2. l # None /\ l \in Conns /\ srv'[l] = "open"
    BY <1>1, <2>1 DEF Connected, pageVars
  <2>3. l # k
    BY <2>1, <2>2 DEF TypeOK
  <2>4. srv[l] = "open" /\ np'[l] = np[l] /\ up'[l] = up[l]
    BY <2>1, <2>2, <2>3 DEF TypeOK
  <2> QED BY <2>1, <2>2, <2>4 DEF Same, pageVars
<1>7. CASE Restart
  <2>1. link' = link
    BY <1>7 DEF Restart, pageVars
  <2>2. l # None /\ l \in Conns /\ srv'[l] = "open"
    BY <1>1, <2>1 DEF Connected
  <2> QED BY <1>7, <2>2 DEF Restart
<1>8. ASSUME NEW q \in Pages, Connect(q), q # p PROVE Same(p)
  <2>1. PICK k \in Unused : /\ link' = [link EXCEPT ![q] = k] /\ srv' = [srv EXCEPT ![k] = "open"]
                            /\ up' = [up EXCEPT ![k] = <<[type |-> "hello", id |-> pid[q]]>>]
    BY <1>8 DEF Connect
  <2>2. /\ k \in Conns /\ srv[k] = "unused"
        /\ UNCHANGED <<selfId, np, down, alive, pid, claimed, deck, due, pending>>
    BY <1>8 DEF Connect, Unused
  <2>3. link'[p] = l /\ l # None /\ l \in Conns
    BY <1>1, <1>8, <2>1 DEF Connected, TypeOK
  <2>4. l # k
    BY <2>2, <2>3, LinksApart
  <2>5. srv[l] = "open" /\ up'[l] = up[l]
    BY <2>1, <2>2, <2>3, <2>4 DEF Connected, TypeOK
  <2> QED BY <2>2, <2>3, <2>5 DEF Same
<1>9. ASSUME NEW q \in Pages, ConnectionLost(q) \/ ClosePage(q) PROVE Same(p)
  <2>1. link' = [link EXCEPT ![q] = None] /\ UNCHANGED <<srv, selfId, np, up>>
    BY <1>9 DEF ConnectionLost, ClosePage, serverVars
  <2>2. q # p
    BY <2>1 DEF Connected, TypeOK
  <2>3. link'[p] = l
    BY <2>1, <2>2 DEF TypeOK
  <2>4. l # None /\ l \in Conns /\ srv[l] = "open"
    BY <1>2, <2>1, <2>3
  <2>5. down'[l] = down[l]
    BY <1>1, <1>9, <2>2, <2>4 DEF ConnectionLost, ClosePage, TypeOK
  <2>6. UNCHANGED <<alive[p], due[p], deck[p], pid[p], pending[p], claimed[p]>>
    BY <1>9, <2>2 DEF ConnectionLost, ClosePage, TypeOK
  <2> QED BY <2>1, <2>3, <2>4, <2>5, <2>6 DEF Same
<1>10. ASSUME NEW q \in Pages, PageStep(q) \/ Report(q) \/ Press(q) PROVE Same(p) \/ Own(p)
  <2>1. UNCHANGED <<srv, selfId, np, link, alive>>
    BY <1>10 DEF PageStep, OnHelloOk, OnYield, Report, Press, serverVars
  <2>2. l # None /\ l \in Conns /\ srv[l] = "open"
    BY <1>2, <2>1
  <2>3. CASE q = p
    BY <1>10, <2>2, <2>3 DEF Own
  <2>4. CASE q # p
    <3>1. link[q] # l
      BY <1>1, <2>2, <2>4
    <3>2. up'[l] = up[l]
      BY <1>10, <2>2, <3>1 DEF PageStep, OnHelloOk, OnYield, Report, Press, Post, TypeOK
    <3>3. down'[l] = down[l]
      BY <1>10, <2>2, <3>1 DEF PageStep, OnHelloOk, OnYield, Report, Press, TakeMail, TypeOK
    <3>4. UNCHANGED <<due[p], deck[p], pid[p], pending[p], claimed[p]>>
      BY <1>10, <2>4 DEF PageStep, OnHelloOk, OnYield, Report, Press, TypeOK
    <3> QED BY <2>1, <2>2, <3>2, <3>3, <3>4 DEF Same
  <2> QED BY <2>3, <2>4
<1>11. ASSUME NEW q \in Pages, NEW d \in Deck, Stop(q, d) PROVE FALSE
  BY <1>11 DEF Stop, Unbroken
<1>12. CASE Tick \/ UNCHANGED vars
  <2>1. UNCHANGED <<serverVars, up, down, pageVars>>
    BY <1>12 DEF Tick, vars
  <2>2. l # None /\ l \in Conns /\ srv[l] = "open"
    BY <1>2, <2>1 DEF serverVars, pageVars
  <2> QED BY <2>1, <2>2 DEF Same, serverVars, pageVars
<1>13. ASSUME NEW q \in Pages, Connect(q) PROVE Same(p) \/ Own(p)
  BY <1>8, <1>13 DEF Own
<1> QED BY <1>3, <1>4, <1>5, <1>6, <1>7, <1>9, <1>10, <1>11, <1>12, <1>13 DEF Next, ServerStep,
   UserStep

\* What is put on a page's open socket is after what was there.
LEMMA Posted ==
  ASSUME TypeOK, NEW p \in Pages, NEW ms \in Seq(UpMsg), link[p] \in Conns, link[p] # None,
         Post(p, ms)
  PROVE  /\ up[link[p]] \in Seq(UpMsg) /\ up'[link[p]] = up[link[p]] \o ms
         /\ ms # <<>> => up'[link[p]] # <<>> /\ up'[link[p]][Len(up'[link[p]])] = ms[Len(ms)]
         /\ ms = <<>> => up'[link[p]] = up[link[p]]
<1>1. up[link[p]] \in Seq(UpMsg) /\ up'[link[p]] = up[link[p]] \o ms
  BY DEF Post, TypeOK
<1> QED BY <1>1, AfterConcat

\* The frame a report posts.
LEMMA Reported ==
  ASSUME TypeOK, NEW p \in Pages, Report(p), link[p] \in Conns, link[p] # None
  PROVE  LET l == link[p] IN /\ up'[l] # <<>> /\ up'[l][Len(up'[l])].type = "nowplaying"
                             /\ up'[l][Len(up'[l])].np = deck[p]
<1> DEFINE m == [type |-> "nowplaying", np |-> deck[p]]
<1>1. m \in UpMsg /\ m.type = "nowplaying" /\ m.np = deck[p]
  <2>1. m \in UpMsg
    BY DEF UpMsg, TypeOK
  <2> QED BY <2>1
<1>2. Post(p, <<m>>)
  BY DEF Report
<1> HIDE DEF m
<1>3. <<m>> \in Seq(UpMsg) /\ <<m>> # <<>> /\ <<m>>[Len(<<m>>)] = m
  BY <1>1
<1>4. up'[link[p]] # <<>> /\ up'[link[p]][Len(up'[link[p]])] = <<m>>[Len(<<m>>)]
  BY <1>2, <1>3, Posted
<1> QED BY <1>1, <1>3, <1>4

\* What every server step on a socket does: its first frame is gone.
LEMMA Handled ==
  ASSUME IInv, NEW k \in Conns, ServerStep(k)
  PROVE  /\ up[k] # <<>> /\ up[k] \in Seq(UpMsg) /\ up'[k] = Tail(up[k])
         /\ UNCHANGED pageVars /\ \A j \in Conns : j # k => up'[j] = up[j]
<1>1. up[k] # <<>> /\ up' = [up EXCEPT ![k] = Tail(@)] /\ UNCHANGED pageVars
  BY DEF ServerStep, Hello, NowPlaying, Claim, CanReceive
<1> QED BY <1>1 DEF IInv, TypeOK

\* A page that has reported has said it last.
LEMMA LastWordKeeps ==
  ASSUME Unbroken, IInv, Linked, Wires, RegisteredOpen, Decks, LastWord, [Next]_vars
  PROVE  LastWord'
<1> DEFINE Says(m, d) == m.type = "hello" \/ (m.type = "nowplaying" /\ m.np = d)
<1> SUFFICES ASSUME NEW p \in Pages, Connected(p)', ~due'[p], up'[link'[p]] # <<>>
             PROVE  Says(up'[link'[p]][Len(up'[link'[p]])], deck'[p])
  BY DEF LastWord
<1> USE DEF IInv
<1>1. CASE Same(p)
  BY <1>1 DEF Same, LastWord, Connected
<1>2. ASSUME link[p] \in Conns, link[p] # None, srv[link[p]] = "open", ServerStep(link[p])
      PROVE  Says(up'[link'[p]][Len(up'[link'[p]])], deck'[p])
  <2> DEFINE l == link[p]
  <2>1. /\ up[l] # <<>> /\ up[l] \in Seq(UpMsg) /\ up'[l] = Tail(up[l])
        /\ link'[p] = l /\ due'[p] = due[p] /\ deck'[p] = deck[p]
    BY <1>2, Handled DEF pageVars
  <2>2. up'[l][Len(up'[l])] = up[l][Len(up[l])]
    BY <2>1, AfterTail
  <2> QED BY <1>2, <2>1, <2>2 DEF LastWord, Connected
<1>3. ASSUME link[p] \in Conns, link[p] # None, srv[link[p]] = "open", OnHelloOk(p)
      PROVE  Says(up'[link'[p]][Len(up'[link'[p]])], deck'[p])
  <2> DEFINE l == link[p]
             f == Flush(p)
  <2>1. /\ Post(p, f) /\ link'[p] = l /\ due'[p] = due[p] /\ deck'[p] = deck[p]
    BY <1>3 DEF OnHelloOk
  <2>2. /\ f \in Seq(UpMsg)
        /\ f # <<>> => due[p] \/ (f[Len(f)].type = "nowplaying" /\ f[Len(f)].np = deck[p])
    BY FlushShape
  <2> HIDE DEF f
  <2>3. /\ f # <<>> => up'[l] # <<>> /\ up'[l][Len(up'[l])] = f[Len(f)]
        /\ f = <<>> => up'[l] = up[l]
    BY <1>3, <2>1, <2>2, Posted
  <2>4. CASE f = <<>>
    BY <1>3, <2>1, <2>3, <2>4 DEF LastWord, Connected
  <2>5. CASE f # <<>>
    BY <2>1, <2>2, <2>3, <2>5
  <2> QED BY <2>4, <2>5
<1>4. ASSUME link[p] \in Conns, link[p] # None, srv[link[p]] = "open", OnYield(p)
      PROVE  Says(up'[link'[p]][Len(up'[link'[p]])], deck'[p])
  <2>1. link'[p] = link[p] /\ up' = up /\ due'[p] = (due[p] \/ deck[p] = "playing")
        /\ deck'[p] = (IF deck[p] = "playing" THEN "paused" ELSE deck[p])
    BY <1>4 DEF OnYield, TypeOK
  <2> QED BY <1>4, <2>1 DEF LastWord, Connected
<1>5. ASSUME link[p] \in Conns, link[p] # None, srv[link[p]] = "open", Report(p)
      PROVE  Says(up'[link'[p]][Len(up'[link'[p]])], deck'[p])
  <2>1. link'[p] = link[p] /\ deck'[p] = deck[p]
    BY <1>5 DEF Report
  <2> QED BY <1>5, <2>1, Reported
<1>6. ASSUME Press(p) PROVE FALSE
  BY <1>6 DEF Press, TypeOK
<1>7. ASSUME Connect(p) PROVE Says(up'[link'[p]][Len(up'[link'[p]])], deck'[p])
  <2> DEFINE h == [type |-> "hello", id |-> pid[p]]
  <2>1. PICK k \in Conns : link' = [link EXCEPT ![p] = k] /\ up' = [up EXCEPT ![k] = <<h>>]
    BY <1>7 DEF Connect, Unused
  <2>2. link'[p] = k /\ up'[k] = <<h>>
    BY <2>1 DEF TypeOK
  <2>3. h.type = "hello"
    OBVIOUS
  <2> HIDE DEF h
  <2>4. up'[link'[p]][Len(up'[link'[p]])] = h
    BY <2>2
  <2> QED BY <2>3, <2>4
<1> QED BY <1>1, <1>2, <1>3, <1>4, <1>5, <1>6, <1>7, Bystander DEF Own, PageStep

\* A frame that is the only one is the last.
LEMMA OnlyFrame ==
  ASSUME NEW S, NEW s \in Seq(S), s # <<>>, Tail(s) = <<>>
  PROVE  s[Len(s)] = Head(s)
<1>1. Len(s) = 1 /\ Head(s) = s[1]
  BY AfterTail
<1> QED BY <1>1

\* What the server heard of a page is its deck, once there is nothing more to come.
LEMMA HeardKeeps ==
  ASSUME Unbroken, IInv, Linked, Wires, RegisteredOpen, Decks, Silent, LastWord, Heard,
         [Next]_vars
  PROVE  Heard'
<1> SUFFICES ASSUME NEW p \in Pages, Greeted(p)', ~due'[p], up'[link'[p]] = <<>>,
                    ~In(down'[link'[p]], "hello-ok")
             PROVE  np'[link'[p]] = deck'[p]
  BY DEF Heard
<1> USE DEF IInv
<1> DEFINE l == link[p]
<1>0. Connected(p)'
  BY DEF Greeted
<1>1. CASE Same(p)
  BY <1>1 DEF Same, Heard, Greeted, Connected
<1>2. ASSUME l \in Conns, l # None, srv[l] = "open", Hello(l) PROVE FALSE
  <2>1. PICK i \in Ids : down' = Send(down, {l}, [type |-> "hello-ok", id |-> i])
    BY <1>2 DEF Hello
  <2>2. link'[p] = l
    BY <1>2 DEF Hello, pageVars
  <2> DEFINE h == [type |-> "hello-ok", id |-> i]
             ks == {l}
  <2>3. h \in DownMsg /\ h.type = "hello-ok" /\ down' = Send(down, ks, h) /\ l \in ks
    BY <2>1 DEF DownMsg
  <2> HIDE DEF h, ks
  <2>4. In(down'[l], h.type)
    BY <1>2, <2>3, Sent
  <2> QED BY <2>2, <2>3, <2>4
<1>3. ASSUME l \in Conns, l # None, srv[l] = "open", NowPlaying(l) PROVE np'[link'[p]] = deck'[p]
  <2>1. /\ up[l] # <<>> /\ up[l] \in Seq(UpMsg) /\ up'[l] = Tail(up[l]) /\ UNCHANGED pageVars
    BY <1>3, Handled DEF ServerStep
  <2>2. Tail(up[l]) = <<>> /\ ~due[p]
    BY <2>1 DEF pageVars
  <2>3. up[l][Len(up[l])] = Head(up[l])
    BY <2>1, <2>2, OnlyFrame
  <2>4. Head(up[l]).type = "nowplaying" /\ np'[l] = Head(up[l]).np
    BY <1>3 DEF NowPlaying, TypeOK
  <2>5. Head(up[l]).np = deck[p]
    BY <1>3, <2>1, <2>2, <2>3, <2>4 DEF LastWord, Connected
  <2> QED BY <2>1, <2>4, <2>5 DEF pageVars
<1>4. ASSUME l \in Conns, l # None, srv[l] = "open", Claim(l) PROVE FALSE
  <2>1. /\ up[l] # <<>> /\ up[l] \in Seq(UpMsg) /\ up'[l] = Tail(up[l]) /\ UNCHANGED pageVars
    BY <1>4, Handled DEF ServerStep
  <2>2. Tail(up[l]) = <<>> /\ ~due[p]
    BY <2>1 DEF pageVars
  <2>3. up[l][Len(up[l])] = Head(up[l])
    BY <2>1, <2>2, OnlyFrame
  <2>4. Head(up[l]).type = "claim"
    BY <1>4 DEF Claim
  <2> QED BY <1>4, <2>1, <2>2, <2>3, <2>4 DEF LastWord, Connected
<1>5. ASSUME l \in Conns, l # None, srv[l] = "open", OnHelloOk(p) PROVE np'[link'[p]] = deck'[p]
  <2> DEFINE f == Flush(p)
  <2>1. /\ Post(p, f) /\ UNCHANGED <<link, due, deck, np, srv>> /\ alive[p]
    BY <1>5 DEF OnHelloOk, HasMail, serverVars
  <2>2. /\ f \in Seq(UpMsg) /\ (f = <<>> /\ ~due[p] => deck[p] = "none")
    BY FlushShape
  <2> HIDE DEF f
  <2>3. f = <<>>
    BY <1>5, <2>1, <2>2, Posted
  <2>4. deck[p] = "none" /\ owner[l] = p
    BY <1>5, <2>1, <2>2, <2>3 DEF Linked
  <2>5. np[l] = "none"
    BY <1>5, <2>1, <2>4 DEF Silent
  <2> QED BY <2>1, <2>4, <2>5
<1>6. ASSUME l \in Conns, l # None, srv[l] = "open", OnYield(p) PROVE np'[link'[p]] = deck'[p]
  <2>1. /\ UNCHANGED <<link, up, np, srv, selfId>> /\ down'[l] = Tail(down[l]) /\ down[l] # <<>>
        /\ Head(down[l]).type = "yield" /\ down[l] \in Seq(DownMsg)
        /\ due'[p] = (due[p] \/ deck[p] = "playing")
        /\ deck'[p] = (IF deck[p] = "playing" THEN "paused" ELSE deck[p])
    BY <1>6 DEF OnYield, HasMail, TakeMail, serverVars, TypeOK
  <2>2. ~In(down[l], "hello-ok")
    BY <2>1, InTail
  <2> QED BY <1>6, <2>1, <2>2 DEF Heard, Greeted, Connected
<1>7. ASSUME l \in Conns, l # None, srv[l] = "open", Report(p) PROVE FALSE
  <2>1. link'[p] = l
    BY <1>7 DEF Report
  <2> QED BY <1>7, <2>1, Reported
<1>8. ASSUME Press(p) PROVE FALSE
  BY <1>8 DEF Press, TypeOK
<1>9. ASSUME Connect(p) PROVE FALSE
  <2>1. PICK k \in Unused : link' = [link EXCEPT ![p] = k]
    BY <1>9 DEF Connect
  <2>2. link'[p] = k /\ selfId'[k] = None
    BY <1>9, <2>1 DEF Connect, Unused, Wiring, UnusedBlank, TypeOK
  <2> QED BY <2>2 DEF Greeted
<1> QED BY <1>0, <1>1, <1>2, <1>3, <1>4, <1>5, <1>6, <1>7, <1>8, <1>9, Bystander
        DEF Own, PageStep, ServerStep

\* A page goes by its socket's id from the hello-ok on.
LEMMA KnownKeeps ==
  ASSUME Unbroken, IInv, Linked, Wires, RegisteredOpen, DownFrames, Known, [Next]_vars
  PROVE  Known'
<1> SUFFICES ASSUME NEW p \in Pages, Greeted(p)', ~In(down'[link'[p]], "hello-ok")
             PROVE  pid'[p] = selfId'[link'[p]]
  BY DEF Known
<1> USE DEF IInv
<1> DEFINE l == link[p]
<1>0. Connected(p)'
  BY DEF Greeted
<1>1. CASE Same(p)
  BY <1>1 DEF Same, Known, Greeted, Connected
<1>2. ASSUME l \in Conns, l # None, srv[l] = "open", Hello(l) PROVE FALSE
  <2>1. PICK i \in Ids : down' = Send(down, {l}, [type |-> "hello-ok", id |-> i])
    BY <1>2 DEF Hello
  <2>2. link'[p] = l
    BY <1>2 DEF Hello, pageVars
  <2> DEFINE h == [type |-> "hello-ok", id |-> i]
             ks == {l}
  <2>3. h \in DownMsg /\ h.type = "hello-ok" /\ down' = Send(down, ks, h) /\ l \in ks
    BY <2>1 DEF DownMsg
  <2> HIDE DEF h, ks
  <2>4. In(down'[l], h.type)
    BY <1>2, <2>3, Sent
  <2> QED BY <2>2, <2>3, <2>4
<1>3. ASSUME l \in Conns, l # None, srv[l] = "open", NowPlaying(l) \/ Claim(l)
      PROVE  pid'[p] = selfId'[link'[p]]
  <2>1. UNCHANGED <<srv, selfId, pageVars>> /\ selfId[l] # None
    BY <1>3 DEF NowPlaying, Claim
  <2>2. In(down[l], "hello-ok") => In(down'[l], "hello-ok")
    <3>1. CASE NowPlaying(l)
      BY <3>1 DEF NowPlaying
    <3>2. CASE Claim(l)
      <4>1. PICK ks : down' = Send(down, ks, [type |-> "yield"])
        BY <3>2 DEF Claim
      <4>2. [type |-> "yield"] \in DownMsg
        BY DEF DownMsg
      <4> QED BY <1>3, <4>1, <4>2, Sent
    <3> QED BY <1>3, <3>1, <3>2
  <2> QED BY <1>3, <2>1, <2>2 DEF Known, Greeted, Connected, pageVars
<1>4. ASSUME l \in Conns, l # None, srv[l] = "open", OnHelloOk(p)
      PROVE  pid'[p] = selfId'[link'[p]]
  <2>1. /\ pid'[p] = Head(down[l]).id /\ Head(down[l]).type = "hello-ok" /\ down[l] # <<>>
        /\ UNCHANGED <<link, selfId>> /\ down[l] \in Seq(DownMsg)
    BY <1>4 DEF OnHelloOk, HasMail, serverVars, TypeOK
  <2>2. Head(down[l]) = down[l][1] /\ 1 \in 1..Len(down[l])
    BY <2>1, AfterTail
  <2> QED BY <1>4, <2>1, <2>2 DEF DownFrames
<1>5. ASSUME l \in Conns, l # None, srv[l] = "open", OnYield(p) PROVE pid'[p] = selfId'[link'[p]]
  <2>1. /\ UNCHANGED <<link, pid, srv, selfId>> /\ down'[l] = Tail(down[l]) /\ down[l] # <<>>
        /\ Head(down[l]).type = "yield" /\ down[l] \in Seq(DownMsg)
    BY <1>5 DEF OnYield, HasMail, TakeMail, serverVars, TypeOK
  <2>2. ~In(down[l], "hello-ok")
    BY <2>1, InTail
  <2> QED BY <1>5, <2>1, <2>2 DEF Known, Greeted, Connected
<1>6. ASSUME l \in Conns, l # None, srv[l] = "open", Report(p) \/ Press(p)
      PROVE  pid'[p] = selfId'[link'[p]]
  <2>1. UNCHANGED <<link, pid, srv, selfId, down>>
    BY <1>6 DEF Report, Press, serverVars
  <2> QED BY <1>6, <2>1 DEF Known, Greeted, Connected
<1>7. ASSUME Connect(p) PROVE FALSE
  <2>1. PICK k \in Unused : link' = [link EXCEPT ![p] = k]
    BY <1>7 DEF Connect
  <2>2. link'[p] = k /\ selfId'[k] = None
    BY <1>7, <2>1 DEF Connect, Unused, Wiring, UnusedBlank, TypeOK
  <2> QED BY <2>2 DEF Greeted
<1> QED BY <1>0, <1>1, <1>2, <1>3, <1>4, <1>5, <1>6, <1>7, Bystander
        DEF Own, PageStep, ServerStep

\* What is not in a stream is not in what is left of it.
LEMMA InFull ==
  ASSUME NEW S, NEW s \in Seq(S), s # <<>>, NEW t, In(Tail(s), t)
  PROVE  In(s, t)
<1>1. PICK n \in 1..Len(Tail(s)) : Tail(s)[n].type = t
  BY DEF In
<1> QED BY <1>1, AfterTail DEF In

\* A page that never played has reported nothing.
LEMMA SilentKeeps ==
  ASSUME Unbroken, IInv, Linked, Wires, Unheard, RegisteredOpen, Decks, Silent, [Next]_vars
  PROVE  Silent'
<1> SUFFICES ASSUME NEW k \in Conns, srv'[k] = "open", alive'[owner'[k]], deck'[owner'[k]] = "none"
             PROVE  np'[k] = "none" /\ ~In(up'[k], "nowplaying")
  BY DEF Silent
<1> USE DEF IInv
<1>1. ASSUME UNCHANGED <<srv, owner, np>>, up'[k] = up[k], alive' = alive,
             deck[owner[k]] = "none"
      PROVE  np'[k] = "none" /\ ~In(up'[k], "nowplaying")
  BY <1>1 DEF Silent
<1>2. ASSUME NEW j \in Conns, ServerStep(j) PROVE np'[k] = "none" /\ ~In(up'[k], "nowplaying")
  <2>1. /\ up[j] # <<>> /\ up[j] \in Seq(UpMsg) /\ up'[j] = Tail(up[j])
        /\ UNCHANGED pageVars /\ \A i \in Conns : i # j => up'[i] = up[i]
    BY <1>2, Handled
  <2>2. srv' = srv /\ owner' = owner
    <3>1. CASE Hello(j)
      BY <3>1, HelloFresh DEF Hello
    <3> QED BY <1>2, <3>1 DEF ServerStep, NowPlaying, Claim
  <2>3. srv[k] = "open" /\ alive[owner[k]] /\ deck[owner[k]] = "none"
    BY <2>1, <2>2 DEF pageVars
  <2>4. np[k] = "none" /\ ~In(up[k], "nowplaying")
    BY <2>3 DEF Silent
  <2>5. ~In(up'[k], "nowplaying")
    BY <2>1, <2>4, InFull
  <2>6. np'[k] = "none"
    <3>1. CASE Hello(j)
      BY <2>4, <3>1 DEF Hello, TypeOK
    <3>2. CASE Claim(j)
      BY <2>4, <3>2 DEF Claim
    <3>3. CASE NowPlaying(j)
      <4>1. Head(up[j]).type = "nowplaying" /\ Head(up[j]) = up[j][1] /\ 1 \in 1..Len(up[j])
        BY <2>1, <3>3, AfterTail DEF NowPlaying
      <4>2. j # k
        BY <2>4, <4>1 DEF In
      <4> QED BY <2>4, <3>3, <4>2 DEF NowPlaying, TypeOK
    <3> QED BY <1>2, <3>1, <3>2, <3>3 DEF ServerStep
  <2> QED BY <2>5, <2>6
<1>3. ASSUME NEW j \in Conns, ServerClose(j) PROVE np'[k] = "none" /\ ~In(up'[k], "nowplaying")
  <2>1. /\ srv' = [srv EXCEPT ![j] = "closed"] /\ np' = [np EXCEPT ![j] = "none"]
        /\ up' = [up EXCEPT ![j] = <<>>] /\ UNCHANGED <<owner, pageVars>>
    BY <1>3 DEF ServerClose
  <2>2. j # k
    BY <2>1 DEF TypeOK
  <2>3. srv[k] = "open" /\ np'[k] = np[k] /\ up'[k] = up[k]
    BY <2>1, <2>2 DEF TypeOK
  <2> QED BY <2>1, <2>3 DEF Silent, pageVars
<1>4. CASE Restart
  BY <1>4 DEF Restart
<1>5. ASSUME NEW q \in Pages, Connect(q) PROVE np'[k] = "none" /\ ~In(up'[k], "nowplaying")
  <2> DEFINE h == [type |-> "hello", id |-> pid[q]]
  <2>1. PICK j \in Unused : /\ up' = [up EXCEPT ![j] = <<h>>] /\ owner' = [owner EXCEPT ![j] = q]
                            /\ srv' = [srv EXCEPT ![j] = "open"]
    BY <1>5 DEF Connect
  <2>2. j \in Conns /\ srv[j] = "unused" /\ UNCHANGED <<np, alive, deck>> /\ h.type = "hello"
    BY <1>5 DEF Connect, Unused
  <2> HIDE DEF h
  <2>3. CASE k = j
    <3>1. up'[k] = <<h>> /\ np'[k] = "none"
      BY <2>1, <2>2, <2>3 DEF Unheard, TypeOK
    <3> QED BY <2>2, <3>1 DEF In
  <2>4. CASE k # j
    <3>1. up'[k] = up[k] /\ owner'[k] = owner[k] /\ srv'[k] = srv[k]
      BY <2>1, <2>4 DEF TypeOK
    <3> QED BY <2>2, <3>1 DEF Silent
  <2> QED BY <2>3, <2>4
<1>6. ASSUME NEW q \in Pages, ConnectionLost(q) \/ ClosePage(q)
      PROVE  np'[k] = "none" /\ ~In(up'[k], "nowplaying")
  <2>1. UNCHANGED <<srv, owner, np, up>>
    BY <1>6 DEF ConnectionLost, ClosePage, serverVars
  <2>2. owner[k] \in Pages
    BY <2>1, OpenOwned
  <2>3. alive[owner[k]] /\ deck[owner[k]] = "none"
    <3>1. CASE ConnectionLost(q)
      BY <2>1, <3>1 DEF ConnectionLost
    <3>2. CASE ClosePage(q)
      BY <2>1, <2>2, <3>2 DEF ClosePage, TypeOK
    <3> QED BY <1>6, <3>1, <3>2
  <2> QED BY <2>1, <2>3 DEF Silent
<1>7. ASSUME NEW q \in Pages, OnHelloOk(q) \/ OnYield(q) \/ Report(q) \/ Press(q)
      PROVE  np'[k] = "none" /\ ~In(up'[k], "nowplaying")
  <2>1. UNCHANGED <<srv, owner, np, alive, link>>
    BY <1>7 DEF OnHelloOk, OnYield, Report, Press, serverVars
  <2>2. owner[k] \in Pages
    BY <2>1, OpenOwned
  <2>3. deck[owner[k]] = "none"
    BY <1>7, <2>1, <2>2 DEF OnHelloOk, OnYield, Report, Press, TypeOK
  <2>4. up'[k] = up[k]
    <3>1. CASE OnYield(q)
      BY <3>1 DEF OnYield
    <3>2. CASE link[q] # k
      BY <1>7, <3>1, <3>2 DEF OnHelloOk, Report, Press, Post, TypeOK
    <3>3. CASE link[q] = k
      <4>1. owner[k] = q /\ deck[q] = "none"
        BY <2>3, <3>3, SessionAssumption DEF Linked
      <4>2. CASE OnHelloOk(q)
        <5> DEFINE f == Flush(q)
        <5>1. f = <<>> /\ Post(q, f)
          BY <4>1, <4>2, FlushShape DEF OnHelloOk
        <5> HIDE DEF f
        <5>2. <<>> \in Seq(UpMsg)
          OBVIOUS
        <5> QED BY <3>3, <5>1, <5>2, Posted, SessionAssumption
      <4>3. ~Report(q)
        BY <4>1, ReportShape
      <4>4. ~Press(q)
        BY <2>1, <2>2, <1>7, <4>1 DEF Press, TypeOK
      <4> QED BY <1>7, <3>1, <4>2, <4>3, <4>4
    <3> QED BY <3>2, <3>3
  <2> QED BY <1>1, <2>1, <2>3, <2>4
<1>8. ASSUME NEW q \in Pages, NEW d \in Deck, Stop(q, d) PROVE FALSE
  BY <1>8 DEF Stop, Unbroken
<1>9. CASE Tick \/ UNCHANGED vars
  BY <1>9, <1>1 DEF Tick, vars, serverVars, pageVars
<1> QED BY <1>2, <1>3, <1>4, <1>5, <1>6, <1>7, <1>8, <1>9 DEF Next, PageStep, UserStep

\* A page that is decided stays active through every step but a claim.
LEMMA DecidedStays ==
  ASSUME Unbroken, IInv, Linked, Wires, RegisteredOpen, UpFrames, Decks, [Next]_vars,
         \A k \in Conns : ~Claim(k),
         NEW p \in Pages, deck[p] = "playing", ~Undecided(p), ~Undecided(p)',
         active[UserOf[p]] = selfId[link[p]]
  PROVE  active'[UserOf[p]] = selfId'[link'[p]]
<1> USE DEF IInv
<1> DEFINE l == link[p]
           u == UserOf[p]
<1>1. l # None /\ srv[l] = "open" /\ selfId[l] # None
  BY DEF Undecided
<1>2. /\ l \in Conns /\ owner[l] = p /\ alive[p] /\ u \in Users
      /\ selfId[l] \in Ids /\ registry[selfId[l]] = l
  <2>1. l \in Conns /\ owner[l] = p
    BY <1>1, LinksApart DEF Linked
  <2> QED BY <1>1, <2>1, RegisteredTo, SessionAssumption DEF Decks
<1>3. link'[p] = l /\ selfId'[l] = selfId[l]
  <2>1. Connected(p)'
    BY DEF Connected, Undecided
  <2>2. Same(p) \/ Own(p)
    BY <2>1, Bystander
  <2>3. CASE Same(p)
    BY <2>3 DEF Same
  <2>4. CASE ServerStep(l)
    BY <1>1, <2>4 DEF ServerStep, Hello, NowPlaying, Claim, pageVars
  <2>5. CASE PageStep(p) \/ Report(p) \/ Press(p)
    BY <2>5 DEF PageStep, OnHelloOk, OnYield, Report, Press, serverVars
  <2>6. ~Connect(p)
    BY <1>1 DEF Connect
  <2> QED BY <2>2, <2>3, <2>4, <2>5, <2>6 DEF Own
<1>4. ASSUME UNCHANGED active PROVE active'[u] = selfId'[link'[p]]
  BY <1>3, <1>4
<1>5. ASSUME NEW k \in Conns, NowPlaying(k) PROVE active'[u] = selfId'[link'[p]]
  <2>1. up[k] # <<>> /\ up[k] \in Seq(UpMsg) /\ Head(up[k]).type = "nowplaying"
    BY <1>5 DEF NowPlaying, CanReceive, TypeOK
  <2>2. Head(up[k]) = up[k][1] /\ 1 \in 1..Len(up[k])
    BY <2>1, AfterTail
  <2>3. Head(up[k]).np # "none"
    BY <2>1, <2>2 DEF UpFrames
  <2>4. active[u] # None
    BY <1>1
  <2>5. active'[u] = active[u]
    <3>1. CASE User(k) # u
      BY <1>5, <3>1 DEF NowPlaying, TypeOK
    <3>2. CASE User(k) = u
      BY <1>2, <1>5, <2>3, <2>4, <3>2 DEF NowPlaying, TypeOK
    <3> QED BY <3>1, <3>2
  <2> QED BY <1>3, <2>5
<1>6. ASSUME NEW k \in Conns, ServerClose(k) PROVE active'[u] = selfId'[link'[p]]
  <2>1. k # l
    BY <1>2, <1>6, ClosedPages
  <2>2. active[u] = selfId[k] => registry[selfId[k]] # k
    BY <1>2, <2>1
  <2>3. u \in Users
    BY <1>2
  <2> HIDE DEF u
  <2>4. active'[u] = active[u]
    BY <1>6, <2>2, <2>3, CloseHands DEF u
  <2> QED BY <1>3, <2>4 DEF u
<1>7. ~Restart
  BY <1>2 DEF Restart, Undecided, pageVars
<1>8. ASSUME NEW k \in Conns, Hello(k) PROVE UNCHANGED active
  BY <1>8 DEF Hello
<1>9. ASSUME NEW q \in Pages,
             PageStep(q) \/ Connect(q) \/ ConnectionLost(q) \/ Report(q) \/ UserStep(q)
      PROVE  UNCHANGED active
  BY <1>9 DEF PageStep, OnHelloOk, OnYield, Connect, ConnectionLost, Report, UserStep, Press,
     Stop, ClosePage, serverVars
<1>10. CASE Tick \/ UNCHANGED vars
  BY <1>4, <1>10 DEF Tick, vars, serverVars
<1> QED BY <1>4, <1>5, <1>6, <1>7, <1>8, <1>9, <1>10 DEF Next, ServerStep

\* A claim decides its own page, and leaves every other one a yield to answer.
LEMMA ClaimDecides ==
  ASSUME IInv, Linked, Wires, DecidedActive, NEW k \in Conns, Claim(k),
         NEW p \in Pages, deck[p] = "playing", ~Undecided(p)'
  PROVE  active'[UserOf[p]] = selfId'[link'[p]]
<1> USE DEF IInv
<1> DEFINE l == link[p]
           u == UserOf[p]
           y == [type |-> "yield"]
<1>1. /\ UNCHANGED <<srv, selfId, link, owner>> /\ srv[k] = "open" /\ selfId[k] # None
  BY DEF Claim, pageVars, CanReceive, Wires
<1>2. PICK yields \in BOOLEAN :
        /\ active' = [active EXCEPT ![User(k)] = IF yields THEN @ ELSE selfId[k]]
        /\ down' = Send(down, Told(k, yields), y)
  BY ClaimTakes
<1>3. y \in DownMsg /\ y.type = "yield"
  BY DEF DownMsg
<1>4. u \in Users /\ registry[selfId[k]] = k
  BY <1>1, RegisteredTo, SessionAssumption
<1>5. /\ l # None /\ srv[l] = "open" /\ selfId[l] # None /\ ~In(down'[l], "yield")
  BY <1>1 DEF Undecided
<1>6. l \in Conns /\ owner[l] = p
  BY <1>5, LinksApart DEF Linked
<1>7. l \notin Told(k, yields)
  <2> HIDE DEF y
  <2> QED BY <1>2, <1>3, <1>5, <1>6, Sent
<1>8. CASE l = k
  <2>1. ~yields
    BY <1>7, <1>8 DEF Told
  <2> QED BY <1>1, <1>2, <1>4, <1>6, <1>8, <2>1 DEF User, TypeOK
<1>9. CASE l # k
  <2>1. active[u] = selfId[l]
    BY <1>9, ClaimPersists DEF DecidedActive
  <2>2. CASE yields \/ User(k) # u
    BY <1>1, <1>2, <1>4, <2>1, <2>2 DEF TypeOK
  <2>3. CASE ~yields /\ User(k) = u
    <3>1. selfId[l] \in Ids /\ registry[selfId[l]] = l
      BY <1>5, <1>6, RegisteredTo
    <3>2. l \in Members(registry, User(k)) \ {registry[selfId[k]]}
      BY <1>4, <1>6, <1>9, <2>3, <3>1 DEF Members, Registered, User
    <3> QED BY <1>7, <2>3, <3>2 DEF Told
  <2> QED BY <2>2, <2>3
<1> QED BY <1>8, <1>9

\* A page that plays and is decided is the active one.
LEMMA DecidedActiveKeeps ==
  ASSUME Unbroken, IInv, Linked, Wires, RegisteredOpen, UpFrames, Decks, DecidedActive,
         [Next]_vars
  PROVE  DecidedActive'
<1> SUFFICES ASSUME NEW p \in Pages, deck'[p] = "playing", ~Undecided(p)'
             PROVE  active'[UserOf[p]] = selfId'[link'[p]]
  BY DEF DecidedActive
<1>1. ~Press(p)
  BY PressUndecided
<1>2. deck[p] = "playing"
  BY <1>1, Starting
<1>3. CASE \A k \in Conns : ~Claim(k)
  <2>1. Claimers
    BY DEF Decks, Claimers
  <2>2. ~Undecided(p)
    BY <1>2, <1>3, <2>1, Persists
  <2> QED BY <1>2, <1>3, <2>2, DecidedStays DEF DecidedActive
<1>4. ASSUME NEW k \in Conns, Claim(k) PROVE active'[UserOf[p]] = selfId'[link'[p]]
  BY <1>2, <1>4, ClaimDecides
<1> QED BY <1>3, <1>4

\* The socket an active client comes to be registered by is its page's link.
LEMMA ActiveLink ==
  ASSUME IInv', Wires', RegisteredOpen', ActiveHere',
         NEW u \in Users, active'[u] # None, alive'[owner'[registry'[active'[u]]]]
  PROVE  LET k == registry'[active'[u]] IN
           /\ k \in Conns /\ k # None /\ srv'[k] = "open" /\ owner'[k] \in Pages /\ link'[owner'[k]] = k
           /\ selfId'[k] = active'[u] /\ UserOf[owner'[k]] = u
<1> USE DEF IInv
<1>1. active'[u] \in Ids /\ registry'[active'[u]] # None /\ UserOf[owner'[registry'[active'[u]]]] = u
  BY DEF ActiveHere, TypeOK, User
<1>2. registry'[active'[u]] \in Conns /\ srv'[registry'[active'[u]]] = "open"
      /\ selfId'[registry'[active'[u]]] = active'[u]
  BY <1>1 DEF RegisteredOpen, Wiring, RegistryFaithful, TypeOK
<1>3. owner'[registry'[active'[u]]] \in Pages
  BY <1>2, SessionAssumption DEF Wiring, UnusedBlank, TypeOK
<1> QED BY <1>1, <1>2, <1>3 DEF Wires

\* A page whose socket's client the session goes to as another one ends has
\* something to report.
LEMMA Handed ==
  ASSUME IInv, Decks, Silent, Heard, DecidedActive,
         NEW p \in Pages, Greeted(p), alive[p], owner[link[p]] = p, link[p] \in Conns,
         np[link[p]] = "playing", active[UserOf[p]] # selfId[link[p]]
  PROVE  Reports(p)
<1> DEFINE l == link[p]
<1>1. srv[l] = "open" /\ l # None /\ selfId[l] # None
  BY DEF Greeted, Connected
<1>2. deck[p] # "none"
  BY <1>1 DEF Silent
<1>3. ~due[p] => pending[p] # "none"
  BY <1>2 DEF Decks
<1>4. CASE deck[p] = "playing"
  <2>1. Undecided(p)
    BY <1>4 DEF DecidedActive
  <2>2. In(up[l], "claim") => up[l] # <<>>
    <3> DEFINE t == up[l]
    <3>1. In(t, "claim") => t # <<>>
      <4> HIDE DEF t
      <4> QED BY DEF In
    <3> QED BY <3>1
  <2> QED BY <1>1, <1>3, <1>4, <2>1, <2>2 DEF Undecided, Reports
<1>5. CASE deck[p] # "playing"
  BY <1>3, <1>5 DEF Heard, Reports
<1> QED BY <1>4, <1>5

\* A step that leaves the active client's page alone leaves its clock alone.
LEMMA SyncedSame ==
  ASSUME Unbroken, IInv, Linked, Wires, RegisteredOpen, ActiveHere, Decks, Silent, Heard,
         DecidedActive, Synced,
         [Next]_vars, NEW u \in Users, NEW p \in Pages, Same(p), Greeted(p)', alive[p], ~Reports(p)',
         active'[u] = selfId'[link'[p]], UserOf[p] = u
  PROVE  playing'[u] <=> deck'[p] = "playing"
<1> USE DEF IInv
<1> DEFINE k == link[p]
<1>1. /\ k \in Conns /\ k # None /\ srv[k] = "open" /\ owner[k] = p
      /\ selfId[k] = active'[u] /\ active'[u] # None
      /\ UNCHANGED <<due[p], deck[p], pending[p]>> /\ link'[p] = k
      /\ up'[k] = up[k] /\ \A t : In(down[k], t) => In(down'[k], t)
  BY LinksApart DEF Same, Greeted, Connected, Linked
<1>2. ~Reports(p) /\ up[k] = <<>>
  BY <1>1 DEF Reports
<1>3. registry[active'[u]] = k
  BY <1>1, RegisteredTo
<1>4. ASSUME NEW j \in Conns, ServerStep(j) PROVE j # k
  <2>1. up[j] # <<>>
    BY <1>4, Handled
  <2> QED BY <1>2, <2>1
<1>5. ASSUME active'[u] = active[u], playing'[u] = playing[u]
      PROVE  playing'[u] <=> deck'[p] = "playing"
  BY <1>1, <1>2, <1>3, <1>5 DEF Synced
<1>6. ASSUME NEW j \in Conns, NowPlaying(j) \/ Claim(j)
      PROVE  active'[u] = active[u] /\ playing'[u] = playing[u]
  <2>1. srv[j] = "open" /\ selfId[j] # None
    BY <1>6 DEF NowPlaying, Claim, CanReceive, Wires
  <2>2. registry[selfId[j]] = j
    BY <2>1, RegisteredTo
  <2>3. selfId[j] # active'[u]
    BY <1>3, <1>4, <1>6, <2>2 DEF ServerStep
  <2>4. CASE Claim(j)
    <3>1. active'[u] = active[u]
      BY <2>3, <2>4, ClaimTakes DEF TypeOK
    <3> QED BY <2>4, <3>1 DEF Claim
  <2>5. CASE NowPlaying(j)
    BY <1>1, <2>3, <2>5 DEF NowPlaying, TypeOK
  <2> QED BY <1>6, <2>4, <2>5
<1>7. ASSUME NEW j \in Conns, ServerClose(j) PROVE playing'[u] <=> deck'[p] = "playing"
  <2>1. CASE active'[u] = active[u]
    <3>1. playing'[u] = playing[u]
      BY <1>1, <1>7, <2>1, CloseHands
    <3> QED BY <1>5, <2>1, <3>1
  <2>2. CASE active'[u] # active[u]
    <3>1. np[registry[active'[u]]] = "playing"
      BY <1>1, <1>7, <2>2, CloseHands
    <3>2. Greeted(p)
      BY <1>1 DEF Greeted, Connected
    <3> QED BY <1>1, <1>2, <1>3, <2>2, <3>1, <3>2, Handed
  <2> QED BY <2>1, <2>2
<1>8. ~Restart
  BY <1>1 DEF Restart
<1>9. ASSUME NEW j \in Conns, Hello(j) PROVE UNCHANGED <<active, playing>>
  BY <1>9 DEF Hello
<1>10. ASSUME NEW q \in Pages,
              PageStep(q) \/ Connect(q) \/ ConnectionLost(q) \/ Report(q) \/ UserStep(q)
       PROVE  UNCHANGED <<active, playing>>
  BY <1>10 DEF PageStep, OnHelloOk, OnYield, Connect, ConnectionLost, Report, UserStep, Press,
     Stop, ClosePage, serverVars
<1>11. CASE Tick \/ UNCHANGED vars
  BY <1>5, <1>11 DEF Tick, vars, serverVars
<1> QED BY <1>5, <1>6, <1>7, <1>8, <1>9, <1>10, <1>11 DEF Next, ServerStep

\* A step of the active client's page's own leaves the clock right, or the
\* page with something to report.
LEMMA SyncedOwn ==
  ASSUME IInv, Linked, Wires, RegisteredOpen, ActiveHere, Decks, LastWord, Synced,
         NEW u \in Users, NEW p \in Pages, Own(p), Greeted(p)', ~Reports(p)',
         active'[u] = selfId'[link'[p]], UserOf[p] = u
  PROVE  playing'[u] <=> deck'[p] = "playing"
<1> USE DEF IInv
<1> DEFINE k == link[p]
<1>1. ~due'[p] /\ up'[link'[p]] = <<>> /\ selfId'[link'[p]] # None
  BY DEF Reports, Greeted
<1>2. ~Connect(p)
  <2> SUFFICES ASSUME Connect(p) PROVE FALSE
    OBVIOUS
  <2>1. PICK j \in Unused : link' = [link EXCEPT ![p] = j]
    BY DEF Connect
  <2>2. link'[p] = j /\ selfId'[j] = None
    BY <2>1 DEF Connect, Unused, Wiring, UnusedBlank, TypeOK
  <2> QED BY <1>1, <2>2
<1>3. k \in Conns /\ k # None /\ srv[k] = "open" /\ owner[k] = p
  BY <1>2 DEF Own, Linked
<1>4. ~Press(p)
  BY <1>1 DEF Press, TypeOK
<1>5. ~Report(p)
  <2>1. Report(p) => link'[p] = k
    BY DEF Report
  <2> QED BY <1>1, <1>3, <2>1, Reported
<1>6. ASSUME UNCHANGED <<serverVars, owner, link, alive[p], deck[p]>>, ~Reports(p), alive[p]
      PROVE  playing'[u] <=> deck'[p] = "playing"
  <2>1. active[u] = selfId[k] /\ selfId[k] # None
    BY <1>1, <1>6 DEF serverVars
  <2>2. registry[active[u]] = k
    BY <1>3, <2>1, RegisteredTo
  <2> QED BY <1>3, <1>6, <2>1, <2>2 DEF Synced, serverVars
<1>7. CASE OnYield(p)
  <2>1. /\ UNCHANGED <<serverVars, owner, link, up, pending, alive>> /\ alive[p]
        /\ down'[k] = Tail(down[k]) /\ down[k] # <<>>
        /\ Head(down[k]).type = "yield" /\ down[k] \in Seq(DownMsg)
        /\ due'[p] = (due[p] \/ deck[p] = "playing")
        /\ deck'[p] = (IF deck[p] = "playing" THEN "paused" ELSE deck[p])
    BY <1>3, <1>7 DEF OnYield, HasMail, TakeMail, TypeOK
  <2>2. deck[p] # "playing" /\ deck'[p] = deck[p]
    BY <1>1, <2>1
  <2>3. In(down[k], "hello-ok") => In(down'[k], "hello-ok")
    BY <2>1, InTail
  <2>4. ~Reports(p)
    BY <1>1, <2>1, <2>2, <2>3 DEF Reports
  <2> QED BY <1>6, <2>1, <2>2, <2>4
<1>8. CASE OnHelloOk(p)
  <2> DEFINE f == Flush(p)
  <2>1. /\ UNCHANGED <<serverVars, owner, link, deck, due, pending, alive>> /\ alive[p]
        /\ Post(p, f)
    BY <1>8 DEF OnHelloOk, HasMail
  <2>2. f \in Seq(UpMsg) /\ (pending[p] # "none" => f # <<>>)
    BY FlushShape
  <2> HIDE DEF f
  <2>3. f = <<>> /\ up'[k] = up[k]
    BY <1>1, <1>3, <2>1, <2>2, Posted
  <2>4. deck[p] = "none" /\ pending[p] = "none"
    BY <1>1, <2>1, <2>2, <2>3 DEF Decks
  <2>5. ~Reports(p)
    BY <1>1, <2>1, <2>3, <2>4 DEF Reports
  <2> QED BY <1>6, <2>1, <2>5
<1>9. ASSUME ServerStep(k)
      PROVE  /\ up[k] # <<>> /\ up[k] \in Seq(UpMsg) /\ up'[k] = Tail(up[k])
             /\ UNCHANGED pageVars /\ up[k][Len(up[k])] = Head(up[k])
  <2>1. /\ up[k] # <<>> /\ up[k] \in Seq(UpMsg) /\ up'[k] = Tail(up[k])
        /\ UNCHANGED pageVars
    BY <1>3, <1>9, Handled
  <2>2. Tail(up[k]) = <<>>
    BY <1>1, <2>1 DEF pageVars
  <2> QED BY <2>1, <2>2, OnlyFrame
<1>10. ~Hello(k)
  <2> SUFFICES ASSUME Hello(k) PROVE FALSE
    OBVIOUS
  <2>1. PICK i \in Ids : /\ registry[i] = None /\ selfId' = [selfId EXCEPT ![k] = i]
                         /\ UNCHANGED <<active, link>>
    BY <1>3, HelloFresh DEF pageVars
  <2>2. active[u] = i /\ i # None
    BY <1>3, <2>1, SessionAssumption DEF TypeOK
  <2> QED BY <2>1, <2>2 DEF ActiveHere
<1>11. ~Claim(k)
  <2> SUFFICES ASSUME Claim(k) PROVE FALSE
    OBVIOUS
  <2>1. Head(up[k]).type = "claim"
    BY DEF Claim
  <2> QED BY <1>1, <1>3, <1>9, <2>1 DEF ServerStep, LastWord, Connected, pageVars
<1>12. CASE NowPlaying(k)
  <2>1. Head(up[k]).type = "nowplaying"
    BY <1>12 DEF NowPlaying
  <2>2. Head(up[k]).np = deck[p]
    BY <1>1, <1>3, <1>9, <1>12, <2>1 DEF ServerStep, LastWord, Connected, pageVars
  <2>3. User(k) = u /\ active'[u] = selfId[k] /\ deck'[p] = deck[p]
    BY <1>3, <1>12 DEF User, NowPlaying, pageVars
  <2>4. playing'[u] = (Head(up[k]).np = "playing")
    BY <1>12, <2>3 DEF NowPlaying, TypeOK
  <2> QED BY <2>2, <2>3, <2>4
<1> QED BY <1>2, <1>4, <1>5, <1>7, <1>8, <1>10, <1>11, <1>12 DEF Own, PageStep, ServerStep

\* The clock and the active client's page, step by step.
LEMMA SyncedStep ==
  ASSUME Unbroken, IInv, Linked, Wires, RegisteredOpen, ActiveHere, Decks, Silent, LastWord,
         Heard,
         DecidedActive, Synced, [Next]_vars, NEW u \in Users, NEW p \in Pages, Greeted(p)', ~Reports(p)',
         alive'[p], active'[u] = selfId'[link'[p]], UserOf[p] = u
  PROVE  playing'[u] <=> deck'[p] = "playing"
<1>1. Connected(p)'
  BY DEF Greeted
<1>2. Same(p) \/ Own(p)
  BY <1>1, Bystander
<1>3. CASE Same(p)
  <2>1. alive[p]
    BY <1>3 DEF Same
  <2> QED BY <1>3, <2>1, SyncedSame
<1>4. CASE Own(p)
  BY <1>4, SyncedOwn
<1> QED BY <1>2, <1>3, <1>4

LEMMA SyncedKeeps ==
  ASSUME Unbroken, IInv, Clocked, [Next]_vars, IInv', Wires', RegisteredOpen', ActiveHere'
  PROVE  Synced'
<1>1. /\ Linked /\ Wires /\ RegisteredOpen /\ ActiveHere /\ Decks /\ Silent /\ LastWord /\ Heard
      /\ DecidedActive /\ Synced
  BY DEF Clocked
<1>2. ASSUME NEW u \in Users, NEW p \in Pages, Greeted(p)', ~Reports(p)', alive'[p],
             selfId'[link'[p]] = active'[u], UserOf[p] = u
      PROVE  playing'[u] <=> deck'[p] = "playing"
  BY <1>1, <1>2, SyncedStep
<1>3. ASSUME NEW u \in Users, active'[u] # None, NEW p \in Pages,
             p = owner'[registry'[active'[u]]],
             alive'[p]
      PROVE  Greeted(p)' /\ selfId'[link'[p]] = active'[u] /\ UserOf[p] = u
  BY <1>3, ActiveLink, SessionAssumption DEF Greeted, Connected, IInv, TypeOK
<1>4. ASSUME NEW u \in Users, active'[u] # None, NEW p, p = owner'[registry'[active'[u]]],
             alive'[p]
      PROVE  p \in Pages
  BY <1>4, ActiveLink
<1>5. ASSUME NEW u \in Users, active'[u] # None, NEW p \in Pages,
             p = owner'[registry'[active'[u]]],
             alive'[p], ~Reports(p)'
      PROVE  playing'[u] <=> deck'[p] = "playing"
  <2>1. Greeted(p)' /\ selfId'[link'[p]] = active'[u] /\ UserOf[p] = u
    BY <1>3, <1>5
  <2> QED BY <1>2, <1>5, <2>1
<1> QED BY <1>4, <1>5 DEF Synced, Reports

\* The invariant of the clock, whole.
LEMMA ClockedBase == Init => Clocked
<1> SUFFICES ASSUME Init PROVE Clocked
  OBVIOUS
<1>1. /\ \A k \in Conns : /\ srv[k] = "unused" /\ np[k] = "none"
                          /\ up[k] = <<>> /\ down[k] = <<>>
      /\ \A p \in Pages : /\ alive[p] = TRUE /\ link[p] = None /\ claimed[p] = FALSE
                          /\ deck[p] = "none" /\ due[p] = FALSE /\ pending[p] = "none"
      /\ \A i \in Ids : registry[i] = None
      /\ \A u \in Users : active[u] = None
  BY DEF Init
<1>2. Linked /\ Wires /\ Unheard /\ RegisteredOpen /\ ActiveHere
  BY <1>1 DEF Linked, Wires, Unheard, RegisteredOpen, ActiveHere
<1>3. UpFrames /\ DownFrames
  BY <1>1 DEF UpFrames, DownFrames
<1>4. Decks /\ Silent /\ DecidedActive /\ Synced
  BY <1>1 DEF Decks, Silent, DecidedActive, Synced
<1>5. LastWord /\ Heard /\ Known
  BY <1>1 DEF LastWord, Heard, Known, Greeted, Connected
<1> QED BY <1>2, <1>3, <1>4, <1>5 DEF Clocked

LEMMA ClockedStep ==
  ASSUME Unbroken, IInv, Clocked, [Next]_vars
  PROVE  Clocked'
<1>1. /\ Linked /\ Wires /\ Unheard /\ RegisteredOpen /\ ActiveHere /\ UpFrames /\ DownFrames
      /\ Decks /\ Silent /\ LastWord /\ Heard /\ Known /\ DecidedActive
  BY DEF Clocked
<1>2. IInv'
  BY Step
<1>3. Linked' /\ Wires' /\ Unheard' /\ RegisteredOpen' /\ ActiveHere'
  BY <1>1, LinkedKeeps, WiresKeeps, UnheardKeeps, RegisteredKeeps, ActiveKeeps
<1>4. UpFrames' /\ DownFrames'
  BY <1>1, UpFramesKeeps, DownFramesKeeps
<1>5. Decks' /\ Silent'
  BY <1>1, DecksKeeps, SilentKeeps
<1>6. LastWord' /\ Heard' /\ Known'
  BY <1>1, LastWordKeeps, HeardKeeps, KnownKeeps
<1>7. DecidedActive'
  BY <1>1, DecidedActiveKeeps
<1>8. Synced'
  BY <1>2, <1>3, SyncedKeeps
<1> QED BY <1>3, <1>4, <1>5, <1>6, <1>7, <1>8 DEF Clocked

\* Once everything sent has arrived, a living page has nothing more to report.
LEMMA NothingToReport ==
  ASSUME IInv, Known, Settled, NEW p \in Pages, alive[p]
  PROVE  LET l == link[p] IN
           /\ l \in Conns /\ srv[l] = "open" /\ selfId[l] # None /\ pid[p] = selfId[l] /\ ~Reports(p)
<1> DEFINE l == link[p]
<1>1. l \in Conns /\ l # None /\ srv[l] = "open" /\ ~due[p]
  BY DEF Settled, IInv, TypeOK
<1>2. up[l] = <<>> /\ down[l] = <<>> /\ selfId[l] # None
  BY <1>1 DEF Settled
<1>3. \A t : ~In(down[l], t)
  BY <1>2 DEF In
<1> QED BY <1>1, <1>2, <1>3 DEF Known, Greeted, Connected, Reports

\* The session plays exactly when the active client does, for any number of
\* accounts, pages and sockets, as long as a link ends only with its page or
\* with the server and a page is silenced only by a yield: with nothing left on
\* its way, the mirrors' clock runs for real sound, and only then.
THEOREM ClockRight == ASSUME Unbroken PROVE Spec => []ClockFollowsSound
<1>1. Init => Clocked
  BY ClockedBase
<1>2. IInv /\ Clocked /\ [Next]_vars => Clocked'
  BY ClockedStep
<1>3. IInv /\ Clocked /\ FrozenWithoutActive => ClockFollowsSound
  <2> SUFFICES ASSUME IInv, Clocked, FrozenWithoutActive, Settled, NEW u \in Users
               PROVE  playing[u] <=> \E p \in Sounding(u) : pid[p] = active[u]
    BY DEF ClockFollowsSound
  <2>1. /\ Linked /\ Wires /\ RegisteredOpen /\ ActiveHere /\ Decks /\ Known /\ DecidedActive /\ Synced
    BY DEF Clocked
  <2>2. ASSUME NEW p \in Sounding(u) PROVE playing[u]
    <3>1. p \in Pages /\ UserOf[p] = u /\ deck[p] = "playing" /\ alive[p]
      BY <2>1 DEF Sounding, Decks
    <3>2. link[p] \in Conns /\ srv[link[p]] = "open" /\ selfId[link[p]] # None /\ ~Reports(p)
      BY <2>1, <3>1, NothingToReport
    <3>3. active[u] = selfId[link[p]]
      BY <2>1, <3>1, NothingLeft DEF DecidedActive
    <3>4. link[p] # None /\ owner[link[p]] = p
      BY <2>1, <3>1, <3>2, SessionAssumption DEF Linked
    <3>5. registry[selfId[link[p]]] = link[p]
      BY <3>2, RegisteredTo
    <3> QED BY <2>1, <3>1, <3>2, <3>3, <3>4, <3>5 DEF Synced
  <2>3. ASSUME playing[u] PROVE \E p \in Sounding(u) : pid[p] = active[u]
    <3> DEFINE k == registry[active[u]]
               p == owner[k]
    <3>1. active[u] \in Ids /\ active[u] # None
      BY <2>3 DEF FrozenWithoutActive, IInv, TypeOK
    <3>2. k \in Conns /\ srv[k] = "open" /\ selfId[k] = active[u] /\ UserOf[p] = u
      BY <2>1, <3>1 DEF ActiveHere, RegisteredOpen, User, IInv, TypeOK, Wiring, RegistryFaithful
    <3>3. p \in Pages /\ link[p] = k /\ alive[p]
      <4>1. p \in Pages /\ link[p] = k /\ k # None
        BY <3>2, OpenOwned, SessionAssumption DEF Settled
      <4> HIDE DEF p, k
      <4> QED BY <2>1, <4>1 DEF Wires
    <3>4. ~Reports(p) /\ pid[p] = active[u]
      BY <2>1, <3>2, <3>3, NothingToReport
    <3>5. deck[p] = "playing"
      BY <2>1, <2>3, <3>1, <3>3, <3>4 DEF Synced
    <3> QED BY <3>2, <3>3, <3>4, <3>5 DEF Sounding
  <2> QED BY <2>2, <2>3
<1> QED BY <1>1, <1>2, <1>3, Invariant, Frozen, PTL DEF Spec
=============================================================================
