------------------------------ MODULE Speakers ------------------------------
(* The server as a player (server/src/speakers/player.ts): one per account,
   each driving a speaker and the rest of its group, the `owners` map that says
   which player drives which speaker, and the household's groups (groups.ts).

   A player runs its commands one after another (`ops`), but its poll, a player
   that takes one of its speakers, and a request to play one of a speaker's own
   inputs act on it outside that chain.  Every await is a point where the others
   run: a call under way is the list of segments it still has to run, one step
   each.  Queue, positions and volume are left out: what is kept is who holds
   which speaker, and who plays. *)
EXTENDS Naturals, SequencesExt

CONSTANTS
  Players,   \* one per account
  Speakers,
  Household, \* the groups at first
  None,
  MaxOps,    \* bound on the commands given to one player
  MaxEdits,  \* bound on the changes of the groups
  Env        \* what may be asked and happen: the commands "play", "toggle" and
             \* "yield", a speaker's own "input", a request that may "fail", a
             \* member "busy" or "lost"; "poll" for the readings, which may find
             \* the speaker "gone", "foreign", "ended" or "stopped"; and
             \* "overlap", without which one thing is over before the next

ASSUME SpeakersAssumption ==
  /\ IsFiniteSet(Speakers) /\ Household \subseteq SUBSET Speakers
  /\ \A g, h \in Household : g # h => g \cap h = {}
  /\ None \notin Players /\ None \notin Speakers
  /\ MaxOps \in Nat /\ MaxEdits \in Nat

VARIABLES
  groups,    \* the speakers that play together
  owners,    \* owners[s]: the player that claimed s last
  device,    \* the speaker a player is on, or last was
  open,      \* whether it has a transport to it
  members,   \* the rest of the group playing along
  playing, starting, polling,
  foreign,   \* its last reading showed another app on the speaker
  reported,  \* what it last told the account's session
  chain,     \* ops: the operation running, and those waiting behind it
  call,      \* call[t]: what is left of the call thread t runs
  given,     \* commands given so far
  edits      \* changes of the groups so far

vars == <<groups, owners, device, open, members, playing, starting, polling, foreign,
          reported, chain, call, given, edits>>

\* A player's command chain, its poll, and an outside call that stops it.
Threads == Players \X {"ops", "poll", "ask"}

\* The rest of the group a speaker is in.
GroupOf(s) == UNION {g \in groups : s \in g} \ {s}

\* A segment: what it does, for which player, with which speaker(s) or flag.
Seg(do, v)     == [do |-> do, of |-> v, arg |-> None]
SegTo(do, v, a) == [do |-> do, of |-> v, arg |-> a]

\* An operation of the chain: on a speaker, towards others, for a thread that
\* waits for it.
Op(kind, a, to, by) == [op |-> kind, arg |-> a, to |-> to, by |-> by]

Init ==
  /\ groups = Household
  /\ owners = [s \in Speakers |-> None]
  /\ device = [p \in Players |-> None]
  /\ open = [p \in Players |-> FALSE]
  /\ members = [p \in Players |-> {}]
  /\ playing = [p \in Players |-> FALSE]
  /\ starting = [p \in Players |-> FALSE]
  /\ polling = [p \in Players |-> FALSE]
  /\ foreign = [p \in Players |-> FALSE]
  /\ reported = [p \in Players |-> "none"]
  /\ chain = [p \in Players |-> <<>>]
  /\ call = [t \in Threads |-> <<>>]
  /\ given = [p \in Players |-> 0]
  /\ edits = 0

-----------------------------------------------------------------------------
(* The calls, as the segments they run.                                    *)

\* Another client took the session over, or another account the speaker.
Yield(v) == <<Seg("quiet", v), Seg("dissolve", v), Seg("halt", v), Seg("free", v)>>

\* claimDevice and formGroup, once the old speaker is let go of.
Take(v, s) == <<SegTo("claim", v, s), SegTo("own", v, s), SegTo("adopt", v, s), Seg("form", v)>>

\* Leave, with the group left linked.
LeaveLinked(v) == <<Seg("halt", v), Seg("release", v)>>

\* switchDevice, when the speaker changes.
Leave(v) == <<Seg("dissolve", v), Seg("halt", v), Seg("release", v)>>

\* start(): nothing happens without a transport.
Start(v, play) == <<SegTo("start", v, play)>>

Calls(v, o) ==
  CASE o.op = "transfer" ->
         (IF open[v] /\ device[v] # o.arg THEN Leave(v) ELSE <<>>)
         \o Take(v, o.arg) \o Start(v, TRUE)
    [] o.op = "play" ->
         IF device[v] = None THEN <<>>
         ELSE (IF open[v] THEN <<>> ELSE Take(v, device[v])) \o Start(v, TRUE)
    [] o.op = "toggle" ->
         IF ~open[v] THEN <<>>
         ELSE <<SegTo("flip", v, ~playing[v])>>
    [] o.op = "yield" -> Yield(v)
    [] o.op = "regroup" -> <<Seg("form", v), Seg("show", v)>>
    [] o.op = "drop" -> <<SegTo("unlink", v, o.arg), Seg("show", v)>>
    [] o.op = "handoff" ->
         <<Seg("quiet", v), Seg("dissolve", v), SegTo("part", v, o.arg)>>
         \o Take(v, CHOOSE m \in o.to : TRUE) \o Start(v, playing[v])

\* A throw ends the call up to the nearest catch: the claim that asked another
\* player to give up, or the whole command.
Thrown(rest) ==
  LET caught == {i \in 1..Len(rest) : rest[i].do \in {"own", "done"}}
  IN IF caught = {} THEN <<>>
     ELSE SubSeq(rest, CHOOSE i \in caught : \A j \in caught : i <= j, Len(rest))

\* The speaker a hand-off under way gives up: the group does not pull it back.
Excluded(v) == {s \in Speakers : chain[v] # <<>> /\ Head(chain[v]).op = "handoff" /\ Head(chain[v]).arg = s}

\* The speakers a regroup under way was told to take on purpose.
OnPurpose(v) == IF chain[v] # <<>> /\ Head(chain[v]).op = "regroup" THEN Head(chain[v]).to ELSE {}

\* nowPlaying(): null without a speaker.
Shown(d, p) == IF d = None THEN "none" ELSE IF p THEN "playing" ELSE "paused"

\* The speakers of ss are no longer v's.
Disowned(v, ss) == [s \in Speakers |-> IF s \in ss /\ owners[s] = v THEN None ELSE owners[s]]

-----------------------------------------------------------------------------
(* The segments.  `rest` is what follows of the thread's call.             *)

hold  == <<owners, device, open, members>>
voice == <<playing, starting, reported>>
watch == <<polling, foreign>>

Continue(t, rest) == call' = [call EXCEPT ![t] = rest]

\* stopPolling: no further tick starts; one under way goes on.
Quiet(t, v, rest) ==
  /\ polling' = [polling EXCEPT ![v] = FALSE]
  /\ Continue(t, rest)
  /\ UNCHANGED <<hold, voice, foreign, chain>>

\* unlink: one member leaves the group.
Unlink(t, v, m, rest) ==
  /\ members' = [members EXCEPT ![v] = @ \ {m}]
  /\ owners' = Disowned(v, {m})
  /\ Continue(t, rest)
  /\ UNCHANGED <<device, open, voice, watch, chain>>

\* dissolveGroup: the members there are now, one after another.
Dissolve(t, v, rest) ==
  /\ \E order \in SetToSeqs(members[v]) :
       Continue(t, [i \in 1..Len(order) |-> SegTo("unlink", v, order[i])] \o rest)
  /\ UNCHANGED <<hold, voice, watch, chain>>

\* report()
Show(t, v, rest) ==
  /\ reported' = [reported EXCEPT ![v] = Shown(device[v], playing[v])]
  /\ Continue(t, rest)
  /\ UNCHANGED <<hold, playing, starting, watch, chain>>

\* The transport is told to stop, then closed: by whoever comes back first; the
\* other finds none to close and throws.
Halt(t, v, rest) ==
  /\ Continue(t, (IF open[v] THEN <<Seg("halted", v)>> ELSE <<>>) \o rest)
  /\ UNCHANGED <<hold, voice, watch, chain>>

Halted(t, v, rest) ==
  /\ Continue(t, IF open[v] THEN rest ELSE Thrown(rest))
  /\ open' = [open EXCEPT ![v] = FALSE]
  /\ UNCHANGED <<owners, device, members, voice, watch, chain>>

\* switchDevice has closed the transport of the speaker it leaves.
Release(t, v, rest) ==
  /\ owners' = Disowned(v, {device[v]} \cup members[v])
  /\ Continue(t, rest)
  /\ UNCHANGED <<device, open, members, voice, watch, chain>>

\* Free, but the session is not told.
FreeUntold(t, v, rest) ==
  /\ owners' = Disowned(v, {device[v]} \cup members[v])
  /\ Continue(t, rest)
  /\ UNCHANGED <<device, open, members, voice, watch, chain>>

\* The end of a yield: nothing held, nothing playing, the session told so.
Free(t, v, rest) ==
  /\ owners' = Disowned(v, {device[v]} \cup members[v])
  /\ playing' = [playing EXCEPT ![v] = FALSE]
  /\ reported' = [reported EXCEPT ![v] = "none"]
  /\ Continue(t, rest)
  /\ UNCHANGED <<device, open, members, starting, watch, chain>>

\* A hand-off has stopped the speaker it gives up (this stop never throws).
Part(t, v, s, rest) ==
  /\ open' = [open EXCEPT ![v] = FALSE]
  /\ owners' = Disowned(v, {s})
  /\ device' = [device EXCEPT ![v] = None]
  /\ Continue(t, rest)
  /\ UNCHANGED <<members, voice, watch, chain>>

\* claimDevice: whoever holds the speaker gives it up first.  A member leaves
\* its group, a leader hands the music to the next speaker of the group, both
\* behind whatever that player is doing; a speaker alone is let go of now.
Claim(t, v, s, rest) ==
  LET prev == owners[s]
      ask(op) == /\ chain' = [chain EXCEPT ![prev] = Append(@, op)]
                 /\ Continue(t, <<Seg("wait", prev)>> \o rest)
  IN /\ \/ /\ prev \in {None, v}
           /\ owners' = [owners EXCEPT ![s] = v]
           /\ Continue(t, Tail(rest)) /\ UNCHANGED chain
        \/ /\ prev \notin {None, v} /\ UNCHANGED owners
           /\ \/ /\ s \in members[prev] /\ device[prev] # s
                 /\ ask(Op("drop", s, {}, t))
              \/ /\ device[prev] = s /\ open[prev]
                 /\ \E m \in members[prev] \ {s} :
                      ask(Op("handoff", s, {m}, t))
              \/ /\ device[prev] = s /\ (~open[prev] \/ members[prev] \ {s} = {})
                 /\ Continue(t, Yield(prev) \o rest) /\ UNCHANGED chain
              \/ /\ device[prev] # s /\ s \notin members[prev]
                 /\ Continue(t, rest) /\ UNCHANGED chain
     /\ UNCHANGED <<device, open, members, voice, watch>>

\* The operation chained on the other player is done.
Answered(t, prev) == \A i \in 1..Len(chain[prev]) : chain[prev][i].by # t

Wait(t, prev, rest) ==
  /\ Answered(t, prev)
  /\ Continue(t, rest)
  /\ UNCHANGED <<hold, voice, watch, chain>>

Own(t, v, s, rest) ==
  /\ owners' = [owners EXCEPT ![s] = v]
  /\ Continue(t, rest)
  /\ UNCHANGED <<device, open, members, voice, watch, chain>>

Adopt(t, v, s, rest) ==
  /\ device' = [device EXCEPT ![v] = s]
  /\ open' = [open EXCEPT ![v] = TRUE]
  /\ Continue(t, rest)
  /\ UNCHANGED <<owners, members, voice, watch, chain>>

\* formGroup: members that left the group go, those missing are to join.
Form(t, v, rest) ==
  LET ids == IF device[v] = None THEN members[v] ELSE GroupOf(device[v]) \ Excluded(v)
  IN /\ \E gone \in SetToSeqs(members[v] \ ids), new \in SetToSeqs(ids \ members[v]) :
          Continue(t, [i \in 1..Len(gone) |-> SegTo("unlink", v, gone[i])]
                   \o [i \in 1..Len(new) |-> SegTo(IF new[i] \in OnPurpose(v) THEN "take" ELSE "join", v, new[i])]
                   \o rest)
     /\ UNCHANGED <<hold, voice, watch, chain>>

\* Another account's music plays on it.
PlaysElsewhere(v, m) == \E q \in Players \ {v} : owners[m] = q /\ playing[q]

Linking(v, m) == <<SegTo("claim", v, m), SegTo("own", v, m), SegTo("slave", v, m)>>

\* A speaker that is busy with other music is left alone; another is claimed
\* and linked.
Join(t, v, m, rest) ==
  /\ \/ /\ PlaysElsewhere(v, m) \/ ("busy" \in Env /\ owners[m] = None)
        /\ Continue(t, rest)
     \/ /\ ~PlaysElsewhere(v, m)
        /\ Continue(t, Linking(v, m) \o rest)
  /\ UNCHANGED <<hold, voice, watch, chain>>

\* One added on purpose is taken even so.
TakeBusy(t, v, m, rest) ==
  /\ Continue(t, Linking(v, m) \o rest)
  /\ UNCHANGED <<hold, voice, watch, chain>>

\* Slave, where a member that could not be added stays claimed.
SlaveKept(t, v, m, rest) ==
  /\ \/ open[v] /\ members' = [members EXCEPT ![v] = @ \cup {m}]
     \/ ("fail" \in Env \/ ~open[v]) /\ UNCHANGED members
  /\ Continue(t, rest)
  /\ UNCHANGED <<owners, device, open, voice, watch, chain>>

\* The leader's AddSlave went through, or not.
Slave(t, v, m, rest) ==
  /\ \/ open[v] /\ members' = [members EXCEPT ![v] = @ \cup {m}] /\ UNCHANGED owners
     \/ ("fail" \in Env \/ ~open[v]) /\ owners' = Disowned(v, {m}) /\ UNCHANGED members
  /\ Continue(t, rest)
  /\ UNCHANGED <<device, open, voice, watch, chain>>

\* start(): the clock is set going and reported before the speaker answers.
Sound(t, v, play, rest) ==
  /\ \/ ~open[v] /\ Continue(t, rest) /\ UNCHANGED voice
     \/ /\ open[v]
        /\ starting' = [starting EXCEPT ![v] = TRUE]
        /\ playing' = [playing EXCEPT ![v] = play]
        /\ reported' = [reported EXCEPT ![v] = Shown(device[v], play)]
        /\ Continue(t, <<SegTo("started", v, play)>> \o rest)
  /\ UNCHANGED <<hold, watch, chain>>

\* Started, where a start that is paused at once leaves the poll off.
StartedUnwatched(t, v, play, rest) ==
  /\ starting' = [starting EXCEPT ![v] = FALSE]
  /\ playing' = [playing EXCEPT ![v] = play]
  /\ reported' = [reported EXCEPT ![v] = Shown(device[v], play)]
  /\ polling' = [polling EXCEPT ![v] = play \/ (open[v] /\ @)]
  /\ Continue(t, rest)
  /\ UNCHANGED <<hold, foreign, chain>>

\* ...and again when it has; a paused start pauses it, which throws if the
\* transport went meanwhile.
Started(t, v, play, rest) ==
  /\ starting' = [starting EXCEPT ![v] = FALSE]
  /\ \/ /\ play \/ open[v]
        /\ playing' = [playing EXCEPT ![v] = play]
        /\ reported' = [reported EXCEPT ![v] = Shown(device[v], play)]
        /\ polling' = [polling EXCEPT ![v] = TRUE]
        /\ Continue(t, rest)
     \/ /\ "fail" \in Env \/ (~play /\ ~open[v])
        /\ Continue(t, Thrown(rest))
        /\ UNCHANGED <<playing, reported, polling>>
  /\ UNCHANGED <<hold, foreign, chain>>

\* A toggle's pause or resume was answered.
Flip(t, v, play, rest) ==
  /\ \/ /\ playing' = [playing EXCEPT ![v] = play]
        /\ reported' = [reported EXCEPT ![v] = Shown(device[v], play)]
        /\ Continue(t, rest)
     \/ /\ "fail" \in Env
        /\ Continue(t, Thrown(rest))
        /\ UNCHANGED <<playing, reported>>
  /\ UNCHANGED <<hold, starting, watch, chain>>

\* The operation is over: the next one chained may run.
Done(t, v) ==
  /\ chain' = [chain EXCEPT ![v] = Tail(@)]
  /\ Continue(t, <<>>)
  /\ UNCHANGED <<hold, voice, watch>>

\* A toggle in flight: readings are left alone until it has settled.
Busy(v) == LET c == call[<<v, "ops">>] IN c # <<>> /\ Head(c).do = "flip"

\* lose(): another app has the speaker; it is let go of untouched.
Lose(t, v) ==
  /\ polling' = [polling EXCEPT ![v] = FALSE]
  /\ foreign' = [foreign EXCEPT ![v] = FALSE]
  /\ owners' = Disowned(v, {device[v]} \cup members[v])
  /\ members' = [members EXCEPT ![v] = {}]
  /\ open' = [open EXCEPT ![v] = FALSE]
  /\ playing' = [playing EXCEPT ![v] = FALSE]
  /\ reported' = [reported EXCEPT ![v] = "none"]
  /\ Continue(t, <<>>)
  /\ UNCHANGED <<device, starting, chain>>

\* The speaker reads as playing or not, and the clock follows it.
Follow(t, v, reads) ==
  /\ playing' = [playing EXCEPT ![v] = reads]
  /\ reported' = [reported EXCEPT ![v] = Shown(device[v], reads)]
  /\ Continue(t, <<>>)
  /\ UNCHANGED <<hold, starting, polling, chain>>

\* A tick's reading came back: of what the speaker did when it was asked.
Read(t, v, reads) ==
  IF Busy(v) THEN Continue(t, <<>>) /\ UNCHANGED <<hold, voice, watch, chain>>
  ELSE \/ /\ "gone" \in Env
          /\ Continue(t, Yield(v))
          /\ UNCHANGED <<hold, voice, watch, chain>>
       \/ "foreign" \in Env /\ foreign[v] /\ Lose(t, v)
       \/ /\ "foreign" \in Env /\ ~foreign[v]
          /\ foreign' = [foreign EXCEPT ![v] = TRUE]
          /\ Follow(t, v, TRUE)
       \/ /\ "ended" \in Env /\ reads
          /\ foreign' = [foreign EXCEPT ![v] = FALSE]
          /\ Continue(t, Start(v, TRUE))
          /\ UNCHANGED <<hold, voice, polling, chain>>
       \/ /\ foreign' = [foreign EXCEPT ![v] = FALSE]
          /\ \E r \in {reads} \cup (IF "stopped" \in Env THEN {FALSE} ELSE {}) : Follow(t, v, r)

Segment(t, g, rest) ==
  CASE g.do = "quiet"    -> Quiet(t, g.of, rest)
    [] g.do = "dissolve" -> Dissolve(t, g.of, rest)
    [] g.do = "halt"     -> Halt(t, g.of, rest)
    [] g.do = "halted"   -> Halted(t, g.of, rest)
    [] g.do = "release"  -> Release(t, g.of, rest)
    [] g.do = "free"     -> Free(t, g.of, rest)
    [] g.do = "part"     -> Part(t, g.of, g.arg, rest)
    [] g.do = "unlink"   -> Unlink(t, g.of, g.arg, rest)
    [] g.do = "claim"    -> Claim(t, g.of, g.arg, rest)
    [] g.do = "wait"     -> Wait(t, g.of, rest)
    [] g.do = "own"      -> Own(t, g.of, g.arg, rest)
    [] g.do = "adopt"    -> Adopt(t, g.of, g.arg, rest)
    [] g.do = "form"     -> Form(t, g.of, rest)
    [] g.do = "show"     -> Show(t, g.of, rest)
    [] g.do = "take"     -> TakeBusy(t, g.of, g.arg, rest)
    [] g.do = "join"     -> Join(t, g.of, g.arg, rest)
    [] g.do = "slave"    -> Slave(t, g.of, g.arg, rest)
    [] g.do = "start"    -> Sound(t, g.of, g.arg, rest)
    [] g.do = "started"  -> Started(t, g.of, g.arg, rest)
    [] g.do = "flip"     -> Flip(t, g.of, g.arg, rest)
    [] g.do = "read"     -> Read(t, g.of, g.arg)
    [] g.do = "done"     -> Done(t, g.of)

-----------------------------------------------------------------------------
\* A call goes on without letting others in until it waits for the network, or
\* for another player's operations.
Ready(t) ==
  /\ call[t] # <<>>
  /\ LET g == Head(call[t])
     IN \/ g.do \in {"quiet", "dissolve", "halt", "release", "free", "claim", "own",
                     "adopt", "form", "take", "start", "show", "done"}
        \/ g.do = "join" /\ owners[g.arg] # None
        \/ g.do = "wait" /\ Answered(t, g.of)

Startable(p) == chain[p] # <<>> /\ call[<<p, "ops">>] = <<>>

Settled == /\ \A t \in Threads : ~Ready(t)
           /\ \A p \in Players : ~Startable(p)

AllIdle == /\ \A p \in Players : chain[p] = <<>>
           /\ \A t \in Threads : call[t] = <<>>

\* Without "overlap", nothing is asked or read before the last thing is over,
\* and the groups change only while at most one player has to follow.
Turn == "overlap" \in Env \/ AllIdle

Give(p, o) ==
  /\ Turn
  /\ given[p] < MaxOps /\ given' = [given EXCEPT ![p] = @ + 1]
  /\ chain' = [chain EXCEPT ![p] = Append(@, o)]
  /\ UNCHANGED <<groups, hold, voice, watch, call, edits>>

Command(p) ==
  \/ \E s \in Speakers : Give(p, Op("transfer", s, {}, None))
  \/ \E c \in {"play", "toggle", "yield"} \cap Env : Give(p, Op(c, None, {}, None))

\* The next operation of the chain starts.
Begin(p) ==
  /\ Startable(p)
  /\ Continue(<<p, "ops">>, Calls(p, Head(chain[p])) \o <<Seg("done", p)>>)
  /\ UNCHANGED <<groups, hold, voice, watch, chain, given, edits>>

Tick(p) ==
  /\ "poll" \in Env /\ Turn
  /\ polling[p] /\ call[<<p, "poll">>] = <<>>
  /\ open[p] /\ ~starting[p] /\ ~Busy(p)
  /\ Continue(<<p, "poll">>, <<SegTo("read", p, playing[p])>>)
  /\ UNCHANGED <<groups, hold, voice, watch, chain, given, edits>>

\* A member that stopped answering leaves the music.
DropUnreachable(p) ==
  /\ "lost" \in Env /\ Turn
  /\ polling[p] /\ open[p]
  /\ \E m \in members[p] : /\ members' = [members EXCEPT ![p] = @ \ {m}]
                           /\ owners' = Disowned(p, {m})
  /\ reported' = [reported EXCEPT ![p] = Shown(device[p], playing[p])]
  /\ UNCHANGED <<device, open, playing, starting, watch, groups, chain, call, given, edits>>

\* playInput: whoever plays on the speaker lets go of it, all of it if it leads.
Input(s) ==
  /\ "input" \in Env /\ Turn
  /\ \E p \in Players :
       /\ owners[s] = p
       /\ \/ /\ device[p] = s /\ call[<<p, "ask">>] = <<>>
             /\ Continue(<<p, "ask">>, Yield(p))
             /\ UNCHANGED <<groups, hold, voice, watch, chain, given, edits>>
          \/ /\ device[p] # s /\ s \in members[p]
             /\ Give(p, Op("drop", s, {}, None))

\* The household changes its groups: every player with a speaker regroups.
Regroup(gs, joining) ==
  /\ Turn /\ ("overlap" \in Env \/ \A p, q \in Players : open[p] /\ open[q] => p = q)
  /\ edits < MaxEdits /\ edits' = edits + 1
  /\ groups' = {g \in gs : Cardinality(g) > 1}
  /\ chain' = [p \in Players |-> IF open[p] /\ device[p] # None
                                THEN Append(chain[p], Op("regroup", None, joining, None))
                                ELSE chain[p]]
  /\ UNCHANGED <<hold, voice, watch, call, given>>

JoinGroup(leader, m) ==
  LET all == GroupOf(leader) \cup {leader, m}
  IN Regroup({g \ all : g \in groups} \cup {all}, {leader, m})

Unjoin(s) == Regroup({g \ {s} : g \in groups}, {})

Resume(t) ==
  /\ call[t] # <<>>
  /\ Segment(t, Head(call[t]), Tail(call[t]))
  /\ UNCHANGED <<groups, given, edits>>

Next ==
  \/ Settled /\ \E p \in Players : Command(p) \/ Tick(p) \/ DropUnreachable(p)
  \/ Settled /\ \E s \in Speakers : Input(s) \/ Unjoin(s) \/ \E m \in Speakers \ {s} : JoinGroup(s, m)
  \/ \E p \in Players : Begin(p)
  \/ \E t \in Threads : (Ready(t) \/ Settled) /\ Resume(t)

Spec == Init /\ [][Next]_vars

-----------------------------------------------------------------------------
(* Properties.                                                             *)

\* What a player drives: the speaker it has a transport to, and its group.
Held(v) == (IF open[v] THEN {device[v]} ELSE {}) \cup members[v]

\* Every variable has its type, and no player counts the speaker it leads on
\* among the members (switchDevice undoes the group before it moves).
TypeOK ==
  /\ groups \subseteq SUBSET Speakers
  /\ owners \in [Speakers -> Players \cup {None}]
  /\ device \in [Players -> Speakers \cup {None}]
  /\ {open, playing, starting, polling, foreign} \subseteq [Players -> BOOLEAN]
  /\ members \in [Players -> SUBSET Speakers]
  /\ \A p \in Players : device[p] \notin members[p]
  /\ reported \in [Players -> {"none", "playing", "paused"}]
  /\ given \in [Players -> 0..MaxOps] /\ edits \in 0..MaxEdits

\* player.ts:51-53: "One physical speaker, one driver ... two accounts never
\* fight over the same box": once every call is over, no speaker is driven by
\* two players, as the one they lead on or as a member of their groups.
OneDriver == AllIdle =>
  \A p, q \in Players : p # q => Held(p) \cap Held(q) = {}

\* A speaker is driven only by the player entered for it in `owners`: no other
\* player's claim could pass it by, and no release leaves it driven unclaimed.
HeldIsOwned == AllIdle => \A p \in Players : \A s \in Held(p) : owners[s] = p

\* A claim never outlives the driving: whatever overlaps or fails, a speaker
\* entered in `owners` is one its player leads on or has in its group, so that
\* asking the owner to give up (giveUp, releaseSpeaker) reaches it.
OwnedIsHeld == AllIdle => \A p \in Players, s \in Speakers : owners[s] = p => s \in Held(p)

\* player.ts:561: a player that yielded is silent.  The session never shows
\* music playing on a player without a transport to any speaker.
NoGhost == AllIdle => \A p \in Players : reported[p] = "playing" => open[p]

\* Music shown as playing is followed by the poll, which notices its end and a
\* stop from the speaker's own app.
Followed == AllIdle => \A p \in Players : reported[p] = "playing" => polling[p]
=============================================================================
