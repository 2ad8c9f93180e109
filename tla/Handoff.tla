------------------------------- MODULE Handoff -------------------------------
(* A page moves its account's playback between outputs
   (web/src/player/usePlayer.js): its own sound, the speakers it drives itself,
   another page.  A switch starts the new output before it stops the old one and
   waits for both; taps, newer switches, readings of the speaker and other
   pages' claims arrive meanwhile.                                          *)
EXTENDS Naturals, Sequences

CONSTANTS
  Here, Remotes,   \* the page's own sound; the speakers it drives
  MaxOps,          \* bound on the starts and switches
  Env              \* "overlap": asked for while another is under way;
                   \* "fail"; "deaf": a speaker ignores a stop; "tap";
                   \* "poll"; "slow": its answer takes over 2 s;
                   \* "others": another page plays

VARIABLES
  dev,         \* deviceRef
  want,        \* playing: what the button shows
  clock,       \* anchorRef: "stopped", "held" until the speaker moves, "running"
  fresh,       \* it was stopped within the last 2 s
  loaded,      \* loadedRef is the song shown
  act,         \* activePlayerRef: another page plays
  sounds,      \* the outputs that sound
  transition,  \* transitionRef
  timers,      \* the timers of earlier switches that will clear it
  stopping,    \* output -> its stop: "no", "sent", "verify"
  reading,     \* what a poll of `dev` was answered
  op           \* the starts and switches asked for, in their order

vars == <<dev, want, clock, fresh, loaded, act, sounds, transition, timers, stopping, reading, op>>

Outs  == {Here} \cup Remotes
Kinds == {"switch", "start", "take", "again"}
Ops   == [kind : Kinds, pc : {"ask", "load", "done"}, to : Outs, prev : Outs]

TypeOK ==
  /\ dev \in Outs /\ want \in BOOLEAN /\ clock \in {"stopped", "held", "running"}
  /\ fresh \in BOOLEAN /\ loaded \in BOOLEAN /\ act \in BOOLEAN
  /\ sounds \subseteq Outs /\ transition \in BOOLEAN /\ timers \in 0 .. MaxOps
  /\ stopping \in [Outs -> {"no", "sent", "verify"}]
  /\ reading \in {"none", "playing", "silent"}
  /\ op \in Seq(Ops) /\ Len(op) <= MaxOps

\* A queue restored from the last run, paused.
Init ==
  /\ dev = Here /\ want = FALSE /\ clock = "stopped" /\ fresh = FALSE
  /\ loaded = FALSE /\ act = FALSE
  /\ sounds = {}
  /\ transition = FALSE /\ timers = 0 /\ stopping = [o \in Outs |-> "no"]
  /\ reading = "none" /\ op = <<>>

UnderWay  == {i \in DOMAIN op : op[i].pc # "done"}
Resting   == UnderWay = {} /\ \A o \in Outs : stopping[o] # "sent"
\* switchGenRef and startGenRef: a later one of the kind was asked for.
StillMine(i) == \A j \in DOMAIN op : j > i => op[j].kind # op[i].kind

Free == "overlap" \in Env \/ Resting

Ask(kind, pc, to) ==
  /\ Len(op) < MaxOps /\ Free
  /\ op' = Append(op, [kind |-> kind, pc |-> pc, to |-> to, prev |-> dev])
End(i) == op' = [op EXCEPT ![i].pc = "done"]

\* stopOn: the page's own sound at once, a speaker by a command that is
\* verified in the background.
StopOn(o, ss) ==
  IF o = Here THEN sounds' = ss \ {Here} /\ UNCHANGED stopping
              ELSE sounds' = ss /\ stopping' = [stopping EXCEPT ![o] = "sent"]

Obeyed(o) == sounds' \in {sounds \ {o}} \cup (IF "deaf" \in Env THEN {sounds} ELSE {})

\* The command arrives; then the speaker is asked every 400 ms, for 4 s.
Stopped(o) ==
  /\ stopping[o] = "sent" /\ Obeyed(o)
  /\ stopping' = [stopping EXCEPT ![o] = "verify"]
  /\ UNCHANGED <<dev, want, clock, fresh, loaded, act, transition, timers, reading, op>>

Verify(o) ==
  /\ stopping[o] = "verify"
  /\ \/ o \in sounds /\ Obeyed(o) /\ UNCHANGED stopping
     \/ stopping' = [stopping EXCEPT ![o] = "no"] /\ UNCHANGED sounds
  /\ UNCHANGED <<dev, want, clock, fresh, loaded, act, transition, timers, reading, op>>

\* setDevice: to another output while this page plays, or is paused.
Switch(o) ==
  /\ ~act /\ o # dev
  /\ Ask("switch", IF ~want THEN "done" ELSE IF o = Here THEN "load" ELSE "ask", o)
  /\ dev' = o /\ transition' = TRUE /\ clock' = (IF want THEN "held" ELSE "stopped")
  /\ IF want THEN UNCHANGED <<sounds, stopping, loaded, timers>>
             ELSE StopOn(dev, sounds) /\ loaded' = FALSE /\ timers' = timers + 1
  /\ fresh' = (fresh \/ ~want) /\ reading' = "none" /\ UNCHANGED <<want, act>>

\* The finally of a switch: its timer clears the transition 2.5 s later,
\* whichever switch is under way then.
Settle == timers' = timers + 1
Timer ==
  /\ timers > 0 /\ timers' = timers - 1 /\ transition' = FALSE
  /\ UNCHANGED <<dev, want, clock, fresh, loaded, act, sounds, stopping, reading, op>>

\* Were the output before left to play:
MovedOn(i, ss) ==
  /\ want' = TRUE /\ sounds' = ss /\ loaded' = FALSE /\ UNCHANGED stopping

\* The new output plays: the button shows it and the old one is stopped
\* (stopOn unloads the song whichever output it is told to stop).
Moved(i, ss) ==
  /\ want' = TRUE /\ StopOn(op[i].prev, ss) /\ loaded' = FALSE

\* A speaker that already plays this song is taken as it is.
Status(i) ==
  /\ op[i].pc = "ask" /\ op[i].kind = "switch"
  /\ \/ /\ op[i].to \in sounds /\ clock' = "held" /\ End(i) /\ Settle
        /\ IF StillMine(i) THEN Moved(i, sounds) ELSE UNCHANGED <<want, sounds, stopping, loaded>>
     \/ /\ op[i].to \notin sounds \/ "fail" \in Env
        /\ IF StillMine(i) THEN op' = [op EXCEPT ![i].pc = "load"] /\ UNCHANGED timers
                           ELSE End(i) /\ Settle
        /\ UNCHANGED <<clock, want, sounds, stopping, loaded>>
  /\ UNCHANGED <<fresh, dev, act, transition, reading>>

\* Were the generation not looked at after the load:
ArriveAnyway(i) ==
  /\ op[i].pc = "load" /\ op[i].kind = "switch" /\ End(i) /\ Settle
  /\ Moved(i, sounds \cup {op[i].to}) /\ clock' = "held"
  /\ UNCHANGED <<fresh, dev, act, transition, reading>>

\* startOn resolves for a switch.
Arrive(i) ==
  /\ op[i].pc = "load" /\ op[i].kind = "switch" /\ End(i) /\ Settle
  /\ IF StillMine(i)
     THEN Moved(i, sounds \cup {op[i].to}) /\ clock' = "held"
     ELSE /\ sounds' = sounds \cup {op[i].to} /\ loaded' = TRUE
          /\ UNCHANGED <<want, stopping, clock>>
  /\ UNCHANGED <<fresh, dev, act, transition, reading>>
\* It throws: back to the output before.
Refuse(i) ==
  /\ "fail" \in Env /\ op[i].pc = "load" /\ op[i].kind = "switch" /\ End(i) /\ Settle
  /\ IF StillMine(i)
     THEN dev' = op[i].prev /\ want' = TRUE /\ clock' = "held" /\ reading' = "none"
     ELSE UNCHANGED <<dev, want, clock, reading>>
  /\ UNCHANGED <<fresh, loaded, act, sounds, transition, stopping>>

\* toggle: a song that is not loaded is started, on a speaker also when the
\* button shows it playing.
Tap ==
  /\ "tap" \in Env /\ ~act /\ ~loaded /\ (~want \/ dev # Here)
  /\ Ask("start", "load", dev) /\ want' = TRUE /\ clock' = "held"
  /\ UNCHANGED <<fresh, dev, loaded, act, sounds, transition, timers, stopping, reading>>

\* playQueue, skipTo: another song.
Skip ==
  /\ "tap" \in Env /\ ~act /\ Ask("start", "load", dev)
  /\ want' = TRUE /\ clock' = "held" /\ loaded' = FALSE
  /\ UNCHANGED <<fresh, dev, act, sounds, transition, timers, stopping, reading>>

Pause ==
  /\ "tap" \in Env /\ Free /\ ~act /\ want /\ (loaded \/ dev = Here)
  /\ sounds' = sounds \ {dev} /\ want' = FALSE /\ clock' = "stopped" /\ fresh' = TRUE
  /\ UNCHANGED <<dev, loaded, act, transition, timers, stopping, reading, op>>

Resume ==
  /\ "tap" \in Env /\ Free /\ ~act /\ ~want /\ loaded
  /\ sounds' = sounds \cup {dev} /\ want' = TRUE /\ clock' = "held"
  /\ UNCHANGED <<fresh, dev, loaded, act, transition, timers, stopping, reading, op>>

\* A speaker that cannot seek, or whose stream stands still, is started again:
\* without a generation.
Again ==
  /\ "tap" \in Env /\ ~act /\ dev # Here /\ Ask("again", "load", dev)
  /\ UNCHANGED <<dev, want, clock, fresh, loaded, act, sounds, transition, timers, stopping, reading>>

\* startOn resolves or throws for a start.
Started(i) ==
  /\ op[i].pc = "load" /\ op[i].kind \in {"start", "again", "take"} /\ End(i)
  /\ \/ /\ sounds' = sounds \cup {op[i].to}
        /\ loaded' = (loaded \/ op[i].kind # "start" \/ StillMine(i))
        /\ want' \in CASE op[i].kind = "start" -> {want}
                       [] op[i].kind = "take"  -> {TRUE}
                       [] OTHER                -> {want, TRUE}   \* a stall; a seek
     \/ /\ "fail" \in Env /\ UNCHANGED <<sounds, loaded>>
        /\ want' = (want /\ (op[i].kind # "start" \/ ~StillMine(i)))
  /\ UNCHANGED <<fresh, dev, clock, act, transition, timers, stopping, reading>>

\* The session goes to another page: what plays here stops, its claim follows.
HandOut ==
  /\ "others" \in Env /\ ~act /\ Free
  /\ sounds' = sounds \ {dev} /\ loaded' = (loaded /\ dev # Here)
  /\ want' = FALSE /\ clock' = "stopped" /\ fresh' = TRUE
  /\ UNCHANGED <<dev, act, transition, timers, stopping, reading, op>>

\* Another page's claim: this one falls silent.
Yield ==
  /\ "others" \in Env /\ ~act /\ Free
  /\ act' = TRUE /\ sounds' = sounds \ {dev} /\ loaded' = (loaded /\ dev # Here)
  /\ want' = FALSE /\ clock' = "stopped" /\ fresh' = TRUE
  /\ UNCHANGED <<dev, transition, timers, stopping, reading, op>>

\* An output of this page picked while another page plays: its session is
\* claimed, then its queue is fetched, then the song started.
TakeOver(o) ==
  /\ act /\ Ask("take", "ask", o) /\ dev' = o /\ act' = FALSE
  /\ reading' = "none"
  /\ UNCHANGED <<fresh, want, clock, loaded, sounds, transition, timers, stopping>>

Fetched(i) ==
  /\ op[i].pc = "ask" /\ op[i].kind = "take"
  /\ \/ op' = [op EXCEPT ![i].pc = "load"] /\ clock' = "held"
     \/ "fail" \in Env /\ End(i) /\ UNCHANGED clock
  /\ UNCHANGED <<fresh, dev, want, loaded, act, sounds, transition, timers, stopping, reading>>

\* A speaker's song ends, or somebody stops it at the speaker.
Silent(r) ==
  /\ "poll" \in Env /\ r \in sounds /\ sounds' = sounds \ {r}
  /\ UNCHANGED <<dev, want, clock, fresh, loaded, act, transition, timers, stopping, reading, op>>

\* The poll of a speaker: asked outside a transition, and dropped when the
\* output changed or a transition began before the answer.
Poll ==
  /\ "poll" \in Env /\ dev # Here /\ ~transition /\ reading = "none"
  /\ reading' = (IF dev \in sounds THEN "playing" ELSE "silent")
  /\ UNCHANGED <<dev, want, clock, fresh, loaded, act, sounds, transition, timers, stopping, op>>

\* apply.  Within 2 s of a pause a speaker that still plays is not believed, nor
\* is a silent one for 1.5 s; a held clock runs once the speaker does.
Believed ==
  \/ UNCHANGED <<want, clock>>
  \/ clock = "held" /\ reading = "playing" /\ clock' = "running" /\ UNCHANGED want
  \/ ~(fresh /\ clock = "stopped") /\ want' = (reading = "playing")
     /\ clock' = (IF reading = "playing" THEN "running" ELSE "stopped")

\* 2 s pass; an answer takes less, unless "slow".
Time ==
  /\ fresh /\ fresh' = FALSE /\ (reading = "none" \/ "slow" \in Env)
  /\ UNCHANGED <<dev, want, clock, loaded, act, sounds, transition, timers, stopping, reading, op>>

\* The song's end: stopped first, then the next one started (playQueue, skipTo).
Advance ==
  /\ clock # "stopped" /\ reading = "silent"
  /\ Ask("start", "load", dev) /\ want' = TRUE /\ clock' = "held" /\ loaded' = FALSE

Apply ==
  /\ reading # "none" /\ reading' = "none"
  /\ \/ transition /\ UNCHANGED <<want, clock, loaded, op>>
     \/ ~transition /\ Believed /\ UNCHANGED <<loaded, op>>
     \/ ~transition /\ Advance
  /\ fresh' = (fresh \/ clock' = "stopped")
  /\ UNCHANGED <<dev, act, sounds, transition, timers, stopping>>

Next ==
  \/ \E o \in Outs : Stopped(o) \/ Verify(o) \/ Switch(o) \/ TakeOver(o)
  \/ \E i \in DOMAIN op :
       \/ Status(i) \/ Arrive(i) \/ Refuse(i) \/ Started(i) \/ Fetched(i)
  \/ \E r \in Remotes : Silent(r)
  \/ Timer \/ Time \/ Tap \/ Skip \/ Pause \/ Resume \/ Again \/ HandOut \/ Yield \/ Poll \/ Apply

Spec == Init /\ [][Next]_vars

\* A switch a newer one replaced, and a start a newer one replaced, change
\* neither the output nor the button when their late answer comes.
Newest ==
  \A i \in DOMAIN op :
    op[i].kind \in {"switch", "start"} /\ ~StillMine(i) /\ op'[i] # op[i]
      => dev' = dev /\ want' = want
NewestWins == [][Newest]_vars

\* One hand-off at a time leaves no output but the chosen one sounding: not the
\* one left, not one that failed, not one left to another page.
AloneAtRest ==
  UnderWay = {} /\ (\A o \in Outs : stopping[o] = "no") => sounds \subseteq {dev}
=============================================================================
