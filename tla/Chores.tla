------------------------------- MODULE Chores -------------------------------
(* The task scheduler (server/src/tasks.ts, registerTasks): chores that run by
   the clock one at a time, chores that run alongside, chores started by hand
   or by a change in the watched folder, and what is remembered of each run.

   Time is in units; a local day is a row of them, and the two days a year that
   are shorter or longer are shorter or longer here.                          *)
EXTENDS Integers, Sequences, FiniteSets

CONSTANTS
  Defs,        \* the tasks in their order
  Alongside, Watched,   \* those beside the line, those with a watchDir
  Modes,       \* task -> the schedules it may be given
  Hours,       \* an interval, in units
  DayStart, Points,     \* when local day i starts, and when its daily point is
  Day,         \* 86400000 ms, in units
  Unrun,
  MaxTime, MaxOps,      \* bounds on the clock and on what happens from outside
  Env          \* "hand", "sched", "change", "crash", "fail"

Tasks == {Defs[i] : i \in DOMAIN Defs}
Line  == Tasks \ Alongside

VARIABLES
  now,
  sched,      \* task -> its schedule
  running,    \* task -> when and by what it was started, or Unrun
  last,       \* task -> its last run, or Unrun (kv)
  rr,         \* the place in Defs of the last task the clock started
  watching, armed,   \* tasks with a watcher, with the two minutes running
  seen,       \* history: task -> clock starts since its last daily point
  passed,     \* history: task -> others the clock started while it was due
  ops

vars == <<now, sched, running, last, rr, watching, armed, seen, passed, ops>>

Init ==
  /\ now = 0 /\ ops = 0
  /\ sched \in {s \in [Tasks -> UNION {Modes[t] : t \in Tasks}] : \A t \in Tasks : s[t] \in Modes[t]}
  /\ running = [t \in Tasks |-> Unrun] /\ last = [t \in Tasks |-> Unrun]
  /\ rr = 0 /\ armed = {}
  /\ watching = {t \in Watched : sched[t] = "watch"}
  /\ seen = [t \in Tasks |-> 0] /\ passed = [t \in Tasks |-> 0]

---------------------------------------------------------------------------
Today(n) == CHOOSE i \in DOMAIN DayStart :
              DayStart[i] <= n /\ \A j \in DOMAIN DayStart : DayStart[j] <= n => j <= i
\* Were the day before the day before last taken:
PointTwoDaysBack(n) == LET t == Points[Today(n)] IN IF t > n THEN t - 2 * Day ELSE t - Day

\* prevPoint: today's, or a day's worth of milliseconds before it.
PrevPoint(n) == LET t == Points[Today(n)] IN IF t > n THEN t - Day ELSE t

\* The point it stands for: the last local one there was.
LastPoint(n) == LET ps == {Points[i] : i \in DOMAIN Points} \cap 0 .. n
                IN  IF ps = {} THEN -Day ELSE CHOOSE p \in ps : \A q \in ps : q <= p

DueBy(point, mode, run, n) ==
  CASE mode = "interval" -> run = Unrun \/ n - run.ended >= Hours
    [] mode = "daily"    -> run = Unrun \/ run.started < point
    [] OTHER             -> FALSE

Due(t) == DueBy(PrevPoint(now), sched[t], last[t], now)

Busy == \E t \in Line : running[t] # Unrun

\* What a step leaves due has seen the clock start another task.
Counted(by, S) ==
  /\ seen' = [t \in Tasks |-> IF by = "clock" /\ t \in S /\ sched[t] = "daily" THEN seen[t] + 1 ELSE seen[t]]
  /\ passed' = [t \in Tasks |-> IF t \in S \/ ~Due(t) THEN 0
                                 ELSE IF by = "clock" /\ S \cap Line # {} THEN passed[t] + 1 ELSE passed[t]]

Start(S, by) ==
  /\ running' = [t \in Tasks |-> IF t \in S /\ running[t] = Unrun THEN [started |-> now, by |-> by] ELSE running[t]]
  /\ Counted(by, S)
\* Were the line always looked through from its head:
TurnFromHead(i) == i

\* The line, looked through once from just past the last one started.
Turn(i) == ((rr + i - 1) % Len(Defs)) + 1
NextInLine ==
  LET due == {i \in 1 .. Len(Defs) : LET t == Defs[Turn(i)] IN t \in Line /\ Due(t)}
  IN  IF Busy \/ due = {} THEN {} ELSE {Turn(CHOOSE i \in due : \A j \in due : i <= j)}

Ready == {t \in Alongside : running[t] = Unrun /\ Due(t)}

Synced(s) == {t \in Watched : s[t] = "watch"}

Tick ==
  \E beside \in {Ready}, next \in {NextInLine} :
    /\ beside # {} \/ next # {} \/ watching # Synced(sched)
    /\ watching' = Synced(sched)
    /\ rr' = IF next = {} THEN rr ELSE CHOOSE i \in next : TRUE
    /\ Start(beside \cup {Defs[i] : i \in next}, "clock")
    /\ UNCHANGED <<now, sched, last, armed, ops>>

\* Were the end of a run noted as its start:
EndUnwritten(t) ==
  /\ running[t] # Unrun
  /\ running' = [running EXCEPT ![t] = Unrun]
  /\ UNCHANGED <<now, sched, last, rr, watching, armed, seen, passed, ops>>

\* A run ends, well or not: both are written down.
End(t) ==
  /\ running[t] # Unrun
  /\ last' = [last EXCEPT ![t] = [started |-> running[t].started, ended |-> now]]
  /\ running' = [running EXCEPT ![t] = Unrun]
  /\ UNCHANGED <<now, sched, rr, watching, armed, seen, passed, ops>>

Outside(e) == e \in Env /\ ops < MaxOps /\ ops' = ops + 1

\* Run now, and work queued from elsewhere.
ByHand(t) ==
  /\ Outside("hand") /\ running[t] = Unrun
  /\ Start({t}, "hand")
  /\ UNCHANGED <<now, sched, last, rr, watching, armed>>

PutSchedule(t, mode) ==
  /\ Outside("sched") /\ sched' = [sched EXCEPT ![t] = mode]
  /\ watching' = Synced(sched')
  /\ armed' = armed \cap (watching' \cup (Tasks \ watching))
  /\ passed' = [passed EXCEPT ![t] = 0] /\ seen' = [seen EXCEPT ![t] = 0]
  /\ UNCHANGED <<now, running, last, rr>>

\* A change in the folder; ignored while a chore runs (its own footsteps).
Change(t) ==
  /\ Outside("change") /\ t \in watching
  /\ armed' = IF Busy THEN armed ELSE armed \cup {t}
  /\ UNCHANGED <<now, sched, running, last, rr, watching, seen, passed>>

\* Two minutes later; it stands down if something runs.
Settle(t) ==
  /\ t \in armed /\ armed' = armed \ {t}
  /\ Start(IF Busy \/ running[t] # Unrun THEN {} ELSE {t}, "watch")
  /\ UNCHANGED <<now, sched, last, rr, watching, ops>>

\* The share is unmounted: the watcher is dropped, the next tick tries again.
WatcherDies(t) ==
  /\ Outside("change") /\ t \in watching /\ watching' = watching \ {t}
  /\ UNCHANGED <<now, sched, running, last, rr, armed, seen, passed>>

Crash ==
  /\ Outside("crash")
  /\ running' = [t \in Tasks |-> Unrun] /\ rr' = 0 /\ armed' = {}
  /\ watching' = Synced(sched)
  /\ seen' = [t \in Tasks |-> IF running[t] # Unrun /\ running[t].by = "clock" THEN 0 ELSE seen[t]]
  /\ passed' = [t \in Tasks |-> 0]
  /\ UNCHANGED <<now, sched, last>>

\* The clock moves on when the scheduler has looked at it.
Time ==
  /\ now < MaxTime /\ Ready = {} /\ NextInLine = {}
  /\ now' = now + 1
  /\ seen' = [t \in Tasks |-> IF LastPoint(now') # LastPoint(now) THEN 0 ELSE seen[t]]
  /\ UNCHANGED <<sched, running, last, rr, watching, armed, passed, ops>>

Next ==
  \/ Tick \/ Time \/ Crash
  \/ \E t \in Tasks : End(t) \/ ByHand(t) \/ Change(t) \/ Settle(t) \/ WatcherDies(t)
  \/ \E t \in Tasks : \E m \in Modes[t] : PutSchedule(t, m)

Spec     == Init /\ [][Next]_vars
FairSpec == Spec /\ WF_vars(Tick) /\ WF_vars(Time) /\ \A t \in Tasks : WF_vars(End(t))

---------------------------------------------------------------------------
\* Types.
TypeOK ==
  /\ now \in 0 .. MaxTime /\ \A t \in Tasks : sched[t] \in Modes[t]
  /\ \A t \in Tasks : running[t] # Unrun => running[t].started <= now
  /\ \A t \in Tasks : last[t] # Unrun => last[t].started <= last[t].ended
  /\ rr \in 0 .. Len(Defs) /\ watching \subseteq Watched /\ armed \subseteq Watched

\* A chore that is due is passed over by each of the others at most once, so
\* that "a chore that takes longer than its interval cannot starve the ones
\* listed after it".
NobodyStarves == \A t \in Line : passed[t] < Cardinality(Line)

\* A daily chore is started by the clock once for each time its hour comes.
OncePerPoint == \A t \in Tasks : sched[t] = "daily" => seen[t] <= 1

\* A daily point that was missed (the server was down, the line was held) is
\* caught up.
CaughtUp ==
  \A t \in Tasks : (sched[t] = "daily" /\ DueBy(LastPoint(now), "daily", last[t], now))
                   ~> (running[t] # Unrun \/ sched[t] # "daily" \/ ~DueBy(LastPoint(now), "daily", last[t], now))
=============================================================================
