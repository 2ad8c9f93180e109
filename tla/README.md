# Slopify, specified

TLA+ modules, model-checking runs and machine-checked proofs for the parts of
Slopify whose correctness depends on the order in which things happen: who makes
sound, who drives which speaker, who may run ffmpeg, what happens to a song's
files, likes and lyrics while several tasks work on them, and what a page keeps
and plays while requests, timers and other devices race for it. `PROJECT.json`
lists the components, the runs, the source lines behind every definition, the
hazards, the findings and the theorems. Paths below are relative to the
repository.

## 1. The system

Slopify is a self-hosted music server (Node, Fastify, SQLite, ffmpeg) with a web
application that also runs inside the desktop, phone and TV shells. JavaScript
is single-threaded, so nothing is preempted: the interleavings come from
`await`, timers, messages on websockets, ffmpeg processes, the speakers' answers
over the network, and the browser, which ends a service worker or pauses an
audio element when it likes. Inside one process the grain of every model is the
stretch of code between two awaits.

```
  page ------------------------------------------------------------- browser
   usePlayer.js   audio elements, queue, outputs      sw.js        kept app, kept answers
   trackCache.js  whole songs in memory               offline/     kept songs, per account
   session.js     SessionLink
        | websocket              | playlists, segments, songs
        v                        v
  session.ts ---> ServerPlayer  stream.ts ------ reads ----> songcache.ts ---- copies ---+
   one session    one per       slots, runs,                  SSD                        |
   per account    account       warm queue                                               v
                     |                                                          library on the NAS
                     v                                                                   ^
                 speakers (groups.ts, transports)                                        |
  tasks.ts  runs the chores:  scanner.ts + remap.ts, FLAC upgrade, ingest.ts,  ----------+
            enrich.ts, downloads.ts (Lidarr, slskd), lyricsync.ts (aligner)
```

### Inventory

| Component | State it keeps | Operations | What is hard | What makes it correct |
|---|---|---|---|---|
| Session server, `session.ts` | `clients` (id -> socket), one session per account, `selfId` per socket | `hello`, `claim`, `nowplaying`, close event, heartbeat, save and load | frames of an old socket after a new one registered; claims re-asserted after a drop; a restart forgets who is active | one client sounds; the clock stands still without one; no client evicts another |
| Session link, `session.js` | socket, client id, `claimed`, `pressedAt`, last report | connect, move, retry, claim, report, yield | the socket drops at any frame; a press while a yield is on its way | a press is never lost; a yield stops the sound |
| Speaker player and groups, `player.ts`, `groups.ts` | speaker, transport, members, poll, `ops` chain; `owners` shared by all; sets of speakers | transfer, play, toggle, yield, claim, hand-off, regroup, poll, join, unjoin | chain, poll and other accounts' claims interleave at every await; each request may fail | a speaker has one driver, and its owner entry says who; nothing is shown playing that is not |
| Transcoder, `stream.ts` | `liveFf`, `fgActive`, `waiters`, `running`, `finishing`, `warmQueue`, the variants' directories | playlist, whole song, direct stream, prewarm, warm, segments, trim, join | processes that hang, exit late or are killed; slots given back from several places | the load is capped; one encode per variant; `done` means complete; every request is answered |
| Song cache, `songcache.ts` | rows and files of copied songs, want list | get, want, pump, fetch, evict, drop | eviction against a reader; a copy that timed out still writes | no row without a file, no file without a row, the cap kept |
| Task scheduler, `tasks.ts` | schedules, last runs, the round-robin, watchers | tick, run, start by hand, reschedule, watch, boot | several due at once; local days; a restart mid-run | each point runs once; no chore starves; a missed one is caught up |
| Library: `scanner.ts`, `remap.ts`, the upgrade in `tasks.ts`, `ingest.ts` | rows by path and by audio, remembered rows, journal; NAS and drop folder | full, folder and ingest scans, adopt, retire, upgrade, sweep, copy, check, clear | they run beside each other and the owner; crash between any two steps | likes stay with the song; the last copy is never deleted |
| Downloads, `downloads.ts` | watch rows, give-ups, requests | the watching pass, request, retry | rows read before awaits and written after | an album has its whole time before it is given up |
| Lyrics, `lyricsync.ts` | lyrics, verdicts, jobs, `.lrc` and `.orig.lrc` files | sync, task, undo, scan, fetch, song removed and back | what was read minutes ago decides what is overwritten | the music's own `.lrc` is never lost; each request is answered |
| Page sound, `usePlayer.js` | two audio elements, the start under way, fade, watchdog | start, swap, preload, fade, pause, yield, recover, reconcile | each start is a chain of awaits others overtake; the system pauses by itself | one song is heard, the newest start's; the button tells the truth |
| Page queue, `usePlayer.js` | queue, index, modes, lookups under way, the saved queue | play, add, edit, advance, shuffle, extend, blend, reload | answers arrive after the queue changed | an answer keeps the song playing; a reload opens the same song |
| Page outputs, `usePlayer.js` | chosen output, the switch under way, pause verification | switch, tap, transport, yield, poll | a switch waits seconds for two devices | the newest choice wins; nothing else sounds at rest |
| Page memory, `trackCache.js` | wanted, held, ready, one download | keep, release, pause, resume, gate | two effects drive one download | the next songs are fetched; the memory is bounded |
| Offline listening, `offline/store.js` | a library per account, shared files, jobs, workers | save, download, mark, resume, remove, switch account | jobs and removals overlap; two accounts share files | a listed song has its file |
| Service worker, `sw.js`, `App.jsx`, `slopify.js` | kept index and files; kept answers per account | refresh, open, update, ask, sign in | refreshes overlap and are ended midway; answers come late | what opens is whole; own answers only; told of what is newer |
| Play events, `playEvents.ts` | one tracker per connection | report, disconnect | reports across a reconnect | not modelled |
| Accounts, recommendations, jobs, discovery and transports, addresses, clients, Home Assistant | SQL rows, devices | - | sequential, or data-heavy | not modelled (section 8) |

The hazards, each at its line, are in `PROJECT.json`; the three without a
property are described in sections 5 and 8.

## 2. Modules and the code

| Module | Of | Proofs |
|---|---|---|
| `Session` | the session server and the pages' links | `SessionProofs` |
| `Speakers` | the accounts' players, `owners`, the groups | `SpeakersProofs` |
| `Transcode` | slots, runs of ffmpeg, requests, the warm queue | `TranscodeProofs` |
| `SongCache` | the copies on the SSD | `SongCacheProofs` |
| `Chores` | the task scheduler | `ServerProofs` |
| `Library`, `Shelf` | files, rows and everything that writes both; what it promises a listener | |
| `Downloads` | the pass over the wanted list | `ServerProofs` |
| `Lyrics` | the line of songs, the task, undo, scans, fetched lyrics | `ServerProofs` |
| `PageSound`, `PageQueue`, `Handoff`, `TrackCache` | a page's elements, queue, outputs, memory | `PageProofs` (the first two), `HandoffProofs` |
| `Offline` | songs kept in the browser | `BrowserProofs` |
| `Shell`, `Answers` | the service worker's app and answers | `BrowserProofs` |
| `MCSession`, `MCSpeakers`, `MCTranscode`, `MCLibrary`, `MCOffline` | instances for TLC | |
| `MCPages`, `MCPlayback`, `MCProgress`, `MCServer` | unions of components for TLC (section 3) | |

A union extends the components whose properties it checks by the names the
theorems use, and instantiates the rest: `MCPages` extends `Session`, `Shell`,
`Answers` and `Offline`, `MCServer` extends `Chores`, `Lyrics` and `Downloads`,
`MCPlayback` extends `Speakers`, `PageSound` and `PageQueue`, `MCProgress` extends
`Transcode` and `SongCache`. Where two of these would share a name, one carries its module's
(`ShellInit`, `AnswersNext`, `OfflineTypeOK`, `QueueSpec`, `WatchSpec` of `Downloads`,
`CacheSpec` of `SongCache`). Every module takes `Env` (`ShellEnv`, `AnswersEnv`, `OfflineEnv`,
`LyricsEnv`, `SoundEnv`, `QueueEnv`, `WatchEnv`, `CacheEnv` in those eight), the set of what else may
happen (a drop, a crash, a failing request, a second actor); an
action that models such a thing is guarded by it. A property is checked with the largest `Env` it holds in, and section 5
says what happens with more.

### Session

The server's half: `registry` is `clients`, `selfId[k]` the id the hello on
socket k was given, `active`, `claimedAt` and `playing` the account's session.
`srv[k]` is the server's end of a socket: a socket that the server has begun to
close still hands over frames that were in flight until its close event, which
is what `ws.close()` does. The pages' half is `SessionLink` with the player
reduced to `deck`: nothing loaded, paused, playing. `up` and `down` are the
frames in flight, in order per socket, lost with the socket.

| Action | Code |
|---|---|
| `Hello` | the id taken or suffixed, the old socket replaced, hello-ok (session.ts 609-652) |
| `NowPlaying` | the report: takes a free session, moves the active one's clock, clears it (478-508) |
| `Claim` | play pressed: latest press wins, the others are told to yield (509-531) |
| `ServerClose` | the close event and the missed heartbeat: hand-over to a client still sounding, or release (586-680) |
| `Restart` | stop and `loadSession` (69-76): nobody active, not playing |
| `Connect`, `ConnectionLost`, `ClosePage` | session.js 68-83, 140-173, 241-246 |
| `OnHelloOk`, `OnYield` | session.js 95-116; usePlayer.js 2654-2665 |
| `Press`, `Stop`, `Report` | session.js 219, 200-203; usePlayer.js 2680-2692 |

Left out: rosters, queues and positions, commands relayed between clients,
likes, the sleep timer, kicks of a signed-out account, the rule that drops a
socket silent for 60 s (its effect is `ServerClose`), and the server's own
player as a client of the session. `claimedAt` is not saved, as in the code: a
restart sets it to 0. Two page clocks that differ (session.ts 517) and the delay
of the save (79) are left out. A fresh claim is stamped when the server handles
it, as in the code.

### Speakers

A command is a list of segments, the stretches between its awaits; `Calls`
gives the list for each operation of `run`, and a thread (`ops` for the chain,
`poll`, and `ask` for an outside call) runs the head of its list in one step. A
thread that waits for nothing but the microtask queue goes on before any
answer from the network comes (`Ready`, `Settled`). A throw goes to the nearest
catch (`Thrown`): the one around a claim's `giveUp`, or the command's own.

`owners`, `device`, `open` (a transport exists) and `members` are the code's
fields; `polling`, `starting`, `foreign`, `playing` its flags; `reported` what
the session was told last; `chain[p]` is `ops` with the operation running at
its head, and `by` names the thread waiting for one of them, as `giveUp`
returning `this.ops` does. The groups are edited by `JoinGroup` and `Unjoin`, and
every player on a speaker gets a `regroup`, as `groups.onChange` does.

Without `"overlap"` one thing is over before the next begins, which is how the
tests of `player.ts` drive it, and group edits happen only while one player at
most is on a speaker. Left out: queue, position, volume, sleep timer,
`shutdown`, what differs between transports (among it a leader leaving a group made
elsewhere, `standAlone` before the members are linked, player.ts 269, an await in which
no flag and no owner changes), and the discovery's lookups.

### Transcode

A `run` is one pass of `ensureHls`' inner function: it waits for a slot
(`asleep`, `awake`), clears and makes the directory, and polls its encode until
`started` or `failed`; its ffmpeg (`proc`) lives on after that. A watcher that has
looked for the last time sleeps once more before it kills (`stalling`), and what ffmpeg
does in that sleep it does not see. A run without a variant is a listener's own stream; a
listener who leaves before it has its slot (`gone`) is noticed by nobody. `live` and `fg` are `liveFf` and `fgActive`;
`slot` says how much of its slot a run still holds. `dir[v]` is the variant's
directory: segments counted as none, some, all, and the `done` marker.

| Action | Code (`stream.ts`) |
|---|---|
| `Acquire`, `Recheck`, `Timeout` | `acquire` 166-180: wait, look again, give up with Busy |
| `Startable`, `Release` | 181-184: half of the slot, all of it, each once, waking every waiter |
| `Clear`, `Spawn`, `CannotPrepare` | 210-227 |
| `Encode`, `Exit` | ffmpeg (external): it writes, exits, fails, hangs |
| `Exited`, `Mark` | the exit handler: marker, slot, `running` and `finishing` (222-227) |
| `Poll`, `LastLook`, `Stall`, `Deadline` | first segment, 30 s without one and the kill a sleep later, past the deadline (228-250) |
| `Ask`, `Listen`, `Hangup`, `LeaveWaiting`, `Wait`, `WaitOn`, `Whole` | who asks, and what they get |
| `Warm`, `Pump`, `Warmed` | `warm`, `pumpWarm` |

A woken waiter looks again in a step of its own, a little later than the code's
microtask: more interleavings, never fewer. Left out: segment routes,
`joinSegments`, `trimCache`, byte ranges, the measuring queue, the nightly pass.

### SongCache

`order` is the table `song_cache` by last use, `file` and `tmp` the songs under
their final and temporary names, `inflight`, `waiting` and `wants` the fetches
under way and asked for. `fetch[s]` is where `fetchOne` stands for a song, `evict`
where `evict` stands, `sweep` the clean-up of a copy that timed out and is still
writing.

| Action | Code |
|---|---|
| `Get`, `Want` | songcache.ts 26-45 |
| `Seen`, `Copied`, `FetchOver`, `Failed`, `Swept` | the copy, its time limit and what cleans up after it (56-83) |
| `Rename`, `Row`, `Choose`, `RemoveFile`, `DeleteRow`, `Done` | the song put in, the oldest taken out (84-103) |
| `Drop` | a song remapped away takes its copy along (remap.ts 15-21) |

### Chores

Time is in units, a local day a row of them (`DayStart`, `Points`), and the
days a year that are shorter or longer are shorter or longer. `running`, `last`,
`sched` and `rr` are the code's maps and its round-robin; `seen[t]` counts the
starts of a chore by the clock for one point and `passed[t]` the chores started
while it was due. `Tick` is the 60 s timer (199-220), `Start`/`End` a run
(139-153), `ByHand`, `PutSchedule`, `Change`, `Settle`, `WatcherDies` the other
ways a run begins (155-266), `Crash` a restart, which forgets what ran.
`PrevPoint`, `LastPoint` and `DueBy` are the date arithmetic (82-102).

### Library and Shelf

`nas` and `drop` say which audio is at each path, `row` and `gone` the tracks
table and the remembered rows, `likes` what one account's likes, playlist places
and plays have in common, `journal` and `up` the upgrade, `ing` the sweep of the drop folder, `scan[s]` the three
kinds of scan, each with the list it read (a full scan, a scan of folders, a scan
of just-copied files). A track's id is the hash of its audio,
so an id and an audio are one element.

| Action | Code |
|---|---|
| `StartScan`, `Walk`, `Meet`, `Record`, `Missing`, `EndScan`, `FullFailed` | scanner.ts 34-237, admin.ts 21-31 |
| `Remapped`, `Retired`, `Adopted`, `Pruned` (operators of the above) | remap.ts 10-95 |
| `UpBegin`, `UpRecover`, `UpPick`, `UpJournal`, `UpRename`, `UpRemove`, `UpScan`, `UpSettle`, `UpEnd`, `UpGiveUp` | the FLAC upgrade, tasks.ts 564-706 |
| `Sweep`, `Copy`, `Index`, `IndexDone`, `Check`, `Unlink` | ingest.ts 97-276 |
| `AddFile`, `RemoveFile`, `MoveFile`, `Land`, `Like`, `Forget`, `Crash` | the owner, the listener, the process |

`Shelf` is what the library promises: songs come and go, and a like ends only
with a song that has been away for as long as the library remembers it.
`KeepsLikes` is `Listener!Spec`: under the mapping that takes `liked` to the songs
liked in a row, a remembered row or the journal, every step of `Library` is a
step of `Shelf` or a stutter.

### Downloads

`lidarr` is Lidarr's own state (what is wanted, which files it has, a download of
its own), `watch` the table `download_watch`, `asking` the requests whose answer
is awaited, `pass` where the watching pass stands with the rows it read; `moved`
is history: since when an album is owed its chance. `Look`, `Judge`,
`Indexers`, `Unmonitor`, `Finish` are one pass (downloads.ts 195-269), `Request` and
`Recorded` a request, `Chore` that of the chores, which ask for whatever is not
given up and record nothing (tasks.ts 458-466), `Land`, `Own`, `Search` what Lidarr and
the Soulseek searcher do by themselves. All of it may come in the middle of a pass.
Lidarr's answer to the pass's first question is taken as of the moment it is asked.

### Lyrics

`text`, `align`, `job` are the tables, `lrc` and `keep` the files `<name>.lrc` and
`<name>.orig.lrc` with whose words they hold, `line` the queued jobs in order,
`task` the task with what it read of its song before the minutes of alignment.

| Action | Code |
|---|---|
| `Ask`, `Pick`, `Check`, `Replace`, `Keep`, `Write`, `CardBusy` | lyricsync.ts 195-205, 264-402, 423-443 |
| `Undo`, `UndoRow`, `UndoFiles` | 458-477 |
| `Restart`, `Resume` | 424-426 |
| `Scan`, `Pass`, `Fetch`, `Leave`, `Return` | scanner.ts 126-213, enrich.ts 104-125 |

### PageSound, PageQueue, Handoff, TrackCache

The page's player (`web/src/player/usePlayer.js`, 3,000 lines) is four models
that share no variable; where one hands over to another (a skip reaches the
sound, the queue and the memory) each models its own part.

`PageSound`: `act` is the element that plays, the other one the spare, `src` and
`sounds` what each holds and whether it sounds, `loaded` and `gen` the refs, `starts` the starts under way with the await each is at, `fade`,
`recover` the watchdog's second look, `own` and `gaveBack` the flags against the
system's pauses, `playingRef` what the button says, `kept` the songs downloaded,
`Nothing` no song or element. A start is `PlayFrom` and then `HoldOver`, `Fetched`,
`Metadata`, and `Played`, `Aborted` or `SwapFailed` (655-774); `Pause`, `TogglePlay`,
`Revive`, `StopOn` (another device took over), `Preload`, `Transition`, `GiveBack`,
`FadeOver`, `Reload`, `Recovered`, `SystemPause`, `SystemResume`, `Reconcile` are the
functions and handlers of those names.

`PageQueue`: `queue`, `index`, `original`, `shuffle`, `repeat`, `ctx` and `saved` are
the refs and the stored queue; `asks` the lookups under way with what they were
about. `PlayQueue`, `AddToQueue`, `Edit`, `Skip`, `Advance`, `Previous`,
`SetShuffle`, `Extend`, `Routed` are the operations; `Answer` merges what was
found, by kind (`Continued`, `Extended`, `Blended`, `Filled`); `Save` is `saveQueue`,
part of every one of them; `Reopen` opens the page again.

`Handoff`: `dev` is the output the page shows, `want` the newest choice, `op` the
starts and switches asked for with the await each is at, `sounds` which outputs
make sound, `stopping` the 4 s verification after a stop, `timers` the 2.5 s
`transitionRef` timers, `reading` a poll under way. `Switch`, `Moved`, `Status`,
`Arrive`, `Refuse`, `Settle`, `Timer` are one switch (1523-1588); `Tap`, `Skip`,
`Pause`, `Resume`, `Again`, `HandOut`, `Yield`, `TakeOver`, `Poll`, `Apply` what may
come meanwhile.

`TrackCache`: `wanted`, `order`, `ready`, `held`, `paused`, `load` are the fields of
`createTrackCache`; `cur`, `playing`, `gate`, `due`, `retry` the two effects. `Download` is
what comes over the network (whole, broken off, given up), `Preload` the effect
that asks and holds, `Retry` the same again every two seconds while there is no room
for more (2083-2085), `Open`/`Shut` the gate. Room is certain with the song playing at
hand or none to follow, and otherwise open.

### Offline

`lib[a]` is an account's library (collections, tracks with quality and file),
`cache` the shared files, `jobs`/`job`/`worker` the queue and its two workers,
`removing` a removal between taking the collection out, looking at the other
accounts and deleting. `Save`, `Take`, `Fetched`, `Mark`, `JobOver`, `Resume`,
`RemoveCollection`, `Held`, `Delete`, `Switch`, `Close` are store.js 32-242 and the
account switch of App.jsx 696-703. Covers, plays kept while offline, and room on
the device are left out.

### Shell and Answers

`Shell`: `index` and `kept` are the cache, `sham` the kept files that are in truth a
captive portal's page, `refresh[i]` a `cacheShell` under way (`Posted`, `GotIndex`,
`GotFiles`, `Put`, `Keys`, `Prune`, `Unanswered`, `Ended`; sw.js 41-53). A portal answers
every URL with its page and status 200, which `cacheShell` takes for the index, that
names none of the app's files (`GotPortal`, the build `Portal`), or for a file
(`GotFaked`). `page` the page that is open, with its own update (`Saw`, `Apply`, `Reload`;
App.jsx 1105-1147). `Answers`: `copies` the API cache per account, `req[i]` a request
with the copy it read at its start, `view` and `news` what the page shows and was
told (`Ask`, `Late`, `Arrive`, `Down`, `Write`, `SignIn`; sw.js 24-28, 154-198, 281;
slopify.js 107-113, 598-607). Covers and pruning are left out.

## 3. Runs

All bounds are CONSTANTs of the modules with values in the `.cfg` files or, for
the components of a union, in its `WITH`. Deadlock is not an error in any run:
pages, listeners and owners may stop asking, and the bounds on presses, sockets,
operations, time and runs end every behaviour.

A *union* is several components checked in one run: they share no variable, all
stand at their initial state, and one of them, named by `part`, moves. It is a
sum of state spaces, never a product; the components do not interact in it.

| Run | Shows | States |
|---|---|---|
| `SessionDrops` | two pages press play, pause and may be closed, while their links drop and come back on a third socket with what was pressed: at most one sounds once all is delivered (`OneVoice`), no id has two open sockets (`OneSocketPerId`), a session without an active client stands still (`FrozenWithoutActive`) | 2.0 M (symmetry) |
| `SessionLive` | across a restart, under fairness: the pages settle on one voice for good (`EventuallyOneVoice`), and the clock runs exactly for real sound (`ClockFollowsSound`) | 0.86 M |
| `Pages` | `tabs`: three pages with one stored id never evict each other (`NeverEvicted`); `moves`, `alone`: outputs (`NewestWins`, `AloneAtRest`); `encoders`, `listeners`: caps kept and nobody asleep beside a free slot (`SlotsExact`); `offline`: a listed song has its file (`ListedIsHere`); `shell`: the kept index has its files, behind a portal too, and the page reloads itself once a build (`AppKept`); `answers`: own answers only (`OwnAnswers`), told of what is newer (`BehindNothing`) | 0.73 M |
| `Playback` | `turn`, `overlap`: who drives a speaker is entered as its owner and the reverse (`OwnersAgree`), nothing shown playing without a speaker (`NoGhost`) or a poll (`Followed`); `page`: one song heard, the newest start's (`HeardIsShown`); `listing`: an answer keeps the song playing (`AnswersKeepSong`), a reload opens the same one (`RestoredSame`) | 1.2 M |
| `Progress` | `encoders`: the encode that writes is the one `running` names (`AliveIsRunning`), `done` means complete (`DoneComplete`), requests of a player, a warm and a listener are answered and slots come back (`Settles`); `cache`: the cap is kept and every file counted (`CacheCounted`), only whole copies are served (`OnlyWhole`), slots return (`SlotsReturn`); `page`: the button comes to agree with the sound (`ButtonAgrees`); `chores`: a missed point is caught up (`CaughtUp`); `lyrics`: a request is answered (`Answered`); `memory`: the next songs are fetched (`Fetched`) within bounds (`CacheCounted`) | 0.18 M |
| `Server` | `album`, `library`, `drop`, `removed`: likes stay with the song (`KeepsLikes`, a refinement), the last copy is never deleted (`NeverLastCopy`); `chores`: `NobodyStarves`, `OncePerPoint`; `lyrics`: `MusicFileKept`; `downloads`: an album has its whole time, whatever comes during a pass (`GivenAChance`) | 1.7 M |
| `SessionGhost`, `SpeakersOneDriver`, `TranscodePinned`, `LibraryRenumbered`, `LyricsOverwritten`, `OfflineQuality` | *violated*: section 4 | |

Each union also checks `TypesOK`, the type invariant of the component that moves.

**Why the bounds are enough.** Session: the rules compare a client with the
active one, a socket with the one its id is registered under, and a press with
the last press, so two pages, and a third socket to come back with while the
server still knows the old one, produce each case: two pages, both linked again after
a drop, with all delivered, is among the states of `SessionDrops`. There a page is
closed and not opened again, and pauses come before the last press (`"pause"`, a bound); `tabs`
adds the emptied deck, the report repeated every 2 s, the other account and the shared id. Speakers: two accounts and three speakers give a leader, a
member and a speaker outside; one group edit is a join or a split. Transcode: a live cap of 2, a
foreground cap of 1 and three runs make both caps fill and let a run start while the one
before it is still to exit: with three players over two variants (`listeners`), and with one
request, of each kind, and a warmer over one variant (`encoders`), which is where every liveness
property needs a second actor. The code's values (`LiveFloor` 6, two warmers, a queue of 60)
only move the point at which the caps bite. Song cache: three songs of two sizes
over a cap of 4, two fetches at once and four wants fill the cap, evict and time
out. Chores: four chores, one of them beside the line and one watched, over three
days of two units, and in `Progress` a day of another length. Library: four paths
are a lossy file, the FLAC beside it, another song's place and another folder;
four or five operations are an upgrade, a scan beside it, a move and a crash.
Lyrics: a song with an `.lrc` of its own and one without, two requests, three
restarts or removals. Page: a queue of three songs, three starts of which each
awaits, two elements, one act of the system. Queue: two lists, two lookups under
way. Outputs: two speakers and the page, three switches. Offline: two accounts,
two collections that share a song, two qualities. Service worker: two builds
and a portal, two refreshes, three acts of people and network; two accounts, two requests, three values. For the components of
section 6 the theorems remove the bounds.

**Fairness.** Only what the code schedules by itself is fair: timers fire,
callbacks of requests with a timeout come, a killed process exits. Nothing makes
a user press, a link drop or a process restart.

| Component | Weakly fair | Because |
|---|---|---|
| `Session` | frames handled, a due report, `Connect` of a page without a socket, a dead socket found dead | events of the websocket, `_retry` reschedules itself, the heartbeat |
| `Transcode` | some run's steps, some killed ffmpeg's exit, some call's steps, some listener leaving: each such step is progress, so one at a time is enough | polls and deadlines are timers, SIGKILL; ffmpeg itself need not make progress |
| `SongCache` | each fetch's steps | the copy has a time limit, file operations end |
| `Chores` | `Tick`, `Time`, `End` | an interval; a chore ends |
| `PageSound` | `StartStep`, `Recovered`, `FadeOver`, `OwnOver`, `Reconcile` | promises settle, timers fire |
| `Lyrics` | `TaskStep`, `Resume` | requests to the aligner have timeouts; the timer after boot |
| `TrackCache` | `Download`, `Preload`, `Retry`, `Open` | each attempt ends; effects run; `timeupdate` events come while a song plays |

## 4. What the code does otherwise than it says

| Run | Finding |
|---|---|
| `SessionGhost` | A page comes back on a new socket before the server has found the old one dead: a claim still in flight on the old socket is handled as the old client, and the session is active with a client that is not connected (session.ts 524, against its header, 3-5). |
| `SpeakersOneDriver` | `claimDevice` reads the owner, awaits its `giveUp`, and sets itself as owner without reading again; overlapping claims leave two players driving one speaker (player.ts 323, against 51-53). |
| `TranscodePinned` | A run that fails before its ffmpeg is set up is never taken out of `running`: every later request for the variant gets its rejection (stream.ts 207, against 156-158 and 242-243). |
| `LibraryRenumbered` | A path that holds another song now counts as a replacement: the likes go to that song though the old one lives on elsewhere (scanner.ts 187, against remap.ts 1-4). |
| `LyricsOverwritten` | An undo while the task works, or between two syncs, moves the `.orig.lrc` back, and the task writes over it without a copy (lyricsync.ts 200, against 193-194). |
| `OfflineQuality` | A worker marks a song with the file of the job it was made for, whatever quality it was asked for meanwhile (store.js 178, against 38-39). |

## 5. What else the models show

Facts met while modelling that no run states as violated, either because nothing
in the repository says otherwise or because the property is checked without them.
The name in front is the module; an `Env` in quotes brings the case about.

*Session.* `ClockFollowsSound` holds across restarts, closed pages and missed
heartbeats, and fails in two other ways. With `"drop"`, the clock goes on for a page
whose link is down until the server finds out. With `"stop"`, play pressed and
stopped again to an emptied deck while there is no link leaves the claim behind:
the report of "none" is not kept to be sent, the claim is re-asserted on
reconnect, takes the session from the page that plays, and the clock runs for a
page that has nothing loaded (session.js 140-173, usePlayer.js 2680-2692). Two
page clocks that differ decide a re-asserted press (session.ts 517).

*Speakers.* With `"overlap"`, a reading in flight across a yield is applied after
it and the session shows music with no speaker (`NoGhost`); with failing requests,
a start that fails leaves the session shown playing with no poll (`Followed`).
Two accounts that claim from each other at once wait for each other for ever:
`giveUp` waits for the other's whole chain from within an operation of one's own
(player.ts 346, 319-320). One group edit that joins the groups of two accounts
makes both regroup at once, which is why `turn` edits groups only while one
player is on a speaker. A "gone" yield by an overlapping poll leaves a member
that is never undone. `HeldIsOwned` holds of two accounts, and with three accounts
and four speakers in one group it fails though nothing overlaps. p plays in the
group and loses a member's answer, r claims that member, both skip through a
pause, and v claims p's speaker: p hands over to v and r, called by the edit of the
group, takes in the speaker nobody owns at that moment, before `claimDevice` of v
comes back to enter itself (player.ts 323, as in the run `SpeakersOneDriver`). Two
players then lead one speaker.

*Transcode.* A foreground start needs a place under the live cap, which
prewarms, climbs and warms can fill (stream.ts 167, against the comment at 190). A
listener who leaves while `acquire` is awaited is gone before its close handler is
registered (455-461, 510-515): the run takes its slot all the same, nobody kills its
ffmpeg, and the slot comes back when ffmpeg ends by itself. What the HTTP library then
does with the stream nobody reads is outside the code modelled; `Settles` excepts these
runs. And the watcher of a start that is stalling looks for the last time up to 50 ms
before it kills (229-246): ffmpeg may end well in between, its marker is still to be
written when `running` is let go, a retry clears the directory, and the marker lands on
an empty or half-made one, which is never made again. `DoneComplete` excepts this path
(`LateExit`) and no other.

*Chores.* On a day of 25 hours a daily chore runs twice for one point: the
previous point steps back 24 hours (tasks.ts 82-96).

*Library.* A full scan whose listing is older than what another scan recorded
deletes that row (against admin.ts 61-62). A crash between the upgrade's rename
and its remove leaves the lossy file beside the FLAC, and the ingest can index it
again. Lyrics remembered for a song that left are not given back to it when its
own file returns. `NeverLastCopy` leaves out the owner removing files between `Check` and
`Unlink`.

*Downloads.* A retry or a file that comes after the pass has read the album is not seen by
this pass, which gives the album up on what it read (against downloads.ts 29);
`GivenAChance` says nothing of an album to which that happens (`Seen`), and holds for every
other. A crash between `Unmonitor` and `Finish` loses the reason, and leaves the row
with `gave_up` unset: to the chores the album is not given up (274, tasks.ts 458), they ask
for it again without forgetting the row, and the next pass gives it up at once on the
old clocks. The promise of downloads.ts 29 is of a request, which the chores do not record;
so `GivenAChance` counts a chore's request only where no row was left.

*Lyrics.* A second change overwrites the kept original (`COALESCE` keeps it only
where there is nothing to overwrite it with), so undo restores the words before
the last change and not the first ones (against lyricsync.ts 18, 457); a later verdict that changes nothing makes
undo skip an earlier change; the fetching pass's list is as old as its start, and
lyrics found meanwhile are overwritten (enrich.ts 72); an `.lrc` a user puts beside
fetched lyrics is overwritten without a copy. With `"torn"`, a crash between the
row and the copying aside loses the music's file at the next sync.

*PageSound.* A yield during a start stops the element, and the start's own steps
then sound: they check for a newer start, and a yield is none (about line 2658).
A start superseded while it awaits a downloaded song still loads it (about 665,
against the comment at 864).

*PageQueue.* Shuffle off looks for the song in the remembered order, and takes
index 0 when it is not there (1312, against 1299). When all that is left of a
queue was added by hand and shuffle is turned on, repeat all restarts it empty (1037),
where "the music never stops" (1065); it takes more operations than the run has.

*Handoff.* A switch superseded by another never stops the output in between; a
failed one goes back to an output that may not be playing (1563-1576); an earlier
switch's 2.5 s timer clears the mark of a later one (1588); the verification of a
stop may stop an output switched back to within 4 s; a pause during a switch is
undone when it lands; `stopOn` unloads after the hand-over, so that the next tap
on a speaker restarts the song (1160, 779).

*TrackCache.* When the queue grows, when a fade ends, and by the timer that asks again every two
seconds while the buffer is short, the songs are held again, at times after the gate has
opened; the open gate never lets them go, and the song playing and the next are not
fetched until another song or a pause (usePlayer.js 2074, 2084, 2209, against 2129-2131).
`Fetched` excepts exactly that state. A song asked for with `hold` that is
loading is let go and the next download starts though held (trackCache.js 44, 102,
against 91-94).

*Offline.* With `"race"`, `ListedIsHere` fails: another account saves the songs of a
removal while it deletes, or an account switch, a removal and another save come
while a worker awaits cover and lyrics before the mark (store.js 144-178). A
song whose fetch is under way when its collection is removed leaves a file nothing
deletes. A collection cannot be saved again in the model while its own job is the one running;
the menu of the page's header offers that once the collection was removed, though its job still
runs. `readLib`'s catch answers with an empty library, which the next update
writes. A kept play is dropped unsent when one with an earlier time is added
during a flush.

*Shell.* `cacheShell` takes whatever is answered with status 200 (sw.js 42-53). A captive
portal's page, which the repository describes (129-132, 287-289) and turns away everywhere
else, names none of the app's files: it is kept as the index and every file is deleted
(against line 49, "keep the last complete copy", and App.jsx 1112, where such a page
"changes nothing"). The kept index is given first, online too, and the portal's page asks for
no refresh, so the app shows it until another page or a new worker asks. A portal that
answers for some of the files only is kept in their place. `AppKept` therefore says
of a portal no more than that whatever index is kept has all it names; that the index is the
server's and its files are real is said, and proved, where no portal answers.
With `"midway"`, two refreshes that got different indexes (a deploy between them, or a
portal that answers one of them) leave an index without its files (against sw.js 5-6, 49).
The server's builds only grow in the model: going back to an older one is not covered. A page asks `busy()` before it awaits up to 20 s,
and then reloads though it has become busy (App.jsx 1132-1139, against 1105-1106).
*Answers.* With `"overtake"`, a page is left behind (against sw.js 10-11).

*Not modelled, but read.* `trimCache` removes a directory file by file while a new
run starts in it and marks it done (stream.ts 671). `heads.ts`: a rename between
duplicates can serve a head of another file (4-6, 114). A dropped link's old
connection counts up to 15 s of a play that the new one counts too
(`playEvents.ts`).

## 6. Proofs

TLAPS checks every theorem below for every value of the constants, under the
hypotheses named with it. Each module of proofs states the inductive invariant,
shows that the initial states satisfy it and that each action keeps it (one step
per action, and under it one per part the action can disturb), and derives the
properties from it. TLC checked each invariant on the instances of section 3
before it was proved.

**`SessionProofs`** (`SessionAssumption`: pages have an account and an id of their
own, `None` is no id, socket or page, the bounds are natural numbers). `IInv` is
`TypeOK` and `Wiring`: an id in the registry leads to the socket that was given it
(`RegistryFaithful`), an open socket that said hello is the one its id leads to
(`OpenRegistered`), an unused socket is blank, and no press is dated after now
(`PressesPast`). `OneSocketPerId` does not follow from the types, because a socket
whose page came back stays known until its close event; it follows from
`OpenRegistered`. `OnePlays` adds three parts: a page's link is a socket it opened
(`Linked`); a page that plays is open and has a claim of its own (`Claimers`); and of
two pages of an account that play one is `Undecided` (`OneDecided`): it has no link, or
one the server has not greeted or is closing, or a claim of it or a yield for it is
in flight. `Settled` rules all of these out, which leaves one voice.

`ClockRight` (`Unbroken`: neither `"drop"` nor `"stop"`, of which `"pause"` is a part, in `Env`; section 5 has what they
bring about) needs to know what the server has yet to hear. `Synced` is the property made
inductive: the clock is right for the page of the active client, or that page `Reports`,
that is, has a report due, a frame on its way up, a hello-ok to answer with what it
last reported, or a yield to come that will silence it. A frame handled as the last one
leaves nothing more to report, so it must have said what the deck is (`LastWord`), and
a client the session is handed to when another's socket ends was last heard to play
(`Heard`, `Silent`), so if it is not the active one already something is on its way that
will make it report (`DecidedActive`: a page that plays is `Undecided` or active). The
other parts say which socket is whose (`Wires`, `RegisteredOpen`, `ActiveHere`,
`Unheard`), what may be in flight (`UpFrames`, `DownFrames`) and what a page knows of
itself (`Decks`, `Known`). `Bystander` splits the steps for all of them: a step is one of
the page's own, or leaves the page and its socket as they are (`Same`).

| Theorem | Establishes |
|---|---|
| `TypeCorrect` | the types |
| `OneSocket` | no two open sockets go by one id |
| `Frozen` | without an active client the clock stands still |
| `Evictions` | a socket is closed by the server only for a newer one of its own page |
| `OnePlays` | one voice, once what is in flight has arrived |
| `ClockRight` | the clock runs exactly for the active client's sound, once what is in flight has arrived |

**`TranscodeProofs`** (`TranscodeAssumption`: caps positive, finitely many variants).
`Slots` says what the counters count: `liveFf` is the number of runs holding a live
slot, `fgActive` of those holding a foreground one, both within the caps; a run holds
what its stage allows (`Fits`); and a run that is asleep finds the caps reached
(`BlockedAt`), so that every release must wake the waiters. `Mapped` ties the maps to
the runs: a run that may still write a variant's directory is the one `running`
names (`Owned`), the directory of an encode that ended well is whole (`Finished`) unless its
run was taken for stalled in the last sleep, and so is one with the marker
(`DoneComplete`, with the same exception; section 5).

| Theorem | Establishes |
|---|---|
| `TranscodeTyped`, `LoadIsCapped` | types; the caps on ffmpegs, however slots are given back |
| `OneWriter` | two ffmpegs never write one directory |
| `MarkedIsWhole` | `done` means the whole song, but for an exit in the watcher's last sleep |
| `NoLostWakeup` | nobody is asleep while a slot is free |

**`BrowserProofs`**, of `Offline`: `OfflineAssumption` ( lists are sets of songs; finitely many
collections), and `"race" \notin OfflineEnv`. `ListedIsHere` is not inductive: whoever deletes must know that
nobody lists the song. `JobsLined` and `WorkersLined` say that the queue and the two
workers hold the jobs there are; `Noting`, that a song about to be marked has its
file; `Doomed`, that what a removal still has to delete is listed by nobody.

Of `Shell`: `ShellAssumption` (`Builds` positive), and `"midway" \notin
ShellEnv`: two refreshes under way got the same index, the server's or a portal's. `PutInOrder`
says how far a refresh has come: the files it has put are kept, it puts the index last
and removes only what is not of its build (`Reached`), and two refreshes under way are
of one build (`Alike`); where no portal answers, nothing they bring is its page
(`Genuine`). `Tried` says that builds are wanted, tried and reloaded for in
their order (`InOrder`).

Of `Answers`: `AnswersAssumption` (`Nothing` is neither an account nor an answer). The
invariant says that every answer, kept, under way or shown, is of the account it was
asked for (`Owned`). For `NewsReachesThePage` (`"overtake" \notin AnswersEnv`: answers come in
the order they were made) it adds that nothing is newer than what was made
(`Dated`), that an answer that arrived is at least as new as what is kept and as the
copies other requests read (`Latest`), and that a page shown a kept copy and not told
has a request of its own to come, is about to be told by the one that gave it the
copy, or shows the newest there is (`Told`).

| Theorem | Establishes |
|---|---|
| `ListedHasFile` | a song listed as downloaded has its file |
| `OfflineTyped` | types, and jobs and workers agree |
| `KeptIsWhole` | the kept index has all its files, wherever a refresh is ended and whoever answers it; without a portal they are the server's |
| `TriedOnce` | one reload per build |
| `AppKeptAlways` | both, as the run `Pages` states them |
| `OthersUnseen` | whoever is signed in sees own answers only |
| `NewsReachesThePage` | a page shown an old copy is told of what is newer |

**`ServerProofs`, `Chores`** (`Given`: days follow each other and none is longer than 24 hours, and
no chore is twice in the line). `InTurn` is the bound of the round-robin: the times a
due chore was passed over and the chores still ahead of it are together fewer than
the line; each start by the clock takes one from the second and adds one to the
first at most. `Once` says of a chore the clock started for the present point that
its run, the one under way or the last, began at or after that point. The hypothesis
on the calendar is needed: section 5 has the
day of 25 hours.

| Theorem | Establishes |
|---|---|
| `NoneStarves` | a due chore is passed over fewer times than there are chores in the line |
| `DailyOnce` | a point of a schedule runs at most once |
| `ChoresTyped` | the types |

**`ServerProofs`, `Lyrics`** (`LyricsAssumption`: `None` is no song, words or row; for `OwnFilesKept`
also that `"undo"` and `"torn"` are not in `LyricsEnv`). `Typed` includes that each song in line is
queued, once. `Kept` says of each song that came with a file that it was copied aside,
or (`Held`) that it is in place, that a row written over it is the task's that is about to copy
it aside, and that a task with this song has not come to write. It is the copying
aside that an undo takes back (run `LyricsOverwritten`).

| Theorem | Establishes |
|---|---|
| `OwnFilesKept` | the music's `.lrc` is in place or beside it |
| `LyricsTyped` | the types |

**`ServerProofs`, `Downloads`** (`WatchAssumption`: `Nil` is no album, time, row or pass, the
bounds are natural numbers; whatever `WatchEnv` allows and whatever comes during a
pass). The watcher decides from a row, and from what it read of Lidarr and
of the searcher's log; `moved` is none of these. `WatchRows` relates them: a row
is no older than its album's last chance unless a file came that it does not
count, which the next pass finds; and with no file at all, the first search and
the question to the indexers that it remembers came after that chance, the latter a
whole period after. `Passing` says that what a pass has read
is no later than what there is, that its copy of the row satisfies the same as long as
nothing came of the album since (`Seen`), and that it is about to ask the indexers or to
give such an album up only when it has waited (`Waited`).

| Theorem | Establishes |
|---|---|
| `NoneGivenUpEarly` | an album is given up after its whole time (`GivenAChance`) |
| `WatchTyped` | the types |

**`HandoffProofs`**. With any `Env`, `LateChangesNothing` needs no invariant but the
types: a step of a switch that is no longer the newest changes neither the choice
nor what is shown. `OthersSilent` (`Given`: no overlapping switches, no speaker that
ignores a stop or answers after the 2.5 s) needs to know where each sound belongs: what sounds
besides the chosen output is being stopped or is the one a switch under way comes
from, and a page that left the session to another is silent (`Alone`).

| Theorem | Establishes |
|---|---|
| `OthersSilent` | at rest nothing but the chosen output sounds |
| `LateChangesNothing` | a superseded switch changes nothing |
| `HandoffTyped` | the types |

**`PageProofs`, `PageSound`** (`SoundAssumption`: two elements, at least one song, `Nothing` is
neither; whatever `SoundEnv` allows). That a fade apart one element sounds is not
inductive, because a start that awaits metadata sounds the element it took, whatever
this has become meanwhile, and iOS resumes any element that holds a song. `Quiet` says that
such a start has the active element, the fading one or an empty one, and that on an iPhone the
spare is empty. That the newest start wins needs `Lined`: the starts are of different
generations, and the newest is for the song shown; `Sounding`: what sounds holds a
song; and, with nothing downloaded, `Newest`: the newest start has the active element,
and without one this holds the song shown. A downloaded song is loaded when its bytes are
in, no questions asked, which is why `LatestStartWins` leaves those out (section 5).

| Theorem | Establishes |
|---|---|
| `HeardIsNewest` | one song is heard, and at rest it is the one shown |
| `SoundInvariant` | the types, and why |

**`PageProofs`, `PageQueue`** (`QueueAssumption`: the lists are sequences; any `QueueEnv`, any
bound). `QueueInv` says two things beside the types. `Held`: with storage enough, what is
kept is the queue there is, which is `RestoredSame` up to finding the song again; it
holds because every operation that sets the queue ends in `Save`. `Asked`: what a lookup
under way was asked with still means something when the answer comes. The rest of a list is filled
in round a song that is in the list; and picks were asked for a queue
with the song that plays in front and nowhere else, of four songs at least, so that
where the queue and the song are still those, `index + 4` is behind the song and
within the queue. Any order of a set of places stands for `shuffled` and for a filter
(`Shuffled`, `InOrder`): neither needs a recursion, so neither needs an induction.

| Theorem | Establishes |
|---|---|
| `AnswersMoveNothing` | a late answer leaves the queue at its song |
| `ReopenedAtSong` | a page opened again stands at the song it was closed on |
| `QueueInvariant` | the types, and why |

**`SpeakersProofs`** (`SpeakersAssumption`: finitely many speakers, groups without a
speaker in common, `None` is neither a player nor a speaker; `"overlap" \notin Env`: one
thing is over before the next is asked). Neither property is inductive. `yieldDevice`
and the hand-off close the transport first and stop showing the music several
awaits later, and a claim closes the old one long before `play` gives it the next; in
between a ghost is only prevented by what the call has still to run. So the invariant
describes every suffix of every call. `Leads` says what has to follow a segment: a
transport that is closed by the player's release or its next transport, a
poll that stops by the close, a new transport by its start; `Shaped` says it of each place in
a list, `Formed` of each thread, and the lemmas `ShapedPut` to `CallsGood` show it of every list
that `Calls` and the segments themselves put in. `Voiced`: a player that shows music has a
transport or its thread has yet to release or to open one. `Watched`: a transport is polled, or
its close or its start is still to come. For these to survive a step, nobody else may
change the flags in between, which is `Turned`: one thread, or one operation about to
start, can move at a time (`OneThread`, `OneStart`, `NotBoth`), although operations
nest, as a hand-off runs on another player's chain while the caller waits for it; an
operation asked of a player that already runs one means that nothing moves any more
(`Blocked`: the deadlock of player.ts 346, which the proof need not exclude); and a
transport a thread found open a step ago still is (`Sure`).

| Theorem | Establishes |
|---|---|
| `Invariant` | types, one mover at a time, whole calls, and what they owe |
| `NeverAGhost` | nothing is shown playing without a transport, whatever fails |
| `AlwaysFollowed` | while no request fails, music that shows is polled |

**`SongCacheProofs`** (`CacheAssumption`: finitely many songs, sizes and bounds that are
natural numbers; whatever `CacheEnv` allows). That a name is given to a whole file only is
not inductive: a `.tmp` is swept by a copy that timed out before, so `CopiedWhole` says
that what is copied is whole or gone. `HasRow`: a file has its row, or its fetch is about
to write it. This survives an eviction, which removes a file, gives up its turn and
deletes the row then, because of `Evicting`, that the file it removed is still away when
the row goes, which needs `Seen`, and because a row is one of a kind (`Distinct`).
`Queued`: what waits has no fetch, once each, which is why no slot is given twice.

| Theorem | Establishes |
|---|---|
| `WholeOnly` | only what is wholly copied is served (`OnlyWhole`) |
| `NothingStranded` | no file lies there that nothing counts |
| `CacheTyped` | the types, and no more copies than slots |

**What stays with TLC, and why.** Liveness under fairness (`EventuallyOneVoice`,
`Settles`, `SlotsReturn`, `ButtonAgrees`, `CaughtUp`, `Answered`, `Fetched`): out of the
prover's reach. `KeepsLikes` and `NeverLastCopy`: what a full scan does is a fold over
the files it met, and what a fold computes is an induction over data. `OwnersAgree`:
it is true of the instance, two accounts, and not of any number of them (section
5, *Speakers*), so there is nothing to prove without leaving accounts out. `TypesOK` of a
union is the type invariant of each part, and `AloneAtRest` and `SlotsExact` are of instances;
`OthersSilent`, `LoadIsCapped` and `NoLostWakeup` prove what they say for any constants.
`CacheCounted`: that the cap is kept is about a sum over the rows, a fold over a set,
and so again an induction over data; its other half is `NothingStranded`.

## 7. Plan

1. The segment routes and `trimCache` beside `Transcode`'s runs, which would give the
   hazard at stream.ts 671 its property; play events; the queue's plays kept
   while offline.
2. What the map does not reach yet: the listener's state that `App.jsx` and
   `Library.jsx` keep while requests race, and `lidarr.ts`.

## 8. Not modelled

- **Speaker discovery and transports**: DLNA, Cast, AirPlay, Sonos and Bluetooth are
  network protocols; `Speakers` takes what a device answers as any of its outcomes.
- **Accounts, database, HTTP application, jobs**: handlers that run one statement or one
  transaction, with nothing kept between requests.
- **Play events**: one tracker per connection; planned.
- **Recommendations**: scoring over the library, numeric and textual, with no
  interleaving that matters.
- **Addresses and announcement, clients, Home Assistant**: which address an app tries,
  mDNS, and user interfaces; what they send to a session is in its model.
- **Tags, artwork, loudness, the aligner, matching of albums, parsing of feeds and
  documents**: data; where a model needs their outcome it takes any.

Three hazards have no property. `trimCache` (stream.ts 671) is not modelled. Two
players that claim from each other wait for ever (player.ts 346): the model shows
it and nothing in the repository says it cannot be. A yield during a start
(usePlayer.js 2658) lets the start sound: the same.

## 9. Running

In the directory of the modules, with the community modules and TLAPS' library on
the path:

```
tlc -workers 2 -config Pages.cfg MCPages.tla
tlc -workers 2 -config LyricsOverwritten.cfg Lyrics.tla
tlapm SessionProofs.tla
```

`PROJECT.json` names the module of each configuration. A passing run takes from ten
seconds to three minutes on four cores; the proofs from half a minute to six
minutes a module from nothing.
