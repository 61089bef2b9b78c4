# TLA+ models of TensorWatch

TensorWatch (`src/src/tensorwatch/`) is a small manager that keeps a set of
TensorBoard processes ("boards") running, shows them in one dashboard, and links
each of them with the jobs of an `mlq` queue. This directory holds TLA+ modules
that model its code, the TLC configurations that check them on small instances,
and theorems about them that TLAPS checks for every instance. Paths below are
relative to `src/src/tensorwatch/`.

## 1. The system

| Part | State it keeps | Operations | Talks to |
| --- | --- | --- | --- |
| Supervision loop (`supervisor.py`, `Supervisor._run`) | a `_Runtime` per board (process, state, override, restarts, strikes, three timestamps), the registry in force and the pending one, the command queue | `request`, `reload`, `shutdown`; per iteration `_absorb_pending`, `_drain_requests`, `_tick` (health checks, exits, spawns) | children by signals, `poll` and a TCP probe; state stream |
| State stream (`publish`, `_refresh_snapshot`, `subscribe`; `httpd._events`) | the last snapshot, a bounded channel per dashboard | encode under the lock, broadcast outside it | supervisor thread, watcher thread, queue thread, HTTP threads |
| Registry (`registry.py`, `cli._apply`, `do_reload`) | `boards.toml` and the configuration loaded last | read, change, replace atomically; reload | HTTP threads, CLI processes, SIGHUP |
| Parsing and ports (`config.py`, `registry.py`) | none | `parse`, `next_free_port`, `set_key`, `remove` | registry |
| Start-up and shutdown (`cli.cmd_serve`) | which threads run | starts watcher, subscriber, server, supervisor; stops them | all |
| Queue link (`queue.py`) | the last queue snapshot, the socket | subscribe, reconnect, degrade, refresh, cancel | mlqd, state stream |
| Activity watcher (`activity.py`) | newest event file per board | fast pass over known directories, full walk | file system, state stream |
| HTTP API (`httpd.py`) | none | routes requests to the above | dashboard, CLI |
| Dashboard (`web/app.js`) | mounted panes and their order, selection, last frame | select, evict, heartbeat, absorb | HTTP API, state stream |
| CLI, desktop and service files, `/proc` sampling, logs | files | pure I/O | |

The parts interact through calls on four kinds of threads: the supervisor thread,
one thread per HTTP request, the watcher's and the subscriber's thread. All
changes of child processes are made by the supervisor thread (outside start-up and
shutdown); other threads hand it work through a queue, one pending-registry slot
under a lock, and an event that ends its wait.

### What is hard about it

- The supervisor's bookkeeping is spread over functions that each write a part of
  it: `_terminate` clears the process and leaves the state to eight callers. The
  count of warming boards, the idle rule and the health check read one to learn the
  other.
- A tick reads the clock once and counts the warming boards once, and then probes
  and terminates for up to 15 s per board with those values.
- Commands, reloads, exits, wedged ports and timeouts fall between any two steps.
- Fairness among boards is registry order, a cap on warming boards and a backoff.
- The registry file is edited without a lock by several writers; a reload is a chain
  of steps on the thread of whoever asked for it.
- Frames are encoded under a lock and delivered outside it, into channels that drop
  what does not fit.

`PROJECT.json` lists every such hazard at its line, with the properties that cover
it, and every component with its status.

## 2. Modules

| Module | What it is |
| --- | --- |
| `Supervisor` | the supervision loop: the thread, its callers, the children, other programs on the ports, the clock |
| `BoardSlots` | abstract specification: what the supervisor does to processes, without threads, timers or health checks |
| `SupervisorSlots` | the refinement mapping from `Supervisor` to `BoardSlots` |
| `SupervisorProbes` | `Supervisor` beside a record of what each child made of its probes, which `ChildrenAreSpared` is about |
| `StateStream` | snapshots, frames and channels: every thread that sends, dashboards that come, read and go |
| `Registry` | `boards.toml`, everyone who edits and reloads it, parsing and the assignment of ports |
| `QueueLink` | the subscriber to the `mlq` daemon, the handlers that re-match jobs to boards, the daemon |
| `Activity` | the watcher of event files, the runs that write them |
| `MCSupervisor`, `MCProbes`, `MCStagger`, `MCRegistry`, `MCQueueLink`, `MCActivity` | instances for TLC; `MCStagger` adds a stopwatch |
| `SupervisorProofs`, `SupervisorRefines`, `BoardSlotsProofs`, `StateStreamProofs`, `RegistryProofs`, `RegistryFileProofs`, `QueueLinkProofs`, `ActivityProofs` | theorems and proofs (section 4) |

The components meet at few places, and each module takes the others through what the
code lets cross there. `Registry` hands the supervisor configurations, and its
`SoundConfigs` is what `ConfigAssumption` of `Supervisor` asks of them (distinct names,
distinct ports). `Supervisor`, `Activity` and `QueueLink` are the sources of
`StateStream`, which only sees that something they know has changed. `QueueLink` reads
the registry in force (`dirs`) and the watcher's flags (`writing`), which change there
as freely as `Registry` and `Activity` let them. They are not checked as one
specification: the product is out of TLC's reach.

### 2.1 `Supervisor`

State. `rt[b]` is the `_Runtime` of board `b`, `child[b]` the process behind
`runtime.proc` (`none`; `quiet`: alive and accepting nothing; `serve`; `dead`: exited
and not reaped) and the port it was given. `config`, `pending`, `requests`,
`stopping` are the fields of the same meaning. `phase`, `todo`, `warming`, `answer` are
the program counter and the locals of the thread. `squat` are ports on which something
listens that is nobody's child.

Steps. One iteration of `_run` is `Absorb`, then a `Demand`, `Start`, `Stop`,
`Restart` or `Drop` per queued command, then `TickStart` and one visit per board in
registry order. The branches of `_tick`, `_check_health`, `_handle_exit` and `_spawn`
are one action each: `Reclaim`, `Probe`, `StartsServing`, `StillWarming`, `StartTimesOut`,
`Healthy`, `Strike`, `Wedged`, `HandleExit`, `HoldOff`, `AwaitSlot`, `SpawnRefused`,
`SpawnRaises`, `Launch`. `_terminate` is part of the actions that call it. Callers,
children, other programs and the clock move between any two steps of the thread. They
move between a probe and the use of its answer too: `Probe` keeps the answer in
`answer`, and `StartTimesOut`, `Wedged` and the others go by it, whatever the child does
by then. A probe says yes only if somebody listens on the port, and no if nobody does
or, for a board in `Faulty`, if the answer comes later than its 0.25 s.

Time. Every timestamp (`last_demand`, `since`, `running_since`, `next_attempt`,
`_last_spawn`) is a countdown to the moment it comes due, as of the last time the
thread read the clock; `lag` is the real time since. The next reading takes `lag` off
every countdown. So a whole tick runs with the `now` it read first, as in the code,
and since no countdown ever grows with time the state space is finite without a
bound on time.

Abstractions. A port stands for the whole command line of a child (argv, cwd, env).
`restarts` saturates where `_backoff` becomes constant. Messages, log contents, resource
sampling and the snapshot are left out: no decision reads them (what the snapshot
becomes is `StateStream`). A child that survives SIGKILL is forgotten, as in the code,
and goes on occupying its port (`squat`). `_open_log` raising is `SpawnRaises`: the
handler in `_run` abandons the tick and notes the error in the same directory. Where
that may fail as well (`FullDisk`) the thread ends (`phase` is "lost"): commands are
queued and never read, a reload is applied by its caller (`ReloadAlone`), and
`shutdown()` ends the children. The children of boards in `Faulty` may hang, wedge,
exit, answer late or survive SIGKILL at any time; those in `Hung` may scan for ever; the
others (`Sound`) finish their scan within `start_timeout`, which is what `Elapse` waits
for.

Left out: the 15 s join timeout of `shutdown()`, after which the main thread
terminates children at the same time as the supervisor thread, and a reload that
arrives before `start()` (section 5).

### 2.2 `BoardSlots`

Each board has one slot: free, warming or up, with a port. `Occupy` needs a free slot
of a board that is not held, a port nobody has and room under `limit`; `Release`,
`Hold`, `LetGo` and `Reconfigure` only free slots and change holds. `Supervisor`
implements it with `slot` computed from `child` and `rt`, `limit` from the registry in
force and `held` from the overrides. That is the summary a reader of the code wants:
nothing that happens can start a process outside the cap, on a port in use, or for a
board its user stopped.

### 2.3 `StateStream`

State. `truth` is what each source knows, as a version per source: `boards` stands for
the fields that `_significant` compares, `minor` for the counters and times it ignores,
`queue` for the queue. `snapshot` is `_snapshot`; `fresh` the supervisor's sample before
it is stored; `Handlers` are the threads that reload the registry, which re-match the
queue and publish it like the subscriber; `mail[t]` the payload a thread encoded and the
subscribers it listed; `chan[k]` the bounded channel of a dashboard and `shown[k]` what
it read last. `due` says that `STATS_INTERVAL` has passed since the last frame.

Steps. `_refresh_snapshot` is `Sample` (without the lock) and `Store` (the locked part:
store, decide, encode); `publish` is `Publish`; `_broadcast` is one `Deliver` per channel
and `Sent`, so the puts of two threads interleave. `Put` loses a frame for which the
channel has no room. `Subscribe`, `Read` and `Unsubscribe` are `_events` of `httpd.py`.
The flags the watcher announces are part of `boards`; they also change by time alone,
unannounced (`Learn` with `announce` false, only for the watcher).

A reader that has nothing to read gets a keep-alive, which is not a frame and is left
out. `Unsubscribe` is the write that fails; a thread that listed the channel before
still puts its frame there.

### 2.4 `Registry`

State. `file` is the sequence of blocks of `boards.toml`. `pc`, `job` and `text` are the
program counter, the request and the text read last of each worker: commands of the CLI
and handler threads of the HTTP API (`Clients`), and the manager's main thread (`Main`).
`current` is `current["cfg"]`, `pending` the supervisor's `_pending_config`, `inForce`
the configuration it follows.

Steps. An edit is `Plan` (`add_board` and `cmd_scan`: choose ports, refuse a name or a
port in use), `Read`, `Write` (`_apply`: edit, parse, replace only if it parses and
changes something), and `Notify` for a command. A reload is `Load`, then, if boards had
no port, `ReadPorts`, `Persist` (if that changes the text) and `Load` again, then `Hand`
(`current["cfg"]`) and `Give` (`supervisor.reload`); `Absorb` is the supervisor's
thread. `Boot` runs the same steps in `cmd_serve`. Any two workers interleave between
any two steps, since no lock covers them. `HandEdit` is the user's editor, `Crash` ends
the manager at any point, also while it boots. One `set` command changes any of a
board's keys at once (`SetKeys`); a new name comes last, since an assignment behind it
no longer finds the board and the whole command is refused.

`Config` and `Loads` are `parse`: what is refused, and the ports that `next_free_port`
gives in file order, with the blocked ports skipped and its two bounds as in the code
(only the search is held below the highest port, not its start).

Abstractions. A board's name stands for its logdir, and one key (`setting`) for every
key that is not its name or port; the text is always TOML, so that what a hand edit may
break is what `parse` checks. `do_add` edits `config_path()`, taken to be the file that
is served (section 5). `home`, `overlapped`, `spoiled` and `unread` are history: the
port a board was loaded with, whether two edits, or an edit and a reload, ran beside
each other, whether the user or an overflow of ports broke the file, and whether a hand
edit waits for a reload. The properties that would be false without a lock are stated
for behaviours where those are false; `SoundConfigs` and `TypeOK` hold without them.

### 2.5 `QueueLink`

State. The daemon (`up`, `queue`), the subscription (`conn`, `wire`), the thread (`pc`,
`got`, `draft`, `stop`), what it stored (`snapshot`, `view`), and each handler thread
inside `do_reload` (`hpc`, `hview`, `hdraft`).

Steps. `Connect`, `Check`, `Recv`, `ParseView`, `StoreView` and `Exit` are `run`,
`_session`, `_absorb` and `_degrade`: the parse is outside the lock, the store inside it,
and every failure of a session goes through `Degrade`. `ReadView`, `Reparse` and
`Restore` are `refresh`, with the same gap. `Cancel` is `cancel`, over a connection of
its own. `BoardsFor` is `_boards_for`: the boards the command line names, else the only
one below the cwd, else the only one of those that is receiving data.

Abstractions. A job carries which boards its command line names and which lie below its
cwd, instead of paths; a frame is readable or not, which covers every exception of
`read_frame` and `status_view`. The reconnect delay is left out, only that it ends.

### 2.6 `Activity`

State. `state` and `sinceFull` are the watcher's `_state` and `_full_at`, as ages
instead of times; `roots`, `left`, `draft` and `changed` the locals of a pass;
`present` and `age` the event files (`age` counts from the last write, and goes on for a
file that was deleted).

Steps. `Begin`, one `Walk` or `Touch` per board and `End` are `sample`; `Scan` is `scan`
with its cap on entries, beyond which any part of the tree may have been seen; `Touched`
is `touch`. Writers, deletions and reloads move between any two visits, not within one
walk: `Scan` sees one state of the tree.

Assumptions. A pass is short against a unit of time (the watcher runs every 15 s, the
window is 180 s), so it takes no time itself, and at least one pass ends in every unit.
The interval of the fast passes is part of that unit and not of `WindowAssumption`. A
steady logdir is one in which something is written at least every `Gap` units, and from
which a file disappears only if another one was written lately; `WindowAssumption`
(`FullInterval + Gap <= Window`) is what the defaults give with a silence of up to 60 s.
Logdirs beyond the cap (`Large`) are outside `Steady`: nothing is promised for them.

## 3. What TLC checks

| Run | Instance | Properties |
| --- | --- | --- |
| `control` | 2 boards, 2 ports, 4 registries (trade ports; remove a board and flip a policy; disable one, make the other manual and raise the cap), 2 queued commands | `TypeOK`, `StatusMatchesProcess`, `LaunchedAsConfigured`, `StoppedStaysDown`, `WarmupSurvivesIdle` |
| `faults` | 2 faulty always-on boards, a log directory that may fail until the thread is lost, a foreign program, reloads that change the cap between 1 and 2 | `StatusMatchesProcess`, `TickCountsWarming`, `LaunchesWithinLimit`, `ImplementsSlots`, `ChildrenAreSpared` |
| `crashes` | a faulty and a sound always-on board, cap 1 or 2, stagger, backoff | `AlwaysBoardsRun` |
| `idle` | one faulty board under `on_demand` and `always`, a log directory that may fail until the thread is lost, a foreign program | `IdleBoardsStop`, `UnresponsiveIsReplaced` |
| `stream` | 1 channel of 2 frames, 4 sending threads, one change per source | `TypeOK`, `StartsFresh`, `ShowsLatest` |
| `registry` | 2 boards, 2 clients and the main thread, ports 2 to 4 with 3 blocked, 2 requests (a `set` changes two keys), 1 hand edit or crash | `TypeOK`, `SoundConfigs`, `RegistryLoads`, `InForceIsTheFile`, `PortsStick` |
| `queue` | 1 job, 2 boards, 1 handler with 2 reloads, one change, fault, outage and shift each | `TypeOK`, `CaughtUp`, `FollowsQueue`, `OutageShown`, `Stops` |
| `activity` | 1 board, a steady logdir with 2 runs and a large one inside it, full walks every 2 units, window 4, gap 2 | `TypeOK`, `SteadyShowsWriting`, `ShowsOnlyData`, `FlipsAreAnnounced`, `FollowsLogdir` |
| `restart` | as `control`, smaller | `RestartBringsBack` is violated |
| `hung_boards` | 3 boards, cap 1, the first two hang | `AlwaysBoardsRun` is violated |
| `stagger` | 2 boards and a stopwatch | `SpawnsAreStaggered` is violated |
| `attribution` | 1 job whose cwd holds 2 boards; one change of the queue, one of who is writing | `LiveBoardIsTheRuns` is violated |

Each property of a passing run is also run against a plausible mistake in a
definition of the model (the operators marked "seeded fault", and other definitions of
the same shape), and found violated: see `mutants` in `PROJECT.json`.

What the properties mean (those of the supervisor not named here are described with
their proofs in section 4):

- `ChildrenAreSpared`: a living child ends only by its user, by a registry that displaces
  it, by a tick that finds its board unwanted, by the shutdown, or by a health check; and
  by that one only if it never answered a probe and its `start_timeout` had passed when
  it was asked, or if it left the last `UNHEALTHY_STRIKES` probes in a row unanswered. The
  code counts strikes per board, across children; the record in `SupervisorProbes` is of
  the child. It is not promised that the child refuses connections when it is ended: it
  did when it was asked.
- `StartsFresh`: no interleaving of the senders leaves an older frame in flight to a
  channel, in it or on the screen than the one the channel was opened with.
  `ShowsLatest`: although frames overtake each other and a full channel loses the new
  one, a dashboard that stays ends up showing what is true once nothing changes. It is
  the unconditional frame of every `STATS_INTERVAL` that makes this so.
- `SoundConfigs`: whatever edits and reloads run beside each other, what is in force,
  waits, or is read by the other threads has distinct names and ports, none of them the
  dashboard's. `RegistryLoads`: an edit leaves a file that loads. `InForceIsTheFile`: no
  edit is lost on its way to the supervisor. `PortsStick`: a board keeps its port across
  reloads, crashes and boots.
- `CaughtUp`: a session that has read and stored all it was sent, with no refresh under
  way, shows the daemon's queue at the boards of the registry in force. It is the safety
  core of `FollowsQueue`. Like that, it is stated for behaviours in which no refresh
  crosses another or a store of the subscriber: nothing in the code orders those.
- `FollowsQueue`: whatever the daemon sent and however often it went away, the snapshot
  ends up showing its queue, each job at the boards of the registry in force, and a
  reload re-matches without a push. `OutageShown`: a refresh that stores its view as
  connected does not hide an outage for good. `Stops`: the thread ends after `shutdown()`
  wherever it is.
- `SteadyShowsWriting`: a logdir that goes on receiving data never stops showing it, not
  while the file the watcher follows has ended and its successor waits for the next full
  walk. `ShowsOnlyData`: a row shows data only if the
  file followed lies below the logdir the board was walked at and was written within the
  window. `FlipsAreAnnounced`: a pass that turns a flag publishes. `FollowsLogdir`: a board
  that was given another logdir ends up showing that one.

Bounds of the supervisor runs. `MaxRequests` bounds the commands waiting in the queue,
`MaxLag` the time between two readings of the clock; timeouts are one or two units, so
that every one of them both can and need not come due within a tick. Two boards suffice
for what the properties relate: a board and another that takes its port, its slot or the
tick's time; starvation needs three. The safety runs use the action constraint
`CallsComeLate`: the thread reads the queue only while it drains and the
pending registry only at the top of its loop, so a call that comes earlier has the
effect of one that comes then. The liveness runs have no constraint.

Bounds of the others. `stream`: channels do not interact, so one is enough; two frames
of capacity and four senders, one of them a handler that reloads, fill it and make it
lose one; every change after the first of a source would only repeat it (`MaxVersion`).
`registry`: `Budget` bounds the requests and the upsets. Two requests of two clients and
the main thread's own reload make every pair of steps of two writers interleave; two
boards with ports in 2 to 4, of which one is blocked, make the search for ports pass the
highest; a `set` command changes the port or the setting together with the name, either
of which may be the one the board has; clients and names are interchangeable
(`SYMMETRY`; the run checks no liveness). `queue`: `Budget` bounds how often each thing
outside the thread happens; the second reload is what can find the registry changed
again. The instance holds the job whose command line names a board: the one that does
not is the subject of `attribution`. `activity`: nothing is bounded but the ages, which
saturate beyond the window.

Fairness. `WF(ThreadStep)`: the supervisor's thread is a loop with a timed wait
(`_wake.wait(poll_interval)`) and a handler that notes every exception, so it goes on
stepping. The handler may raise itself, when the directory it notes the error in fails,
and the thread is then lost: the runs `faults` and `idle` reach that, `faults` checks what
remains true after it, and the liveness properties say in their premises that the thread
lives. So do the watcher
(`WF(Watcher)`), the subscriber (`WF(Thread)`) and the steps of `_refresh_snapshot`,
`publish` and `_broadcast`. `WF(Elapse)`, and `SF(Elapse)` where a step of a thread may
disable it again and again: time passes whatever the threads do. `WF(ChildServes \/
BindFails)` for sound boards: their scan ends. `WF(Read(k))` only for the dashboards
named `Attentive`, `WF(Refresh(h))` for handlers that began one, and a write in every
unit for the logdirs named `Steady`. Nothing is assumed of callers, of faulty children,
of other programs, of the daemon, or of users; the liveness properties say in their
premises that callers are quiet, or the daemon stays, from some point on.

Deadlock is not checked where the program may stop: a manager or a subscriber that was
shut down, and a registry nobody edits any more. `stream` and `activity` check it.

### Disagreements with the repository's own words

- `restart`: `supervisor.py:367` says that the fresh demand of a restart "is enough to
  bring an on_demand board back". If its user stopped the board, `override` stays
  `False` and the board stays down.
- `hung_boards`: README's `always` is "With the service, restarted forever". Slots go to
  the first board in registry order that may spawn; boards that hang while they scan
  (180 s until the timeout, at most 60 s of backoff) can hold all of them for ever.
- `stagger`: `config.py:176` calls `start_stagger` the "Seconds between spawns during a
  cold start". `_last_spawn` is the time the tick began; a tick that terminates a
  child first makes the next spawn come too early.
- `attribution`: `queue.py:170` says of several boards below a job's cwd that "the one
  actually receiving data is the run's". Jobs are matched when the daemon pushes a view
  or the registry is reloaded; the watcher tells of a board that starts to receive data
  to `supervisor.publish` alone (`cli.py:212`). A job matched before its run wrote
  anything, which is the normal order, keeps that match until the next push.

## 4. What is proved

Assumptions: `ConfigAssumption` (what `config.parse` guarantees: distinct names and
ports, `max_warming` at least 1), `TimingAssumption` (durations are naturals, at least
one strike and one backoff step), `FaultAssumption` (finitely many boards),
`StreamAssumption` (a channel holds at least one frame), `LinkAssumption` (finitely many
boards, jobs name and lie in boards), `WatcherAssumption` and `WindowAssumption` (section
2.6), `RegistryAssumption` (finitely many names; `port_base` is any positive number, also
one above the highest port; the dashboard's port is one that browsers do not block; the
blocked ports lie below the highest port, as those of `config.py:55` do, of which 10080
is the largest). Nothing bounds the number
of boards, registries, commands, channels, clients or the length of a run; where a
module has a bound as a constant, the theorems hold for every value of it.

| Theorem | States |
| --- | --- |
| `SpecInv`, `TypeCorrect`, `StatusCorrect`, `ChildrenCorrect`, `StopCorrect`, `CountCorrect` | `Spec => []IInv` and its conjuncts, for `Supervisor` |
| `LaunchesCorrect`, `WarmupCorrect` | `Spec => LaunchesWithinLimit`, `Spec => WarmupSurvivesIdle` |
| `NextRefines`, `Refinement` | `Spec => ImplementsSlots` |
| `RecordCorrect`, `OnlyTheSilentEnd` | `ProbedSpec => [](IInv /\ RecordInv)`, `ProbedSpec => ChildrenAreSpared` |
| `PromisesKept` | `Spec => []` of what `BoardSlots` promises: ports in use are apart, held boards have no process |
| `SlotsCorrect` | `SlotsSpec => []SlotsInv` |
| `StreamTypeCorrect`, `DashboardStartsFresh` | `Spec => []TypeOK`, `Spec => []StartsFresh` of `StateStream` |
| `RegistryTypeCorrect`, `ConfigsSound` | `Spec => []TypeOK`, `Spec => []SoundConfigs` of `Registry` |
| `FileLoads`, `QuietIsFaithful`, `PortsAreSticky` | `Spec => []RegistryLoads`, `Spec => []InForceIsTheFile`, `Spec => PortsStick` of `Registry` |
| `AssignedPortsGrow`, `AssignmentIsStable` | of the operators: an assigned port is free and above those in use; writing the assigned ports into a file changes nothing else, and they are assigned once |
| `LinkTypeCorrect` | `Spec => []TypeOK` of `QueueLink` |
| `DrainedIsCaughtUp` | `Spec => CaughtUp` of `QueueLink` |
| `WatcherTypeCorrect`, `SteadyBoardShowsWriting`, `OnlyDataIsShown`, `EveryFlipAnnounced` | `Spec => []TypeOK`, `Spec => []SteadyShowsWriting`, `Spec => []ShowsOnlyData`, `Spec => FlipsAreAnnounced` of `Activity` |

`Supervisor`. `IInv` is `TypeOK` with the three state invariants, `TickCountsWarming`
and `AnswerIsOfAChild` (who has been asked has a child until the answer is used). None
of the three is inductive alone: `StoppedStaysDown` needs `StatusMatchesProcess` where a
visit keeps a child, `LaunchedAsConfigured` needs `todo` to be boards of the registry in
force (`TypeOK`) where a visit launches one, and all of them need that a tick under way
still has a board to visit. `TickCountsWarming` is the strengthening that makes the cap
provable: the number counted at the start of a tick only has to be an upper bound, and
stays one because terminations are not subtracted and launches are added. The proof has
one lemma per step of the thread. All visits but two have one of two shapes (the child
is left alone; the child is ended), stated as `QuietShape` and `EndingShape`, and all
commands have one (`CommandShape`); the invariant, the refinement and the cap are each
proved once per shape. `WarmupSurvivesIdle` comes down to the four visits that take a
child away (`OnlyItsVisitEnds`). `ChildrenAreSpared` adds the steps between ticks
(`OnlyCallersEnd`) and a second invariant, `RecordInv`, that relates the strikes of a
board to what its present child was asked: a child that never answered is still
starting, and the strikes of any other are at most the probes it left unanswered since
its last answer, the answer at hand counted. It is inductive because `StartsServing`
clears the strikes an earlier child may have left. `PromisesKept` reads the same
invariant through the refinement mapping.

`StateStream`. `StartsFresh` is not inductive: that no sender holds an older frame for a
channel follows from every frame being made of a snapshot that only moves forward.
`IInv` adds that the snapshot is not ahead of the truth and a sample that waits for the
lock not behind the snapshot (`Forward`), that a frame encoded now is not older than the
one any channel was opened with (`Caught`), and that a channel nobody opened has nothing
in it or on the way (`Untouched`).

`Registry`. `IInv` is `Texts` (the types), `Works` (what each program counter says of the
worker's request and text), `DownIsQuiet` (nothing of a manager outlives it),
`HandsWhatLoads` (a worker about to hand over a text read one that loaded), `Flags` and
`SoundConfigs`. `SoundConfigs` then comes down to a lemma on the operators,
`LoadsSound`: if `Loads(s)`, then `Config(s)` is sound. It needs that `NextFreePort`
returns a port that is not in use (`NextFreeIsFree`) and that every later port avoids the
earlier ones. `Config` is a recursive function, about which nothing can be proved by
induction here; its properties are proved from the least index at which they would fail,
which exists because `<` is well-founded on the naturals (`LeastNumber`). `ConfigsSound`
is what discharges the part of `ConfigAssumption` about names and ports.

The three properties of the file hold only while edits do not overlap, so their
invariant, `FInv`, has three parts. `IInv` holds always. `Alone` says that, as long as
nothing overlapped, an editor is the only worker at work and what it read is still the
file. `Clean => Faithful` says that as long as, besides, neither the user nor an overflow
broke the file, it loads; that all reloads under way, of any number beside each other,
give the same ports to the same boards and can only write back the same text
(`Following`); that a board which is to keep a port has it in the file (`Homes`); and
that either somebody will yet hand the file over, or the supervisor has it or is about to
take it (`Settled`). `InForceIsTheFile` is `Settled` when nobody is at work, and is not
inductive without `Following`: a reload reads the file twice and writes it in between.
That this write is harmless is a fact about the operators, `AssignmentIsStable`: what
`set_ports` writes is the configuration itself (`SetPortsFills`), parsing that changes
nothing (`ConfigTwice`), and it loads unless a port came out above the highest
(`FilledLoads`), which is what an overflow is.

`QueueLink`. `CaughtUp` is about the end of a session's work, so its invariant, `LinkInv`,
says where the daemon's queue is at any point of it: `Carried`, a live session holds it in
the last frame on the wire, in the view received or in the view stored, or a frame that
will end the session is on the wire; `Matched`, the snapshot has the boards that the
stored view gives unless a refresh is under way; `Held`, what the subscriber or a refresh
is about to store is matched to the registry in force. Each step keeps it whose two states
are not `Tangled`. From a tangled state a store may put an older view in place of a newer
one, which is why the property has its premise.

`Activity`. `IInv` adds to the types that once a pass has ended in a unit of time every
board was walked less than `FullInterval` ago (`WalkedInTime`), that what a sample says
of a steady logdir is at most as old as the last full walk plus `Gap` (`SamplesFresh`),
and that a steady logdir has a file written within `Gap` (`SteadyReceives`); with
`WindowAssumption` the age shown never leaves the window. That no flip is missed needs a
second invariant, `Announced`: what a pass has not visited is as it was, and a flag that
it turned is on record.

That a row shows only data (`ShowsOnlyData`) follows from `Observed`: every sample, stored
or of the pass under way, follows a file of the logdir it was taken at, and is not
younger than that file's last write. Walks establish it (`ScanFollows`), touches keep
it, and time keeps it since both ages grow together.

Only model-checked: the liveness properties (`AlwaysBoardsRun`, `IdleBoardsStop`,
`UnresponsiveIsReplaced`, `ShowsLatest`, `FollowsQueue`, `OutageShown`, `Stops`,
`FollowsLogdir`), because liveness under fairness and `ENABLED` are out of the prover's
reach. Every invariant and every action property of a passing run is proved.

## 5. What is not modelled

See `components` in `PROJECT.json`. In the modelled components:

- `shutdown()` of the supervisor joins its thread for 15 s and then terminates the
  children from the main thread, at the same time as the thread may still be at it; and
  the server answers before `supervisor.start()`. Both need a model of who owns the
  runtimes.
- What a lost supervisor thread means for the boards over time: its safety is checked, but
  the liveness properties exclude it (`ThreadLives`): that boards are then no longer kept
  up is plain from the code (`supervisor.py:328`).
- A manager started with `--config` or `--port`: the former makes `do_add` edit a file
  that is not the one served, the latter is forgotten by the next reload. Both are
  visible in the code without a model; they are listed as hazards.
- The text of the registry: quoting, comments, `[defaults]` and `[queue]`, the regular
  expressions of `registry.py`. A block is its name, port and one setting.
- The discovery of logdirs (`_run_dirs`, `_proposals`): pure functions on a directory
  tree. `cmd_scan` in `Registry` may find any boards in any order.

Left out for good: the panes of the dashboard (bookkeeping of one page, sequential and
without effect on the manager except by the calls that `Supervisor` and `Registry` let
come at any time), and pure I/O without decisions that others depend on: desktop and
service files, `/proc`, log rotation and tails, argument parsing, printing, routing and
static files.

## 6. What could come next

1. A serial store as the abstract specification of `Registry`, implemented when edits do
   not overlap.
2. Ownership of the runtimes during start-up and shutdown, as a module that composes with
   the thread of `Supervisor`.
3. Discovery as a pure module: `cli.py:731` against the docstring at `cli.py:718`, for a
   lone run at the root of a project.
