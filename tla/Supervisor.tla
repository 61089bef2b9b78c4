------------------------------ MODULE Supervisor ------------------------------
(***************************************************************************)
(* The supervision loop of tensorwatch (supervisor.py): one background     *)
(* thread that owns every TensorBoard child process, the HTTP handlers     *)
(* that hand it commands and new registries through a queue and a slot,    *)
(* and the children and foreign programs it shares the ports with.         *)
(*                                                                         *)
(* One iteration of the thread is Absorb, any number of Drain steps,       *)
(* TickStart, and one visit per board of the registry, in order.  The      *)
(* handlers, the children and the clock move between any two of them.      *)
(*                                                                         *)
(* Time.  Every timestamp of the code is a countdown of this model: what   *)
(* is left, at the thread's last reading of the clock, before the time-    *)
(* stamp comes due.  `lag` is how far the real clock has run since that    *)
(* reading; the next reading (Aged) takes it off every countdown.  So a    *)
(* tick works throughout with the `now` it read first, as _tick does,      *)
(* however long its probes and terminations take.  No countdown grows      *)
(* with time, so the state space is finite without a bound on time.        *)
(***************************************************************************)
EXTENDS Naturals, Sequences, FiniteSets

CONSTANTS
    Boards,         \* every board name a registry may list
    Ports,          \* every TCP port a registry may name
    NoPort,         \* the port of a board that has no child
    Configs,        \* the registries Config.load may return
    NoConfig,       \* _pending_config is None
    IdleTimeout,    \* spec.idle_timeout
    StartTimeout,   \* spec.start_timeout
    StableAfter,    \* STABLE_AFTER
    StartStagger,   \* server.start_stagger
    RetryPause,     \* the 30 s pause after a spawn that was refused
    BackoffTable,   \* _backoff of 1, 2, ... restarts, then constant
    UnhealthyStrikes,
    Faulty,         \* boards whose child may hang, wedge, exit, outlive SIGKILL, or
                    \* accept too late for a probe
    Hung,           \* boards whose child may hang while it scans
    BadLog,         \* boards whose log file may fail to open or to take a line
    FullDisk,       \* whether supervisor.log may fail with it
    Foreign,        \* ports that programs other than the children may take
    MaxRequests,    \* bound: commands waiting in the queue
    MaxLag          \* bound: time between two readings of the clock

Policies == {"always", "on_demand", "manual"}
Spec_ == [autostart: Policies, enabled: BOOLEAN, port: Ports]
Commands == {"start", "stop", "restart", "demand"}

-----------------------------------------------------------------------------
(* What config.parse guarantees of a registry: the boards are listed once  *)
(* each, no two share a port, and max_warming is at least 1.               *)

ASSUME ConfigAssumption ==
    /\ NoConfig \notin Configs
    /\ NoPort \notin Ports
    /\ \A c \in Configs :
         /\ DOMAIN c.spec \subseteq Boards
         /\ c.order \in Seq(DOMAIN c.spec)
         /\ c.spec \in [DOMAIN c.spec -> Spec_]
         /\ \A a, b \in DOMAIN c.spec : a # b => c.spec[a].port # c.spec[b].port
         /\ c.maxWarming \in Nat \ {0}

ASSUME TimingAssumption ==
    /\ IdleTimeout \in Nat /\ StartTimeout \in Nat /\ StableAfter \in Nat
    /\ StartStagger \in Nat /\ RetryPause \in Nat /\ MaxLag \in Nat
    /\ UnhealthyStrikes \in Nat \ {0}
    /\ MaxRequests \in Nat
    /\ Len(BackoffTable) \in Nat \ {0}
    /\ BackoffTable \in Seq(Nat)

ASSUME FaultAssumption ==
    /\ IsFiniteSet(Boards)
    /\ Faulty \subseteq Boards /\ Hung \subseteq Boards /\ BadLog \subseteq Boards
    /\ Foreign \subseteq Ports /\ FullDisk \in BOOLEAN

(* The boards that do their part.                                          *)
Sound == Boards \ (Faulty \cup Hung \cup BadLog)

-----------------------------------------------------------------------------
VARIABLES
    config,     \* _config, and through it runtime.spec and _order
    pending,    \* _pending_config
    rt,         \* _boards: the bookkeeping of each board
    child,      \* the process behind runtime.proc, and the port it was given
    squat,      \* ports where something that is nobody's child listens
    requests,   \* _requests
    phase,      \* where the thread is: "loop", "drain", "tick", "done", or "lost":
                \* ended by an exception
    todo,       \* the boards the running tick has still to visit
    warming,    \* the tick's local count of warming boards
    answer,     \* the visit's local `listening`, "none" before the probe
    stagger,    \* what is left of start_stagger since _last_spawn
    lag,        \* real time since the thread last read the clock
    stopping    \* _stopping is set

thread == <<phase, todo, warming, answer>>
vars == <<config, pending, rt, child, squat, requests, thread, stagger, lag,
          stopping>>

States == {"disabled", "stopped", "starting", "running", "backoff", "failed"}

Runtime == [state: States,
            override: {"none", "on", "off"},    \* None, True, False
            restarts: 0 .. Len(BackoffTable),   \* saturates with _backoff
            strikes: 0 .. (UnhealthyStrikes - 1),
            wait: Nat,    \* left until next_attempt
            lease: Nat,   \* left of the idle window last_demand opened
            due: Nat]     \* left until start_timeout, then until STABLE_AFTER

FreshRuntime == [state |-> "stopped", override |-> "none", restarts |-> 0,
                 strikes |-> 0, wait |-> 0, lease |-> 0, due |-> 0]

(* "quiet": alive, accepting nothing, whether it scans, hangs or wedged;   *)
(* "serve": alive and accepting; "dead": exited and not yet reaped.        *)
Child == [st: {"none", "quiet", "serve", "dead"}, port: Ports \cup {NoPort}]
NoChild == [st |-> "none", port |-> NoPort]

TypeOK ==
    /\ config \in Configs
    /\ pending \in Configs \cup {NoConfig}
    /\ rt \in [Boards -> Runtime]
    /\ child \in [Boards -> Child]
    /\ squat \subseteq Ports
    /\ requests \in Seq(Commands \X Boards)
    /\ phase \in {"loop", "drain", "tick", "done", "lost"}
    /\ todo \in Seq(DOMAIN config.spec)
    /\ warming \in Nat
    /\ answer \in {"none", "yes", "no"}
    /\ stagger \in Nat
    /\ lag \in 0 .. MaxLag
    /\ stopping \in BOOLEAN

-----------------------------------------------------------------------------
Managed == DOMAIN config.spec
HasChild(b) == child[b].st # "none"
Alive(b) == child[b].st \in {"quiet", "serve"}
Warming == {b \in Boards : rt[b].state = "starting"}

Listening(p) ==
    \/ p \in squat
    \/ \E b \in Boards : child[b].st = "serve" /\ child[b].port = p

(* probe(): whoever listens on the port may answer; nobody may, or too     *)
(* late for the 0.25 s of the probe.                                       *)
Answered(b) == Listening(config.spec[b].port)
Unanswered(b) == b \in Faulty \/ ~Listening(config.spec[b].port)

(* Seeded fault: a countdown that runs past zero.                          *)
LeftUnclamped(t, passed) == t - passed
Left(t, passed) == IF t > passed THEN t - passed ELSE 0

(* The countdowns of a board at the clock's present value.                 *)
AgedBy(r, passed) == [r EXCEPT !.wait = Left(@, passed),
                               !.lease = Left(@, passed),
                               !.due = Left(@, passed)]
Aged == [b \in Boards |-> AgedBy(rt[b], lag)]

(* time.time(): the countdowns are brought up to date.  A step that also   *)
(* changes board b passes what it makes of b's aged runtime.               *)
ReadClock == lag' = 0 /\ stagger' = Left(stagger, lag)

More(n) == IF n < Len(BackoffTable) THEN n + 1 ELSE n
Backoff(restarts) == BackoffTable[restarts]

(* A runtime whose child was terminated, or is to be tried again later.    *)
Ended(r, state) == [r EXCEPT !.state = state, !.due = 0]
(* Seeded fault: a failure that sets no next_attempt.                      *)
FailedWithoutPause(r, state) == [Ended(r, state) EXCEPT !.restarts = More(r.restarts)]
Failed(r, state) == [Ended(r, state) EXCEPT !.restarts = More(r.restarts),
                                            !.wait = Backoff(More(r.restarts))]

(* _terminate() on the boards of S, between the signals and the return.    *)
(* A child that survives SIGKILL is forgotten like the others: if it was   *)
(* listening it goes on listening, and nobody owns it any more.            *)
Terminate(S) ==
    /\ child' = [b \in Boards |-> IF b \in S THEN NoChild ELSE child[b]]
    /\ \E stuck \in SUBSET {b \in S \cap Faulty : child[b].st = "serve"} :
         squat' = squat \cup {child[b].port : b \in stuck}

(* Seeded faults: the stop override, the warm-up rule, or the idle window  *)
(* of _desired is forgotten.                                               *)
DesiredDespiteStop(r, spec) ==
    /\ spec.enabled
    /\ \/ r.override = "on"
       \/ spec.autostart = "always"
       \/ spec.autostart = "on_demand" /\ (r.state = "starting" \/ r.lease > 0)
DesiredByLease(r, spec) ==
    /\ spec.enabled
    /\ \/ r.override = "on"
       \/ /\ r.override = "none"
          /\ spec.autostart = "always" \/ (spec.autostart = "on_demand" /\ r.lease > 0)
DesiredWhileUp(r, spec) ==
    /\ spec.enabled
    /\ \/ r.override = "on"
       \/ /\ r.override = "none"
          /\ \/ spec.autostart = "always"
             \/ /\ spec.autostart = "on_demand"
                /\ r.state \in {"starting", "running"} \/ r.lease > 0

Desired(r, spec) ==
    /\ spec.enabled
    /\ \/ r.override = "on"
       \/ /\ r.override = "none"
          /\ \/ spec.autostart = "always"
             \/ spec.autostart = "on_demand" /\ (r.state = "starting" \/ r.lease > 0)

Wanted(b) == Desired(rt[b], config.spec[b])

-----------------------------------------------------------------------------
(* Other threads: the HTTP handlers and the main thread of `serve`.        *)

(* request(): an action for a board the supervisor knows.                  *)
Request(action, b) ==
    /\ b \in Managed /\ phase # "done"
    /\ Len(requests) < MaxRequests
    /\ requests' = Append(requests, <<action, b>>)
    /\ UNCHANGED <<config, pending, rt, child, squat, thread, stagger, lag, stopping>>

(* reload(): a second reload before the thread looks replaces the first.   *)
Reload(c) ==
    /\ phase \notin {"done", "lost"}
    /\ pending' = c
    /\ UNCHANGED <<config, rt, child, squat, requests, thread, stagger, lag, stopping>>

(* shutdown(): the event; the thread sees it at the top of its loop.       *)
Shutdown ==
    /\ ~stopping
    /\ stopping' = TRUE
    /\ UNCHANGED <<config, pending, rt, child, squat, requests, thread, stagger, lag>>

-----------------------------------------------------------------------------
(* The thread: _absorb_pending and _apply_config.                          *)

(* What becomes of a board's runtime under registry c.                     *)
Reconciled(r, b, c) ==
    LET old == config.spec[b]
        new == c.spec[b]
        flip == old.autostart # new.autostart
        pinless == [r EXCEPT
            !.override = IF flip THEN "none" ELSE @,
            !.lease = IF flip /\ new.autostart = "on_demand" /\ HasChild(b)
                      THEN IdleTimeout ELSE @]
    IN  IF b \notin Managed \/ b \notin DOMAIN c.spec THEN FreshRuntime
        ELSE IF old.port # new.port /\ HasChild(b) THEN Ended(pinless, "stopped")
        ELSE pinless

(* Seeded fault: a changed command line restarts nothing.                  *)
DisplacedByRemoval(c) == {b \in Managed : HasChild(b) /\ b \notin DOMAIN c.spec}

(* The children registry c removes, or gives another command line to; the  *)
(* port stands for all of argv, cwd and env.                               *)
Displaced(c) ==
    {b \in Managed : HasChild(b) /\ \/ b \notin DOMAIN c.spec
                                    \/ config.spec[b].port # c.spec[b].port}

(* _apply_config                                                           *)
Adopt(c) ==
    /\ config' = c
    /\ rt' = [b \in Boards |-> Reconciled(Aged[b], b, c)]
    /\ Terminate(Displaced(c))
    /\ ReadClock

Absorb ==
    /\ phase = "loop" /\ ~stopping
    /\ phase' = "drain" /\ pending' = NoConfig
    /\ \/ /\ pending = NoConfig
          /\ UNCHANGED <<config, rt, child, squat, stagger, lag>>
       \/ /\ pending # NoConfig
          /\ Adopt(pending)
    /\ UNCHANGED <<requests, todo, warming, answer, stopping>>

(* reload() once the thread is lost: the caller applies the registry.      *)
ReloadAlone(c) ==
    /\ phase = "lost" /\ ~stopping
    /\ pending' = NoConfig
    /\ Adopt(c)
    /\ UNCHANGED <<requests, thread, stopping>>

-----------------------------------------------------------------------------
(* The thread: _drain_requests, one command at a time.                     *)

Demanded(r) ==
    [r EXCEPT !.lease = IdleTimeout, !.override = IF @ = "off" THEN "none" ELSE @]
(* Both start and restart forget past failures and renew the demand.       *)
Afresh(r) == [r EXCEPT !.wait = 0, !.restarts = 0, !.lease = IdleTimeout]
Started(r) == [Afresh(r) EXCEPT !.override = "on"]
StoppedByUser(r) == Ended([r EXCEPT !.override = "off", !.lease = 0], "stopped")
Pinned(r, spec) ==
    [r EXCEPT !.override = IF @ = "none" /\ spec.autostart = "manual" THEN "on" ELSE @]
(* Seeded fault: the state of a restarted board is left as it was.         *)
RestartedInPlace(r, spec) == Pinned(Afresh(r), spec)
Restarted(r, spec) == Ended(Pinned(Afresh(r), spec), "stopped")

(* The command at the head of the queue makes r of its board's runtime.    *)
Handle(action, b, r) ==
    /\ phase = "drain" /\ requests # <<>>
    /\ Head(requests) = <<action, b>> /\ b \in Managed
    /\ requests' = Tail(requests)
    /\ rt' = [Aged EXCEPT ![b] = r]
    /\ ReadClock
    /\ UNCHANGED <<config, pending, thread, stopping>>

Demand(b) == Handle("demand", b, Demanded(Aged[b])) /\ UNCHANGED <<child, squat>>
Start(b) == Handle("start", b, Started(Aged[b])) /\ UNCHANGED <<child, squat>>
Stop(b) == Handle("stop", b, StoppedByUser(Aged[b])) /\ Terminate({b})
Restart(b) ==
    Handle("restart", b, Restarted(Aged[b], config.spec[b])) /\ Terminate({b})

(* A command for a board that a reload removed meanwhile is dropped.       *)
Drop ==
    /\ phase = "drain" /\ requests # <<>>
    /\ Head(requests)[2] \notin Managed
    /\ requests' = Tail(requests)
    /\ UNCHANGED <<config, pending, rt, child, squat, thread, stagger, lag, stopping>>

-----------------------------------------------------------------------------
(* The thread: _tick.  It reads the clock once and counts the warming      *)
(* boards once, then visits the boards in the registry's order.            *)

(* What is left to visit; the tick is over, and its locals with it, when   *)
(* nothing is.                                                             *)
Proceed(left, warm) ==
    /\ phase' = IF left = <<>> THEN "loop" ELSE "tick"
    /\ todo' = left
    /\ warming' = IF left = <<>> THEN 0 ELSE warm
    /\ answer' = "none"

TickStart ==
    /\ phase = "drain" /\ requests = <<>>
    /\ Proceed(config.order, Cardinality(Warming))
    /\ rt' = Aged /\ ReadClock
    /\ UNCHANGED <<config, pending, child, squat, requests, stopping>>

(* The visit of board b leaves b with runtime r and goes to the next.      *)
Visit(b, r, warm) ==
    /\ phase = "tick" /\ b = Head(todo)
    /\ Proceed(Tail(todo), warm)
    /\ rt' = [rt EXCEPT ![b] = r]
    /\ UNCHANGED <<config, pending, requests, lag, stopping>>

Reclaim(b) ==
    /\ Visit(b, Ended(rt[b], IF config.spec[b].enabled THEN "stopped" ELSE "disabled"),
             warming)
    /\ ~Wanted(b)
    /\ Terminate({b})
    /\ UNCHANGED stagger

(* _check_health asks first.  What it does with the answer is a step of    *)
(* its own: until then the child may begin to accept, wedge or exit.       *)
Probe(b) ==
    /\ phase = "tick" /\ b = Head(todo) /\ answer = "none"
    /\ Wanted(b) /\ Alive(b)
    /\ \/ answer' = "yes" /\ Answered(b)
       \/ answer' = "no" /\ Unanswered(b)
    /\ UNCHANGED <<config, pending, rt, child, squat, requests, phase, todo, warming,
                   stagger, lag, stopping>>

(* A board that is warming.                                                *)

(* Seeded fault: the strikes of the board's last child count on.           *)
StartsServingStruck(b) ==
    /\ Visit(b, [rt[b] EXCEPT !.state = "running", !.due = StableAfter + 1], warming)
    /\ answer = "yes" /\ rt[b].state = "starting"
    /\ UNCHANGED <<child, squat, stagger>>

StartsServing(b) ==
    /\ Visit(b, [rt[b] EXCEPT !.state = "running", !.strikes = 0,
                              !.due = StableAfter + 1], warming)
    /\ answer = "yes" /\ rt[b].state = "starting"
    /\ UNCHANGED <<child, squat, stagger>>

StillWarming(b) ==
    /\ Visit(b, rt[b], warming)
    /\ answer = "no" /\ rt[b].state = "starting" /\ rt[b].due > 0
    /\ UNCHANGED <<child, squat, stagger>>

StartTimesOut(b) ==
    /\ Visit(b, Failed(rt[b], "failed"), warming)
    /\ answer = "no" /\ rt[b].state = "starting" /\ rt[b].due = 0
    /\ Terminate({b})
    /\ UNCHANGED stagger

(* A board that was serving.                                               *)
Healthy(b) ==
    /\ Visit(b, [rt[b] EXCEPT !.state = "running", !.strikes = 0,
                              !.restarts = IF rt[b].due = 0 THEN 0 ELSE @], warming)
    /\ answer = "yes" /\ rt[b].state # "starting"
    /\ UNCHANGED <<child, squat, stagger>>

(* Seeded fault: strikes do not add up.                                    *)
StrikeForgotten(b) ==
    /\ Visit(b, rt[b], warming)
    /\ answer = "no" /\ rt[b].state # "starting"
    /\ rt[b].strikes + 1 < UnhealthyStrikes
    /\ UNCHANGED <<child, squat, stagger>>

Strike(b) ==
    /\ Visit(b, [rt[b] EXCEPT !.strikes = @ + 1], warming)
    /\ answer = "no" /\ rt[b].state # "starting"
    /\ rt[b].strikes + 1 < UnhealthyStrikes
    /\ UNCHANGED <<child, squat, stagger>>

(* Seeded fault: the caller of _terminate leaves the state as it was.      *)
WedgedInPlace(b) ==
    /\ Visit(b, [Failed(rt[b], "running") EXCEPT !.strikes = 0], warming)
    /\ answer = "no" /\ rt[b].state # "starting"
    /\ rt[b].strikes + 1 >= UnhealthyStrikes
    /\ Terminate({b})
    /\ UNCHANGED stagger

Wedged(b) ==
    /\ Visit(b, [Failed(rt[b], "stopped") EXCEPT !.strikes = 0], warming)
    /\ answer = "no" /\ rt[b].state # "starting"
    /\ rt[b].strikes + 1 >= UnhealthyStrikes
    /\ Terminate({b})
    /\ UNCHANGED stagger

HandleExit(b) ==
    /\ Visit(b, Failed(rt[b], "backoff"), warming)
    /\ Wanted(b) /\ child[b].st = "dead" /\ answer = "none"
    /\ child' = [child EXCEPT ![b] = NoChild]
    /\ UNCHANGED <<squat, stagger>>

(* The early `continue`s of a board that wants a child and has none.       *)
HoldOff(b) ==
    /\ Visit(b, [rt[b] EXCEPT !.state = IF rt[b].restarts > 0 THEN "backoff" ELSE @],
             warming)
    /\ Wanted(b) /\ ~HasChild(b) /\ rt[b].wait > 0
    /\ UNCHANGED <<child, squat, stagger>>

(* Seeded fault: the cap is off by one.                                    *)
MaySpawnOneMore(b) ==
    /\ Wanted(b) /\ ~HasChild(b) /\ rt[b].wait = 0
    /\ warming <= config.maxWarming
    /\ stagger = 0
MaySpawn(b) ==
    /\ Wanted(b) /\ ~HasChild(b) /\ rt[b].wait = 0
    /\ warming < config.maxWarming
    /\ stagger = 0

AwaitSlot(b) ==
    /\ Visit(b, rt[b], warming)
    /\ Wanted(b) /\ ~HasChild(b) /\ rt[b].wait = 0
    /\ \/ warming >= config.maxWarming
       \/ stagger > 0
    /\ UNCHANGED <<child, squat, stagger>>

(* _spawn that returns False: the logdir is missing, the port is taken, or *)
(* the command cannot be executed.                                         *)
SpawnRefused(b) ==
    /\ Visit(b, [rt[b] EXCEPT !.state = "failed", !.wait = RetryPause], warming)
    /\ MaySpawn(b)
    /\ b \in Faulty \/ Answered(b)
    /\ UNCHANGED <<child, squat, stagger>>

(* Opening the log, or its first line, raises: the handler around the      *)
(* whole iteration catches it, so the rest of this tick, its snapshot      *)
(* included, never happens.  The handler then writes to supervisor.log in  *)
(* the same directory; if that raises too, the thread ends.                *)
SpawnRaises(b) ==
    /\ phase = "tick" /\ b = Head(todo)
    /\ MaySpawn(b)
    /\ b \in BadLog /\ Unanswered(b)
    /\ phase' \in {"loop"} \cup IF FullDisk THEN {"lost"} ELSE {}
    /\ todo' = <<>> /\ warming' = 0 /\ answer' = "none"
    /\ UNCHANGED <<config, pending, rt, child, squat, requests, stagger, lag, stopping>>

(* Seeded fault: a launch is not counted among the warming boards.         *)
LaunchUncounted(b) ==
    /\ Visit(b, [rt[b] EXCEPT !.state = "starting", !.due = StartTimeout + 1], warming)
    /\ MaySpawn(b)
    /\ Unanswered(b)
    /\ child' = [child EXCEPT ![b] = [st |-> "quiet", port |-> config.spec[b].port]]
    /\ stagger' = StartStagger
    /\ UNCHANGED squat

Launch(b) ==
    /\ Visit(b, [rt[b] EXCEPT !.state = "starting", !.due = StartTimeout + 1], warming + 1)
    /\ MaySpawn(b)
    /\ Unanswered(b)
    /\ child' = [child EXCEPT ![b] = [st |-> "quiet", port |-> config.spec[b].port]]
    /\ stagger' = StartStagger
    /\ UNCHANGED squat

(* The end of _run: every child is terminated; the states stay as they are.*)
(* If the thread is lost, the main thread does it, in shutdown().          *)
ThreadExits ==
    /\ phase \in {"loop", "lost"} /\ stopping
    /\ phase' = "done"
    /\ rt' = [b \in Boards |-> [rt[b] EXCEPT !.due = 0]]
    /\ Terminate(Boards)
    /\ UNCHANGED <<config, pending, requests, todo, warming, answer, stagger, lag, stopping>>

-----------------------------------------------------------------------------
(* The children, the other programs of the machine, and the clock.         *)

Become(b, st) ==
    /\ child' = [child EXCEPT ![b].st = st]
    /\ UNCHANGED <<config, pending, rt, squat, requests, thread, stagger, lag, stopping>>

(* The scan is over and the port is free: the child accepts connections.   *)
ChildServes(b) == child[b].st = "quiet" /\ ~Listening(child[b].port) /\ Become(b, "serve")

(* The scan is over and the port is not free: TensorBoard gives up.        *)
BindFails(b) == child[b].st = "quiet" /\ Listening(child[b].port) /\ Become(b, "dead")

ChildWedges(b) == b \in Faulty /\ child[b].st = "serve" /\ Become(b, "quiet")
ChildExits(b) == b \in Faulty /\ Alive(b) /\ Become(b, "dead")

ForeignTakes(p) ==
    /\ p \in Foreign /\ ~Listening(p)
    /\ squat' = squat \cup {p}
    /\ UNCHANGED <<config, pending, rt, child, requests, thread, stagger, lag, stopping>>

ForeignLeaves(p) ==
    /\ p \in squat
    /\ squat' = squat \ {p}
    /\ UNCHANGED <<config, pending, rt, child, requests, thread, stagger, lag, stopping>>

(* A sound child ends its scan within start_timeout: the clock waits.      *)
Elapse ==
    /\ lag < MaxLag /\ phase # "done"
    /\ \A b \in Sound :
          child[b].st = "quiet" /\ rt[b].state = "starting" => rt[b].due > lag + 1
    /\ lag' = lag + 1
    /\ UNCHANGED <<config, pending, rt, child, squat, requests, thread, stagger, stopping>>

-----------------------------------------------------------------------------
Init ==
    /\ config \in Configs
    /\ pending = NoConfig
    /\ rt = [b \in Boards |-> FreshRuntime]
    /\ child = [b \in Boards |-> NoChild]
    /\ squat = {}
    /\ requests = <<>>
    /\ phase = "loop" /\ todo = <<>> /\ warming = 0 /\ answer = "none"
    /\ stagger = 0 /\ lag = 0
    /\ stopping = FALSE

VisitSome(b) ==
    \/ Reclaim(b) \/ Probe(b)
    \/ StartsServing(b) \/ StillWarming(b) \/ StartTimesOut(b)
    \/ Healthy(b) \/ Strike(b) \/ Wedged(b)
    \/ HandleExit(b) \/ HoldOff(b) \/ AwaitSlot(b)
    \/ SpawnRefused(b) \/ SpawnRaises(b) \/ Launch(b)

ThreadStep ==
    \/ Absorb
    \/ \E b \in Boards : Demand(b) \/ Start(b) \/ Stop(b) \/ Restart(b)
    \/ Drop
    \/ TickStart
    \/ \E b \in Boards : VisitSome(b)
    \/ ThreadExits

Callers ==
    \/ \E action \in Commands, b \in Boards : Request(action, b)
    \/ \E c \in Configs : Reload(c) \/ ReloadAlone(c)
    \/ Shutdown

Environment ==
    \/ \E b \in Boards : ChildServes(b) \/ BindFails(b) \/ ChildWedges(b) \/ ChildExits(b)
    \/ \E p \in Ports : ForeignTakes(p) \/ ForeignLeaves(p)
    \/ Elapse

Next == ThreadStep \/ Callers \/ Environment

Spec == Init /\ [][Next]_vars

(* The thread is scheduled, the clock runs, and the child of a board that  *)
(* is not faulty finishes its scan; nothing is assumed of the callers, of  *)
(* other programs, or of faulty children.                                  *)
Fairness ==
    /\ WF_vars(ThreadStep)
    /\ WF_vars(Elapse)
    /\ \A b \in Sound : WF_vars(ChildServes(b) \/ BindFails(b))

FairSpec == Spec /\ Fairness
-----------------------------------------------------------------------------
(***************************************************************************)
(* Safety.                                                                 *)
(***************************************************************************)

(* The state a dashboard shows agrees with the process table: a board is   *)
(* starting or running exactly while the supervisor holds a child of it.   *)
(* The two are written by different functions (_terminate clears the child *)
(* and leaves the state to its eight callers), and _desired, the count of  *)
(* warming boards and the health check all read one to learn the other.    *)
StatusMatchesProcess ==
    phase # "done" =>
        \A b \in Boards : HasChild(b) <=> rt[b].state \in {"starting", "running"}

(* Every child belongs to a board of the registry in force and runs the    *)
(* command line that registry gives the board.  Hence no reload leaves an  *)
(* orphan or a stale child behind, and no two children share a port, even  *)
(* when a reload makes two boards trade ports.                             *)
LaunchedAsConfigured ==
    \A b \in Boards : HasChild(b) =>
        b \in Managed /\ child[b].port = config.spec[b].port

(* A board its user stopped has no child, whatever was queued before the   *)
(* stop, until a start or a demand, or a change of policy, releases it.    *)
StoppedStaysDown ==
    \A b \in Boards : rt[b].override = "off" => ~HasChild(b)

(* The number a tick compares with max_warming was counted when the tick   *)
(* began and only ever goes up; it never falls short of the boards that    *)
(* are warming by then.  A tick is under way while it has boards to visit. *)
TickCountsWarming ==
    /\ phase = "tick" <=> todo # <<>>
    /\ phase = "tick" => Cardinality(Warming) <= warming

(* Who has been asked has a child, until the answer is used.               *)
AnswerIsOfAChild ==
    answer # "none" => phase = "tick" /\ HasChild(Head(todo))

(* The inductive invariant behind the theorems of SupervisorProofs.        *)
IInv ==
    /\ TypeOK
    /\ StatusMatchesProcess
    /\ LaunchedAsConfigured
    /\ StoppedStaysDown
    /\ TickCountsWarming
    /\ AnswerIsOfAChild

(* Every child was launched with the start-up cap respected: right after a *)
(* launch no more than max_warming boards are warming, whatever reloads,   *)
(* exits and restarts happened since the tick counted them.                *)
LaunchesWithinLimit ==
    [][\A b \in Boards : ~HasChild(b) /\ HasChild(b)' =>
          Cardinality(Warming') <= config.maxWarming]_vars

(* A tick does not give up a board that is warming because its demand aged *)
(* out: it ends such a child only when it exited or its start timed out    *)
(* (the comment of _desired).                                              *)
WarmupSurvivesIdle ==
    [][\A b \in Boards :
          (phase = "tick" /\ rt[b].state = "starting" /\ Alive(b) /\ ~HasChild(b)') =>
              \/ rt[b].due = 0
              \/ ~config.spec[b].enabled
              \/ config.spec[b].autostart = "manual" /\ rt[b].override = "none"]_vars

(***************************************************************************)
(* Liveness, once the callers are quiet and while the thread is not lost:  *)
(* nothing but a reload moves a board of a supervisor without its thread.  *)
(***************************************************************************)
ThreadLives == phase # "lost"
Calm == requests = <<>> /\ pending = NoConfig /\ ~stopping /\ ThreadLives

Always(b) ==
    /\ b \in Managed /\ config.spec[b].enabled
    /\ rt[b].override = "on" \/ (rt[b].override = "none" /\ config.spec[b].autostart = "always")

OnDemand(b) ==
    /\ b \in Managed /\ rt[b].override = "none"
    /\ config.spec[b].autostart = "on_demand"

(* A board that is to run, whose child is sound and whose port is its own, *)
(* ends up running for good, although the other boards hang and crash and  *)
(* the registry caps how many may warm at once.                            *)
AlwaysBoardsRun ==
    \A b \in Sound :
        <>[](Calm /\ Always(b) /\ config.spec[b].port \notin squat)
            => <>[](rt[b].state = "running")

(* An on_demand board that nobody opens any more ends up stopped for good: *)
(* its idle window closes, a hung start times out and is not retried.      *)
IdleBoardsStop ==
    \A b \in Boards : <>[](Calm /\ OnDemand(b)) => <>[]~HasChild(b)

(* No child that does not accept connections is left alone for ever: it    *)
(* accepts in the end or the supervisor replaces it.                       *)
UnresponsiveIsReplaced ==
    <>[](requests = <<>> /\ ThreadLives) =>
        \A b \in Boards :
            (HasChild(b) /\ ~Listening(child[b].port))
                ~> (~HasChild(b) \/ Listening(child[b].port))

(***************************************************************************)
(* Stated by the repository and not kept by the code.                      *)
(***************************************************************************)

(* A restart command leaves an on_demand board wanted: supervisor.py:367   *)
(* says that the fresh demand "is enough to bring an on_demand board back".*)
RestartBringsBack ==
    [][\A b \in Managed :
          (Restart(b) /\ config.spec[b].enabled
              /\ config.spec[b].autostart = "on_demand") => Wanted(b)']_vars
=============================================================================
