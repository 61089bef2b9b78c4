------------------------------ MODULE QueueLink ------------------------------
(***************************************************************************)
(* The link to the mlq queue daemon (queue.py): a subscriber thread that   *)
(* connects to the daemon's socket, reads status frames, attributes jobs   *)
(* to boards and publishes a snapshot; the HTTP handlers that re-parse the *)
(* last view after a registry reload, and cancel jobs; and the daemon,     *)
(* which comes and goes and may send what cannot be read.                  *)
(*                                                                         *)
(* A view is the set of live jobs.  Where a job runs and which paths its   *)
(* command line names are fixed with the job.  The delay between two       *)
(* connection attempts is not modelled, only that it ends.                 *)
(***************************************************************************)
EXTENDS Naturals, Sequences, FiniteSets

CONSTANTS
    Boards,     \* every board name a registry may list
    Jobs,       \* every job the daemon may hold
    Named,      \* job -> the boards whose logdir its command line touches
    Inside,     \* job -> the boards whose logdir lies below its cwd
    Handlers,   \* HTTP handler threads that reload the registry
    Budget      \* bound: how often each thing of the environment happens

Happenings == {"change", "fault", "outage", "reload", "shift"}

ASSUME LinkAssumption ==
    /\ IsFiniteSet(Boards)
    /\ Named \in [Jobs -> SUBSET Boards] /\ Inside \in [Jobs -> SUBSET Boards]
    /\ Budget \in [Happenings -> Nat]

Views == SUBSET Jobs
Frame == [sound: BOOLEAN, view: Views]
Attribution == UNION {[v -> SUBSET Boards] : v \in Views}

VARIABLES
    up,         \* the daemon listens
    queue,      \* the jobs it holds
    conn,       \* the subscription's socket: "none", "open" or "shut"
    wire,       \* frames sent on it and not read yet
    pc,         \* the subscriber thread
    got,        \* the view it received
    draft,      \* that view, parsed
    stop,       \* _stop is set
    snapshot,   \* _snapshot: connected, and the boards of each job
    view,       \* _view, as the frame that carried it
    hpc,        \* each handler thread inside do_reload
    hview,      \* the view it read
    hdraft,     \* that view, parsed
    dirs,       \* the boards of the registry in force
    writing,    \* the boards receiving data, as the watcher has it
    left        \* what is left of Budget

subscriber == <<pc, got, draft>>
handler == <<hpc, hview, hdraft>>
daemon == <<up, queue>>
vars == <<daemon, conn, wire, subscriber, stop, snapshot, view, handler,
          dirs, writing, left>>

TypeOK ==
    /\ up \in BOOLEAN /\ queue \in Views
    /\ conn \in {"none", "open", "shut"}
    /\ wire \in Seq(Frame)
    /\ pc \in {"wait", "check", "recv", "parse", "store", "done"}
    /\ got \in Views /\ draft \in Attribution
    /\ stop \in BOOLEAN
    /\ snapshot \in [connected: BOOLEAN, jobs: Attribution]
    /\ view \in Frame
    /\ hpc \in [Handlers -> {"idle", "loaded", "parse", "store"}]
    /\ hview \in [Handlers -> Views] /\ hdraft \in [Handlers -> Attribution]
    /\ dirs \subseteq Boards /\ writing \subseteq Boards
    /\ left \in [Happenings -> Nat]
    /\ conn = "none" <=> pc \in {"wait", "done"}   \* no socket without a session

NoJobs == [j \in {} |-> {}]
StatusFrame(v) == [sound |-> TRUE, view |-> v]
Unreadable == [sound |-> FALSE, view |-> {}]

Init ==
    /\ up \in BOOLEAN /\ queue = {}
    /\ conn = "none" /\ wire = <<>>
    /\ pc = "wait" /\ got = {} /\ draft = NoJobs
    /\ stop = FALSE
    /\ snapshot = [connected |-> FALSE, jobs |-> NoJobs] /\ view = Unreadable
    /\ hpc = [h \in Handlers |-> "idle"]
    /\ hview = [h \in Handlers |-> {}] /\ hdraft = [h \in Handlers |-> NoJobs]
    /\ dirs \in SUBSET Boards /\ writing = {}
    /\ left = Budget

Spend(kind) == left[kind] > 0 /\ left' = [left EXCEPT ![kind] = @ - 1]

-----------------------------------------------------------------------------
(* Attribution: _boards_for and parse.                                     *)

BoardsFor(j, ds, ws) ==
    LET named == Named[j] \cap ds
        inside == Inside[j] \cap ds
        live == inside \cap ws
    IN  IF named # {} THEN named
        ELSE IF Cardinality(inside) = 1 THEN inside
        ELSE IF Cardinality(live) = 1 THEN live
        ELSE {}

Parse(v, ds, ws) == [j \in v |-> BoardsFor(j, ds, ws)]

-----------------------------------------------------------------------------
(* The daemon.  A new subscription is sent the status at once, and again   *)
(* whenever it changes.                                                    *)

Push(frame) == wire' = IF conn = "open" THEN Append(wire, frame) ELSE wire

Change ==
    /\ up /\ Spend("change")
    /\ \E v \in Views \ {queue} : queue' = v /\ Push(StatusFrame(v))
    /\ UNCHANGED <<up, conn, subscriber, stop, snapshot, view, handler, dirs,
                   writing>>

(* An error reply, a frame out of sync, a truncated or stalled body, an    *)
(* entry that does not parse.                                              *)
SendFault ==
    /\ up /\ conn = "open" /\ Spend("fault")
    /\ Push(Unreadable)
    /\ UNCHANGED <<daemon, conn, subscriber, stop, snapshot, view, handler, dirs,
                   writing>>

GoDown ==
    /\ up /\ Spend("outage")
    /\ up' = FALSE
    /\ conn' = IF conn = "open" THEN "shut" ELSE conn
    /\ UNCHANGED <<queue, wire, subscriber, stop, snapshot, view, handler, dirs,
                   writing>>

ComeUp ==
    /\ ~up
    /\ up' = TRUE /\ queue' \in Views
    /\ UNCHANGED <<conn, wire, subscriber, stop, snapshot, view, handler, dirs,
                   writing, left>>

(* A handler cancels a job over a connection of its own; the daemon drops  *)
(* it from the queue and tells the subscription.  Refused, unanswered or   *)
(* failed requests change nothing here.                                    *)
Cancel(j) ==
    /\ up /\ ~stop /\ j \in queue /\ Spend("change")
    /\ queue' = queue \ {j} /\ Push(StatusFrame(queue \ {j}))
    /\ UNCHANGED <<up, conn, subscriber, stop, snapshot, view, handler, dirs,
                   writing>>

-----------------------------------------------------------------------------
(* The subscriber thread: run, _session, _absorb, _degrade.                *)

(* Seeded fault: the socket of a failed session is not closed.             *)
DegradeLeaks ==
    /\ snapshot' = [snapshot EXCEPT !.connected = FALSE]
    /\ wire' = <<>> /\ UNCHANGED conn
    /\ pc' = "wait"

(* A session that fails: the socket is closed, the jobs stay, labelled.    *)
Degrade ==
    /\ snapshot' = [snapshot EXCEPT !.connected = FALSE]
    /\ conn' = "none" /\ wire' = <<>>
    /\ pc' = "wait"

(* Seeded fault: only a session that ran can degrade the snapshot.         *)
ConnectQuietly ==
    /\ pc = "wait" /\ ~stop /\ up
    /\ conn' = "open" /\ wire' = <<StatusFrame(queue)>>
    /\ pc' = "check"
    /\ UNCHANGED <<daemon, got, draft, stop, snapshot, view, handler, dirs,
                   writing, left>>

Connect ==
    /\ pc = "wait" /\ ~stop
    /\ IF up
         THEN /\ conn' = "open" /\ wire' = <<StatusFrame(queue)>>
              /\ pc' = "check"
              /\ UNCHANGED snapshot
         ELSE Degrade
    /\ UNCHANGED <<daemon, got, draft, stop, view, handler, dirs, writing, left>>

Check ==
    /\ pc = "check"
    /\ IF stop THEN pc' = "done" /\ conn' = "none" /\ wire' = <<>>
               ELSE pc' = "recv" /\ UNCHANGED <<conn, wire>>
    /\ UNCHANGED <<daemon, got, draft, stop, snapshot, view, handler, dirs,
                   writing, left>>

(* read_frame and status_view: a status; an idle socket; or the end.       *)
Recv ==
    /\ pc = "recv"
    /\ \/ /\ wire # <<>> /\ Head(wire).sound
          /\ got' = Head(wire).view /\ wire' = Tail(wire)
          /\ pc' = "parse"
          /\ UNCHANGED <<conn, snapshot>>
       \/ /\ wire = <<>> /\ conn = "open"
          /\ pc' = "check"
          /\ UNCHANGED <<got, conn, wire, snapshot>>
       \/ /\ IF wire = <<>> THEN conn = "shut" ELSE ~Head(wire).sound
          /\ Degrade
          /\ UNCHANGED got
    /\ UNCHANGED <<daemon, draft, stop, view, handler, dirs, writing, left>>

(* _absorb: parse without the lock, then store under it.                   *)
ParseView ==
    /\ pc = "parse"
    /\ draft' = Parse(got, dirs, writing)
    /\ pc' = "store"
    /\ UNCHANGED <<daemon, conn, wire, got, stop, snapshot, view, handler, dirs,
                   writing, left>>

Stored(v, jobs) ==
    view' = StatusFrame(v) /\ snapshot' = [connected |-> TRUE, jobs |-> jobs]

StoreView ==
    /\ pc = "store"
    /\ Stored(got, draft)
    /\ got' = {} /\ draft' = NoJobs
    /\ pc' = "check"
    /\ UNCHANGED <<daemon, conn, wire, stop, handler, dirs, writing, left>>

(* Seeded fault: run retries for ever, only a session looks at the flag.   *)
ExitBySession ==
    /\ pc = "wait" /\ stop /\ up
    /\ pc' = "done"
    /\ UNCHANGED <<daemon, conn, wire, got, draft, stop, snapshot, view, handler,
                   dirs, writing, left>>

Exit ==
    /\ pc = "wait" /\ stop
    /\ pc' = "done"
    /\ UNCHANGED <<daemon, conn, wire, got, draft, stop, snapshot, view, handler,
                   dirs, writing, left>>

(* shutdown: the flag, and the socket, to wake a thread that reads.        *)
Shutdown ==
    /\ ~stop
    /\ stop' = TRUE
    /\ conn' = IF conn = "open" THEN "shut" ELSE conn
    /\ UNCHANGED <<daemon, wire, subscriber, snapshot, view, handler, dirs,
                   writing, left>>

-----------------------------------------------------------------------------
(* A handler's do_reload: the registry in force, then refresh, which reads *)
(* the last view under the lock, parses it and stores it.                  *)

Reload(h) ==
    /\ hpc[h] = "idle" /\ Spend("reload")
    /\ dirs' \in SUBSET Boards
    /\ hpc' = [hpc EXCEPT ![h] = "loaded"]
    /\ UNCHANGED <<daemon, conn, wire, subscriber, stop, snapshot, view, hview,
                   hdraft, writing>>

(* Seeded fault: a reload leaves the snapshot to the daemon's next push.   *)
ReadViewNever(h) ==
    /\ hpc[h] = "loaded"
    /\ hpc' = [hpc EXCEPT ![h] = "idle"]
    /\ UNCHANGED <<daemon, conn, wire, subscriber, stop, snapshot, view, hview,
                   hdraft, dirs, writing, left>>

ReadView(h) ==
    /\ hpc[h] = "loaded"
    /\ IF view.sound
         THEN /\ hview' = [hview EXCEPT ![h] = view.view]
              /\ hpc' = [hpc EXCEPT ![h] = "parse"]
         ELSE hpc' = [hpc EXCEPT ![h] = "idle"] /\ UNCHANGED hview
    /\ UNCHANGED <<daemon, conn, wire, subscriber, stop, snapshot, view, hdraft,
                   dirs, writing, left>>

(* Seeded fault: a refresh keeps the boards found before.                  *)
ReparseNothing(h) ==
    /\ hpc[h] = "parse"
    /\ hdraft' = [hdraft EXCEPT ![h] = snapshot.jobs]
    /\ hpc' = [hpc EXCEPT ![h] = "store"]
    /\ UNCHANGED <<daemon, conn, wire, subscriber, stop, snapshot, view, hview,
                   dirs, writing, left>>

Reparse(h) ==
    /\ hpc[h] = "parse"
    /\ hdraft' = [hdraft EXCEPT ![h] = Parse(hview[h], dirs, writing)]
    /\ hpc' = [hpc EXCEPT ![h] = "store"]
    /\ UNCHANGED <<daemon, conn, wire, subscriber, stop, snapshot, view, hview,
                   dirs, writing, left>>

Restore(h) ==
    /\ hpc[h] = "store"
    /\ Stored(hview[h], hdraft[h])
    /\ hview' = [hview EXCEPT ![h] = {}]
    /\ hdraft' = [hdraft EXCEPT ![h] = NoJobs]
    /\ hpc' = [hpc EXCEPT ![h] = "idle"]
    /\ UNCHANGED <<daemon, conn, wire, subscriber, stop, dirs, writing, left>>

(* The watcher finds other boards writing: it tells the supervisor, not    *)
(* the subscriber.                                                         *)
Shift ==
    /\ Spend("shift")
    /\ writing' \in SUBSET Boards \ {writing}
    /\ UNCHANGED <<daemon, conn, wire, subscriber, stop, snapshot, view, handler,
                   dirs>>

-----------------------------------------------------------------------------
Thread == Connect \/ Check \/ Recv \/ ParseView \/ StoreView \/ Exit
Refresh(h) == ReadView(h) \/ Reparse(h) \/ Restore(h)

Next ==
    \/ Change \/ SendFault \/ GoDown \/ ComeUp
    \/ \E j \in Jobs : Cancel(j)
    \/ Connect \/ Check \/ Recv \/ ParseView \/ StoreView \/ Exit
    \/ Shutdown \/ Shift
    \/ \E h \in Handlers : Reload(h) \/ ReadView(h) \/ Reparse(h) \/ Restore(h)

Spec == Init /\ [][Next]_vars
FairSpec ==
    /\ Spec
    /\ WF_vars(Thread)
    /\ \A h \in Handlers : WF_vars(Refresh(h))

-----------------------------------------------------------------------------
(* Properties.                                                             *)

(* The jobs whose boards do not hang on which of them is writing.          *)
Settled(j) == Named[j] \cap dirs # {} \/ Cardinality(Inside[j] \cap dirs) <= 1

Follows ==
    /\ snapshot.connected
    /\ DOMAIN snapshot.jobs = queue
    /\ \A j \in queue : Settled(j) => snapshot.jobs[j] = BoardsFor(j, dirs, writing)

(* A refresh under way while another one is, or while the subscriber holds *)
(* a parsed view it has not stored: nothing orders their stores then.      *)
Tangled ==
    \E h \in Handlers :
        /\ hpc[h] # "idle"
        /\ pc = "store" \/ \E i \in Handlers \ {h} : hpc[i] # "idle"

(* The subscriber has read and stored every frame of a session that lives, *)
(* and no refresh is under way.                                            *)
Drained ==
    /\ conn = "open" /\ wire = <<>> /\ pc \in {"check", "recv"}
    /\ \A h \in Handlers : hpc[h] = "idle"

(* As long as no refresh crossed another or a store of the subscriber, the *)
(* snapshot of a drained session is the daemon's queue: no frame the       *)
(* daemon sent is lost, no refresh puts back a view that a later frame     *)
(* replaced, and no view is stored that was matched to an older registry.  *)
CaughtUp == []~Tangled => [](Drained => Follows)

(* Whatever the daemon sent, and however often it went away, once it stays *)
(* the snapshot is connected for good and shows the daemon's queue, each   *)
(* job at the boards the registry in force gives it: the thread survives   *)
(* every frame, and a reload re-matches at once ("instead of waiting for   *)
(* mlqd's next push").                                                     *)
FollowsQueue == <>[](up /\ ~stop) /\ []~Tangled => <>[]Follows

(* A daemon that is gone for good is shown offline for good, although a    *)
(* refresh stores its view as connected whatever the subscriber found.     *)
OutageShown == <>[](~up /\ ~stop) => <>[]~snapshot.connected

(* Shutdown ends the subscriber wherever it is, a blocking read included.  *)
Stops == stop ~> (pc = "done")

(* A job whose cwd holds several boards belongs to the one receiving data  *)
(* (queue.py:171: "the one actually receiving data is the run's").         *)
LiveBoardIsTheRuns ==
    \A j \in Jobs, b \in Boards :
        <>[](/\ up /\ ~stop /\ j \in queue
             /\ Named[j] \cap dirs = {} /\ Inside[j] \cap dirs \cap writing = {b})
          => <>[](snapshot.connected /\ j \in DOMAIN snapshot.jobs
                  /\ snapshot.jobs[j] = {b})
=============================================================================
