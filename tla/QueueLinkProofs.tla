--------------------------- MODULE QueueLinkProofs ---------------------------
(***************************************************************************)
(* Proofs about QueueLink, for any jobs, boards, handlers and bounds: its  *)
(* types, with the rule that the subscriber has a socket exactly while it  *)
(* has a session; and that a session that has read what it was sent shows  *)
(* the daemon's queue, as long as no refresh crosses another or a store of *)
(* the subscriber.                                                         *)
(***************************************************************************)
EXTENDS QueueLink, FiniteSetTheorems, TLAPS

(* What parse returns names boards for exactly the jobs of the view.       *)
LEMMA ParseType ==
    ASSUME NEW v \in Views, NEW ds \in SUBSET Boards, NEW ws \in SUBSET Boards
    PROVE  Parse(v, ds, ws) \in Attribution
<1>1. \A j \in v : BoardsFor(j, ds, ws) \in SUBSET Boards
    BY LinkAssumption DEF BoardsFor, Views
<1>2. Parse(v, ds, ws) \in [v -> SUBSET Boards]
    BY <1>1 DEF Parse
<1> QED
    BY <1>2 DEF Attribution

(* A job that names boards of the registry is attributed to those; any     *)
(* other to at most one.                                                   *)
LEMMA AttributionUnambiguous ==
    ASSUME NEW j \in Jobs, NEW ds \in SUBSET Boards, NEW ws \in SUBSET Boards
    PROVE  IF Named[j] \cap ds # {} THEN BoardsFor(j, ds, ws) = Named[j] \cap ds
           ELSE BoardsFor(j, ds, ws) = {} \/ Cardinality(BoardsFor(j, ds, ws)) = 1
BY DEF BoardsFor

(* The empty attribution is one.                                           *)
LEMMA NoJobsType == NoJobs \in Attribution
<1>1. NoJobs \in [{} -> SUBSET Boards] /\ {} \in Views
    BY DEF NoJobs, Views
<1> QED
    BY <1>1 DEF Attribution

(* The link starts in its types.                                           *)
LEMMA InitType == Init => TypeOK
<1> SUFFICES ASSUME Init PROVE TypeOK
    OBVIOUS
<1>1. {} \in Views /\ Unreadable \in Frame
    BY DEF Views, Frame, Unreadable
<1>2. wire \in Seq(Frame) /\ view \in Frame
    BY <1>1 DEF Init
<1>3. snapshot \in [connected: BOOLEAN, jobs: Attribution]
    BY NoJobsType DEF Init
<1>4. hpc \in [Handlers -> {"idle", "loaded", "parse", "store"}]
    BY DEF Init
<1>5. hview \in [Handlers -> Views] /\ hdraft \in [Handlers -> Attribution]
    BY <1>1, NoJobsType DEF Init
<1> QED
    BY <1>1, <1>2, <1>3, <1>4, <1>5, NoJobsType, LinkAssumption DEF Init, TypeOK

(* Spending takes from what is left, and never below zero.                 *)
LEMMA SpendType ==
    ASSUME TypeOK, NEW kind \in Happenings, Spend(kind)
    PROVE  left' \in [Happenings -> Nat]
BY DEF TypeOK, Spend

(* A frame pushed joins the frames on the wire.                            *)
LEMMA PushType ==
    ASSUME TypeOK, NEW frame \in Frame, Push(frame)
    PROVE  wire' \in Seq(Frame)
BY DEF TypeOK, Push

(* Every step keeps the types.                                             *)
LEMMA NextType == TypeOK /\ [Next]_vars => TypeOK'
<1> SUFFICES ASSUME TypeOK, [Next]_vars PROVE TypeOK'
    OBVIOUS
<1> USE DEF subscriber, handler, daemon
<1>a. \A v \in Views : StatusFrame(v) \in Frame
    BY DEF Frame, StatusFrame
<1>b. Unreadable \in Frame
    BY DEF Frame, Unreadable, Views
<1>d. ASSUME Degrade
      PROVE  /\ snapshot' \in [connected: BOOLEAN, jobs: Attribution]
             /\ wire' \in Seq(Frame) /\ conn' = "none" /\ pc' = "wait"
  <2>1. snapshot' \in [connected: BOOLEAN, jobs: Attribution]
      BY <1>d DEF TypeOK, Degrade
  <2> QED
      BY <1>d, <2>1 DEF Degrade
<1>1. CASE Change
  <2>1. left' \in [Happenings -> Nat]
      BY <1>1, SpendType DEF Change, Happenings
  <2>2. queue' \in Views /\ wire' \in Seq(Frame)
      BY <1>1, <1>a, PushType DEF Change
  <2> QED
      BY <1>1, <2>1, <2>2 DEF TypeOK, Change
<1>2. CASE SendFault
  <2>1. left' \in [Happenings -> Nat]
      BY <1>2, SpendType DEF SendFault, Happenings
  <2>2. wire' \in Seq(Frame)
      BY <1>2, <1>b, PushType DEF SendFault
  <2> QED
      BY <1>2, <2>1, <2>2 DEF TypeOK, SendFault
<1>3. CASE GoDown
  <2>1. left' \in [Happenings -> Nat]
      BY <1>3, SpendType DEF GoDown, Happenings
  <2> QED
      BY <1>3, <2>1 DEF TypeOK, GoDown
<1>4. CASE ComeUp
    BY <1>4 DEF TypeOK, ComeUp
<1>5. ASSUME NEW j \in Jobs, Cancel(j) PROVE TypeOK'
  <2>1. left' \in [Happenings -> Nat]
      BY <1>5, SpendType DEF Cancel, Happenings
  <2>2. queue \ {j} \in Views
      BY DEF TypeOK, Views
  <2>3. queue' \in Views /\ wire' \in Seq(Frame)
      BY <1>5, <2>2, <1>a, PushType DEF Cancel
  <2> QED
      BY <1>5, <2>1, <2>3 DEF TypeOK, Cancel
<1>6. CASE Connect
  <2>1. <<StatusFrame(queue)>> \in Seq(Frame)
      BY <1>a DEF TypeOK
  <2>2. CASE up
      BY <1>6, <2>1, <2>2 DEF TypeOK, Connect
  <2>3. CASE ~up
    <3>1. /\ Degrade
          /\ UNCHANGED <<daemon, got, draft, stop, view, handler, dirs, writing, left>>
        BY <1>6, <2>3 DEF Connect
    <3> QED
        BY <3>1, <1>d DEF TypeOK
  <2> QED
      BY <2>2, <2>3
<1>7. CASE Check
  <2>1. CASE stop
      BY <1>7, <2>1 DEF TypeOK, Check
  <2>2. CASE ~stop
      BY <1>7, <2>2 DEF TypeOK, Check
  <2> QED
      BY <2>1, <2>2
<1>8. CASE Recv
  <2>1. ASSUME wire # <<>>
        PROVE  Head(wire).view \in Views /\ Tail(wire) \in Seq(Frame)
    <3>1. wire \in Seq(Frame)
        BY DEF TypeOK
    <3>2. Head(wire) \in Frame /\ Tail(wire) \in Seq(Frame)
        BY <2>1, <3>1
    <3> QED
        BY <3>2 DEF Frame
  <2>2. CASE /\ wire # <<>> /\ Head(wire).sound
             /\ got' = Head(wire).view /\ wire' = Tail(wire)
             /\ pc' = "parse"
             /\ UNCHANGED <<conn, snapshot>>
    <3>1. got' \in Views /\ wire' \in Seq(Frame)
        BY <2>1, <2>2
    <3>2. conn' # "none"
        BY <1>8, <2>2 DEF TypeOK, Recv
    <3> QED
        BY <1>8, <2>2, <3>1, <3>2 DEF TypeOK, Recv
  <2>3. CASE pc' = "check" /\ UNCHANGED <<got, conn, wire, snapshot>>
      BY <1>8, <2>3 DEF TypeOK, Recv
  <2>4. CASE Degrade /\ UNCHANGED got
      BY <1>8, <2>4, <1>d DEF TypeOK, Recv
  <2> QED
      BY <1>8, <2>2, <2>3, <2>4 DEF Recv
<1>9. CASE ParseView
  <2>1. Parse(got, dirs, writing) \in Attribution
      BY ParseType DEF TypeOK
  <2> QED
      BY <1>9, <2>1 DEF TypeOK, ParseView
<1>10. CASE StoreView
  <2>1. {} \in Views
      BY DEF Views
  <2>2. view' \in Frame /\ snapshot' \in [connected: BOOLEAN, jobs: Attribution]
      BY <1>10, <1>a DEF TypeOK, StoreView, Stored
  <2> QED
      BY <1>10, <2>1, <2>2, NoJobsType DEF TypeOK, StoreView
<1>11. CASE Exit
    BY <1>11 DEF TypeOK, Exit
<1>12. CASE Shutdown
    BY <1>12 DEF TypeOK, Shutdown
<1>13. CASE Shift
  <2>1. left' \in [Happenings -> Nat]
      BY <1>13, SpendType DEF Shift, Happenings
  <2> QED
      BY <1>13, <2>1 DEF TypeOK, Shift
<1>14. ASSUME NEW h \in Handlers, Reload(h) PROVE TypeOK'
  <2>1. left' \in [Happenings -> Nat]
      BY <1>14, SpendType DEF Reload, Happenings
  <2> QED
      BY <1>14, <2>1 DEF TypeOK, Reload
<1>15. ASSUME NEW h \in Handlers, ReadView(h) PROVE TypeOK'
  <2>1. view.view \in Views
      BY DEF TypeOK, Frame
  <2> QED
      BY <1>15, <2>1 DEF TypeOK, ReadView
<1>16. ASSUME NEW h \in Handlers, Reparse(h) PROVE TypeOK'
  <2>1. Parse(hview[h], dirs, writing) \in Attribution
      BY ParseType DEF TypeOK
  <2> QED
      BY <1>16, <2>1 DEF TypeOK, Reparse
<1>17. ASSUME NEW h \in Handlers, Restore(h) PROVE TypeOK'
  <2>1. {} \in Views
      BY DEF Views
  <2>2. view' \in Frame /\ snapshot' \in [connected: BOOLEAN, jobs: Attribution]
      BY <1>17, <1>a DEF TypeOK, Restore, Stored
  <2>3. hview' \in [Handlers -> Views] /\ hdraft' \in [Handlers -> Attribution]
      BY <1>17, <2>1, NoJobsType DEF TypeOK, Restore
  <2> QED
      BY <1>17, <2>2, <2>3 DEF TypeOK, Restore
<1>18. CASE UNCHANGED vars
    BY <1>18 DEF TypeOK, vars
<1> QED
    BY <1>1, <1>2, <1>3, <1>4, <1>5, <1>6, <1>7, <1>8, <1>9, <1>10, <1>11, <1>12,
       <1>13, <1>14, <1>15, <1>16, <1>17, <1>18 DEF Next

(* The link never leaves its types, and the subscriber of queue.py holds a *)
(* socket exactly while it has a session.                                  *)
THEOREM LinkTypeCorrect == Spec => []TypeOK
BY InitType, NextType, PTL DEF Spec
-----------------------------------------------------------------------------
(* What a drained session shows.                                           *)

(* The boards of a job do not hang on which of them is writing.            *)
Clear(j, ds) == Named[j] \cap ds # {} \/ Cardinality(Inside[j] \cap ds) <= 1

(* An attribution is one of the view, and gives the clear jobs the boards  *)
(* that parse gives them, whoever writes.                                  *)
Fits(jobs, v, ds) ==
    /\ DOMAIN jobs = v
    /\ \A j \in v : Clear(j, ds) =>
         \A ws \in SUBSET Boards : jobs[j] = BoardsFor(j, ds, ws)

(* A live session holds the daemon's queue somewhere: as the last frame on *)
(* the wire, as the view received, or as the view stored; or a frame on    *)
(* the wire will end it.                                                   *)
Unread == \E i \in 1..Len(wire) : ~wire[i].sound
Carried ==
    conn = "open" =>
      /\ up
      /\ \/ Unread
         \/ wire # <<>> /\ wire[Len(wire)] = StatusFrame(queue)
         \/ wire = <<>> /\ pc \in {"parse", "store"} /\ got = queue
         \/ /\ wire = <<>> /\ pc \in {"check", "recv"}
            /\ view = StatusFrame(queue) /\ snapshot.connected

(* The snapshot fits the stored view, unless a refresh has yet to store.   *)
(* Its jobs are those of the view even then.                               *)
Unrefreshed == \E h \in Handlers : hpc[h] # "idle"
Matched ==
    view.sound =>
      /\ DOMAIN snapshot.jobs = view.view
      /\ Unrefreshed \/ Fits(snapshot.jobs, view.view, dirs)

(* What the subscriber is about to store fits what it received; a refresh  *)
(* works on the stored view, and what it is about to store fits that.      *)
Held ==
    /\ pc = "store" => Fits(draft, got, dirs)
    /\ \A h \in Handlers :
         /\ hpc[h] \in {"parse", "store"} => view = StatusFrame(hview[h])
         /\ hpc[h] = "store" => Fits(hdraft[h], hview[h], dirs)

LinkInv == TypeOK /\ Carried /\ Matched /\ Held

(* A clear job has the same boards whoever writes.                         *)
LEMMA ClearIgnoresWriters ==
    ASSUME NEW j \in Jobs, NEW ds \in SUBSET Boards, Clear(j, ds),
           NEW ws \in SUBSET Boards, NEW wt \in SUBSET Boards
    PROVE  BoardsFor(j, ds, ws) = BoardsFor(j, ds, wt)
<1>1. CASE Named[j] \cap ds # {}
    BY <1>1 DEF BoardsFor
<1>2. CASE Named[j] \cap ds = {}
  <2>1. IsFiniteSet(Inside[j] \cap ds)
      BY FS_Subset, LinkAssumption
  <2>2. CASE Cardinality(Inside[j] \cap ds) = 1
      BY <1>2, <2>2 DEF BoardsFor
  <2>3. CASE Cardinality(Inside[j] \cap ds) # 1
    <3>1. Cardinality(Inside[j] \cap ds) = 0
        BY <1>2, <2>1, <2>3, FS_CardinalityType DEF Clear
    <3>2. Inside[j] \cap ds = {}
        BY <2>1, <3>1, FS_EmptySet
    <3>3. Cardinality({}) = 0
        BY FS_EmptySet
    <3>4. Inside[j] \cap ds \cap ws = {} /\ Inside[j] \cap ds \cap wt = {}
        BY <3>2
    <3> QED
        BY <1>2, <3>2, <3>3, <3>4 DEF BoardsFor
  <2> QED
      BY <2>2, <2>3
<1> QED
    BY <1>1, <1>2

(* What parse returns fits the view it was given.                          *)
LEMMA ParseFits ==
    ASSUME NEW v \in Views, NEW ds \in SUBSET Boards, NEW ws \in SUBSET Boards
    PROVE  Fits(Parse(v, ds, ws), v, ds)
<1>1. DOMAIN Parse(v, ds, ws) = v
    BY DEF Parse
<1>2. ASSUME NEW j \in v, Clear(j, ds), NEW wt \in SUBSET Boards
      PROVE  Parse(v, ds, ws)[j] = BoardsFor(j, ds, wt)
    BY <1>2, ClearIgnoresWriters DEF Parse, Views
<1> QED
    BY <1>1, <1>2 DEF Fits

(* A frame pushed is the last one on the wire.                             *)
LEMMA PushedIsLast ==
    ASSUME TypeOK, NEW frame \in Frame, Push(frame), conn = "open"
    PROVE  /\ wire' # <<>> /\ wire'[Len(wire')] = frame
           /\ Len(wire') \in 1..Len(wire')
<1>1. wire \in Seq(Frame) /\ wire' = Append(wire, frame)
    BY DEF TypeOK, Push
<1> QED
    BY <1>1

(* Once the subscriber has taken a frame that parses, the ones behind it   *)
(* are still to be read, and the last of the wire is still the last.       *)
LEMMA TakenLeavesTheRest ==
    ASSUME TypeOK, wire # <<>>, Head(wire).sound, wire' = Tail(wire)
    PROVE  /\ Unread => Unread'
           /\ wire' = <<>> => Head(wire) = wire[Len(wire)]
           /\ wire' # <<>> => wire'[Len(wire')] = wire[Len(wire)]
<1>1. wire \in Seq(Frame) /\ Len(wire) \in Nat /\ Len(wire) > 0
    BY DEF TypeOK
<1>2. /\ Head(wire) = wire[1] /\ Len(wire') = Len(wire) - 1
      /\ \A i \in 1..Len(wire') : wire'[i] = wire[i + 1]
    BY <1>1
<1>3. ASSUME Unread PROVE Unread'
  <2>1. PICK i \in 1..Len(wire) : ~wire[i].sound
      BY <1>3 DEF Unread
  <2>2. i # 1
      BY <1>2, <2>1
  <2>3. i - 1 \in 1..Len(wire') /\ wire'[i - 1] = wire[i]
      BY <1>1, <1>2, <2>1, <2>2
  <2> QED
      BY <2>1, <2>3 DEF Unread
<1>4. ASSUME wire' = <<>> PROVE Head(wire) = wire[Len(wire)]
    BY <1>1, <1>2, <1>4
<1>5. ASSUME wire' # <<>> PROVE wire'[Len(wire')] = wire[Len(wire)]
  <2>1. wire' \in Seq(Frame) /\ Len(wire') > 0
      BY <1>1, <1>5
  <2> QED
      BY <1>1, <1>2, <2>1
<1> QED
    BY <1>3, <1>4, <1>5

(* The link starts so.                                                     *)
LEMMA InitLinkInv == Init => LinkInv
<1> SUFFICES ASSUME Init PROVE LinkInv
    OBVIOUS
<1>1. TypeOK
    BY InitType
<1>2. Carried /\ Matched /\ Held
    BY DEF Init, Carried, Matched, Held, Unreadable
<1> QED
    BY <1>1, <1>2 DEF LinkInv

(* A step that leaves what the handlers hold and what was stored, and what *)
(* the subscriber is about to store, keeps all in order.                   *)
LEMMA HoldingsKept ==
    ASSUME LinkInv,
           UNCHANGED <<handler, view, dirs>>,
           snapshot'.jobs = snapshot.jobs,
           pc' = "store" => pc = "store" /\ UNCHANGED <<got, draft>>
    PROVE  Matched' /\ Held'
BY DEF LinkInv, Matched, Held, Unrefreshed, handler

(* Nothing is on the way once the socket is closed or shut.                *)
LEMMA ClosedCarriesNothing ==
    ASSUME conn' # "open" PROVE Carried'
BY DEF Carried

(* Every step but the crossing of a refresh keeps this.                    *)
LEMMA NextLinkInv ==
    ASSUME LinkInv, ~Tangled, ~Tangled', [Next]_vars
    PROVE  LinkInv'
<1>t. TypeOK /\ TypeOK' /\ Carried /\ Matched /\ Held
    BY NextType DEF LinkInv
<1>s. \A v \in Views : StatusFrame(v) \in Frame
    BY DEF Frame, StatusFrame
<1> USE DEF subscriber, handler, daemon
<1>1. CASE Change
  <2>1. PICK v \in Views : queue' = v /\ Push(StatusFrame(v))
      BY <1>1 DEF Change
  <2>2. Carried'
      BY <1>1, <1>s, <1>t, <2>1, PushedIsLast DEF Change, Carried
  <2>3. Matched' /\ Held'
      BY <1>1, HoldingsKept DEF Change
  <2> QED
      BY <1>t, <2>2, <2>3 DEF LinkInv
<1>2. CASE SendFault
  <2>1. Unreadable \in Frame /\ ~Unreadable.sound
      BY DEF Frame, Unreadable, Views
  <2>2. Unread'
      BY <1>2, <1>t, <2>1, PushedIsLast DEF SendFault, Unread
  <2>3. Matched' /\ Held'
      BY <1>2, HoldingsKept DEF SendFault
  <2> QED
      BY <1>2, <1>t, <2>2, <2>3 DEF SendFault, LinkInv, Carried
<1>3. CASE GoDown
  <2>1. Matched' /\ Held'
      BY <1>3, HoldingsKept DEF GoDown
  <2> QED
      BY <1>3, <1>t, <2>1, ClosedCarriesNothing DEF LinkInv, GoDown
<1>4. CASE ComeUp
  <2>1. Matched' /\ Held'
      BY <1>4, HoldingsKept DEF ComeUp
  <2> QED
      BY <1>4, <1>t, <2>1, ClosedCarriesNothing DEF LinkInv, ComeUp, Carried
<1>5. ASSUME NEW j \in Jobs, Cancel(j) PROVE LinkInv'
  <2>1. queue \ {j} \in Views
      BY <1>t DEF TypeOK, Views
  <2>2. Carried'
      BY <1>5, <1>s, <1>t, <2>1, PushedIsLast DEF Cancel, Carried
  <2>3. Matched' /\ Held'
      BY <1>5, HoldingsKept DEF Cancel
  <2> QED
      BY <1>t, <2>2, <2>3 DEF LinkInv
<1>6. CASE Connect
  <2>1. CASE up
    <3>1. wire' = <<StatusFrame(queue)>> /\ UNCHANGED <<queue, up>>
        BY <1>6, <2>1 DEF Connect
    <3>2. wire' # <<>> /\ wire'[Len(wire')] = StatusFrame(queue')
        BY <3>1
    <3>3. Matched' /\ Held'
        BY <1>6, <2>1, HoldingsKept DEF Connect
    <3> QED
        BY <1>t, <2>1, <3>1, <3>2, <3>3 DEF LinkInv, Carried
  <2>2. CASE ~up
    <3>1. Degrade /\ UNCHANGED <<view, handler, dirs>>
        BY <1>6, <2>2 DEF Connect
    <3>2. snapshot'.jobs = snapshot.jobs /\ pc' = "wait" /\ conn' = "none"
        BY <1>t, <3>1 DEF Degrade, TypeOK
    <3> QED
        BY <1>t, <3>1, <3>2, HoldingsKept, ClosedCarriesNothing DEF LinkInv
  <2> QED
      BY <2>1, <2>2
<1>7. CASE Check
  <2>1. Matched' /\ Held'
      BY <1>7, HoldingsKept DEF Check
  <2>2. CASE stop
      BY <1>7, <1>t, <2>1, <2>2, ClosedCarriesNothing DEF LinkInv, Check
  <2>3. CASE ~stop
      BY <1>7, <1>t, <2>1, <2>3 DEF LinkInv, Check, Carried, Unread
  <2> QED
      BY <2>2, <2>3
<1>8. CASE Recv
  <2>1. CASE /\ wire # <<>> /\ Head(wire).sound
             /\ got' = Head(wire).view /\ wire' = Tail(wire)
             /\ pc' = "parse"
             /\ UNCHANGED <<conn, snapshot>>
    <3>1. Matched' /\ Held'
        BY <1>8, <2>1, HoldingsKept DEF Recv
    <3>2. /\ Unread => Unread'
          /\ wire' = <<>> => Head(wire) = wire[Len(wire)]
          /\ wire' # <<>> => wire'[Len(wire')] = wire[Len(wire)]
        BY <1>t, <2>1, TakenLeavesTheRest
    <3>3. Carried'
        BY <1>8, <1>t, <2>1, <3>2 DEF Recv, Carried, StatusFrame
    <3> QED
        BY <1>t, <3>1, <3>3 DEF LinkInv
  <2>2. CASE /\ wire = <<>> /\ conn = "open" /\ pc' = "check"
             /\ UNCHANGED <<got, conn, wire, snapshot>>
    <3>1. Matched' /\ Held'
        BY <1>8, <2>2, HoldingsKept DEF Recv
    <3>2. Carried'
        BY <1>8, <1>t, <2>2 DEF Recv, Carried, Unread
    <3> QED
        BY <1>t, <3>1, <3>2 DEF LinkInv
  <2>3. CASE Degrade
    <3>1. snapshot'.jobs = snapshot.jobs /\ pc' = "wait" /\ conn' = "none"
        BY <1>t, <2>3 DEF Degrade, TypeOK
    <3>2. Matched' /\ Held'
        BY <1>8, <3>1, HoldingsKept DEF Recv
    <3> QED
        BY <1>t, <3>1, <3>2, ClosedCarriesNothing DEF LinkInv
  <2> QED
      BY <1>8, <2>1, <2>2, <2>3 DEF Recv
<1>9. CASE ParseView
  <2>1. Fits(draft', got', dirs')
      BY <1>9, <1>t, ParseFits DEF ParseView, TypeOK
  <2>2. Matched' /\ Held'
      BY <1>9, <1>t, <2>1 DEF ParseView, Matched, Held, Unrefreshed
  <2>3. Carried'
      BY <1>9, <1>t DEF ParseView, Carried, Unread
  <2> QED
      BY <1>t, <2>2, <2>3 DEF LinkInv
<1>10. CASE StoreView
  <2>1. \A h \in Handlers : hpc[h] = "idle"
      BY <1>10 DEF StoreView, Tangled
  <2>2. snapshot' = [connected |-> TRUE, jobs |-> draft] /\ view' = StatusFrame(got)
      BY <1>10 DEF StoreView, Stored
  <2>3. Fits(draft, got, dirs)
      BY <1>10, <1>t DEF StoreView, Held
  <2>4. Matched'
      BY <1>10, <2>2, <2>3 DEF StoreView, Matched, StatusFrame, Fits
  <2>5. Held'
      BY <1>10, <2>1 DEF StoreView, Held
  <2>6. Carried'
      BY <1>10, <1>t, <2>2 DEF StoreView, Carried, Unread
  <2> QED
      BY <1>t, <2>4, <2>5, <2>6 DEF LinkInv
<1>11. CASE Exit
  <2>1. Matched' /\ Held'
      BY <1>11, HoldingsKept DEF Exit
  <2> QED
      BY <1>11, <1>t, <2>1, ClosedCarriesNothing DEF LinkInv, Exit, TypeOK
<1>12. CASE Shutdown
  <2>1. Matched' /\ Held'
      BY <1>12, HoldingsKept DEF Shutdown
  <2> QED
      BY <1>12, <1>t, <2>1, ClosedCarriesNothing DEF LinkInv, Shutdown
<1>13. CASE Shift
  <2>1. Matched' /\ Held'
      BY <1>13, HoldingsKept DEF Shift
  <2> QED
      BY <1>13, <1>t, <2>1 DEF LinkInv, Shift, Carried, Unread
<1>14. ASSUME NEW h \in Handlers, Reload(h) PROVE LinkInv'
  <2>1. hpc' = [hpc EXCEPT ![h] = "loaded"] /\ hpc'[h] = "loaded"
      BY <1>14, <1>t DEF Reload, TypeOK
  <2>2. pc' # "store" /\ \A i \in Handlers \ {h} : hpc'[i] = "idle"
      BY <2>1 DEF Tangled
  <2>3. Matched'
      BY <1>14, <1>t, <2>1 DEF Reload, Matched, Unrefreshed
  <2>4. Held'
      BY <2>1, <2>2 DEF Held
  <2>5. Carried'
      BY <1>14, <1>t DEF Reload, Carried, Unread
  <2> QED
      BY <1>t, <2>3, <2>4, <2>5 DEF LinkInv
<1>15. ASSUME NEW h \in Handlers, ReadView(h) PROVE LinkInv'
  <2>1. pc # "store" /\ \A i \in Handlers \ {h} : hpc[i] = "idle"
      BY <1>15 DEF ReadView, Tangled
  <2>2. Carried'
      BY <1>15, <1>t DEF ReadView, Carried, Unread
  <2>3. CASE view.sound
    <3>1. hpc' = [hpc EXCEPT ![h] = "parse"] /\ hview' = [hview EXCEPT ![h] = view.view]
        BY <1>15, <2>3 DEF ReadView
    <3>2. hpc'[h] = "parse" /\ hview'[h] = view.view
        BY <1>t, <3>1 DEF TypeOK
    <3>3. \A i \in Handlers \ {h} : hpc'[i] = "idle"
        BY <1>t, <2>1, <3>1 DEF TypeOK
    <3>4. view = StatusFrame(view.view)
        BY <1>t, <2>3 DEF TypeOK, Frame, StatusFrame
    <3>5. Matched'
        BY <1>15, <1>t, <3>2 DEF ReadView, Matched, Unrefreshed
    <3>6. Held'
        BY <1>15, <2>1, <3>2, <3>3, <3>4 DEF ReadView, Held
    <3> QED
        BY <1>t, <2>2, <3>5, <3>6 DEF LinkInv
  <2>4. CASE ~view.sound
    <3>1. \A i \in Handlers : hpc'[i] = "idle"
        BY <1>15, <1>t, <2>1, <2>4 DEF ReadView, TypeOK
    <3>2. Matched' /\ Held'
        BY <1>15, <2>1, <2>4, <3>1 DEF ReadView, Matched, Held
    <3> QED
        BY <1>t, <2>2, <3>2 DEF LinkInv
  <2> QED
      BY <2>3, <2>4
<1>16. ASSUME NEW h \in Handlers, Reparse(h) PROVE LinkInv'
  <2>1. pc # "store" /\ \A i \in Handlers \ {h} : hpc[i] = "idle"
      BY <1>16 DEF Reparse, Tangled
  <2>2. /\ hpc'[h] = "store" /\ hview'[h] = hview[h]
        /\ hdraft'[h] = Parse(hview[h], dirs, writing)
        /\ \A i \in Handlers \ {h} : hpc'[i] = "idle"
      BY <1>16, <1>t, <2>1 DEF Reparse, TypeOK
  <2>3. Fits(hdraft'[h], hview'[h], dirs')
      BY <1>16, <1>t, <2>2, ParseFits DEF Reparse, TypeOK
  <2>4. view' = StatusFrame(hview'[h])
      BY <1>16, <1>t, <2>2 DEF Reparse, Held
  <2>5. Held'
      BY <1>16, <2>1, <2>2, <2>3, <2>4 DEF Reparse, Held
  <2>6. Matched'
      BY <1>16, <1>t, <2>2 DEF Reparse, Matched, Unrefreshed
  <2>7. Carried'
      BY <1>16, <1>t DEF Reparse, Carried, Unread
  <2> QED
      BY <1>t, <2>5, <2>6, <2>7 DEF LinkInv
<1>17. ASSUME NEW h \in Handlers, Restore(h) PROVE LinkInv'
  <2>1. pc # "store" /\ \A i \in Handlers \ {h} : hpc[i] = "idle"
      BY <1>17 DEF Restore, Tangled
  <2>2. \A i \in Handlers : hpc'[i] = "idle"
      BY <1>17, <1>t, <2>1 DEF Restore, TypeOK
  <2>3. view = StatusFrame(hview[h]) /\ Fits(hdraft[h], hview[h], dirs)
      BY <1>17, <1>t DEF Restore, Held
  <2>4. snapshot' = [connected |-> TRUE, jobs |-> hdraft[h]] /\ view' = view
      BY <1>17, <2>3 DEF Restore, Stored
  <2>5. view.view = hview[h]
      BY <2>3 DEF StatusFrame
  <2>6. Matched'
      BY <1>17, <2>3, <2>4, <2>5 DEF Restore, Matched, Fits
  <2>7. Held'
      BY <1>17, <2>1, <2>2 DEF Restore, Held
  <2>8. Carried'
      BY <1>17, <1>t, <2>4 DEF Restore, Carried, Unread
  <2> QED
      BY <1>t, <2>6, <2>7, <2>8 DEF LinkInv
<1>18. CASE UNCHANGED vars
    BY <1>18, <1>t, HoldingsKept DEF vars, LinkInv, Carried, Unread
<1> QED
    BY <1>1, <1>2, <1>3, <1>4, <1>5, <1>6, <1>7, <1>8, <1>9, <1>10, <1>11, <1>12,
       <1>13, <1>14, <1>15, <1>16, <1>17, <1>18 DEF Next

(* Where the session is drained, the snapshot is the daemon's queue.       *)
LEMMA DrainedFollows == LinkInv /\ Drained => Follows
<1> SUFFICES ASSUME LinkInv, Drained PROVE Follows
    OBVIOUS
<1>1. wire = <<>> /\ pc \in {"check", "recv"} /\ ~Unrefreshed /\ ~Unread
    BY DEF Drained, Unrefreshed, Unread
<1>2. view = StatusFrame(queue) /\ snapshot.connected
    BY <1>1 DEF LinkInv, Carried, Drained
<1>3. Fits(snapshot.jobs, queue, dirs)
    BY <1>1, <1>2 DEF LinkInv, Matched, StatusFrame
<1>4. dirs \in SUBSET Boards /\ writing \in SUBSET Boards
    BY DEF LinkInv, TypeOK
<1> QED
    BY <1>2, <1>3, <1>4 DEF Follows, Fits, Settled, Clear

(* Whatever the daemon sends and however often it goes away, a session     *)
(* that has read and stored what it was sent shows the daemon's queue at   *)
(* the boards of the registry in force, unless a refresh crossed another   *)
(* one or a store (queue.py's _absorb and refresh).                        *)
THEOREM DrainedIsCaughtUp == Spec => CaughtUp
<1>1. Init => LinkInv
    BY InitLinkInv
<1>2. LinkInv /\ ~Tangled /\ (~Tangled)' /\ [Next]_vars => LinkInv'
    BY NextLinkInv
<1>3. LinkInv => (Drained => Follows)
    BY DrainedFollows
<1> QED
    BY <1>1, <1>2, <1>3, PTL DEF Spec, CaughtUp
=============================================================================
