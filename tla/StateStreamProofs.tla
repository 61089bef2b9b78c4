-------------------------- MODULE StateStreamProofs --------------------------
(***************************************************************************)
(* Proofs about StateStream: its type invariant, and that no dashboard is  *)
(* set back behind the frame it was opened with, for any number of         *)
(* dashboards, any capacity and any number of changes.                     *)
(***************************************************************************)
EXTENDS StateStream, TLAPS

(* The snapshot only ever grows: it is not ahead of what is true, and a    *)
(* sample that waits for the lock is not behind it.                        *)
Forward ==
    \A src \in Sampled :
        /\ snapshot[src] <= truth[src]
        /\ pc["supervisor"] = "sampled" =>
             snapshot[src] <= fresh[src] /\ fresh[src] <= truth[src]

(* A channel that was never opened has nothing in it or on the way.        *)
Untouched ==
    \A k \in Channels \ (open \cup closed) :
        /\ chan[k] = <<>> /\ shown[k] = NoFrame
        /\ \A t \in Threads : k \notin mail[t].to

(* Whatever is encoded now is no older than the frame k was opened with.   *)
Caught ==
    \A k \in open \cup closed : NotOlder(Encode(snapshot), first[k])

IInv == TypeOK /\ Forward /\ Untouched /\ Caught /\ StartsFresh

-----------------------------------------------------------------------------
(* A frame of a snapshot is a frame.                                       *)
LEMMA EncodeType ==
    ASSUME truth \in Frame, NEW s \in Snapshot
    PROVE  Encode(s) \in Frame
BY StreamAssumption DEF Encode, Frame, Snapshot, Sources, Sampled

(* What is true now, sampled, is a snapshot.                               *)
LEMMA StatusType ==
    ASSUME truth \in Frame
    PROVE  Status \in Snapshot
BY StreamAssumption DEF Status, Frame, Snapshot, Sources, Sampled

(* Sending keeps the types of what it assigns.                             *)
LEMMA SendType ==
    ASSUME TypeOK, NEW t \in Threads, NEW s \in Snapshot, Send(t, s)
    PROVE  /\ due' \in BOOLEAN
           /\ mail' \in [Threads -> [frame: Frame, to: SUBSET Channels]]
           /\ pc' \in [Threads -> {"idle", "sampled", "changed", "sends"}]
BY EncodeType DEF TypeOK, Send

(* The stream starts in its types.                                         *)
LEMMA InitType == Init => TypeOK
<1> SUFFICES ASSUME Init PROVE TypeOK
    OBVIOUS
<1>1. Blank \in Frame /\ Unsampled \in Snapshot
    BY StreamAssumption DEF Blank, Unsampled, Frame, Snapshot
<1>2. NoMail \in [frame: Frame, to: SUBSET Channels]
    BY <1>1 DEF NoMail
<1>3. <<>> \in Seq(Frame) /\ Len(<<>>) <= Capacity
    BY StreamAssumption
<1>4. /\ chan \in [Channels -> Seq(Frame)]
      /\ \A k \in Channels : Len(chan[k]) <= Capacity
    BY <1>3 DEF Init
<1> QED
    BY <1>1, <1>2, <1>4 DEF Init, TypeOK

(* Every step keeps the types.                                             *)
LEMMA NextType == TypeOK /\ [Next]_vars => TypeOK'
<1> SUFFICES ASSUME TypeOK, [Next]_vars PROVE TypeOK'
    OBVIOUS
<1> USE DEF thread, channel
<1>b. Blank \in Frame /\ Unsampled \in Snapshot
    BY StreamAssumption DEF Blank, Unsampled, Frame, Snapshot
<1>a. ASSUME NEW src \in Sources, Advance(src)
      PROVE  truth' \in Frame
    BY <1>a, StreamAssumption DEF TypeOK, Advance, Frame
<1>1. ASSUME NEW src \in {"boards", "minor"}, Tick(src) PROVE TypeOK'
    BY <1>1, <1>a DEF TypeOK, Tick, Sources, Sampled
<1>2. ASSUME NEW t \in Publishers, NEW announce \in BOOLEAN, Learn(t, announce)
      PROVE  TypeOK'
    BY <1>2, <1>a DEF TypeOK, Learn, Source, Sources, Sampled, Publishers, Threads
<1>3. CASE Elapse
    BY <1>3 DEF TypeOK, Elapse
<1>4. CASE Sample
    BY <1>4, StatusType DEF TypeOK, Sample
<1>5. ASSUME NEW force \in BOOLEAN, Store(force) PROVE TypeOK'
  <2>1. fresh \in Snapshot /\ "supervisor" \in Threads
      BY DEF TypeOK, Threads
  <2>2. CASE Changed(force)
      BY <1>5, <1>b, <2>1, <2>2, SendType DEF TypeOK, Store
  <2>3. CASE ~Changed(force)
      BY <1>5, <1>b, <2>1, <2>3 DEF TypeOK, Store
  <2> QED
      BY <2>2, <2>3
<1>6. ASSUME NEW t \in Publishers, Publish(t) PROVE TypeOK'
    BY <1>6, SendType DEF TypeOK, Publish, Threads
<1>7. ASSUME NEW t \in Threads, NEW k \in Channels, Deliver(t, k) PROVE TypeOK'
  <2>1. mail' \in [Threads -> [frame: Frame, to: SUBSET Channels]]
      BY <1>7 DEF TypeOK, Deliver
  <2>2. mail[t].frame \in Frame /\ chan[k] \in Seq(Frame) /\ Len(chan[k]) <= Capacity
      BY DEF TypeOK
  <2>3. /\ Put(chan[k], mail[t].frame) \in Seq(Frame)
        /\ Len(Put(chan[k], mail[t].frame)) <= Capacity
      BY <2>2, StreamAssumption DEF Put
  <2>4. /\ chan' \in [Channels -> Seq(Frame)]
        /\ \A j \in Channels : Len(chan'[j]) <= Capacity
      BY <1>7, <2>3 DEF TypeOK, Deliver
  <2> QED
      BY <1>7, <2>1, <2>4 DEF TypeOK, Deliver
<1>8. ASSUME NEW t \in Threads, Sent(t) PROVE TypeOK'
    BY <1>8, <1>b DEF TypeOK, Sent, NoMail
<1>9. ASSUME NEW k \in Channels, Subscribe(k) PROVE TypeOK'
  <2>1. FirstFrame \in Frame
      BY EncodeType DEF TypeOK, FirstFrame
  <2>2. <<FirstFrame>> \in Seq(Frame) /\ Len(<<FirstFrame>>) <= Capacity
      BY <2>1, StreamAssumption
  <2> QED
      BY <1>9, <2>1, <2>2 DEF TypeOK, Subscribe
<1>10. ASSUME NEW k \in Channels, Read(k) PROVE TypeOK'
  <2>1. chan[k] \in Seq(Frame) /\ chan[k] # <<>>
      BY <1>10 DEF TypeOK, Read
  <2>2. /\ Head(chan[k]) \in Frame /\ Tail(chan[k]) \in Seq(Frame)
        /\ Len(Tail(chan[k])) <= Capacity
      BY <2>1, StreamAssumption DEF TypeOK
  <2> QED
      BY <1>10, <2>2 DEF TypeOK, Read
<1>11. ASSUME NEW k \in Channels, Unsubscribe(k) PROVE TypeOK'
    BY <1>11 DEF TypeOK, Unsubscribe
<1>12. CASE UNCHANGED vars
    BY <1>12 DEF TypeOK, vars
<1> QED
    BY <1>1, <1>2, <1>3, <1>4, <1>5, <1>6, <1>7, <1>8, <1>9, <1>10, <1>11,
       <1>12 DEF Next

(* The stream never leaves its types, whatever the dashboards and the      *)
(* sending threads do.                                                     *)
THEOREM StreamTypeCorrect == Spec => []TypeOK
BY InitType, NextType, PTL DEF Spec

-----------------------------------------------------------------------------
(* Comparing frames: no frame is older than itself, and "not older" is     *)
(* transitive.                                                             *)
LEMMA NotOlderTransitive ==
    ASSUME NEW f \in Frame, NEW g \in Frame, NEW h \in Frame,
           NotOlder(f, g), NotOlder(g, h)
    PROVE  NotOlder(f, h)
BY StreamAssumption DEF NotOlder, Frame

(* A frame of a later snapshot, with the queue as it is later, is no older.*)
LEMMA EncodeForward ==
    ASSUME TypeOK, TypeOK',
           \A src \in Sampled : snapshot[src] <= snapshot'[src],
           truth["queue"] <= truth'["queue"],
           NEW f \in Frame, NotOlder(Encode(snapshot), f)
    PROVE  NotOlder(Encode(snapshot)', f)
BY StreamAssumption DEF TypeOK, NotOlder, Encode, Frame, Snapshot, Sources, Sampled

(* The strengthened invariant holds before anyone subscribes.              *)
LEMMA InitIInv == Init => IInv
<1> SUFFICES ASSUME Init PROVE IInv
    OBVIOUS
<1>1. TypeOK
    BY InitType
<1>2. Forward
    BY DEF Init, Forward, Blank, Unsampled, Sources, Sampled, Threads
<1>3. Untouched
    BY DEF Init, Untouched, NoMail
<1>4. Caught
    BY DEF Init, Caught
<1>5. StartsFresh
    BY DEF Init, StartsFresh, NoMail
<1> QED
    BY <1>1, <1>2, <1>3, <1>4, <1>5 DEF IInv

(* No source is set back, and the stored snapshot never is: only the       *)
(* supervisor's thread stores, in the order it sampled.                    *)
LEMMA NextForward ==
    IInv /\ [Next]_vars => /\ Forward'
                           /\ \A src \in Sampled : snapshot[src] <= snapshot'[src]
                           /\ truth["queue"] <= truth'["queue"]
<1> DEFINE Grows == /\ Forward'
                    /\ \A src \in Sampled : snapshot[src] <= snapshot'[src]
                    /\ truth["queue"] <= truth'["queue"]
<1> SUFFICES ASSUME IInv, [Next]_vars PROVE Grows
    OBVIOUS
<1> USE StreamAssumption DEF thread, channel
<1>t. /\ truth \in [Sources -> Nat]
      /\ snapshot \in [Sampled -> Nat] /\ fresh \in [Sampled -> Nat]
      /\ pc \in [Threads -> {"idle", "sampled", "changed", "sends"}]
      /\ "supervisor" \in Threads /\ "supervisor" \notin Publishers
      /\ Sampled \subseteq Sources /\ "queue" \in Sources
    BY DEF IInv, TypeOK, Frame, Snapshot, Threads, Publishers, Sources, Sampled
<1>f. Forward
    BY DEF IInv
<1>a. ASSUME NEW src \in Sources, Advance(src)
      PROVE  \A s \in Sources : truth[s] <= truth'[s] /\ truth'[s] \in Nat
    BY <1>a, <1>t DEF Advance
<1>s. ASSUME pc'["supervisor"] = pc["supervisor"], UNCHANGED <<snapshot, fresh>>,
             \A s \in Sources : truth[s] <= truth'[s] /\ truth'[s] \in Nat
      PROVE  Grows
    BY <1>s, <1>t, <1>f DEF Forward
<1>u. \A s \in Sources : truth[s] <= truth[s] /\ truth[s] \in Nat
    BY <1>t
<1>1. ASSUME NEW src \in {"boards", "minor"}, Tick(src) PROVE Grows
    BY <1>1, <1>a, <1>s DEF Tick, Sources, Sampled
<1>2. ASSUME NEW t \in Publishers, NEW announce \in BOOLEAN, Learn(t, announce)
      PROVE  Grows
  <2>1. pc'["supervisor"] = pc["supervisor"]
      BY <1>2, <1>t DEF Learn
  <2>2. Source(t) \in Sources
      BY DEF Source, Sources, Sampled
  <2> QED
      BY <1>2, <2>1, <2>2, <1>a, <1>s DEF Learn
<1>3. CASE Elapse
    BY <1>3, <1>s, <1>u DEF Elapse
<1>4. CASE Sample
    BY <1>4, <1>t, <1>f DEF Sample, Forward, Status
<1>5. ASSUME NEW force \in BOOLEAN, Store(force) PROVE Grows
  <2>1. /\ pc["supervisor"] = "sampled" /\ snapshot' = fresh
        /\ pc'["supervisor"] # "sampled" /\ truth' = truth
      BY <1>5, <1>t DEF Store, Send
  <2> QED
      BY <2>1, <1>t, <1>f DEF Forward
<1>6. ASSUME NEW t \in Publishers, Publish(t) PROVE Grows
  <2>1. pc'["supervisor"] = pc["supervisor"]
      BY <1>6, <1>t DEF Publish, Send
  <2> QED
      BY <1>6, <2>1, <1>s, <1>u DEF Publish
<1>7. ASSUME NEW t \in Threads, NEW k \in Channels, Deliver(t, k) PROVE Grows
    BY <1>7, <1>s, <1>u DEF Deliver
<1>8. ASSUME NEW t \in Threads, Sent(t) PROVE Grows
  <2>1. /\ truth' = truth /\ snapshot' = snapshot /\ fresh' = fresh
        /\ pc'["supervisor"] = "sampled" => pc["supervisor"] = "sampled"
      BY <1>8, <1>t DEF Sent
  <2> QED
      BY <2>1, <1>t, <1>f DEF Forward
<1>9. ASSUME NEW k \in Channels, Subscribe(k) \/ Read(k) \/ Unsubscribe(k)
      PROVE  Grows
    BY <1>9, <1>s, <1>u DEF Subscribe, Read, Unsubscribe
<1>10. CASE UNCHANGED vars
    BY <1>10, <1>s, <1>u DEF vars
<1> QED
    BY <1>1, <1>2, <1>3, <1>4, <1>5, <1>6, <1>7, <1>8, <1>9, <1>10 DEF Next

(* What a thread encodes goes to subscribers whose first frame it does not *)
(* fall behind.                                                            *)
LEMMA SendFresh ==
    ASSUME IInv, TypeOK', NEW t \in Threads, NEW s \in Snapshot, Send(t, s),
           UNCHANGED channel, truth' = truth,
           \A src \in Sampled : snapshot[src] <= s[src]
    PROVE  StartsFresh' /\ Untouched'
<1> USE StreamAssumption DEF channel
<1>t. truth \in Frame /\ snapshot \in Snapshot /\ Encode(s) \in Frame
      /\ open \subseteq Channels /\ first \in [Channels -> Frame]
      /\ mail \in [Threads -> [frame: Frame, to: SUBSET Channels]]
    BY EncodeType DEF IInv, TypeOK
<1>1. \A k \in open : NotOlder(Encode(s), first[k])
    BY <1>t DEF IInv, Caught, NotOlder, Encode, Frame, Snapshot, Sources, Sampled
<1>2. mail' = [mail EXCEPT ![t] = [frame |-> Encode(s), to |-> open]]
    BY DEF Send
<1>3. \A u \in Threads, k \in Channels :
         k \in mail'[u].to => NotOlder(mail'[u].frame, first[k])
  <2> SUFFICES ASSUME NEW u \in Threads, NEW k \in Channels, k \in mail'[u].to
               PROVE  NotOlder(mail'[u].frame, first[k])
      OBVIOUS
  <2>1. CASE u = t
      BY <1>t, <1>1, <1>2, <2>1
  <2>2. CASE u # t
      BY <1>t, <1>2, <2>2 DEF IInv, StartsFresh
  <2> QED
      BY <2>1, <2>2
<1>4. \A u \in Threads, k \in Channels \ (open \cup closed) : k \notin mail'[u].to
    BY <1>t, <1>2 DEF IInv, Untouched
<1> QED
    BY <1>3, <1>4 DEF IInv, StartsFresh, Untouched

(* Every step keeps the strengthened invariant.                            *)
LEMMA NextIInv == IInv /\ [Next]_vars => IInv'
<1> SUFFICES ASSUME IInv, [Next]_vars PROVE IInv'
    OBVIOUS
<1> USE StreamAssumption DEF thread, channel
<1>t. TypeOK /\ TypeOK'
    BY NextType DEF IInv
<1>f. /\ Forward'
      /\ \A src \in Sampled : snapshot[src] <= snapshot'[src]
      /\ truth["queue"] <= truth'["queue"]
    BY NextForward
<1>c. ASSUME UNCHANGED <<open, closed, first>> PROVE Caught'
  <2> SUFFICES ASSUME NEW k \in open \cup closed
               PROVE  NotOlder(Encode(snapshot)', first[k])
      BY <1>c DEF Caught
  <2>1. first[k] \in Frame /\ NotOlder(Encode(snapshot), first[k])
      BY <1>t DEF IInv, Caught, TypeOK
  <2> QED
      BY <1>t, <1>f, <2>1, EncodeForward
<1>k. ASSUME UNCHANGED <<mail, channel>> PROVE Caught' /\ Untouched' /\ StartsFresh'
  <2>1. Untouched'
      BY <1>k DEF IInv, Untouched
  <2>2. StartsFresh'
      BY <1>k DEF IInv, StartsFresh, NotOlder
  <2> QED
      BY <1>k, <1>c, <2>1, <2>2
<1>1. ASSUME NEW src \in {"boards", "minor"}, Tick(src)
      PROVE  Caught' /\ Untouched' /\ StartsFresh'
    BY <1>1, <1>k DEF Tick
<1>2. ASSUME NEW t \in Publishers, NEW announce \in BOOLEAN, Learn(t, announce)
      PROVE  Caught' /\ Untouched' /\ StartsFresh'
    BY <1>2, <1>k DEF Learn
<1>3. ASSUME Elapse \/ Sample PROVE Caught' /\ Untouched' /\ StartsFresh'
    BY <1>3, <1>k DEF Elapse, Sample
<1>5. ASSUME NEW force \in BOOLEAN, Store(force)
      PROVE  Caught' /\ Untouched' /\ StartsFresh'
  <2>1. CASE Changed(force)
    <3>1. fresh \in Snapshot /\ \A src \in Sampled : snapshot[src] <= fresh[src]
        BY <1>5, <1>t, <1>f DEF Store, TypeOK
    <3>2. StartsFresh' /\ Untouched'
        BY <1>5, <2>1, <3>1, <1>t, SendFresh DEF Store, Threads
    <3> QED
        BY <1>5, <3>2, <1>c DEF Store
  <2>2. CASE ~Changed(force)
      BY <1>5, <2>2, <1>k DEF Store
  <2> QED
      BY <2>1, <2>2
<1>6. ASSUME NEW t \in Publishers, Publish(t)
      PROVE  Caught' /\ Untouched' /\ StartsFresh'
  <2>1. snapshot \in Snapshot /\ \A src \in Sampled : snapshot[src] <= snapshot[src]
      BY <1>t DEF TypeOK, Snapshot
  <2>2. StartsFresh' /\ Untouched'
      BY <1>6, <2>1, <1>t, SendFresh DEF Publish, Threads
  <2> QED
      BY <1>6, <2>2, <1>c DEF Publish
<1>7. ASSUME NEW t \in Threads, NEW k \in Channels, Deliver(t, k)
      PROVE  Caught' /\ Untouched' /\ StartsFresh'
  <2>t. /\ mail \in [Threads -> [frame: Frame, to: SUBSET Channels]]
        /\ chan \in [Channels -> Seq(Frame)]
        /\ mail[t].frame \in Frame /\ k \in mail[t].to
        /\ UNCHANGED <<open, closed, shown, first>>
      BY <1>7, <1>t DEF TypeOK, Deliver
  <2>1. \A u \in Threads : /\ mail'[u].frame = mail[u].frame
                           /\ mail'[u].to \subseteq mail[u].to
      BY <1>7, <2>t DEF Deliver
  <2>2. \A j \in Channels \ {k} : chan'[j] = chan[j]
      BY <1>7, <2>t DEF Deliver
  <2>3. chan'[k] = chan[k] \/ chan'[k] = Append(chan[k], mail[t].frame)
      BY <1>7, <2>t DEF Deliver, Put
  <2>4. k \in open \cup closed
      BY <2>t DEF IInv, Untouched
  <2>5. NotOlder(mail[t].frame, first[k])
      BY <2>t DEF IInv, StartsFresh
  <2>6. \A i \in 1 .. Len(chan'[k]) : NotOlder(chan'[k][i], first[k])
    <3>1. \A i \in 1 .. Len(chan[k]) : NotOlder(chan[k][i], first[k])
        BY DEF IInv, StartsFresh
    <3>2. CASE chan'[k] = Append(chan[k], mail[t].frame)
      <4>1. \A i \in 1 .. Len(chan'[k]) :
              \/ i \in 1 .. Len(chan[k]) /\ chan'[k][i] = chan[k][i]
              \/ chan'[k][i] = mail[t].frame
          BY <2>t, <3>2
      <4> QED
          BY <4>1, <3>1, <2>5
    <3> QED
        BY <2>3, <3>1, <3>2
  <2>7. StartsFresh'
      BY <2>t, <2>1, <2>2, <2>6 DEF IInv, StartsFresh
  <2>8. Untouched'
      BY <2>t, <2>1, <2>2, <2>4 DEF IInv, Untouched
  <2> QED
      BY <2>t, <2>7, <2>8, <1>c
<1>8. ASSUME NEW t \in Threads, Sent(t)
      PROVE  Caught' /\ Untouched' /\ StartsFresh'
  <2>1. \A u \in Threads : mail'[u].to = {} \/ mail'[u] = mail[u]
      BY <1>8, <1>t DEF Sent, NoMail, TypeOK
  <2>2. UNCHANGED channel
      BY <1>8 DEF Sent
  <2>3. StartsFresh'
      BY <2>1, <2>2 DEF IInv, StartsFresh, NotOlder
  <2>4. Untouched'
      BY <2>1, <2>2 DEF IInv, Untouched
  <2> QED
      BY <2>2, <2>3, <2>4, <1>c
<1>9. ASSUME NEW k \in Channels, Subscribe(k)
      PROVE  Caught' /\ Untouched' /\ StartsFresh'
  <2> DEFINE f == Encode(snapshot)
  <2>t. /\ f \in Frame /\ chan \in [Channels -> Seq(Frame)]
        /\ first \in [Channels -> Frame]
        /\ k \notin open \cup closed
        /\ UNCHANGED <<truth, snapshot, mail, closed, shown>>
        /\ open' = open \cup {k}
        /\ chan' = [chan EXCEPT ![k] = <<f>>]
        /\ first' = [first EXCEPT ![k] = f]
      BY <1>9, <1>t, EncodeType DEF TypeOK, Subscribe, FirstFrame
  <2>0. NotOlder(f, f) /\ Encode(snapshot)' = f
      BY <2>t DEF NotOlder, Frame, Encode
  <2> HIDE DEF f
  <2>1. /\ \A u \in Threads : k \notin mail[u].to
        /\ shown[k] = NoFrame
      BY <2>t DEF IInv, Untouched
  <2>2. \A j \in Channels \ {k} : chan'[j] = chan[j] /\ first'[j] = first[j]
      BY <2>t
  <2>3. chan'[k] = <<f>> /\ first'[k] = f
      BY <2>t
  <2>4. \A i \in 1 .. Len(chan'[k]) : NotOlder(chan'[k][i], first'[k])
      BY <2>0, <2>3
  <2>5. StartsFresh'
      BY <2>t, <2>1, <2>2, <2>4 DEF IInv, StartsFresh
  <2>6. Untouched'
      BY <2>t, <2>2 DEF IInv, Untouched
  <2>7. Caught'
    <3> SUFFICES ASSUME NEW j \in open' \cup closed'
                 PROVE  NotOlder(f, first'[j])
        BY <2>0 DEF Caught
    <3>1. CASE j = k
        BY <2>0, <2>3, <3>1
    <3>2. CASE j # k
        BY <2>t, <2>2, <3>2, <1>t DEF IInv, Caught, TypeOK, f
    <3> QED
        BY <3>1, <3>2
  <2> QED
      BY <2>5, <2>6, <2>7
<1>10. ASSUME NEW k \in Channels, Read(k)
       PROVE  Caught' /\ Untouched' /\ StartsFresh'
  <2>t. /\ chan \in [Channels -> Seq(Frame)] /\ chan[k] # <<>>
        /\ shown \in [Channels -> Frame \cup {NoFrame}]
        /\ shown' = [shown EXCEPT ![k] = Head(chan[k])]
        /\ chan' = [chan EXCEPT ![k] = Tail(@)]
        /\ UNCHANGED <<mail, open, closed, first>> /\ k \in open
      BY <1>10, <1>t DEF TypeOK, Read
  <2>1. \A j \in Channels \ {k} : chan'[j] = chan[j] /\ shown'[j] = shown[j]
      BY <2>t
  <2>2. shown'[k] = chan[k][1] /\ chan'[k] = Tail(chan[k]) /\ Len(chan[k]) >= 1
      BY <2>t
  <2>3. \A i \in 1 .. Len(chan[k]) : NotOlder(chan[k][i], first[k])
      BY DEF IInv, StartsFresh
  <2>4. /\ NotOlder(shown'[k], first[k])
        /\ \A i \in 1 .. Len(chan'[k]) : NotOlder(chan'[k][i], first[k])
      BY <2>t, <2>2, <2>3
  <2>5. StartsFresh'
      BY <2>t, <2>1, <2>4 DEF IInv, StartsFresh
  <2>6. Untouched'
      BY <2>t, <2>1 DEF IInv, Untouched
  <2> QED
      BY <2>t, <2>5, <2>6, <1>c
<1>11. ASSUME NEW k \in Channels, Unsubscribe(k)
       PROVE  Caught' /\ Untouched' /\ StartsFresh'
  <2>1. /\ UNCHANGED <<truth, snapshot, mail, chan, shown, first>>
        /\ open' \cup closed' = open \cup closed
      BY <1>11 DEF Unsubscribe
  <2> QED
      BY <2>1 DEF IInv, Caught, Untouched, StartsFresh, Encode
<1>12. ASSUME UNCHANGED vars PROVE Caught' /\ Untouched' /\ StartsFresh'
    BY <1>12, <1>k DEF vars
<1>13. ASSUME NEW k \in Channels, Subscribe(k) \/ Read(k) \/ Unsubscribe(k)
       PROVE  Caught' /\ Untouched' /\ StartsFresh'
    BY <1>9, <1>10, <1>11, <1>13
<1>14. Caught' /\ Untouched' /\ StartsFresh'
    BY <1>1, <1>2, <1>3, <1>5, <1>6, <1>7, <1>8, <1>12, <1>13 DEF Next
<1> QED
    BY <1>t, <1>f, <1>14 DEF IInv

(* No dashboard is ever set back behind the frame it was opened with,      *)
(* however the sends of the threads interleave (publish,                   *)
(* _refresh_snapshot and subscribe in supervisor.py).                      *)
THEOREM DashboardStartsFresh == Spec => []StartsFresh
<1>1. IInv => StartsFresh
    BY DEF IInv
<1> QED
    BY <1>1, InitIInv, NextIInv, PTL DEF Spec
=============================================================================
