----------------------------- MODULE StateStream -----------------------------
(***************************************************************************)
(* The state stream: how what the supervisor, the activity watcher and the *)
(* queue subscriber know reaches the dashboards (supervisor.py publish,    *)
(* _refresh_snapshot, subscribe; httpd.py _events).                        *)
(*                                                                         *)
(* The supervisor samples the boards without the lock, then stores the     *)
(* sample, decides whether to send and encodes it under the lock.  The     *)
(* watcher, the subscriber and the threads that reload the registry (they  *)
(* re-match the queue, subscriber.refresh) re-encode the last stored       *)
(* snapshot under the lock.  All of them put the frame into the channels   *)
(* after they released it, one channel at a time, so the puts of two       *)
(* threads interleave, and a full channel loses the new frame.             *)
(*                                                                         *)
(* What a frame tells is a version per source: "boards" stands for the     *)
(* fields _significant compares, the writing flags among them, "minor" for *)
(* the counters and times it ignores, "queue" for the queue.               *)
(***************************************************************************)
EXTENDS Naturals, Sequences, FiniteSets

CONSTANTS
    Channels,    \* the subscriptions that may be opened, each once
    Attentive,   \* those whose browser keeps reading
    Handlers,    \* the HTTP handlers, and the main thread, that reload the registry
    Capacity,    \* frames a channel holds (32 in the code)
    NoFrame,     \* a channel that has shown nothing yet
    MaxVersion   \* bound: changes of each source

ASSUME StreamAssumption ==
    /\ Attentive \subseteq Channels /\ IsFiniteSet(Channels)
    /\ Capacity \in Nat \ {0} /\ MaxVersion \in Nat
    /\ "supervisor" \notin Handlers /\ "watcher" \notin Handlers

Publishers == {"watcher", "subscriber"} \cup Handlers
Threads == {"supervisor"} \cup Publishers
Source(t) == IF t = "watcher" THEN "boards" ELSE "queue"
Sampled == {"boards", "minor"}
Sources == Sampled \cup {"queue"}

Frame == [Sources -> 0 .. MaxVersion]
Snapshot == [Sampled -> 0 .. MaxVersion]

ASSUME NoFrameAssumption == NoFrame \notin Frame

VARIABLES
    truth,      \* what each source knows now
    snapshot,   \* _snapshot
    due,        \* STATS_INTERVAL has passed since _last_publish
    pc,         \* where each thread is: "idle", "sampled", "changed" or "sends"
    fresh,      \* the supervisor's sample, while it is not stored
    mail,       \* the payload a thread encoded and the subscribers it listed
    open,       \* _subscribers
    closed,     \* the channels that were released
    chan,       \* the frames waiting in each channel
    shown,      \* the frame each dashboard read last
    first       \* history: the frame each channel was opened with

thread == <<pc, fresh, mail>>
channel == <<open, closed, chan, shown, first>>
vars == <<truth, snapshot, due, thread, channel>>

TypeOK ==
    /\ truth \in Frame
    /\ snapshot \in Snapshot
    /\ due \in BOOLEAN
    /\ pc \in [Threads -> {"idle", "sampled", "changed", "sends"}]
    /\ fresh \in Snapshot
    /\ mail \in [Threads -> [frame: Frame, to: SUBSET Channels]]
    /\ open \subseteq Channels
    /\ closed \subseteq Channels
    /\ chan \in [Channels -> Seq(Frame)]
    /\ \A k \in Channels : Len(chan[k]) <= Capacity
    /\ shown \in [Channels -> Frame \cup {NoFrame}]
    /\ first \in [Channels -> Frame]

Unsampled == [src \in Sampled |-> 0]
Blank == [src \in Sources |-> 0]
NoMail == [frame |-> Blank, to |-> {}]

Init ==
    /\ truth = Blank
    /\ snapshot = Unsampled /\ fresh = Unsampled
    /\ due = TRUE
    /\ pc = [t \in Threads |-> "idle"]
    /\ mail = [t \in Threads |-> NoMail]
    /\ open = {} /\ closed = {}
    /\ chan = [k \in Channels |-> <<>>]
    /\ shown = [k \in Channels |-> NoFrame]
    /\ first = [k \in Channels |-> Blank]

-----------------------------------------------------------------------------
(* Frames.                                                                 *)

Status == [src \in Sampled |-> truth[src]]

Significant(s) == s["boards"]

(* The boards come from the snapshot, the queue from the subscriber, live. *)
Encode(s) == [src \in Sources |-> IF src = "queue" THEN truth[src] ELSE s[src]]

(* Encode under the lock, for the subscribers of that moment.              *)
Send(t, s) ==
    /\ due' = FALSE
    /\ mail' = [mail EXCEPT ![t] = [frame |-> Encode(s), to |-> open]]
    /\ pc' = [pc EXCEPT ![t] = "sends"]

-----------------------------------------------------------------------------
(* The sources.  Boards and counters change on the supervisor's own        *)
(* thread, between two samples; writing flags also by the watcher, and by  *)
(* time alone, which nobody announces.                                     *)

Advance(src) ==
    /\ truth[src] < MaxVersion
    /\ truth' = [truth EXCEPT ![src] = @ + 1]

Tick(src) ==
    /\ src \in {"boards", "minor"}
    /\ pc["supervisor"] = "idle"
    /\ Advance(src)
    /\ UNCHANGED <<snapshot, due, thread, channel>>

Learn(t, announce) ==
    /\ pc[t] = "idle"
    /\ announce \/ t = "watcher"
    /\ Advance(Source(t))
    /\ pc' = [pc EXCEPT ![t] = IF announce THEN "changed" ELSE @]
    /\ UNCHANGED <<snapshot, due, fresh, mail, channel>>

(* STATS_INTERVAL passes.  `now` is read with the sample, so an interval   *)
(* that ends between sample and store counts for the next tick.  Time      *)
(* passes whatever the threads do: hence its strong fairness.              *)
Elapse ==
    /\ ~due /\ pc["supervisor"] # "sampled"
    /\ due' = TRUE
    /\ UNCHANGED <<truth, snapshot, thread, channel>>

-----------------------------------------------------------------------------
(* The supervisor's _refresh_snapshot, publish, and _broadcast.            *)

Sample ==
    /\ pc["supervisor"] = "idle"
    /\ fresh' = Status
    /\ pc' = [pc EXCEPT !["supervisor"] = "sampled"]
    /\ UNCHANGED <<truth, snapshot, due, mail, channel>>

(* Seeded fault: a lone change of the counters is never sent.              *)
ChangedOnly(force) == force \/ Significant(snapshot) # Significant(fresh)

Changed(force) == force \/ Significant(snapshot) # Significant(fresh) \/ due

Store(force) ==
    /\ pc["supervisor"] = "sampled"
    /\ snapshot' = fresh /\ fresh' = Unsampled
    /\ IF Changed(force)
         THEN Send("supervisor", fresh)
         ELSE /\ pc' = [pc EXCEPT !["supervisor"] = "idle"]
              /\ UNCHANGED <<due, mail>>
    /\ UNCHANGED <<truth, channel>>

Publish(t) ==
    /\ pc[t] = "changed"
    /\ Send(t, snapshot)
    /\ UNCHANGED <<truth, snapshot, fresh, channel>>

(* Seeded fault: a channel that grows without bound.                       *)
PutAlways(q, f) == Append(q, f)

(* put_nowait; queue.Full loses the frame.                                 *)
Put(q, f) == IF Len(q) < Capacity THEN Append(q, f) ELSE q

Deliver(t, k) ==
    /\ pc[t] = "sends" /\ k \in mail[t].to
    /\ mail' = [mail EXCEPT ![t].to = @ \ {k}]
    /\ chan' = [chan EXCEPT ![k] = Put(@, mail[t].frame)]
    /\ UNCHANGED <<truth, snapshot, due, pc, fresh, open, closed, shown, first>>

Sent(t) ==
    /\ pc[t] = "sends" /\ mail[t].to = {}
    /\ pc' = [pc EXCEPT ![t] = "idle"]
    /\ mail' = [mail EXCEPT ![t] = NoMail]
    /\ UNCHANGED <<truth, snapshot, due, fresh, channel>>

-----------------------------------------------------------------------------
(* A dashboard: subscribe, read, and leave (httpd.py _events).             *)

(* Seeded fault: a new dashboard is given a sample of its own.             *)
SampledFirstFrame == Encode(Status)

FirstFrame == Encode(snapshot)

Subscribe(k) ==
    /\ k \notin open \cup closed
    /\ open' = open \cup {k}
    /\ chan' = [chan EXCEPT ![k] = <<FirstFrame>>]
    /\ first' = [first EXCEPT ![k] = FirstFrame]
    /\ UNCHANGED <<truth, snapshot, due, thread, closed, shown>>

Read(k) ==
    /\ k \in open /\ chan[k] # <<>>
    /\ shown' = [shown EXCEPT ![k] = Head(chan[k])]
    /\ chan' = [chan EXCEPT ![k] = Tail(@)]
    /\ UNCHANGED <<truth, snapshot, due, thread, open, closed, first>>

(* The write to a tab that left fails, and the channel is released; a      *)
(* thread that listed it before still puts its frame there.                *)
Unsubscribe(k) ==
    /\ k \in open
    /\ open' = open \ {k}
    /\ closed' = closed \cup {k}
    /\ UNCHANGED <<truth, snapshot, due, thread, chan, shown, first>>

-----------------------------------------------------------------------------
Next ==
    \/ \E src \in {"boards", "minor"} : Tick(src)
    \/ \E t \in Publishers, announce \in BOOLEAN : Learn(t, announce)
    \/ Elapse
    \/ Sample
    \/ \E force \in BOOLEAN : Store(force)
    \/ \E t \in Publishers : Publish(t)
    \/ \E t \in Threads, k \in Channels : Deliver(t, k)
    \/ \E t \in Threads : Sent(t)
    \/ \E k \in Channels : Subscribe(k) \/ Read(k) \/ Unsubscribe(k)

Fairness ==
    /\ SF_vars(Elapse)
    /\ WF_vars(Sample)
    /\ WF_vars(Store(FALSE) \/ Store(TRUE))
    /\ \A t \in Publishers : WF_vars(Publish(t))
    /\ \A t \in Threads : WF_vars(\E k \in Channels : Deliver(t, k))
    /\ \A t \in Threads : WF_vars(Sent(t))
    /\ \A k \in Attentive : WF_vars(Read(k))

Spec == Init /\ [][Next]_vars
FairSpec == Spec /\ Fairness

-----------------------------------------------------------------------------
(* Properties.                                                             *)

NotOlder(f, g) == \A src \in Sources : f[src] >= g[src]

(* A dashboard is never set back behind the frame it was opened with: in   *)
(* no interleaving of the senders is an older frame still in flight to     *)
(* its channel, waiting in it, or on its screen.  The comment in subscribe *)
(* asks for it: "a publish that starts right after the add must not        *)
(* overtake this snapshot".                                                *)
StartsFresh ==
    \A k \in Channels :
        /\ \A t \in Threads :
             k \in mail[t].to => NotOlder(mail[t].frame, first[k])
        /\ \A i \in 1 .. Len(chan[k]) : NotOlder(chan[k][i], first[k])
        /\ shown[k] # NoFrame => NotOlder(shown[k], first[k])

(* Frames are lost in full channels and overtake each other, counters wait *)
(* for the interval, and a publish sends the boards as they were.  Still a *)
(* dashboard that stays open ends up showing what is true, once nothing    *)
(* changes any more.                                                       *)
ShowsLatest ==
    \A k \in Attentive : <>[](k \in open) => <>[](shown[k] = truth)
=============================================================================
