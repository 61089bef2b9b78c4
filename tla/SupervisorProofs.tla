--------------------------- MODULE SupervisorProofs ---------------------------
(***************************************************************************)
(* What TLAPS proves of Supervisor for every registry, every number of     *)
(* boards and every timing: its invariants, from the inductive IInv.       *)
(***************************************************************************)
EXTENDS SupervisorSlots, FiniteSetTheorems, TLAPS

-----------------------------------------------------------------------------
(* The helpers on runtimes.                                                *)

(* Aging a runtime only runs its countdowns down.                          *)
LEMMA AgedByType ==
    ASSUME NEW r \in Runtime, NEW n \in Nat
    PROVE  /\ AgedBy(r, n) \in Runtime
           /\ AgedBy(r, n).state = r.state
           /\ AgedBy(r, n).override = r.override
<1>1. Left(r.wait, n) \in Nat /\ Left(r.lease, n) \in Nat /\ Left(r.due, n) \in Nat
  BY DEF Left, Runtime
<1> QED
  BY <1>1 DEF AgedBy, Runtime, States

(* A runtime whose child ended is in the state it was given.               *)
LEMMA EndedType ==
    ASSUME NEW r \in Runtime, NEW state \in States
    PROVE  /\ Ended(r, state) \in Runtime
           /\ Ended(r, state).state = state
           /\ Ended(r, state).override = r.override
BY DEF Ended, Runtime, States

(* The backoff of a further failure is one the table lists.                *)
LEMMA BackoffType ==
    ASSUME NEW n \in 0 .. Len(BackoffTable)
    PROVE  More(n) \in 0 .. Len(BackoffTable) /\ Backoff(More(n)) \in Nat
BY TimingAssumption DEF More, Backoff

LEMMA FailedType ==
    ASSUME NEW r \in Runtime, NEW state \in States
    PROVE  /\ Failed(r, state) \in Runtime
           /\ Failed(r, state).state = state
           /\ Failed(r, state).override = r.override
<1>1. r.restarts \in 0 .. Len(BackoffTable)
  BY DEF Runtime
<1>2. More(r.restarts) \in 0 .. Len(BackoffTable) /\ Backoff(More(r.restarts)) \in Nat
  BY <1>1, BackoffType
<1> QED
  BY <1>2, EndedType DEF Failed, Ended, Runtime, States

(* What the commands make of a runtime: stop and restart leave it stopped, *)
(* start and demand leave its state alone and take it off hold.            *)
LEMMA DemandedType ==
    ASSUME NEW r \in Runtime
    PROVE  /\ Demanded(r) \in Runtime
           /\ Demanded(r).state = r.state /\ Demanded(r).override # "off"
BY TimingAssumption DEF Demanded, Runtime

LEMMA AfreshType ==
    ASSUME NEW r \in Runtime
    PROVE  /\ Afresh(r) \in Runtime
           /\ Afresh(r).state = r.state /\ Afresh(r).override = r.override
<1>1. 0 \in 0 .. Len(BackoffTable)
  BY TimingAssumption
<1> DEFINE cleared == [r EXCEPT !.wait = 0, !.restarts = 0]
<1>2. /\ cleared \in Runtime
      /\ cleared.state = r.state /\ cleared.override = r.override
  BY <1>1 DEF Runtime
<1>3. Afresh(r) = [cleared EXCEPT !.lease = IdleTimeout]
  BY DEF Afresh
<1> HIDE DEF cleared
<1> QED
  BY <1>2, <1>3, TimingAssumption DEF Runtime

LEMMA StartedType ==
    ASSUME NEW r \in Runtime
    PROVE  /\ Started(r) \in Runtime
           /\ Started(r).state = r.state /\ Started(r).override # "off"
BY AfreshType DEF Started, Runtime

LEMMA StoppedByUserType ==
    ASSUME NEW r \in Runtime
    PROVE  /\ StoppedByUser(r) \in Runtime /\ StoppedByUser(r).state = "stopped"
           /\ StoppedByUser(r).override = "off"
<1>1. /\ [r EXCEPT !.override = "off", !.lease = 0] \in Runtime
      /\ [r EXCEPT !.override = "off", !.lease = 0].override = "off"
  BY DEF Runtime
<1> QED
  BY <1>1, EndedType DEF StoppedByUser, States

LEMMA RestartedType ==
    ASSUME NEW r \in Runtime, NEW spec \in Spec_
    PROVE  /\ Restarted(r, spec) \in Runtime /\ Restarted(r, spec).state = "stopped"
           /\ r.override = "off" => Restarted(r, spec).override = "off"
<1>1. Afresh(r) \in Runtime /\ Afresh(r).override = r.override
  BY AfreshType
<1>2. ASSUME NEW x \in Runtime
      PROVE  /\ Pinned(x, spec) \in Runtime
             /\ x.override = "off" => Pinned(x, spec).override = "off"
  BY DEF Pinned, Runtime
<1> QED
  BY <1>1, <1>2, EndedType DEF Restarted, States

-----------------------------------------------------------------------------
(* The initial states, and the shape of a visit.                           *)

(* A registry in force lists boards only, each with a specification, and   *)
(* no two with one port.                                                   *)
LEMMA ConfigFacts ==
    ASSUME NEW c \in Configs
    PROVE  /\ DOMAIN c.spec \subseteq Boards
           /\ c.order \in Seq(DOMAIN c.spec)
           /\ \A b \in DOMAIN c.spec : c.spec[b] \in Spec_ /\ c.spec[b].port \in Ports
           /\ \A a, b \in DOMAIN c.spec : a # b => c.spec[a].port # c.spec[b].port
           /\ c.maxWarming \in Nat \ {0}
<1>1. /\ c.spec \in [DOMAIN c.spec -> Spec_]
      /\ DOMAIN c.spec \subseteq Boards /\ c.order \in Seq(DOMAIN c.spec)
      /\ \A a, b \in DOMAIN c.spec : a # b => c.spec[a].port # c.spec[b].port
      /\ c.maxWarming \in Nat \ {0}
  BY ConfigAssumption
<1>2. \A b \in DOMAIN c.spec : c.spec[b] \in Spec_ /\ c.spec[b].port \in Ports
  BY <1>1 DEF Spec_
<1> QED
  BY <1>1, <1>2

LEMMA FreshType ==
    /\ FreshRuntime \in Runtime /\ FreshRuntime.state = "stopped"
    /\ FreshRuntime.override = "none" /\ NoChild \in Child /\ NoChild.st = "none"
BY TimingAssumption DEF FreshRuntime, Runtime, States, NoChild, Child

THEOREM InitInv == Init => IInv
<1> SUFFICES ASSUME Init PROVE IInv
  OBVIOUS
<1>1. TypeOK
  <2>1. rt \in [Boards -> Runtime] /\ child \in [Boards -> Child]
    BY FreshType DEF Init
  <2>2. requests \in Seq(Commands \X Boards) /\ todo \in Seq(DOMAIN config.spec)
    BY DEF Init
  <2>3. warming \in Nat /\ stagger \in Nat /\ lag \in 0 .. MaxLag
    BY TimingAssumption DEF Init
  <2> QED
    BY <2>1, <2>2, <2>3 DEF Init, TypeOK
<1>2. StatusMatchesProcess /\ LaunchedAsConfigured /\ StoppedStaysDown
  BY FreshType DEF Init, StatusMatchesProcess, LaunchedAsConfigured,
                   StoppedStaysDown, HasChild
<1> QED
  BY <1>1, <1>2 DEF Init, IInv, TickCountsWarming, AnswerIsOfAChild

(* The board a tick visits is one of the registry.                         *)
LEMMA HeadFacts ==
    ASSUME TypeOK, TickCountsWarming, phase = "tick"
    PROVE  Head(todo) \in Managed /\ Head(todo) \in Boards
<1>1. todo \in Seq(Managed) /\ todo # <<>> /\ config \in Configs
  BY DEF TypeOK, TickCountsWarming, Managed
<1>2. Head(todo) \in Managed
  BY <1>1
<1> QED
  BY <1>1, <1>2, ConfigFacts DEF Managed

(* Terminating children only takes children away.                          *)
LEMMA TerminateFacts ==
    ASSUME TypeOK, LaunchedAsConfigured, NEW S, Terminate(S)
    PROVE  /\ child' \in [Boards -> Child]
           /\ \A b \in Boards : child'[b] = IF b \in S THEN NoChild ELSE child[b]
           /\ squat' \subseteq Ports
<1>1. child' \in [Boards -> Child]
      /\ \A b \in Boards : child'[b] = IF b \in S THEN NoChild ELSE child[b]
  BY FreshType DEF Terminate, TypeOK
<1>2. PICK stuck \in SUBSET {b \in S \cap Faulty : child[b].st = "serve"} :
        squat' = squat \cup {child[b].port : b \in stuck}
  BY DEF Terminate
<1>3. \A b \in stuck : child[b].port \in Ports
  <2> TAKE b \in stuck
  <2>1. b \in Boards /\ HasChild(b)
    BY FaultAssumption DEF HasChild
  <2>2. config \in Configs /\ b \in DOMAIN config.spec /\ child[b].port = config.spec[b].port
    BY <2>1 DEF TypeOK, LaunchedAsConfigured, Managed
  <2> QED
    BY <2>2, ConfigFacts
<1>4. squat' \subseteq Ports
  BY <1>2, <1>3 DEF TypeOK
<1> QED
  BY <1>1, <1>4

(* A visit keeps the invariant if what it makes of the visited board does, *)
(* if it leaves the other boards alone, and if it goes on counting.        *)
LEMMA VisitKeepsInv ==
    ASSUME IInv, NEW b \in Boards, NEW r \in Runtime, NEW warm \in Nat,
           Visit(b, r, warm),
           child' \in [Boards -> Child], squat' \subseteq Ports, stagger' \in Nat,
           \A other \in Boards : other # b => child'[other] = child[other],
           HasChild(b)' <=> r.state \in {"starting", "running"},
           HasChild(b)' => child'[b].port = config.spec[b].port,
           r.override = "off" => ~HasChild(b)',
           Cardinality(Warming') <= warm
    PROVE  IInv'
<1>1. /\ phase = "tick" /\ b = Head(todo) /\ Proceed(Tail(todo), warm)
      /\ rt' = [rt EXCEPT ![b] = r]
      /\ UNCHANGED <<config, pending, requests, lag, stopping>>
  BY DEF Visit
<1>2. todo # <<>> /\ todo \in Seq(Managed) /\ rt \in [Boards -> Runtime]
  BY <1>1 DEF IInv, TypeOK, TickCountsWarming, Managed
<1>3. b \in Managed /\ Tail(todo) \in Seq(Managed)
  BY <1>1, <1>2
<1>4. TypeOK'
  <2>1. rt' \in [Boards -> Runtime]
    BY <1>1, <1>2
  <2>2. /\ phase' \in {"loop", "tick"} /\ todo' \in Seq(DOMAIN config'.spec)
        /\ warming' \in Nat /\ answer' = "none"
    BY <1>1, <1>3 DEF Proceed, Managed
  <2> QED
    BY <1>1, <2>1, <2>2 DEF IInv, TypeOK
<1>5. \A other \in Boards : other # b =>
         rt'[other] = rt[other] /\ (HasChild(other)' <=> HasChild(other))
  BY <1>1, <1>2 DEF HasChild
<1>6. rt'[b] = r
  BY <1>1, <1>2
<1>7. StatusMatchesProcess'
  BY <1>1, <1>5, <1>6 DEF IInv, StatusMatchesProcess
<1>8. LaunchedAsConfigured'
  BY <1>1, <1>3, <1>5 DEF IInv, LaunchedAsConfigured, Managed
<1>9. StoppedStaysDown'
  BY <1>5, <1>6 DEF IInv, StoppedStaysDown
<1>10. TickCountsWarming' /\ AnswerIsOfAChild'
  BY <1>1 DEF Proceed, TickCountsWarming, AnswerIsOfAChild
<1> QED
  BY <1>4, <1>7, <1>8, <1>9, <1>10 DEF IInv

(* The warming boards after a step that starts none are among those before.*)
LEMMA WarmingShrinks ==
    ASSUME rt \in [Boards -> Runtime],
           \A b \in Boards : rt'[b].state = "starting" => rt[b].state = "starting"
    PROVE  /\ Cardinality(Warming) \in Nat /\ Cardinality(Warming') \in Nat
           /\ Cardinality(Warming') <= Cardinality(Warming)
<1>1. Warming \subseteq Boards /\ Warming' \subseteq Warming
  BY DEF Warming
<1>2. IsFiniteSet(Warming)
  BY <1>1, FaultAssumption, FS_Subset
<1> QED
  BY <1>1, <1>2, FS_Subset, FS_CardinalityType

-----------------------------------------------------------------------------
(* The visits.  But for two of them they leave the child alone, or end it. *)

Up == {"starting", "running"}

QuietShape(b) ==
    \E r \in Runtime :
        /\ Visit(b, r, warming) /\ UNCHANGED <<child, squat, stagger>>
        /\ r.state \in Up <=> rt[b].state \in Up
        /\ r.state = "starting" => rt[b].state = "starting"
        /\ r.override = rt[b].override

EndingShape(b) ==
    \E r \in Runtime :
        /\ Visit(b, r, warming) /\ stagger' = stagger
        /\ child' \in [Boards -> Child] /\ squat' \subseteq Ports
        /\ child'[b] = NoChild
        /\ \A other \in Boards : other # b => child'[other] = child[other]
        /\ r.state \notin Up
        /\ r.override = rt[b].override

LEMMA QuietVisit ==
    ASSUME IInv, NEW b \in Boards, QuietShape(b)
    PROVE  IInv'
<1> PICK r \in Runtime :
        /\ Visit(b, r, warming) /\ UNCHANGED <<child, squat, stagger>>
        /\ r.state \in Up <=> rt[b].state \in Up
        /\ r.state = "starting" => rt[b].state = "starting"
        /\ r.override = rt[b].override
  BY DEF QuietShape
<1>1. /\ rt \in [Boards -> Runtime] /\ child \in [Boards -> Child]
      /\ squat \subseteq Ports /\ stagger \in Nat /\ warming \in Nat
      /\ rt' = [rt EXCEPT ![b] = r] /\ phase = "tick"
  BY DEF IInv, TypeOK, Visit
<1>2. \A o \in Boards : rt'[o].state = "starting" => rt[o].state = "starting"
  BY <1>1
<1>3. Cardinality(Warming') <= warming
  <2>1. /\ Cardinality(Warming) \in Nat /\ Cardinality(Warming') \in Nat
        /\ Cardinality(Warming') <= Cardinality(Warming)
    BY <1>1, <1>2, WarmingShrinks
  <2>2. Cardinality(Warming) <= warming
    BY <1>1 DEF IInv, TickCountsWarming
  <2> QED
    BY <1>1, <2>1, <2>2
<1>4. HasChild(b)' <=> r.state \in Up
  BY <1>1 DEF IInv, StatusMatchesProcess, HasChild, Up
<1>5. HasChild(b)' => child'[b].port = config.spec[b].port
  BY DEF IInv, LaunchedAsConfigured, HasChild
<1>6. r.override = "off" => ~HasChild(b)'
  BY DEF IInv, StoppedStaysDown, HasChild
<1> QED
  BY <1>1, <1>3, <1>4, <1>5, <1>6, VisitKeepsInv DEF Up

LEMMA EndingVisit ==
    ASSUME IInv, NEW b \in Boards, EndingShape(b)
    PROVE  IInv'
<1> PICK r \in Runtime :
        /\ Visit(b, r, warming) /\ stagger' = stagger
        /\ child' \in [Boards -> Child] /\ squat' \subseteq Ports
        /\ child'[b] = NoChild
        /\ \A other \in Boards : other # b => child'[other] = child[other]
        /\ r.state \notin Up
  BY DEF EndingShape
<1>1. /\ rt \in [Boards -> Runtime] /\ stagger \in Nat /\ warming \in Nat
      /\ rt' = [rt EXCEPT ![b] = r] /\ phase = "tick"
  BY DEF IInv, TypeOK, Visit
<1>2. \A o \in Boards : rt'[o].state = "starting" => rt[o].state = "starting"
  BY <1>1 DEF Up
<1>3. Cardinality(Warming') <= warming
  <2>1. /\ Cardinality(Warming) \in Nat /\ Cardinality(Warming') \in Nat
        /\ Cardinality(Warming') <= Cardinality(Warming)
    BY <1>1, <1>2, WarmingShrinks
  <2>2. Cardinality(Warming) <= warming
    BY <1>1 DEF IInv, TickCountsWarming
  <2> QED
    BY <1>1, <2>1, <2>2
<1>4. ~HasChild(b)'
  BY FreshType DEF HasChild
<1> QED
  BY <1>1, <1>3, <1>4, VisitKeepsInv DEF Up

(* A launch adds one board to those that are warming.                      *)
LEMMA LaunchCounts ==
    ASSUME IInv, NEW b \in Boards, Launch(b)
    PROVE  /\ Cardinality(Warming) \in Nat /\ Cardinality(Warming') \in Nat
           /\ Cardinality(Warming) <= warming
           /\ Cardinality(Warming') <= warming + 1
<1>1. /\ rt \in [Boards -> Runtime] /\ warming \in Nat /\ phase = "tick"
      /\ \A o \in Boards : o # b => rt'[o] = rt[o]
  BY DEF Launch, Visit, IInv, TypeOK
<1>2. Warming \subseteq Boards /\ Warming' \subseteq Warming \cup {b}
  BY <1>1 DEF Warming
<1>3. IsFiniteSet(Warming)
  BY <1>2, FaultAssumption, FS_Subset
<1>4. /\ IsFiniteSet(Warming \cup {b})
      /\ Cardinality(Warming \cup {b}) <= Cardinality(Warming) + 1
  BY <1>3, FS_AddElement, FS_CardinalityType
<1>5. Cardinality(Warming') <= Cardinality(Warming \cup {b})
  BY <1>2, <1>4, FS_Subset
<1>6. Cardinality(Warming) <= warming
  BY <1>1 DEF IInv, TickCountsWarming
<1>7. Cardinality(Warming) \in Nat /\ Cardinality(Warming \cup {b}) \in Nat
  BY <1>3, <1>4, FS_CardinalityType
<1>8. Cardinality(Warming') \in Nat
  BY <1>2, <1>4, FS_Subset, FS_CardinalityType
<1> QED
  BY <1>1, <1>4, <1>5, <1>6, <1>7, <1>8

LEMMA LaunchKeepsInv ==
    ASSUME IInv, NEW b \in Boards, Launch(b)
    PROVE  IInv'
<1> DEFINE r == [rt[b] EXCEPT !.state = "starting", !.due = StartTimeout + 1]
           launched == [st |-> "quiet", port |-> config.spec[b].port]
<1>1. /\ Visit(b, r, warming + 1) /\ MaySpawn(b)
      /\ child' = [child EXCEPT ![b] = launched]
      /\ squat' = squat /\ stagger' = StartStagger
  BY DEF Launch
<1>2. /\ rt \in [Boards -> Runtime] /\ child \in [Boards -> Child]
      /\ squat \subseteq Ports /\ warming \in Nat /\ config \in Configs
      /\ phase = "tick" /\ b = Head(todo) /\ todo \in Seq(Managed) /\ todo # <<>>
      /\ rt' = [rt EXCEPT ![b] = r]
  BY <1>1 DEF IInv, TypeOK, TickCountsWarming, Visit, Managed
<1>3. b \in Managed /\ config.spec[b].port \in Ports
  BY <1>2, ConfigFacts DEF Managed
<1>4. r \in Runtime /\ r.state = "starting" /\ r.override = rt[b].override
  <2>1. rt[b] \in Runtime /\ StartTimeout + 1 \in Nat
    BY <1>2, TimingAssumption
  <2> QED
    BY <2>1 DEF Runtime, States
<1>5. child' \in [Boards -> Child] /\ child'[b] = launched /\ HasChild(b)'
  BY <1>1, <1>2, <1>3 DEF Child, HasChild
<1>6. r.override # "off"
  BY <1>1, <1>4 DEF MaySpawn, Wanted, Desired
<1>7. Cardinality(Warming') <= warming + 1
  BY LaunchCounts
<1>8. \A other \in Boards : other # b => child'[other] = child[other]
  BY <1>1, <1>2
<1>9. warming + 1 \in Nat /\ stagger' \in Nat
  BY <1>1, <1>2, TimingAssumption
<1> HIDE DEF r
<1> QED
  BY <1>1, <1>2, <1>4, <1>5, <1>6, <1>7, <1>8, <1>9, VisitKeepsInv

(* A spawn that raises ends the tick, or the thread, and changes nothing   *)
(* else.                                                                   *)
LEMMA SpawnRaisesKeepsInv ==
    ASSUME IInv, NEW b \in Boards, SpawnRaises(b)
    PROVE  IInv'
<1>1. /\ UNCHANGED <<config, pending, rt, child, squat, requests, stagger, lag, stopping>>
      /\ phase' \in {"loop", "lost"} /\ todo' = <<>> /\ warming' = 0 /\ answer' = "none"
  BY DEF SpawnRaises
<1>2. TypeOK'
  <2>1. todo' \in Seq(DOMAIN config'.spec)
    BY <1>1
  <2> QED
    BY <1>1, <2>1 DEF IInv, TypeOK
<1>3. StatusMatchesProcess' /\ LaunchedAsConfigured' /\ StoppedStaysDown'
  <2>1. phase # "done"
    BY DEF SpawnRaises
  <2> QED
    BY <1>1, <2>1 DEF IInv, StatusMatchesProcess, LaunchedAsConfigured,
                      StoppedStaysDown, HasChild, Managed
<1> QED
  BY <1>1, <1>2, <1>3 DEF IInv, TickCountsWarming, AnswerIsOfAChild

(* A probe changes nothing but the visit's `listening`.                    *)
LEMMA ProbeKeepsInv ==
    ASSUME IInv, NEW b \in Boards, Probe(b)
    PROVE  IInv'
<1>1. /\ UNCHANGED <<config, pending, rt, child, squat, requests, phase, todo, warming,
                     stagger, lag, stopping>>
      /\ answer' \in {"yes", "no"}
      /\ phase = "tick" /\ b = Head(todo) /\ HasChild(b)
  BY DEF Probe, Alive, HasChild
<1>2. TypeOK'
  BY <1>1 DEF IInv, TypeOK
<1>3. AnswerIsOfAChild'
  BY <1>1 DEF AnswerIsOfAChild, HasChild
<1> QED
  BY <1>1, <1>2, <1>3 DEF IInv, StatusMatchesProcess, LaunchedAsConfigured,
       StoppedStaysDown, TickCountsWarming, HasChild, Managed, Warming

(* Every visit but a probe, a launch and a spawn that raises has one of    *)
(* the shapes.                                                             *)
LEMMA VisitShapes ==
    ASSUME IInv, NEW b \in Boards, VisitSome(b)
    PROVE  QuietShape(b) \/ EndingShape(b) \/ Probe(b) \/ SpawnRaises(b) \/ Launch(b)
<1>1. /\ TypeOK /\ LaunchedAsConfigured
      /\ rt[b] \in Runtime /\ stagger \in Nat /\ child \in [Boards -> Child]
      /\ squat \subseteq Ports
  BY DEF IInv, TypeOK
<1>0. 0 \in 0 .. (UnhealthyStrikes - 1)
  BY TimingAssumption
<1>2. ASSUME Terminate({b})
      PROVE  /\ child' \in [Boards -> Child] /\ squat' \subseteq Ports
             /\ child'[b] = NoChild
             /\ \A other \in Boards : other # b => child'[other] = child[other]
  BY <1>1, <1>2, TerminateFacts
<1>3. CASE Reclaim(b)
  <2> DEFINE r == Ended(rt[b], IF config.spec[b].enabled THEN "stopped" ELSE "disabled")
  <2>1. r \in Runtime /\ r.state \notin Up /\ r.override = rt[b].override
    BY <1>1, EndedType DEF States, Up
  <2>2. Visit(b, r, warming) /\ Terminate({b}) /\ stagger' = stagger
    BY <1>3 DEF Reclaim
  <2> HIDE DEF r
  <2> QED
    BY <1>2, <2>1, <2>2 DEF EndingShape
<1>4. CASE StartsServing(b)
  <2> DEFINE r == [rt[b] EXCEPT !.state = "running", !.strikes = 0, !.due = StableAfter + 1]
             s == [rt[b] EXCEPT !.state = "running", !.strikes = 0]
  <2>1. /\ Visit(b, r, warming) /\ UNCHANGED <<child, squat, stagger>>
        /\ rt[b].state = "starting"
    BY <1>4 DEF StartsServing
  <2>2. s \in Runtime /\ s.state = "running" /\ s.override = rt[b].override
    BY <1>0, <1>1 DEF Runtime, States
  <2>3. r = [s EXCEPT !.due = StableAfter + 1] /\ StableAfter + 1 \in Nat
    BY TimingAssumption
  <2> HIDE DEF s
  <2>4. r \in Runtime /\ r.state = "running" /\ r.override = rt[b].override
    BY <2>2, <2>3 DEF Runtime
  <2> HIDE DEF r
  <2> QED
    BY <2>1, <2>4 DEF QuietShape, Up
<1>5. CASE StillWarming(b)
  BY <1>1, <1>5 DEF QuietShape, StillWarming
<1>6. CASE StartTimesOut(b)
  <2>1. /\ Failed(rt[b], "failed") \in Runtime /\ Failed(rt[b], "failed").state \notin Up
        /\ Failed(rt[b], "failed").override = rt[b].override
    BY <1>1, FailedType DEF States, Up
  <2>2. Visit(b, Failed(rt[b], "failed"), warming) /\ Terminate({b}) /\ stagger' = stagger
    BY <1>6 DEF StartTimesOut
  <2> QED
    BY <1>2, <2>1, <2>2 DEF EndingShape
<1>7. CASE Healthy(b)
  <2> DEFINE n == IF rt[b].due = 0 THEN 0 ELSE rt[b].restarts
             s == [rt[b] EXCEPT !.state = "running", !.strikes = 0]
             r == [s EXCEPT !.restarts = n]
  <2>1. /\ Visit(b, r, warming) /\ UNCHANGED <<child, squat, stagger>>
        /\ answer = "yes"
    BY <1>7 DEF Healthy
  <2>2. s \in Runtime /\ s.state = "running" /\ s.override = rt[b].override
    BY <1>0, <1>1 DEF Runtime, States
  <2>3. n \in 0 .. Len(BackoffTable)
    BY <1>1, TimingAssumption DEF Runtime
  <2> HIDE DEF s, n
  <2>4. r \in Runtime /\ r.state = "running" /\ r.override = rt[b].override
    BY <2>2, <2>3 DEF Runtime
  <2>5. rt[b].state \in Up
    <3>1. phase = "tick" /\ HasChild(b)
      BY <2>1 DEF Visit, IInv, AnswerIsOfAChild
    <3> QED
      BY <3>1 DEF IInv, StatusMatchesProcess, Up
  <2> HIDE DEF r
  <2> QED
    BY <2>1, <2>4, <2>5 DEF QuietShape, Up
<1>8. CASE Strike(b)
  <2> DEFINE r == [rt[b] EXCEPT !.strikes = @ + 1]
  <2>1. /\ Visit(b, r, warming) /\ UNCHANGED <<child, squat, stagger>>
        /\ rt[b].strikes + 1 < UnhealthyStrikes
    BY <1>8 DEF Strike
  <2>2. rt[b].strikes + 1 \in 0 .. (UnhealthyStrikes - 1)
    <3>1. rt[b].strikes \in 0 .. (UnhealthyStrikes - 1)
      BY <1>1 DEF Runtime
    <3>2. UnhealthyStrikes \in Nat
      BY TimingAssumption
    <3> HIDE DEF r
    <3> QED
      BY ONLY <2>1, <3>1, <3>2
  <2>3. r \in Runtime /\ r.state = rt[b].state /\ r.override = rt[b].override
    BY <1>1, <2>2 DEF Runtime
  <2> HIDE DEF r
  <2> QED
    BY <2>1, <2>3 DEF QuietShape
<1>9. CASE Wedged(b)
  <2> DEFINE r == [Failed(rt[b], "stopped") EXCEPT !.strikes = 0]
  <2>1. /\ Failed(rt[b], "stopped") \in Runtime /\ Failed(rt[b], "stopped").state = "stopped"
        /\ Failed(rt[b], "stopped").override = rt[b].override
    BY <1>1, FailedType DEF States
  <2>2. r \in Runtime /\ r.state \notin Up /\ r.override = rt[b].override
    BY <1>0, <2>1 DEF Runtime, Up
  <2>3. Visit(b, r, warming) /\ Terminate({b}) /\ stagger' = stagger
    BY <1>9 DEF Wedged
  <2> HIDE DEF r
  <2> QED
    BY <1>2, <2>2, <2>3 DEF EndingShape
<1>10. CASE HandleExit(b)
  <2>1. /\ Failed(rt[b], "backoff") \in Runtime /\ Failed(rt[b], "backoff").state \notin Up
        /\ Failed(rt[b], "backoff").override = rt[b].override
    BY <1>1, FailedType DEF States, Up
  <2>2. /\ Visit(b, Failed(rt[b], "backoff"), warming) /\ squat' = squat
        /\ child' = [child EXCEPT ![b] = NoChild] /\ stagger' = stagger
    BY <1>10 DEF HandleExit
  <2>3. /\ child' \in [Boards -> Child] /\ child'[b] = NoChild
        /\ \A other \in Boards : other # b => child'[other] = child[other]
    BY <1>1, <2>2, FreshType
  <2> QED
    BY <1>1, <2>1, <2>2, <2>3 DEF EndingShape
<1>11. CASE HoldOff(b)
  <2> DEFINE r == [rt[b] EXCEPT !.state = IF rt[b].restarts > 0 THEN "backoff" ELSE @]
  <2>1. /\ Visit(b, r, warming) /\ UNCHANGED <<child, squat, stagger>> /\ ~HasChild(b)
    BY <1>11 DEF HoldOff
  <2>2. r \in Runtime /\ r.state \in {"backoff", rt[b].state} /\ r.override = rt[b].override
    BY <1>1 DEF Runtime, States
  <2>3. rt[b].state \notin Up
    BY <2>1 DEF Visit, IInv, StatusMatchesProcess, Up
  <2> HIDE DEF r
  <2> QED
    BY <2>1, <2>2, <2>3 DEF QuietShape, Up
<1>12. CASE AwaitSlot(b)
  BY <1>1, <1>12 DEF QuietShape, AwaitSlot
<1>13. CASE SpawnRefused(b)
  <2> DEFINE r == [rt[b] EXCEPT !.state = "failed", !.wait = RetryPause]
  <2>1. /\ Visit(b, r, warming) /\ UNCHANGED <<child, squat, stagger>> /\ ~HasChild(b)
    BY <1>13 DEF SpawnRefused, MaySpawn
  <2>2. r \in Runtime /\ r.state = "failed" /\ r.override = rt[b].override
    BY <1>1, TimingAssumption DEF Runtime, States
  <2>3. rt[b].state \notin Up
    BY <2>1 DEF Visit, IInv, StatusMatchesProcess, Up
  <2> HIDE DEF r
  <2> QED
    BY <2>1, <2>2, <2>3 DEF QuietShape, Up
<1>14. CASE SpawnRaises(b)
  BY <1>14
<1>15. CASE Launch(b)
  BY <1>15
<1>16. CASE Probe(b)
  BY <1>16
<1> QED
  BY <1>3, <1>4, <1>5, <1>6, <1>7, <1>8, <1>9, <1>10, <1>11, <1>12, <1>13, <1>14,
     <1>15, <1>16 DEF VisitSome

LEMMA VisitSomeKeepsInv ==
    ASSUME IInv, NEW b \in Boards, VisitSome(b)
    PROVE  IInv'
BY VisitShapes, QuietVisit, EndingVisit, ProbeKeepsInv, SpawnRaisesKeepsInv, LaunchKeepsInv

-----------------------------------------------------------------------------
(* The rest of the thread's steps.                                         *)

(* Reading the clock keeps every runtime's state and override.             *)
LEMMA ClockFacts ==
    ASSUME TypeOK
    PROVE  /\ Aged \in [Boards -> Runtime]
           /\ \A b \in Boards : Aged[b].state = rt[b].state
                              /\ Aged[b].override = rt[b].override
           /\ ReadClock => stagger' \in Nat /\ lag' \in 0 .. MaxLag
<1>1. lag \in Nat /\ stagger \in Nat /\ MaxLag \in Nat /\ rt \in [Boards -> Runtime]
  BY TimingAssumption DEF TypeOK
<1>2. \A b \in Boards : /\ AgedBy(rt[b], lag) \in Runtime
                       /\ AgedBy(rt[b], lag).state = rt[b].state
                       /\ AgedBy(rt[b], lag).override = rt[b].override
  BY <1>1, AgedByType
<1> QED
  BY <1>1, <1>2 DEF Aged, ReadClock, Left

(* A command's effect: it ends the board's child, or it leaves the child   *)
(* alone and takes the board off hold.                                     *)
CommandShape(b) ==
    \E action \in Commands, r \in Runtime :
        /\ Handle(action, b, r)
        /\ child' \in [Boards -> Child] /\ squat' \subseteq Ports
        /\ \A other \in Boards : other # b => child'[other] = child[other]
        /\ \/ /\ child'[b] = NoChild /\ r.state \notin Up
              /\ rt[b].override = "off" => r.override = "off"
           \/ child'[b] = child[b] /\ r.state = rt[b].state /\ r.override # "off"

LEMMA CommandKeepsInv ==
    ASSUME IInv, NEW b \in Boards, CommandShape(b)
    PROVE  IInv'
<1> PICK action \in Commands, r \in Runtime :
        /\ Handle(action, b, r)
        /\ child' \in [Boards -> Child] /\ squat' \subseteq Ports
        /\ \A other \in Boards : other # b => child'[other] = child[other]
        /\ \/ child'[b] = NoChild /\ r.state \notin Up
           \/ child'[b] = child[b] /\ r.state = rt[b].state /\ r.override # "off"
  BY DEF CommandShape
<1>1. /\ phase = "drain" /\ requests # <<>> /\ b \in Managed
      /\ requests' = Tail(requests) /\ rt' = [Aged EXCEPT ![b] = r] /\ ReadClock
      /\ UNCHANGED <<config, pending, phase, todo, warming, answer, stopping>>
  BY DEF Handle, thread
<1>2. TypeOK /\ Aged \in [Boards -> Runtime]
  BY ClockFacts DEF IInv
<1>3. TypeOK'
  <2>1. requests' \in Seq(Commands \X Boards)
    BY <1>1, <1>2 DEF TypeOK
  <2>2. rt' \in [Boards -> Runtime]
    BY <1>1, <1>2
  <2>3. stagger' \in Nat /\ lag' \in 0 .. MaxLag
    BY <1>1, <1>2, ClockFacts
  <2> QED
    BY <1>1, <1>2, <2>1, <2>2, <2>3 DEF TypeOK
<1>4. /\ rt'[b] = r
      /\ \A o \in Boards : o # b => /\ rt'[o].state = rt[o].state
                                  /\ rt'[o].override = rt[o].override
  BY <1>1, <1>2, ClockFacts
<1>5. /\ \A o \in Boards : o # b => (HasChild(o)' <=> HasChild(o))
      /\ child'[b] = NoChild => ~HasChild(b)'
      /\ child'[b] = child[b] => (HasChild(b)' <=> HasChild(b))
  BY FreshType DEF HasChild
<1>6. StatusMatchesProcess'
  BY <1>1, <1>4, <1>5 DEF IInv, StatusMatchesProcess, Up
<1>7. LaunchedAsConfigured'
  BY <1>1, <1>5 DEF IInv, LaunchedAsConfigured, Managed
<1>8. StoppedStaysDown'
  BY <1>4, <1>5 DEF IInv, StoppedStaysDown
<1> QED
  BY <1>1, <1>3, <1>6, <1>7, <1>8 DEF IInv, TickCountsWarming, AnswerIsOfAChild

LEMMA CommandShapes ==
    ASSUME IInv, NEW b \in Boards, Demand(b) \/ Start(b) \/ Stop(b) \/ Restart(b)
    PROVE  CommandShape(b)
<1>1. /\ TypeOK /\ LaunchedAsConfigured /\ Aged[b] \in Runtime
      /\ Aged[b].state = rt[b].state /\ Aged[b].override = rt[b].override
      /\ child \in [Boards -> Child] /\ squat \subseteq Ports
  BY ClockFacts DEF IInv, TypeOK
<1>2. ASSUME Terminate({b})
      PROVE  /\ child' \in [Boards -> Child] /\ squat' \subseteq Ports
             /\ child'[b] = NoChild
             /\ \A other \in Boards : other # b => child'[other] = child[other]
  BY <1>1, <1>2, TerminateFacts
<1>3. CASE Demand(b)
  <2>1. Handle("demand", b, Demanded(Aged[b])) /\ UNCHANGED <<child, squat>>
    BY <1>3 DEF Demand
  <2> QED
    BY <1>1, <2>1, DemandedType DEF CommandShape, Commands
<1>4. CASE Start(b)
  <2>1. Handle("start", b, Started(Aged[b])) /\ UNCHANGED <<child, squat>>
    BY <1>4 DEF Start
  <2> QED
    BY <1>1, <2>1, StartedType DEF CommandShape, Commands
<1>5. CASE Stop(b)
  <2>1. Handle("stop", b, StoppedByUser(Aged[b])) /\ Terminate({b})
    BY <1>5 DEF Stop
  <2> QED
    BY <1>1, <1>2, <2>1, StoppedByUserType DEF CommandShape, Commands, Up
<1>6. CASE Restart(b)
  <2>1. Handle("restart", b, Restarted(Aged[b], config.spec[b])) /\ Terminate({b})
    BY <1>6 DEF Restart
  <2>2. config.spec[b] \in Spec_
    BY <1>1, <2>1, ConfigFacts DEF Handle, Managed, TypeOK
  <2> QED
    BY <1>1, <1>2, <2>1, <2>2, RestartedType DEF CommandShape, Commands, Up
<1> QED
  BY <1>3, <1>4, <1>5, <1>6

LEMMA CommandsKeepInv ==
    ASSUME IInv, NEW b \in Boards, Demand(b) \/ Start(b) \/ Stop(b) \/ Restart(b)
    PROVE  IInv'
BY CommandShapes, CommandKeepsInv

LEMMA DropKeepsInv == IInv /\ Drop => IInv'
<1> SUFFICES ASSUME IInv, Drop PROVE IInv'
  OBVIOUS
<1>1. /\ requests # <<>> /\ requests' = Tail(requests)
      /\ UNCHANGED <<config, pending, rt, child, squat, phase, todo, warming, answer,
                     stagger, lag, stopping>>
  BY DEF Drop, thread
<1>2. TypeOK'
  <2>1. requests' \in Seq(Commands \X Boards)
    BY <1>1 DEF IInv, TypeOK
  <2> QED
    BY <1>1, <2>1 DEF IInv, TypeOK
<1> QED
  BY <1>1, <1>2 DEF IInv, StatusMatchesProcess, LaunchedAsConfigured, StoppedStaysDown,
                    TickCountsWarming, AnswerIsOfAChild, HasChild, Managed, Warming

LEMMA TickStartKeepsInv == IInv /\ TickStart => IInv'
<1> SUFFICES ASSUME IInv, TickStart PROVE IInv'
  OBVIOUS
<1>1. /\ phase = "drain" /\ Proceed(config.order, Cardinality(Warming))
      /\ rt' = Aged /\ ReadClock
      /\ UNCHANGED <<config, pending, child, squat, requests, stopping>>
  BY DEF TickStart
<1>2. TypeOK /\ rt \in [Boards -> Runtime] /\ config \in Configs
  BY DEF IInv, TypeOK
<1>3. /\ rt' \in [Boards -> Runtime] /\ stagger' \in Nat /\ lag' \in 0 .. MaxLag
      /\ \A b \in Boards : rt'[b].state = rt[b].state /\ rt'[b].override = rt[b].override
  BY <1>1, <1>2, ClockFacts
<1>4. Warming' = Warming
  BY <1>3 DEF Warming
<1>5. Cardinality(Warming) \in Nat
  BY <1>2, <1>3, WarmingShrinks
<1>6. TypeOK'
  <2>1. /\ phase' \in {"loop", "tick"} /\ todo' \in Seq(DOMAIN config'.spec)
        /\ warming' \in Nat /\ answer' = "none"
    BY <1>1, <1>2, <1>5, ConfigFacts DEF Proceed
  <2> QED
    BY <1>1, <1>2, <1>3, <2>1 DEF TypeOK
<1>7. StatusMatchesProcess' /\ LaunchedAsConfigured' /\ StoppedStaysDown'
  BY <1>1, <1>3 DEF IInv, StatusMatchesProcess, LaunchedAsConfigured, StoppedStaysDown,
                    HasChild, Managed
<1>8. TickCountsWarming' /\ AnswerIsOfAChild'
  BY <1>1, <1>4, <1>5 DEF Proceed, TickCountsWarming, AnswerIsOfAChild
<1> QED
  BY <1>6, <1>7, <1>8 DEF IInv

(* A board's runtime under a new registry: well formed, stopped if its     *)
(* child is displaced, otherwise in the state it was in, and never newly   *)
(* on hold.                                                                *)
LEMMA ReconciledType ==
    ASSUME NEW r \in Runtime, NEW b \in Boards, NEW c
    PROVE  /\ Reconciled(r, b, c) \in Runtime
           /\ Reconciled(r, b, c).override = "off" => r.override = "off"
           /\ b \in Displaced(c) => Reconciled(r, b, c).state \notin Up
           /\ b \in Managed /\ b \in DOMAIN c.spec /\ b \notin Displaced(c) =>
                 Reconciled(r, b, c).state = r.state
           /\ b \notin Managed \/ b \notin DOMAIN c.spec =>
                 Reconciled(r, b, c) = FreshRuntime
<1> DEFINE flip == config.spec[b].autostart # c.spec[b].autostart
           o == IF flip THEN "none" ELSE r.override
           l == IF flip /\ c.spec[b].autostart = "on_demand" /\ HasChild(b)
                THEN IdleTimeout ELSE r.lease
           pinless == [r EXCEPT !.override = o, !.lease = l]
<1>1. /\ o \in {"none", "on", "off"} /\ l \in Nat
      /\ o = "off" => r.override = "off"
  BY TimingAssumption DEF Runtime
<1>2. Reconciled(r, b, c) =
        IF b \notin Managed \/ b \notin DOMAIN c.spec THEN FreshRuntime
        ELSE IF config.spec[b].port # c.spec[b].port /\ HasChild(b)
             THEN Ended(pinless, "stopped")
        ELSE pinless
  BY DEF Reconciled
<1> HIDE DEF o, l
<1>3. pinless \in Runtime /\ pinless.state = r.state /\ pinless.override = o
  BY <1>1 DEF Runtime
<1> HIDE DEF pinless
<1>4. /\ Ended(pinless, "stopped") \in Runtime
      /\ Ended(pinless, "stopped").state = "stopped"
      /\ Ended(pinless, "stopped").override = o
  BY <1>3, EndedType DEF States
<1>5. b \in Displaced(c) =>
        b \in Managed /\ HasChild(b)
        /\ (b \notin DOMAIN c.spec \/ config.spec[b].port # c.spec[b].port)
  BY DEF Displaced
<1>6. b \notin Displaced(c) /\ b \in Managed /\ b \in DOMAIN c.spec =>
        ~(config.spec[b].port # c.spec[b].port /\ HasChild(b))
  BY DEF Displaced
<1> QED
  BY <1>1, <1>2, <1>3, <1>4, <1>5, <1>6, FreshType DEF Up

(* What a new registry makes of the boards and their children.             *)
LEMMA AdoptFacts ==
    ASSUME IInv, phase # "done", NEW c \in Configs, Adopt(c)
    PROVE  /\ config' = c
           /\ stagger' \in Nat /\ lag' \in 0 .. MaxLag
           /\ rt' \in [Boards -> Runtime]
           /\ child' \in [Boards -> Child] /\ squat' \subseteq Ports
           /\ \A b \in Boards : rt'[b].override = "off" => rt[b].override = "off"
           /\ \A b \in Boards : \/ ~HasChild(b)' /\ rt'[b].state \notin Up
                               \/ /\ HasChild(b) /\ child'[b] = child[b]
                                  /\ rt'[b].state = rt[b].state
                                  /\ b \in DOMAIN c.spec
                                  /\ child[b].port = c.spec[b].port
<1>0. TypeOK /\ LaunchedAsConfigured /\ phase # "done"
  BY DEF IInv
<1>1. /\ config' = c /\ ReadClock
      /\ rt' = [b \in Boards |-> Reconciled(Aged[b], b, c)]
      /\ Terminate(Displaced(c))
  BY DEF Adopt
<1>2. /\ \A b \in Boards : /\ Aged[b] \in Runtime /\ Aged[b].state = rt[b].state
                          /\ Aged[b].override = rt[b].override
      /\ stagger' \in Nat /\ lag' \in 0 .. MaxLag
  BY <1>0, <1>1, ClockFacts
<1>3. /\ child' \in [Boards -> Child] /\ squat' \subseteq Ports
      /\ \A b \in Boards : child'[b] = IF b \in Displaced(c) THEN NoChild ELSE child[b]
  BY <1>0, <1>1, TerminateFacts
<1>4. \A b \in Boards :
        /\ rt'[b] \in Runtime
        /\ rt'[b].override = "off" => rt[b].override = "off"
        /\ b \in Displaced(c) => rt'[b].state \notin Up
        /\ b \in Managed /\ b \in DOMAIN c.spec /\ b \notin Displaced(c) =>
             rt'[b].state = rt[b].state
        /\ b \notin Managed \/ b \notin DOMAIN c.spec => rt'[b] = FreshRuntime
  <2> TAKE b \in Boards
  <2>1. rt'[b] = Reconciled(Aged[b], b, c)
    BY <1>1
  <2>2. /\ Aged[b] \in Runtime /\ Aged[b].state = rt[b].state
        /\ Aged[b].override = rt[b].override
    BY <1>2
  <2> DEFINE r == Aged[b]
             n == Reconciled(r, b, c)
  <2>3. /\ n \in Runtime
        /\ n.override = "off" => r.override = "off"
        /\ b \in Displaced(c) => n.state \notin Up
        /\ b \in Managed /\ b \in DOMAIN c.spec /\ b \notin Displaced(c) =>
             n.state = r.state
        /\ b \notin Managed \/ b \notin DOMAIN c.spec => n = FreshRuntime
    <3>1. r \in Runtime
      BY <2>2
    <3> HIDE DEF r
    <3> QED
      BY <3>1, ReconciledType
  <2> HIDE DEF n
  <2> QED
    BY <2>1, <2>2, <2>3 DEF n
<1>5. \A b \in Boards :
        /\ b \in Displaced(c) => ~HasChild(b)'
        /\ b \notin Displaced(c) =>
             /\ HasChild(b)' <=> HasChild(b)
             /\ child'[b] = child[b]
  BY <1>3, FreshType DEF HasChild
<1>6. rt' \in [Boards -> Runtime]
  BY <1>1, <1>4
<1>7. ASSUME NEW b \in Boards
      PROVE  \/ ~HasChild(b)' /\ rt'[b].state \notin Up
             \/ /\ HasChild(b) /\ child'[b] = child[b]
                /\ rt'[b].state = rt[b].state
                /\ b \in DOMAIN c.spec /\ child[b].port = c.spec[b].port
  <2>1. CASE b \in Displaced(c)
    BY <1>4, <1>5, <2>1
  <2>2. CASE b \notin Displaced(c) /\ HasChild(b)
    <3>1. b \in Managed /\ b \in DOMAIN c.spec /\ child[b].port = c.spec[b].port
      BY <1>0, <2>2 DEF Displaced, LaunchedAsConfigured
    <3> QED
      BY <1>4, <1>5, <2>2, <3>1
  <2>3. CASE b \notin Displaced(c) /\ ~HasChild(b)
    <3>1. rt[b].state \notin Up /\ FreshRuntime.state \notin Up
      BY <1>0, <2>3, FreshType DEF IInv, StatusMatchesProcess, Up
    <3>2. rt'[b].state \in {rt[b].state, FreshRuntime.state}
      BY <1>4, <2>3
    <3> QED
      BY <1>5, <2>3, <3>1, <3>2
  <2> QED
    BY <2>1, <2>2, <2>3
<1> QED
  BY <1>1, <1>2, <1>3, <1>4, <1>6, <1>7

(* Taking up a new registry keeps the invariant, whoever does it and      *)
(* wherever it goes next; no tick is under way.                            *)
LEMMA AdoptKeepsInv ==
    ASSUME IInv, NEW c \in Configs, Adopt(c), phase \in {"loop", "lost"},
           phase' \in {"drain", "lost"}, pending' = NoConfig,
           UNCHANGED <<requests, todo, warming, answer, stopping>>
    PROVE  IInv'
<1>1. TypeOK /\ todo = <<>> /\ answer = "none"
  BY DEF IInv, TickCountsWarming, AnswerIsOfAChild
<1>2. /\ config' = c
      /\ stagger' \in Nat /\ lag' \in 0 .. MaxLag
      /\ rt' \in [Boards -> Runtime]
      /\ child' \in [Boards -> Child] /\ squat' \subseteq Ports
  BY AdoptFacts
<1>3. \A b \in Boards : rt'[b].override = "off" => rt[b].override = "off"
  BY AdoptFacts
<1>4. \A b \in Boards : \/ ~HasChild(b)' /\ rt'[b].state \notin Up
                        \/ /\ HasChild(b) /\ child'[b] = child[b]
                           /\ rt'[b].state = rt[b].state
                           /\ b \in DOMAIN c.spec
                           /\ child[b].port = c.spec[b].port
  BY AdoptFacts
<1>5. TypeOK'
  BY <1>1, <1>2 DEF TypeOK
<1>6. \A b \in Boards : child'[b] = child[b] => (HasChild(b)' <=> HasChild(b))
  BY DEF HasChild
<1>7. StatusMatchesProcess'
  BY <1>4, <1>6 DEF IInv, StatusMatchesProcess, Up
<1>8. LaunchedAsConfigured'
  BY <1>2, <1>4, <1>6 DEF LaunchedAsConfigured, Managed
<1>9. StoppedStaysDown'
  BY <1>3, <1>4, <1>6 DEF IInv, StoppedStaysDown
<1> QED
  BY <1>1, <1>5, <1>7, <1>8, <1>9 DEF IInv, TickCountsWarming, AnswerIsOfAChild

LEMMA AbsorbKeepsInv == IInv /\ Absorb => IInv'
<1> SUFFICES ASSUME IInv, Absorb PROVE IInv'
  OBVIOUS
<1>1. /\ phase = "loop" /\ phase' = "drain" /\ pending' = NoConfig
      /\ UNCHANGED <<requests, todo, warming, answer, stopping>>
  BY DEF Absorb
<1>2. CASE pending = NoConfig /\ UNCHANGED <<config, rt, child, squat, stagger, lag>>
  <2>1. TypeOK'
    BY <1>1, <1>2 DEF IInv, TypeOK
  <2> QED
    BY <1>1, <1>2, <2>1 DEF IInv, StatusMatchesProcess, LaunchedAsConfigured,
         StoppedStaysDown, TickCountsWarming, AnswerIsOfAChild, HasChild, Managed
<1>3. CASE pending # NoConfig /\ Adopt(pending)
  <2>1. pending \in Configs
    BY <1>3 DEF IInv, TypeOK
  <2> QED
    BY <1>1, <1>3, <2>1, AdoptKeepsInv
<1> QED
  BY <1>2, <1>3 DEF Absorb

LEMMA ThreadExitsKeepsInv == IInv /\ ThreadExits => IInv'
<1> SUFFICES ASSUME IInv, ThreadExits PROVE IInv'
  OBVIOUS
<1>1. /\ phase \in {"loop", "lost"} /\ phase' = "done" /\ Terminate(Boards)
      /\ rt' = [b \in Boards |-> [rt[b] EXCEPT !.due = 0]]
      /\ UNCHANGED <<config, pending, requests, todo, warming, answer, stagger, lag,
                     stopping>>
  BY DEF ThreadExits
<1>2. TypeOK /\ LaunchedAsConfigured /\ rt \in [Boards -> Runtime]
  BY DEF IInv, TypeOK
<1>3. /\ child' \in [Boards -> Child] /\ squat' \subseteq Ports
      /\ \A b \in Boards : ~HasChild(b)'
  BY <1>1, <1>2, TerminateFacts, FreshType DEF HasChild
<1>4. rt' \in [Boards -> Runtime]
  <2>1. ASSUME NEW b \in Boards PROVE [rt[b] EXCEPT !.due = 0] \in Runtime
    BY <1>2 DEF Runtime
  <2> QED
    BY <1>1, <2>1
<1>5. TypeOK'
  BY <1>1, <1>2, <1>3, <1>4 DEF TypeOK
<1>6. TickCountsWarming' /\ AnswerIsOfAChild'
  BY <1>1 DEF IInv, TickCountsWarming, AnswerIsOfAChild
<1> QED
  BY <1>1, <1>3, <1>5, <1>6 DEF IInv, StatusMatchesProcess, LaunchedAsConfigured,
                                StoppedStaysDown

-----------------------------------------------------------------------------
(* The callers, the children, the other programs and the clock.            *)

LEMMA CallersKeepInv == IInv /\ Callers => IInv'
<1> SUFFICES ASSUME IInv, Callers PROVE IInv'
  OBVIOUS
<1>1. CASE \E c \in Configs : ReloadAlone(c)
  <2> PICK c \in Configs : ReloadAlone(c)
    BY <1>1
  <2>1. /\ phase = "lost" /\ phase' = "lost" /\ pending' = NoConfig /\ Adopt(c)
        /\ UNCHANGED <<requests, todo, warming, answer, stopping>>
    BY DEF ReloadAlone, thread
  <2> QED
    BY <2>1, AdoptKeepsInv
<1>2. CASE /\ UNCHANGED <<config, rt, child, squat, phase, todo, warming, answer, stagger,
                          lag>>
           /\ requests' \in Seq(Commands \X Boards)
           /\ pending' \in Configs \cup {NoConfig}
           /\ stopping' \in BOOLEAN
  <2>1. TypeOK'
    BY <1>2 DEF IInv, TypeOK
  <2> QED
    BY <1>2, <2>1 DEF IInv, StatusMatchesProcess, LaunchedAsConfigured, StoppedStaysDown,
                      TickCountsWarming, AnswerIsOfAChild, HasChild, Managed, Warming
<1>3. CASE \E action \in Commands, b \in Boards : Request(action, b)
  BY <1>2, <1>3 DEF Request, thread, IInv, TypeOK
<1>4. CASE \E c \in Configs : Reload(c)
  BY <1>2, <1>4 DEF Reload, thread, IInv, TypeOK
<1>5. CASE Shutdown
  BY <1>2, <1>5 DEF Shutdown, thread, IInv, TypeOK
<1> QED
  BY <1>1, <1>3, <1>4, <1>5 DEF Callers

(* A child that changes what it does stays the child it is.                *)
LEMMA BecomeKeepsInv ==
    ASSUME IInv, NEW b \in Boards, HasChild(b),
           NEW st \in {"quiet", "serve", "dead"}, Become(b, st)
    PROVE  IInv'
<1>1. /\ child' = [child EXCEPT ![b].st = st] /\ child \in [Boards -> Child]
      /\ UNCHANGED <<config, pending, rt, squat, requests, phase, todo, warming, answer,
                     stagger, lag, stopping>>
  BY DEF Become, thread, IInv, TypeOK
<1>2. child' \in [Boards -> Child]
  BY <1>1 DEF Child
<1>3. \A o \in Boards : /\ HasChild(o)' <=> HasChild(o)
                       /\ child'[o].port = child[o].port
  BY <1>1 DEF HasChild, Child
<1>4. TypeOK'
  BY <1>1, <1>2 DEF IInv, TypeOK
<1>5. AnswerIsOfAChild'
  BY <1>1, <1>3, HeadFacts DEF IInv, AnswerIsOfAChild
<1> QED
  BY <1>1, <1>3, <1>4, <1>5 DEF IInv, StatusMatchesProcess, LaunchedAsConfigured,
                                StoppedStaysDown, TickCountsWarming, Managed, Warming

LEMMA EnvironmentKeepsInv == IInv /\ Environment => IInv'
<1> SUFFICES ASSUME IInv, Environment PROVE IInv'
  OBVIOUS
<1>1. ASSUME NEW b \in Boards,
             ChildServes(b) \/ BindFails(b) \/ ChildWedges(b) \/ ChildExits(b)
      PROVE  IInv'
  <2>1. /\ HasChild(b)
        /\ \E st \in {"quiet", "serve", "dead"} : Become(b, st)
    BY <1>1 DEF ChildServes, BindFails, ChildWedges, ChildExits, Alive, HasChild
  <2> QED
    BY <2>1, BecomeKeepsInv
<1>2. ASSUME UNCHANGED <<config, pending, rt, child, requests, phase, todo, warming,
                         answer, stagger, stopping>>,
             squat' \subseteq Ports, lag' \in 0 .. MaxLag
      PROVE  IInv'
  <2>1. TypeOK'
    BY <1>2 DEF IInv, TypeOK
  <2> QED
    BY <1>2, <2>1 DEF IInv, StatusMatchesProcess, LaunchedAsConfigured, StoppedStaysDown,
                      TickCountsWarming, AnswerIsOfAChild, HasChild, Managed, Warming
<1>3. CASE \E p \in Ports : ForeignTakes(p) \/ ForeignLeaves(p)
  BY <1>2, <1>3, FaultAssumption DEF ForeignTakes, ForeignLeaves, thread, IInv, TypeOK
<1>4. CASE Elapse
  <2>1. lag' \in 0 .. MaxLag
    BY <1>4, TimingAssumption DEF Elapse, IInv, TypeOK
  <2> QED
    BY <1>2, <1>4, <2>1 DEF Elapse, thread, IInv, TypeOK
<1> QED
  BY <1>1, <1>3, <1>4 DEF Environment

-----------------------------------------------------------------------------
THEOREM NextInv == IInv /\ [Next]_vars => IInv'
<1> SUFFICES ASSUME IInv, [Next]_vars PROVE IInv'
  OBVIOUS
<1>1. CASE UNCHANGED vars
  <2>1. TypeOK'
    BY <1>1 DEF vars, thread, IInv, TypeOK
  <2> QED
    BY <1>1, <2>1 DEF vars, thread, IInv, StatusMatchesProcess, LaunchedAsConfigured,
         StoppedStaysDown, TickCountsWarming, AnswerIsOfAChild, HasChild, Managed, Warming
<1>2. CASE ThreadStep
  BY <1>2, AbsorbKeepsInv, CommandsKeepInv, DropKeepsInv, TickStartKeepsInv,
     VisitSomeKeepsInv, ThreadExitsKeepsInv DEF ThreadStep
<1>3. CASE Callers
  BY <1>3, CallersKeepInv
<1>4. CASE Environment
  BY <1>4, EnvironmentKeepsInv
<1> QED
  BY <1>1, <1>2, <1>3, <1>4 DEF Next

(* The supervisor's state is always one the invariant describes, for every *)
(* registry, however many boards it lists, and every setting of its timers.*)
THEOREM SpecInv == Spec => []IInv
BY InitInv, NextInv, PTL DEF Spec

(* The variables keep their types: the countdowns, the strikes and the     *)
(* restarts never leave their ranges.                                      *)
THEOREM TypeCorrect == Spec => []TypeOK
<1>1. IInv => TypeOK
  BY DEF IInv
<1> QED
  BY <1>1, SpecInv, PTL

(* A board is shown as starting or running exactly while it has a child.   *)
THEOREM StatusCorrect == Spec => []StatusMatchesProcess
<1>1. IInv => StatusMatchesProcess
  BY DEF IInv
<1> QED
  BY <1>1, SpecInv, PTL

(* No reload leaves an orphan or a child with a stale command line.        *)
THEOREM ChildrenCorrect == Spec => []LaunchedAsConfigured
<1>1. IInv => LaunchedAsConfigured
  BY DEF IInv
<1> QED
  BY <1>1, SpecInv, PTL

(* A board its user stopped has no child.                                  *)
THEOREM StopCorrect == Spec => []StoppedStaysDown
<1>1. IInv => StoppedStaysDown
  BY DEF IInv
<1> QED
  BY <1>1, SpecInv, PTL

(* No tick counts fewer warming boards than there are.                     *)
THEOREM CountCorrect == Spec => []TickCountsWarming
<1>1. IInv => TickCountsWarming
  BY DEF IInv
<1> QED
  BY <1>1, SpecInv, PTL
=============================================================================
