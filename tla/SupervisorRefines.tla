--------------------------- MODULE SupervisorRefines ---------------------------
(***************************************************************************)
(* Proved of Supervisor with its inductive invariant: every behaviour is   *)
(* one BoardSlots allows, every launch keeps to the cap, no tick gives up  *)
(* a warming board because its demand aged out, and no health check ends a *)
(* child but for its own start_timeout or its own strikes in a row.        *)
(***************************************************************************)
EXTENDS SupervisorProofs, SupervisorProbes

-----------------------------------------------------------------------------
(* The slots before and after a step.                                      *)

slots == [b \in Boards |-> SlotOf(b)]
OnHold == {b \in Boards : rt[b].override = "off"}

(* The child of board b, and its share in the warming count, stay as they  *)
(* are.                                                                    *)
Kept(b) ==
    /\ HasChild(b)' <=> HasChild(b)
    /\ child'[b].port = child[b].port
    /\ rt'[b].state = "starting" <=> rt[b].state = "starting"

LEMMA SlotKept == ASSUME NEW b, Kept(b) PROVE SlotOf(b)' = SlotOf(b)
BY DEF SlotOf, Kept

LEMMA SlotFreed == ASSUME NEW b, ~HasChild(b)' PROVE SlotOf(b)' = Slots!Free
BY DEF SlotOf, Slots!Free

(* A step that keeps some children and ends the others, under one          *)
(* registry, releases their slots; what it does to the holds is apart.     *)
LEMMA SlotsReleased ==
    ASSUME NEW S \in SUBSET Boards,
           \A b \in Boards : IF b \in S THEN ~HasChild(b)' ELSE Kept(b)
    PROVE  slots' = Slots!FreeSlots(S)
<1>1. \A b \in Boards : SlotOf(b)' = IF b \in S THEN Slots!Free ELSE SlotOf(b)
  BY SlotKept, SlotFreed
<1> QED
  BY <1>1 DEF slots, Slots!FreeSlots

(* The holds change with the overrides.                                    *)
LEMMA HoldsKept ==
    ASSUME \A b \in Boards : rt'[b].override = "off" <=> rt[b].override = "off"
    PROVE  OnHold' = OnHold
BY DEF OnHold

LEMMA ReleaseStep ==
    ASSUME NEW S \in SUBSET Boards, config' = config,
           \A b \in Boards : IF b \in S THEN ~HasChild(b)' ELSE Kept(b),
           \A b \in Boards : rt'[b].override = "off" <=> rt[b].override = "off"
    PROVE  Slots!SlotsNext
<1>1. slots' = Slots!FreeSlots(S) /\ OnHold' = OnHold
  BY SlotsReleased, HoldsKept
<1>2. Slots!Release(S)
  BY <1>1 DEF Slots!Release, slots, OnHold
<1> QED
  BY <1>2 DEF Slots!SlotsNext

LEMMA KeepStep ==
    ASSUME config' = config, \A b \in Boards : Kept(b),
           \A b \in Boards : rt'[b].override = "off" <=> rt[b].override = "off"
    PROVE  Slots!SlotsNext
<1>1. \A b \in Boards : IF b \in {} THEN ~HasChild(b)' ELSE Kept(b)
  OBVIOUS
<1>2. {} \in SUBSET Boards
  OBVIOUS
<1> QED
  BY <1>1, <1>2, ReleaseStep

(* The instance of Cardinality is Cardinality.                             *)
LEMMA SameCardinality == \A S : Slots!Cardinality(S) = Cardinality(S)
BY DEF Slots!Cardinality, Cardinality

-----------------------------------------------------------------------------
(* The visits.                                                             *)

LEMMA VisitFacts ==
    ASSUME IInv, NEW b \in Boards, NEW r, NEW warm, Visit(b, r, warm)
    PROVE  /\ config' = config /\ phase = "tick" /\ rt'[b] = r
           /\ \A o \in Boards : o # b => rt'[o] = rt[o]
           /\ child \in [Boards -> Child]
           /\ \A o \in Boards : HasChild(o) <=> rt[o].state \in Up
BY DEF Visit, IInv, TypeOK, StatusMatchesProcess, Up

LEMMA QuietRefines ==
    ASSUME IInv, NEW b \in Boards, QuietShape(b)
    PROVE  Slots!SlotsNext
<1> PICK r \in Runtime :
        /\ Visit(b, r, warming) /\ UNCHANGED <<child, squat, stagger>>
        /\ r.state \in Up <=> rt[b].state \in Up
        /\ r.state = "starting" => rt[b].state = "starting"
        /\ r.override = rt[b].override
  BY DEF QuietShape
<1>1. /\ config' = config /\ phase = "tick" /\ rt'[b] = r
      /\ \A o \in Boards : o # b => rt'[o] = rt[o]
      /\ \A o \in Boards : HasChild(o) <=> rt[o].state \in Up
  BY VisitFacts
<1>2. \A o \in Boards : rt'[o].override = "off" <=> rt[o].override = "off"
  BY <1>1
<1>3. \A o \in Boards : (HasChild(o)' <=> HasChild(o)) /\ child'[o] = child[o]
  BY DEF HasChild
<1>4. CASE rt[b].state = "starting" /\ r.state # "starting"
  <2>1. HasChild(b) /\ HasChild(b)' /\ child'[b] = child[b]
    BY <1>1, <1>3, <1>4 DEF Up
  <2>2. /\ SlotOf(b) = [use |-> "warming", port |-> child[b].port]
        /\ SlotOf(b)' = [use |-> "up", port |-> child[b].port]
    BY <1>1, <1>4, <2>1 DEF SlotOf
  <2>3. \A o \in Boards : o # b => SlotOf(o)' = SlotOf(o)
    BY <1>1, <1>3, SlotKept DEF Kept
  <2>4. [SlotOf(b) EXCEPT !.use = "up"] = SlotOf(b)' /\ SlotOf(b).use = "warming"
    BY <2>2
  <2>5. slots' = [slots EXCEPT ![b].use = "up"] /\ slots[b].use = "warming"
    BY <2>3, <2>4 DEF slots
  <2>6. Slots!ComeUp(b)
    BY <1>1, <1>2, <2>5, HoldsKept DEF Slots!ComeUp, slots, OnHold
  <2> QED
    BY <2>6 DEF Slots!SlotsNext
<1>5. CASE rt[b].state = "starting" <=> r.state = "starting"
  <2>1. \A o \in Boards : Kept(o)
    BY <1>1, <1>3, <1>5 DEF Kept
  <2> QED
    BY <1>1, <1>2, <2>1, KeepStep
<1> QED
  BY <1>4, <1>5

LEMMA EndingRefines ==
    ASSUME IInv, NEW b \in Boards, EndingShape(b)
    PROVE  Slots!SlotsNext
<1> PICK r \in Runtime :
        /\ Visit(b, r, warming) /\ stagger' = stagger
        /\ child'[b] = NoChild
        /\ \A other \in Boards : other # b => child'[other] = child[other]
        /\ r.override = rt[b].override
  BY DEF EndingShape
<1>1. /\ config' = config /\ rt'[b] = r
      /\ \A o \in Boards : o # b => rt'[o] = rt[o]
  BY VisitFacts
<1>2. \A o \in Boards : rt'[o].override = "off" <=> rt[o].override = "off"
  BY <1>1
<1>3. \A o \in Boards : IF o \in {b} THEN ~HasChild(o)' ELSE Kept(o)
  BY <1>1, FreshType DEF Kept, HasChild
<1> QED
  BY <1>1, <1>2, <1>3, ReleaseStep

(* While a tick is under way the boards that are warming are the slots     *)
(* that are.                                                               *)
LEMMA WarmingSlots ==
    ASSUME IInv, phase # "done"
    PROVE  Slots!WarmingUp = Warming
<1>1. \A b \in Boards : SlotOf(b).use = "warming" <=> rt[b].state = "starting"
  BY DEF SlotOf, IInv, StatusMatchesProcess
<1> QED
  BY <1>1 DEF Slots!WarmingUp, Warming

LEMMA LaunchRefines ==
    ASSUME IInv, NEW b \in Boards, Launch(b)
    PROVE  Slots!SlotsNext
<1> DEFINE port == config.spec[b].port
           r == [rt[b] EXCEPT !.state = "starting", !.due = StartTimeout + 1]
           launched == [st |-> "quiet", port |-> port]
<1>1. /\ Visit(b, r, warming + 1) /\ MaySpawn(b)
      /\ child' = [child EXCEPT ![b] = launched]
  BY DEF Launch
<1>2. /\ config' = config /\ phase = "tick" /\ rt'[b] = r /\ rt[b] \in Runtime
      /\ \A o \in Boards : o # b => rt'[o] = rt[o]
      /\ child \in [Boards -> Child]
  BY <1>1, VisitFacts DEF IInv, TypeOK
<1>3. /\ config \in Configs /\ b \in Managed /\ b = Head(todo) /\ todo # <<>>
  BY <1>1 DEF IInv, TypeOK, TickCountsWarming, Visit, Managed
<1>4. port \in Ports /\ port # NoPort /\ config.maxWarming \in Nat
  BY <1>3, ConfigFacts, ConfigAssumption DEF Managed
<1>5. ~HasChild(b) /\ warming < config.maxWarming /\ rt[b].override # "off"
  BY <1>1 DEF MaySpawn, Wanted, Desired
<1>6. r.state = "starting" /\ r.override = rt[b].override
  BY <1>2 DEF Runtime
<1> HIDE DEF r
<1>7. /\ SlotOf(b) = Slots!Free
      /\ SlotOf(b)' = [use |-> "warming", port |-> port]
  <2>1. HasChild(b)' /\ child'[b].port = port
    BY <1>1, <1>2 DEF HasChild
  <2> QED
    BY <1>2, <1>5, <1>6, <2>1 DEF SlotOf, Slots!Free
<1>8. \A o \in Boards : o # b => SlotOf(o)' = SlotOf(o)
  <2>1. \A o \in Boards : o # b => Kept(o)
    BY <1>1, <1>2 DEF Kept, HasChild
  <2> QED
    BY <2>1, SlotKept
<1>9. \A o \in Boards : SlotOf(o).port # port
  <2> TAKE o \in Boards
  <2>1. CASE ~HasChild(o)
    BY <1>4, <2>1 DEF SlotOf
  <2>2. CASE HasChild(o)
    <3>1. o \in Managed /\ child[o].port = config.spec[o].port /\ o # b
      BY <1>5, <2>2 DEF IInv, LaunchedAsConfigured
    <3>2. config.spec[o].port # config.spec[b].port
      BY <1>3, <3>1, ConfigFacts DEF Managed
    <3> QED
      BY <2>2, <3>1, <3>2 DEF SlotOf
  <2> QED
    BY <2>1, <2>2
<1>10. Slots!Cardinality(Slots!WarmingUp) < config.maxWarming
  <2>1. Slots!WarmingUp = Warming /\ warming \in Nat
    BY <1>2, WarmingSlots DEF IInv, TypeOK
  <2> QED
    BY <1>4, <1>5, <2>1, LaunchCounts, SameCardinality
<1>11. OnHold' = OnHold /\ b \notin OnHold
  <2>1. \A o \in Boards : rt'[o].override = rt[o].override
    BY <1>2, <1>6
  <2> QED
    BY <1>5, <2>1 DEF OnHold
<1>12. /\ slots' = [slots EXCEPT ![b] = [use |-> "warming", port |-> port]]
       /\ slots[b] = Slots!Free /\ \A o \in Boards : slots[o].port # port
  BY <1>7, <1>8, <1>9 DEF slots
<1>13. Slots!Occupy(b, port)
  BY <1>2, <1>10, <1>11, <1>12 DEF Slots!Occupy, slots, OnHold
<1> QED
  BY <1>4, <1>13 DEF Slots!SlotsNext
-----------------------------------------------------------------------------
(* The commands and the rest of the steps.                                 *)

LEMMA CommandRefines ==
    ASSUME IInv, NEW b \in Boards, CommandShape(b)
    PROVE  Slots!SlotsNext
<1> PICK action \in Commands, r \in Runtime :
        /\ Handle(action, b, r)
        /\ \A other \in Boards : other # b => child'[other] = child[other]
        /\ \/ /\ child'[b] = NoChild
              /\ rt[b].override = "off" => r.override = "off"
           \/ child'[b] = child[b] /\ r.state = rt[b].state /\ r.override # "off"
  BY DEF CommandShape
<1>1. config' = config /\ rt' = [Aged EXCEPT ![b] = r]
  BY DEF Handle
<1>2. /\ rt'[b] = r
      /\ \A o \in Boards : o # b => /\ rt'[o].state = rt[o].state
                                  /\ rt'[o].override = rt[o].override
  BY <1>1, ClockFacts DEF IInv
<1>3. \A o \in Boards : o # b => Kept(o)
  BY <1>2 DEF Kept, HasChild
<1>4. /\ r.override = "off" => OnHold' = OnHold \cup {b}
      /\ r.override # "off" => OnHold' = OnHold \ {b}
  BY <1>2 DEF OnHold
<1>5. CASE child'[b] = NoChild /\ (rt[b].override = "off" => r.override = "off")
  <2>1. \A o \in Boards : IF o \in {b} THEN ~HasChild(o)' ELSE Kept(o)
    BY <1>3, <1>5, FreshType DEF HasChild
  <2>2. CASE r.override = "off"
    <3>1. slots' = Slots!FreeSlots({b})
      BY <2>1, SlotsReleased
    <3>2. Slots!Hold(b)
      BY <1>1, <1>4, <2>2, <3>1 DEF Slots!Hold, slots, OnHold
    <3> QED
      BY <3>2 DEF Slots!SlotsNext
  <2>3. CASE r.override # "off"
    <3>1. \A o \in Boards : rt'[o].override = "off" <=> rt[o].override = "off"
      BY <1>2, <1>5, <2>3
    <3> QED
      BY <1>1, <2>1, <3>1, ReleaseStep
  <2> QED
    BY <2>2, <2>3
<1>6. CASE child'[b] = child[b] /\ r.state = rt[b].state /\ r.override # "off"
  <2>1. \A o \in Boards : Kept(o)
    BY <1>2, <1>3, <1>6 DEF Kept, HasChild
  <2>2. slots' = slots
    BY <2>1, SlotKept DEF slots
  <2>3. Slots!LetGo(b)
    BY <1>1, <1>4, <1>6, <2>2 DEF Slots!LetGo, slots, OnHold
  <2> QED
    BY <2>3 DEF Slots!SlotsNext
<1> QED
  BY <1>5, <1>6

LEMMA AdoptRefines ==
    ASSUME IInv, phase # "done", NEW c \in Configs, Adopt(c)
    PROVE  Slots!SlotsNext
<1> PICK S \in SUBSET Boards : S = {b \in Boards : ~HasChild(b)'}
  OBVIOUS
<1> PICK H \in SUBSET Boards : H = {b \in Boards : rt'[b].override # "off"}
  OBVIOUS
<1>1. config' \in Configs
  BY AdoptFacts
<1>2. \A b \in Boards : ~HasChild(b)' \/ Kept(b)
  BY AdoptFacts DEF Kept, HasChild
<1>3. \A b \in Boards : rt'[b].override = "off" => rt[b].override = "off"
  BY AdoptFacts
<1>4. \A b \in Boards : IF b \in S THEN ~HasChild(b)' ELSE Kept(b)
  BY <1>2
<1>5. OnHold' = OnHold \ H
  BY <1>3 DEF OnHold
<1>6. slots' = Slots!FreeSlots(S)
  BY <1>4, SlotsReleased
<1>7. config'.maxWarming \in Nat \ {0}
  BY <1>1, ConfigFacts
<1>8. Slots!Reconfigure(S, H)
  BY <1>5, <1>6, <1>7 DEF Slots!Reconfigure, slots, OnHold
<1> QED
  BY <1>8 DEF Slots!SlotsNext

LEMMA AbsorbRefines ==
    ASSUME IInv, Absorb
    PROVE  Slots!SlotsNext
<1>1. CASE UNCHANGED <<config, rt, child>>
  BY <1>1, KeepStep DEF Kept, HasChild
<1>2. CASE pending # NoConfig /\ Adopt(pending)
  <2>1. pending \in Configs /\ phase # "done"
    BY <1>2 DEF IInv, TypeOK, Absorb
  <2> QED
    BY <1>2, <2>1, AdoptRefines
<1> QED
  BY <1>1, <1>2 DEF Absorb

LEMMA ThreadExitsRefines ==
    ASSUME IInv, ThreadExits
    PROVE  Slots!SlotsNext
<1>1. /\ config' = config /\ Terminate(Boards)
      /\ rt' = [b \in Boards |-> [rt[b] EXCEPT !.due = 0]]
      /\ rt \in [Boards -> Runtime] /\ TypeOK /\ LaunchedAsConfigured
  BY DEF ThreadExits, IInv, TypeOK
<1>2. \A b \in Boards : ~HasChild(b)'
  BY <1>1, TerminateFacts, FreshType DEF HasChild
<1>3. \A b \in Boards : rt'[b].override = rt[b].override
  BY <1>1 DEF Runtime
<1>4. \A b \in Boards : IF b \in Boards THEN ~HasChild(b)' ELSE Kept(b)
  BY <1>2
<1>5. Boards \in SUBSET Boards
  OBVIOUS
<1> QED
  BY <1>1, <1>3, <1>4, <1>5, ReleaseStep

(* What neither the registry, nor a runtime, nor a slot's owner feels.     *)
LEMMA ElsewhereRefines ==
    ASSUME IInv,
           \/ \E b \in Boards : Probe(b) \/ SpawnRaises(b)
           \/ Drop \/ TickStart \/ Callers \/ Environment
    PROVE  Slots!SlotsNext
<1>1. CASE TickStart
  <2>1. config' = config /\ child' = child /\ rt' = Aged
    BY <1>1 DEF TickStart
  <2>2. \A b \in Boards : rt'[b].state = rt[b].state /\ rt'[b].override = rt[b].override
    BY <2>1, ClockFacts DEF IInv
  <2> QED
    BY <2>1, <2>2, KeepStep DEF Kept, HasChild
<1>2. CASE \E b \in Boards : ChildServes(b) \/ BindFails(b) \/ ChildWedges(b) \/ ChildExits(b)
  <2> PICK b \in Boards : ChildServes(b) \/ BindFails(b) \/ ChildWedges(b) \/ ChildExits(b)
    BY <1>2
  <2> PICK st \in {"quiet", "serve", "dead"} : HasChild(b) /\ Become(b, st)
    BY DEF ChildServes, BindFails, ChildWedges, ChildExits, Alive, HasChild
  <2>1. /\ child \in [Boards -> Child] /\ child' = [child EXCEPT ![b].st = st]
        /\ config' = config /\ rt' = rt
    BY DEF Become, IInv, TypeOK
  <2>2. \A o \in Boards : (HasChild(o)' <=> HasChild(o)) /\ child'[o].port = child[o].port
    BY <2>1 DEF HasChild, Child
  <2> QED
    BY <2>1, <2>2, KeepStep DEF Kept
<1>3. CASE UNCHANGED <<config, rt, child>>
  BY <1>3, KeepStep DEF Kept, HasChild
<1>4. CASE (\E b \in Boards : Probe(b) \/ SpawnRaises(b)) \/ Drop
  BY <1>3, <1>4 DEF Probe, SpawnRaises, Drop
<1>6. CASE Callers
  <2>1. CASE \E c \in Configs : ReloadAlone(c)
    BY <2>1, AdoptRefines DEF ReloadAlone
  <2> QED
    BY <1>3, <1>6, <2>1 DEF Callers, Request, Reload, Shutdown
<1>5. CASE (\E p \in Ports : ForeignTakes(p) \/ ForeignLeaves(p)) \/ Elapse
  BY <1>3, <1>5 DEF ForeignTakes, ForeignLeaves, Elapse
<1> QED
  BY <1>1, <1>2, <1>4, <1>5, <1>6 DEF Environment

-----------------------------------------------------------------------------
(* Every step of the supervisor is a step of its slots, or none.           *)
THEOREM NextRefines == IInv /\ [Next]_vars => [Slots!SlotsNext]_(Slots!slotVars)
<1> SUFFICES ASSUME IInv, [Next]_vars PROVE [Slots!SlotsNext]_(Slots!slotVars)
  OBVIOUS
<1>1. CASE UNCHANGED vars
  <2>1. \A b \in Boards : Kept(b)
    BY <1>1 DEF vars, Kept, HasChild
  <2>2. slots' = slots
    BY <2>1, SlotKept DEF slots
  <2>3. config' = config /\ rt' = rt
    BY <1>1 DEF vars
  <2> QED
    BY <2>2, <2>3 DEF Slots!slotVars, slots
<1>2. CASE ThreadStep
  <2>1. CASE \E b \in Boards : VisitSome(b)
    BY <2>1, VisitShapes, QuietRefines, EndingRefines, LaunchRefines, ElsewhereRefines
  <2>2. CASE \E b \in Boards : Demand(b) \/ Start(b) \/ Stop(b) \/ Restart(b)
    BY <2>2, CommandShapes, CommandRefines
  <2>3. CASE Absorb \/ ThreadExits \/ Drop \/ TickStart
    BY <2>3, AbsorbRefines, ThreadExitsRefines, ElsewhereRefines
  <2> QED
    BY <1>2, <2>1, <2>2, <2>3 DEF ThreadStep
<1>3. CASE Callers \/ Environment
  BY <1>3, ElsewhereRefines
<1> QED
  BY <1>1, <1>2, <1>3 DEF Next

(* Whatever the callers, the children and the machine do, the supervisor   *)
(* does to processes only what BoardSlots allows.                          *)
THEOREM Refinement == Spec => ImplementsSlots
<1>1. Init => Slots!SlotsInit
  <2> SUFFICES ASSUME Init PROVE Slots!SlotsInit
    OBVIOUS
  <2>1. \A b \in Boards : SlotOf(b) = Slots!Free /\ rt[b].override # "off"
    BY FreshType DEF Init, SlotOf, HasChild, Slots!Free
  <2>2. config.maxWarming \in Nat \ {0}
    BY ConfigFacts DEF Init
  <2> QED
    BY <2>1, <2>2 DEF Slots!SlotsInit
<1>2. IInv /\ [Next]_vars => [Slots!SlotsNext]_(Slots!slotVars)
  BY NextRefines
<1> QED
  BY <1>1, <1>2, SpecInv, PTL DEF Spec, ImplementsSlots, Slots!SlotsSpec

(* So what BoardSlots promises of slots holds of the children: no two of   *)
(* them were given the same port, and no board on hold has one.            *)
THEOREM PromisesKept == Spec => [](Slots!PortsApart /\ Slots!HeldIsFree)
<1>1. IInv => Slots!PortsApart /\ Slots!HeldIsFree
  <2> SUFFICES ASSUME IInv PROVE Slots!PortsApart /\ Slots!HeldIsFree
    OBVIOUS
  <2>1. \A b \in Boards : slots[b].use # "free" <=> HasChild(b)
    BY DEF slots, SlotOf
  <2>2. ASSUME NEW x \in Boards, NEW y \in Boards, x # y,
               slots[x].use # "free", slots[y].use # "free"
        PROVE  slots[x].port # slots[y].port
    <3>1. HasChild(x) /\ HasChild(y)
      BY <2>1, <2>2
    <3>2. config.spec[x].port # config.spec[y].port
      BY <2>2, <3>1, ConfigFacts DEF IInv, TypeOK, LaunchedAsConfigured, Managed
    <3> QED
      BY <3>1, <3>2 DEF IInv, LaunchedAsConfigured, slots, SlotOf
  <2>3. ASSUME NEW b \in OnHold PROVE slots[b] = Slots!Free
    BY <2>3 DEF IInv, StoppedStaysDown, OnHold, slots, SlotOf, Slots!Free
  <2> QED
    BY <2>2, <2>3 DEF Slots!PortsApart, Slots!HeldIsFree, slots, OnHold
<1> QED
  BY <1>1, SpecInv, PTL

-----------------------------------------------------------------------------
(* No board gets a child by a step that is not its launch.                 *)
LEMMA OnlyLaunches ==
    ASSUME IInv, [Next]_vars, NEW b \in Boards, ~HasChild(b), HasChild(b)'
    PROVE  Launch(b)
<1>0. child \in [Boards -> Child]
  BY DEF IInv, TypeOK
<1>1. CASE UNCHANGED <<child>>
  BY <1>1 DEF HasChild
<1>2. ASSUME NEW S, Terminate(S)
      PROVE  FALSE
  BY <1>0, <1>2, FreshType DEF Terminate, HasChild
<1>3. ASSUME NEW o \in Boards, VisitSome(o)
      PROVE  Launch(b)
  <2>1. CASE QuietShape(o)
    BY <2>1 DEF QuietShape, HasChild
  <2>2. CASE EndingShape(o)
    BY <2>2, FreshType DEF EndingShape, HasChild
  <2>3. CASE Probe(o) \/ SpawnRaises(o)
    BY <2>3 DEF Probe, SpawnRaises, HasChild
  <2>4. CASE Launch(o)
    BY <1>0, <2>4 DEF Launch, HasChild
  <2> QED
    BY <1>3, <2>1, <2>2, <2>3, <2>4, VisitShapes
<1>4. ASSUME NEW o \in Boards, Demand(o) \/ Start(o) \/ Stop(o) \/ Restart(o)
      PROVE  FALSE
  BY <1>1, <1>2, <1>4 DEF Demand, Start, Stop, Restart, HasChild
<1>5. CASE Absorb \/ Drop \/ TickStart \/ ThreadExits
  BY <1>2, <1>5 DEF Absorb, Adopt, Drop, TickStart, ThreadExits, HasChild
<1>6. CASE Callers
  BY <1>2, <1>6 DEF Callers, Request, Reload, ReloadAlone, Adopt, Shutdown, HasChild
<1>7. CASE Environment
  <2>1. ASSUME NEW o \in Boards, NEW st, HasChild(o), Become(o, st)
        PROVE  FALSE
    BY <1>0, <2>1 DEF Become, HasChild
  <2>2. CASE \E o \in Boards : ChildServes(o) \/ BindFails(o) \/ ChildWedges(o) \/ ChildExits(o)
    BY <2>1, <2>2 DEF ChildServes, BindFails, ChildWedges, ChildExits, Alive, HasChild
  <2>3. CASE (\E p \in Ports : ForeignTakes(p) \/ ForeignLeaves(p)) \/ Elapse
    BY <2>3 DEF ForeignTakes, ForeignLeaves, Elapse, HasChild
  <2> QED
    BY <1>7, <2>2, <2>3 DEF Environment
<1>8. CASE UNCHANGED vars
  BY <1>8 DEF vars, HasChild
<1> QED
  BY <1>3, <1>4, <1>5, <1>6, <1>7, <1>8 DEF Next, ThreadStep

(* Every child is launched within the cap of the registry in force.        *)
THEOREM LaunchesCorrect == Spec => LaunchesWithinLimit
<1> DEFINE A == \A b \in Boards : ~HasChild(b) /\ HasChild(b)' =>
                    Cardinality(Warming') <= config.maxWarming
<1>1. IInv /\ [Next]_vars => [A]_vars
  <2> SUFFICES ASSUME IInv, [Next]_vars, NEW b \in Boards, ~HasChild(b), HasChild(b)'
               PROVE  Cardinality(Warming') <= config.maxWarming
    OBVIOUS
  <2>1. Launch(b)
    BY OnlyLaunches
  <2>2. warming < config.maxWarming /\ warming \in Nat /\ config.maxWarming \in Nat
    BY <2>1, ConfigFacts DEF Launch, MaySpawn, IInv, TypeOK
  <2> QED
    BY <2>1, <2>2, LaunchCounts
<1> QED
  BY <1>1, SpecInv, PTL DEF Spec, LaunchesWithinLimit
-----------------------------------------------------------------------------
(* During a tick, only the visit of a board takes its child away.          *)
LEMMA OnlyItsVisitEnds ==
    ASSUME IInv, [Next]_vars, phase = "tick", NEW b \in Boards,
           HasChild(b), ~HasChild(b)'
    PROVE  Reclaim(b) \/ StartTimesOut(b) \/ Wedged(b) \/ HandleExit(b)
<1>0. child \in [Boards -> Child]
  BY DEF IInv, TypeOK
<1>1. ~UNCHANGED child
  BY DEF HasChild
<1>2. ASSUME NEW o \in Boards, VisitSome(o)
      PROVE  Reclaim(b) \/ StartTimesOut(b) \/ Wedged(b) \/ HandleExit(b)
  <2>1. \/ Reclaim(o) \/ StartTimesOut(o) \/ Wedged(o) \/ HandleExit(o) \/ Launch(o)
    BY <1>1, <1>2 DEF VisitSome, Probe, StartsServing, StillWarming, Healthy, Strike, HoldOff,
                      AwaitSlot, SpawnRefused, SpawnRaises
  <2>2. CASE Launch(o)
    BY <1>0, <2>2 DEF Launch, HasChild
  <2>3. CASE Reclaim(o) \/ StartTimesOut(o) \/ Wedged(o)
    <3>1. Terminate({o})
      BY <2>3 DEF Reclaim, StartTimesOut, Wedged
    <3>2. o = b
      BY <3>1 DEF Terminate, HasChild
    <3> QED
      BY <2>3, <3>2
  <2>4. CASE HandleExit(o)
    <3>1. o = b
      BY <1>0, <2>4 DEF HandleExit, HasChild
    <3> QED
      BY <2>4, <3>1
  <2> QED
    BY <2>1, <2>2, <2>3, <2>4
<1>3. ~\E o \in Boards : Demand(o) \/ Start(o) \/ Stop(o) \/ Restart(o)
  BY DEF Demand, Start, Stop, Restart, Handle
<1>4. ~(Absorb \/ Drop \/ TickStart \/ ThreadExits)
  BY DEF Absorb, Drop, TickStart, ThreadExits
<1>5. ~Callers
  BY <1>1 DEF Callers, Request, Reload, ReloadAlone, Shutdown
<1>6. ~Environment
  <2>1. ASSUME NEW o \in Boards, NEW st \in {"quiet", "serve", "dead"},
               HasChild(o), Become(o, st)
        PROVE  FALSE
    BY <1>0, <2>1 DEF Become, HasChild, Child
  <2>2. ~\E o \in Boards : ChildServes(o) \/ BindFails(o) \/ ChildWedges(o) \/ ChildExits(o)
    BY <2>1 DEF ChildServes, BindFails, ChildWedges, ChildExits, Alive, HasChild
  <2>3. ~((\E p \in Ports : ForeignTakes(p) \/ ForeignLeaves(p)) \/ Elapse)
    BY <1>1 DEF ForeignTakes, ForeignLeaves, Elapse
  <2> QED
    BY <2>2, <2>3 DEF Environment
<1>7. ~UNCHANGED vars
  BY <1>1 DEF vars
<1> QED
  BY <1>2, <1>3, <1>4, <1>5, <1>6, <1>7 DEF Next, ThreadStep

(* A tick ends a warming child only when its start timed out, its board is *)
(* disabled, or it is a manual board that nobody started: never because    *)
(* the demand of an on_demand board aged out (_desired).                   *)
THEOREM WarmupCorrect == Spec => WarmupSurvivesIdle
<1>1. IInv /\ [Next]_vars =>
        [\A b \in Boards :
           (phase = "tick" /\ rt[b].state = "starting" /\ Alive(b) /\ ~HasChild(b)') =>
              \/ rt[b].due = 0
              \/ ~config.spec[b].enabled
              \/ config.spec[b].autostart = "manual" /\ rt[b].override = "none"]_vars
  <2> SUFFICES ASSUME IInv, [Next]_vars, NEW b \in Boards, phase = "tick",
                      rt[b].state = "starting", Alive(b), ~HasChild(b)'
               PROVE  \/ rt[b].due = 0
                      \/ ~config.spec[b].enabled
                      \/ config.spec[b].autostart = "manual" /\ rt[b].override = "none"
    OBVIOUS
  <2>1. HasChild(b)
    BY DEF Alive, HasChild
  <2>2. Reclaim(b) \/ StartTimesOut(b) \/ Wedged(b) \/ HandleExit(b)
    BY <2>1, OnlyItsVisitEnds
  <2>3. CASE Reclaim(b)
    <3>1. /\ config \in Configs /\ rt[b] \in Runtime /\ rt[b].override # "off"
          /\ b \in DOMAIN config.spec
      BY <2>1 DEF IInv, TypeOK, StoppedStaysDown, LaunchedAsConfigured, Managed
    <3>2. config.spec[b].autostart \in Policies /\ rt[b].override \in {"none", "on"}
      BY <3>1, ConfigFacts DEF Runtime, Spec_
    <3> QED
      BY <2>3, <3>2 DEF Reclaim, Wanted, Desired, Policies
  <2>4. CASE StartTimesOut(b)
    BY <2>4 DEF StartTimesOut
  <2> QED
    BY <2>2, <2>3, <2>4 DEF Wedged, HandleExit, Alive
<1> QED
  BY <1>1, SpecInv, PTL DEF Spec, WarmupSurvivesIdle
-----------------------------------------------------------------------------
(* Between two ticks, only a command of its user, a reload that displaces  *)
(* it, or the shutdown takes the child of a board away.                    *)
LEMMA OnlyCallersEnd ==
    ASSUME IInv, [Next]_vars, phase # "tick", NEW b \in Boards,
           HasChild(b), ~HasChild(b)'
    PROVE  \/ Stop(b) \/ Restart(b)
           \/ phase \in {"loop", "lost"} /\ (stopping \/ b \in Displaced(config'))
<1>0. child \in [Boards -> Child]
  BY DEF IInv, TypeOK
<1>1. ~UNCHANGED child
  BY DEF HasChild
<1>2. ASSUME NEW S, Terminate(S)
      PROVE  b \in S
  BY <1>2 DEF Terminate, HasChild
<1>3. ~\E o \in Boards : VisitSome(o)
  BY DEF VisitSome, Reclaim, Probe, StartsServing, StillWarming, StartTimesOut, Healthy, Strike,
         Wedged, HandleExit, HoldOff, AwaitSlot, SpawnRefused, SpawnRaises, Launch, Visit
<1>4. ASSUME NEW o \in Boards, Demand(o) \/ Start(o) \/ Stop(o) \/ Restart(o)
      PROVE  Stop(b) \/ Restart(b)
  <2>1. Stop(o) \/ Restart(o)
    BY <1>1, <1>4 DEF Demand, Start
  <2>2. o = b
    BY <1>2, <2>1 DEF Stop, Restart
  <2> QED
    BY <2>1, <2>2
<1>5. CASE Absorb
  <2>1. Terminate(Displaced(config')) /\ phase = "loop"
    BY <1>1, <1>5 DEF Absorb, Adopt
  <2> QED
    BY <1>2, <2>1
<1>6. CASE ThreadExits
  BY <1>6 DEF ThreadExits
<1>7. ~(Drop \/ TickStart)
  BY <1>1 DEF Drop, TickStart
<1>8. ~Environment
  <2>1. ASSUME NEW o \in Boards, NEW st \in {"quiet", "serve", "dead"},
               HasChild(o), Become(o, st)
        PROVE  FALSE
    BY <1>0, <2>1 DEF Become, HasChild, Child
  <2>2. ~\E o \in Boards : ChildServes(o) \/ BindFails(o) \/ ChildWedges(o) \/ ChildExits(o)
    BY <2>1 DEF ChildServes, BindFails, ChildWedges, ChildExits, Alive, HasChild
  <2>3. ~((\E p \in Ports : ForeignTakes(p) \/ ForeignLeaves(p)) \/ Elapse)
    BY <1>1 DEF ForeignTakes, ForeignLeaves, Elapse
  <2> QED
    BY <2>2, <2>3 DEF Environment
<1>9. ~UNCHANGED vars
  BY <1>1 DEF vars
<1>10. CASE Callers
  <2>1. Terminate(Displaced(config')) /\ phase = "lost"
    BY <1>1, <1>10 DEF Callers, Request, Reload, Shutdown, ReloadAlone, Adopt
  <2> QED
    BY <1>2, <2>1
<1> QED
  BY <1>3, <1>4, <1>5, <1>6, <1>7, <1>8, <1>9, <1>10 DEF Next, ThreadStep

-----------------------------------------------------------------------------
(* The record of the probes.                                               *)

PastType == [heard: BOOLEAN, missed: 0 .. UnhealthyStrikes]

(* What a probe makes of a record.                                         *)
LEMMA ToldFacts ==
    ASSUME NEW h \in PastType, NEW ans \in {"yes", "no"}
    PROVE  /\ Told(h, ans) \in PastType
           /\ Told(h, "yes").heard
           /\ Told(h, "no").heard <=> h.heard
           /\ h.heard => \A n \in 0 .. (UnhealthyStrikes - 1) :
                            n <= h.missed => n + 1 <= Told(h, "no").missed
<1>1. Missed(h.missed) \in 0 .. UnhealthyStrikes
  BY TimingAssumption DEF Missed, PastType
<1>2. \A n \in 0 .. (UnhealthyStrikes - 1) : n <= h.missed => n + 1 <= Missed(h.missed)
  BY TimingAssumption DEF Missed, PastType
<1> QED
  BY <1>1, <1>2, TimingAssumption DEF Told, PastType

(* A visit leaves the other boards alone, and but for a probe it ends with *)
(* no answer.                                                              *)
LEMMA OtherVisit ==
    ASSUME IInv, NEW o \in Boards, VisitSome(o)
    PROVE  /\ phase = "tick" /\ o = Head(todo)
           /\ \A b \in Boards : b # o => rt'[b] = rt[b] /\ child'[b] = child[b]
           /\ Probe(o) \/ answer' = "none"
<1>1. ASSUME NEW r, NEW warm, Visit(o, r, warm)
      PROVE  /\ phase = "tick" /\ o = Head(todo) /\ answer' = "none"
             /\ \A b \in Boards : b # o => rt'[b] = rt[b]
  BY <1>1 DEF Visit, Proceed, IInv, TypeOK
<1>2. CASE QuietShape(o)
  BY <1>1, <1>2 DEF QuietShape
<1>3. CASE EndingShape(o)
  BY <1>1, <1>3 DEF EndingShape
<1>4. CASE Launch(o)
  BY <1>1, <1>4 DEF Launch, IInv, TypeOK
<1>5. CASE Probe(o) \/ SpawnRaises(o)
  BY <1>5 DEF Probe, SpawnRaises
<1> QED
  BY <1>2, <1>3, <1>4, <1>5, VisitShapes

(* A visit after which the board has a child.                              *)
LEMMA OwnVisit ==
    ASSUME IInv, NEW b \in Boards, VisitSome(b), HasChild(b)'
    PROVE  \/ Probe(b) \/ Launch(b)
           \/ StartsServing(b) \/ StillWarming(b) \/ Healthy(b) \/ Strike(b)
<1>1. child \in [Boards -> Child]
  BY DEF IInv, TypeOK
<1>2. ~(Reclaim(b) \/ StartTimesOut(b) \/ Wedged(b))
  BY <1>1, FreshType DEF Reclaim, StartTimesOut, Wedged, Terminate, HasChild
<1>3. ~HandleExit(b)
  BY <1>1, FreshType DEF HandleExit, HasChild
<1>4. ~(HoldOff(b) \/ AwaitSlot(b) \/ SpawnRefused(b) \/ SpawnRaises(b))
  BY DEF HoldOff, AwaitSlot, SpawnRefused, SpawnRaises, MaySpawn, HasChild
<1> QED
  BY <1>2, <1>3, <1>4 DEF VisitSome

(* Aging, a demand and a start keep the strikes.                           *)
LEMMA StrikesKept ==
    ASSUME NEW r \in Runtime, NEW n \in Nat
    PROVE  /\ AgedBy(r, n).strikes = r.strikes
           /\ Demanded(r).strikes = r.strikes /\ Started(r).strikes = r.strikes
BY DEF AgedBy, Demanded, Started, Afresh, Runtime

(* So does a registry that leaves the board its child.                     *)
LEMMA AdoptSpares ==
    ASSUME IInv, NEW c \in Configs, Adopt(c), phase # "done", NEW b \in Boards, HasChild(b)'
    PROVE  rt'[b].strikes = rt[b].strikes /\ rt'[b].state = rt[b].state
<1>1. /\ rt'[b] = Reconciled(Aged[b], b, c) /\ Terminate(Displaced(c))
      /\ Aged[b] = AgedBy(rt[b], lag) /\ rt[b] \in Runtime /\ lag \in Nat
  BY TimingAssumption DEF Adopt, Aged, IInv, TypeOK
<1>2. HasChild(b) /\ b \notin Displaced(c)
  BY <1>1, FreshType DEF Terminate, HasChild
<1>3. b \in Managed /\ b \in DOMAIN c.spec /\ config.spec[b].port = c.spec[b].port
  BY <1>2 DEF IInv, LaunchedAsConfigured, Displaced
<1>4. Aged[b].strikes = rt[b].strikes /\ Aged[b] \in Runtime
  BY <1>1, StrikesKept, AgedByType
<1>5. rt'[b].strikes = Aged[b].strikes
  BY <1>1, <1>3, <1>4 DEF Reconciled, Runtime
<1>6. rt'[b].state = rt[b].state
  BY <1>2, AdoptFacts, <1>1, <1>3, AgedByType, ReconciledType
<1> QED
  BY <1>4, <1>5, <1>6

(* A step that is no visit keeps the strikes and the state of every child  *)
(* it leaves, and makes no answer.                                         *)
LEMMA ElsewhereKeeps ==
    ASSUME IInv, [Next]_vars, ~\E o \in Boards : VisitSome(o), NEW b \in Boards, HasChild(b)'
    PROVE  /\ HasChild(b)
           /\ rt'[b].state = rt[b].state /\ rt'[b].strikes = rt[b].strikes
           /\ answer' = answer /\ (answer # "none" => todo' = todo)
<1>1. HasChild(b)
  BY OnlyLaunches DEF VisitSome
<1>2. /\ rt \in [Boards -> Runtime] /\ child \in [Boards -> Child] /\ lag \in Nat
      /\ config \in Configs
  BY TimingAssumption DEF IInv, TypeOK
<1>3. CASE UNCHANGED <<rt, answer, todo>>
  BY <1>1, <1>3
<1>4. ASSUME NEW o \in Boards, Demand(o) \/ Start(o) \/ Stop(o) \/ Restart(o)
      PROVE  /\ rt'[b].state = rt[b].state /\ rt'[b].strikes = rt[b].strikes
             /\ UNCHANGED <<answer, todo>>
  <2>1. Demand(o) \/ Start(o) \/ (o # b /\ (Stop(o) \/ Restart(o)))
    BY <1>2, <1>4, FreshType DEF Stop, Restart, Terminate, HasChild
  <2>2. UNCHANGED <<answer, todo>>
    BY <1>4 DEF Demand, Start, Stop, Restart, Handle, thread
  <2>3. /\ Aged[b] \in Runtime /\ Aged[b].state = rt[b].state
        /\ Aged[b].strikes = rt[b].strikes /\ Aged[b] = AgedBy(rt[b], lag)
    BY <1>2, AgedByType, StrikesKept DEF Aged
  <2>4. CASE o # b
    <3>1. rt'[b] = Aged[b]
      BY <1>4, <2>4 DEF Demand, Start, Stop, Restart, Handle, Aged
    <3> QED
      BY <2>2, <2>3, <3>1
  <2>5. CASE o = b
    <3>1. rt'[b] \in {Demanded(Aged[b]), Started(Aged[b])}
      BY <2>1, <2>5 DEF Demand, Start, Handle, Aged
    <3>2. /\ Demanded(Aged[b]).state = Aged[b].state
          /\ Started(Aged[b]).state = Aged[b].state
      BY <2>3, DemandedType, StartedType
    <3>3. /\ Demanded(Aged[b]).strikes = Aged[b].strikes
          /\ Started(Aged[b]).strikes = Aged[b].strikes
      BY <1>2, <2>3, StrikesKept
    <3> QED
      BY <2>2, <2>3, <3>1, <3>2, <3>3
  <2> QED
    BY <2>4, <2>5
<1>5. CASE TickStart
  <2>1. rt' = Aged /\ answer' = "none" /\ phase = "drain"
    BY <1>5 DEF TickStart, Proceed
  <2>2. answer = "none"
    BY <2>1 DEF IInv, AnswerIsOfAChild
  <2>3. /\ Aged[b].state = rt[b].state /\ Aged[b].strikes = rt[b].strikes
    BY <1>2, AgedByType, StrikesKept DEF Aged
  <2> QED
    BY <1>1, <2>1, <2>2, <2>3
<1>6. CASE Absorb \/ \E c \in Configs : ReloadAlone(c)
  <2>1. UNCHANGED <<answer, todo>> /\ phase # "done"
    BY <1>6 DEF Absorb, ReloadAlone, thread
  <2>2. UNCHANGED rt \/ \E c \in Configs : Adopt(c)
    BY <1>6 DEF Absorb, ReloadAlone, IInv, TypeOK
  <2> QED
    BY <1>1, <2>1, <2>2, AdoptSpares
<1>7. ~ThreadExits
  BY <1>2, FreshType DEF ThreadExits, Terminate, HasChild
<1>8. CASE Drop \/ Environment
  BY <1>3, <1>8 DEF Drop, Environment, ChildServes, BindFails, ChildWedges, ChildExits,
                    Become, ForeignTakes, ForeignLeaves, Elapse, thread
<1>9. CASE Callers
  BY <1>3, <1>6, <1>9 DEF Callers, Request, Reload, Shutdown, thread
<1>10. CASE UNCHANGED vars
  BY <1>3, <1>10 DEF vars, thread
<1> QED
  BY <1>1, <1>4, <1>5, <1>6, <1>7, <1>8, <1>9, <1>10 DEF Next, ThreadStep

(* The record is well formed, and changes as Record says.                  *)
LEMMA RecordType ==
    ASSUME IInv, RecordInv, Record, answer' \in {"none", "yes", "no"}
    PROVE  /\ past' \in [Boards -> PastType]
           /\ \A b \in Boards : past[b] \in PastType
           /\ \A b \in Boards : past'[b] = IF ~HasChild(b)' THEN Unasked
                                           ELSE IF Asked(b) THEN Told(past[b], answer')
                                           ELSE past[b]
<1>1. past \in [Boards -> PastType] /\ Unasked \in PastType
  BY TimingAssumption DEF RecordInv, PastType, Unasked
<1>2. \A b \in Boards : past'[b] = IF ~HasChild(b)' THEN Unasked
                                   ELSE IF Asked(b) THEN Told(past[b], answer')
                                   ELSE past[b]
  BY DEF Record
<1>3. \A b \in Boards : Asked(b) => Told(past[b], answer') \in PastType
  BY <1>1, ToldFacts DEF Asked
<1> QED
  BY <1>1, <1>2, <1>3 DEF Record

(* A visit of board b that leaves b a child keeps b's record true.         *)
LEMMA OwnRecord ==
    ASSUME IInv, RecordInv, Record, IInv', NEW b \in Boards, VisitSome(b), HasChild(b)'
    PROVE  RecordOf(b)'
<1>1. /\ past[b] \in PastType /\ RecordOf(b) /\ rt[b] \in Runtime
      /\ rt \in [Boards -> Runtime] /\ child \in [Boards -> Child]
      /\ phase = "tick" /\ b = Head(todo)
      /\ answer \in {"none", "yes", "no"} /\ answer' \in {"none", "yes", "no"}
  BY OtherVisit, RecordType DEF RecordInv, IInv, TypeOK
<1>2. past'[b] = IF Asked(b) THEN Told(past[b], answer') ELSE past[b]
  BY <1>1, RecordType
<1>3. rt[b].strikes \in 0 .. (UnhealthyStrikes - 1) /\ past[b].missed \in 0 .. UnhealthyStrikes
  BY <1>1 DEF Runtime, PastType
<1>4. CASE Probe(b)
  <2>1. /\ HasChild(b) /\ answer = "none" /\ answer' \in {"yes", "no"}
        /\ rt' = rt /\ todo' = todo
    BY <1>4 DEF Probe, Alive, HasChild
  <2>2. past'[b] = Told(past[b], answer')
    BY <1>1, <1>2, <2>1 DEF Asked
  <2>3. CASE answer' = "yes"
    <3>1. past'[b].heard /\ AtHand(b, "yes")'
      BY <1>1, <2>1, <2>2, <2>3, ToldFacts DEF AtHand
    <3> QED
      BY <3>1 DEF RecordOf
  <2>4. CASE answer' = "no"
    <3>1. AtHand(b, "no")' /\ ~AtHand(b, "yes")' /\ ~AtHand(b, "yes") /\ ~AtHand(b, "no")
      BY <1>1, <2>1, <2>4 DEF AtHand
    <3>2. /\ past'[b].heard <=> past[b].heard
          /\ past[b].heard => \A n \in 0 .. (UnhealthyStrikes - 1) :
                                 n <= past[b].missed => n + 1 <= past'[b].missed
      BY <1>1, <2>2, <2>4, ToldFacts
    <3>3. CASE rt[b].state = "starting"
      BY <2>1, <3>1, <3>2, <3>3, <1>1 DEF RecordOf
    <3>4. CASE rt[b].state # "starting"
      <4>1. past[b].heard /\ rt[b].strikes <= past[b].missed
        BY <1>1, <1>3, <2>1, <3>1, <3>4 DEF RecordOf
      <4>2. past'[b].heard /\ rt'[b].strikes + 1 <= past'[b].missed
        BY <1>3, <2>1, <3>2, <4>1
      <4> QED
        BY <2>1, <3>1, <3>4, <4>2 DEF RecordOf
    <3> QED
      BY <3>3, <3>4
  <2> QED
    BY <2>1, <2>3, <2>4
<1>5. CASE Launch(b)
  <2>1. ~HasChild(b) /\ answer' = "none" /\ rt'[b].state = "starting"
    <3>1. ~HasChild(b) /\ answer' = "none"
      BY <1>5 DEF Launch, MaySpawn, Visit, Proceed
    <3>2. rt'[b] = [rt[b] EXCEPT !.state = "starting", !.due = StartTimeout + 1]
      BY <1>1, <1>5 DEF Launch, Visit
    <3> QED
      BY <1>1, <3>1, <3>2 DEF Runtime
  <2>2. past'[b] = Unasked
    BY <1>1, <1>2, <2>1 DEF Asked, RecordOf
  <2> QED
    BY <2>1, <2>2 DEF RecordOf, AtHand, Unasked
<1>6. ASSUME answer # "none", answer' = "none"
      PROVE  past'[b] = past[b] /\ ~AtHand(b, "yes")' /\ ~AtHand(b, "no")' /\ HasChild(b)
  BY <1>1, <1>2, <1>6 DEF Asked, AtHand, IInv, AnswerIsOfAChild
<1>7. CASE StartsServing(b) \/ Healthy(b)
  <2>1. /\ answer = "yes" /\ answer' = "none"
        /\ rt'[b].strikes = 0 /\ rt'[b].state = "running"
    <3>1. answer = "yes" /\ answer' = "none"
      BY <1>7 DEF StartsServing, Healthy, Visit, Proceed
    <3>2. \/ rt'[b] = [rt[b] EXCEPT !.state = "running", !.strikes = 0, !.due = StableAfter + 1]
          \/ rt'[b] = [rt[b] EXCEPT !.state = "running", !.strikes = 0,
                                    !.restarts = IF rt[b].due = 0 THEN 0 ELSE @]
      BY <1>1, <1>7 DEF StartsServing, Healthy, Visit
    <3> QED
      BY <1>1, <3>1, <3>2 DEF Runtime
  <2>2. past[b].heard
    BY <1>1, <1>6, <2>1 DEF RecordOf, AtHand
  <2> QED
    BY <1>3, <1>6, <2>1, <2>2 DEF RecordOf
<1>8. CASE StillWarming(b)
  <2>1. answer = "no" /\ answer' = "none" /\ rt'[b] = rt[b] /\ rt[b].state = "starting"
    BY <1>1, <1>8 DEF StillWarming, Visit, Proceed
  <2>2. ~past[b].heard
    BY <1>1, <1>6, <2>1 DEF RecordOf, AtHand
  <2> QED
    BY <1>6, <2>1, <2>2 DEF RecordOf
<1>9. CASE Strike(b)
  <2>1. /\ answer = "no" /\ answer' = "none" /\ rt[b].state # "starting"
        /\ rt'[b].state = rt[b].state /\ rt'[b].strikes = rt[b].strikes + 1
    <3>1. answer = "no" /\ answer' = "none" /\ rt[b].state # "starting"
      BY <1>9 DEF Strike, Visit, Proceed
    <3>2. rt'[b] = [rt[b] EXCEPT !.strikes = @ + 1]
      BY <1>1, <1>9 DEF Strike, Visit
    <3> QED
      BY <1>1, <3>1, <3>2 DEF Runtime
  <2>2. past[b].heard /\ rt[b].strikes + 1 <= past[b].missed
    BY <1>1, <1>6, <2>1 DEF RecordOf, AtHand
  <2> QED
    BY <1>3, <1>6, <2>1, <2>2 DEF RecordOf
<1> QED
  BY <1>4, <1>5, <1>7, <1>8, <1>9, OwnVisit

(* Every step keeps the record true of the strikes.                        *)
LEMMA RecordKept ==
    ASSUME IInv, RecordInv, [ProbedNext]_<<vars, past>>
    PROVE  RecordInv'
<1>1. CASE UNCHANGED <<vars, past>>
  BY <1>1 DEF RecordInv, RecordOf, AtHand, HasChild, vars, thread
<1>2. CASE ProbedNext
  <2>1. Next /\ Record /\ IInv'
    BY <1>2, NextInv DEF ProbedNext
  <2>2. answer' \in {"none", "yes", "no"}
    BY <2>1 DEF IInv, TypeOK
  <2>3. past' \in [Boards -> PastType]
    BY <2>1, <2>2, RecordType
  <2>4. ASSUME NEW b \in Boards
        PROVE  RecordOf(b)'
    <3>1. past'[b] = IF ~HasChild(b)' THEN Unasked
                     ELSE IF Asked(b) THEN Told(past[b], answer') ELSE past[b]
      BY <2>1, <2>2, RecordType
    <3>2. CASE ~HasChild(b)'
      BY <3>1, <3>2 DEF RecordOf
    <3>3. CASE HasChild(b)' /\ VisitSome(b)
      BY <2>1, <3>3, OwnRecord
    <3>4. ASSUME HasChild(b)', NEW o \in Boards, o # b, VisitSome(o)
          PROVE  RecordOf(b)'
      <4>1. /\ phase = "tick" /\ o = Head(todo)
            /\ rt'[b] = rt[b] /\ child'[b] = child[b]
            /\ Probe(o) \/ answer' = "none"
        BY <3>4, OtherVisit
      <4>2. \A ans \in {"yes", "no"} : ~AtHand(b, ans) /\ ~AtHand(b, ans)'
        BY <3>4, <4>1 DEF AtHand, Probe
      <4>3. past'[b] = past[b] /\ HasChild(b)
        BY <3>1, <3>4, <4>1 DEF Asked, HasChild
      <4> QED
        BY <3>4, <4>1, <4>2, <4>3 DEF RecordInv, RecordOf
    <3>5. CASE HasChild(b)' /\ ~\E o \in Boards : VisitSome(o)
      <4>1. /\ HasChild(b)
            /\ rt'[b].state = rt[b].state /\ rt'[b].strikes = rt[b].strikes
            /\ answer' = answer /\ (answer # "none" => todo' = todo)
        BY <2>1, <3>5, ElsewhereKeeps
      <4>2. past'[b] = past[b]
        BY <3>1, <3>5, <4>1 DEF Asked
      <4>3. \A ans \in {"yes", "no"} : AtHand(b, ans)' <=> AtHand(b, ans)
        BY <4>1 DEF AtHand
      <4> QED
        BY <3>5, <4>1, <4>2, <4>3 DEF RecordInv, RecordOf
    <3> QED
      BY <3>2, <3>3, <3>4, <3>5
  <2> QED
    BY <2>3, <2>4 DEF RecordInv, PastType
<1> QED
  BY <1>1, <1>2

(* The record is true of the strikes in every state.                       *)
THEOREM RecordCorrect == ProbedSpec => [](IInv /\ RecordInv)
<1>1. ProbedInit => IInv /\ RecordInv
  <2> SUFFICES ASSUME ProbedInit PROVE IInv /\ RecordInv
    OBVIOUS
  <2>1. IInv
    BY InitInv DEF ProbedInit
  <2>2. \A b \in Boards : ~HasChild(b) /\ past[b] = Unasked
    BY FreshType DEF ProbedInit, Init, HasChild
  <2>3. past \in [Boards -> [heard: BOOLEAN, missed: 0 .. UnhealthyStrikes]]
    BY TimingAssumption DEF ProbedInit, Unasked
  <2> QED
    BY <2>1, <2>2, <2>3 DEF RecordInv, RecordOf
<1>2. IInv /\ RecordInv /\ [ProbedNext]_<<vars, past>> => (IInv /\ RecordInv)'
  <2> SUFFICES ASSUME IInv, RecordInv, [ProbedNext]_<<vars, past>>
               PROVE  IInv' /\ RecordInv'
    OBVIOUS
  <2>1. [Next]_vars
    BY DEF ProbedNext
  <2> QED
    BY <2>1, NextInv, RecordKept
<1> QED
  BY <1>1, <1>2, PTL DEF ProbedSpec

(* No tick ends a wanted child that lives but for its own start_timeout,   *)
(* never having answered a probe, or for its own last UNHEALTHY_STRIKES    *)
(* probes in a row; and nobody else ends one but its user, the registry    *)
(* and the shutdown.                                                       *)
THEOREM OnlyTheSilentEnd == ProbedSpec => ChildrenAreSpared
<1>1. IInv /\ RecordInv /\ [ProbedNext]_<<vars, past>> =>
        [\A b \in Boards : Alive(b) /\ ~HasChild(b)' =>
           \/ /\ phase \in {"loop", "lost"}
              /\ stopping \/ b \notin DOMAIN config'.spec
                          \/ config.spec[b].port # config'.spec[b].port
           \/ phase = "drain" /\ Head(requests) \in {<<"stop", b>>, <<"restart", b>>}
           \/ phase = "tick" /\ ~Wanted(b)
           \/ /\ phase = "tick" /\ answer = "no"
              /\ IF past[b].heard THEN past[b].missed = UnhealthyStrikes
                 ELSE rt[b].due = 0]_<<vars, past>>
  <2> SUFFICES ASSUME IInv, RecordInv, [ProbedNext]_<<vars, past>>, NEW b \in Boards,
                      Alive(b), ~HasChild(b)'
               PROVE  \/ /\ phase \in {"loop", "lost"}
                         /\ stopping \/ b \notin DOMAIN config'.spec
                                     \/ config.spec[b].port # config'.spec[b].port
                      \/ /\ phase = "drain"
                         /\ Head(requests) \in {<<"stop", b>>, <<"restart", b>>}
                      \/ phase = "tick" /\ ~Wanted(b)
                      \/ /\ phase = "tick" /\ answer = "no"
                         /\ IF past[b].heard THEN past[b].missed = UnhealthyStrikes
                            ELSE rt[b].due = 0
    OBVIOUS
  <2>1. HasChild(b) /\ [Next]_vars
    BY DEF Alive, HasChild, ProbedNext
  <2>2. CASE phase # "tick"
    <3>1. \/ Stop(b) \/ Restart(b)
          \/ phase \in {"loop", "lost"} /\ (stopping \/ b \in Displaced(config'))
      BY <2>1, <2>2, OnlyCallersEnd
    <3> QED
      BY <3>1 DEF Stop, Restart, Handle, Displaced
  <2>3. CASE phase = "tick"
    <3>1. Reclaim(b) \/ StartTimesOut(b) \/ Wedged(b) \/ HandleExit(b)
      BY <2>1, <2>3, OnlyItsVisitEnds
    <3>2. CASE Reclaim(b)
      BY <2>3, <3>2 DEF Reclaim
    <3>3. ~HandleExit(b)
      BY DEF HandleExit, Alive
    <3>4. RecordOf(b) /\ past[b].missed \in 0 .. UnhealthyStrikes
      BY DEF RecordInv
    <3>5. CASE StartTimesOut(b)
      <4>1. answer = "no" /\ rt[b].state = "starting" /\ rt[b].due = 0
        BY <3>5 DEF StartTimesOut
      <4>2. ~past[b].heard
        BY <2>1, <3>4, <4>1 DEF RecordOf, AtHand
      <4> QED
        BY <2>3, <4>1, <4>2
    <3>6. CASE Wedged(b)
      <4>1. /\ answer = "no" /\ rt[b].state # "starting" /\ b = Head(todo)
            /\ rt[b].strikes + 1 >= UnhealthyStrikes
        BY <3>6 DEF Wedged, Visit
      <4>2. past[b].heard /\ rt[b].strikes + 1 <= past[b].missed
        BY <2>1, <3>4, <4>1 DEF RecordOf, AtHand
      <4>3. rt[b].strikes \in Nat
        BY TimingAssumption DEF IInv, TypeOK, Runtime
      <4> QED
        BY <2>3, <3>4, <4>1, <4>2, <4>3, TimingAssumption
    <3> QED
      BY <3>1, <3>2, <3>3, <3>5, <3>6
  <2> QED
    BY <2>2, <2>3
<1> QED
  BY <1>1, RecordCorrect, PTL DEF ProbedSpec, ChildrenAreSpared
=============================================================================
