---------------------------- MODULE BoardSlotsProofs ----------------------------
(***************************************************************************)
(* What follows from the rules of BoardSlots alone: slots in use have      *)
(* ports of their own, and a held board has none.                          *)
(***************************************************************************)
EXTENDS BoardSlots, TLAPS

SlotsInv == SlotsTypeOK /\ PortsApart /\ HeldIsFree

(* Freeing slots keeps what is true of the slots.                          *)
LEMMA FreeingKeepsInv ==
    ASSUME SlotsInv, NEW S, slot' = FreeSlots(S),
           limit' \in Nat \ {0}, held' \subseteq held \cup (S \cap Boards)
    PROVE  SlotsInv'
<1>1. /\ slot \in [Boards -> Slot] /\ held \subseteq Boards
      /\ Free \in Slot /\ Free.use = "free"
  BY DEF SlotsInv, SlotsTypeOK, Slot, Free
<1>2. /\ slot' \in [Boards -> Slot]
      /\ \A b \in Boards : slot'[b] = IF b \in S THEN Free ELSE slot[b]
  BY <1>1 DEF FreeSlots
<1>3. SlotsTypeOK'
  BY <1>1, <1>2 DEF SlotsTypeOK
<1>4. PortsApart'
  BY <1>1, <1>2 DEF SlotsInv, PortsApart
<1>5. HeldIsFree'
  BY <1>1, <1>2 DEF SlotsInv, HeldIsFree
<1> QED
  BY <1>3, <1>4, <1>5 DEF SlotsInv

(* A slot that starts or comes up keeps its port to itself.                *)
LEMMA UsingKeepsInv ==
    ASSUME SlotsInv, NEW b \in Boards,
           (\E port \in Ports : Occupy(b, port)) \/ ComeUp(b)
    PROVE  SlotsInv'
<1>1. /\ slot \in [Boards -> Slot] /\ limit' = limit /\ held' = held
  BY DEF SlotsInv, SlotsTypeOK, Occupy, ComeUp
<1>2. PICK new \in Slot :
        /\ slot' = [slot EXCEPT ![b] = new]
        /\ \A o \in Boards : o # b /\ slot[o].use # "free" => slot[o].port # new.port
        /\ b \notin held
  <2>1. CASE \E port \in Ports : Occupy(b, port)
    <3> PICK port \in Ports : Occupy(b, port)
      BY <2>1
    <3>1. [use |-> "warming", port |-> port] \in Slot
      BY DEF Slot
    <3> QED
      BY <3>1 DEF Occupy
  <2>2. CASE ComeUp(b)
    <3>1. [slot[b] EXCEPT !.use = "up"] \in Slot
      BY <1>1 DEF Slot
    <3>2. [slot[b] EXCEPT !.use = "up"].port = slot[b].port
      BY <1>1 DEF Slot
    <3>3. slot[b].use = "warming" /\ slot' = [slot EXCEPT ![b] = [slot[b] EXCEPT !.use = "up"]]
      BY <2>2 DEF ComeUp
    <3>4. \A o \in Boards : o # b /\ slot[o].use # "free" => slot[o].port # slot[b].port
      BY <3>3 DEF SlotsInv, PortsApart
    <3>5. b \notin held
      BY <3>3 DEF SlotsInv, HeldIsFree, Free
    <3> QED
      BY <3>1, <3>2, <3>3, <3>4, <3>5
  <2> QED
    BY <2>1, <2>2
<1>3. SlotsTypeOK'
  BY <1>1, <1>2 DEF SlotsInv, SlotsTypeOK
<1>4. PortsApart'
  BY <1>1, <1>2 DEF SlotsInv, PortsApart
<1>5. HeldIsFree'
  BY <1>1, <1>2 DEF SlotsInv, SlotsTypeOK, HeldIsFree
<1> QED
  BY <1>3, <1>4, <1>5 DEF SlotsInv

LEMMA SlotsNextInv == SlotsInv /\ [SlotsNext]_slotVars => SlotsInv'
<1> SUFFICES ASSUME SlotsInv, [SlotsNext]_slotVars PROVE SlotsInv'
  OBVIOUS
<1>0. limit \in Nat \ {0} /\ held \subseteq Boards /\ slot \in [Boards -> Slot]
  BY DEF SlotsInv, SlotsTypeOK
<1>1. CASE UNCHANGED slotVars
  BY <1>1 DEF slotVars, SlotsInv, SlotsTypeOK, PortsApart, HeldIsFree
<1>2. CASE \E b \in Boards, port \in Ports : Occupy(b, port)
  BY <1>2, UsingKeepsInv
<1>3. CASE \E b \in Boards : ComeUp(b)
  BY <1>3, UsingKeepsInv
<1>4. CASE \E b \in Boards : Hold(b)
  BY <1>0, <1>4, FreeingKeepsInv DEF Hold
<1>5. CASE \E b \in Boards : LetGo(b)
  <2>1. slot' = slot /\ limit' = limit /\ held' \subseteq held
    BY <1>5 DEF LetGo
  <2> QED
    BY <2>1 DEF SlotsInv, SlotsTypeOK, PortsApart, HeldIsFree
<1>6. CASE \E S \in SUBSET Boards : Release(S)
  BY <1>0, <1>6, FreeingKeepsInv DEF Release
<1>7. CASE \E S, H \in SUBSET Boards : Reconfigure(S, H)
  BY <1>7, FreeingKeepsInv DEF Reconfigure
<1> QED
  BY <1>1, <1>2, <1>3, <1>4, <1>5, <1>6, <1>7 DEF SlotsNext

(* Slots in use have ports of their own, and a held board has no slot.     *)
THEOREM SlotsCorrect == SlotsSpec => []SlotsInv
<1>1. SlotsInit => SlotsInv
  <2>1. Free \in Slot /\ Free.use = "free"
    BY DEF Free, Slot
  <2> QED
    BY <2>1 DEF SlotsInit, SlotsInv, SlotsTypeOK, PortsApart, HeldIsFree
<1> QED
  BY <1>1, SlotsNextInv, PTL DEF SlotsSpec
=============================================================================
