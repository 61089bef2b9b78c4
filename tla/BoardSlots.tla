------------------------------ MODULE BoardSlots ------------------------------
(***************************************************************************)
(* What the supervisor of tensorwatch promises of the processes it owns,   *)
(* without its thread, queue, timers and health checks: each board has one *)
(* slot, a slot in use has a port of its own, at most `limit` boards are   *)
(* given a slot while they warm up, and a board that is held by its user   *)
(* has none.  SupervisorSlots shows that Supervisor implements this.       *)
(***************************************************************************)
EXTENDS Naturals, FiniteSets

CONSTANTS Boards, Ports, NoPort

VARIABLES
    slot,    \* the slot of each board: how far its process is, on which port
    limit,   \* how many boards may warm up at a time
    held     \* the boards their user stopped

slotVars == <<slot, limit, held>>

Free == [use |-> "free", port |-> NoPort]
Slot == [use: {"free", "warming", "up"}, port: Ports \cup {NoPort}]

WarmingUp == {b \in Boards : slot[b].use = "warming"}
FreeSlots(S) == [b \in Boards |-> IF b \in S THEN Free ELSE slot[b]]

SlotsInit ==
    /\ slot = [b \in Boards |-> Free]
    /\ limit \in Nat \ {0}
    /\ held = {}

(* A process starts: the board is free and not held, nobody has the port,  *)
(* and there is room among the warming ones.                               *)
Occupy(b, port) ==
    /\ slot[b] = Free /\ b \notin held
    /\ \A other \in Boards : slot[other].port # port
    /\ Cardinality(WarmingUp) < limit
    /\ slot' = [slot EXCEPT ![b] = [use |-> "warming", port |-> port]]
    /\ UNCHANGED <<limit, held>>

ComeUp(b) ==
    /\ slot[b].use = "warming"
    /\ slot' = [slot EXCEPT ![b].use = "up"]
    /\ UNCHANGED <<limit, held>>

Release(S) ==
    /\ slot' = FreeSlots(S)
    /\ UNCHANGED <<limit, held>>

Hold(b) ==
    /\ slot' = FreeSlots({b})
    /\ held' = held \cup {b}
    /\ UNCHANGED limit

LetGo(b) ==
    /\ held' = held \ {b}
    /\ UNCHANGED <<slot, limit>>

(* A new registry: some slots are freed, some holds lapse.                 *)
Reconfigure(S, H) ==
    /\ slot' = FreeSlots(S)
    /\ limit' \in Nat \ {0}
    /\ held' = held \ H

SlotsNext ==
    \/ \E b \in Boards, port \in Ports : Occupy(b, port)
    \/ \E b \in Boards : ComeUp(b) \/ Hold(b) \/ LetGo(b)
    \/ \E S \in SUBSET Boards : Release(S)
    \/ \E S, H \in SUBSET Boards : Reconfigure(S, H)

SlotsSpec == SlotsInit /\ [][SlotsNext]_slotVars

-----------------------------------------------------------------------------
SlotsTypeOK ==
    /\ slot \in [Boards -> Slot]
    /\ limit \in Nat \ {0}
    /\ held \subseteq Boards

(* No two slots in use have the same port.                                 *)
PortsApart ==
    \A a, b \in Boards :
        a # b /\ slot[a].use # "free" /\ slot[b].use # "free"
            => slot[a].port # slot[b].port

(* A held board has no process.                                            *)
HeldIsFree == \A b \in held : slot[b] = Free
=============================================================================
