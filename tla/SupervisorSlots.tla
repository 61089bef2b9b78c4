---------------------------- MODULE SupervisorSlots ----------------------------
(***************************************************************************)
(* The supervision loop implements BoardSlots.                             *)
(***************************************************************************)
EXTENDS Supervisor

(* The refinement mapping: a board occupies its slot while the supervisor  *)
(* holds a child of it, reaped or not.                                     *)
SlotOf(b) ==
    IF ~HasChild(b) THEN [use |-> "free", port |-> NoPort]
    ELSE [use |-> IF rt[b].state = "starting" THEN "warming" ELSE "up",
          port |-> child[b].port]

Slots == INSTANCE BoardSlots WITH
    slot <- [b \in Boards |-> SlotOf(b)],
    limit <- config.maxWarming,
    held <- {b \in Boards : rt[b].override = "off"}

(* Every behaviour of the supervisor is one BoardSlots allows: whatever it *)
(* is asked to do and however its children behave, processes start within  *)
(* the cap, on ports of their own, and never for a board on hold.          *)
ImplementsSlots == Slots!SlotsSpec
=============================================================================
