----------------------------- MODULE MCSupervisor -----------------------------
(***************************************************************************)
(* Instances of Supervisor for TLC: two or three boards and registries     *)
(* that differ in one thing each (policy, port, presence, cap).            *)
(***************************************************************************)
EXTENDS SupervisorSlots, TLC

CONSTANTS a, b, c, p, q, r

Board(policy, port) == [autostart |-> policy, enabled |-> TRUE, port |-> port]
Disabled(policy, port) == [autostart |-> policy, enabled |-> FALSE, port |-> port]
Registry(order, spec, maxWarming) ==
    [order |-> order, spec |-> spec, maxWarming |-> maxWarming]

(* Two boards, the first always on, the second on demand.                  *)
Plain == Registry(<<a, b>>,
                  a :> Board("always", p) @@ b :> Board("on_demand", q), 1)
(* The boards trade their ports.                                           *)
Traded == Registry(<<a, b>>,
                   a :> Board("always", q) @@ b :> Board("on_demand", p), 1)
(* The first board is gone, the second flipped to always.                  *)
Flipped == Registry(<<b>>, b :> Board("always", q), 1)
(* The first board is disabled, the second manual.                         *)
Parked == Registry(<<a, b>>,
                   a :> Disabled("always", p) @@ b :> Board("manual", q), 2)
ControlConfigs == {Plain, Traded, Flipped, Parked}

(* Both always on, one or two of them warming at a time.                   *)
Narrow == Registry(<<a, b>>, a :> Board("always", p) @@ b :> Board("always", q), 1)
CapConfigs == {Narrow, [Narrow EXCEPT !.maxWarming = 2]}

(* One board, under each of two policies.                                  *)
Solo(policy) == Registry(<<b>>, b :> Board(policy, q), 1)
SoloConfigs == {Solo("on_demand"), Solo("always")}

(* Three boards always on, one warming at a time.                          *)
Crowded == {Registry(<<a, b, c>>,
                     a :> Board("always", p) @@ b :> Board("always", q)
                         @@ c :> Board("always", r), 1)}

(* The delays double up to MAX_BACKOFF; two levels of them are enough, and *)
(* one where only the greatest delay matters.                              *)
Backoffs == <<1, 2>>
LongBackoff == <<2>>

(* The thread reads the queue only while it drains, and the pending        *)
(* registry and the stop event only at the top of its loop, so a call that *)
(* comes earlier in an iteration has the effect of one that comes then: a  *)
(* safety run needs only the calls that come last.                         *)
CallsComeLate ==
    /\ phase = "tick" => requests' = requests
    /\ phase \in {"drain", "tick"} => /\ pending' \in {pending, NoConfig}
                                     /\ stopping' = stopping
=============================================================================
