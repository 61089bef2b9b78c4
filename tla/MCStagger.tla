------------------------------- MODULE MCStagger -------------------------------
(***************************************************************************)
(* Supervisor with a stopwatch: `since` is the real time since the last    *)
(* launch, which the countdown `stagger` of the code only approximates.    *)
(***************************************************************************)
EXTENDS MCSupervisor

VARIABLE since

Launched == \E x \in Boards : ~HasChild(x) /\ HasChild(x)'

TimedInit == Init /\ since = StartStagger
TimedNext ==
    /\ Next
    /\ since' = IF Launched THEN 0
                ELSE IF lag' = lag + 1 /\ since < StartStagger THEN since + 1
                ELSE since
TimedSpec == TimedInit /\ [][TimedNext]_<<vars, since>>

(* Two launches are at least start_stagger apart: config.py:176 calls it   *)
(* the "seconds between spawns during a cold start".                       *)
SpawnsAreStaggered == [][Launched => since >= StartStagger]_<<vars, since>>
=============================================================================
