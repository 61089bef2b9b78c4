----------------------------- MODULE MCQueueLink -----------------------------
(***************************************************************************)
(* Instances of QueueLink: one job that names board a on its command line, *)
(* one that only runs in the directory both boards lie in.                 *)
(***************************************************************************)
EXTENDS QueueLink

CONSTANTS a, b, told, tied

NamedBoards == [j \in Jobs |-> IF j = told THEN {a} ELSE {}]
InsideBoards == [j \in Jobs |-> {a, b}]

Bounds == [change |-> 1, fault |-> 1, outage |-> 1, reload |-> 2, shift |-> 1]

(* The registry stays, the queue and the watcher move.                     *)
ShiftBounds == [change |-> 1, fault |-> 0, outage |-> 0, reload |-> 0, shift |-> 1]
=============================================================================
