------------------------------ MODULE MCRegistry -----------------------------
(* Two boards, two clients and the main thread.  Ports 2 to 4 may be        *)
(* assigned, of which browsers block 3.                                     *)
EXTENDS Registry, TLC

CONSTANTS a, b, always, manual, c1, c2, main

Bounds == [o \in Outside |-> IF o = "ask" THEN 2 ELSE 1]
\* Each sets a key alone too, where the other gets the value it has.
SomeKeys == {{"port", "name"}, {"setting", "name"}}
Symmetry == Permutations(Clients) \cup Permutations(Names)
=============================================================================
