------------------------------ MODULE MCActivity ------------------------------
(***************************************************************************)
(* An instance of Activity: logdir d holds two runs, of which one at least *)
(* is always active; logdir e lies in d, holds the second of them and is   *)
(* too large to walk.                                                      *)
(***************************************************************************)
EXTENDS Activity

CONSTANTS d, e, r1, r2

FilesOf == [l \in Dirs |-> IF l = d THEN {r1, r2} ELSE {r2}]
=============================================================================
