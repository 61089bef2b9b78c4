--------------------------- MODULE SupervisorProbes ---------------------------
(***************************************************************************)
(* The supervision loop beside a record of the probes it made.  The code   *)
(* keeps a count of strikes that outlives the child it was counted of; the *)
(* record is of one child, from its launch, and no step reads it.          *)
(***************************************************************************)
EXTENDS SupervisorSlots

VARIABLE past   \* what each board's present child made of its probes: whether it
                \* ever answered one, and how many it left unanswered since

Unasked == [heard |-> FALSE, missed |-> 0]
Missed(n) == IF n < UnhealthyStrikes THEN n + 1 ELSE n
Told(h, ans) ==
    IF ans = "yes" THEN [heard |-> TRUE, missed |-> 0]
    ELSE IF h.heard THEN [h EXCEPT !.missed = Missed(@)]
    ELSE h

(* A probe: the only step that gives `answer` a value.                     *)
Asked(b) == answer = "none" /\ answer' # "none" /\ b = Head(todo)

Record ==
    past' = [b \in Boards |->
                IF ~HasChild(b)' THEN Unasked
                ELSE IF Asked(b) THEN Told(past[b], answer')
                ELSE past[b]]

ProbedInit == Init /\ past = [b \in Boards |-> Unasked]
ProbedNext == Next /\ Record
ProbedSpec == ProbedInit /\ [][ProbedNext]_<<vars, past>>

(* How the record and the strikes agree: a child without an answer is      *)
(* still starting, and one that answered left at least as many probes      *)
(* unanswered as its board has strikes, the answer at hand counted.        *)
AtHand(b, ans) == answer = ans /\ b = Head(todo)
RecordOf(b) ==
    /\ ~HasChild(b) => past[b] = Unasked
    /\ HasChild(b) /\ rt[b].state = "starting" => (past[b].heard <=> AtHand(b, "yes"))
    /\ HasChild(b) /\ rt[b].state # "starting" =>
          /\ past[b].heard
          /\ \/ AtHand(b, "yes")
             \/ rt[b].strikes + (IF AtHand(b, "no") THEN 1 ELSE 0) <= past[b].missed
RecordInv ==
    /\ past \in [Boards -> [heard: BOOLEAN, missed: 0 .. UnhealthyStrikes]]
    /\ \A b \in Boards : RecordOf(b)

(* Nothing takes a living child away but its user, the registry, the       *)
(* shutdown, and the health check of a tick; and that one only a child     *)
(* that never answered a probe, asked when its start_timeout had passed,   *)
(* or one that left the last UNHEALTHY_STRIKES probes in a row unanswered. *)
(* One late answer, or the strikes of the board's last child, do not do.   *)
(* The child may well accept connections when it is ended: it did not when *)
(* it was asked.                                                           *)
ChildrenAreSpared ==
    [][\A b \in Boards : Alive(b) /\ ~HasChild(b)' =>
          \/ /\ phase \in {"loop", "lost"}
             /\ stopping \/ b \notin DOMAIN config'.spec
                         \/ config.spec[b].port # config'.spec[b].port
          \/ phase = "drain" /\ Head(requests) \in {<<"stop", b>>, <<"restart", b>>}
          \/ phase = "tick" /\ ~Wanted(b)
          \/ /\ phase = "tick" /\ answer = "no"
             /\ IF past[b].heard THEN past[b].missed = UnhealthyStrikes
                ELSE rt[b].due = 0]_<<vars, past>>
=============================================================================
