------------------------------- MODULE Activity -------------------------------
(***************************************************************************)
(* The activity watcher (activity.py): a thread that samples, pass after   *)
(* pass, how lately any event file below each board's logdir was written,  *)
(* so that a row can say that data is arriving.  A pass walks the tree of  *)
(* a board that is new or whose last full walk is full_interval old; for   *)
(* the others it looks only at the file that was newest then.              *)
(*                                                                         *)
(* Time goes in units in which the watcher completes at least one pass; a  *)
(* pass itself takes no time, but writers, deletions and reloads move      *)
(* between any two of its visits.  Ages and intervals are in these units.  *)
(***************************************************************************)
EXTENDS Naturals, FiniteSets

CONSTANTS
    Boards,     \* every board name a registry may list
    Dirs,       \* every logdir
    Runs,       \* every event file
    Files,      \* logdir -> the event files that may lie below it
    Large,      \* the logdirs with more entries than the cap
    Steady,     \* the logdirs that never stop receiving data
    NoDir, NoRun,
    FullInterval, Window,  \* full_interval, WRITING_WINDOW
    Gap         \* the longest silence of a steady logdir

ASSUME WatcherAssumption ==
    /\ NoDir \notin Dirs /\ NoRun \notin Runs
    /\ Files \in [Dirs -> SUBSET Runs]
    /\ Large \subseteq Dirs /\ Steady \subseteq Dirs \ Large
    /\ \A d \in Steady : Files[d] # {}
    /\ FullInterval \in Nat \ {0} /\ Window \in Nat /\ Gap \in Nat \ {0}

(* The default intervals, 120 s and 180 s, leave a silence of up to 60 s.  *)
ASSUME WindowAssumption == FullInterval + Gap <= Window

Old == Window + 1
Ages == 0 .. Old
Registry == [Boards -> Dirs \cup {NoDir}]
Sample == [root: Dirs \cup {NoDir}, newest: Runs \cup {NoRun}, age: Ages]
NoSample == [root |-> NoDir, newest |-> NoRun, age |-> Old]

VARIABLES
    dirs,       \* board_dirs of the registry in force
    present,    \* the event files that exist
    age,        \* time since each file was written last, at most Old
    state,      \* _state; root is the logdir the last full walk walked
    sinceFull,  \* time since that walk, at most FullInterval (_full_at)
    pc,         \* the watcher: "idle" or "pass"
    roots,      \* the pass's dirs
    left,       \* the boards the pass has still to visit
    draft,      \* the pass's state
    changed,    \* the pass's changed; once it ends, whether it published
    sampled     \* a pass was completed in this unit of time

pass == <<pc, roots, left, draft, changed>>
vars == <<dirs, present, age, state, sinceFull, pass, sampled>>

TypeOK ==
    /\ dirs \in Registry
    /\ present \subseteq Runs
    /\ age \in [Runs -> Ages]
    /\ state \in [Boards -> Sample]
    /\ sinceFull \in [Boards -> 0 .. FullInterval]
    /\ pc \in {"idle", "pass"}
    /\ roots \in Registry
    /\ left \subseteq Boards
    /\ draft \in [Boards -> Sample]
    /\ changed \in BOOLEAN /\ sampled \in BOOLEAN
    /\ \A b \in Boards : state[b].newest = NoRun => state[b].age = Old

Init ==
    /\ dirs \in Registry
    /\ present = UNION {Files[d] : d \in Steady}
    /\ age = [r \in Runs |-> IF r \in present THEN 0 ELSE Old]
    /\ state = [b \in Boards |-> NoSample] /\ draft = state
    /\ sinceFull = [b \in Boards |-> FullInterval]
    /\ pc = "idle" /\ roots = [b \in Boards |-> NoDir] /\ left = {}
    /\ changed = FALSE /\ sampled = FALSE

-----------------------------------------------------------------------------
(* What the rest of the world does.                                        *)

(* A run appends to its event file, or creates it.                         *)
Write(r) ==
    /\ present' = present \cup {r}
    /\ age' = [age EXCEPT ![r] = 0]
    /\ UNCHANGED <<dirs, state, sinceFull, pass, sampled>>

(* Another file of a steady logdir was written lately, if r is in one.     *)
Vanish(r) ==
    /\ r \in present
    /\ \A d \in Steady : \E q \in Files[d] \cap present : q # r /\ age[q] < Gap
    /\ present' = present \ {r}
    /\ UNCHANGED <<dirs, age, state, sinceFull, pass, sampled>>

(* A reload adds a board, removes it, or gives it another logdir.          *)
Reload(b, d) ==
    /\ dirs[b] # d
    /\ dirs' = [dirs EXCEPT ![b] = d]
    /\ UNCHANGED <<present, age, state, sinceFull, pass, sampled>>

Older(a) == IF a < Old THEN a + 1 ELSE Old

Elapse ==
    /\ pc = "idle" /\ sampled
    /\ \A d \in Steady : \E r \in Files[d] \cap present : age[r] < Gap
    /\ age' = [r \in Runs |-> Older(age[r])]
    /\ state' = [b \in Boards |-> [state[b] EXCEPT !.age = Older(@)]]
    /\ sinceFull' = [b \in Boards |->
         IF sinceFull[b] < FullInterval THEN sinceFull[b] + 1 ELSE FullInterval]
    /\ sampled' = FALSE
    /\ UNCHANGED <<dirs, present, pass>>

-----------------------------------------------------------------------------
(* The watcher: sample, scan, touch and writing.                           *)

Writing(s) == s.age <= Window

(* What a walk may see of a logdir: beyond the cap, any part of it.        *)
Seen(d) ==
    IF d \in Large THEN SUBSET (Files[d] \cap present) ELSE {Files[d] \cap present}

Newest(seen) == {r \in seen : \A q \in seen : age[r] <= age[q]}

(* Seeded fault: a logdir without event files counts as just written.      *)
ScanFromNow(d) == {[root |-> d, newest |-> NoRun, age |-> 0]}

Scan(d) ==
    UNION {IF seen = {}
             THEN {[NoSample EXCEPT !.root = d]}
             ELSE {[root |-> d, newest |-> r, age |-> age[r]] : r \in Newest(seen)}
           : seen \in Seen(d)}

Begin ==
    /\ pc = "idle"
    /\ pc' = "pass"
    /\ roots' = dirs /\ left' = {b \in Boards : dirs[b] # NoDir}
    /\ draft' = state /\ changed' = FALSE
    /\ UNCHANGED <<dirs, present, age, state, sinceFull, sampled>>

Visited(b, s) ==
    /\ left' = left \ {b}
    /\ draft' = [draft EXCEPT ![b] = s]
    /\ changed' = (changed \/ Writing(draft[b]) # Writing(s))
    /\ UNCHANGED <<dirs, present, age, state, pc, roots, sampled>>

(* Seeded fault: a board once seen is only touched.                        *)
NeverDue(b) == draft[b].root = NoDir

FullDue(b) == draft[b].root = NoDir \/ sinceFull[b] >= FullInterval

(* Seeded fault: a board keeps the logdir it was first seen with.          *)
FirstRoot(b) == IF draft[b].root = NoDir THEN roots[b] ELSE draft[b].root

Root(b) == roots[b]

Walk(b) ==
    /\ pc = "pass" /\ b \in left /\ FullDue(b)
    /\ \E s \in Scan(Root(b)) : Visited(b, s)
    /\ sinceFull' = [sinceFull EXCEPT ![b] = 0]

(* Seeded fault: a look at the file counts as a write to it.               *)
TouchedNow(b) ==
    LET s == draft[b]
    IN  IF s.newest \in present THEN [s EXCEPT !.age = 0] ELSE s

(* Only a later write to the file that was newest counts.                  *)
Touched(b) ==
    LET s == draft[b]
    IN  IF s.newest \in present /\ age[s.newest] < s.age
          THEN [s EXCEPT !.age = age[s.newest]]
          ELSE s

Touch(b) ==
    /\ pc = "pass" /\ b \in left /\ ~FullDue(b)
    /\ Visited(b, Touched(b))
    /\ UNCHANGED sinceFull

(* Seeded fault: boards that went away are dropped in silence.             *)
DroppedUnseen == FALSE

Dropped == \E b \in Boards : roots[b] = NoDir /\ draft[b].root # NoDir

End ==
    /\ pc = "pass" /\ left = {}
    /\ pc' = "idle"
    /\ state' = [b \in Boards |-> IF roots[b] = NoDir THEN NoSample ELSE draft[b]]
    /\ changed' = (changed \/ Dropped)
    /\ roots' = [b \in Boards |-> NoDir]
    /\ draft' = [b \in Boards |-> NoSample]
    /\ sampled' = TRUE
    /\ UNCHANGED <<dirs, present, age, sinceFull, left>>

-----------------------------------------------------------------------------
Watcher == Begin \/ End \/ \E b \in Boards : Touch(b) \/ Walk(b)

Next ==
    \/ \E r \in Runs : Write(r) \/ Vanish(r)
    \/ \E b \in Boards, d \in Dirs \cup {NoDir} : Reload(b, d)
    \/ Elapse \/ Begin \/ End
    \/ \E b \in Boards : Touch(b) \/ Walk(b)

Spec == Init /\ [][Next]_vars

(* The watcher never stops, a steady logdir is written to in every unit,   *)
(* and time passes.                                                        *)
FairSpec ==
    /\ Spec
    /\ WF_vars(Watcher)
    /\ \A d \in Steady : WF_vars(\E r \in Files[d] : Write(r))
    /\ SF_vars(Elapse)

-----------------------------------------------------------------------------
(* Properties.                                                             *)

(* While data keeps arriving below the logdir a board was last walked at,  *)
(* its row never stops saying so: not while the run the watcher follows    *)
(* ends and another goes on unseen until the next full walk, nor when its  *)
(* event file is deleted.                                                  *)
SteadyShowsWriting ==
    \A b \in Boards : state[b].root \in Steady => Writing(state[b])

(* A row shows data only if data came: the age the watcher gives a board   *)
(* is never less than the time since the file it follows was written, and  *)
(* that file was found below the logdir the board was walked at; whatever  *)
(* is written, deleted and reloaded while a pass is under way.             *)
ShowsOnlyData ==
    \A b \in Boards :
        Writing(state[b]) =>
            /\ state[b].newest \in Files[state[b].root]
            /\ age[state[b].newest] <= state[b].age

(* A pass that turns the writing flag of any board tells the supervisor.   *)
FlipsAreAnnounced ==
    [][End /\ (\E b \in Boards : Writing(state[b]) # Writing(state'[b])) => changed']_vars

(* A board that stays at a logdir is in the end sampled there, wherever it *)
(* was before and whatever file the watcher followed, and the newest file  *)
(* it follows lies in that logdir.                                         *)
FollowsLogdir ==
    \A b \in Boards, d \in Steady :
        <>[](dirs[b] = d) => <>[](state[b].root = d /\ state[b].newest \in Files[d])
=============================================================================
