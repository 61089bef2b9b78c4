---------------------------- MODULE ActivityProofs ----------------------------
(***************************************************************************)
(* Proofs about Activity: its types, that a board at a logdir that never   *)
(* stops receiving data never stops showing it, that a row never shows     *)
(* data that did not come, and that no turn of a flag goes unannounced,    *)
(* for any boards, runs and intervals with FullInterval + Gap <= Window.   *)
(***************************************************************************)
EXTENDS Activity, TLAPS

(* The interval between two full walks is kept: between two units of time  *)
(* every sampled board has been walked less than FullInterval ago, and in  *)
(* a pass so has every board that was visited.                             *)
WalkedInTime ==
    /\ sampled => \A b \in Boards :
         state[b].root # NoDir => sinceFull[b] < FullInterval
    /\ pc = "pass" => \A b \in Boards \ left :
         roots[b] # NoDir => sinceFull[b] < FullInterval

(* What is known of a steady logdir is as old as the last full walk, and   *)
(* the silence it may have seen, at the most.  In a pass the walk is timed *)
(* at once while the state still has the sample before it.                 *)
Fresh(s, since) == s.root \in Steady => s.age <= since + Gap
SamplesFresh ==
    \A b \in Boards :
        IF pc = "idle"
          THEN Fresh(state[b], sinceFull[b])
          ELSE Fresh(state[b], FullInterval) /\ Fresh(draft[b], sinceFull[b])

(* A steady logdir has a file written within Gap.                          *)
SteadyReceives ==
    \A d \in Steady : \E r \in Files[d] \cap present : age[r] <= Gap

(* A pass visits only boards it found registered, and a sample without a   *)
(* file has no age.                                                        *)
PassSound ==
    /\ \A b \in left : roots[b] \in Dirs
    /\ \A b \in Boards : draft[b].newest = NoRun => draft[b].age = Old

Types == TypeOK /\ PassSound
IInv == Types /\ WalkedInTime /\ SamplesFresh /\ SteadyReceives

-----------------------------------------------------------------------------
(* Ageing keeps an age an age, and adds at most one.                       *)
LEMMA OlderType ==
    ASSUME NEW a \in Ages PROVE Older(a) \in Ages /\ Older(a) <= a + 1
BY WatcherAssumption DEF Older, Ages, Old

(* A sample with another age is a sample.                                  *)
LEMMA SampleAge ==
    ASSUME NEW s \in Sample, NEW a \in Ages
    PROVE  /\ [s EXCEPT !.age = a] \in Sample
           /\ [s EXCEPT !.age = a].age = a
           /\ [s EXCEPT !.age = a].root = s.root
           /\ [s EXCEPT !.age = a].newest = s.newest
BY DEF Sample

(* A walk returns a sample of the logdir it walked; without a file it      *)
(* knows no age.                                                           *)
LEMMA ScanType ==
    ASSUME TypeOK, NEW d \in Dirs, NEW s \in Scan(d)
    PROVE  /\ s \in Sample /\ s.root = d
           /\ s.newest = NoRun => s.age = Old
<1>1. NoSample \in Sample
    BY WatcherAssumption DEF NoSample, Sample, Ages, Old
<1>2. PICK seen \in Seen(d) :
        s \in IF seen = {}
                THEN {[NoSample EXCEPT !.root = d]}
                ELSE {[root |-> d, newest |-> r, age |-> age[r]] : r \in Newest(seen)}
    BY DEF Scan
<1>3. seen \subseteq Runs
    BY <1>2, WatcherAssumption DEF Seen
<1>4. CASE seen = {}
    BY <1>1, <1>2, <1>4 DEF NoSample, Sample
<1>5. CASE seen # {}
  <2>1. PICK r \in Newest(seen) : s = [root |-> d, newest |-> r, age |-> age[r]]
      BY <1>2, <1>5
  <2>2. r \in Runs /\ age[r] \in Ages
      BY <2>1, <1>3 DEF Newest, TypeOK
  <2> QED
      BY <2>1, <2>2, WatcherAssumption DEF Sample
<1> QED
    BY <1>4, <1>5

(* A walk of a steady logdir finds a file written within Gap.              *)
LEMMA ScanFresh ==
    ASSUME TypeOK, SteadyReceives, NEW d \in Steady, NEW s \in Scan(d)
    PROVE  s.age <= Gap
<1>1. PICK q \in Files[d] \cap present : age[q] <= Gap
    BY DEF SteadyReceives
<1>2. Seen(d) = {Files[d] \cap present} /\ Files[d] \subseteq Runs
    BY WatcherAssumption DEF Seen
<1>a. s \in {[root |-> d, newest |-> r, age |-> age[r]] :
              r \in Newest(Files[d] \cap present)}
    BY <1>1, <1>2 DEF Scan
<1>3. PICK r \in Newest(Files[d] \cap present) :
        s = [root |-> d, newest |-> r, age |-> age[r]]
    BY <1>a
<1>4. age[r] <= age[q]
    BY <1>1, <1>3 DEF Newest
<1>5. r \in Runs /\ q \in Runs /\ age[r] \in Nat /\ age[q] \in Nat
    BY <1>1, <1>2, <1>3 DEF Newest, TypeOK, Ages
<1> QED
    BY <1>1, <1>3, <1>4, <1>5, WatcherAssumption

(* A touch keeps the walk the sample comes from, and never makes it older. *)
LEMMA TouchedType ==
    ASSUME TypeOK, NEW b \in Boards
    PROVE  /\ Touched(b) \in Sample /\ Touched(b).root = draft[b].root
           /\ Touched(b).newest = draft[b].newest
           /\ Touched(b).age <= draft[b].age
           /\ Touched(b).age # draft[b].age => draft[b].newest # NoRun
<1>1. draft[b] \in Sample /\ draft[b].age \in Nat
    BY WatcherAssumption DEF TypeOK, Sample, Ages, Old
<1>2. CASE draft[b].newest \in present /\ age[draft[b].newest] < draft[b].age
  <2>1. age[draft[b].newest] \in Ages /\ draft[b].newest # NoRun
      BY <1>2, WatcherAssumption DEF TypeOK
  <2>2. Touched(b) = [draft[b] EXCEPT !.age = age[draft[b].newest]]
      BY <1>2 DEF Touched
  <2>3. age[draft[b].newest] <= draft[b].age
      BY <1>1, <1>2, <2>1, WatcherAssumption DEF Ages, Old
  <2> QED
      BY <1>1, <2>1, <2>2, <2>3, SampleAge
<1>3. CASE ~(draft[b].newest \in present /\ age[draft[b].newest] < draft[b].age)
    BY <1>1, <1>3 DEF Touched
<1> QED
    BY <1>2, <1>3

-----------------------------------------------------------------------------
(* The watcher starts in its types.                                        *)
LEMMA InitTypes == Init => Types
<1> SUFFICES ASSUME Init PROVE Types
    OBVIOUS
<1>1. NoSample \in Sample /\ NoSample.newest = NoRun /\ NoSample.age = Old
    BY WatcherAssumption DEF NoSample, Sample, Ages, Old
<1>2. present \subseteq Runs /\ age \in [Runs -> Ages]
    BY WatcherAssumption DEF Init, Ages, Old
<1>3. /\ \A b \in Boards : state[b] = NoSample /\ draft[b] = NoSample
      /\ state \in [Boards -> Sample] /\ draft \in [Boards -> Sample]
    BY <1>1 DEF Init
<1>4. /\ sinceFull \in [Boards -> 0 .. FullInterval]
      /\ roots \in Registry /\ dirs \in Registry
    BY WatcherAssumption DEF Init, Registry
<1>5. PassSound
    BY <1>1, <1>3 DEF Init, PassSound
<1>6. TypeOK
    BY <1>1, <1>2, <1>3, <1>4 DEF Init, TypeOK
<1> QED
    BY <1>5, <1>6 DEF Types

(* A visit that leaves a sample of the board keeps the types.              *)
LEMMA VisitedTypes ==
    ASSUME Types, NEW b \in Boards, NEW s \in Sample, Visited(b, s),
           s.newest = NoRun => s.age = Old,
           sinceFull' \in [Boards -> 0 .. FullInterval]
    PROVE  Types'
BY DEF Types, TypeOK, PassSound, Visited

(* Every step keeps the types.                                             *)
LEMMA NextTypes == Types /\ [Next]_vars => Types'
<1> SUFFICES ASSUME Types, [Next]_vars PROVE Types'
    OBVIOUS
<1> USE WatcherAssumption DEF pass
<1>t. TypeOK /\ PassSound
    BY DEF Types
<1>n. NoSample \in Sample /\ NoSample.newest = NoRun /\ NoSample.age = Old
    BY DEF NoSample, Sample, Ages, Old
<1>1. ASSUME NEW r \in Runs, Write(r) PROVE Types'
    BY <1>t, <1>1 DEF Types, TypeOK, PassSound, Write, Ages, Old
<1>2. ASSUME NEW r \in Runs, Vanish(r) PROVE Types'
  <2>1. age' \in [Runs -> Ages] /\ present' \subseteq Runs
      BY <1>t, <1>2 DEF TypeOK, Vanish
  <2> QED
      BY <1>t, <1>2, <2>1 DEF Types, TypeOK, PassSound, Vanish
<1>3. ASSUME NEW b \in Boards, NEW d \in Dirs \cup {NoDir}, Reload(b, d) PROVE Types'
    BY <1>t, <1>3 DEF Types, TypeOK, PassSound, Reload, Registry
<1>4. CASE Elapse
  <2>1. age' \in [Runs -> Ages]
      BY <1>t, <1>4, OlderType DEF TypeOK, Elapse
  <2>2. sinceFull' \in [Boards -> 0 .. FullInterval]
      BY <1>t, <1>4 DEF TypeOK, Elapse
  <2>3. \A b \in Boards :
          /\ [state[b] EXCEPT !.age = Older(@)] \in Sample
          /\ [state[b] EXCEPT !.age = Older(@)].newest = NoRun
               => [state[b] EXCEPT !.age = Older(@)].age = Old
    <3> SUFFICES ASSUME NEW b \in Boards
                 PROVE  /\ [state[b] EXCEPT !.age = Older(@)] \in Sample
                        /\ [state[b] EXCEPT !.age = Older(@)].newest = NoRun
                             => [state[b] EXCEPT !.age = Older(@)].age = Old
        OBVIOUS
    <3>1. state[b] \in Sample /\ state[b].age \in Ages
        BY <1>t DEF TypeOK, Sample
    <3>2. Older(state[b].age) \in Ages
        BY <3>1, OlderType
    <3>3. state[b].age = Old => Older(state[b].age) = Old
        BY DEF Older, Old
    <3> QED
        BY <1>t, <3>1, <3>2, <3>3, SampleAge DEF TypeOK
  <2>4. state' = [b \in Boards |-> [state[b] EXCEPT !.age = Older(@)]]
      BY <1>4 DEF Elapse
  <2>5. /\ state' \in [Boards -> Sample]
        /\ \A b \in Boards : state'[b].newest = NoRun => state'[b].age = Old
      BY <2>3, <2>4
  <2> QED
      BY <1>t, <1>4, <2>1, <2>2, <2>5 DEF Types, TypeOK, PassSound, Elapse
<1>5. CASE Begin
  <2>1. PassSound'
      BY <1>t, <1>5 DEF TypeOK, PassSound, Begin, Registry
  <2>2. TypeOK'
      BY <1>t, <1>5 DEF TypeOK, Begin
  <2> QED
      BY <2>1, <2>2 DEF Types
<1>6. CASE End
  <2>1. \A b \in Boards : state'[b] = NoSample \/ state'[b] = draft[b]
      BY <1>6 DEF End
  <2>2. /\ state' \in [Boards -> Sample]
        /\ \A b \in Boards : state'[b].newest = NoRun => state'[b].age = Old
      BY <1>t, <1>n, <1>6, <2>1 DEF TypeOK, PassSound, End
  <2>3. Dropped \in BOOLEAN
      BY DEF Dropped
  <2>4. PassSound'
      BY <1>t, <1>n, <1>6 DEF PassSound, End
  <2>5. TypeOK'
      BY <1>t, <1>n, <1>6, <2>2, <2>3 DEF TypeOK, End, Registry
  <2> QED
      BY <2>4, <2>5 DEF Types
<1>7. ASSUME NEW b \in Boards, Touch(b) PROVE Types'
  <2>1. Touched(b) \in Sample /\ (Touched(b).newest = NoRun => Touched(b).age = Old)
      BY <1>t, TouchedType DEF PassSound
  <2>2. Visited(b, Touched(b)) /\ sinceFull' \in [Boards -> 0 .. FullInterval]
      BY <1>t, <1>7 DEF TypeOK, Touch
  <2> QED
      BY <2>1, <2>2, VisitedTypes
<1>8. ASSUME NEW b \in Boards, Walk(b) PROVE Types'
  <2>1. b \in left /\ roots[b] \in Dirs
      BY <1>t, <1>8 DEF PassSound, Walk
  <2>2. PICK s \in Scan(roots[b]) : Visited(b, s)
      BY <1>8 DEF Walk, Root
  <2>3. s \in Sample /\ (s.newest = NoRun => s.age = Old)
      BY <1>t, <2>1, ScanType
  <2>4. sinceFull' \in [Boards -> 0 .. FullInterval]
      BY <1>t, <1>8 DEF TypeOK, Walk
  <2> QED
      BY <2>2, <2>3, <2>4, VisitedTypes
<1>9. CASE UNCHANGED vars
    BY <1>t, <1>9 DEF Types, TypeOK, PassSound, vars
<1> QED
    BY <1>1, <1>2, <1>3, <1>4, <1>5, <1>6, <1>7, <1>8, <1>9 DEF Next

(* The watcher never leaves its types, and a sample without an event file  *)
(* never counts as written (activity.py age and writing).                  *)
THEOREM WatcherTypeCorrect == Spec => []TypeOK
<1>1. Types => TypeOK
    BY DEF Types
<1> QED
    BY <1>1, InitTypes, NextTypes, PTL DEF Spec

-----------------------------------------------------------------------------
(* The strengthened invariant holds at the start: nothing is sampled yet.  *)
LEMMA InitIInv == Init => IInv
<1> SUFFICES ASSUME Init PROVE IInv
    OBVIOUS
<1>1. Types
    BY InitTypes
<1>2. WalkedInTime
    BY DEF Init, WalkedInTime
<1>3. SamplesFresh
    BY WatcherAssumption DEF Init, SamplesFresh, Fresh, NoSample
<1>4. SteadyReceives
  <2> SUFFICES ASSUME NEW d \in Steady
               PROVE  \E r \in Files[d] \cap present : age[r] <= Gap
      BY DEF SteadyReceives
  <2>1. PICK r \in Files[d] : r \in Runs /\ r \in present
      BY WatcherAssumption DEF Init
  <2>2. age[r] = 0
      BY <2>1 DEF Init
  <2> QED
      BY <2>1, <2>2, WatcherAssumption
<1> QED
    BY <1>1, <1>2, <1>3, <1>4 DEF IInv

(* Writers and deletions leave every steady logdir a file written lately,  *)
(* and so does time.                                                       *)
LEMMA NextReceives == IInv /\ [Next]_vars => SteadyReceives'
<1> SUFFICES ASSUME IInv, [Next]_vars, NEW d \in Steady
             PROVE  \E r \in Files[d] \cap present' : age'[r] <= Gap
    BY DEF SteadyReceives
<1> USE WatcherAssumption DEF pass
<1>t. /\ age \in [Runs -> Nat] /\ present \subseteq Runs /\ Files[d] \subseteq Runs
    BY DEF IInv, Types, TypeOK, Ages, Old
<1>r. PICK q \in Files[d] \cap present : age[q] <= Gap
    BY DEF IInv, SteadyReceives
<1>u. ASSUME UNCHANGED <<age, present>> PROVE age'[q] <= Gap /\ q \in present'
    BY <1>r, <1>u
<1>1. ASSUME NEW r \in Runs, Write(r)
      PROVE  \E p \in Files[d] \cap present' : age'[p] <= Gap
  <2>1. age'[q] <= Gap /\ q \in present'
      BY <1>t, <1>r, <1>1 DEF Write
  <2> QED
      BY <1>r, <2>1
<1>2. ASSUME NEW r \in Runs, Vanish(r)
      PROVE  \E p \in Files[d] \cap present' : age'[p] <= Gap
  <2>1. PICK p \in Files[d] \cap present : p # r /\ age[p] < Gap
      BY <1>2 DEF Vanish
  <2>2. age'[p] <= Gap /\ p \in present'
      BY <1>t, <1>2, <2>1 DEF Vanish
  <2> QED
      BY <2>1, <2>2
<1>4. CASE Elapse
  <2>1. PICK p \in Files[d] \cap present : age[p] < Gap
      BY <1>4 DEF Elapse
  <2>2. age'[p] = Older(age[p]) /\ present' = present
      BY <1>t, <1>4, <2>1 DEF Elapse
  <2>3. age[p] \in Ages
      BY <1>t, <2>1 DEF IInv, Types, TypeOK
  <2>4. Older(age[p]) \in Ages /\ Older(age[p]) <= age[p] + 1
      BY <2>3, OlderType
  <2>5. age'[p] <= Gap
      BY <2>1, <2>2, <2>3, <2>4 DEF Ages, Old
  <2> QED
      BY <2>1, <2>2, <2>5
<1>5. ASSUME UNCHANGED <<age, present>>
      PROVE  \E p \in Files[d] \cap present' : age'[p] <= Gap
    BY <1>r, <1>u, <1>5
<1>6. ASSUME NEW b \in Boards, Touch(b) \/ Walk(b) PROVE UNCHANGED <<age, present>>
    BY <1>6 DEF Touch, Walk, Visited
<1>7. Begin \/ End \/ UNCHANGED vars => UNCHANGED <<age, present>>
    BY DEF Begin, End, vars
<1>8. ASSUME NEW b \in Boards, NEW e \in Dirs \cup {NoDir}, Reload(b, e)
      PROVE  UNCHANGED <<age, present>>
    BY <1>8 DEF Reload
<1> QED
    BY <1>1, <1>2, <1>4, <1>5, <1>6, <1>7, <1>8 DEF Next

(* A visit leaves what it did not touch, and what it left is fresh.        *)
LEMMA VisitedFresh ==
    ASSUME IInv, NEW b \in Boards, NEW s \in Sample, Visited(b, s), pc = "pass",
           sinceFull' \in [Boards -> 0 .. FullInterval],
           \A x \in Boards \ {b} : sinceFull'[x] = sinceFull[x],
           sinceFull'[b] < FullInterval,
           Fresh(s, sinceFull'[b])
    PROVE  WalkedInTime' /\ SamplesFresh'
<1>1. /\ draft'[b] = s /\ \A x \in Boards \ {b} : draft'[x] = draft[x]
      /\ Boards \ left' \subseteq (Boards \ left) \cup {b}
      /\ UNCHANGED <<state, roots, sampled>> /\ pc' = "pass"
    BY DEF Visited, IInv, Types, TypeOK
<1>2. WalkedInTime'
    BY <1>1 DEF IInv, WalkedInTime
<1>3. ASSUME NEW x \in Boards
      PROVE  Fresh(state'[x], FullInterval) /\ Fresh(draft'[x], sinceFull'[x])
    BY <1>1 DEF IInv, SamplesFresh, Fresh
<1> QED
    BY <1>1, <1>2, <1>3 DEF SamplesFresh

(* Every step keeps the strengthened invariant.                            *)
LEMMA NextIInv == IInv /\ [Next]_vars => IInv'
<1> SUFFICES ASSUME IInv, [Next]_vars PROVE IInv'
    OBVIOUS
<1> USE WatcherAssumption DEF pass
<1>t. Types /\ Types' /\ TypeOK /\ PassSound /\ SteadyReceives /\ SteadyReceives'
    BY NextTypes, NextReceives DEF IInv, Types
<1>u. ASSUME UNCHANGED <<state, sinceFull, pass, sampled>>
      PROVE  WalkedInTime' /\ SamplesFresh'
  <2>1. WalkedInTime'
      BY <1>u DEF IInv, WalkedInTime
  <2>2. SamplesFresh'
      BY <1>u DEF IInv, SamplesFresh, Fresh
  <2> QED
      BY <2>1, <2>2
<1>1. ASSUME NEW r \in Runs, Write(r) \/ Vanish(r)
      PROVE  WalkedInTime' /\ SamplesFresh'
    BY <1>1, <1>u DEF Write, Vanish
<1>3. ASSUME NEW b \in Boards, NEW d \in Dirs \cup {NoDir}, Reload(b, d)
      PROVE  WalkedInTime' /\ SamplesFresh'
    BY <1>3, <1>u DEF Reload
<1>4. ASSUME Elapse PROVE WalkedInTime' /\ SamplesFresh'
  <2>0. pc = "idle" /\ pc' = "idle" /\ sampled /\ sampled' = FALSE
      BY <1>4 DEF Elapse
  <2>1. ASSUME NEW b \in Boards PROVE Fresh(state'[b], sinceFull'[b])
    <3> SUFFICES ASSUME state[b].root \in Steady
                 PROVE  /\ state'[b].age <= sinceFull'[b] + Gap
                        /\ state'[b].root = state[b].root
      <4>1. state[b] \in Sample /\ Older(state[b].age) \in Ages
          BY <1>t, OlderType DEF TypeOK, Sample
      <4>2. state'[b].root = state[b].root
          BY <1>4, <4>1, SampleAge DEF Elapse
      <4> QED
          BY <4>2 DEF Fresh
    <3>1. state[b] \in Sample /\ state[b].age \in Ages /\ state[b].age \in Nat
        BY <1>t DEF TypeOK, Sample, Ages, Old
    <3>2. Older(state[b].age) \in Ages /\ Older(state[b].age) <= state[b].age + 1
        BY <3>1, OlderType
    <3>3. state'[b].age = Older(state[b].age) /\ state'[b].root = state[b].root
        BY <1>4, <3>1, <3>2, SampleAge DEF Elapse
    <3>4. sinceFull[b] < FullInterval /\ sinceFull[b] \in Nat
        BY <1>t, <2>0 DEF IInv, WalkedInTime, TypeOK
    <3>5. sinceFull'[b] = sinceFull[b] + 1
        BY <1>4, <3>4 DEF Elapse
    <3>6. state[b].age <= sinceFull[b] + Gap
        BY <2>0 DEF IInv, SamplesFresh, Fresh
    <3>7. Older(state[b].age) \in Nat
        BY <3>2 DEF Ages, Old
    <3>8. Older(state[b].age) <= sinceFull[b] + 1 + Gap
        BY <3>1, <3>2, <3>4, <3>6, <3>7
    <3> QED
        BY <3>3, <3>5, <3>8, <3>4
  <2> QED
      BY <2>0, <2>1 DEF WalkedInTime, SamplesFresh
<1>5. ASSUME Begin PROVE WalkedInTime' /\ SamplesFresh'
  <2>1. WalkedInTime'
      BY <1>t, <1>5 DEF IInv, WalkedInTime, Begin
  <2>2. ASSUME NEW b \in Boards
        PROVE  Fresh(state[b], FullInterval) /\ Fresh(state[b], sinceFull[b])
    <3>1. Fresh(state[b], sinceFull[b])
        BY <1>5 DEF IInv, SamplesFresh, Begin
    <3>2. state[b].age \in Nat /\ sinceFull[b] \in Nat /\ sinceFull[b] <= FullInterval
        BY <1>t DEF TypeOK, Sample, Ages, Old
    <3> QED
        BY <3>1, <3>2 DEF Fresh
  <2>3. pc' = "pass" /\ state' = state /\ draft' = state /\ sinceFull' = sinceFull
      BY <1>5 DEF Begin
  <2> QED
      BY <2>1, <2>2, <2>3 DEF SamplesFresh
<1>6. ASSUME End PROVE WalkedInTime' /\ SamplesFresh'
  <2>1. /\ pc = "pass" /\ pc' = "idle" /\ left = {} /\ sinceFull' = sinceFull
        /\ \A b \in Boards :
             state'[b] = IF roots[b] = NoDir THEN NoSample ELSE draft[b]
      BY <1>6 DEF End
  <2>2. WalkedInTime'
      BY <2>1 DEF IInv, WalkedInTime, NoSample
  <2>3. SamplesFresh'
      BY <2>1 DEF IInv, SamplesFresh, Fresh, NoSample
  <2> QED
      BY <2>2, <2>3
<1>7. ASSUME NEW b \in Boards, Touch(b) PROVE WalkedInTime' /\ SamplesFresh'
  <2>1. /\ pc = "pass" /\ Visited(b, Touched(b)) /\ sinceFull' = sinceFull
        /\ sinceFull[b] < FullInterval /\ sinceFull[b] \in Nat
      BY <1>t, <1>7 DEF TypeOK, Touch, FullDue
  <2>2. /\ Touched(b) \in Sample /\ Touched(b).root = draft[b].root
        /\ Touched(b).age <= draft[b].age
        /\ draft[b].age \in Nat /\ Touched(b).age \in Nat
      BY <1>t, TouchedType DEF TypeOK, Sample, Ages, Old
  <2>3. Fresh(Touched(b), sinceFull[b])
      BY <2>1, <2>2 DEF IInv, SamplesFresh, Fresh
  <2> QED
      BY <1>t, <2>1, <2>2, <2>3, VisitedFresh DEF TypeOK
<1>8. ASSUME NEW b \in Boards, Walk(b) PROVE WalkedInTime' /\ SamplesFresh'
  <2>1. b \in left /\ roots[b] \in Dirs /\ pc = "pass"
      BY <1>t, <1>8 DEF PassSound, Walk
  <2>2. PICK s \in Scan(roots[b]) : Visited(b, s)
      BY <1>8 DEF Walk, Root
  <2>3. s \in Sample /\ s.root = roots[b]
      BY <1>t, <2>1, ScanType
  <2>4. roots[b] \in Steady => s.age <= Gap
      BY <1>t, ScanFresh
  <2>5. /\ sinceFull' \in [Boards -> 0 .. FullInterval] /\ sinceFull'[b] = 0
        /\ \A x \in Boards \ {b} : sinceFull'[x] = sinceFull[x]
      BY <1>t, <1>8 DEF TypeOK, Walk
  <2>6. Fresh(s, sinceFull'[b])
      BY <2>3, <2>4, <2>5 DEF Fresh
  <2>7. sinceFull'[b] < FullInterval
      BY <2>5
  <2> QED
      BY <2>1, <2>2, <2>3, <2>5, <2>6, <2>7, VisitedFresh
<1>9. ASSUME UNCHANGED vars PROVE WalkedInTime' /\ SamplesFresh'
    BY <1>9, <1>u DEF vars
<1>10. WalkedInTime' /\ SamplesFresh'
    BY <1>1, <1>3, <1>4, <1>5, <1>6, <1>7, <1>8, <1>9 DEF Next
<1> QED
    BY <1>t, <1>10 DEF IInv

(* A board at a logdir that never stops receiving data shows it in every   *)
(* state, because a full walk comes before the sample outlives             *)
(* WRITING_WINDOW (activity.py sample and writing).                        *)
THEOREM SteadyBoardShowsWriting == Spec => []SteadyShowsWriting
<1>1. IInv => SteadyShowsWriting
  <2> SUFFICES ASSUME IInv, NEW b \in Boards, state[b].root \in Steady
               PROVE  state[b].age <= Window
      BY DEF SteadyShowsWriting, Writing
  <2>1. state[b].age <= FullInterval + Gap
    <3>1. /\ state[b].age \in Nat /\ sinceFull[b] \in Nat
          /\ sinceFull[b] <= FullInterval /\ pc \in {"idle", "pass"}
        BY WatcherAssumption DEF IInv, Types, TypeOK, Sample, Ages, Old
    <3>2. \/ state[b].age <= sinceFull[b] + Gap
          \/ state[b].age <= FullInterval + Gap
        BY DEF IInv, SamplesFresh, Fresh
    <3> QED
        BY <3>1, <3>2, WatcherAssumption
  <2>2. state[b].age \in Nat
      BY WatcherAssumption DEF IInv, Types, TypeOK, Sample, Ages, Old
  <2> QED
      BY <2>1, <2>2, WatcherAssumption, WindowAssumption
<1> QED
    BY <1>1, InitIInv, NextIInv, PTL DEF Spec
-----------------------------------------------------------------------------
(* What a pass has changed of the flags so far is on record: a board it has*)
(* still to visit, or does not visit, has its old sample, and one whose    *)
(* flag differs from the old one set changed.  What has no logdir has no   *)
(* file.                                                                   *)
Announced ==
    /\ \A b \in Boards :
         /\ state[b].root = NoDir => state[b].newest = NoRun
         /\ draft[b].root = NoDir => draft[b].newest = NoRun
    /\ pc = "pass" => \A b \in Boards :
         /\ b \in left \/ roots[b] = NoDir => draft[b] = state[b]
         /\ Writing(draft[b]) # Writing(state[b]) => changed

(* A visit records a flag that it turns.                                   *)
LEMMA VisitedAnnounced ==
    ASSUME Types, Announced, pc = "pass", NEW b \in left, NEW s \in Sample,
           Visited(b, s), s.root = NoDir => s.newest = NoRun
    PROVE  Announced'
<1>t. /\ b \in Boards /\ roots[b] # NoDir /\ draft[b] = state[b]
      /\ draft \in [Boards -> Sample]
    BY WatcherAssumption DEF Types, TypeOK, PassSound, Announced
<1>1. /\ draft' = [draft EXCEPT ![b] = s] /\ left' = left \ {b}
      /\ changed' = (changed \/ Writing(draft[b]) # Writing(s))
      /\ state' = state /\ pc' = pc /\ roots' = roots
    BY DEF Visited
<1>2. \A o \in Boards :
        /\ state'[o].root = NoDir => state'[o].newest = NoRun
        /\ draft'[o].root = NoDir => draft'[o].newest = NoRun
    BY <1>t, <1>1 DEF Announced
<1>3. ASSUME NEW o \in Boards
      PROVE  /\ o \in left' \/ roots'[o] = NoDir => draft'[o] = state'[o]
             /\ Writing(draft'[o]) # Writing(state'[o]) => changed'
  <2>1. CASE o = b
      BY <1>t, <1>1, <2>1
  <2>2. CASE o # b
      BY <1>t, <1>1, <2>2 DEF Announced
  <2> QED
      BY <2>1, <2>2
<1> QED
    BY <1>2, <1>3 DEF Announced, Writing

(* Every step keeps the record.                                            *)
LEMMA NextAnnounced == Types /\ Announced /\ [Next]_vars => Announced'
<1> SUFFICES ASSUME Types, Announced, [Next]_vars PROVE Announced'
    OBVIOUS
<1> USE WatcherAssumption DEF pass
<1>t. TypeOK /\ PassSound
    BY DEF Types
<1>n. NoSample.root = NoDir /\ NoSample.newest = NoRun
    BY DEF NoSample
<1>1. CASE UNCHANGED <<state, draft, pc, left, roots, changed>>
    BY <1>1 DEF Announced, Writing
<1>2. CASE Elapse
  <2>1. \A b \in Boards : /\ state'[b].root = state[b].root
                          /\ state'[b].newest = state[b].newest
      BY <1>t, <1>2 DEF Elapse, TypeOK, Sample
  <2> QED
      BY <1>2, <2>1 DEF Announced, Elapse
<1>3. CASE Begin
    BY <1>t, <1>3 DEF Announced, Begin, Writing
<1>4. CASE End
    BY <1>t, <1>n, <1>4 DEF Announced, End, TypeOK
<1>5. ASSUME NEW b \in Boards, Touch(b) PROVE Announced'
  <2>1. Touched(b) \in Sample /\ Touched(b).newest = draft[b].newest
        /\ Touched(b).root = draft[b].root
      BY <1>t, TouchedType
  <2>2. Visited(b, Touched(b)) /\ b \in left /\ pc = "pass"
      BY <1>5 DEF Touch
  <2> QED
      BY <2>1, <2>2, VisitedAnnounced DEF Announced
<1>6. ASSUME NEW b \in Boards, Walk(b) PROVE Announced'
  <2>1. b \in left /\ pc = "pass" /\ roots[b] \in Dirs
      BY <1>t, <1>6 DEF PassSound, Walk
  <2>2. PICK s \in Scan(roots[b]) : Visited(b, s)
      BY <1>6 DEF Walk, Root
  <2>3. s \in Sample /\ s.root # NoDir
      BY <1>t, <2>1, ScanType
  <2> QED
      BY <2>1, <2>2, <2>3, VisitedAnnounced
<1>7. CASE UNCHANGED vars
    BY <1>1, <1>7 DEF vars
<1>8. ASSUME NEW r \in Runs, Write(r) \/ Vanish(r) PROVE Announced'
    BY <1>1, <1>8 DEF Write, Vanish
<1>9. ASSUME NEW b \in Boards, NEW d \in Dirs \cup {NoDir}, Reload(b, d)
      PROVE  Announced'
    BY <1>1, <1>9 DEF Reload
<1> QED
    BY <1>2, <1>3, <1>4, <1>5, <1>6, <1>7, <1>8, <1>9 DEF Next

(* A pass that turns a flag publishes (activity.py sample returns changed, *)
(* and run calls on_change for it): it misses neither a board whose file   *)
(* it followed, nor one that was walked again, nor one that went away.     *)
THEOREM EveryFlipAnnounced == Spec => FlipsAreAnnounced
<1>1. Init => Announced
  <2> SUFFICES ASSUME Init PROVE Announced
      OBVIOUS
  <2>1. \A b \in Boards : state[b] = NoSample /\ draft[b] = NoSample
      BY DEF Init
  <2> QED
      BY <2>1 DEF Init, Announced, NoSample
<1>2. Types /\ Announced /\ [Next]_vars =>
        [End /\ (\E b \in Boards : Writing(state[b]) # Writing(state'[b])) => changed']_vars
  <2> SUFFICES ASSUME Types, Announced, End,
                      NEW b \in Boards, Writing(state[b]) # Writing(state'[b])
               PROVE  changed'
      OBVIOUS
  <2>1. /\ pc = "pass" /\ changed' = (changed \/ Dropped)
        /\ state'[b] = IF roots[b] = NoDir THEN NoSample ELSE draft[b]
      BY DEF End
  <2>2. CASE roots[b] # NoDir
      BY <2>1, <2>2 DEF Announced
  <2>3. CASE roots[b] = NoDir
    <3>1. draft[b] = state[b] /\ state'[b] = NoSample
        BY <2>1, <2>3 DEF Announced
    <3>2. CASE draft[b].root # NoDir
        BY <2>1, <2>3, <3>2 DEF Dropped
    <3>3. CASE draft[b].root = NoDir
      <4>1. state[b].age = Old
          BY <3>1, <3>3 DEF Announced, Types, TypeOK
      <4>2. NoSample.age = Old
          BY DEF NoSample
      <4> QED
          BY <3>1, <4>1, <4>2 DEF Writing
    <3> QED
        BY <3>2, <3>3
  <2> QED
      BY <2>2, <2>3
<1> QED
    BY <1>1, <1>2, InitTypes, NextTypes, NextAnnounced, PTL DEF Spec, FlipsAreAnnounced
-----------------------------------------------------------------------------
(* A sample follows a file below its logdir, written no longer ago than    *)
(* the sample says at the least.                                           *)
Followed(s) ==
    s.newest # NoRun => s.newest \in Files[s.root] /\ age[s.newest] <= s.age
Observed ==
    \A b \in Boards :
        Followed(state[b]) /\ (pc = "pass" => Followed(draft[b]))

(* A walk follows the newest file it saw.                                  *)
LEMMA ScanFollows ==
    ASSUME TypeOK, NEW d \in Dirs, NEW s \in Scan(d)
    PROVE  Followed(s)
<1>1. PICK seen \in Seen(d) :
        s \in IF seen = {}
                THEN {[NoSample EXCEPT !.root = d]}
                ELSE {[root |-> d, newest |-> r, age |-> age[r]] : r \in Newest(seen)}
    BY DEF Scan
<1>2. seen \subseteq Files[d] /\ Files[d] \subseteq Runs
    BY <1>1, WatcherAssumption DEF Seen
<1>3. CASE seen = {}
    BY <1>1, <1>3 DEF NoSample, Followed
<1>4. CASE seen # {}
  <2>1. PICK r \in Newest(seen) : s = [root |-> d, newest |-> r, age |-> age[r]]
      BY <1>1, <1>4
  <2>2. r \in Files[d] /\ age[r] \in Nat
      BY <1>2, <2>1 DEF Newest, TypeOK, Ages
  <2> QED
      BY <2>1, <2>2 DEF Followed
<1> QED
    BY <1>3, <1>4

(* A touch looks at the file that is followed.                             *)
LEMMA TouchedFollows ==
    ASSUME TypeOK, NEW b \in Boards, Followed(draft[b])
    PROVE  Followed(Touched(b))
<1>1. draft[b] \in Sample
    BY DEF TypeOK
<1>2. CASE draft[b].newest \in present /\ age[draft[b].newest] < draft[b].age
  <2>1. age[draft[b].newest] \in Ages
      BY <1>2 DEF TypeOK
  <2>2. Touched(b) = [draft[b] EXCEPT !.age = age[draft[b].newest]]
      BY <1>2 DEF Touched
  <2> QED
      BY <1>1, <2>1, <2>2, SampleAge DEF Followed, Ages
<1>3. CASE ~(draft[b].newest \in present /\ age[draft[b].newest] < draft[b].age)
    BY <1>3 DEF Touched
<1> QED
    BY <1>2, <1>3

(* A file written later is followed all the more.                          *)
LEMMA WrittenFollows ==
    ASSUME Types, Observed, UNCHANGED <<state, pc, draft>>,
           age' \in [Runs -> Ages], \A r \in Runs : age'[r] <= age[r]
    PROVE  Observed'
<1>1. ASSUME NEW s \in Sample, Followed(s), s.newest # NoRun
      PROVE  age'[s.newest] <= s.age
  <2>1. s.newest \in Runs /\ s.age \in Nat
      BY <1>1 DEF Sample, Ages
  <2>2. age[s.newest] \in Nat /\ age'[s.newest] \in Nat
      BY <2>1 DEF Types, TypeOK, Ages
  <2> QED
      BY <1>1, <2>1, <2>2 DEF Followed
<1>2. \A b \in Boards : state[b] \in Sample /\ draft[b] \in Sample
    BY DEF Types, TypeOK
<1> QED
    BY <1>1, <1>2 DEF Observed, Followed

(* A visit that leaves a sample which follows its file.                    *)
LEMMA VisitedFollows ==
    ASSUME Types, Observed, pc = "pass", NEW b \in Boards, NEW s, Visited(b, s),
           Followed(s)
    PROVE  Observed'
<1>1. /\ draft' = [draft EXCEPT ![b] = s] /\ UNCHANGED <<age, state, pc>>
      /\ draft \in [Boards -> Sample]
    BY DEF Visited, Types, TypeOK
<1> QED
    BY <1>1 DEF Observed, Followed

(* Every step keeps what the samples follow.                               *)
LEMMA NextObserved == Types /\ Observed /\ [Next]_vars => Observed'
<1> SUFFICES ASSUME Types, Observed, [Next]_vars PROVE Observed'
    OBVIOUS
<1> USE DEF pass
<1>t. TypeOK /\ PassSound /\ Types' /\ age \in [Runs -> Ages] /\ age' \in [Runs -> Ages]
    BY NextTypes DEF Types, TypeOK
<1>n. \A a \in Ages : a <= a /\ 0 <= a /\ 0 \in Ages
    BY WatcherAssumption DEF Ages, Old
<1>1. ASSUME NEW r \in Runs, Write(r) PROVE Observed'
  <2>1. \A q \in Runs : age'[q] <= age[q]
      BY <1>t, <1>n, <1>1 DEF Write
  <2> QED
      BY <1>t, <1>1, <2>1, WrittenFollows DEF Write
<1>2. ASSUME NEW r \in Runs, Vanish(r) PROVE Observed'
    BY <1>2 DEF Vanish, Observed, Followed
<1>3. ASSUME NEW b \in Boards, NEW d \in Dirs \cup {NoDir}, Reload(b, d) PROVE Observed'
    BY <1>3 DEF Reload, Observed, Followed
<1>4. CASE Elapse
  <2> SUFFICES ASSUME NEW b \in Boards, state'[b].newest # NoRun
               PROVE  /\ state'[b].newest \in Files[state'[b].root]
                      /\ age'[state'[b].newest] <= state'[b].age
      BY <1>4 DEF Elapse, Observed, Followed
  <2>1. state[b] \in Sample /\ state[b].age \in Ages
      BY <1>t DEF TypeOK, Sample
  <2>2. /\ state'[b].newest = state[b].newest /\ state'[b].root = state[b].root
        /\ state'[b].age = Older(state[b].age)
      BY <1>4, <2>1, OlderType, SampleAge DEF Elapse
  <2>3. state[b].newest \in Runs /\ age[state[b].newest] \in Ages
      BY <1>t, <2>1, <2>2 DEF Sample
  <2>4. age'[state[b].newest] = Older(age[state[b].newest])
      BY <1>4, <2>3 DEF Elapse
  <2>5. /\ state[b].newest \in Files[state[b].root]
        /\ age[state[b].newest] <= state[b].age
      BY <2>2 DEF Observed, Followed
  <2>6. \A x, y \in Ages : x <= y => Older(x) <= Older(y)
      BY WatcherAssumption DEF Older, Ages, Old
  <2> QED
      BY <2>1, <2>2, <2>3, <2>4, <2>5, <2>6
<1>5. CASE Begin
    BY <1>5 DEF Begin, Observed, Followed
<1>6. CASE End
  <2>1. /\ pc = "pass" /\ pc' = "idle" /\ age' = age
        /\ \A b \in Boards :
             state'[b] = IF roots[b] = NoDir THEN NoSample ELSE draft[b]
      BY <1>6 DEF End
  <2> QED
      BY <2>1 DEF Observed, Followed, NoSample
<1>7. ASSUME NEW b \in Boards, Touch(b) PROVE Observed'
  <2>1. pc = "pass" /\ Visited(b, Touched(b))
      BY <1>7 DEF Touch
  <2>2. Followed(Touched(b))
      BY <1>t, <2>1, TouchedFollows DEF Observed
  <2> QED
      BY <2>1, <2>2, VisitedFollows
<1>8. ASSUME NEW b \in Boards, Walk(b) PROVE Observed'
  <2>1. pc = "pass" /\ roots[b] \in Dirs
      BY <1>t, <1>8 DEF PassSound, Walk
  <2>2. PICK s \in Scan(roots[b]) : Visited(b, s)
      BY <1>8 DEF Walk, Root
  <2> QED
      BY <1>t, <2>1, <2>2, ScanFollows, VisitedFollows
<1>9. CASE UNCHANGED vars
    BY <1>9 DEF vars, Observed, Followed
<1> QED
    BY <1>1, <1>2, <1>3, <1>4, <1>5, <1>6, <1>7, <1>8, <1>9 DEF Next

(* A row shows data only if the file that was newest below its logdir was  *)
(* written within WRITING_WINDOW: age counts from the mtime of that file,  *)
(* never from the moment it was looked at (activity.py age and writing).   *)
THEOREM OnlyDataIsShown == Spec => []ShowsOnlyData
<1>1. Init => Types /\ Observed
    BY InitTypes DEF Init, Observed, Followed, NoSample
<1>2. Types /\ Observed => ShowsOnlyData
  <2> SUFFICES ASSUME Types, Observed, NEW b \in Boards, state[b].age <= Window
               PROVE  /\ state[b].newest \in Files[state[b].root]
                      /\ age[state[b].newest] <= state[b].age
      BY DEF ShowsOnlyData, Writing
  <2>1. state[b].newest # NoRun
      BY WatcherAssumption DEF Types, TypeOK, Old
  <2> QED
      BY <2>1 DEF Observed, Followed
<1> QED
    BY <1>1, <1>2, NextTypes, NextObserved, PTL DEF Spec
=============================================================================
