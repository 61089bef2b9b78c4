---------------------------- MODULE RegistryProofs ---------------------------
(***************************************************************************)
(* Proofs about Registry: its types, and that every configuration the      *)
(* manager holds is sound, for any boards, ports, clients and number of    *)
(* requests.  The ports Config assigns are defined by recursion over the   *)
(* blocks; what is proved of them goes by the least block it would fail    *)
(* for.                                                                    *)
(***************************************************************************)
EXTENDS Registry, FiniteSetTheorems, WellFoundedInduction, TLAPS

(* The order of the numbers, as a set of pairs.                             *)
Less == {ss \in Nat \X Nat : ss[1] < ss[2]}

(* The order of the numbers is well-founded.                                *)
LEMMA LessWellFounded == IsWellFoundedOn(Less, Nat)
BY NatLessThanWellFounded DEF OpToRel, Less

(* Every set of numbers that is not empty has a least one.                  *)
LEMMA LeastNumber ==
    ASSUME NEW T, T \subseteq Nat, T # {}
    PROVE  \E m \in T : \A k \in T : m <= k
<1>1. PICK m \in T : \A k \in T : ~ (<<k, m>> \in Less)
  BY WFMin, LessWellFounded
<1>2. \A k \in T : <<k, m>> \in Less <=> k < m
  BY DEF Less
<1>3. \A k \in T : m <= k
  <2>1. TAKE k \in T
  <2>2. k \in Nat /\ m \in Nat
    OBVIOUS
  <2>3. ~ (k < m)
    BY <1>1, <1>2
  <2>4. QED BY <2>2, <2>3
<1>4. QED BY <1>3

(* The numbers of a finite sequence have a bound.                           *)
LEMMA SequenceBounded ==
    ASSUME NEW q \in Seq(Nat)
    PROVE  \E b \in Nat : \A i \in 1..Len(q) : q[i] <= b
<1> DEFINE Bounded(n) == \E b \in Nat : \A i \in 1..n : q[i] <= b
<1> DEFINE T == {n \in 0..Len(q) : ~Bounded(n)}
<1>1. SUFFICES ASSUME T # {} PROVE FALSE
  <2>1. Len(q) \in 0..Len(q)
    OBVIOUS
  <2>2. T = {} => Bounded(Len(q))
    BY <2>1
  <2>3. QED BY <2>2
<1>2. T \subseteq Nat
  OBVIOUS
<1>3. PICK n \in T : \A k \in T : n <= k
  <2> HIDE DEF T
  <2>1. QED BY <1>1, <1>2, LeastNumber
<1>4. n \in 0..Len(q) /\ ~Bounded(n)
  BY <1>3
<1>5. n # 0
  <2>1. Bounded(0)
    <3>1. \A i \in 1..0 : q[i] <= 0
      OBVIOUS
    <3>2. QED BY <3>1
  <2>2. QED BY <1>4, <2>1
<1>6. n \in 1..Len(q) /\ n - 1 \in 0..Len(q) /\ ~ (n <= n - 1)
  BY <1>4, <1>5
<1>7. Bounded(n - 1)
  <2>1. n - 1 \notin T
    <3> HIDE DEF T
    <3>1. QED BY <1>3, <1>6
  <2> HIDE DEF Bounded
  <2>2. QED BY <2>1, <1>6
<1>8. PICK b \in Nat : \A i \in 1..(n - 1) : q[i] <= b
  BY <1>7
<1>9. q[n] \in Nat
  <2> HIDE DEF T
  <2>1. QED BY <1>6
<1>10. PICK c \in Nat : b <= c /\ q[n] <= c
  <2> HIDE DEF T, Bounded
  <2>1. b <= b + q[n] /\ q[n] <= b + q[n] /\ b + q[n] \in Nat
    BY <1>9
  <2>2. QED BY <2>1
<1>11. \A i \in 1..n : q[i] <= c
  <2>1. TAKE i \in 1..n
  <2> HIDE DEF T, Bounded
  <2>2. i \in 1..Len(q) /\ q[i] \in Nat
    BY <1>6
  <2>3. CASE i = n
    BY <2>3, <1>10
  <2>4. CASE i # n
    <3>1. i \in 1..(n - 1)
      BY <1>6, <2>4
    <3>2. QED BY <3>1, <2>2, <1>8, <1>10
  <2>5. QED BY <2>3, <2>4
<1>12. QED BY <1>4, <1>11

(* A set of numbers that is not empty contains its minimum.                 *)
LEMMA MinExists ==
    ASSUME NEW S, S \subseteq Nat, S # {}
    PROVE  Min(S) \in S
BY LeastNumber DEF Min

(* So does a bounded one its maximum, and nothing in it is greater.         *)
LEMMA MaxExists ==
    ASSUME NEW S, S \subseteq Nat, S # {},
           NEW b \in Nat, \A x \in S : x <= b
    PROVE  Max(S) \in S /\ \A x \in S : x <= Max(S)
<1> DEFINE T == {m \in Nat : \A x \in S : x <= m}
<1>1. PICK m \in T : \A k \in T : m <= k
  <2>1. b \in T /\ T \subseteq Nat
    OBVIOUS
  <2> HIDE DEF T
  <2>2. QED BY <2>1, LeastNumber
<1>2. m \in Nat /\ \A x \in S : x <= m
  BY <1>1
<1>3. m \in S
  <2>1. SUFFICES ASSUME m \notin S PROVE FALSE
    OBVIOUS
  <2>2. \A x \in S : x \in Nat /\ x <= m - 1
    BY <1>2, <2>1
  <2>3. m - 1 \in Nat
    <3>1. PICK x \in S : TRUE
      OBVIOUS
    <3>2. x \in Nat /\ x <= m - 1
      BY <2>2
    <3>3. m \in Nat
      BY <1>2
    <3>4. QED BY <3>2, <3>3
  <2>4. m - 1 \in T
    BY <2>2, <2>3
  <2>5. m <= m - 1
    BY <1>1, <2>4
  <2>6. QED BY <2>5, <1>2
<1>4. \E x \in S : \A y \in S : x >= y
  BY <1>2, <1>3
<1>5. Max(S) \in S /\ \A y \in S : Max(S) >= y
  BY <1>4 DEF Max
<1>6. QED BY <1>5

(* next_free_port always finds a port: one that is neither taken nor        *)
(* blocked, at or above port_base and above every port in use from there on.*)
LEMMA NextFreeIsFree ==
    ASSUME NEW taken, taken \subseteq Nat,
           NEW b \in Nat, \A x \in taken : x <= b
    PROVE  /\ NextFreePort(taken) \in Nat \ {0}
           /\ NextFreePort(taken) \notin taken \cup Unsafe
           /\ Base <= NextFreePort(taken)
           /\ \A q \in taken : Base <= q => q < NextFreePort(taken)
<1> DEFINE above == {Base} \cup {p + 1 : p \in {q \in taken : q >= Base}}
<1> DEFINE start == Max(above)
<1> DEFINE free == {p \in start..Top : p \notin taken \cup Unsafe}
<1> DEFINE Good(port) == /\ port \in Nat \ {0} /\ port \notin taken \cup Unsafe
                        /\ Base <= port
                        /\ \A q \in taken : Base <= q => q < port
<1>1. Base \in Nat \ {0} /\ Top \in Nat /\ \A p \in Unsafe : p \in Nat /\ p < Top
  BY RegistryAssumption
<1>2. above \subseteq Nat /\ above # {}
  BY <1>1
<1>3. \A x \in above : x <= b + 1 + Base
  BY <1>1
<1>4. start \in above /\ \A x \in above : x <= start
  <2>1. b + 1 + Base \in Nat
    BY <1>1
  <2> HIDE DEF above
  <2>2. QED BY <1>2, <1>3, <2>1, MaxExists
<1>5. start \in Nat
  <2> HIDE DEF start, above
  <2>1. QED BY <1>2, <1>4
<1>6. Base <= start /\ \A q \in taken : Base <= q => q + 1 <= start
  <2>1. Base \in above
    OBVIOUS
  <2>2. ASSUME NEW q \in taken, Base <= q PROVE q + 1 \in above
    BY <2>2, <1>1
  <2> HIDE DEF above, start
  <2>3. QED BY <2>1, <2>2, <1>4
<1>7. start \notin taken
  <2> HIDE DEF start, above
  <2>1. QED BY <1>5, <1>6
<1>8. NextFreePort(taken) =
        IF start \notin taken \cup Unsafe THEN start
        ELSE IF free = {} THEN 0 ELSE Min(free)
  BY DEF NextFreePort
<1>9. CASE start \notin Unsafe
  <2> HIDE DEF start, free, above
  <2>1. NextFreePort(taken) = start
    BY <1>7, <1>8, <1>9
  <2>2. Good(start)
    BY <1>1, <1>5, <1>6, <1>7, <1>9
  <2>3. QED BY <2>1, <2>2
<1>10. CASE start \in Unsafe
  <2>1. Top \in free
    <3> HIDE DEF start, above
    <3>1. start < Top /\ Top \notin Unsafe
      BY <1>1, <1>10
    <3>2. Top \notin taken
      BY <3>1, <1>1, <1>5, <1>6
    <3>3. QED BY <3>1, <3>2, <1>1, <1>5
  <2>2. free \subseteq Nat
    <3> HIDE DEF start, above
    <3>1. QED BY <1>1, <1>5
  <2>3. Min(free) \in free
    <3> HIDE DEF free
    <3>1. QED BY <2>1, <2>2, MinExists
  <2>4. NextFreePort(taken) = Min(free)
    <3> HIDE DEF start, free, above
    <3>1. QED BY <1>8, <1>10, <2>1
  <2>5. ASSUME NEW p \in free PROVE Good(p)
    <3> HIDE DEF start, above
    <3>1. p \in Nat /\ start <= p /\ p \notin taken \cup Unsafe
      BY <1>1, <1>5
    <3>2. QED BY <3>1, <1>1, <1>5, <1>6
  <2> HIDE DEF free, Good
  <2>6. Good(NextFreePort(taken))
    BY <2>3, <2>4, <2>5
  <2>7. QED BY <2>6 DEF Good
<1>11. QED BY <1>9, <1>10

-----------------------------------------------------------------------------
(* Parsing.                                                                 *)

(* What the blocks of a text are made of.                                   *)
LEMMA BlockTypes ==
    ASSUME NEW s \in Text
    PROVE  /\ Len(s) \in Nat /\ DOMAIN s = 1..Len(s)
           /\ \A i \in 1..Len(s) :
                 s[i] \in Block /\ s[i].port \in Nat
                 /\ s[i].setting \in Settings /\ s[i].name \in Names
<1>1. Len(s) \in Nat /\ DOMAIN s = 1..Len(s) /\ \A i \in 1..Len(s) : s[i] \in Block
  BY DEF Text
<1>2. \A b \in Block : b.port \in Nat /\ b.setting \in Settings /\ b.name \in Names
  BY DEF Block
<1>3. QED BY <1>1, <1>2

(* The ports in use are numbers and have a bound.                           *)
LEMMA TakenBounded ==
    ASSUME NEW s \in Text
    PROVE  /\ Taken(s) \subseteq Nat
           /\ \E b \in Nat : \A x \in Taken(s) : x <= b
<1> DEFINE q == [i \in 1..Len(s) |-> s[i].port]
<1>1. Server \in Nat
  BY RegistryAssumption
<1>2. DOMAIN s = 1..Len(s) /\ Len(s) \in Nat
  BY BlockTypes
<1>3. \A i \in 1..Len(s) : s[i].port \in Nat
  BY BlockTypes
<1>4. q \in Seq(Nat) /\ Len(q) = Len(s)
  BY <1>2, <1>3
<1>5. PICK b \in Nat : \A i \in 1..Len(s) : q[i] <= b
  <2> HIDE DEF q
  <2>1. QED BY <1>4, SequenceBounded
<1>6. \A x \in Taken(s) : x \in Nat /\ x <= b + Server
  <2>1. TAKE x \in Taken(s)
  <2>2. CASE x = Server
    BY <2>2, <1>1
  <2>3. ASSUME NEW i \in 1..Len(s), x = s[i].port PROVE x \in Nat /\ x <= b + Server
    <3>1. s[i].port <= b
      BY <1>5
    <3>2. QED BY <2>3, <3>1, <1>1, <1>3
  <2>4. x = Server \/ \E i \in 1..Len(s) : x = s[i].port
    BY <1>2 DEF Taken, PortsOf
  <2>5. QED BY <2>2, <2>3, <2>4
<1>7. b + Server \in Nat
  BY <1>1
<1>8. QED BY <1>6, <1>7

(* What parse gives a board without a port is not blocked, and apart from   *)
(* every port in the file, from the dashboard's and from those of the boards*)
(* before it; above all of these that are not below port_base.              *)
LEMMA AssignedIsFree ==
    ASSUME NEW s \in Text, NEW t \in Seq(Nat)
    PROVE  LET port == NextFreePort(Taken(s) \cup Range(t)) IN
           /\ port \in Nat \ {0} /\ port \notin Unsafe
           /\ port \notin Taken(s) \cup Range(t)
           /\ Base <= port
           /\ \A q \in Taken(s) \cup Range(t) : Base <= q => q < port
<1> DEFINE taken == Taken(s) \cup Range(t)
<1>1. PICK b \in Nat : \A x \in Taken(s) : x <= b
  BY TakenBounded
<1>2. PICK c \in Nat : \A i \in 1..Len(t) : t[i] <= c
  BY SequenceBounded
<1>3. \A x \in Range(t) : x \in Nat /\ x <= c
  <2>1. \A i \in 1..Len(t) : t[i] \in Nat
    OBVIOUS
  <2>2. QED BY <1>2, <2>1 DEF Range
<1>4. Taken(s) \subseteq Nat
  BY TakenBounded
<1>5. taken \subseteq Nat /\ b + c \in Nat
  <2>1. Range(t) \subseteq Nat
    BY <1>3
  <2>2. QED BY <2>1, <1>4
<1>6. \A x \in taken : x <= b + c
  <2>1. TAKE x \in taken
  <2>2. CASE x \in Taken(s)
    <3>1. x <= b /\ x \in Nat
      BY <1>1, <1>4, <2>2
    <3>2. QED BY <3>1
  <2>3. CASE x \in Range(t)
    <3>1. x <= c /\ x \in Nat
      BY <1>3, <2>3
    <3>2. QED BY <3>1
  <2>4. QED BY <2>2, <2>3
<1>7. QED
  <2> HIDE DEF taken
  <2>1. /\ NextFreePort(taken) \in Nat \ {0}
        /\ NextFreePort(taken) \notin taken \cup Unsafe
        /\ Base <= NextFreePort(taken)
        /\ \A q \in taken : Base <= q => q < NextFreePort(taken)
    BY <1>5, <1>6, NextFreeIsFree
  <2>2. QED BY <2>1 DEF taken

(* The port of board i, when t are those of the boards above it.            *)
NextPort(s, t, i) ==
    IF s[i].port # 0 THEN s[i].port
    ELSE NextFreePort(Taken(s) \cup Range(t))

(* The ports of the first i boards, from those of one fewer.                *)
Longer(s, g, i) ==
    IF i = 0 THEN <<>> ELSE Append(g[i - 1], NextPort(s, g[i - 1], i))

(* A board's port is a number.                                              *)
LEMMA NextPortType ==
    ASSUME NEW s \in Text, NEW t \in Seq(Nat), NEW i \in 1..Len(s)
    PROVE  NextPort(s, t, i) \in Nat
<1>1. s[i].port \in Nat
  BY BlockTypes
<1>2. NextFreePort(Taken(s) \cup Range(t)) \in Nat
  BY AssignedIsFree
<1>3. QED BY <1>1, <1>2 DEF NextPort

(* The recursive definition of the ports in Config has a value.             *)
LEMMA PortsExist ==
    ASSUME NEW s \in Text
    PROVE  \E g : g = [i \in 0..Len(s) |-> Longer(s, g, i)]
<1> DEFINE Defined(n) ==
      \E g \in [0..n -> Seq(Nat)] : \A i \in 0..n : g[i] = Longer(s, g, i)
<1> DEFINE T == {n \in 0..Len(s) : ~Defined(n)}
<1>0. Len(s) \in Nat
  BY DEF Text
<1>1. ASSUME T # {} PROVE FALSE
  <2>1. T \subseteq Nat
    OBVIOUS
  <2>2. PICK n \in T : \A k \in T : n <= k
    <3> HIDE DEF T
    <3>1. QED BY <1>1, <2>1, LeastNumber
  <2>3. n \in 0..Len(s) /\ ~Defined(n)
    BY <2>2
  <2>4. CASE n = 0
    <3> DEFINE g == [i \in 0..0 |-> <<>>]
    <3>1. g \in [0..0 -> Seq(Nat)]
      OBVIOUS
    <3>2. \A i \in 0..0 : g[i] = Longer(s, g, i)
      BY DEF Longer
    <3>3. Defined(0)
      <4> HIDE DEF g
      <4>1. QED BY <3>1, <3>2
    <3>4. QED BY <2>3, <2>4, <3>3
  <2>5. CASE n # 0
    <3>1. n \in 1..Len(s) /\ n - 1 \in 0..Len(s) /\ ~ (n <= n - 1)
      BY <2>3, <2>5, <1>0
    <3>2. Defined(n - 1)
      <4>1. n - 1 \notin T
        <5> HIDE DEF T
        <5>1. QED BY <2>2, <3>1
      <4> HIDE DEF Defined
      <4>2. QED BY <4>1, <3>1
    <3>3. PICK f \in [0..(n - 1) -> Seq(Nat)] :
            \A i \in 0..(n - 1) : f[i] = Longer(s, f, i)
      BY <3>2
    <3> DEFINE last == Append(f[n - 1], NextPort(s, f[n - 1], n))
    <3> DEFINE g == [i \in 0..n |-> IF i = n THEN last ELSE f[i]]
    <3>4. f[n - 1] \in Seq(Nat)
      BY <3>1, <3>3
    <3>5. last \in Seq(Nat)
      <4>1. NextPort(s, f[n - 1], n) \in Nat
        BY <3>1, <3>4, NextPortType
      <4>2. QED BY <3>4, <4>1
    <3>6. \A i \in 0..n : i # n => i \in 0..(n - 1)
      BY <3>1
    <3>7. g \in [0..n -> Seq(Nat)]
      <4> HIDE DEF last
      <4>1. QED BY <3>5, <3>6
    <3>8. ASSUME NEW i \in 0..n PROVE g[i] = Longer(s, g, i)
      <4>1. CASE i = n
        <5>1. g[n] = last /\ g[n - 1] = f[n - 1]
          <6> HIDE DEF last
          <6>1. n \in 0..n /\ n - 1 \in 0..n /\ n - 1 # n
            BY <3>1
          <6>2. QED BY <6>1
        <5>2. Longer(s, g, n) = Append(g[n - 1], NextPort(s, g[n - 1], n))
          <6> HIDE DEF g
          <6>1. QED BY <2>5 DEF Longer
        <5> HIDE DEF g
        <5>3. QED BY <4>1, <5>1, <5>2
      <4>2. CASE i # n
        <5>1. i \in 0..(n - 1) /\ g[i] = f[i]
          <6> HIDE DEF last
          <6>1. QED BY <3>6, <4>2
        <5>2. i # 0 => g[i - 1] = f[i - 1]
          <6> HIDE DEF last
          <6>1. i # 0 => i - 1 \in 0..n /\ i - 1 # n
            BY <3>1, <5>1
          <6>2. QED BY <6>1
        <5> HIDE DEF g
        <5>3. Longer(s, g, i) = Longer(s, f, i)
          BY <5>2 DEF Longer
        <5>4. QED BY <5>1, <5>3, <3>3
      <4>3. QED BY <4>1, <4>2
    <3>9. Defined(n)
      <4> HIDE DEF g
      <4>1. QED BY <3>7, <3>8
    <3>10. QED BY <2>3, <3>9
  <2>6. QED BY <2>4, <2>5
<1>2. Defined(Len(s))
  <2>1. Len(s) \in 0..Len(s)
    BY <1>0
  <2> HIDE DEF Defined
  <2>2. QED BY <1>1, <2>1
<1>3. PICK g \in [0..Len(s) -> Seq(Nat)] :
        \A i \in 0..Len(s) : g[i] = Longer(s, g, i)
  BY <1>2
<1>4. g = [i \in 0..Len(s) |-> Longer(s, g, i)]
  BY <1>3
<1>5. QED BY <1>4

(* Induction up to N: what a set contains.                                  *)
LEMMA UpTo ==
    ASSUME NEW N \in Nat, NEW S, 0 \in S,
           \A n \in 0..(N - 1) : n \in S => n + 1 \in S
    PROVE  \A n \in 0..N : n \in S
<1> DEFINE T == {n \in 0..N : n \notin S}
<1>1. ASSUME T # {} PROVE FALSE
  <2>1. T \subseteq Nat
    OBVIOUS
  <2>2. PICK n \in T : \A k \in T : n <= k
    <3> HIDE DEF T
    <3>1. QED BY <1>1, <2>1, LeastNumber
  <2>3. n \in 0..N /\ n \notin S
    BY <2>2
  <2>4. n - 1 \in 0..(N - 1) /\ n - 1 \in 0..N /\ ~ (n <= n - 1)
    BY <2>3
  <2>5. n - 1 \notin T
    <3> HIDE DEF T
    <3>1. QED BY <2>2, <2>4
  <2>6. (n - 1) + 1 \in S
    BY <2>4, <2>5
  <2>7. QED BY <2>3, <2>6
<1>2. QED BY <1>1

(* The ports Config gives: p[n] are those of the first n boards.            *)
Grows(s, p) ==
    /\ p \in [0..Len(s) -> Seq(Nat)]
    /\ \A i \in 0..Len(s) : p[i] = Longer(s, p, i)

(* Config gives the ports of such a sequence of sequences.                  *)
LEMMA ConfigPorts ==
    ASSUME NEW s \in Text
    PROVE  \E p : /\ Grows(s, p)
                 /\ Config(s) = [i \in DOMAIN s |->
                                    [s[i] EXCEPT !.port = p[Len(s)][i]]]
<1> DEFINE p == CHOOSE g : g = [i \in 0..Len(s) |-> Longer(s, g, i)]
<1>1. p = [i \in 0..Len(s) |-> Longer(s, p, i)]
  <2>1. \E g : g = [i \in 0..Len(s) |-> Longer(s, g, i)]
    BY PortsExist
  <2>2. QED BY <2>1
<1>2. Config(s) = [i \in DOMAIN s |-> [s[i] EXCEPT !.port = p[Len(s)][i]]]
  BY DEF Config, Longer, NextPort
<1> HIDE DEF p
<1>3. \A i \in 0..Len(s) : p[i] = Longer(s, p, i)
  BY <1>1
<1> DEFINE S == {n \in Nat : n <= Len(s) => p[n] \in Seq(Nat)}
<1>4. Len(s) \in Nat
  BY BlockTypes
<1>5. 0 \in S
  <2>1. p[0] = <<>>
    BY <1>3, <1>4 DEF Longer
  <2>2. p[0] \in Seq(Nat)
    BY <2>1
  <2>3. QED BY <2>2
<1>6. ASSUME NEW n \in 0..(Len(s) - 1), n \in S PROVE n + 1 \in S
  <2>1. n + 1 \in 1..Len(s) /\ n + 1 \in Nat /\ (n + 1) - 1 = n
    BY <1>4
  <2>2. p[n] \in Seq(Nat)
    BY <1>6, <1>4
  <2>3. NextPort(s, p[n], n + 1) \in Nat
    BY <2>1, <2>2, NextPortType
  <2>4. p[n + 1] = Append(p[n], NextPort(s, p[n], n + 1))
    <3>1. p[n + 1] = Longer(s, p, n + 1)
      BY <1>3, <2>1
    <3>2. QED BY <3>1, <2>1 DEF Longer
  <2>5. p[n + 1] \in Seq(Nat)
    BY <2>2, <2>3, <2>4
  <2>6. QED BY <2>1, <2>5
<1>7. \A n \in 0..Len(s) : n \in S
  <2> HIDE DEF S
  <2>1. QED BY <1>4, <1>5, <1>6, UpTo
<1>8. \A n \in 0..Len(s) : p[n] \in Seq(Nat)
  BY <1>7, <1>4
<1>9. p \in [0..Len(s) -> Seq(Nat)]
  BY <1>1, <1>8
<1>10. QED BY <1>2, <1>3, <1>9 DEF Grows

(* The n-th sequence has the ports of the first n boards.                   *)
LEMMA GrowsByOne ==
    ASSUME NEW s \in Text, NEW p, Grows(s, p)
    PROVE  \A n \in 0..Len(s) :
             /\ Len(p[n]) = n
             /\ \A k \in 1..n : p[n][k] = NextPort(s, p[k - 1], k)
<1> DEFINE Shape(n) == /\ Len(p[n]) = n
                      /\ \A k \in 1..n : p[n][k] = NextPort(s, p[k - 1], k)
<1> DEFINE S == {n \in Nat : n <= Len(s) => Shape(n)}
<1>1. Len(s) \in Nat
  BY BlockTypes
<1>2. \A n \in 0..Len(s) : p[n] \in Seq(Nat) /\ p[n] = Longer(s, p, n)
  BY DEF Grows
<1>3. 0 \in S
  <2>1. p[0] = <<>>
    BY <1>1, <1>2 DEF Longer
  <2>2. QED BY <2>1
<1>4. ASSUME NEW n \in 0..(Len(s) - 1), n \in S PROVE n + 1 \in S
  <2>1. n + 1 \in 1..Len(s) /\ n + 1 \in Nat /\ (n + 1) - 1 = n
        /\ n + 1 # 0 /\ n \in 0..Len(s) /\ n <= Len(s)
    BY <1>1
  <2>2. Shape(n)
    <3> HIDE DEF Shape
    <3>1. QED BY <1>4, <2>1
  <2>3. p[n] \in Seq(Nat) /\ Len(p[n]) = n
    BY <1>2, <2>1, <2>2
  <2> DEFINE new == NextPort(s, p[n], n + 1)
  <2>4. new \in Nat
    BY <2>1, <2>3, NextPortType
  <2>5. p[n + 1] = Append(p[n], new)
    <3>1. p[n + 1] = Longer(s, p, n + 1)
      BY <1>2, <2>1
    <3>2. QED BY <3>1, <2>1 DEF Longer
  <2> HIDE DEF new
  <2>6. Len(p[n + 1]) = n + 1
    BY <2>3, <2>4, <2>5
  <2>7. ASSUME NEW k \in 1..(n + 1) PROVE p[n + 1][k] = NextPort(s, p[k - 1], k)
    <3>1. CASE k = n + 1
      <4>1. p[n + 1][n + 1] = new
        BY <2>3, <2>4, <2>5
      <4>2. QED BY <3>1, <4>1, <2>1 DEF new
    <3>2. CASE k # n + 1
      <4>1. k \in 1..n
        BY <2>1, <3>2
      <4>2. p[n + 1][k] = p[n][k]
        BY <2>3, <2>4, <2>5, <4>1
      <4>3. QED BY <4>1, <4>2, <2>2
    <3>3. QED BY <3>1, <3>2
  <2>8. Shape(n + 1)
    BY <2>6, <2>7
  <2> HIDE DEF Shape
  <2>9. QED BY <2>1, <2>8
<1>5. \A n \in 0..Len(s) : n \in S
  <2> HIDE DEF S
  <2>1. QED BY <1>1, <1>3, <1>4, UpTo
<1>6. \A n \in 0..Len(s) : Shape(n)
  <2> HIDE DEF Shape
  <2>1. QED BY <1>5, <1>1
<1>7. QED BY <1>6

(* What parse makes of a text: every board keeps its name, its other keys   *)
(* and the port it has.  One without gets a port that is not blocked, apart *)
(* from those in the file and from those of the boards before it, and above *)
(* all of these that are not below port_base.                               *)
LEMMA ConfigBlocks ==
    ASSUME NEW s \in Text
    PROVE  /\ Config(s) \in Text /\ Len(Config(s)) = Len(s)
           /\ \A k \in 1..Len(s) :
                /\ Config(s)[k].name = s[k].name
                /\ Config(s)[k].setting = s[k].setting
                /\ Config(s)[k].port # 0
                /\ s[k].port # 0 => Config(s)[k].port = s[k].port
                /\ s[k].port = 0 =>
                     LET port == Config(s)[k].port IN
                     /\ port \notin Taken(s) \cup Unsafe /\ Base <= port
                     /\ \A q \in Taken(s) : Base <= q => q < port
                     /\ \A j \in 1..(k - 1) :
                           /\ port # Config(s)[j].port
                           /\ Base <= Config(s)[j].port =>
                                 Config(s)[j].port < port
<1>1. PICK p : /\ Grows(s, p)
               /\ Config(s) = [i \in DOMAIN s |->
                                  [s[i] EXCEPT !.port = p[Len(s)][i]]]
  BY ConfigPorts
<1>2. /\ Len(s) \in Nat /\ DOMAIN s = 1..Len(s)
      /\ \A i \in 1..Len(s) : s[i] \in Block /\ s[i].port \in Nat
                              /\ s[i].setting \in Settings /\ s[i].name \in Names
  BY BlockTypes
<1>3. \A n \in 0..Len(s) : p[n] \in Seq(Nat)
  BY <1>1 DEF Grows
<1>4. \A n \in 0..Len(s) :
         /\ Len(p[n]) = n
         /\ \A k \in 1..n : p[n][k] = NextPort(s, p[k - 1], k)
  BY <1>1, GrowsByOne
<1>5. \A k \in 1..Len(s) : /\ k - 1 \in 0..Len(s) /\ Len(s) \in 0..Len(s)
                           /\ \A j \in 1..(k - 1) : j \in 1..Len(s)
  BY <1>2
<1>6. \A k \in 1..Len(s) : p[Len(s)][k] \in Nat
  <2>1. TAKE k \in 1..Len(s)
  <2>2. Len(s) \in 0..Len(s)
    BY <1>5
  <2>3. p[Len(s)] \in Seq(Nat) /\ Len(p[Len(s)]) = Len(s)
    BY <1>3, <1>4, <2>2
  <2>4. QED BY <2>3
<1>7. ASSUME NEW k \in 1..Len(s)
      PROVE  /\ Config(s)[k] = [s[k] EXCEPT !.port = p[Len(s)][k]]
             /\ Config(s)[k] \in Block
             /\ Config(s)[k].name = s[k].name
             /\ Config(s)[k].setting = s[k].setting
             /\ Config(s)[k].port = NextPort(s, p[k - 1], k)
  <2>1. Config(s)[k] = [s[k] EXCEPT !.port = p[Len(s)][k]]
    BY <1>1, <1>2
  <2>2. s[k] \in Block /\ p[Len(s)][k] \in Nat
    BY <1>2, <1>6
  <2>3. p[Len(s)][k] = NextPort(s, p[k - 1], k)
    BY <1>4, <1>5
  <2>4. QED BY <2>1, <2>2, <2>3 DEF Block
<1>8. Config(s) \in Text /\ Len(Config(s)) = Len(s)
  <2>1. Config(s) = [i \in 1..Len(s) |-> [s[i] EXCEPT !.port = p[Len(s)][i]]]
    BY <1>1, <1>2
  <2>2. \A i \in 1..Len(s) : Config(s)[i] \in Block
    BY <1>7
  <2>3. Config(s) \in [1..Len(s) -> Block]
    BY <2>1, <2>2
  <2>4. QED BY <2>3, <1>2 DEF Text
<1>9. ASSUME NEW k \in 1..Len(s), s[k].port = 0
      PROVE  LET port == Config(s)[k].port IN
             /\ port # 0 /\ port \notin Taken(s) \cup Unsafe /\ Base <= port
             /\ \A q \in Taken(s) : Base <= q => q < port
             /\ \A j \in 1..(k - 1) :
                   /\ port # Config(s)[j].port
                   /\ Base <= Config(s)[j].port => Config(s)[j].port < port
  <2>1. p[k - 1] \in Seq(Nat) /\ Len(p[k - 1]) = k - 1
    BY <1>3, <1>4, <1>5
  <2>2. Config(s)[k].port = NextFreePort(Taken(s) \cup Range(p[k - 1]))
    BY <1>7, <1>9 DEF NextPort
  <2> DEFINE port == Config(s)[k].port
  <2>3. /\ port # 0 /\ port \notin Unsafe
        /\ port \notin Taken(s) \cup Range(p[k - 1])
        /\ Base <= port
        /\ \A q \in Taken(s) \cup Range(p[k - 1]) : Base <= q => q < port
    BY <2>1, <2>2, AssignedIsFree
  <2>4. ASSUME NEW j \in 1..(k - 1)
        PROVE  Config(s)[j].port \in Range(p[k - 1])
    <3>1. j \in 1..Len(s)
      BY <1>5
    <3>2. Config(s)[j].port = NextPort(s, p[j - 1], j)
      BY <1>7, <3>1
    <3>3. p[k - 1][j] = NextPort(s, p[j - 1], j)
      BY <1>4, <1>5
    <3>4. j \in DOMAIN p[k - 1]
      BY <2>1
    <3>5. QED BY <3>2, <3>3, <3>4 DEF Range
  <2> HIDE DEF port
  <2>5. /\ port # 0 /\ port \notin Taken(s) \cup Unsafe /\ Base <= port
        /\ \A q \in Taken(s) : Base <= q => q < port
        /\ \A j \in 1..(k - 1) :
              /\ port # Config(s)[j].port
              /\ Base <= Config(s)[j].port => Config(s)[j].port < port
    BY <2>3, <2>4
  <2>6. QED BY <2>5 DEF port
<1>10. \A k \in 1..Len(s) : s[k].port # 0 => Config(s)[k].port = s[k].port
  BY <1>7 DEF NextPort
<1>11. QED
  BY <1>7, <1>8, <1>9, <1>10

(* What loads is sound: names and ports differ, and none is the dashboard's.*)
LEMMA LoadsSound ==
    ASSUME NEW s \in Text, Loads(s)
    PROVE  Sound(Config(s))
<1> DEFINE c == Config(s)
<1>1. c \in Text /\ Len(c) = Len(s) /\ DOMAIN c = 1..Len(s)
  <2>1. c \in Text /\ Len(c) = Len(s)
    BY ConfigBlocks
  <2> HIDE DEF c
  <2>2. QED BY <2>1, BlockTypes
<1>2. DOMAIN s = 1..Len(s) /\ Len(s) \in Nat
  BY BlockTypes
<1>3. \A k \in 1..Len(s) :
         /\ c[k].name = s[k].name
         /\ s[k].port # 0 => c[k].port = s[k].port
         /\ s[k].port = 0 =>
              /\ c[k].port \notin Taken(s)
              /\ \A j \in 1..(k - 1) : c[k].port # c[j].port
  BY ConfigBlocks
<1>4. \A k \in 1..Len(s) : c[k].port # 0
  BY <1>2 DEF Loads
<1> HIDE DEF c
<1>5. \A k \in 1..Len(s) : s[k].port # 0 => s[k].port \in Taken(s)
  BY <1>2 DEF Taken, PortsOf
<1>6. \A k \in 1..Len(s) : c[k].port # Server
  <2>1. TAKE k \in 1..Len(s)
  <2>2. CASE s[k].port = 0
    <3>1. c[k].port \notin Taken(s)
      BY <2>2, <1>3, <1>4
    <3>2. QED BY <3>1 DEF Taken
  <2>3. CASE s[k].port # 0
    <3>1. s[k].port # Server
      BY <1>2, <2>3 DEF Loads, PortsOf
    <3>2. QED BY <3>1, <2>3, <1>3
  <2>4. QED BY <2>2, <2>3
<1>7. \A i, j \in 1..Len(s) : i # j => c[i].name # c[j].name
  BY <1>2, <1>3 DEF Loads
<1>8. ASSUME NEW i \in 1..Len(s), NEW j \in 1..Len(s), j < i
      PROVE  c[i].port # c[j].port
  <2>1. j \in 1..(i - 1) /\ i # j
    BY <1>2, <1>8
  <2>2. CASE s[i].port = 0
    BY <2>1, <2>2, <1>3, <1>4
  <2>3. CASE s[i].port # 0 /\ s[j].port = 0
    <3>1. c[j].port \notin Taken(s)
      BY <2>3, <1>3, <1>4
    <3>2. c[i].port \in Taken(s)
      BY <2>3, <1>3, <1>5
    <3>3. QED BY <3>1, <3>2
  <2>4. CASE s[i].port # 0 /\ s[j].port # 0
    <3>1. s[i].port # s[j].port
      BY <2>1, <2>4, <1>2 DEF Loads
    <3>2. QED BY <3>1, <2>4, <1>3
  <2>5. QED BY <2>2, <2>3, <2>4
<1>9. \A i, j \in 1..Len(s) : i # j => c[i].port # c[j].port
  <2>1. TAKE i, j \in 1..Len(s)
  <2>2. HAVE i # j
  <2>3. i < j \/ j < i
    BY <1>2, <2>2
  <2>4. QED BY <2>3, <1>8
<1>10. QED
  <2>1. \A i \in 1..Len(s) : c[i].port \notin {0, Server}
    BY <1>4, <1>6
  <2>2. QED BY <1>1, <1>7, <1>9, <2>1 DEF Sound, c

-----------------------------------------------------------------------------
(* The edits give a text.                                                   *)

(* At finds the block of a board that is there.                             *)
LEMMA AtIsThere ==
    ASSUME NEW s \in Text, NEW n \in Named(s)
    PROVE  At(s, n) \in 1..Len(s) /\ s[At(s, n)].name = n
<1> DEFINE S == {i \in DOMAIN s : s[i].name = n}
<1>1. DOMAIN s = 1..Len(s) /\ Len(s) \in Nat
  BY BlockTypes
<1>2. S # {}
  BY DEF Named
<1>3. S \subseteq Nat
  BY <1>1
<1>4. Min(S) \in S
  <2> HIDE DEF S
  <2>1. QED BY <1>2, <1>3, MinExists
<1>5. QED BY <1>1, <1>4 DEF At

(* New values of some keys, each of its key's kind.                         *)
Changes ==
    {new \in UNION {[K -> Nat \cup Settings \cup Names] : K \in SUBSET Keys} :
        /\ "port" \in DOMAIN new => new["port"] \in Nat
        /\ "setting" \in DOMAIN new => new["setting"] \in Settings
        /\ "name" \in DOMAIN new => new["name"] \in Names}

(* The ways the model makes them.                                           *)
LEMMA SomeChanges ==
    /\ \A m \in Settings : [setting |-> m] \in Changes
    /\ \A p \in Nat : [port |-> p] \in Changes
    /\ \A K \in SUBSET Keys, b \in Block : Restrict(b, K) \in Changes
<1> DEFINE Values == Nat \cup Settings \cup Names
<1>1. ASSUME NEW m \in Settings PROVE [setting |-> m] \in Changes
  <2> DEFINE new == [setting |-> m]
  <2>1. new \in [{"setting"} -> Values] /\ DOMAIN new = {"setting"} /\ new["setting"] = m
    OBVIOUS
  <2> HIDE DEF new
  <2>2. {"setting"} \in SUBSET Keys
    BY DEF Keys
  <2>3. QED BY <2>1, <2>2 DEF Changes
<1>2. ASSUME NEW p \in Nat PROVE [port |-> p] \in Changes
  <2> DEFINE new == [port |-> p]
  <2>1. new \in [{"port"} -> Values] /\ DOMAIN new = {"port"} /\ new["port"] = p
    OBVIOUS
  <2> HIDE DEF new
  <2>2. {"port"} \in SUBSET Keys
    BY DEF Keys
  <2>3. QED BY <2>1, <2>2 DEF Changes
<1>3. ASSUME NEW K \in SUBSET Keys, NEW b \in Block PROVE Restrict(b, K) \in Changes
  <2> DEFINE new == Restrict(b, K)
  <2>1. b["port"] \in Nat /\ b["setting"] \in Settings /\ b["name"] \in Names
    BY DEF Block
  <2>2. DOMAIN new = K /\ \A k \in K : new[k] = b[k]
    BY DEF Restrict
  <2>3. new \in [K -> Values]
    <3>1. \A k \in K : b[k] \in Values
      BY <2>1 DEF Keys
    <3>2. QED BY <3>1 DEF Restrict
  <2> HIDE DEF new
  <2>4. /\ "port" \in DOMAIN new => new["port"] \in Nat
        /\ "setting" \in DOMAIN new => new["setting"] \in Settings
        /\ "name" \in DOMAIN new => new["name"] \in Names
    BY <2>1, <2>2
  <2>5. new \in UNION {[L -> Values] : L \in SUBSET Keys}
    BY <2>3
  <2> HIDE DEF Values
  <2>6. new \in Changes
    BY <2>4, <2>5 DEF Changes, Values
  <2>7. QED BY <2>6 DEF new
<1>4. QED BY <1>1, <1>2, <1>3

(* The block a change leaves.                                               *)
Changed(b, new) ==
    [port |-> IF "port" \in DOMAIN new THEN new["port"] ELSE b["port"],
     setting |-> IF "setting" \in DOMAIN new THEN new["setting"] ELSE b["setting"],
     name |-> IF "name" \in DOMAIN new THEN new["name"] ELSE b["name"]]

(* Keys set to values of their own leave a text.                            *)
LEMMA SetKeysType ==
    ASSUME NEW s \in Text, NEW n \in Named(s), NEW new \in Changes
    PROVE  /\ SetKeys(s, n, new) = [s EXCEPT ![At(s, n)] = Changed(s[At(s, n)], new)]
           /\ SetKeys(s, n, new) \in Text
<1> DEFINE b == s[At(s, n)]
<1>1. At(s, n) \in 1..Len(s)
  BY AtIsThere
<1>2. /\ Len(s) \in Nat /\ DOMAIN s = 1..Len(s)
      /\ \A i \in 1..Len(s) : s[i] \in Block
  BY BlockTypes
<1>3. Changed(b, new) \in Block
  <2>1. b["port"] \in Nat /\ b["setting"] \in Settings /\ b["name"] \in Names
    BY <1>1, <1>2 DEF Block
  <2> HIDE DEF b
  <2>2. QED BY <2>1 DEF Changes, Changed, Block
<1>4. SetKeys(s, n, new) = [s EXCEPT ![At(s, n)] = Changed(b, new)]
  BY DEF SetKeys, Changed
<1>5. s \in Seq(Block)
  BY DEF Text
<1>6. [s EXCEPT ![At(s, n)] = Changed(b, new)] \in Seq(Block)
  <2> HIDE DEF b
  <2>1. QED BY <1>1, <1>3, <1>5
<1>7. QED BY <1>4, <1>6 DEF Text

(* So does set_ports.                                                       *)
LEMMA SetPortsType ==
    ASSUME NEW s \in Text, NEW config \in Text, NEW boards,
           boards \subseteq Named(config)
    PROVE  SetPorts(s, config, boards) \in Text
<1>1. /\ Len(s) \in Nat /\ DOMAIN s = 1..Len(s)
      /\ \A i \in 1..Len(s) : s[i] \in Block
  BY BlockTypes
<1>2. \A n \in boards : config[At(config, n)].port \in Nat
  BY AtIsThere, BlockTypes
<1>3. ASSUME NEW i \in 1..Len(s)
      PROVE  SetPorts(s, config, boards)[i] \in Block
  <2>1. CASE s[i].name \in boards /\ i = At(s, s[i].name)
    <3>1. SetPorts(s, config, boards)[i]
            = [s[i] EXCEPT !.port = config[At(config, s[i].name)].port]
      BY <1>1, <2>1 DEF SetPorts
    <3>2. config[At(config, s[i].name)].port \in Nat
      BY <1>2, <2>1
    <3>3. QED BY <3>1, <3>2, <1>1 DEF Block
  <2>2. CASE ~(s[i].name \in boards /\ i = At(s, s[i].name))
    BY <1>1, <2>2 DEF SetPorts
  <2>3. QED BY <2>1, <2>2
<1>4. SetPorts(s, config, boards) \in [1..Len(s) -> Block]
  <2>1. DOMAIN SetPorts(s, config, boards) = 1..Len(s)
    BY <1>1 DEF SetPorts
  <2>2. SetPorts(s, config, boards)
          = [i \in 1..Len(s) |-> SetPorts(s, config, boards)[i]]
    BY <1>1 DEF SetPorts
  <2> HIDE DEF SetPorts
  <2>3. QED BY <2>2, <1>3
<1>5. QED BY <1>1, <1>4 DEF Text

(* The blocks of added boards are a text.                                   *)
LEMMA NewType ==
    ASSUME NEW names \in Seq(Names), NEW ports \in Seq(Nat),
           Len(ports) = Len(names)
    PROVE  New(names, ports) \in Text /\ Len(New(names, ports)) = Len(names)
<1>1. DOMAIN names = 1..Len(names) /\ Len(names) \in Nat
  OBVIOUS
<1>2. Default \in Settings
  BY RegistryAssumption
<1>3. \A i \in 1..Len(names) : names[i] \in Names /\ ports[i] \in Nat
  OBVIOUS
<1>4. New(names, ports) \in [1..Len(names) -> Block]
  BY <1>1, <1>2, <1>3 DEF New, Block
<1>5. QED BY <1>1, <1>4 DEF Text

(* NewPorts gives every added board a number.                               *)
LEMMA NewPortsType ==
    ASSUME NEW s \in Text, NEW names \in Seq(Names)
    PROVE  /\ NewPorts(s, names) \in Seq(Nat)
           /\ Len(NewPorts(s, names)) = Len(names)
<1> DEFINE none == [i \in DOMAIN names |-> 0]
<1>1. none \in Seq(Nat) /\ Len(none) = Len(names)
  <2>1. none \in [1..Len(names) -> Nat] /\ Len(names) \in Nat
    OBVIOUS
  <2> HIDE DEF none
  <2>2. QED BY <2>1
<1> HIDE DEF none
<1>2. New(names, none) \in Text /\ Len(New(names, none)) = Len(names)
  BY <1>1, NewType
<1>3. Config(s) \in Text /\ Len(Config(s)) = Len(s) /\ Len(s) \in Nat
  BY ConfigBlocks, BlockTypes
<1> DEFINE longer == Config(s) \o New(names, none)
<1>4. longer \in Text /\ Len(longer) = Len(s) + Len(names)
  BY <1>2, <1>3 DEF Text
<1> HIDE DEF longer
<1> DEFINE all == Config(longer)
<1>5. all \in Text /\ Len(all) = Len(s) + Len(names)
  BY <1>4, ConfigBlocks
<1> HIDE DEF all
<1>6. Len(names) \in Nat /\ DOMAIN names = 1..Len(names)
  OBVIOUS
<1>7. ASSUME NEW i \in 1..Len(names) PROVE all[Len(s) + i].port \in Nat
  <2>1. Len(s) + i \in 1..Len(all)
    BY <1>3, <1>5, <1>6
  <2>2. QED BY <2>1, <1>5, BlockTypes
<1>8. NewPorts(s, names) = [i \in 1..Len(names) |-> all[Len(s) + i].port]
  BY <1>6 DEF NewPorts, all, longer, none
<1>9. NewPorts(s, names) \in [1..Len(names) -> Nat]
  BY <1>7, <1>8
<1>10. QED BY <1>6, <1>9

-----------------------------------------------------------------------------
(* The invariant.                                                           *)

(* What a job may ask, and of whom it comes.                                *)
Ops == {"none", "boot", "reload", "add", "scan", "rm", "set"}
Jobs == [op : Ops, names : Seq(Names), vals : Seq(Nat \cup Changes),
         via : {"none", "cli", "http", "main"}]

(* What an edit needs of its job.                                           *)
EditJob(j) ==
    \/ Adds(j) /\ j.vals \in Seq(Nat) /\ Len(j.vals) = Len(j.names)
    \/ j.op = "rm" /\ Len(j.names) = 1
    \/ /\ j.op = "set" /\ Len(j.names) = 1 /\ Len(j.vals) = 1
       /\ j.vals[1] \in Changes

Texts ==
    /\ file \in Text /\ current \in Text /\ inForce \in Text
    /\ text \in [Workers -> Text]
    /\ \A c \in pending : c \in Text

Works ==
    /\ pc \in [Workers -> {"idle", "notify"} \cup Editing \cup Reloading]
    /\ job \in [Workers -> Jobs]
    /\ \A w \in Workers :
         /\ IF pc[w] = "idle" THEN job[w] = NoJob ELSE job[w].via # "none"
         /\ pc[w] \in Editing => EditJob(job[w])
         /\ pc[w] = "plan" => Adds(job[w])

(* Who reloads while the manager is down is the main thread, and it hands   *)
(* nothing over.                                                            *)
DownIsQuiet ==
    ~up => /\ current = <<>> /\ inForce = <<>> /\ pending = {}
           /\ \A c \in Clients : job[c].via # "http" /\ pc[c] \notin Reloading
           /\ \A w \in Workers : pc[w] # "give"

(* What a worker is about to hand over has loaded.                          *)
HandsWhatLoads == \A w \in Workers : pc[w] \in {"hand", "give"} => Loads(text[w])

Flags == /\ home \in [Names -> Nat]
         /\ {up, overlapped, spoiled, unread} \subseteq BOOLEAN

IInv == Texts /\ Works /\ DownIsQuiet /\ HandsWhatLoads /\ Flags /\ SoundConfigs

(* No job is a job, of nobody.                                              *)
LEMMA NoJobType == NoJob \in Jobs /\ NoJob.via = "none"
<1>1. <<>> \in Seq(Names) /\ <<>> \in Seq(Nat \cup Changes)
  OBVIOUS
<1>2. QED BY <1>1 DEF NoJob, Jobs, Ops

(* No blocks are a text, and sound.                                         *)
LEMMA NoText == <<>> \in Text /\ Sound(<<>>)
BY DEF Text, Sound

(* An edit that is allowed gives a text.                                    *)
LEMMA EditedType ==
    ASSUME NEW s \in Text, NEW j, j.names \in Seq(Names), EditJob(j), Allowed(s, j)
    PROVE  Edited(s, j) \in Text
<1>1. /\ Len(s) \in Nat /\ DOMAIN s = 1..Len(s)
      /\ \A i \in 1..Len(s) : s[i] \in Block
  BY BlockTypes
<1>2. CASE Adds(j)
  <2>1. j.vals \in Seq(Nat) /\ Len(j.vals) = Len(j.names)
    BY <1>2 DEF EditJob, Adds
  <2>2. New(j.names, j.vals) \in Text
    BY <2>1, NewType
  <2>3. Edited(s, j) = s \o New(j.names, j.vals)
    BY <1>2 DEF Edited, Adds
  <2>4. QED BY <2>2, <2>3 DEF Text
<1>3. CASE j.op = "rm"
  <2>1. Edited(s, j) = [i \in 1..(Len(s) - 1) |->
                           s[IF i < At(s, j.names[1]) THEN i ELSE i + 1]]
    BY <1>3 DEF Edited, Adds
  <2>2. j.names[1] \in Named(s)
    BY <1>3 DEF Allowed, Adds
  <2>3. At(s, j.names[1]) \in 1..Len(s)
    BY <2>2, AtIsThere
  <2>4. Len(s) - 1 \in Nat
    BY <2>3, <1>1
  <2>5. \A i \in 1..(Len(s) - 1) : i \in 1..Len(s) /\ i + 1 \in 1..Len(s)
    BY <1>1
  <2>6. Edited(s, j) \in [1..(Len(s) - 1) -> Block]
    <3>1. \A i \in 1..(Len(s) - 1) :
             s[IF i < At(s, j.names[1]) THEN i ELSE i + 1] \in Block
      BY <1>1, <2>5
    <3>2. QED BY <2>1, <3>1
  <2>7. QED BY <2>4, <2>6 DEF Text
<1>4. CASE j.op = "set"
  <2>1. j.vals[1] \in Changes
    BY <1>4 DEF EditJob, Adds
  <2>2. j.names[1] \in Named(s)
    BY <1>4 DEF Allowed, Adds
  <2>3. Edited(s, j) = SetKeys(s, j.names[1], j.vals[1])
    BY <1>4 DEF Edited, Adds
  <2>4. QED BY <2>1, <2>2, <2>3, SetKeysType
<1>5. QED BY <1>2, <1>3, <1>4 DEF EditJob

(* The invariant holds at the start.                                        *)
LEMMA InitIInv == Init => IInv
<1> SUFFICES ASSUME Init PROVE IInv
  OBVIOUS
<1>1. \A n \in Names : <<[port |-> 0, setting |-> Default, name |-> n]>> \in Text
  BY RegistryAssumption DEF Text, Block
<1>2. Texts
  BY <1>1, NoText DEF Init, Texts
<1>3. Works
  BY NoJobType DEF Init, Works, Editing
<1>4. DownIsQuiet
  BY NoJobType DEF Init, DownIsQuiet, Workers, Reloading
<1>5. HandsWhatLoads
  BY DEF Init, HandsWhatLoads
<1>6. Flags
  BY DEF Init, Flags
<1>7. SoundConfigs
  BY NoText DEF Init, SoundConfigs
<1>8. QED BY <1>2, <1>3, <1>4, <1>5, <1>6, <1>7 DEF IInv

-----------------------------------------------------------------------------
(* Every request, command, boot and signal starts one worker on a job that  *)
(* is as it should be; only while the manager answers does it reload, the   *)
(* main thread's start-up apart.                                            *)
Starts(w, j, p) ==
    /\ Begin(w, j, p)
    /\ j \in Jobs /\ j.via # "none" /\ p \in {"plan", "read", "load"}
    /\ p \in Editing => EditJob(j)
    /\ p = "plan" => Adds(j)
    /\ w # Main /\ ~up => j.via = "cli" /\ p # "load"

(* Every request there is is a job, and an edit has what it needs.          *)
LEMMA EditRequests ==
    /\ \A via \in {"cli", "http"}, n \in Names, p \in Nat :
         /\ Request(via, "add", <<n>>, <<p>>) \in Jobs
         /\ EditJob(Request(via, "add", <<n>>, <<p>>))
         /\ Adds(Request(via, "add", <<n>>, <<p>>))
    /\ \A via \in {"cli", "http"}, n \in Names, new \in Changes :
         /\ Request(via, "set", <<n>>, <<new>>) \in Jobs
         /\ EditJob(Request(via, "set", <<n>>, <<new>>))
    /\ \A n \in Names :
         /\ Request("cli", "rm", <<n>>, <<>>) \in Jobs
         /\ EditJob(Request("cli", "rm", <<n>>, <<>>))
    /\ \A via \in {"http", "main", "cli"}, op \in {"reload", "boot", "scan"} :
         Request(via, op, <<>>, <<>>) \in Jobs
    /\ EditJob(Request("cli", "scan", <<>>, <<>>))
    /\ Adds(Request("cli", "scan", <<>>, <<>>))
<1> DEFINE Values == Nat \cup Changes
<1>1. \A n \in Names : <<n>> \in Seq(Names) /\ Len(<<n>>) = 1
  OBVIOUS
<1>2. \A v : Len(<<v>>) = 1 /\ <<v>>[1] = v
  OBVIOUS
<1>3. \A p \in Nat : <<p>> \in Seq(Nat) /\ <<p>> \in Seq(Values)
  OBVIOUS
<1>5. \A v \in Changes : <<v>> \in Seq(Values)
  OBVIOUS
<1>6. <<>> \in Seq(Names) /\ <<>> \in Seq(Values) /\ <<>> \in Seq(Nat) /\ Len(<<>>) = 0
  OBVIOUS
<1>7. {"none", "boot", "reload", "add", "scan", "rm", "set"} \subseteq Ops
  BY DEF Ops
<1> HIDE DEF Values
<1>8. ASSUME NEW via \in {"cli", "http"}, NEW n \in Names, NEW p \in Nat
      PROVE  LET r == Request(via, "add", <<n>>, <<p>>) IN
             r \in Jobs /\ EditJob(r) /\ Adds(r)
  <2> DEFINE r == Request(via, "add", <<n>>, <<p>>)
  <2>1. <<n>> \in Seq(Names) /\ <<p>> \in Seq(Values) /\ "add" \in Ops
    BY <1>1, <1>3, <1>7
  <2>2. r \in Jobs /\ r.op = "add" /\ r.names = <<n>> /\ r.vals = <<p>>
    BY <2>1 DEF Request, Jobs, Values
  <2> HIDE DEF r
  <2>3. Adds(r) /\ r.vals \in Seq(Nat) /\ Len(r.vals) = Len(r.names)
    BY <2>2, <1>1, <1>2, <1>3 DEF Adds
  <2>4. QED BY <2>2, <2>3 DEF r, EditJob
<1>9. ASSUME NEW via \in {"cli", "http"}, NEW n \in Names, NEW new \in Changes
      PROVE  LET r == Request(via, "set", <<n>>, <<new>>) IN r \in Jobs /\ EditJob(r)
  <2> DEFINE r == Request(via, "set", <<n>>, <<new>>)
  <2>1. <<n>> \in Seq(Names) /\ <<new>> \in Seq(Values) /\ "set" \in Ops
    BY <1>1, <1>5, <1>7
  <2>2. r \in Jobs /\ r.op = "set" /\ r.names = <<n>> /\ r.vals = <<new>>
    BY <2>1 DEF Request, Jobs, Values
  <2> HIDE DEF r
  <2>3. /\ r.op = "set" /\ Len(r.names) = 1 /\ Len(r.vals) = 1
        /\ r.vals[1] \in Changes
    BY <2>2, <1>1, <1>2
  <2>4. QED BY <2>2, <2>3 DEF r, EditJob
<1>10. ASSUME NEW n \in Names
       PROVE  LET r == Request("cli", "rm", <<n>>, <<>>) IN r \in Jobs /\ EditJob(r)
  <2> DEFINE r == Request("cli", "rm", <<n>>, <<>>)
  <2>1. <<n>> \in Seq(Names) /\ <<>> \in Seq(Values) /\ "rm" \in Ops
    BY <1>1, <1>6, <1>7
  <2>2. r \in Jobs /\ r.op = "rm" /\ r.names = <<n>>
    BY <2>1 DEF Request, Jobs, Values
  <2> HIDE DEF r
  <2>3. r.op = "rm" /\ Len(r.names) = 1
    BY <2>2, <1>1
  <2>4. QED BY <2>2, <2>3 DEF r, EditJob
<1>11. ASSUME NEW via \in {"http", "main", "cli"}, NEW op \in {"reload", "boot", "scan"}
       PROVE  LET r == Request(via, op, <<>>, <<>>) IN
              r \in Jobs /\ r.op = op /\ r.names = <<>> /\ r.vals = <<>>
  <2>1. <<>> \in Seq(Names) /\ <<>> \in Seq(Values) /\ op \in Ops
    BY <1>6, <1>7
  <2>2. QED BY <2>1 DEF Request, Jobs, Values
<1>12. LET r == Request("cli", "scan", <<>>, <<>>) IN EditJob(r) /\ Adds(r)
  <2> DEFINE r == Request("cli", "scan", <<>>, <<>>)
  <2>1. r.op = "scan" /\ r.names = <<>> /\ r.vals = <<>>
    BY <1>11
  <2> HIDE DEF r
  <2>2. Adds(r) /\ r.vals \in Seq(Nat) /\ Len(r.vals) = Len(r.names)
    BY <2>1, <1>6 DEF Adds
  <2>3. QED BY <2>2 DEF r, EditJob
<1>13. QED
  BY <1>8, <1>9, <1>10, <1>11, <1>12

(* Every action that begins a job begins it so.                             *)
LEMMA EveryStart ==
    ASSUME IInv,
           \/ \E c \in Clients :
                \/ AskReload(c) \/ AskAdd(c) \/ AskAutostart(c)
                \/ RunAdd(c) \/ RunScan(c) \/ RunRemove(c) \/ RunSet(c)
           \/ Boot \/ Hangup
    PROVE  \E w \in Workers, j \in Jobs, p \in {"plan", "read", "load"} :
              Starts(w, j, p)
<1>1. /\ Main \in Workers /\ \A c \in Clients : c \in Workers /\ c # Main
  BY RegistryAssumption DEF Workers
<1> DEFINE Start == \E w \in Workers, j \in Jobs, p \in {"plan", "read", "load"} :
              Starts(w, j, p)
<1>2. ASSUME NEW via, NEW op, NEW names, NEW vals
      PROVE  Request(via, op, names, vals).via = via
  BY DEF Request
<1>3. ASSUME NEW c \in Clients, AskReload(c) PROVE Start
  <2>1. Starts(c, Request("http", "reload", <<>>, <<>>), "load")
    BY <1>1, <1>2, <1>3, EditRequests DEF AskReload, Ask, Starts, Editing
  <2>2. QED BY <1>1, <2>1 DEF Starts
<1>4. ASSUME NEW c \in Clients, AskAdd(c) PROVE Start
  <2>1. PICK n \in Names : Ask(c, Request("http", "add", <<n>>, <<0>>), "plan")
    BY <1>4 DEF AskAdd
  <2>2. Starts(c, Request("http", "add", <<n>>, <<0>>), "plan")
    BY <1>1, <1>2, <1>4, <2>1, EditRequests DEF AskAdd, Ask, Starts, Editing
  <2>3. QED BY <1>1, <2>2 DEF Starts
<1>5. ASSUME NEW c \in Clients, AskAutostart(c) PROVE Start
  <2>1. PICK n \in Named(inForce), m \in Modes :
           Ask(c, Request("http", "set", <<n>>, <<[setting |-> m]>>), "read")
    BY <1>5 DEF AskAutostart
  <2>2. n \in Names
    <3>1. inForce \in Text
      BY DEF IInv, Texts
    <3>2. QED BY <3>1, BlockTypes DEF Named
  <2>3. [setting |-> m] \in Changes
    BY RegistryAssumption, SomeChanges
  <2>4. Starts(c, Request("http", "set", <<n>>, <<[setting |-> m]>>), "read")
    BY <1>1, <1>2, <1>5, <2>1, <2>2, <2>3, EditRequests
       DEF AskAutostart, Ask, Starts, Editing
  <2>5. QED BY <1>1, <2>4 DEF Starts
<1>6. ASSUME NEW c \in Clients, RunAdd(c) PROVE Start
  <2>1. PICK n \in Names, p \in {0} \cup Wanted :
           Ask(c, Request("cli", "add", <<n>>, <<p>>), "plan")
    BY <1>6 DEF RunAdd
  <2>2. p \in Nat
    BY RegistryAssumption
  <2>3. Starts(c, Request("cli", "add", <<n>>, <<p>>), "plan")
    BY <1>1, <1>2, <2>1, <2>2, EditRequests DEF Ask, Starts, Editing
  <2>4. QED BY <1>1, <2>3 DEF Starts
<1>7. ASSUME NEW c \in Clients, RunScan(c) PROVE Start
  <2>1. Starts(c, Request("cli", "scan", <<>>, <<>>), "plan")
    BY <1>1, <1>2, <1>7, EditRequests DEF RunScan, Ask, Starts, Editing
  <2>2. QED BY <1>1, <2>1 DEF Starts
<1>8. ASSUME NEW c \in Clients, RunRemove(c) PROVE Start
  <2>1. PICK n \in Names : Ask(c, Request("cli", "rm", <<n>>, <<>>), "read")
    BY <1>8 DEF RunRemove
  <2>2. Starts(c, Request("cli", "rm", <<n>>, <<>>), "read")
    BY <1>1, <1>2, <2>1, EditRequests DEF Ask, Starts, Editing
  <2>3. QED BY <1>1, <2>2 DEF Starts
<1>9. ASSUME NEW c \in Clients, RunSet(c) PROVE Start
  <2>1. PICK n \in Names, keys \in KeySets,
             b \in [port : Wanted, setting : Settings, name : Names] :
           Ask(c, Request("cli", "set", <<n>>, <<Restrict(b, keys)>>), "read")
    BY <1>9 DEF RunSet
  <2>2. Restrict(b, keys) \in Changes
    <3>1. Wanted \subseteq Nat
      BY RegistryAssumption
    <3>2. b \in Block
      BY <3>1 DEF Block
    <3>3. QED BY <3>2, RegistryAssumption, SomeChanges
  <2>3. Starts(c, Request("cli", "set", <<n>>, <<Restrict(b, keys)>>), "read")
    BY <1>1, <1>2, <2>1, <2>2, EditRequests DEF Ask, Starts, Editing
  <2>4. QED BY <1>1, <2>3 DEF Starts
<1>10. ASSUME Boot PROVE Start
  <2>1. Starts(Main, Request("main", "boot", <<>>, <<>>), "load")
    BY <1>1, <1>2, <1>10, EditRequests DEF Boot, Starts, Editing
  <2>2. QED BY <1>1, <2>1 DEF Starts
<1>11. ASSUME Hangup PROVE Start
  <2>1. Starts(Main, Request("main", "reload", <<>>, <<>>), "load")
    BY <1>1, <1>2, <1>11, EditRequests DEF Hangup, Ask, Starts, Editing
  <2>2. QED BY <1>1, <2>1 DEF Starts
<1>12. QED
  <2> HIDE DEF Start
  <2>1. Start
    BY <1>3, <1>4, <1>5, <1>6, <1>7, <1>8, <1>9, <1>10, <1>11
  <2>2. QED BY <2>1 DEF Start

-----------------------------------------------------------------------------
(* Every step keeps the invariant.                                          *)

Places == {"notify"} \cup Editing \cup Reloading

(* A worker goes on, with its job as it is or with another.                 *)
LEMMA MoveWorks ==
    ASSUME Works, NEW w \in Workers, NEW p \in Places, NEW j \in Jobs,
           j.via # "none", p \in Editing => EditJob(j), p = "plan" => Adds(j),
           pc' = [pc EXCEPT ![w] = p],
           job' = [job EXCEPT ![w] = j]
    PROVE  Works'
<1>1. p # "idle" /\ p \in {"idle", "notify"} \cup Editing \cup Reloading
  BY DEF Places, Editing, Reloading
<1>2. /\ pc \in [Workers -> {"idle", "notify"} \cup Editing \cup Reloading]
      /\ job \in [Workers -> Jobs]
  BY DEF Works
<1>3. /\ pc' \in [Workers -> {"idle", "notify"} \cup Editing \cup Reloading]
      /\ job' \in [Workers -> Jobs]
  BY <1>1, <1>2
<1>4. ASSUME NEW v \in Workers
      PROVE  /\ IF pc'[v] = "idle" THEN job'[v] = NoJob ELSE job'[v].via # "none"
             /\ pc'[v] \in Editing => EditJob(job'[v])
             /\ pc'[v] = "plan" => Adds(job'[v])
  <2>1. CASE v = w
    <3>1. pc'[v] = p /\ job'[v] = j
      BY <2>1, <1>2
    <3>2. QED BY <3>1, <1>1
  <2>2. CASE v # w
    <3>1. pc'[v] = pc[v] /\ job'[v] = job[v]
      BY <2>2, <1>2
    <3>2. QED BY <3>1 DEF Works
  <2>3. QED BY <2>1, <2>2
<1>5. QED BY <1>3, <1>4 DEF Works

(* A worker goes on with the job it has.                                    *)
LEMMA GoWorks ==
    ASSUME Works, NEW w \in Workers, NEW p \in Places \ {"plan"},
           pc[w] # "idle", p \in Editing => EditJob(job[w]), Go(w, p), job' = job
    PROVE  Works'
<1>1. job[w] \in Jobs /\ job[w].via # "none" /\ job' = [job EXCEPT ![w] = job[w]]
  BY DEF Works
<1>2. pc' = [pc EXCEPT ![w] = p]
  BY DEF Go
<1>3. QED BY <1>1, <1>2, MoveWorks

(* A worker ends.                                                           *)
LEMMA FinishWorks ==
    ASSUME Works, NEW w \in Workers, Finish(w)
    PROVE  Works'
<1>1. /\ pc \in [Workers -> {"idle", "notify"} \cup Editing \cup Reloading]
      /\ job \in [Workers -> Jobs]
  BY DEF Works
<1>2. /\ pc' = [pc EXCEPT ![w] = "idle"]
      /\ job' = [job EXCEPT ![w] = NoJob]
  BY DEF Finish, Go
<1>3. /\ pc' \in [Workers -> {"idle", "notify"} \cup Editing \cup Reloading]
      /\ job' \in [Workers -> Jobs]
  BY <1>1, <1>2, NoJobType
<1>4. ASSUME NEW v \in Workers
      PROVE  /\ IF pc'[v] = "idle" THEN job'[v] = NoJob ELSE job'[v].via # "none"
             /\ pc'[v] \in Editing => EditJob(job'[v])
             /\ pc'[v] = "plan" => Adds(job'[v])
  <2>1. CASE v = w
    <3>1. pc'[v] = "idle" /\ job'[v] = NoJob
      BY <2>1, <1>1, <1>2
    <3>2. QED BY <3>1 DEF Editing
  <2>2. CASE v # w
    <3>1. pc'[v] = pc[v] /\ job'[v] = job[v]
      BY <2>2, <1>1, <1>2
    <3>2. QED BY <3>1 DEF Works
  <2>3. QED BY <2>1, <2>2
<1>5. QED BY <1>3, <1>4 DEF Works

(* A worker that ends leaves everything else sound.                         *)
LEMMA FinishKeeps ==
    ASSUME IInv, NEW w \in Workers, Finish(w)
    PROVE  /\ Works' /\ text' \in [Workers -> Text]
           /\ HandsWhatLoads'
           /\ \A v \in Workers :
                 v # w => /\ pc'[v] = pc[v] /\ job'[v] = job[v]
                          /\ text'[v] = text[v]
           /\ pc'[w] = "idle" /\ job'[w] = NoJob
<1>1. /\ pc' = [pc EXCEPT ![w] = "idle"]
      /\ job' = [job EXCEPT ![w] = NoJob]
      /\ text' = [text EXCEPT ![w] = <<>>]
  BY DEF Finish, Go
<1>2. /\ DOMAIN pc = Workers /\ DOMAIN job = Workers
      /\ text \in [Workers -> Text]
  BY DEF IInv, Works, Texts
<1>3. /\ \A v \in Workers :
            v # w => pc'[v] = pc[v] /\ job'[v] = job[v] /\ text'[v] = text[v]
      /\ pc'[w] = "idle" /\ job'[w] = NoJob
  BY <1>1, <1>2
<1>4. text' \in [Workers -> Text]
  BY <1>1, <1>2, NoText
<1>5. HandsWhatLoads'
  <2>1. SUFFICES ASSUME NEW v \in Workers, pc'[v] \in {"hand", "give"}
                 PROVE  Loads(text'[v])
    BY DEF HandsWhatLoads
  <2>2. v # w
    BY <2>1, <1>3
  <2>3. QED BY <2>1, <2>2, <1>3 DEF IInv, HandsWhatLoads
<1>6. Works'
  BY FinishWorks DEF IInv
<1>7. QED BY <1>3, <1>4, <1>5, <1>6

(* What is left to show when a worker ends and the rest stays.              *)
LEMMA FinishQuiet ==
    ASSUME IInv, NEW w \in Workers, Finish(w), UNCHANGED manager
    PROVE  DownIsQuiet' /\ SoundConfigs'
<1>1. /\ up' = up /\ current' = current /\ pending' = pending /\ inForce' = inForce
  BY DEF manager
<1>2. SoundConfigs'
  BY <1>1 DEF IInv, SoundConfigs
<1>3. DownIsQuiet'
  <2>1. SUFFICES ASSUME ~up
                 PROVE  /\ \A c \in Clients : job'[c].via # "http"
                                              /\ pc'[c] \notin Reloading
                        /\ \A v \in Workers : pc'[v] # "give"
    BY <1>1 DEF IInv, DownIsQuiet
  <2>2. \A v \in Workers : \/ pc'[v] = pc[v] /\ job'[v] = job[v]
                           \/ pc'[v] = "idle" /\ job'[v] = NoJob
    BY FinishKeeps
  <2>3. /\ \A c \in Clients : c \in Workers /\ job[c].via # "http"
                              /\ pc[c] \notin Reloading
        /\ \A v \in Workers : pc[v] # "give"
    BY <2>1 DEF IInv, DownIsQuiet, Workers
  <2>4. "idle" \notin Reloading /\ NoJob.via = "none"
    BY NoJobType DEF Reloading
  <2>5. QED BY <2>2, <2>3, <2>4
<1>4. QED BY <1>2, <1>3

(* A start keeps the invariant.                                             *)
LEMMA StartKeeps ==
    ASSUME IInv, NEW w \in Workers, NEW j \in Jobs,
           NEW p \in {"plan", "read", "load"}, Starts(w, j, p)
    PROVE  IInv'
<1>1. /\ pc' = [pc EXCEPT ![w] = p] /\ job' = [job EXCEPT ![w] = j]
      /\ overlapped' \in BOOLEAN
      /\ UNCHANGED <<file, text, manager, home, spoiled, unread>>
      /\ j.via # "none" /\ (p \in Editing => EditJob(j)) /\ (p = "plan" => Adds(j))
      /\ (w # Main /\ ~up => j.via = "cli" /\ p # "load")
  BY DEF Starts, Begin, IInv, Flags
<1>2. DOMAIN pc = Workers /\ DOMAIN job = Workers
  BY DEF IInv, Works
<1>3. Texts'
  BY <1>1 DEF IInv, Texts, manager
<1>4. Works'
  <2>1. p \in Places
    BY DEF Places, Editing, Reloading
  <2>2. QED BY <2>1, <1>1, MoveWorks DEF IInv
<1>5. \A v \in Workers : IF v = w THEN pc'[v] = p /\ job'[v] = j
                         ELSE pc'[v] = pc[v] /\ job'[v] = job[v]
  BY <1>1, <1>2
<1>6. DownIsQuiet'
  <2>1. SUFFICES ASSUME ~up
                 PROVE  /\ \A c \in Clients : job'[c].via # "http"
                                              /\ pc'[c] \notin Reloading
                        /\ \A v \in Workers : pc'[v] # "give"
    BY <1>1 DEF IInv, DownIsQuiet, manager
  <2>2. /\ \A c \in Clients : c \in Workers /\ c # Main /\ job[c].via # "http"
                              /\ pc[c] \notin Reloading
        /\ \A v \in Workers : pc[v] # "give"
    BY <2>1, RegistryAssumption DEF IInv, DownIsQuiet, Workers
  <2>3. "plan" \notin Reloading /\ "read" \notin Reloading
    BY DEF Reloading
  <2>4. QED BY <2>1, <2>2, <2>3, <1>1, <1>5
<1>7. HandsWhatLoads'
  BY <1>1, <1>5 DEF IInv, HandsWhatLoads
<1>8. Flags' /\ SoundConfigs'
  BY <1>1 DEF IInv, Flags, SoundConfigs, manager
<1>9. QED BY <1>3, <1>4, <1>6, <1>7, <1>8 DEF IInv

(* A worker goes on and may have read another text.                         *)
LEMMA GoKeeps ==
    ASSUME IInv, NEW w \in Workers, NEW p \in Places \ {"plan"}, NEW s \in Text,
           pc[w] # "idle", p \in Editing => EditJob(job[w]),
           p \in Reloading /\ w # Main => up \/ pc[w] \in Reloading,
           p = "give" => up,
           p \in {"hand", "give"} => Loads(s),
           Go(w, p), job' = job, text' = [text EXCEPT ![w] = s]
    PROVE  /\ Works' /\ text' \in [Workers -> Text] /\ HandsWhatLoads'
           /\ UNCHANGED manager => DownIsQuiet' /\ SoundConfigs'
<1>1. pc' = [pc EXCEPT ![w] = p] /\ DOMAIN pc = Workers
  BY DEF Go, IInv, Works
<1>2. text \in [Workers -> Text]
  BY DEF IInv, Texts
<1>3. Works'
  BY GoWorks DEF IInv
<1>4. text' \in [Workers -> Text]
  BY <1>2
<1>5. \A v \in Workers : IF v = w THEN pc'[v] = p /\ text'[v] = s
                         ELSE pc'[v] = pc[v] /\ text'[v] = text[v]
  BY <1>1, <1>2
<1>6. HandsWhatLoads'
  BY <1>5 DEF IInv, HandsWhatLoads
<1>7. ASSUME UNCHANGED manager PROVE DownIsQuiet' /\ SoundConfigs'
  <2>1. up' = up /\ current' = current /\ pending' = pending /\ inForce' = inForce
    BY <1>7 DEF manager
  <2>2. SoundConfigs'
    BY <2>1 DEF IInv, SoundConfigs
  <2>3. DownIsQuiet'
    <3>1. SUFFICES ASSUME ~up
                   PROVE  /\ \A c \in Clients : pc'[c] \notin Reloading
                          /\ \A v \in Workers : pc'[v] # "give"
      BY <2>1 DEF IInv, DownIsQuiet
    <3>2. /\ \A c \in Clients : c \in Workers /\ c # Main /\ pc[c] \notin Reloading
          /\ \A v \in Workers : pc[v] # "give"
      BY <3>1, RegistryAssumption DEF IInv, DownIsQuiet, Workers
    <3>3. QED BY <3>1, <3>2, <1>5
  <2>4. QED BY <2>2, <2>3
<1>8. QED BY <1>3, <1>4, <1>6, <1>7

(* The manager goes down, and with it whatever it would have done.          *)
LEMMA DownKeeps ==
    ASSUME IInv, Down
    PROVE  /\ Works' /\ text' \in [Workers -> Text] /\ HandsWhatLoads'
           /\ current' \in Text /\ inForce' \in Text /\ pending' = {}
           /\ DownIsQuiet' /\ SoundConfigs' /\ up' = FALSE
<1> DEFINE ends == {w \in Workers : job[w].via # "cli" \/ pc[w] \in Reloading}
<1>1. /\ up' = FALSE /\ current' = <<>> /\ pending' = {} /\ inForce' = <<>>
      /\ pc' = [w \in Workers |-> IF w \in ends THEN "idle" ELSE pc[w]]
      /\ job' = [w \in Workers |-> IF w \in ends THEN NoJob ELSE job[w]]
      /\ text' = [w \in Workers |-> IF w \in ends THEN <<>> ELSE text[w]]
  BY DEF Down
<1>2. /\ pc \in [Workers -> {"idle", "notify"} \cup Editing \cup Reloading]
      /\ job \in [Workers -> Jobs] /\ text \in [Workers -> Text]
  BY DEF IInv, Works, Texts
<1>3. \A w \in Workers :
         \/ w \in ends /\ pc'[w] = "idle" /\ job'[w] = NoJob
         \/ /\ w \notin ends
            /\ pc'[w] = pc[w] /\ job'[w] = job[w] /\ text'[w] = text[w]
            /\ job'[w].via = "cli" /\ pc'[w] \notin Reloading
  BY <1>1
<1> HIDE DEF ends
<1>4. /\ pc' \in [Workers -> {"idle", "notify"} \cup Editing \cup Reloading]
      /\ job' \in [Workers -> Jobs] /\ text' \in [Workers -> Text]
  BY <1>1, <1>2, NoJobType, NoText
<1>5. "idle" \notin Reloading \cup Editing /\ NoJob.via = "none"
      /\ {"hand", "give"} \subseteq Reloading
  BY NoJobType DEF Reloading, Editing
<1>6. Works'
  <2>1. ASSUME NEW w \in Workers
        PROVE  /\ IF pc'[w] = "idle" THEN job'[w] = NoJob ELSE job'[w].via # "none"
               /\ pc'[w] \in Editing => EditJob(job'[w])
               /\ pc'[w] = "plan" => Adds(job'[w])
    <3>1. CASE pc'[w] = "idle" /\ job'[w] = NoJob
      BY <3>1, <1>5
    <3>2. CASE pc'[w] = pc[w] /\ job'[w] = job[w]
      BY <3>2 DEF IInv, Works
    <3>3. QED BY <3>1, <3>2, <1>3
  <2>2. QED BY <2>1, <1>4 DEF Works
<1>7. HandsWhatLoads'
  BY <1>3, <1>5 DEF HandsWhatLoads
<1>8. DownIsQuiet'
  <2>1. \A c \in Clients : c \in Workers
    BY DEF Workers
  <2>2. \A w \in Workers : job'[w].via # "http" /\ pc'[w] \notin Reloading
    BY <1>3, <1>5
  <2>3. QED BY <2>1, <2>2, <1>1, <1>5 DEF DownIsQuiet
<1>9. SoundConfigs'
  BY <1>1, NoText DEF SoundConfigs
<1>10. QED BY <1>1, <1>4, <1>6, <1>7, <1>8, <1>9, NoText

(* A plan chooses boards and ports for an add or a scan.                    *)
LEMMA PlanKeeps == ASSUME IInv, NEW w \in Workers, Plan(w) PROVE IInv'
<1>1. /\ pc[w] = "plan" /\ UNCHANGED <<file, manager, left, history>>
      /\ job[w] \in Jobs /\ job[w].via # "none" /\ EditJob(job[w]) /\ Adds(job[w])
  BY DEF Plan, IInv, Works, Editing
<1>2. PICK names \in IF job[w].op = "scan" THEN SetToSeqs(Names \ Named(file))
                     ELSE {job[w].names} :
        LET asked == job[w].vals
            ports == IF job[w].op = "add" /\ asked[1] # 0 THEN asked
                     ELSE NewPorts(file, names)
        IN \/ /\ job' = [job EXCEPT ![w].names = names, ![w].vals = ports]
              /\ Go(w, "read") /\ UNCHANGED text
           \/ Finish(w)
  BY DEF Plan
<1>3. names \in Seq(Names)
  <2>1. CASE job[w].op = "scan"
    <3> DEFINE S == Names \ Named(file)
    <3>1. IsFiniteSet(S)
      BY RegistryAssumption, FS_Difference
    <3>2. Cardinality(S) \in Nat
      <4> HIDE DEF S
      <4>1. QED BY <3>1, FS_CardinalityType
    <3>3. names \in [1..Cardinality(S) -> S]
      BY <1>2, <2>1 DEF SetToSeqs
    <3>4. names \in [1..Cardinality(S) -> Names]
      BY <3>3
    <3> HIDE DEF S
    <3>5. QED BY <3>2, <3>4
  <2>2. CASE job[w].op # "scan"
    BY <1>1, <1>2, <2>2 DEF Jobs
  <2>3. QED BY <2>1, <2>2
<1> DEFINE ports == IF job[w].op = "add" /\ job[w].vals[1] # 0 THEN job[w].vals
                    ELSE NewPorts(file, names)
<1>4. ports \in Seq(Nat) /\ Len(ports) = Len(names)
  <2>1. CASE job[w].op = "add" /\ job[w].vals[1] # 0
    <3>1. names = job[w].names /\ ports = job[w].vals
      BY <1>2, <2>1
    <3>2. QED BY <3>1, <1>1, <2>1 DEF EditJob, Adds
  <2>2. CASE ~(job[w].op = "add" /\ job[w].vals[1] # 0)
    <3>1. file \in Text
      BY DEF IInv, Texts
    <3>2. ports = NewPorts(file, names)
      BY <2>2
    <3> HIDE DEF ports
    <3>3. QED BY <3>1, <3>2, <1>3, NewPortsType
  <2>3. QED BY <2>1, <2>2
<1>5. CASE Finish(w)
  BY <1>1, <1>5, FinishKeeps, FinishQuiet DEF IInv, Texts, Flags, manager, history
<1>6. CASE /\ job' = [job EXCEPT ![w].names = names, ![w].vals = ports]
           /\ Go(w, "read") /\ UNCHANGED text
  <2> DEFINE j == [job[w] EXCEPT !.names = names, !.vals = ports]
  <2>1. job' = [job EXCEPT ![w] = j]
    BY <1>6, <1>1 DEF IInv, Works
  <2>2. j.names = names /\ j.vals = ports /\ j.op = job[w].op /\ j.via = job[w].via
    BY <1>1 DEF Jobs
  <2>3. j \in Jobs
    <3>1. ports \in Seq(Nat \cup Changes)
      <4> HIDE DEF ports
      <4>1. QED BY <1>4
    <3> HIDE DEF ports
    <3>2. QED BY <3>1, <1>1, <1>3 DEF Jobs
  <2> HIDE DEF ports, j
  <2>4. Adds(j) /\ EditJob(j) /\ j.via # "none"
    BY <2>2, <1>1, <1>4 DEF EditJob, Adds
  <2>5. pc' = [pc EXCEPT ![w] = "read"] /\ "read" \in Places
    BY <1>6 DEF Go, Places, Editing
  <2>6. Works'
    BY <2>1, <2>3, <2>4, <2>5, MoveWorks DEF IInv
  <2>7. Texts' /\ Flags' /\ SoundConfigs'
    BY <1>1, <1>6 DEF IInv, Texts, Flags, SoundConfigs, manager, history
  <2>8. \A v \in Workers : \/ pc'[v] = pc[v] /\ job'[v] = job[v]
                           \/ pc'[v] = "read" /\ job'[v].via = job[v].via
    BY <2>1, <2>2, <2>5 DEF IInv, Works
  <2>9. HandsWhatLoads'
    BY <2>8, <1>6 DEF IInv, HandsWhatLoads
  <2>10. DownIsQuiet'
    BY <2>8, <1>1 DEF IInv, DownIsQuiet, manager, Workers, Reloading
  <2>11. QED BY <2>6, <2>7, <2>9, <2>10 DEF IInv
<1>7. QED BY <1>2, <1>5, <1>6

(* A worker that reads nothing keeps its text.                              *)
LEMMA SameText ==
    ASSUME IInv, NEW w \in Workers
    PROVE  text[w] \in Text /\ text = [text EXCEPT ![w] = text[w]]
BY DEF IInv, Texts

(* An edit reads the file.                                                  *)
LEMMA ReadKeeps == ASSUME IInv, NEW w \in Workers, Read(w) PROVE IInv'
<1>1. /\ pc[w] = "read" /\ text' = [text EXCEPT ![w] = file] /\ Go(w, "write")
      /\ UNCHANGED <<file, job, manager, left, history>>
  BY DEF Read
<1>2. /\ file \in Text /\ EditJob(job[w])
      /\ "write" \in Places \ {"plan"} /\ "write" \notin Reloading
  BY <1>1 DEF IInv, Texts, Works, Editing, Places, Reloading
<1>3. /\ Works' /\ text' \in [Workers -> Text] /\ HandsWhatLoads'
      /\ DownIsQuiet' /\ SoundConfigs'
  BY <1>1, <1>2, GoKeeps
<1>4. QED BY <1>1, <1>3 DEF IInv, Texts, Flags, manager, history

(* An edit writes the file, or is refused.                                  *)
LEMMA WriteKeeps == ASSUME IInv, NEW w \in Workers, Write(w) PROVE IInv'
<1>1. /\ pc[w] = "write"
      /\ UNCHANGED <<manager, left, overlapped, spoiled, unread>>
  BY DEF Write
<1>2. /\ text[w] \in Text /\ file \in Text /\ job[w] \in Jobs /\ EditJob(job[w])
      /\ home \in [Names -> Nat] /\ "write" # "idle"
  BY <1>1 DEF IInv, Texts, Works, Editing, Flags
<1>3. CASE Finish(w) /\ UNCHANGED <<file, home>>
  BY <1>1, <1>3, FinishKeeps, FinishQuiet DEF IInv, Texts, Flags, manager
<1>4. CASE Allowed(text[w], job[w]) /\ Loads(Edited(text[w], job[w]))
  <2>1. /\ file' = IF Edited(text[w], job[w]) = text[w] THEN file
                   ELSE Edited(text[w], job[w])
        /\ home' = [n \in Names |->
                      IF \/ n \notin Named(file') \/ n \notin Named(file)
                         \/ Moves(job[w], n)
                      THEN 0 ELSE home[n]]
        /\ Go(w, IF job[w].via = "http" THEN "load" ELSE "notify")
        /\ UNCHANGED <<job, text>>
    BY <1>1, <1>4 DEF Write
  <2>2. file' \in Text
    <3>1. job[w].names \in Seq(Names)
      BY <1>2 DEF Jobs
    <3>2. Edited(text[w], job[w]) \in Text
      BY <3>1, <1>2, <1>4, EditedType
    <3>3. QED BY <3>2, <2>1, <1>2
  <2>3. home' \in [Names -> Nat]
    BY <2>1, <1>2
  <2>4. PICK p \in {"load", "notify"} :
           Go(w, p) /\ (p = "load" => job[w].via = "http")
    BY <2>1
  <2>5. /\ p \in Places \ {"plan"} /\ p \notin Editing
        /\ p \notin {"give", "hand"} /\ (p \in Reloading => p = "load")
    BY DEF Places, Editing, Reloading
  <2>6. p \in Reloading /\ w # Main => up
    <3>1. w # Main => w \in Clients
      BY DEF Workers
    <3>2. QED BY <3>1, <2>4, <2>5 DEF IInv, DownIsQuiet
  <2>7. /\ Works' /\ text' \in [Workers -> Text] /\ HandsWhatLoads'
        /\ DownIsQuiet' /\ SoundConfigs'
    BY <1>1, <1>2, <2>1, <2>4, <2>5, <2>6, SameText, GoKeeps
  <2>8. QED BY <1>1, <2>2, <2>3, <2>7 DEF IInv, Texts, Flags, manager
<1>5. QED BY <1>3, <1>4 DEF Write

(* A command asks for a reload, or ends.                                    *)
LEMMA NotifyKeeps == ASSUME IInv, NEW w \in Workers, Notify(w) PROVE IInv'
<1>1. /\ pc[w] = "notify" /\ UNCHANGED <<file, manager, left, history>>
      /\ \/ up /\ Go(w, "load") /\ UNCHANGED <<job, text>>
         \/ Finish(w)
  BY DEF Notify
<1>2. CASE Finish(w)
  BY <1>1, <1>2, FinishKeeps, FinishQuiet DEF IInv, Texts, Flags, manager, history
<1>3. CASE up /\ Go(w, "load") /\ UNCHANGED <<job, text>>
  <2>1. "load" \in Places \ {"plan"} /\ "load" \notin Editing
    BY DEF Places, Editing, Reloading
  <2>2. /\ Works' /\ text' \in [Workers -> Text] /\ HandsWhatLoads'
        /\ DownIsQuiet' /\ SoundConfigs'
    BY <1>1, <1>3, <2>1, SameText, GoKeeps
  <2>3. QED BY <1>1, <2>2 DEF IInv, Texts, Flags, manager, history
<1>4. QED BY <1>1, <1>2, <1>3

(* A reload has loaded the file before it hands it over.                    *)
LEMMA LoadKeeps == ASSUME IInv, NEW w \in Workers, Load(w) PROVE IInv'
<1>1. /\ pc[w] \in {"load", "again"}
      /\ UNCHANGED <<file, manager, left, home, overlapped, spoiled>>
  BY DEF Load
<1>2. unread' \in BOOLEAN
  BY DEF Load, IInv, Flags
<1>3. CASE Finish(w)
  BY <1>1, <1>2, <1>3, FinishKeeps, FinishQuiet DEF IInv, Texts, Flags, manager
<1>4. CASE Loads(file) /\ ~Finish(w)
  <2>1. PICK p \in {"ports", "hand"} :
           Go(w, p) /\ text' = [text EXCEPT ![w] = file] /\ UNCHANGED job
    BY <1>4 DEF Load
  <2>2. /\ p \in Places \ {"plan"} /\ p \notin Editing /\ p # "give"
        /\ pc[w] \in Reloading /\ pc[w] # "idle"
    BY <1>1 DEF Places, Editing, Reloading
  <2>3. file \in Text
    BY DEF IInv, Texts
  <2>4. /\ Works' /\ text' \in [Workers -> Text] /\ HandsWhatLoads'
        /\ DownIsQuiet' /\ SoundConfigs'
    BY <1>1, <1>4, <2>1, <2>2, <2>3, GoKeeps
  <2>5. QED BY <1>1, <1>2, <2>4 DEF IInv, Texts, Flags, manager
<1>5. QED BY <1>3, <1>4 DEF Load

(* Assigned ports are set, or a missing board ends the manager.             *)
LEMMA ReadPortsKeeps == ASSUME IInv, NEW w \in Workers, ReadPorts(w) PROVE IInv'
<1>1. pc[w] = "ports" /\ UNCHANGED <<file, left, history>>
  BY DEF ReadPorts
<1>2. ASSUME NEW p \in {"persist", "again"}, Go(w, p), UNCHANGED <<job, manager>>,
             text' = [text EXCEPT ![w] =
                         SetPorts(file, Config(text[w]), Unassigned(text[w]))]
      PROVE  IInv'
  <2>1. /\ p \in Places \ {"plan"} /\ p \notin Editing \cup {"give", "hand"}
        /\ pc[w] \in Reloading /\ pc[w] # "idle"
    BY <1>1 DEF Places, Editing, Reloading
  <2>2. text[w] \in Text /\ file \in Text
    BY DEF IInv, Texts
  <2> DEFINE c == Config(text[w])
  <2>3. c \in Text /\ Unassigned(text[w]) \subseteq Named(c)
    <3>1. /\ c \in Text /\ Len(c) = Len(text[w])
          /\ \A k \in 1..Len(text[w]) : c[k].name = text[w][k].name
      BY <2>2, ConfigBlocks
    <3>2. DOMAIN text[w] = 1..Len(text[w])
      BY <2>2, BlockTypes
    <3> HIDE DEF c
    <3>3. DOMAIN c = 1..Len(c)
      BY <3>1, BlockTypes
    <3>4. QED BY <3>1, <3>2, <3>3 DEF Unassigned, Named
  <2> HIDE DEF c
  <2>4. SetPorts(file, c, Unassigned(text[w])) \in Text
    BY <2>2, <2>3, SetPortsType
  <2>5. text' = [text EXCEPT ![w] = SetPorts(file, c, Unassigned(text[w]))]
    BY <1>2 DEF c
  <2>6. /\ Works' /\ text' \in [Workers -> Text] /\ HandsWhatLoads'
        /\ DownIsQuiet' /\ SoundConfigs'
    BY <1>2, <2>1, <2>4, <2>5, GoKeeps
  <2>7. QED BY <1>1, <1>2, <2>6 DEF IInv, Texts, Flags, manager, history
<1>3. CASE Down
  <2>1. up' \in BOOLEAN
    BY <1>3, DownKeeps
  <2>2. QED BY <1>1, <1>3, <2>1, DownKeeps DEF IInv, Texts, Flags, history
<1>4. CASE Finish(w) /\ UNCHANGED manager
  BY <1>1, <1>4, FinishKeeps, FinishQuiet DEF IInv, Texts, Flags, manager, history
<1>5. QED BY <1>2, <1>3, <1>4 DEF ReadPorts

(* Assigned ports are written.                                              *)
LEMMA PersistKeeps == ASSUME IInv, NEW w \in Workers, Persist(w) PROVE IInv'
<1>1. /\ pc[w] = "persist" /\ file' = text[w] /\ Go(w, "again")
      /\ UNCHANGED <<job, text, manager, left, home, overlapped, unread>>
  BY DEF Persist
<1>2. /\ "again" \in Places \ {"plan"} /\ "again" \notin Editing
      /\ pc[w] \in Reloading /\ pc[w] # "idle"
  BY <1>1 DEF Places, Editing, Reloading
<1>3. /\ Works' /\ text' \in [Workers -> Text] /\ HandsWhatLoads'
      /\ DownIsQuiet' /\ SoundConfigs'
  BY <1>1, <1>2, SameText, GoKeeps
<1>4. file' \in Text
  BY <1>1, SameText
<1>5. spoiled' \in BOOLEAN
  BY DEF Persist, IInv, Flags
<1>6. QED BY <1>1, <1>3, <1>4, <1>5 DEF IInv, Texts, Flags, manager

(* What the watcher and the queue link now read has loaded.                 *)
LEMMA HandKeeps == ASSUME IInv, NEW w \in Workers, Hand(w) PROVE IInv'
<1>1. /\ pc[w] = "hand" /\ current' = Config(text[w]) /\ Remember(current')
      /\ UNCHANGED <<file, pending, left, overlapped, spoiled, unread>>
  BY DEF Hand
<1>2. text[w] \in Text /\ Loads(text[w]) /\ file \in Text
      /\ \A c \in pending : c \in Text
  BY <1>1 DEF IInv, Texts, HandsWhatLoads
<1>3. current' \in Text /\ Sound(current')
  BY <1>1, <1>2, ConfigBlocks, LoadsSound
<1>4. home' \in [Names -> Nat]
  <2>1. \A n \in Named(current') : current'[At(current', n)].port \in Nat
    BY <1>3, AtIsThere, BlockTypes
  <2>2. home \in [Names -> Nat]
    BY DEF IInv, Flags
  <2>3. QED BY <1>1, <2>1, <2>2 DEF Remember
<1>5. {overlapped', spoiled', unread'} \subseteq BOOLEAN
  BY <1>1 DEF IInv, Flags
<1>6. CASE up
  <2>1. Go(w, "give") /\ UNCHANGED <<job, text, up, inForce>>
    BY <1>6 DEF Hand
  <2>2. /\ "give" \in Places \ {"plan"} /\ "give" \notin Editing
    BY DEF Places, Editing, Reloading
  <2>3. Works' /\ text' \in [Workers -> Text] /\ HandsWhatLoads'
    BY <1>1, <1>2, <1>6, <2>1, <2>2, SameText, GoKeeps
  <2>4. DownIsQuiet'
    BY <1>6, <2>1 DEF DownIsQuiet
  <2>5. SoundConfigs'
    BY <1>1, <1>3, <2>1 DEF IInv, SoundConfigs
  <2>6. up' \in BOOLEAN /\ inForce' \in Text
    BY <2>1, <1>6 DEF IInv, Texts
  <2>7. QED BY <1>1, <1>2, <1>3, <1>4, <1>5, <2>3, <2>4, <2>5, <2>6
            DEF IInv, Texts, Flags
<1>7. CASE ~up
  <2>1. Finish(w) /\ up' = TRUE /\ inForce' = current'
    BY <1>7 DEF Hand
  <2>2. Works' /\ text' \in [Workers -> Text] /\ HandsWhatLoads'
    BY <2>1, FinishKeeps
  <2>3. DownIsQuiet'
    BY <2>1 DEF DownIsQuiet
  <2>4. SoundConfigs'
    BY <1>1, <1>3, <2>1 DEF IInv, SoundConfigs
  <2>5. QED BY <1>1, <1>2, <1>3, <1>4, <1>5, <2>1, <2>2, <2>3, <2>4
            DEF IInv, Texts, Flags
<1>8. QED BY <1>6, <1>7

(* What is given to the supervisor has loaded.                              *)
LEMMA GiveKeeps == ASSUME IInv, NEW w \in Workers, Give(w) PROVE IInv'
<1>1. /\ pc[w] = "give" /\ pending' = {Config(text[w])} /\ Finish(w)
      /\ UNCHANGED <<file, up, current, inForce, left, history>>
  BY DEF Give
<1>2. text[w] \in Text /\ Loads(text[w]) /\ up
  BY <1>1 DEF IInv, Texts, HandsWhatLoads, DownIsQuiet
<1>3. Config(text[w]) \in Text /\ Sound(Config(text[w]))
  BY <1>2, ConfigBlocks, LoadsSound
<1>4. Works' /\ text' \in [Workers -> Text] /\ HandsWhatLoads'
  BY <1>1, FinishKeeps
<1>5. DownIsQuiet'
  BY <1>1, <1>2 DEF DownIsQuiet
<1>6. SoundConfigs'
  BY <1>1, <1>3 DEF IInv, SoundConfigs
<1>7. QED BY <1>1, <1>3, <1>4, <1>5, <1>6 DEF IInv, Texts, Flags, history

(* The supervisor takes what was given to it.                               *)
LEMMA AbsorbKeeps == ASSUME IInv, Absorb PROVE IInv'
<1>1. /\ inForce' \in pending /\ pending' = {}
      /\ UNCHANGED <<file, pc, job, text, up, current, left, history>>
  BY DEF Absorb
<1>2. inForce' \in Text /\ Sound(inForce')
  BY <1>1 DEF IInv, Texts, SoundConfigs
<1>3. up
  BY <1>1 DEF IInv, DownIsQuiet
<1>4. Texts' /\ Works' /\ HandsWhatLoads' /\ Flags'
  BY <1>1, <1>2 DEF IInv, Texts, Works, HandsWhatLoads, Flags, history
<1>5. DownIsQuiet' /\ SoundConfigs'
  BY <1>1, <1>2, <1>3 DEF IInv, DownIsQuiet, SoundConfigs
<1>6. QED BY <1>4, <1>5 DEF IInv

(* A crash takes everything down.                                           *)
LEMMA CrashKeeps == ASSUME IInv, Crash PROVE IInv'
<1>1. Down /\ UNCHANGED <<file, history>>
  BY DEF Crash
<1>2. up' \in BOOLEAN
  BY <1>1, DownKeeps
<1>3. QED BY <1>1, <1>2, DownKeeps DEF IInv, Texts, Flags, history

(* A hand edit leaves a text and touches nothing else.                      *)
LEMMA HandEditKeeps == ASSUME IInv, HandEdit PROVE IInv'
<1>1. /\ file \in Text /\ home \in [Names -> Nat]
  BY DEF IInv, Texts, Flags
<1>2. PICK n \in Names :
         /\ \/ \E p \in {0} \cup Wanted :
                 \/ file' = Append(file, [port |-> p, setting |-> Default,
                                          name |-> n])
                 \/ n \in Named(file) /\ file' = SetKeys(file, n, [port |-> p])
            \/ /\ n \in Named(file)
               /\ file' = Edited(file, [op |-> "rm", names |-> <<n>>])
         /\ home' = [home EXCEPT ![n] = 0]
  BY DEF HandEdit
<1>3. file' \in Text
  <2>1. ASSUME NEW p \in {0} \cup Wanted
        PROVE  /\ Append(file, [port |-> p, setting |-> Default, name |-> n]) \in Text
               /\ n \in Named(file) => SetKeys(file, n, [port |-> p]) \in Text
    <3>1. p \in Nat /\ Default \in Settings
      BY RegistryAssumption
    <3>2. [port |-> p, setting |-> Default, name |-> n] \in Block
      BY <3>1 DEF Block
    <3>3. [port |-> p] \in Changes
      BY <3>1, SomeChanges
    <3>4. QED BY <1>1, <3>2, <3>3, SetKeysType DEF Text
  <2>2. ASSUME n \in Named(file)
        PROVE  Edited(file, [op |-> "rm", names |-> <<n>>]) \in Text
    <3> DEFINE j == [op |-> "rm", names |-> <<n>>]
    <3>1. /\ j.op = "rm" /\ j.names = <<n>> /\ j.names \in Seq(Names)
          /\ Len(j.names) = 1 /\ j.names[1] = n
      OBVIOUS
    <3> HIDE DEF j
    <3>2. EditJob(j) /\ Allowed(file, j)
      BY <2>2, <3>1 DEF EditJob, Allowed, Adds
    <3>3. Edited(file, j) \in Text
      BY <1>1, <3>1, <3>2, EditedType
    <3>4. QED BY <3>3 DEF j
  <2>3. QED BY <1>2, <2>1, <2>2
<1>4. home' \in [Names -> Nat]
  BY <1>1, <1>2
<1>5. UNCHANGED <<pc, job, text, manager>>
  BY DEF HandEdit
<1>6. {up', overlapped', spoiled', unread'} \subseteq BOOLEAN
  BY <1>5 DEF HandEdit, IInv, Flags, manager
<1>7. Works' /\ DownIsQuiet' /\ HandsWhatLoads' /\ SoundConfigs'
  BY <1>5 DEF IInv, Works, DownIsQuiet, HandsWhatLoads, SoundConfigs, manager
<1>8. Texts' /\ Flags'
  BY <1>3, <1>4, <1>5, <1>6 DEF IInv, Texts, Flags, manager
<1>9. QED BY <1>7, <1>8 DEF IInv

(* So every step keeps the invariant.                                       *)
LEMMA NextIInv == IInv /\ [Next]_vars => IInv'
<1> SUFFICES ASSUME IInv, [Next]_vars PROVE IInv'
  OBVIOUS
<1>1. CASE UNCHANGED vars
  BY <1>1 DEF vars, history, manager, IInv, Texts, Works, DownIsQuiet,
              HandsWhatLoads, Flags, SoundConfigs
<1>2. CASE \/ \E c \in Clients :
                \/ AskReload(c) \/ AskAdd(c) \/ AskAutostart(c)
                \/ RunAdd(c) \/ RunScan(c) \/ RunRemove(c) \/ RunSet(c)
           \/ Boot \/ Hangup
  BY <1>2, EveryStart, StartKeeps
<1>3. ASSUME NEW w \in Workers, Work(w) PROVE IInv'
  <2>1. CASE Plan(w) \/ Read(w) \/ Write(w) \/ Notify(w)
    BY <2>1, PlanKeeps, ReadKeeps, WriteKeeps, NotifyKeeps
  <2>2. CASE Load(w) \/ ReadPorts(w) \/ Persist(w) \/ Hand(w) \/ Give(w)
    BY <2>2, LoadKeeps, ReadPortsKeeps, PersistKeeps, HandKeeps, GiveKeeps
  <2>3. QED BY <1>3, <2>1, <2>2 DEF Work
<1>4. CASE Absorb \/ Crash \/ HandEdit
  BY <1>4, AbsorbKeeps, CrashKeeps, HandEditKeeps
<1>5. QED BY <1>1, <1>2, <1>3, <1>4 DEF Next

(* Every variable has its type, and nothing of the manager outlives it: no  *)
(* handler, no reload, no configuration that waits.                         *)
THEOREM RegistryTypeCorrect == Spec => []TypeOK
<1>1. IInv => TypeOK
  <2> SUFFICES ASSUME IInv PROVE TypeOK
    OBVIOUS
  <2>1. \A w \in Workers : pc[w] = "idle" <=> job[w] = NoJob
    BY NoJobType DEF IInv, Works
  <2>2. QED BY <2>1 DEF IInv, TypeOK, Texts, Works, DownIsQuiet, Flags
<1>2. QED BY <1>1, InitIInv, NextIInv, PTL DEF Spec

(* Every configuration the manager holds is sound, however many commands,   *)
(* requests, hand edits and crashes there are and however they interleave:  *)
(* names and ports differ and none is the dashboard's.                      *)
THEOREM ConfigsSound == Spec => []SoundConfigs
<1>1. IInv => SoundConfigs
  BY DEF IInv
<1>2. QED BY <1>1, InitIInv, NextIInv, PTL DEF Spec

=============================================================================
