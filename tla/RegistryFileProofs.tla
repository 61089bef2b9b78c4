-------------------------- MODULE RegistryFileProofs -------------------------
(***************************************************************************)
(* Proofs about what Registry does to the file: as long as edits do not    *)
(* overlap and neither the user nor an overflow broke it, the file loads,  *)
(* what is in force is what it says, and ports are sticky.                 *)
(***************************************************************************)
EXTENDS RegistryProofs

(* Texts are the same when their blocks are.                                *)
LEMMA SameBlocks ==
    ASSUME NEW s \in Text, NEW t \in Text, Len(s) = Len(t),
           \A k \in 1..Len(s) : /\ s[k].port = t[k].port
                                /\ s[k].setting = t[k].setting
                                /\ s[k].name = t[k].name
    PROVE  s = t
<1>1. /\ Len(s) \in Nat /\ DOMAIN s = 1..Len(s) /\ DOMAIN t = 1..Len(s)
      /\ \A k \in 1..Len(s) : s[k] \in Block /\ t[k] \in Block
  BY BlockTypes
<1>2. \A x, y \in Block : x.port = y.port /\ x.setting = y.setting /\ x.name = y.name
                             => x = y
  BY DEF Block
<1>3. \A k \in 1..Len(s) : s[k] = t[k]
  BY <1>1, <1>2
<1>4. s \in Seq(Block) /\ t \in Seq(Block)
  BY DEF Text
<1>5. QED BY <1>1, <1>3, <1>4

(* Parsing changes nothing but ports, and leaves no board without one.      *)
LEMMA ConfigFills ==
    ASSUME NEW s \in Text
    PROVE  /\ Config(s) \in Text /\ Len(Config(s)) = Len(s)
           /\ DOMAIN Config(s) = 1..Len(s) /\ DOMAIN s = 1..Len(s)
           /\ Named(Config(s)) = Named(s)
           /\ Unassigned(Config(s)) = {}
<1>1. /\ Config(s) \in Text /\ Len(Config(s)) = Len(s)
      /\ \A k \in 1..Len(s) : Config(s)[k].name = s[k].name /\ Config(s)[k].port # 0
  BY ConfigBlocks
<1>2. DOMAIN Config(s) = 1..Len(s) /\ DOMAIN s = 1..Len(s)
  BY <1>1, BlockTypes
<1>3. QED BY <1>1, <1>2 DEF Named, Unassigned

(* A text whose boards all have ports is its own configuration.             *)
LEMMA ConfigOfFull ==
    ASSUME NEW s \in Text, Unassigned(s) = {}
    PROVE  Config(s) = s
<1>1. DOMAIN s = 1..Len(s)
  BY BlockTypes
<1>2. \A k \in 1..Len(s) : s[k].port # 0
  BY <1>1 DEF Unassigned
<1>3. /\ Config(s) \in Text /\ Len(Config(s)) = Len(s)
      /\ \A k \in 1..Len(s) : /\ Config(s)[k].name = s[k].name
                              /\ Config(s)[k].setting = s[k].setting
                              /\ Config(s)[k].port = s[k].port
  BY <1>2, ConfigBlocks
<1>4. QED BY <1>3, SameBlocks

(* So parsing what parse made changes nothing.                              *)
LEMMA ConfigTwice ==
    ASSUME NEW s \in Text
    PROVE  Config(Config(s)) = Config(s)
BY ConfigFills, ConfigOfFull

(* What loads still loads with the ports parse gave its boards, unless one  *)
(* of them is above the highest port.                                       *)
LEMMA FilledLoads ==
    ASSUME NEW s \in Text, Loads(s), \A k \in 1..Len(s) : Config(s)[k].port <= Top
    PROVE  Loads(Config(s))
<1> DEFINE c == Config(s)
<1>1. /\ c \in Text /\ Len(c) = Len(s) /\ DOMAIN c = 1..Len(s) /\ DOMAIN s = 1..Len(s)
      /\ Config(c) = c /\ Sound(c)
      /\ \A k \in 1..Len(s) : c[k] \in Block /\ c[k].port \in Nat
  <2>1. /\ c \in Text /\ Len(c) = Len(s) /\ DOMAIN c = 1..Len(s) /\ DOMAIN s = 1..Len(s)
        /\ Config(c) = c /\ Sound(c)
    BY ConfigFills, ConfigTwice, LoadsSound
  <2> HIDE DEF c
  <2>2. QED BY <2>1, BlockTypes
<1>2. \A k \in 1..Len(s) :
         /\ c[k].setting = s[k].setting
         /\ s[k].port # 0 => c[k].port = s[k].port
         /\ s[k].port = 0 => c[k].port \notin Unsafe
         /\ c[k].port <= Top
  BY ConfigBlocks
<1> HIDE DEF c
<1>3. \A k \in 1..Len(s) : ValidBlock(c[k])
  <2>1. TAKE k \in 1..Len(s)
  <2>2. s[k].setting \in Modes /\ s[k].port \notin Unsafe
    BY <1>1 DEF Loads, ValidBlock
  <2>3. c[k].port \in 0..Top
    BY <1>1, <1>2, RegistryAssumption
  <2>4. QED BY <2>2, <2>3, <1>2 DEF ValidBlock
<1>4. Server \notin PortsOf(c)
  BY <1>1 DEF Sound, PortsOf
<1>5. QED BY <1>1, <1>3, <1>4 DEF Loads, Sound, c

(* With names that differ, a board has one block.                           *)
LEMMA AtIsIt ==
    ASSUME NEW s \in Text, \A i, j \in DOMAIN s : i # j => s[i].name # s[j].name,
           NEW k \in 1..Len(s)
    PROVE  At(s, s[k].name) = k
<1>1. DOMAIN s = 1..Len(s)
  BY BlockTypes
<1>2. s[k].name \in Named(s)
  BY <1>1 DEF Named
<1>3. At(s, s[k].name) \in 1..Len(s) /\ s[At(s, s[k].name)].name = s[k].name
  BY <1>2, AtIsThere
<1>4. QED BY <1>1, <1>3

(* set_ports with the ports of a configuration gives the configuration, as  *)
(* long as it sets those of the boards that had none.                       *)
LEMMA SetPortsFills ==
    ASSUME NEW s \in Text, \A i, j \in DOMAIN s : i # j => s[i].name # s[j].name,
           NEW boards, Unassigned(s) \subseteq boards
    PROVE  SetPorts(s, Config(s), boards) = Config(s)
<1> DEFINE c == Config(s)
<1> DEFINE t == SetPorts(s, c, boards)
<1>1. /\ c \in Text /\ Len(c) = Len(s) /\ DOMAIN c = 1..Len(s) /\ DOMAIN s = 1..Len(s)
      /\ \A k \in 1..Len(s) : /\ c[k].name = s[k].name /\ c[k].setting = s[k].setting
                              /\ s[k].port # 0 => c[k].port = s[k].port
  BY ConfigFills, ConfigBlocks
<1>2. \A k \in 1..Len(s) : c[k] \in Block /\ s[k] \in Block
  <2> HIDE DEF c
  <2>1. QED BY <1>1, BlockTypes
<1>3. \A k \in 1..Len(s) : At(s, s[k].name) = k
  BY AtIsIt
<1>4. \A k \in 1..Len(s) : At(c, s[k].name) = k
  <2> HIDE DEF c
  <2>1. \A i, j \in DOMAIN c : i # j => c[i].name # c[j].name
    BY <1>1
  <2>2. \A k \in 1..Len(s) : At(c, c[k].name) = k
    BY <1>1, <2>1, AtIsIt
  <2>3. QED BY <2>2, <1>1
<1>5. \A k \in 1..Len(s) : s[k].name \notin boards => s[k].port # 0
  BY <1>1 DEF Unassigned
<1> HIDE DEF c
<1>6. t = [k \in 1..Len(s) |-> IF s[k].name \in boards /\ k = At(s, s[k].name)
                                THEN [s[k] EXCEPT !.port = c[At(c, s[k].name)].port]
                                ELSE s[k]]
  BY <1>1 DEF SetPorts
<1>7. \A k \in 1..Len(s) : t[k] = c[k]
  <2>1. TAKE k \in 1..Len(s)
  <2>2. \A x, y \in Block :
           /\ x.setting = y.setting /\ x.name = y.name => [x EXCEPT !.port = y.port] = y
           /\ x.setting = y.setting /\ x.name = y.name /\ x.port = y.port => x = y
    BY DEF Block
  <2>3. CASE s[k].name \in boards
    <3>1. t[k] = [s[k] EXCEPT !.port = c[k].port]
      BY <2>3, <1>3, <1>4, <1>6
    <3>2. QED BY <3>1, <2>2, <1>1, <1>2
  <2>4. CASE s[k].name \notin boards
    <3>1. t[k] = s[k]
      BY <2>4, <1>6
    <3>2. QED BY <3>1, <2>2, <2>4, <1>1, <1>2, <1>5
  <2>5. QED BY <2>3, <2>4
<1>8. t = c
  <2>1. DOMAIN t = 1..Len(s)
    BY <1>6
  <2>2. t = [k \in 1..Len(s) |-> t[k]]
    BY <1>6
  <2>3. c = [k \in 1..Len(s) |-> c[k]]
    BY <1>1 DEF Text
  <2> HIDE DEF t
  <2>4. QED BY <2>2, <2>3, <1>7
<1>9. QED BY <1>8 DEF t, c

(* The ports that parse gives are free, safe, above every port from         *)
(* port_base on that is in use, and grow down the file: a board never takes *)
(* the port of one that is still registered, nor one in a gap               *)
(* (next_free_port).                                                        *)
THEOREM AssignedPortsGrow ==
    ASSUME NEW s \in Text, NEW k \in 1..Len(s), s[k].port = 0
    PROVE  LET port == Config(s)[k].port IN
           /\ port \notin Taken(s) \cup Unsafe /\ Base <= port
           /\ \A q \in Taken(s) : Base <= q => q < port
           /\ \A j \in 1..(k - 1) : s[j].port = 0 => Config(s)[j].port < port
<1>1. /\ Len(s) \in Nat
      /\ \A j \in 1..(k - 1) : j \in 1..Len(s)
  BY BlockTypes
<1>2. \A j \in 1..(k - 1) : s[j].port = 0 => Base <= Config(s)[j].port
  BY <1>1, ConfigBlocks
<1>3. QED BY <1>2, ConfigBlocks

(* What the manager runs is what it writes: the ports parse gave, written   *)
(* to the boards without one (set_ports), make the file its configuration,  *)
(* which loads again and is assigned nothing else, unless a port came out   *)
(* above the highest.                                                       *)
THEOREM AssignmentIsStable ==
    ASSUME NEW s \in Text, Loads(s)
    PROVE  /\ SetPorts(s, Config(s), Unassigned(s)) = Config(s)
           /\ Config(Config(s)) = Config(s)
           /\ (\A k \in 1..Len(s) : Config(s)[k].port <= Top) => Loads(Config(s))
<1>1. SetPorts(s, Config(s), Unassigned(s)) = Config(s)
  BY SetPortsFills DEF Loads
<1>2. QED BY <1>1, ConfigTwice, FilledLoads

(* The registry tensorwatch starts with, empty or with one board, loads.    *)
LEMMA FirstLoads ==
    /\ Loads(<<>>)
    /\ \A n \in Names : Loads(<<[port |-> 0, setting |-> Default, name |-> n]>>)
<1>1. Loads(<<>>)
  BY DEF Loads, PortsOf
<1>2. ASSUME NEW n \in Names
      PROVE  Loads(<<[port |-> 0, setting |-> Default, name |-> n]>>)
  <2> DEFINE b == [port |-> 0, setting |-> Default, name |-> n]
  <2> DEFINE s == <<b>>
  <2>1. b \in Block /\ b.port = 0 /\ b.setting = Default
    BY RegistryAssumption DEF Block
  <2> HIDE DEF b
  <2>2. s \in Text /\ Len(s) = 1 /\ DOMAIN s = 1..1 /\ s[1] = b
    BY <2>1 DEF Text
  <2> HIDE DEF s
  <2>3. ValidBlock(b)
    BY <2>1, RegistryAssumption DEF ValidBlock
  <2>4. PortsOf(s) = {}
    BY <2>1, <2>2 DEF PortsOf
  <2>5. \A i \in DOMAIN s : Config(s)[i].port # 0
    BY <2>2, ConfigBlocks
  <2>6. \A i \in DOMAIN s : i = 1
    BY <2>2
  <2>7. Loads(s)
    BY <2>2, <2>3, <2>4, <2>5, <2>6 DEF Loads
  <2>8. QED BY <2>7 DEF s, b
<1>3. QED BY <1>1, <1>2

(* Block i of t is one of s.                                                *)
From(s, t, i) == \E k \in 1..Len(s) : s[k] = t[i]

(* The board of t's block i is new, or has the port it has in s.            *)
Kept(s, t, i) ==
    \/ t[i].name \notin Named(s)
    \/ \E k \in 1..Len(s) : s[k].name = t[i].name /\ s[k].port = t[i].port

(* Keys set leave every other block, and the other keys of that one.        *)
LEMMA SetKeysBlocks ==
    ASSUME NEW s \in Text, NEW n \in Named(s), NEW new \in Changes
    PROVE  LET t == SetKeys(s, n, new) a == At(s, n) IN
           /\ t \in Text /\ Len(t) = Len(s)
           /\ a \in 1..Len(s) /\ s[a].name = n
           /\ \A k \in 1..Len(s) : k # a => t[k] = s[k]
           /\ "port" \notin DOMAIN new => t[a].port = s[a].port
           /\ "name" \notin DOMAIN new => t[a].name = n
<1> DEFINE a == At(s, n)
<1> DEFINE t == SetKeys(s, n, new)
<1>1. a \in 1..Len(s) /\ s[a].name = n
  BY AtIsThere
<1>2. t \in Text
  BY SetKeysType
<1>3. /\ Len(s) \in Nat /\ DOMAIN s = 1..Len(s) /\ s[a] \in Block
  BY <1>1, BlockTypes
<1>4. t = [s EXCEPT ![a] = Changed(s[a], new)]
  BY SetKeysType
<1> HIDE DEF a, t
<1>5. DOMAIN t = 1..Len(s) /\ Len(t) = Len(s)
  <2>1. DOMAIN t = 1..Len(t) /\ Len(t) \in Nat
    BY <1>2, BlockTypes
  <2>2. DOMAIN t = DOMAIN s
    BY <1>4
  <2>3. ASSUME NEW m \in Nat, NEW l \in Nat, 1..m = 1..l PROVE m = l
    <3>1. m \in 1..m \/ m = 0
      OBVIOUS
    <3>2. l \in 1..l \/ l = 0
      OBVIOUS
    <3>3. m <= l /\ l <= m
      BY <2>3, <3>1, <3>2
    <3>4. QED BY <3>3
  <2>4. Len(t) = Len(s)
    BY <2>1, <2>2, <2>3, <1>3
  <2>5. QED BY <2>2, <2>4, <1>3
<1>6. \A k \in 1..Len(s) : k # a => t[k] = s[k]
  BY <1>3, <1>4
<1>7. t[a] = Changed(s[a], new)
  BY <1>1, <1>3, <1>4
<1>8. /\ "port" \notin DOMAIN new => t[a].port = s[a].port
      /\ "name" \notin DOMAIN new => t[a].name = n
  BY <1>1, <1>7 DEF Changed
<1>9. QED BY <1>1, <1>2, <1>5, <1>6, <1>8 DEF a, t

(* A block taken out leaves the others.                                     *)
LEMMA RemoveKeeps ==
    ASSUME NEW s \in Text, NEW n \in Named(s), NEW j, ~Adds(j), j.op = "rm",
           j.names[1] = n
    PROVE  LET t == Edited(s, j) IN
           DOMAIN t = 1..(Len(s) - 1) /\ \A i \in DOMAIN t : From(s, t, i)
<1> DEFINE t == Edited(s, j)
<1>1. t = [i \in 1..(Len(s) - 1) |-> s[IF i < At(s, n) THEN i ELSE i + 1]]
  BY DEF Edited
<1>2. At(s, n) \in 1..Len(s) /\ Len(s) \in Nat
  BY AtIsThere, BlockTypes
<1>3. \A i \in 1..(Len(s) - 1) : i \in 1..Len(s) /\ i + 1 \in 1..Len(s)
  BY <1>2
<1>4. \A i \in 1..(Len(s) - 1) : \E k \in 1..Len(s) : t[i] = s[k]
  BY <1>1, <1>3
<1> HIDE DEF t
<1>5. DOMAIN t = 1..(Len(s) - 1)
  BY <1>1
<1>6. QED BY <1>4, <1>5 DEF From, t

(* A block appended leaves the others.                                      *)
LEMMA AppendKeeps ==
    ASSUME NEW s \in Text, NEW t \in Text
    PROVE  /\ DOMAIN (s \o t) = 1..(Len(s) + Len(t))
           /\ \A i \in DOMAIN (s \o t) :
                 IF i <= Len(s) THEN From(s, s \o t, i)
                 ELSE i - Len(s) \in 1..Len(t) /\ (s \o t)[i] = t[i - Len(s)]
<1> DEFINE u == s \o t
<1>1. /\ Len(s) \in Nat /\ Len(t) \in Nat
      /\ DOMAIN u = 1..(Len(s) + Len(t))
      /\ \A i \in 1..Len(s) : u[i] = s[i]
      /\ \A i \in 1..(Len(s) + Len(t)) : i > Len(s) => u[i] = t[i - Len(s)]
  BY DEF Text
<1> HIDE DEF u
<1>2. QED BY <1>1 DEF From, u

(* What an edit does to the others' ports: a board it did not rename, add   *)
(* or move keeps its port.                                                  *)
LEMMA EditedKeeps ==
    ASSUME NEW s \in Text, NEW j, j.names \in Seq(Names), EditJob(j), Allowed(s, j),
           Loads(Edited(s, j)), NEW i \in DOMAIN Edited(s, j)
    PROVE  LET t == Edited(s, j) IN
           \/ Kept(s, t, i)
           \/ Moves(j, t[i].name)
<1> DEFINE t == Edited(s, j)
<1>1. CASE Adds(j)
  <2>1. j.vals \in Seq(Nat) /\ Len(j.vals) = Len(j.names)
    BY <1>1 DEF EditJob, Adds
  <2> DEFINE new == New(j.names, j.vals)
  <2>2. new \in Text /\ Len(new) = Len(j.names)
    BY <2>1, NewType
  <2>3. t = s \o new
    BY <1>1 DEF Edited, Adds
  <2>4. \A k \in 1..Len(j.names) : new[k].name \in Range(j.names)
    BY DEF New, Range
  <2> HIDE DEF new
  <2>5. IF i <= Len(s) THEN From(s, s \o new, i)
        ELSE i - Len(s) \in 1..Len(new) /\ (s \o new)[i] = new[i - Len(s)]
    BY <2>2, <2>3, AppendKeeps
  <2>6. Named(s) \cap Range(j.names) = {}
    BY <1>1 DEF Allowed
  <2> HIDE DEF t
  <2>7. Kept(s, t, i)
    <3>1. CASE i <= Len(s)
      BY <3>1, <2>3, <2>5 DEF From, Kept
    <3>2. CASE ~(i <= Len(s))
      <4>1. t[i].name \in Range(j.names)
        BY <3>2, <2>2, <2>3, <2>4, <2>5
      <4>2. QED BY <4>1, <2>6 DEF Kept
    <3>3. QED BY <3>1, <3>2
  <2>8. QED BY <2>7 DEF t
<1>2. CASE j.op = "rm"
  <2>1. ~Adds(j)
    BY <1>2 DEF Adds
  <2>2. j.names[1] \in Named(s)
    BY <2>1 DEF Allowed
  <2>3. From(s, t, i)
    BY <1>2, <2>1, <2>2, RemoveKeeps
  <2>4. QED BY <2>3 DEF From, Kept
<1>3. CASE j.op = "set"
  <2> DEFINE n == j.names[1]
  <2> DEFINE a == At(s, n)
  <2> DEFINE new == j.vals[1]
  <2>1. ~Adds(j) /\ j.op # "rm" /\ new \in Changes
    BY <1>3 DEF EditJob, Adds
  <2>2. n \in Named(s)
    BY <2>1 DEF Allowed
  <2>3. t = SetKeys(s, n, new)
    BY <2>1 DEF Edited
  <2>4. /\ t \in Text /\ Len(t) = Len(s)
        /\ a \in 1..Len(s) /\ s[a].name = n
        /\ \A k \in 1..Len(s) : k # a => t[k] = s[k]
        /\ "port" \notin DOMAIN new => t[a].port = s[a].port
    BY <2>1, <2>2, <2>3, SetKeysBlocks
  <2>5. DOMAIN t = 1..Len(s) /\ DOMAIN s = 1..Len(s)
    <3> HIDE DEF t
    <3>1. QED BY <2>4, BlockTypes
  <2>6. \A k, l \in DOMAIN t : k # l => t[k].name # t[l].name
    BY DEF Loads
  <2> HIDE DEF t, a, n, new
  <2>7. i \in 1..Len(s)
    BY <2>5 DEF t
  <2>8. CASE i # a
    BY <2>4, <2>7, <2>8 DEF Kept, t
  <2>9. CASE i = a
    <3>1. ASSUME NEW k \in 1..Len(s), s[k].name = t[a].name, k # a PROVE FALSE
      <4>1. t[k].name = t[a].name
        BY <3>1, <2>4
      <4>2. QED BY <4>1, <3>1, <2>4, <2>5, <2>6
    <3>2. \/ t[a].name \notin Named(s)
          \/ s[a].name = t[a].name
      BY <3>1, <2>5 DEF Named
    <3>3. CASE "port" \notin DOMAIN new \/ t[a].name \notin Named(s)
      <4>1. Kept(s, t, a)
        BY <3>2, <3>3, <2>4 DEF Kept
      <4>2. QED BY <4>1, <2>9 DEF t
    <3>4. CASE "port" \in DOMAIN new /\ t[a].name = n
      <4>1. Moves(j, t[a].name)
        BY <1>3, <3>4 DEF Moves, n, new
      <4>2. QED BY <4>1, <2>9 DEF t
    <3>5. QED BY <3>2, <3>3, <3>4, <2>4
  <2>10. QED BY <2>8, <2>9
<1>4. QED BY <1>1, <1>2, <1>3 DEF EditJob

-----------------------------------------------------------------------------
(* The invariant.                                                           *)

(* Who edits while nothing has overlapped is alone, and writes a change of  *)
(* the file as it is.                                                       *)
Alone ==
    ~overlapped =>
        \A w \in Workers : pc[w] \in Editing =>
            /\ \A v \in Workers \ {w} : pc[v] = "idle"
            /\ pc[w] = "write" => text[w] = file

Clean == ~overlapped /\ ~spoiled

(* Where a reload stands, of any number beside each other: all of them give *)
(* the same ports to the same boards, and past the writing of the ports     *)
(* every board of the file has one.                                         *)
Follows(w) ==
    /\ pc[w] = "ports" => /\ Config(text[w]) = Config(file)
                          /\ Unassigned(file) \subseteq Unassigned(text[w])
    /\ pc[w] = "persist" => text[w] = Config(file)
    /\ pc[w] \in {"again", "hand", "give"} => file = Config(file)
    /\ pc[w] \in {"hand", "give"} => text[w] = file
    /\ pc[w] = "give" => current = file
Following == \A w \in Workers : Follows(w)

(* A board that is to keep a port has it in the file.                       *)
Homes == \A i \in DOMAIN file : home[file[i].name] \in {0, file[i].port}

(* Someone will yet hand the file over; else the supervisor has it or is to *)
(* take it.                                                                 *)
Due == \E w \in Workers : pc[w] = "notify" \/ pc[w] \in Reloading
Settled ==
    up /\ ~unread /\ ~Due =>
        /\ current = Config(file)
        /\ \/ pending = {} /\ inForce = Config(file)
           \/ pending = {Config(file)}

Faithful == Loads(file) /\ Following /\ Homes /\ Settled
FInv == IInv /\ Alone /\ (Clean => Faithful)

(* It holds at the start.                                                   *)
LEMMA InitFInv == Init => FInv
<1> SUFFICES ASSUME Init PROVE FInv
  OBVIOUS
<1>1. IInv
  BY InitIInv
<1>2. \A w \in Workers : pc[w] = "idle"
  BY DEF Init
<1>3. Alone
  BY <1>2 DEF Alone, Editing
<1>4. Loads(file)
  BY FirstLoads DEF Init
<1>5. Following
  BY <1>2 DEF Following, Follows
<1>6. Homes
  <2>1. file \in Text /\ home = [n \in Names |-> 0]
    BY <1>1 DEF Init, IInv, Texts
  <2>2. \A i \in DOMAIN file : file[i].name \in Names
    BY <2>1, BlockTypes
  <2>3. QED BY <2>1, <2>2 DEF Homes
<1>7. Settled
  BY DEF Init, Settled
<1>8. QED BY <1>1, <1>3, <1>4, <1>5, <1>6, <1>7 DEF FInv, Faithful

(* What every step of a worker leaves to the others.                        *)
Steps(w) ==
    /\ pc[w] # "idle"
    /\ \A v \in Workers \ {w} : pc'[v] = pc[v] /\ text'[v] = text[v]

(* While nothing has overlapped, a worker's step finds no other editing.    *)
LEMMA StepAlone ==
    ASSUME Alone, NEW w \in Workers, Steps(w), overlapped' = overlapped,
           pc'[w] \in Editing => pc[w] \in Editing,
           pc'[w] = "write" => text'[w] = file'
    PROVE  Alone'
<1>1. SUFFICES ASSUME ~overlapped, NEW v \in Workers, pc'[v] \in Editing
               PROVE  /\ \A u \in Workers \ {v} : pc'[u] = "idle"
                      /\ pc'[v] = "write" => text'[v] = file'
  BY DEF Alone
<1>2. v = w
  <2>1. SUFFICES ASSUME v # w PROVE FALSE
    OBVIOUS
  <2>2. pc[v] \in Editing /\ w \in Workers \ {v}
    BY <1>1, <2>1 DEF Steps
  <2>3. pc[w] = "idle"
    BY <1>1, <2>2 DEF Alone
  <2>4. QED BY <2>3 DEF Steps
<1>3. pc[w] \in Editing
  BY <1>1, <1>2
<1>4. \A u \in Workers \ {w} : pc[u] = "idle" /\ pc'[u] = pc[u]
  BY <1>1, <1>3 DEF Alone, Steps
<1>5. QED BY <1>2, <1>4

(* A step of a worker that touches neither the file nor the manager.        *)
LEMMA StepFaithful ==
    ASSUME Faithful, NEW w \in Workers, Steps(w),
           UNCHANGED <<file, manager, home>>, Follows(w)',
           up /\ ~unread' /\ ~Due' => ~unread /\ ~Due
    PROVE  Faithful'
<1>1. /\ file' = file /\ home' = home /\ up' = up /\ current' = current
      /\ pending' = pending /\ inForce' = inForce
  BY DEF manager
<1>2. ASSUME NEW v \in Workers PROVE Follows(v)'
  <2>1. CASE v = w
    BY <2>1
  <2>2. CASE v # w
    <3>1. pc'[v] = pc[v] /\ text'[v] = text[v]
      BY <2>2 DEF Steps
    <3>2. Follows(v)
      BY DEF Faithful, Following
    <3>3. QED BY <1>1, <3>1, <3>2 DEF Follows
  <2>3. QED BY <2>1, <2>2
<1>3. Following'
  BY <1>2 DEF Following
<1>4. Loads(file)' /\ Homes'
  BY <1>1 DEF Faithful, Homes
<1>5. Settled'
  BY <1>1 DEF Faithful, Settled
<1>6. QED BY <1>3, <1>4, <1>5 DEF Faithful

(* A start keeps the invariant: it overlaps or is alone.                    *)
LEMMA StartKeepsFile ==
    ASSUME FInv, NEW w \in Workers, NEW j \in Jobs,
           NEW p \in {"plan", "read", "load"}, Starts(w, j, p)
    PROVE  FInv'
<1>1. /\ pc[w] = "idle" /\ pc' = [pc EXCEPT ![w] = p]
      /\ overlapped' = (overlapped \/ \E v \in Workers \ {w} :
                            \/ pc[v] \in Editing
                            \/ pc[v] # "idle" /\ p \in Editing)
      /\ UNCHANGED <<file, text, manager, home, spoiled, unread>>
  BY DEF Starts, Begin
<1>2. DOMAIN pc = Workers
  BY DEF FInv, IInv, Works
<1>3. pc'[w] = p /\ \A v \in Workers \ {w} : pc'[v] = pc[v]
  BY <1>1, <1>2
<1>4. Alone'
  BY <1>1, <1>3 DEF Alone, Editing
<1>5. ASSUME Clean' PROVE Faithful'
  <2>1. Faithful
    BY <1>1, <1>5 DEF Clean, FInv
  <2>2. /\ file' = file /\ home' = home /\ up' = up /\ current' = current
        /\ pending' = pending /\ inForce' = inForce /\ text' = text
        /\ unread' = unread
    BY <1>1 DEF manager
  <2>3. ASSUME NEW v \in Workers PROVE Follows(v)'
    <3>1. CASE v = w
      BY <3>1, <1>3 DEF Follows
    <3>2. CASE v # w
      BY <3>2, <1>3, <2>1, <2>2 DEF Follows, Faithful, Following
    <3>3. QED BY <3>1, <3>2
  <2>4. Due => Due'
    BY <1>1, <1>3 DEF Due, Reloading
  <2>5. Settled'
    BY <2>1, <2>2, <2>4 DEF Faithful, Settled
  <2>6. QED BY <2>1, <2>2, <2>3, <2>5 DEF Faithful, Following, Homes
<1>6. IInv'
  BY StartKeeps DEF FInv
<1>7. QED BY <1>4, <1>5, <1>6 DEF FInv

-----------------------------------------------------------------------------
(* Every step keeps it.                                                     *)

(* What a worker that ends leaves to the others.                            *)
LEMMA FinishSteps ==
    ASSUME IInv, NEW w \in Workers, pc[w] # "idle", Finish(w)
    PROVE  Steps(w) /\ pc'[w] = "idle" /\ Follows(w)'
<1>1. /\ pc'[w] = "idle"
      /\ \A v \in Workers : v # w => pc'[v] = pc[v] /\ text'[v] = text[v]
  BY FinishKeeps
<1>2. QED BY <1>1 DEF Steps, Follows

(* What one that goes on leaves.                                            *)
LEMMA GoSteps ==
    ASSUME IInv, NEW w \in Workers, pc[w] # "idle", NEW p, Go(w, p),
           NEW s, text' = [text EXCEPT ![w] = s]
    PROVE  Steps(w) /\ pc'[w] = p /\ text'[w] = s
<1>1. DOMAIN pc = Workers /\ DOMAIN text = Workers
  BY DEF IInv, Works, Texts
<1>2. pc' = [pc EXCEPT ![w] = p]
  BY DEF Go
<1>3. QED BY <1>1, <1>2 DEF Steps

(* While an edit is planned or read, nobody else is at work.                *)
LEMMA EditorAlone ==
    ASSUME Alone, ~overlapped, NEW w \in Workers, pc[w] \in Editing
    PROVE  /\ \A v \in Workers \ {w} : pc[v] = "idle"
           /\ pc[w] = "write" => text[w] = file
           /\ ~Due
<1>1. \A v \in Workers \ {w} : pc[v] = "idle"
  BY DEF Alone
<1>2. pc[w] = "write" => text[w] = file
  BY DEF Alone
<1>3. ~Due
  BY <1>1 DEF Due, Editing, Reloading
<1>4. QED BY <1>1, <1>2, <1>3

(* Planning and reading an edit leave the file and the manager alone.       *)
LEMMA PlanReadKeepFile ==
    ASSUME FInv, NEW w \in Workers, Plan(w) \/ Read(w)
    PROVE  FInv'
<1>1. /\ pc[w] \in {"plan", "read"}
      /\ UNCHANGED <<file, manager, left, history>>
      /\ \/ Finish(w)
         \/ Go(w, "read") /\ text' = text
         \/ Go(w, "write") /\ text' = [text EXCEPT ![w] = file]
  BY DEF Plan, Read
<1>2. IInv /\ IInv'
  BY PlanKeeps, ReadKeeps DEF FInv
<1>3. pc[w] \in Editing /\ pc[w] # "idle"
  BY <1>1 DEF Editing
<1>4. /\ Steps(w) /\ pc'[w] \in {"idle", "read", "write"}
      /\ pc'[w] = "write" => text'[w] = file
      /\ Follows(w)'
  <2>1. CASE Finish(w)
    BY <1>2, <1>3, <2>1, FinishSteps
  <2>2. CASE Go(w, "read") /\ text' = text
    <3>1. text' = [text EXCEPT ![w] = text[w]]
      BY <1>2, <2>2, SameText
    <3>2. Steps(w) /\ pc'[w] = "read" /\ text'[w] = text[w]
      BY <1>2, <1>3, <2>2, <3>1, GoSteps
    <3>3. QED BY <3>2 DEF Follows
  <2>3. CASE Go(w, "write") /\ text' = [text EXCEPT ![w] = file]
    <3>1. Steps(w) /\ pc'[w] = "write" /\ text'[w] = file
      BY <1>2, <1>3, <2>3, GoSteps
    <3>2. QED BY <3>1 DEF Follows
  <2>4. QED BY <1>1, <2>1, <2>2, <2>3
<1>5. Alone'
  BY <1>1, <1>3, <1>4, StepAlone DEF FInv, history
<1>6. ASSUME Clean' PROVE Faithful'
  <2>1. Clean /\ Faithful /\ ~overlapped
    BY <1>1, <1>6 DEF Clean, FInv, history
  <2>2. ~Due
    BY <1>3, <2>1, EditorAlone DEF FInv
  <2>3. QED BY <1>1, <1>4, <2>1, <2>2, StepFaithful DEF history
<1>7. QED BY <1>2, <1>5, <1>6 DEF FInv

(* An edit writes what loads, keeps the ports of the boards it is not about,*)
(* and a reload is due; or it is refused and nothing has changed.           *)
LEMMA WriteKeepsFile == ASSUME FInv, NEW w \in Workers, Write(w) PROVE FInv'
<1>1. /\ pc[w] = "write" /\ pc[w] \in Editing /\ pc[w] # "idle"
      /\ UNCHANGED <<manager, left, overlapped, spoiled, unread>>
  BY DEF Write, Editing
<1>2. IInv /\ IInv'
  BY WriteKeeps DEF FInv
<1> DEFINE j == job[w]
<1> DEFINE t == Edited(text[w], j)
<1>3. \/ Finish(w) /\ UNCHANGED <<file, home>>
      \/ /\ Allowed(text[w], j) /\ Loads(t)
         /\ file' = IF t = text[w] THEN file ELSE t
         /\ home' = [n \in Names |->
                       IF \/ n \notin Named(file') \/ n \notin Named(file)
                          \/ Moves(j, n)
                       THEN 0 ELSE home[n]]
         /\ Go(w, IF j.via = "http" THEN "load" ELSE "notify")
         /\ text' = [text EXCEPT ![w] = text[w]]
  <2>1. text = [text EXCEPT ![w] = text[w]]
    BY <1>2, SameText
  <2>2. QED BY <2>1 DEF Write
<1>4. ASSUME ~overlapped
      PROVE  /\ \A v \in Workers \ {w} : pc[v] = "idle"
             /\ text[w] = file /\ ~Due
  BY <1>1, <1>4, EditorAlone DEF FInv
<1>5. CASE Finish(w) /\ UNCHANGED <<file, home>>
  <2>1. Steps(w) /\ pc'[w] = "idle" /\ Follows(w)'
    BY <1>1, <1>2, <1>5, FinishSteps
  <2>2. Alone'
    BY <1>1, <2>1, StepAlone DEF FInv, Editing
  <2>3. ASSUME Clean' PROVE Faithful'
    <3>1. Clean /\ Faithful /\ ~overlapped
      BY <1>1, <2>3 DEF Clean, FInv
    <3>2. QED BY <1>1, <1>4, <1>5, <2>1, <3>1, StepFaithful
  <2>4. QED BY <1>2, <2>2, <2>3 DEF FInv
<1>6. CASE /\ Allowed(text[w], j) /\ Loads(t)
           /\ file' = IF t = text[w] THEN file ELSE t
           /\ home' = [n \in Names |->
                         IF \/ n \notin Named(file') \/ n \notin Named(file)
                            \/ Moves(j, n)
                         THEN 0 ELSE home[n]]
           /\ Go(w, IF j.via = "http" THEN "load" ELSE "notify")
           /\ text' = [text EXCEPT ![w] = text[w]]
  <2>1. PICK p \in {"load", "notify"} : Go(w, p)
    BY <1>6
  <2>2. Steps(w) /\ pc'[w] = p
    BY <1>1, <1>2, <1>6, <2>1, GoSteps
  <2>3. p \notin Editing /\ p # "write"
    BY DEF Editing
  <2>4. Alone'
    BY <1>1, <2>2, <2>3, StepAlone DEF FInv
  <2>5. ASSUME Clean' PROVE Faithful'
    <3>1. Clean /\ Faithful /\ ~overlapped
      BY <1>1, <2>5 DEF Clean, FInv
    <3>2. /\ \A v \in Workers \ {w} : pc[v] = "idle"
          /\ text[w] = file
      BY <1>4, <3>1
    <3>3. file' = t /\ t = Edited(file, j)
      BY <1>6, <3>2
    <3>4. file \in Text /\ file' \in Text /\ j.names \in Seq(Names) /\ EditJob(j)
      BY <1>1, <1>2 DEF IInv, Texts, Works, Jobs
    <3>5. \A i \in DOMAIN file' : \/ Kept(file, file', i)
                                  \/ Moves(j, file'[i].name)
      <4> HIDE DEF j
      <4>1. Allowed(file, j) /\ Loads(Edited(file, j))
        BY <1>6, <3>2
      <4>2. QED BY <3>3, <3>4, <4>1, EditedKeeps
    <3> HIDE DEF t, j
    <3>6. Loads(file)'
      BY <1>6, <3>3
    <3>7. Following'
      <4>1. ASSUME NEW v \in Workers PROVE pc'[v] \in {"idle", "load", "notify"}
        BY <2>2, <3>2 DEF Steps
      <4>2. QED BY <4>1 DEF Following, Follows
    <3>8. Homes'
      <4>1. SUFFICES ASSUME NEW i \in DOMAIN file'
                     PROVE  home'[file'[i].name] \in {0, file'[i].port}
        BY DEF Homes
      <4> DEFINE n == file'[i].name
      <4>2. n \in Names
        BY <3>4, BlockTypes
      <4>3. home'[n] = IF \/ n \notin Named(file') \/ n \notin Named(file)
                          \/ Moves(j, n)
                       THEN 0 ELSE home[n]
        <5> HIDE DEF n
        <5>1. QED BY <1>6, <4>2
      <4>4. ASSUME n \notin Named(file) \/ Moves(j, n)
            PROVE  home'[n] \in {0, file'[i].port}
        <5> HIDE DEF n
        <5>1. home'[n] = 0
          BY <4>3, <4>4
        <5>2. QED BY <5>1
      <4>5. ASSUME NEW k \in 1..Len(file), file[k].name = n, file[k].port = file'[i].port
            PROVE  home'[n] \in {0, file'[i].port}
        <5>1. k \in DOMAIN file
          BY <3>4, BlockTypes
        <5>2. home[n] \in {0, file[k].port}
          BY <3>1, <4>5, <5>1 DEF Faithful, Homes
        <5> HIDE DEF n
        <5>3. QED BY <4>3, <4>5, <5>2
      <4>6. \/ n \notin Named(file)
            \/ \E k \in 1..Len(file) : file[k].name = n /\ file[k].port = file'[i].port
            \/ Moves(j, n)
        BY <3>5 DEF Kept
      <4> HIDE DEF n
      <4>7. home'[n] \in {0, file'[i].port}
        BY <4>4, <4>5, <4>6
      <4>8. QED BY <4>7 DEF n
    <3>9. Settled'
      <4>1. Due'
        BY <2>2 DEF Due, Reloading
      <4>2. QED BY <4>1 DEF Settled
    <3>10. QED BY <3>6, <3>7, <3>8, <3>9 DEF Faithful
  <2>6. QED BY <1>2, <2>4, <2>5 DEF FInv
<1>7. QED BY <1>3, <1>5, <1>6

(* A command asks for a reload: while the manager answers, nothing that     *)
(* loads is left without one.                                               *)
LEMMA NotifyKeepsFile == ASSUME FInv, NEW w \in Workers, Notify(w) PROVE FInv'
<1>1. /\ pc[w] = "notify" /\ pc[w] # "idle"
      /\ UNCHANGED <<file, manager, left, history>>
      /\ \/ Go(w, "load") /\ text' = text
         \/ Finish(w) /\ ~(up /\ (job[w].op = "add" => Loads(file)))
  BY DEF Notify
<1>2. IInv /\ IInv'
  BY NotifyKeeps DEF FInv
<1>3. /\ Steps(w) /\ pc'[w] \in {"idle", "load"} /\ Follows(w)'
      /\ up /\ Loads(file) => pc'[w] = "load"
  <2>1. CASE Finish(w) /\ ~(up /\ (job[w].op = "add" => Loads(file)))
    BY <1>1, <1>2, <2>1, FinishSteps
  <2>2. CASE Go(w, "load") /\ text' = text
    <3>1. text' = [text EXCEPT ![w] = text[w]]
      BY <1>2, <2>2, SameText
    <3>2. Steps(w) /\ pc'[w] = "load"
      BY <1>1, <1>2, <2>2, <3>1, GoSteps
    <3>3. QED BY <3>2 DEF Follows
  <2>3. QED BY <1>1, <2>1, <2>2
<1>4. Alone'
  BY <1>1, <1>3, StepAlone DEF FInv, history, Editing
<1>5. ASSUME Clean' PROVE Faithful'
  <2>1. Clean /\ Faithful
    BY <1>1, <1>5 DEF Clean, FInv, history
  <2>2. up => Due'
    BY <1>3, <2>1 DEF Faithful, Due, Reloading
  <2>3. QED BY <1>1, <1>3, <2>1, <2>2, StepFaithful DEF history
<1>6. QED BY <1>2, <1>4, <1>5 DEF FInv

(* The file is loaded, and will be handed over.                             *)
LEMMA LoadKeepsFile == ASSUME FInv, NEW w \in Workers, Load(w) PROVE FInv'
<1>1. /\ pc[w] \in {"load", "again"} /\ pc[w] # "idle"
      /\ UNCHANGED <<file, manager, left, home, overlapped, spoiled>>
      /\ IF Loads(file)
         THEN /\ text' = [text EXCEPT ![w] = file]
              /\ Go(w, IF pc[w] = "load" /\ Unassigned(file) # {}
                       THEN "ports" ELSE "hand")
         ELSE Finish(w)
  BY DEF Load
<1>2. IInv /\ IInv'
  BY LoadKeeps DEF FInv
<1>3. CASE Loads(file)
  <2> DEFINE p == IF pc[w] = "load" /\ Unassigned(file) # {} THEN "ports" ELSE "hand"
  <2>1. Steps(w) /\ pc'[w] = p /\ text'[w] = file
    BY <1>1, <1>2, <1>3, GoSteps
  <2>2. Alone'
    BY <1>1, <2>1, StepAlone DEF FInv, Editing
  <2>3. ASSUME Clean' PROVE Faithful'
    <3>1. Clean /\ Faithful
      BY <1>1, <2>3 DEF Clean, FInv
    <3>2. p = "hand" => file = Config(file)
      <4>1. CASE pc[w] = "again"
        BY <3>1, <4>1 DEF Faithful, Following, Follows
      <4>2. CASE pc[w] = "load" /\ Unassigned(file) = {}
        <5>1. file \in Text
          BY <1>2 DEF IInv, Texts
        <5>2. QED BY <4>2, <5>1, ConfigOfFull
      <4>3. QED BY <1>1, <4>1, <4>2
    <3>3. Follows(w)'
      BY <1>1, <2>1, <3>2 DEF Follows
    <3>4. Due'
      BY <2>1 DEF Due, Reloading
    <3>5. QED BY <1>1, <2>1, <3>1, <3>3, <3>4, StepFaithful
  <2>4. QED BY <1>2, <2>2, <2>3 DEF FInv
<1>4. CASE ~Loads(file)
  <2>1. Steps(w) /\ pc'[w] = "idle" /\ Follows(w)'
    BY <1>1, <1>2, <1>4, FinishSteps
  <2>2. Alone'
    BY <1>1, <2>1, StepAlone DEF FInv, Editing
  <2>3. ~Clean'
    BY <1>1, <1>4 DEF Clean, FInv, Faithful
  <2>4. QED BY <1>2, <2>2, <2>3 DEF FInv
<1>5. QED BY <1>3, <1>4

(* When the manager goes, nobody is left who reloads.                       *)
LEMMA DownKeepsFile ==
    ASSUME FInv, IInv', Down, UNCHANGED <<file, history>>
    PROVE  FInv'
<1> DEFINE ends == {w \in Workers : job[w].via # "cli" \/ pc[w] \in Reloading}
<1>1. /\ up' = FALSE
      /\ pc' = [w \in Workers |-> IF w \in ends THEN "idle" ELSE pc[w]]
      /\ text' = [w \in Workers |-> IF w \in ends THEN <<>> ELSE text[w]]
      /\ file' = file /\ home' = home
      /\ overlapped' = overlapped /\ spoiled' = spoiled
  BY DEF Down, history
<1>2. \A w \in Workers :
         \/ pc'[w] = "idle"
         \/ pc'[w] = pc[w] /\ text'[w] = text[w] /\ pc'[w] \notin Reloading
  BY <1>1
<1> HIDE DEF ends
<1>3. Alone'
  BY <1>1, <1>2 DEF FInv, Alone, Editing
<1>4. ASSUME Clean' PROVE Faithful'
  <2>1. Faithful
    BY <1>1, <1>4 DEF Clean, FInv
  <2>2. Following'
    BY <1>2 DEF Following, Follows, Reloading
  <2>3. Settled'
    BY <1>1 DEF Settled
  <2>4. QED BY <1>1, <2>1, <2>2, <2>3 DEF Faithful, Homes
<1>5. QED BY <1>3, <1>4 DEF FInv

(* Ports are set in the file that was loaded, whoever has set them since.   *)
LEMMA ReadPortsKeepsFile == ASSUME FInv, NEW w \in Workers, ReadPorts(w) PROVE FInv'
<1>1. pc[w] = "ports" /\ pc[w] # "idle" /\ UNCHANGED <<file, left, history>>
  BY DEF ReadPorts
<1>2. IInv /\ IInv'
  BY ReadPortsKeeps DEF FInv
<1> DEFINE t == SetPorts(file, Config(text[w]), Unassigned(text[w]))
<1>3. \/ /\ text' = [text EXCEPT ![w] = t]
         /\ Go(w, IF text'[w] = file THEN "again" ELSE "persist")
         /\ UNCHANGED manager
      \/ /\ ~(Unassigned(text[w]) \subseteq Named(file))
         /\ Finish(w) /\ UNCHANGED manager
      \/ Down
  BY DEF ReadPorts
<1>4. CASE Down
  BY <1>1, <1>2, <1>4, DownKeepsFile
<1>5. file \in Text /\ text[w] \in Text
  BY <1>2 DEF IInv, Texts
<1>6. CASE /\ ~(Unassigned(text[w]) \subseteq Named(file))
           /\ Finish(w) /\ UNCHANGED manager
  <2>1. Steps(w) /\ pc'[w] = "idle" /\ Follows(w)'
    BY <1>1, <1>2, <1>6, FinishSteps
  <2>2. Alone'
    BY <1>1, <2>1, StepAlone DEF FInv, Editing, history
  <2>3. ~Clean'
    <3>1. SUFFICES ASSUME Clean PROVE FALSE
      BY <1>1 DEF Clean, history
    <3>2. Config(text[w]) = Config(file)
      BY <1>1, <3>1 DEF FInv, Faithful, Following, Follows
    <3>3. Named(text[w]) = Named(file)
      BY <3>2, <1>5, ConfigFills
    <3>4. Unassigned(text[w]) \subseteq Named(text[w])
      BY DEF Unassigned, Named
    <3>5. QED BY <3>3, <3>4, <1>6
  <2>4. QED BY <1>2, <2>2, <2>3 DEF FInv
<1>7. CASE /\ text' = [text EXCEPT ![w] = t]
           /\ Go(w, IF text'[w] = file THEN "again" ELSE "persist")
           /\ UNCHANGED manager
  <2> DEFINE p == IF text'[w] = file THEN "again" ELSE "persist"
  <2>1. /\ Steps(w) /\ pc'[w] = p /\ text'[w] = t
        /\ p \in {"again", "persist"} /\ (p = "again" => t = file)
    <3>1. p \in {"again", "persist"}
      OBVIOUS
    <3>2. Go(w, p)
      BY <1>7
    <3> HIDE DEF p
    <3>3. Steps(w) /\ pc'[w] = p /\ text'[w] = t
      BY <1>1, <1>2, <1>7, <3>1, <3>2, GoSteps
    <3>4. QED BY <3>1, <3>3 DEF p
  <2> HIDE DEF p
  <2>2. Alone'
    BY <1>1, <2>1, StepAlone DEF FInv, Editing, history
  <2>3. ASSUME Clean' PROVE Faithful'
    <3>1. Clean /\ Faithful
      BY <1>1, <2>3 DEF Clean, FInv, history
    <3>2. /\ Config(text[w]) = Config(file)
          /\ Unassigned(file) \subseteq Unassigned(text[w])
      BY <1>1, <3>1 DEF Faithful, Following, Follows
    <3>3. \A i, k \in DOMAIN file : i # k => file[i].name # file[k].name
      BY <3>1 DEF Faithful, Loads
    <3>4. t = Config(file)
      BY <1>5, <3>2, <3>3, SetPortsFills
    <3> HIDE DEF t
    <3>5. Follows(w)'
      BY <1>1, <2>1, <3>4 DEF Follows
    <3>6. Due'
      BY <2>1 DEF Due, Reloading
    <3>7. QED BY <1>1, <1>7, <2>1, <3>1, <3>5, <3>6, StepFaithful DEF history
  <2>4. QED BY <1>2, <2>2, <2>3 DEF FInv
<1>8. QED BY <1>3, <1>4, <1>6, <1>7

(* The file gets the ports that parse gave its boards, and still loads.     *)
LEMMA PersistKeepsFile == ASSUME FInv, NEW w \in Workers, Persist(w) PROVE FInv'
<1>1. /\ pc[w] = "persist" /\ pc[w] # "idle" /\ file' = text[w] /\ Go(w, "again")
      /\ spoiled' = (spoiled \/ \E i \in DOMAIN file' : file'[i].port > Top)
      /\ UNCHANGED <<job, text, manager, left, home, overlapped, unread>>
  BY DEF Persist
<1>2. IInv /\ IInv'
  BY PersistKeeps DEF FInv
<1>3. file \in Text /\ file' \in Text
  BY <1>2 DEF IInv, Texts
<1>4. text' = [text EXCEPT ![w] = text[w]]
  BY <1>1, <1>2, SameText
<1>5. Steps(w) /\ pc'[w] = "again"
  BY <1>1, <1>2, <1>4, GoSteps
<1>6. Alone'
  BY <1>1, <1>5, StepAlone DEF FInv, Editing
<1>7. ASSUME Clean' PROVE Faithful'
  <2>1. Clean /\ Faithful
    BY <1>1, <1>7 DEF Clean, FInv
  <2>2. file' = Config(file)
    BY <1>1, <2>1 DEF Faithful, Following, Follows
  <2>3. /\ Config(file') = file' /\ Unassigned(file') = {}
        /\ DOMAIN file' = 1..Len(file) /\ DOMAIN file = 1..Len(file)
    BY <1>3, <2>2, ConfigFills, ConfigTwice
  <2>4. Loads(file)'
    <3>1. \A k \in 1..Len(file) : file'[k].port <= Top
      <4>1. TAKE k \in 1..Len(file)
      <4>2. ~(file'[k].port > Top)
        BY <1>1, <1>7, <2>3 DEF Clean
      <4>3. file'[k].port \in Nat /\ Top \in Nat
        BY <1>3, <2>3, BlockTypes, RegistryAssumption
      <4>4. QED BY <4>2, <4>3
    <3>2. Loads(Config(file))
      BY <1>3, <2>1, <2>2, <3>1, FilledLoads DEF Faithful
    <3>3. QED BY <2>2, <3>2
  <2>5. ASSUME NEW v \in Workers PROVE Follows(v)'
    <3>1. text' = text /\ current' = current
      BY <1>1 DEF manager
    <3>2. CASE v = w
      <4>1. pc'[v] = "again"
        BY <1>5, <3>2
      <4>2. QED BY <4>1, <2>3 DEF Follows
    <3>3. CASE v # w
      <4>1. pc'[v] = pc[v] /\ Follows(v)
        BY <1>5, <2>1, <3>3 DEF Steps, Faithful, Following
      <4>2. pc[v] \in {"again", "hand", "give"} => file' = file
        BY <2>2, <4>1 DEF Follows
      <4>3. QED BY <2>2, <2>3, <3>1, <4>1, <4>2 DEF Follows
    <3>4. QED BY <3>2, <3>3
  <2>6. Homes'
    <3>1. SUFFICES ASSUME NEW i \in 1..Len(file)
                   PROVE  home'[file'[i].name] \in {0, file'[i].port}
      BY <2>3 DEF Homes
    <3>2. /\ file'[i].name = file[i].name
          /\ file[i].port # 0 => file'[i].port = file[i].port
      BY <1>3, <2>2, ConfigBlocks
    <3>3. home[file[i].name] \in {0, file[i].port}
      BY <2>1, <2>3 DEF Faithful, Homes
    <3>4. QED BY <1>1, <3>2, <3>3
  <2>7. Settled'
    <3>1. Due'
      BY <1>5 DEF Due, Reloading
    <3>2. QED BY <3>1 DEF Settled
  <2>8. QED BY <2>4, <2>5, <2>6, <2>7 DEF Faithful, Following
<1>8. QED BY <1>2, <1>6, <1>7 DEF FInv

(* What is handed over is the file, with the ports that are remembered.     *)
LEMMA HandsTheFile ==
    ASSUME FInv, Clean, NEW w \in Workers, Hand(w)
    PROVE  /\ current' = file /\ file = Config(file)
           /\ \A i \in DOMAIN file : home'[file[i].name] = file[i].port
<1>1. pc[w] = "hand" /\ current' = Config(text[w]) /\ Remember(current')
  BY DEF Hand
<1>2. text[w] = file /\ file = Config(file) /\ file \in Text
  BY <1>1 DEF FInv, Faithful, Following, Follows, IInv, Texts
<1>3. current' = file
  BY <1>1, <1>2
<1>4. ASSUME NEW i \in DOMAIN file PROVE home'[file[i].name] = file[i].port
  <2>1. DOMAIN file = 1..Len(file) /\ file[i].name \in Names
    BY <1>2, BlockTypes
  <2>2. \A k, l \in DOMAIN file : k # l => file[k].name # file[l].name
    BY DEF FInv, Faithful, Loads
  <2>3. At(file, file[i].name) = i
    BY <1>2, <2>1, <2>2, AtIsIt
  <2>4. file[i].name \in Named(file)
    BY DEF Named
  <2>5. home' = [n \in Names |-> IF n \in Named(file) THEN file[At(file, n)].port
                                  ELSE home[n]]
    BY <1>1, <1>3 DEF Remember
  <2>6. QED BY <2>1, <2>3, <2>4, <2>5
<1>5. QED BY <1>2, <1>3, <1>4

(* A manager that boots is settled with it; one that runs is to be given it.*)
LEMMA HandKeepsFile == ASSUME FInv, NEW w \in Workers, Hand(w) PROVE FInv'
<1>1. /\ pc[w] = "hand" /\ pc[w] # "idle"
      /\ UNCHANGED <<file, pending, left, overlapped, spoiled, unread>>
      /\ IF up THEN Go(w, "give") /\ text' = text
         ELSE Finish(w) /\ up' = TRUE /\ inForce' = current'
  BY DEF Hand
<1>2. IInv /\ IInv'
  BY HandKeeps DEF FInv
<1>3. Steps(w) /\ pc'[w] = IF up THEN "give" ELSE "idle"
  <2>1. CASE up
    <3>1. text' = [text EXCEPT ![w] = text[w]]
      BY <1>1, <1>2, <2>1, SameText
    <3>2. QED BY <1>1, <1>2, <2>1, <3>1, GoSteps
  <2>2. CASE ~up
    BY <1>1, <1>2, <2>2, FinishSteps
  <2>3. QED BY <2>1, <2>2
<1>4. Alone'
  BY <1>1, <1>3, StepAlone DEF FInv, Editing
<1>5. ASSUME Clean' PROVE Faithful'
  <2>1. Clean /\ Faithful
    BY <1>1, <1>5 DEF Clean, FInv
  <2>2. /\ current' = file /\ file = Config(file) /\ file' = file
        /\ \A i \in DOMAIN file : home'[file[i].name] = file[i].port
    BY <1>1, <2>1, HandsTheFile
  <2>3. ASSUME NEW v \in Workers PROVE Follows(v)'
    <3>1. CASE v = w /\ up
      <4>1. pc'[v] = "give" /\ text'[v] = text[v]
        BY <1>1, <1>3, <3>1
      <4>2. text[v] = file
        BY <1>1, <2>1, <3>1 DEF Faithful, Following, Follows
      <4>3. QED BY <2>2, <4>1, <4>2 DEF Follows
    <3>2. CASE v = w /\ ~up
      BY <1>3, <3>2 DEF Follows
    <3>3. CASE v # w
      <4>1. pc'[v] = pc[v] /\ text'[v] = text[v] /\ Follows(v)
        BY <1>3, <2>1, <3>3 DEF Steps, Faithful, Following
      <4>2. QED BY <2>2, <4>1 DEF Follows
    <3>4. QED BY <3>1, <3>2, <3>3
  <2>4. Homes'
    BY <2>2 DEF Homes
  <2>5. Settled'
    <3>1. CASE up
      <4>1. Due'
        BY <1>3, <3>1 DEF Due, Reloading
      <4>2. QED BY <4>1 DEF Settled
    <3>2. CASE ~up
      <4>1. pending' = {} /\ inForce' = current'
        BY <1>1, <1>2, <3>2 DEF IInv, DownIsQuiet
      <4>2. QED BY <2>2, <4>1 DEF Settled
    <3>3. QED BY <3>1, <3>2
  <2>6. QED BY <2>1, <2>2, <2>3, <2>4, <2>5 DEF Faithful, Following
<1>6. QED BY <1>2, <1>4, <1>5 DEF FInv

(* What is given to the supervisor is what the file says.                   *)
LEMMA GiveKeepsFile == ASSUME FInv, NEW w \in Workers, Give(w) PROVE FInv'
<1>1. /\ pc[w] = "give" /\ pc[w] # "idle" /\ pending' = {Config(text[w])} /\ Finish(w)
      /\ UNCHANGED <<file, up, current, inForce, left, history>>
  BY DEF Give
<1>2. IInv /\ IInv'
  BY GiveKeeps DEF FInv
<1>3. Steps(w) /\ pc'[w] = "idle"
  BY <1>1, <1>2, FinishSteps
<1>4. Alone'
  BY <1>1, <1>3, StepAlone DEF FInv, Editing, history
<1>5. ASSUME Clean' PROVE Faithful'
  <2>1. Clean /\ Faithful
    BY <1>1, <1>5 DEF Clean, FInv, history
  <2>2. /\ text[w] = file /\ file = Config(file) /\ current = file
    BY <1>1, <2>1 DEF Faithful, Following, Follows
  <2>3. file' = file /\ current' = current /\ home' = home
    BY <1>1 DEF history
  <2>4. ASSUME NEW v \in Workers PROVE Follows(v)'
    <3>1. CASE v = w
      BY <1>3, <3>1 DEF Follows
    <3>2. CASE v # w
      <4>1. pc'[v] = pc[v] /\ text'[v] = text[v] /\ Follows(v)
        BY <1>3, <2>1, <3>2 DEF Steps, Faithful, Following
      <4>2. QED BY <2>3, <4>1 DEF Follows
    <3>3. QED BY <3>1, <3>2
  <2>5. Settled'
    BY <1>1, <2>2, <2>3 DEF Settled
  <2>6. QED BY <2>1, <2>3, <2>4, <2>5 DEF Faithful, Following, Homes
<1>6. QED BY <1>2, <1>4, <1>5 DEF FInv

(* The supervisor has then what the file says.                              *)
LEMMA AbsorbKeepsFile == ASSUME FInv, Absorb PROVE FInv'
<1>1. /\ inForce' \in pending /\ pending' = {}
      /\ UNCHANGED <<file, pc, job, text, up, current, left, history>>
  BY DEF Absorb
<1>2. IInv'
  BY AbsorbKeeps DEF FInv
<1>3. Alone'
  BY <1>1 DEF FInv, Alone, history
<1>4. ASSUME Clean' PROVE Faithful'
  <2>1. Faithful
    BY <1>1, <1>4 DEF Clean, FInv, history
  <2>2. Following' /\ Homes' /\ (Due' <=> Due)
    BY <1>1, <2>1 DEF Faithful, Following, Follows, Homes, Due, history
  <2>3. Settled'
    BY <1>1, <2>1, <2>2 DEF Faithful, Settled, history
  <2>4. QED BY <1>1, <2>1, <2>2, <2>3 DEF Faithful
<1>5. QED BY <1>2, <1>3, <1>4 DEF FInv

(* A hand edit of one board leaves the blocks of the others.                *)
LEMMA HandEditBlocks ==
    ASSUME IInv, NEW n \in Names,
           \/ \E p \in {0} \cup Wanted :
                \/ file' = Append(file, [port |-> p, setting |-> Default, name |-> n])
                \/ n \in Named(file) /\ file' = SetKeys(file, n, [port |-> p])
           \/ n \in Named(file) /\ file' = Edited(file, [op |-> "rm", names |-> <<n>>])
    PROVE  \A i \in DOMAIN file' : file'[i].name = n \/ From(file, file', i)
<1>1. file \in Text /\ DOMAIN file = 1..Len(file)
  BY BlockTypes DEF IInv, Texts
<1>2. ASSUME NEW p \in {0} \cup Wanted,
             file' = Append(file, [port |-> p, setting |-> Default, name |-> n])
      PROVE  \A i \in DOMAIN file' : file'[i].name = n \/ From(file, file', i)
  <2> DEFINE b == [port |-> p, setting |-> Default, name |-> n]
  <2>1. b \in Block /\ b.name = n
    BY RegistryAssumption DEF Block
  <2> HIDE DEF b
  <2>2. <<b>> \in Text /\ Len(<<b>>) = 1 /\ <<b>>[1] = b
    BY <2>1 DEF Text
  <2>3. file' = file \o <<b>>
    BY <1>1, <1>2, <2>1 DEF Text, b
  <2>4. ASSUME NEW i \in DOMAIN file' PROVE file'[i].name = n \/ From(file, file', i)
    <3>1. IF i <= Len(file) THEN From(file, file \o <<b>>, i)
          ELSE /\ i - Len(file) \in 1..Len(<<b>>)
               /\ (file \o <<b>>)[i] = <<b>>[i - Len(file)]
      BY <1>1, <2>2, <2>3, AppendKeeps
    <3>2. CASE i <= Len(file)
      BY <3>1, <3>2, <2>3
    <3>3. CASE ~(i <= Len(file))
      <4>1. i - Len(file) = 1
        BY <3>1, <3>3, <2>2
      <4>2. file'[i] = b
        BY <3>1, <3>3, <4>1, <2>2, <2>3
      <4>3. QED BY <4>2, <2>1
    <3>4. QED BY <3>2, <3>3
  <2>5. QED BY <2>4
<1>3. ASSUME NEW p \in {0} \cup Wanted, n \in Named(file),
             file' = SetKeys(file, n, [port |-> p])
      PROVE  \A i \in DOMAIN file' : file'[i].name = n \/ From(file, file', i)
  <2> DEFINE new == [port |-> p]
  <2>1. new \in Changes /\ "name" \notin DOMAIN new
    BY RegistryAssumption, SomeChanges
  <2> HIDE DEF new
  <2> DEFINE a == At(file, n)
  <2>2. /\ file' \in Text /\ Len(file') = Len(file)
        /\ \A k \in 1..Len(file) : k # a => file'[k] = file[k]
        /\ file'[a].name = n
    BY <1>1, <1>3, <2>1, SetKeysBlocks DEF new
  <2>3. DOMAIN file' = 1..Len(file)
    BY <2>2, BlockTypes
  <2> HIDE DEF a
  <2>4. QED BY <2>2, <2>3 DEF From
<1>4. ASSUME n \in Named(file),
             file' = Edited(file, [op |-> "rm", names |-> <<n>>])
      PROVE  \A i \in DOMAIN file' : file'[i].name = n \/ From(file, file', i)
  <2> DEFINE j == [op |-> "rm", names |-> <<n>>]
  <2>1. ~Adds(j) /\ j.op = "rm" /\ j.names[1] = n
    BY DEF Adds
  <2>2. file' = Edited(file, j)
    BY <1>4
  <2> HIDE DEF j
  <2>3. QED BY <1>1, <1>4, <2>1, <2>2, RemoveKeeps
<1>5. QED BY <1>2, <1>3, <1>4

(* A hand edit overlaps, or breaks the file, or waits to be read.           *)
LEMMA HandEditKeepsFile == ASSUME FInv, HandEdit PROVE FInv'
<1>1. /\ unread' = TRUE /\ spoiled' = (spoiled \/ ~Loads(file'))
      /\ overlapped' = (overlapped \/ \E w \in Workers : pc[w] # "idle")
      /\ UNCHANGED <<pc, job, text, manager>>
  BY DEF HandEdit
<1>2. IInv /\ IInv'
  BY HandEditKeeps DEF FInv
<1>3. Alone'
  BY <1>1 DEF Alone, Editing
<1>4. ASSUME Clean' PROVE Faithful'
  <2>1. Clean /\ Faithful /\ \A w \in Workers : pc'[w] = "idle"
    BY <1>1, <1>4 DEF Clean, FInv
  <2>2. PICK n \in Names :
          /\ \A i \in DOMAIN file' : file'[i].name = n \/ From(file, file', i)
          /\ home' = [home EXCEPT ![n] = 0]
    BY <1>2, HandEditBlocks DEF HandEdit
  <2>3. /\ file \in Text /\ file' \in Text /\ home \in [Names -> Nat]
        /\ DOMAIN file = 1..Len(file)
    BY <1>2, BlockTypes DEF IInv, Texts, Flags
  <2>4. Homes'
    <3>1. SUFFICES ASSUME NEW i \in DOMAIN file'
                   PROVE  home'[file'[i].name] \in {0, file'[i].port}
      BY DEF Homes
    <3>2. file'[i].name \in Names
      BY <2>3, BlockTypes
    <3>3. CASE file'[i].name = n
      BY <2>2, <2>3, <3>2, <3>3
    <3>4. CASE file'[i].name # n
      <4>1. PICK k \in 1..Len(file) : file[k] = file'[i]
        BY <2>2, <3>4 DEF From
      <4>2. home[file[k].name] \in {0, file[k].port}
        BY <2>1, <2>3 DEF Faithful, Homes
      <4>3. QED BY <2>2, <2>3, <3>2, <3>4, <4>1, <4>2
    <3>5. QED BY <3>3, <3>4
  <2>5. Following' /\ Settled' /\ Loads(file)'
    BY <1>1, <1>4, <2>1 DEF Following, Follows, Settled, Clean
  <2>6. QED BY <2>4, <2>5 DEF Faithful
<1>5. QED BY <1>2, <1>3, <1>4 DEF FInv

(* So every step keeps the invariant.                                       *)
LEMMA NextFInv == FInv /\ [Next]_vars => FInv'
<1> SUFFICES ASSUME FInv, [Next]_vars PROVE FInv'
  OBVIOUS
<1>1. IInv /\ IInv'
  BY NextIInv DEF FInv
<1>2. CASE UNCHANGED vars
  BY <1>1, <1>2 DEF vars, history, manager, FInv, Alone, Clean, Faithful, Following,
                    Follows, Homes, Due, Settled
<1>3. CASE \/ \E c \in Clients :
                \/ AskReload(c) \/ AskAdd(c) \/ AskAutostart(c)
                \/ RunAdd(c) \/ RunScan(c) \/ RunRemove(c) \/ RunSet(c)
           \/ Boot \/ Hangup
  BY <1>1, <1>3, EveryStart, StartKeepsFile
<1>4. ASSUME NEW w \in Workers, Work(w) PROVE FInv'
  <2>1. CASE Plan(w) \/ Read(w) \/ Write(w) \/ Notify(w)
    BY <2>1, PlanReadKeepFile, WriteKeepsFile, NotifyKeepsFile
  <2>2. CASE Load(w) \/ ReadPorts(w) \/ Persist(w) \/ Hand(w) \/ Give(w)
    BY <2>2, LoadKeepsFile, ReadPortsKeepsFile, PersistKeepsFile, HandKeepsFile,
       GiveKeepsFile
  <2>3. QED BY <1>4, <2>1, <2>2 DEF Work
<1>5. CASE Crash
  BY <1>1, <1>5, DownKeepsFile DEF Crash
<1>6. CASE Absorb \/ HandEdit
  BY <1>6, AbsorbKeepsFile, HandEditKeepsFile
<1>7. QED BY <1>2, <1>3, <1>4, <1>5, <1>6 DEF Next

(* "A rejected edit must leave a working registry behind: the manager may   *)
(* reload this file at any moment" (_apply): as long as edits do not overlap*)
(* and neither the user nor a port above the highest broke the file, it     *)
(* loads, whatever edits, reloads, crashes and boots there were.            *)
THEOREM FileLoads == Spec => []RegistryLoads
<1>1. FInv => RegistryLoads
  BY DEF FInv, Clean, Faithful, RegistryLoads
<1>2. QED BY <1>1, InitFInv, NextFInv, PTL DEF Spec

(* When all is quiet, the watcher, the queue link and the supervisor have   *)
(* what the file says: no edit is lost between do_reload's loads, the       *)
(* writing of ports and the handing over, whatever reloads run beside each  *)
(* other.                                                                   *)
THEOREM QuietIsFaithful == Spec => []InForceIsTheFile
<1>1. FInv => InForceIsTheFile
  <2> SUFFICES ASSUME FInv, Quiet PROVE inForce = Config(file) /\ current = inForce
    BY DEF InForceIsTheFile
  <2>1. up /\ ~unread /\ pending = {} /\ Clean /\ ~Due
    BY DEF Quiet, Clean, Due, Reloading
  <2>2. QED BY <2>1 DEF FInv, Faithful, Settled
<1>2. QED BY <1>1, InitFInv, NextFInv, PTL DEF Spec

(* Ports are sticky: across reloads, crashes and boots every configuration  *)
(* the manager takes up gives a board the port it had, unless the user      *)
(* moved, removed or renamed it.                                            *)
THEOREM PortsAreSticky == Spec => PortsStick
<1> DEFINE Sticks == current' # current /\ ~overlapped /\ ~spoiled =>
                        \A i \in DOMAIN current' :
                           home[current'[i].name] \in {0, current'[i].port}
<1>1. FInv /\ [Next]_vars => [Sticks]_vars
  <2> SUFFICES ASSUME FInv, Next, current' # current, ~overlapped, ~spoiled,
                      NEW i \in DOMAIN current'
               PROVE  home[current'[i].name] \in {0, current'[i].port}
    OBVIOUS
  <2>1. Clean
    BY DEF Clean
  <2>2. ASSUME NEW w \in Workers, Hand(w)
        PROVE  home[current'[i].name] \in {0, current'[i].port}
    <3>1. current' = file
      BY <2>1, <2>2, HandsTheFile
    <3>2. QED BY <2>1, <3>1 DEF FInv, Faithful, Homes
  <2>3. ASSUME Down PROVE FALSE
    <3>1. current' = <<>>
      BY <2>3 DEF Down
    <3>2. QED BY <3>1
  <2>4. \/ \E w \in Workers : Hand(w)
        \/ Down
    <3>1. ASSUME \/ \E c \in Clients :
                      \/ AskReload(c) \/ AskAdd(c) \/ AskAutostart(c)
                      \/ RunAdd(c) \/ RunScan(c) \/ RunRemove(c) \/ RunSet(c)
                 \/ Boot \/ Hangup
          PROVE  FALSE
      BY <3>1 DEF AskReload, AskAdd, AskAutostart, RunAdd, RunScan, RunRemove,
                  RunSet, Boot, Hangup, Ask, Begin, manager
    <3>2. ASSUME NEW w \in Workers, Work(w) PROVE Hand(w) \/ Down
      <4>1. ~(Plan(w) \/ Read(w) \/ Write(w) \/ Notify(w) \/ Load(w) \/ Persist(w) \/ Give(w))
        BY DEF Plan, Read, Write, Notify, Load, Persist, Give, manager
      <4>2. ReadPorts(w) => Down
        BY DEF ReadPorts, manager
      <4>3. QED BY <3>2, <4>1, <4>2 DEF Work
    <3>3. ~Absorb /\ ~HandEdit
      BY DEF Absorb, HandEdit, manager
    <3>4. Crash => Down
      BY DEF Crash
    <3>5. QED BY <3>1, <3>2, <3>3, <3>4 DEF Next
  <2>5. QED BY <2>2, <2>3, <2>4
<1>2. QED BY <1>1, InitFInv, NextFInv, PTL DEF Spec, PortsStick

=============================================================================
