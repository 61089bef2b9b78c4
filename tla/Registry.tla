------------------------------- MODULE Registry ------------------------------
(***************************************************************************)
(* The registry file and everyone who edits and reloads it: the commands   *)
(* of the command line and the handler threads of the HTTP API, each a     *)
(* client that reads, changes and replaces the file without a lock; the    *)
(* manager's main thread, which boots from it and reloads it on SIGHUP;    *)
(* the supervisor thread, which puts a handed-over configuration in force; *)
(* the user's editor, and a crash of the manager.                          *)
(*                                                                         *)
(* The file is its board blocks in order.  A board stands for its logdir;  *)
(* port 0 is a block without a port; "setting" is every other key.  The    *)
(* file is always TOML: what a hand edit may break is what parse checks.   *)
(***************************************************************************)
EXTENDS Integers, Sequences, FiniteSets, FiniteSetsExt, SequencesExt

CONSTANTS
    Names,      \* the boards
    Settings,   \* values of a board's other keys
    Modes,      \* those parse accepts
    Default,    \* that of a board just added
    Server,     \* the dashboard's port
    Base,       \* port_base
    Top,        \* the highest port
    Unsafe,     \* the ports browsers block
    Wanted,     \* bound: the ports the user may ask for or write
    KeySets,    \* bound: the keys one set command changes
    Clients,    \* commands and handler threads at work at once
    Main,       \* the manager's main thread
    Budget      \* bound: how many requests, and how many upsets: hand edits, crashes

Outside == {"ask", "upset"}
Keys == {"port", "setting", "name"}

ASSUME RegistryAssumption ==
    /\ IsFiniteSet(Names) /\ Default \in Modes /\ Modes \subseteq Settings
    /\ Top \in Nat /\ Base \in Nat \ {0} /\ Unsafe \subseteq 1..(Top - 1)
    /\ Server \in (1..Top) \ Unsafe /\ Wanted \subseteq 1..Top
    /\ KeySets \subseteq SUBSET Keys
    /\ Main \notin Clients
    /\ Budget \in [Outside -> Nat]

Workers == Clients \cup {Main}
Block == [port : Nat, setting : Settings, name : Names]
Text == Seq(Block)

VARIABLES
    file,       \* the blocks of the registry
    pc,         \* each worker in its command or request
    job,        \* what it was asked
    text,       \* the text it read last
    up,         \* the manager answers
    current,    \* current["cfg"], which the watcher and the queue link read
    pending,    \* _pending_config: a set of at most one
    inForce,    \* the supervisor's boards
    left,       \* what is left of Budget
    home,       \* history: the port a board was last loaded with, if it is to stay
    overlapped, \* history: an edit ran beside another edit or a reload
    spoiled,    \* history: the user or an overflow made the file unloadable
    unread      \* history: a hand edit that no reload has read

history == <<home, overlapped, spoiled, unread>>
manager == <<up, current, pending, inForce>>
vars == <<file, pc, job, text, manager, left, history>>

-----------------------------------------------------------------------------
(* Parsing (config.py)                                                      *)

Named(s) == {s[i].name : i \in DOMAIN s}
PortsOf(s) == {s[i].port : i \in DOMAIN s} \ {0}
Taken(s) == PortsOf(s) \cup {Server}

\* The next port above everything in use; 0 when the search runs out of
\* ports.  Only the search is held below the highest port, not its start.
NextFreePort(taken) ==
    LET start == Max({Base} \cup {p + 1 : p \in {q \in taken : q >= Base}})
        free == {p \in start..Top : p \notin taken \cup Unsafe}
    IN IF start \notin taken \cup Unsafe THEN start
       ELSE IF free = {} THEN 0 ELSE Min(free)

\* Boards without a port get one each, in file order.
Config(s) ==
    LET p[i \in 0..Len(s)] ==
            IF i = 0 THEN <<>>
            ELSE Append(p[i - 1],
                        IF s[i].port # 0 THEN s[i].port
                        ELSE NextFreePort(Taken(s) \cup Range(p[i - 1])))
    IN [i \in DOMAIN s |-> [s[i] EXCEPT !.port = p[Len(s)][i]]]

ValidBlock(b) == b.setting \in Modes /\ b.port \in (0..Top) \ Unsafe

(* Seeded fault: two boards may have the same port.                        *)
LoadsTwins(s) ==
    /\ \A i \in DOMAIN s : ValidBlock(s[i])
    /\ \A i, j \in DOMAIN s : i # j => s[i].name # s[j].name
    /\ Server \notin PortsOf(s)
    /\ \A i \in DOMAIN s : Config(s)[i].port # 0

Loads(s) ==
    /\ \A i \in DOMAIN s : ValidBlock(s[i])
    /\ \A i, j \in DOMAIN s : i # j => s[i].name # s[j].name
    /\ \A i, j \in DOMAIN s : i # j /\ s[i].port # 0 => s[i].port # s[j].port
    /\ Server \notin PortsOf(s)
    /\ \A i \in DOMAIN s : Config(s)[i].port # 0

Unassigned(s) == {s[i].name : i \in {k \in DOMAIN s : s[k].port = 0}}

-----------------------------------------------------------------------------
(* Edits of the text (registry.py)                                          *)

At(s, n) == Min({i \in DOMAIN s : s[i].name = n})

\* The keys of new get new values, as set_key after set_key gives them; set_key
\* finds the board by its name, so that a new name comes last.
SetKeys(s, n, new) ==
    LET value(b, key) == IF key \in DOMAIN new THEN new[key] ELSE b[key]
    IN [s EXCEPT ![At(s, n)] = [port |-> value(@, "port"),
                                setting |-> value(@, "setting"),
                                name |-> value(@, "name")]]

SetPorts(s, config, boards) ==
    [i \in DOMAIN s |->
        IF s[i].name \in boards /\ i = At(s, s[i].name)
        THEN [s[i] EXCEPT !.port = config[At(config, s[i].name)].port]
        ELSE s[i]]

Adds(j) == j.op \in {"add", "scan"}
Moves(j, n) == j.op = "set" /\ n = j.names[1] /\ "port" \in DOMAIN j.vals[1]

\* add refuses a name in use, the others need the board.
Allowed(s, j) ==
    IF Adds(j) THEN Named(s) \cap Range(j.names) = {}
    ELSE j.names[1] \in Named(s)

New(names, ports) ==
    [i \in DOMAIN names |->
        [port |-> ports[i], setting |-> Default, name |-> names[i]]]

Edited(s, j) ==
    CASE Adds(j) -> s \o New(j.names, j.vals)
      [] j.op = "rm" -> [i \in 1..(Len(s) - 1) |->
                            s[IF i < At(s, j.names[1]) THEN i ELSE i + 1]]
      [] OTHER -> SetKeys(s, j.names[1], j.vals[1])

-----------------------------------------------------------------------------
NoJob == [op |-> "none", names |-> <<>>, vals |-> <<>>, via |-> "none"]
Request(via, op, names, vals) ==
    [op |-> op, names |-> names, vals |-> vals, via |-> via]

Editing == {"plan", "read", "write"}
Reloading == {"load", "ports", "persist", "again", "hand", "give"}

Init ==
    /\ file \in {<<>>} \cup
                {<<[port |-> 0, setting |-> Default, name |-> n]>> : n \in Names}
    /\ pc = [w \in Workers |-> "idle"]
    /\ job = [w \in Workers |-> NoJob]
    /\ text = [w \in Workers |-> <<>>]
    /\ up = FALSE
    /\ current = <<>> /\ pending = {} /\ inForce = <<>>
    /\ left = Budget
    /\ home = [n \in Names |-> 0]
    /\ overlapped = FALSE /\ spoiled = FALSE /\ unread = FALSE

\* w begins j at step p.
Begin(w, j, p) ==
    /\ pc[w] = "idle"
    /\ pc' = [pc EXCEPT ![w] = p]
    /\ job' = [job EXCEPT ![w] = j]
    /\ overlapped' =
          (overlapped \/ \E v \in Workers \ {w} :
                            \/ pc[v] \in Editing
                            \/ pc[v] # "idle" /\ p \in Editing)
    /\ UNCHANGED <<file, text, manager, home, spoiled, unread>>

Ask(c, j, p) ==
    /\ left["ask"] > 0
    /\ left' = [left EXCEPT !["ask"] = @ - 1]
    /\ Begin(c, j, p)

\* The HTTP API, once the manager answers.
AskReload(c) == up /\ Ask(c, Request("http", "reload", <<>>, <<>>), "load")
AskAdd(c) ==
    up /\ \E n \in Names : Ask(c, Request("http", "add", <<n>>, <<0>>), "plan")
AskAutostart(c) ==
    /\ up
    /\ \E n \in Named(inForce), m \in Modes :
          Ask(c, Request("http", "set", <<n>>, <<[setting |-> m]>>), "read")

\* Commands.  All but add and scan load the registry first.
RunAdd(c) ==
    \E n \in Names, p \in {0} \cup Wanted :
        Ask(c, Request("cli", "add", <<n>>, <<p>>), "plan")
RunScan(c) == Ask(c, Request("cli", "scan", <<>>, <<>>), "plan")
RunRemove(c) ==
    /\ Loads(file)
    /\ \E n \in Names : Ask(c, Request("cli", "rm", <<n>>, <<>>), "read")
RunSet(c) ==
    /\ Loads(file)
    /\ \E n \in Names, keys \in KeySets,
          b \in [port : Wanted, setting : Settings, name : Names] :
          Ask(c, Request("cli", "set", <<n>>, <<Restrict(b, keys)>>), "read")

\* The main thread: start-up, and a reload on SIGHUP.
Boot == ~up /\ Begin(Main, Request("main", "boot", <<>>, <<>>), "load")
           /\ UNCHANGED left
Hangup == up /\ Ask(Main, Request("main", "reload", <<>>, <<>>), "load")

Go(w, p) == pc' = [pc EXCEPT ![w] = p]
Finish(w) == Go(w, "idle") /\ job' = [job EXCEPT ![w] = NoJob]
                           /\ text' = [text EXCEPT ![w] = <<>>]

\* Ports for boards added at once, each above the one before.
NewPorts(s, names) ==
    LET all == Config(Config(s) \o New(names, [i \in DOMAIN names |-> 0]))
    IN [i \in DOMAIN names |-> all[Len(s) + i].port]

\* add_board chooses the port and refuses a name or a port in use; cmd_scan
\* takes every logdir found that is not registered.
Plan(w) ==
    /\ pc[w] = "plan"
    /\ \E names \in IF job[w].op = "scan" THEN SetToSeqs(Names \ Named(file))
                    ELSE {job[w].names} :
       LET asked == job[w].vals
           ports == IF job[w].op = "add" /\ asked[1] # 0 THEN asked
                    ELSE NewPorts(file, names)
       IN IF /\ Loads(file) /\ 0 \notin Range(ports)
             /\ Named(file) \cap Range(names) = {}
             /\ Taken(Config(file)) \cap Range(ports) = {}
          THEN /\ job' = [job EXCEPT ![w].names = names, ![w].vals = ports]
               /\ Go(w, "read") /\ UNCHANGED text
          ELSE Finish(w)
    /\ UNCHANGED <<file, manager, left, history>>

Read(w) ==
    /\ pc[w] = "read"
    /\ text' = [text EXCEPT ![w] = file]
    /\ Go(w, "write")
    /\ UNCHANGED <<file, job, manager, left, history>>

(* Seeded fault: the edited text is written unparsed.                       *)
WriteUnparsed(w) ==
    /\ pc[w] = "write"
    /\ IF Allowed(text[w], job[w])
       THEN /\ file' = Edited(text[w], job[w])
            /\ Go(w, IF job[w].via = "http" THEN "load" ELSE "notify")
            /\ UNCHANGED <<job, text>>
       ELSE Finish(w) /\ UNCHANGED file
    /\ UNCHANGED <<manager, left, history>>

\* _apply writes only what parses, and only when it changes something.
Write(w) ==
    /\ pc[w] = "write"
    /\ IF Allowed(text[w], job[w]) /\ Loads(Edited(text[w], job[w]))
       THEN /\ file' = IF Edited(text[w], job[w]) = text[w] THEN file
                       ELSE Edited(text[w], job[w])
            /\ home' = [n \in Names |->
                          IF \/ n \notin Named(file') \/ n \notin Named(file)
                             \/ Moves(job[w], n)
                          THEN 0 ELSE home[n]]
            /\ Go(w, IF job[w].via = "http" THEN "load" ELSE "notify")
            /\ UNCHANGED <<job, text>>
       ELSE Finish(w) /\ UNCHANGED <<file, home>>
    /\ UNCHANGED <<manager, left, overlapped, spoiled, unread>>

(* Seeded fault: the command ends without asking for a reload.              *)
NotifyNobody(w) ==
    /\ pc[w] = "notify"
    /\ Finish(w)
    /\ UNCHANGED <<file, manager, left, history>>

\* A command asks the manager, if it answers, to reload.
Notify(w) ==
    /\ pc[w] = "notify"
    /\ IF up /\ (job[w].op = "add" => Loads(file))
       THEN Go(w, "load") /\ UNCHANGED <<job, text>>
       ELSE Finish(w)
    /\ UNCHANGED <<file, manager, left, history>>

-----------------------------------------------------------------------------
(* do_reload, and the same steps of cmd_serve                               *)

(* Seeded fault: assigned ports are used and not written back.              *)
LoadForgetsPorts(w) ==
    /\ pc[w] \in {"load", "again"}
    /\ IF Loads(file)
       THEN /\ text' = [text EXCEPT ![w] = file]
            /\ Go(w, "hand")
            /\ unread' = FALSE
            /\ UNCHANGED job
       ELSE Finish(w) /\ UNCHANGED unread
    /\ UNCHANGED <<file, manager, left, home, overlapped, spoiled>>

\* The first load assigns ports to the boards without one; when it did, they
\* are written and the file is loaded again.
Load(w) ==
    /\ pc[w] \in {"load", "again"}
    /\ IF Loads(file)
       THEN /\ text' = [text EXCEPT ![w] = file]
            /\ Go(w, IF pc[w] = "load" /\ Unassigned(file) # {}
                     THEN "ports" ELSE "hand")
            /\ unread' = (unread /\ pc'[w] # "hand")
            /\ UNCHANGED job
       ELSE Finish(w) /\ UNCHANGED unread
    /\ UNCHANGED <<file, manager, left, home, overlapped, spoiled>>

(* Seeded fault: a handler thread goes on after the manager has gone.       *)
DownLeavesHandlers ==
    /\ up' = FALSE
    /\ current' = <<>> /\ pending' = {} /\ inForce' = <<>>
    /\ pc' = [pc EXCEPT ![Main] = "idle"]
    /\ job' = [job EXCEPT ![Main] = NoJob]
    /\ text' = [text EXCEPT ![Main] = <<>>]

\* The manager is gone, with its threads and what they waited for.
Down ==
    /\ up' = FALSE
    /\ current' = <<>> /\ pending' = {} /\ inForce' = <<>>
    /\ LET ends == {w \in Workers : job[w].via # "cli" \/ pc[w] \in Reloading}
       IN /\ pc' = [w \in Workers |-> IF w \in ends THEN "idle" ELSE pc[w]]
          /\ job' = [w \in Workers |-> IF w \in ends THEN NoJob ELSE job[w]]
          /\ text' = [w \in Workers |-> IF w \in ends THEN <<>> ELSE text[w]]

\* set_ports reads the file afresh, and is done if another has set them.  A board gone since the load is an error:
\* a client gets it as an answer, the main thread ends the manager.
ReadPorts(w) ==
    /\ pc[w] = "ports"
    /\ \/ /\ Unassigned(text[w]) \subseteq Named(file)
          /\ text' = [text EXCEPT ![w] =
                        SetPorts(file, Config(text[w]), Unassigned(text[w]))]
          /\ Go(w, IF text'[w] = file THEN "again" ELSE "persist")
          /\ UNCHANGED <<job, manager>>
       \/ /\ ~(Unassigned(text[w]) \subseteq Named(file))
          /\ IF w = Main THEN Down ELSE Finish(w) /\ UNCHANGED manager
    /\ UNCHANGED <<file, left, history>>

\* edit checks that the text is TOML, not that it loads.
Persist(w) ==
    /\ pc[w] = "persist"
    /\ file' = text[w]
    /\ spoiled' = (spoiled \/ \E i \in DOMAIN file' : file'[i].port > Top)
    /\ Go(w, "again")
    /\ UNCHANGED <<job, text, manager, left, home, overlapped, unread>>

Remember(c) ==
    home' = [n \in Names |->
                IF n \in Named(c) THEN c[At(c, n)].port ELSE home[n]]

\* current["cfg"] is set first; a booting manager starts with it, a running
\* one hands it to the supervisor next.
Hand(w) ==
    /\ pc[w] = "hand"
    /\ current' = Config(text[w])
    /\ Remember(current')
    /\ IF up THEN Go(w, "give") /\ UNCHANGED <<job, text, up, inForce>>
       ELSE Finish(w) /\ up' = TRUE /\ inForce' = current'
    /\ UNCHANGED <<file, pending, left, overlapped, spoiled, unread>>

Give(w) ==
    /\ pc[w] = "give"
    /\ pending' = {Config(text[w])}
    /\ Finish(w)
    /\ UNCHANGED <<file, up, current, inForce, left, history>>

\* The supervisor thread takes the configuration that waits.
Absorb ==
    /\ pending # {}
    /\ inForce' \in pending
    /\ pending' = {}
    /\ UNCHANGED <<file, pc, job, text, up, current, left, history>>

-----------------------------------------------------------------------------
(* From outside                                                             *)

\* The manager is killed, also while it boots.
Crash ==
    /\ up \/ pc[Main] # "idle"
    /\ left["upset"] > 0
    /\ left' = [left EXCEPT !["upset"] = @ - 1]
    /\ Down
    /\ UNCHANGED <<file, history>>

\* The user's editor adds a block, deletes one, or changes or drops a port.
HandEdit ==
    /\ left["upset"] > 0
    /\ left' = [left EXCEPT !["upset"] = @ - 1]
    /\ \E n \in Names :
         /\ \/ \E p \in {0} \cup Wanted :
                 \/ file' = Append(file, [port |-> p, setting |-> Default,
                                          name |-> n])
                 \/ n \in Named(file) /\ file' = SetKeys(file, n, [port |-> p])
            \/ n \in Named(file) /\ file' = Edited(file, [op |-> "rm", names |-> <<n>>])
         /\ home' = [home EXCEPT ![n] = 0]
    /\ unread' = TRUE
    /\ spoiled' = (spoiled \/ ~Loads(file'))
    /\ overlapped' = (overlapped \/ \E w \in Workers : pc[w] # "idle")
    /\ UNCHANGED <<pc, job, text, manager>>

Work(w) ==
    \/ Plan(w) \/ Read(w) \/ Write(w) \/ Notify(w)
    \/ Load(w) \/ ReadPorts(w) \/ Persist(w) \/ Hand(w) \/ Give(w)

Next ==
    \/ \E c \in Clients :
          \/ AskReload(c) \/ AskAdd(c) \/ AskAutostart(c)
          \/ RunAdd(c) \/ RunScan(c) \/ RunRemove(c) \/ RunSet(c)
    \/ \E w \in Workers : Work(w)
    \/ Boot \/ Hangup \/ Absorb \/ Crash \/ HandEdit

Spec == Init /\ [][Next]_vars

-----------------------------------------------------------------------------
(* Properties                                                               *)

\* Every variable has its type; nothing of the manager outlives it, so that a
\* boot never finds a configuration or a request of the one before.
TypeOK ==
    /\ file \in Text /\ current \in Text /\ inForce \in Text
    /\ text \in [Workers -> Text]
    /\ pc \in [Workers -> {"idle", "notify"} \cup Editing \cup Reloading]
    /\ \A c \in pending : c \in Text
    /\ home \in [Names -> Nat]
    /\ {up, overlapped, spoiled, unread} \subseteq BOOLEAN
    /\ \A w \in Workers : pc[w] = "idle" <=> job[w] = NoJob
    /\ ~up => /\ current = <<>> /\ inForce = <<>> /\ pending = {}
              /\ \A c \in Clients :
                    job[c].via # "http" /\ pc[c] \notin Reloading

\* What Supervisor assumes of its configurations: names and ports differ, and
\* no board has the dashboard's port.
Sound(c) ==
    /\ \A i, j \in DOMAIN c :
          i # j => c[i].name # c[j].name /\ c[i].port # c[j].port
    /\ \A i \in DOMAIN c : c[i].port \notin {0, Server}

\* Whatever edits and reloads run beside each other, the configuration the
\* watcher reads, the one that waits and the one in force are sound.
SoundConfigs ==
    Sound(current) /\ Sound(inForce) /\ \A c \in pending : Sound(c)

\* "A rejected edit must leave a working registry behind: the manager may
\* reload this file at any moment" (_apply): as long as edits do not overlap
\* and neither the user nor an overflow broke it, the file loads.
RegistryLoads == overlapped \/ spoiled \/ Loads(file)

\* When all is quiet, what is in force is what the file says: no edit that did
\* not overlap another is lost or waits for a reload.
Quiet == /\ up /\ pending = {} /\ \A w \in Workers : pc[w] = "idle"
         /\ ~overlapped /\ ~spoiled /\ ~unread
InForceIsTheFile == Quiet => inForce = Config(file) /\ current = inForce

\* Ports are sticky: across reloads, crashes and boots a board is loaded with
\* the port it had, unless the user moved, removed or renamed it.
PortsStick ==
    [][current' # current /\ ~overlapped /\ ~spoiled =>
         \A i \in DOMAIN current' :
            home[current'[i].name] \in {0, current'[i].port}]_vars
=============================================================================
