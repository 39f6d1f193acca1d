-------------------------------- MODULE EveLab --------------------------------
(***************************************************************************)
(* eve/build.py: the enterprise lab and the skills lab in EVE-NG, built,   *)
(* started and re-pushed from their topology files by commands that stop   *)
(* at the first call EVE-NG refuses and are given again.                   *)
(*                                                                         *)
(* A command reads its topology file once, when it starts; people edit     *)
(* lab.firewalls and add or remove topology/skills-lab.yaml meanwhile. The *)
(* skills lab borrows the firewalls' memory. One command at a time runs on *)
(* a lab; a command on the other lab may run beside it.                    *)
(*                                                                         *)
(* A step is one call of EVE-NG and the local work around it; a call that  *)
(* fails, or whose answer is lost, ends the command. Images are staged,    *)
(* the endpoints (clients, server) and the layout are left out.            *)
(***************************************************************************)
EXTENDS Topology, FiniteSets

CONSTANTS
    Environments,   \* what a behaviour is about: see Init
    Routers,        \* the nodes of all topologies
    MaxCommands,    \* bound: commands given on a lab
    MaxEdits        \* bound: edits of the topology files

\* A topology file, its nodes and the ports of its links
TopologyOK(T) ==
    /\ {"firewalls", "nodes", "links", "role", "platform"} \subseteq DOMAIN T
    /\ T.nodes \in Seq(Routers)
    /\ T.links \in Seq({T.links[i] : i \in DOMAIN T.links})
    /\ \A i \in DOMAIN T.links : T.links[i].a[2] \in Nat \ {0} /\ T.links[i].b[2] \in Nat \ {0}

\* No node is of both labs
ASSUME TopologyAssumption ==
    \A e \in Environments :
        /\ TopologyOK(e.topo["enterprise"]) /\ TopologyOK(e.topo["skills-lab"])
        /\ NodesOf(e.topo["enterprise"]) \cap NodesOf(e.topo["skills-lab"]) = {}

VARIABLES
    env,            \* [topo: the file of each lab, labs: the labs commands are given on, failing]
    firewalls,      \* lab.firewalls of topology/enterprise.yaml
    borrower,       \* topology/skills-lab.yaml is there
    exists,         \* the labs EVE-NG holds
    nets,           \* the networks of each lab: 0 is management, i the bridge of link i
    nodes,          \* the nodes EVE-NG holds, see Node
    cmd,            \* the last command on each lab
    given, edits,   \* how many commands, how many edits
    settled,        \* history: "applied" after an apply, "pushed" after a push-configs on top of it,
                    \* "no" as soon as the file or the lab is touched
    careless        \* history: lab.firewalls was edited over a firewall or over the skills lab in EVE-NG

labVars == <<exists, nets, nodes>>
fileVars == <<firewalls, borrower, edits, careless>>
vars == <<env, labVars, fileVars, cmd, given, settled>>

Labs == {"enterprise", "skills-lab"}
Scratch == "skills-lab"

\* A node: its management MAC is the one the file gives it or derived from its
\* number; wires are its ports <<index, network>>; text is the rendering its
\* config set holds and selected whether the node boots it; disk is what it
\* booted: nothing yet, no configuration, or a rendering.
Absent == [made |-> FALSE, own |-> FALSE, wires |-> {}, text |-> "none", selected |-> FALSE, disk |-> "wiped", on |-> FALSE]
New(own) == [Absent EXCEPT !.made = TRUE, !.own = own]

Rendering(fw) == IF fw THEN "firewalls" ELSE "bypass"

Init ==
    /\ env \in Environments
    /\ firewalls = FALSE /\ borrower = FALSE /\ edits = 0 /\ careless = FALSE
    /\ exists = {} /\ nets = [l \in Labs |-> {}] /\ nodes = [n \in Routers |-> Absent]
    /\ cmd = [l \in Labs |-> [does |-> "none", at |-> "done", fw |-> FALSE, todo |-> {}, clean |-> FALSE]]
    /\ given = [l \in Labs |-> 0] /\ settled = [l \in Labs |-> "no"]

-----------------------------------------------------------------------------
(* The topology a command works from *)

Flag(l) == l = "enterprise" /\ firewalls
Now(l) == [env.topo[l] EXCEPT !.firewalls = Flag(l)]
Topo(l) == [env.topo[l] EXCEPT !.firewalls = cmd[l].fw]

Firewall(T, n) == T.role[n] = "firewall"

\* A bypass link exists only while the firewalls are deferred
ActiveLinks(T) == {i \in DOMAIN T.links : ~(T.links[i].bypass /\ T.firewalls)}

\* The first port of every platform is management, index 0
IfaceIndex(platform, port) == IF platform = "c8000v" THEN port - 1 ELSE port

\* What apply wires a node to
Wiring(T, n) ==
    {<<0, 0>>} \cup {<<IfaceIndex(T.platform[n], T.links[i].a[2]), i>> : i \in {i \in ActiveLinks(T) : T.links[i].a[1] = n}}
               \cup {<<IfaceIndex(T.platform[n], T.links[i].b[2]), i>> : i \in {i \in ActiveLinks(T) : T.links[i].b[1] = n}}

Have(l) == {n \in NodesOf(env.topo[l]) : nodes[n].made}

\* The first of the nodes left, in the file's order
FirstOf(T, left) == T.nodes[CHOOSE i \in DOMAIN T.nodes : T.nodes[i] \in left /\ \A j \in 1 .. i - 1 : T.nodes[j] \notin left]

\* Never the firewalls and the skills lab at once: memory_guard, which apply,
\* start and push-configs run first. The enterprise lab's flag is the one the
\* command read when it began. Mutant: the skills lab's side is missing.
OneSidedMemoryGuard(l) == l = "enterprise" => ~(cmd[l].fw /\ borrower)
MemoryGuard(l) == IF l = "enterprise" THEN ~(cmd[l].fw /\ borrower) ELSE ~firewalls

-----------------------------------------------------------------------------
(* Commands *)

At(l, step) == cmd[l].at = step
Under(l) == cmd[l].at \notin {"done", "failed"}
Goes(l, step) == cmd' = [cmd EXCEPT ![l].at = step]
Stays == UNCHANGED cmd
Fails(l) == env.failing /\ Goes(l, "failed") /\ UNCHANGED settled
Ends(l, s) == Goes(l, "done") /\ settled' = [settled EXCEPT ![l] = s]

Set(n, new) == nodes' = [nodes EXCEPT ![n] = new]

\* A call that does `new` to node n: it is answered and the command goes on as
\* `next` says, or the command ends and the call was done or not
Calls(l, n, new, next) ==
    \/ Set(n, new) /\ next /\ UNCHANGED settled
    \/ Fails(l) /\ nodes' \in {nodes, [nodes EXCEPT ![n] = new]}

\* build.py <action>, --topology for the skills lab; delete only takes that one.
\* push-configs means all nodes: --only and --allow-missing are left out.
Give(l, does) ==
    /\ l \in env.labs /\ ~Under(l) /\ given[l] < MaxCommands
    /\ does = "delete" => l = Scratch
    /\ l = Scratch => borrower
    /\ given' = [given EXCEPT ![l] = @ + 1]
    /\ cmd' = [cmd EXCEPT ![l] = [does |-> does, fw |-> Flag(l), clean |-> TRUE, todo |-> {},
                                  at |-> IF does \in {"stop", "delete"} THEN "off" ELSE "guards"]]
    /\ settled' = [settled EXCEPT ![l] = IF does = "push" /\ @ # "no" THEN "applied" ELSE "no"]
    /\ UNCHANGED <<env, labVars, fileVars>>

\* apply and start look at every node's MAC before or after they make it, push-configs before it wipes
Guards(l) ==
    /\ At(l, "guards")
    /\ \/ /\ MemoryGuard(l)
          /\ cmd[l].does = "push" => l \in exists
          /\ Goes(l, CASE cmd[l].does = "apply" -> "create"
                       [] cmd[l].does = "start" -> "macs"
                       [] cmd[l].does = "push" -> "targets")
       \/ /\ MemoryGuard(l) => cmd[l].does = "push" /\ l \notin exists
          /\ Goes(l, "failed")
    /\ UNCHANGED <<env, labVars, fileVars, given, settled>>

CreateLab(l) ==
    /\ At(l, "create")
    /\ \/ Goes(l, "networks") /\ exists' = exists \cup {l} /\ UNCHANGED settled
       \/ Fails(l) /\ exists' \in {exists, exists \cup {l}}
    /\ UNCHANGED <<env, nets, nodes, fileVars, given>>

\* The management cloud and one bridge per link, each that is missing
AddNetwork(l) ==
    /\ At(l, "networks")
    /\ LET missing == ({0} \cup ActiveLinks(Topo(l))) \ nets[l]
           next == CHOOSE i \in missing : \A j \in missing : i <= j
           more == [nets EXCEPT ![l] = @ \cup {next}]
       IN \/ missing = {} /\ Goes(l, "bypasses") /\ UNCHANGED <<nets, settled>>
          \/ missing # {} /\ nets' = more /\ Stays /\ UNCHANGED settled
          \/ missing # {} /\ Fails(l) /\ nets' \in {nets, more}
    /\ UNCHANGED <<env, exists, nodes, fileVars, given>>

\* With the firewalls back, the bypasses' bridges go away, and the ports on them
DropBypass(l) ==
    /\ At(l, "bypasses")
    /\ LET old == nets[l] \ ({0} \cup ActiveLinks(Topo(l)))
           Cut(i) == [n \in Routers |-> IF n \in NodesOf(env.topo[l])
                                        THEN [nodes[n] EXCEPT !.wires = {w \in @ : w[2] # i}] ELSE nodes[n]]
       IN \/ old = {} /\ Goes(l, "nodes") /\ UNCHANGED <<nets, nodes, settled>>
          \/ \E i \in old : /\ nets' = [nets EXCEPT ![l] = @ \ {i}]
                            /\ nodes' = Cut(i)
                            /\ \/ Stays /\ UNCHANGED settled
                               \/ Fails(l)
          \/ old # {} /\ Fails(l) /\ UNCHANGED <<nets, nodes>>
    /\ UNCHANGED <<env, exists, fileVars, given>>

\* Each missing node, a firewall only with the firewalls on; EVE-NG may keep the
\* first MAC it was given or derive one, and apply stops when it did not keep it.
\* A node that is there is not looked at again.
AddNode(l) ==
    /\ At(l, "nodes")
    /\ LET T == Topo(l)
           missing == {n \in NodesOf(T) : ~nodes[n].made /\ (Firewall(T, n) => T.firewalls)}
           n == FirstOf(T, missing)
       IN \/ missing = {} /\ Goes(l, "wires") /\ UNCHANGED <<nodes, settled>>
          \/ missing # {} /\ Calls(l, n, New(TRUE), Stays)
          \/ missing # {} /\ l = Scratch /\ Set(n, New(FALSE)) /\ Goes(l, "failed") /\ UNCHANGED settled
    /\ UNCHANGED <<env, exists, nets, fileVars, given>>

\* The ports that are not where the file puts them
Wire(l) ==
    /\ At(l, "wires")
    /\ LET T == Topo(l)
           astray == {n \in Have(l) : ~(Wiring(T, n) \subseteq nodes[n].wires)}
           n == FirstOf(T, astray)
           wired == {w \in nodes[n].wires : \A v \in Wiring(T, n) : v[1] # w[1]} \cup Wiring(T, n)
       IN \/ astray = {} /\ Goes(l, "configs") /\ UNCHANGED <<nodes, settled>>
          \/ astray # {} /\ Calls(l, n, [nodes[n] EXCEPT !.wires = wired], Stays)
    /\ UNCHANGED <<env, exists, nets, fileVars, given>>

\* A node keeps the configuration it selected: apply renders one only for a
\* stopped node that has none. Two calls: upload, then select.
Configure(l) ==
    /\ At(l, "configs")
    /\ LET T == Topo(l)
           bare == {n \in Have(l) : ~nodes[n].selected /\ ~nodes[n].on}
           n == FirstOf(T, bare)
           uploaded == [nodes[n] EXCEPT !.text = Rendering(T.firewalls)]
       IN \/ bare = {} /\ Ends(l, IF cmd[l].clean THEN "applied" ELSE "no") /\ UNCHANGED nodes
          \/ bare # {} /\ Calls(l, n, [uploaded EXCEPT !.selected = TRUE], Stays)
          \/ bare # {} /\ Fails(l) /\ Set(n, uploaded)
    /\ UNCHANGED <<env, exists, nets, fileVars, given>>

OwnMacs(l) == \A n \in Have(l) : l = Scratch => nodes[n].own

\* start and push-configs: before any node boots, every MAC is looked at again.
\* Mutant: only apply looks, when it makes the node.
MacsUnchecked(l) ==
    /\ cmd[l].at \in {"macs", "targets"}
    /\ cmd' = [cmd EXCEPT ![l].at = IF At(l, "macs") THEN "boot" ELSE "wipe",
                         ![l].todo = IF At(l, "macs") THEN {n \in Have(l) : ~nodes[n].on} ELSE Have(l)]
    /\ UNCHANGED <<env, labVars, fileVars, given, settled>>
CheckMacs(l) ==
    /\ cmd[l].at \in {"macs", "targets"}
    /\ \/ /\ OwnMacs(l)
          /\ cmd' = [cmd EXCEPT ![l].at = IF At(l, "macs") THEN "boot" ELSE "wipe",
                               ![l].todo = IF At(l, "macs") THEN {n \in Have(l) : ~nodes[n].on} ELSE Have(l)]
       \/ ~OwnMacs(l) /\ Goes(l, "failed")
       \/ env.failing /\ Goes(l, "failed")
    /\ UNCHANGED <<env, labVars, fileVars, given, settled>>

\* What a node boots: its disk, and on a fresh disk the configuration it selected
Booted(n) == [nodes[n] EXCEPT !.on = TRUE,
                              !.disk = IF @ # "wiped" THEN @ ELSE IF nodes[n].selected THEN nodes[n].text ELSE "blank"]

\* Each node of the list in the file's order, for start the firewalls last; after
\* a push-configs build.py waits until the routers answer.
Boot(l) ==
    /\ At(l, "boot")
    /\ LET left == cmd[l].todo
           first == IF cmd[l].does = "start" THEN {m \in left : ~Firewall(env.topo[l], m)} ELSE {}
           n == FirstOf(env.topo[l], IF first = {} THEN left ELSE first)
           next == cmd' = [cmd EXCEPT ![l].todo = left \ {n}]
       IN \/ /\ left = {} /\ UNCHANGED nodes
             /\ \/ cmd[l].does = "start" /\ Ends(l, "no")
                \/ cmd[l].does = "push" /\ Goes(l, "answer") /\ UNCHANGED settled
          \/ left # {} /\ Calls(l, n, Booted(n), next)
    /\ UNCHANGED <<env, exists, nets, fileVars, given>>

\* A re-rendered configuration on a wiped disk, four calls a node: stop, upload,
\* select, wipe; each may be the last one done. Mutant: the disk is not wiped.
UnwipedDisk(l) ==
    /\ At(l, "wipe")
    /\ LET left == {n \in cmd[l].todo : nodes[n].on \/ nodes[n].text # Rendering(cmd[l].fw) \/ ~nodes[n].selected}
           n == FirstOf(env.topo[l], left)
       IN \/ left = {} /\ Goes(l, "boot") /\ UNCHANGED <<nodes, settled>>
          \/ /\ left # {} /\ Stays /\ UNCHANGED settled
             /\ Set(n, [nodes[n] EXCEPT !.text = Rendering(cmd[l].fw), !.selected = TRUE, !.on = FALSE])
    /\ UNCHANGED <<env, exists, nets, fileVars, given>>
Wipe(l) ==
    /\ At(l, "wipe")
    /\ LET T == Topo(l)
           done == {n \in cmd[l].todo : nodes[n] = [nodes[n] EXCEPT !.text = Rendering(T.firewalls), !.selected = TRUE,
                                                                   !.disk = "wiped", !.on = FALSE]}
           left == cmd[l].todo \ done
           n == FirstOf(T, left)
           stopped == [nodes[n] EXCEPT !.on = FALSE]
           uploaded == [stopped EXCEPT !.text = Rendering(T.firewalls)]
           selected == [uploaded EXCEPT !.selected = TRUE]
       IN \/ left = {} /\ Goes(l, "boot") /\ UNCHANGED <<nodes, settled>>
          \/ left # {} /\ Set(n, [selected EXCEPT !.disk = "wiped"]) /\ Stays /\ UNCHANGED settled
          \/ left # {} /\ Fails(l) /\ \E half \in {nodes[n], stopped, uploaded, selected} : Set(n, half)
    /\ UNCHANGED <<env, exists, nets, fileVars, given>>

\* Within 15 minutes every router answers on management, or the command fails
Answer(l) ==
    /\ At(l, "answer")
    /\ \/ Ends(l, IF cmd[l].clean /\ settled[l] = "applied" THEN "pushed" ELSE "no")
       \/ Fails(l)
    /\ UNCHANGED <<env, labVars, fileVars, given>>

\* stop, and the stops before a delete
TurnOff(l) ==
    /\ At(l, "off")
    /\ LET on == {n \in Have(l) : nodes[n].on}
           n == FirstOf(env.topo[l], on)
       IN \/ /\ on = {} /\ UNCHANGED nodes
             /\ IF cmd[l].does = "delete" THEN Goes(l, "remove") /\ UNCHANGED settled ELSE Ends(l, "no")
          \/ on # {} /\ Calls(l, n, [nodes[n] EXCEPT !.on = FALSE], Stays)
    /\ UNCHANGED <<env, exists, nets, fileVars, given>>

Remove(l) ==
    /\ At(l, "remove")
    /\ LET Gone == /\ exists' = exists \ {l}
                   /\ nets' = [nets EXCEPT ![l] = {}]
                   /\ nodes' = [n \in Routers |-> IF n \in NodesOf(env.topo[l]) THEN Absent ELSE nodes[n]]
       IN \/ Gone /\ Ends(l, "no")
          \/ Fails(l) /\ (Gone \/ UNCHANGED labVars)
    /\ UNCHANGED <<env, fileVars, given>>

-----------------------------------------------------------------------------
(* The files *)

Touched(l) ==
    /\ settled' = [settled EXCEPT ![l] = "no"]
    /\ cmd' = [cmd EXCEPT ![l].clean = FALSE]

\* lab.firewalls is edited. Over something: a firewall stays behind in EVE-NG, or
\* the skills lab is there, or a command is under way that read the flag before.
FlipFirewalls ==
    /\ edits < MaxEdits
    /\ edits' = edits + 1 /\ firewalls' = ~firewalls
    /\ careless' = (\/ careless
                    \/ \E l \in Labs : Under(l)
                    \/ firewalls /\ \E n \in Have("enterprise") : Firewall(env.topo["enterprise"], n)
                    \/ ~firewalls /\ Scratch \in exists)
    /\ Touched("enterprise")
    /\ UNCHANGED <<env, labVars, borrower, given>>

EditBorrower ==
    /\ edits < MaxEdits /\ Scratch \in env.labs
    /\ edits' = edits + 1 /\ borrower' = ~borrower
    /\ UNCHANGED <<env, labVars, firewalls, careless, cmd, given, settled>>

-----------------------------------------------------------------------------

Step(l) ==
    \/ Guards(l) \/ CreateLab(l) \/ AddNetwork(l) \/ DropBypass(l) \/ AddNode(l) \/ Wire(l) \/ Configure(l)
    \/ CheckMacs(l) \/ Boot(l) \/ Wipe(l) \/ Answer(l) \/ TurnOff(l) \/ Remove(l)

Next ==
    \/ \E l \in Labs : Step(l)
    \/ \E l \in Labs, does \in {"apply", "start", "push", "stop", "delete"} : Give(l, does)
    \/ FlipFirewalls \/ EditBorrower

Spec == Init /\ [][Next]_vars

-----------------------------------------------------------------------------
(* Properties *)

\* A node of the file that EVE-NG is to hold and run
Wanted(T) == {n \in NodesOf(T) : Firewall(T, n) => T.firewalls}

\* After an apply and a push-configs that both ended, with no edit and no other
\* command but those since, the lab is what its file says, whatever commands
\* failed half-way before and however often lab.firewalls was flipped: every
\* node runs the rendering of the file and is wired to the bridges of its
\* links, and every BGP session that was derived is derived for both ends.
AsItsFile(l) ==
    LET T == Now(l)
    IN /\ \A n \in Wanted(T) : /\ nodes[n].on /\ nodes[n].disk = Rendering(T.firewalls)
                               /\ nodes[n].wires = Wiring(T, n)
       /\ nets[l] = {0} \cup ActiveLinks(T)

SessionsMeet(T) == \A s \in Sessions(T) : ToFirewall(T, s.session) \/ Mirrored(T, s.at, s.session)

PushedLabIsWhole == \A l \in Labs : settled[l] = "pushed" => AsItsFile(l) /\ SessionsMeet(Now(l))

\* The same of the files alone: whether lab.firewalls is on or off, every session
\* derived from a topology file is derived at both its ends
FilesMeet == \A e \in Environments, l \in Labs, fw \in BOOLEAN : SessionsMeet([e.topo[l] EXCEPT !.firewalls = fw])

\* A router of the skills lab that runs has the MAC address its file gives it, so
\* it meets no router of the enterprise lab, and no firewall runs beside it -
\* unless lab.firewalls was edited over a firewall, over the skills lab or over
\* a command under way: the guard reads the file, not what runs.
ScratchMeetsNobody ==
    \A n \in NodesOf(env.topo[Scratch]) : nodes[n].on =>
        /\ nodes[n].own
        /\ careless \/ \A f \in Have("enterprise") : nodes[f].on => ~Firewall(env.topo["enterprise"], f)

-----------------------------------------------------------------------------
(* The inductive invariant *)

CommandTask == {"done", "failed", "guards", "create", "networks", "bypasses", "nodes", "wires", "configs",
                "macs", "targets", "wipe", "boot", "answer", "off", "remove"}
Command == [does : {"none", "apply", "start", "push", "stop", "delete"}, at : CommandTask, fw : BOOLEAN,
            todo : SUBSET Routers, clean : BOOLEAN]
Node == [made : BOOLEAN, own : BOOLEAN, wires : SUBSET (Nat \X Nat), text : {"none", "firewalls", "bypass"},
         selected : BOOLEAN, disk : {"wiped", "blank", "firewalls", "bypass"}, on : BOOLEAN]

TypeOK ==
    /\ env \in Environments /\ firewalls \in BOOLEAN /\ borrower \in BOOLEAN /\ careless \in BOOLEAN /\ edits \in Nat
    /\ exists \subseteq Labs /\ nets \in [Labs -> SUBSET Nat] /\ nodes \in [Routers -> Node]
    /\ cmd \in [Labs -> Command] /\ given \in [Labs -> Nat] /\ settled \in [Labs -> {"no", "applied", "pushed"}]

\* Every wire that any setting of lab.firewalls asks for, and the bridges of the file
Cables(l, n) == Wiring([env.topo[l] EXCEPT !.firewalls = FALSE], n)
Bridges(T) == {0} \cup ActiveLinks(T)

\* EVE-NG holds a node under its lab only, wired to bridges that are there
NodesOK(l) ==
    \A n \in NodesOf(env.topo[l]) :
        /\ IF nodes[n].made THEN l \in exists ELSE nodes[n] = Absent
        /\ nodes[n].selected => nodes[n].text # "none"
        /\ nodes[n].wires \subseteq Cables(l, n)
        /\ \A w \in nodes[n].wires : w[2] \in nets[l]

\* The steps of each command, and the flag it read
StepsOK(l) ==
    /\ cmd[l].at \in {"create", "networks", "bypasses", "nodes", "wires", "configs"} => cmd[l].does = "apply"
    /\ At(l, "guards") => cmd[l].does \in {"apply", "start", "push"}
    /\ At(l, "macs") => cmd[l].does = "start"
    /\ cmd[l].at \in {"targets", "wipe", "answer"} => cmd[l].does = "push"
    /\ cmd[l].at \in {"off", "remove"} => cmd[l].does \in {"stop", "delete"}
    /\ At(l, "boot") => cmd[l].does \in {"start", "push"}
    /\ cmd[l].clean => cmd[l].fw = Flag(l)
    /\ l = Scratch => ~cmd[l].fw

\* What an apply has brought about so far
ApplyOK(l) ==
    /\ cmd[l].at \in {"networks", "bypasses", "nodes", "wires", "configs"} => l \in exists
    /\ At(l, "bypasses") => Bridges(Topo(l)) \subseteq nets[l]
    /\ cmd[l].at \in {"nodes", "wires", "configs"} => nets[l] = Bridges(Topo(l))
    /\ cmd[l].at \in {"wires", "configs"} => Wanted(Topo(l)) \subseteq Have(l)
    /\ At(l, "configs") => \A n \in Have(l) : Wiring(Topo(l), n) \subseteq nodes[n].wires

\* What a start and a push-configs have brought about so far
Runs(n, fw) == nodes[n].on /\ nodes[n].disk = Rendering(fw)
Fresh(n, fw) == nodes[n].selected /\ nodes[n].text = Rendering(fw) /\ nodes[n].disk = "wiped"
BootOK(l) ==
    /\ cmd[l].at \in {"wipe", "boot"} => cmd[l].todo \subseteq Have(l)
    /\ At(l, "wipe") => cmd[l].todo = Have(l)
    /\ At(l, "boot") /\ cmd[l].does = "push" =>
           \A n \in Have(l) : IF n \in cmd[l].todo THEN Fresh(n, cmd[l].fw) ELSE Runs(n, cmd[l].fw)
    /\ At(l, "answer") => \A n \in Have(l) : Runs(n, cmd[l].fw)
    /\ l = Scratch /\ cmd[l].at \in {"wipe", "boot"} => OwnMacs(l)
    /\ l = Scratch => \A n \in Have(l) : nodes[n].on => nodes[n].own

\* What the history says of the lab is so
SettledOK(l) ==
    /\ settled[l] # "no" => /\ cmd[l].does = "push" \/ (cmd[l].does = "apply" /\ At(l, "done"))
                            /\ nets[l] = Bridges(Now(l)) /\ Wanted(Now(l)) \subseteq Have(l)
                            /\ \A n \in Have(l) : nodes[n].wires = Wiring(Now(l), n)
    /\ settled[l] = "pushed" => At(l, "done") /\ \A n \in Have(l) : Runs(n, Flag(l))

\* Unless somebody was careless, what EVE-NG holds and what a command under way
\* read agree with lab.firewalls
CarefulOK ==
    ~careless =>
        /\ \A l \in Labs : Under(l) => cmd[l].fw = Flag(l)
        /\ \A n \in Have("enterprise") : Firewall(env.topo["enterprise"], n) => firewalls
        /\ Scratch \in exists \/ At(Scratch, "create") => ~firewalls

LabOK(l) == NodesOK(l) /\ StepsOK(l) /\ ApplyOK(l) /\ BootOK(l) /\ SettledOK(l)

IInv == TypeOK /\ CarefulOK /\ \A l \in Labs : LabOK(l)
=============================================================================
