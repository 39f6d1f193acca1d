----------------------------- MODULE EveLabProofs -----------------------------
(***************************************************************************)
(* Theorems about EveLab, for any topology files of the two labs, any      *)
(* number of commands and edits.  The argument is the inductive invariant  *)
(* IInv of EveLab: what EVE-NG holds of a lab, what a command has brought  *)
(* about at each of its steps, and that a careful person's flag agrees     *)
(* with what runs.                                                         *)
(***************************************************************************)
EXTENDS EveLab, WellFoundedInduction, TLAPS

-----------------------------------------------------------------------------
(* Facts about the files *)

\* A set of naturals that is not empty has a least element.
LEMMA LeastExists ==
    ASSUME NEW S \in SUBSET Nat, S # {}
    PROVE  \E v \in S : \A w \in S : v <= w
<1>1. PICK v \in S : \A w \in S : <<w, v>> \notin OpToRel(<, Nat)
  BY NatLessThanWellFounded, WFMin
<1>2. \A w \in S : ~(w < v)
  BY <1>1 DEF OpToRel
<1> QED
  BY <1>2

\* The first of the nodes left is one of them.
LEMMA FirstIsLeft ==
    ASSUME NEW T, T.nodes \in Seq(Routers), NEW left, left \subseteq NodesOf(T), left # {}
    PROVE  FirstOf(T, left) \in left
<1> DEFINE Places == {i \in DOMAIN T.nodes : T.nodes[i] \in left}
<1>1. DOMAIN T.nodes = 1 .. Len(T.nodes) /\ Len(T.nodes) \in Nat
  OBVIOUS
<1>2. Places \in SUBSET Nat /\ Places # {}
  BY <1>1 DEF NodesOf
<1>3. PICK i \in Places : \A j \in Places : i <= j
  BY <1>2, LeastExists
<1>4. i \in DOMAIN T.nodes /\ T.nodes[i] \in left /\ \A j \in 1 .. i - 1 : T.nodes[j] \notin left
  BY <1>1, <1>3
<1> QED
  BY <1>4 DEF FirstOf

\* The file of lab l with lab.firewalls set to fw
With(l, fw) == [env.topo[l] EXCEPT !.firewalls = fw]

\* There are two labs.
LEMMA LabNames == "enterprise" \in Labs /\ Scratch \in Labs /\ Scratch # "enterprise" /\ \A l \in Labs : l = "enterprise" \/ l = Scratch
  BY DEF Labs, Scratch

\* The file of each lab is one that derive.py and build.py can read.
LEMMA FileOK ==
    ASSUME env \in Environments, NEW l \in Labs
    PROVE  TopologyOK(env.topo[l])
  BY TopologyAssumption DEF Labs

\* No node is in both files.
LEMMA Apart ==
    ASSUME env \in Environments, NEW l \in Labs, NEW k \in Labs, l # k
    PROVE  NodesOf(env.topo[l]) \cap NodesOf(env.topo[k]) = {}
  BY TopologyAssumption DEF Labs

\* Only the flag of a file changes, and with it the bypasses.
LEMMA WithFacts ==
    ASSUME env \in Environments, NEW l \in Labs, NEW fw \in BOOLEAN
    PROVE  /\ With(l, fw).firewalls = fw /\ With(l, fw).nodes = env.topo[l].nodes
           /\ With(l, fw).links = env.topo[l].links /\ With(l, fw).platform = env.topo[l].platform
           /\ With(l, fw).role = env.topo[l].role
           /\ NodesOf(With(l, fw)) = NodesOf(env.topo[l])
           /\ NodesOf(env.topo[l]) \subseteq Routers
           /\ ActiveLinks(With(l, fw)) = {i \in DOMAIN env.topo[l].links : ~(env.topo[l].links[i].bypass /\ fw)}
           /\ ActiveLinks(With(l, fw)) \subseteq Nat \ {0}
<1>1. TopologyOK(env.topo[l])
  BY FileOK
<1>2. /\ With(l, fw).firewalls = fw /\ With(l, fw).nodes = env.topo[l].nodes
      /\ With(l, fw).links = env.topo[l].links /\ With(l, fw).platform = env.topo[l].platform
      /\ With(l, fw).role = env.topo[l].role
  BY <1>1 DEF With, TopologyOK
<1>3. NodesOf(With(l, fw)) = NodesOf(env.topo[l]) /\ NodesOf(env.topo[l]) \subseteq Routers
  BY <1>1, <1>2 DEF NodesOf, TopologyOK
<1>4. ActiveLinks(With(l, fw)) = {i \in DOMAIN env.topo[l].links : ~(env.topo[l].links[i].bypass /\ fw)}
  BY <1>2 DEF ActiveLinks
<1>5. DOMAIN env.topo[l].links \subseteq Nat \ {0}
  BY <1>1 DEF TopologyOK
<1> QED
  BY <1>2, <1>3, <1>4, <1>5

\* The first port of a router is 1, so its index is a number too.
LEMMA PortIndex == ASSUME NEW p, NEW port \in Nat \ {0} PROVE IfaceIndex(p, port) \in Nat
  BY DEF IfaceIndex

\* The wires a setting asks for are those of all settings whose bridges are there.
LEMMA WiringFacts ==
    ASSUME env \in Environments, NEW l \in Labs, NEW fw \in BOOLEAN, NEW n
    PROVE  /\ Wiring(With(l, fw), n) = {w \in Cables(l, n) : w[2] \in Bridges(With(l, fw))}
           /\ Cables(l, n) \subseteq Nat \X Nat
<1> DEFINE P == env.topo[l].platform[n]
           K == env.topo[l].links
           A(f) == ActiveLinks(With(l, f))
           W(f) == {<<0, 0>>} \cup {<<IfaceIndex(P, K[i].a[2]), i>> : i \in {i \in A(f) : K[i].a[1] = n}}
                              \cup {<<IfaceIndex(P, K[i].b[2]), i>> : i \in {i \in A(f) : K[i].b[1] = n}}
<1>1. \A f \in BOOLEAN : Wiring(With(l, f), n) = W(f)
  BY WithFacts DEF Wiring
<1>2. Cables(l, n) = W(FALSE)
  BY <1>1 DEF Cables, With
<1>3. A(fw) \subseteq A(FALSE) /\ A(FALSE) \subseteq Nat \ {0} /\ Bridges(With(l, fw)) = {0} \cup A(fw)
  BY WithFacts DEF Bridges
<1>4. A(FALSE) \subseteq DOMAIN K
  BY WithFacts
<1>5. \A i \in A(FALSE) : IfaceIndex(P, K[i].a[2]) \in Nat /\ IfaceIndex(P, K[i].b[2]) \in Nat
  <2>1. \A i \in DOMAIN K : K[i].a[2] \in Nat \ {0} /\ K[i].b[2] \in Nat \ {0}
    BY FileOK DEF TopologyOK
  <2> HIDE DEF A, K, P
  <2> QED
    BY <1>4, <2>1, PortIndex
<1> DEFINE End(w, i) == \/ K[i].a[1] = n /\ w = <<IfaceIndex(P, K[i].a[2]), i>>
                        \/ K[i].b[1] = n /\ w = <<IfaceIndex(P, K[i].b[2]), i>>
<1>8. \A f, w : w \in W(f) <=> w = <<0, 0>> \/ \E i \in A(f) : End(w, i)
  <2> HIDE DEF A, K, P
  <2> QED
    OBVIOUS
<1>9. \A w, i : End(w, i) => w[2] = i
  <2> HIDE DEF K, P
  <2> QED
    OBVIOUS
<1>6. W(fw) = {w \in W(FALSE) : w[2] \in {0} \cup A(fw)}
  <2> HIDE DEF A, K, P, W, End
  <2>1. ASSUME NEW w, w \in W(fw) PROVE w \in W(FALSE) /\ w[2] \in {0} \cup A(fw)
    <3>1. CASE w = <<0, 0>>
      BY <1>8, <3>1
    <3>2. ASSUME NEW i \in A(fw), End(w, i) PROVE w \in W(FALSE) /\ w[2] \in {0} \cup A(fw)
      BY <1>3, <1>8, <1>9, <3>2
    <3> QED
      BY <1>8, <2>1, <3>1, <3>2
  <2>2. ASSUME NEW w \in W(FALSE), w[2] \in {0} \cup A(fw) PROVE w \in W(fw)
    <3>1. CASE w = <<0, 0>>
      BY <1>8, <3>1
    <3>2. ASSUME NEW i \in A(FALSE), End(w, i) PROVE w \in W(fw)
      <4>1. w[2] = i /\ i # 0
        BY <1>3, <1>9, <3>2
      <4> QED
        BY <1>8, <2>2, <3>2, <4>1
    <3> QED
      BY <1>8, <3>1, <3>2
  <2> QED
    BY <2>1, <2>2
<1>7. W(FALSE) \subseteq Nat \X Nat
  <2> SUFFICES ASSUME NEW w, w \in W(FALSE) PROVE w \in Nat \X Nat
    OBVIOUS
  <2>1. CASE w = <<0, 0>>
    BY <2>1
  <2>2. ASSUME NEW i \in A(FALSE), End(w, i) PROVE w \in Nat \X Nat
    <3>1. i \in Nat /\ IfaceIndex(P, K[i].a[2]) \in Nat /\ IfaceIndex(P, K[i].b[2]) \in Nat
      BY <1>3, <1>5
    <3> HIDE DEF A, K, P
    <3> QED
      BY <2>2, <3>1
  <2> HIDE DEF W, A, End
  <2> QED
    BY <1>8, <2>1, <2>2
<1> QED
  BY <1>1, <1>2, <1>3, <1>6, <1>7

\* What a command and lab.firewalls say of a file.
LEMMA Settings ==
    ASSUME TypeOK, NEW l \in Labs
    PROVE  /\ Topo(l) = With(l, cmd[l].fw) /\ cmd[l].fw \in BOOLEAN
           /\ Now(l) = With(l, Flag(l)) /\ Flag(l) \in BOOLEAN
           /\ \A n : Cables(l, n) = Wiring(With(l, FALSE), n)
  BY DEF TypeOK, Command, Topo, Now, With, Flag, Cables

-----------------------------------------------------------------------------
(* Facts about commands *)

\* The steps of a command, one by one.
LEMMA CommandTasks ==
    /\ "done" \in CommandTask /\ "failed" \in CommandTask /\ "guards" \in CommandTask /\ "create" \in CommandTask
    /\ "networks" \in CommandTask /\ "bypasses" \in CommandTask /\ "nodes" \in CommandTask /\ "wires" \in CommandTask
    /\ "configs" \in CommandTask /\ "macs" \in CommandTask /\ "targets" \in CommandTask /\ "wipe" \in CommandTask
    /\ "boot" \in CommandTask /\ "answer" \in CommandTask /\ "off" \in CommandTask /\ "remove" \in CommandTask
  BY DEF CommandTask

\* The command of l goes on as `step` with `todo` left, and no other command.
Moves(l, step, todo) ==
    /\ cmd' \in [Labs -> Command]
    /\ cmd'[l].at = step /\ cmd'[l].todo = todo
    /\ cmd'[l].does = cmd[l].does /\ cmd'[l].fw = cmd[l].fw /\ cmd'[l].clean = cmd[l].clean
    /\ \A k \in Labs : k # l => cmd'[k] = cmd[k]

\* A command that goes on keeps its list.
LEMMA GoesMoves ==
    ASSUME TypeOK, NEW l \in Labs, NEW step \in CommandTask, Goes(l, step)
    PROVE  Moves(l, step, cmd[l].todo)
  BY DEF TypeOK, Goes, Moves, Command

\* A command that goes on with another list: the nodes left to boot or to wipe.
LEMMA ListMoves ==
    ASSUME TypeOK, NEW l \in Labs, NEW step \in CommandTask, NEW todo \in SUBSET Routers,
           \/ cmd' = [cmd EXCEPT ![l].at = step, ![l].todo = todo]
           \/ At(l, step) /\ cmd' = [cmd EXCEPT ![l].todo = todo]
    PROVE  Moves(l, step, todo)
<1>1. CASE cmd' = [cmd EXCEPT ![l].at = step, ![l].todo = todo]
  <2>1. cmd[l] \in Command /\ cmd \in [Labs -> Command]
    BY DEF TypeOK
  <2> DEFINE new == [cmd[l] EXCEPT !.at = step, !.todo = todo]
  <2>2. /\ new \in Command /\ new.at = step /\ new.todo = todo
        /\ new.does = cmd[l].does /\ new.fw = cmd[l].fw /\ new.clean = cmd[l].clean
    BY <2>1 DEF Command
  <2>3. cmd' = [cmd EXCEPT ![l] = new]
    BY <1>1
  <2> QED
    BY <2>1, <2>2, <2>3 DEF Moves
<1>2. CASE At(l, step) /\ cmd' = [cmd EXCEPT ![l].todo = todo]
  <2>1. cmd[l] \in Command /\ cmd \in [Labs -> Command] /\ cmd[l].at = step
    BY <1>2 DEF TypeOK, At
  <2> DEFINE new == [cmd[l] EXCEPT !.todo = todo]
  <2>2. /\ new \in Command /\ new.at = step /\ new.todo = todo
        /\ new.does = cmd[l].does /\ new.fw = cmd[l].fw /\ new.clean = cmd[l].clean
    BY <2>1 DEF Command
  <2>3. cmd' = [cmd EXCEPT ![l] = new]
    BY <1>2
  <2> QED
    BY <2>1, <2>2, <2>3 DEF Moves
<1> QED
  BY <1>1, <1>2

\* A command that has more to do at its step.
LEMMA StaysMoves ==
    ASSUME TypeOK, NEW l \in Labs, Stays
    PROVE  Moves(l, cmd[l].at, cmd[l].todo)
  BY DEF TypeOK, Stays, Moves

\* What the history may become: what it was, or one word for one lab.
LEMMA EndsMoves ==
    ASSUME TypeOK, NEW l \in Labs, NEW s \in {"no", "applied", "pushed"}, Ends(l, s)
    PROVE  /\ Moves(l, "done", cmd[l].todo) /\ settled' \in [Labs -> {"no", "applied", "pushed"}]
           /\ settled'[l] = s /\ \A k \in Labs : k # l => settled'[k] = settled[k]
<1>1. Goes(l, "done") /\ settled' = [settled EXCEPT ![l] = s]
  BY DEF Ends
<1> QED
  BY <1>1, GoesMoves, CommandTasks DEF TypeOK

\* One node changes, and stays a node of its lab.
LEMMA SetNode ==
    ASSUME TypeOK, NEW n \in Routers, NEW new \in Node, Set(n, new)
    PROVE  /\ nodes' \in [Routers -> Node] /\ nodes'[n] = new
           /\ \A m \in Routers : m # n => nodes'[m] = nodes[m]
  BY DEF TypeOK, Set

-----------------------------------------------------------------------------
(* Frames *)

\* A step that leaves everything but one lab alone
LocalTo(l) ==
    /\ env' = env /\ firewalls' = firewalls
    /\ \A k \in Labs : k # l => /\ nets'[k] = nets[k] /\ cmd'[k] = cmd[k] /\ settled'[k] = settled[k]
                                /\ k \in exists' <=> k \in exists
    /\ \A n \in Routers : n \notin NodesOf(env.topo[l]) => nodes'[n] = nodes[n]

\* What a lab's part of the invariant looks at.
LEMMA LabStays ==
    ASSUME TypeOK, NEW k \in Labs, LabOK(k), env' = env, Flag(k)' = Flag(k), nets'[k] = nets[k],
           cmd'[k] = cmd[k], settled'[k] = settled[k], k \in exists' <=> k \in exists,
           \A n \in NodesOf(env.topo[k]) : nodes'[n] = nodes[n]
    PROVE  LabOK(k)'
<1>1. /\ Topo(k)' = Topo(k) /\ Now(k)' = Now(k) /\ env'.topo[k] = env.topo[k]
      /\ \A n : Cables(k, n)' = Cables(k, n)
  BY DEF Topo, Now, Cables
<1>2. Have(k)' = Have(k) /\ Have(k) \subseteq NodesOf(env.topo[k])
  BY DEF Have
<1>3. NodesOK(k)'
  BY <1>1 DEF LabOK, NodesOK
<1>4. StepsOK(k)'
  BY DEF LabOK, StepsOK, At
<1>5. ApplyOK(k)'
  BY <1>1, <1>2 DEF LabOK, ApplyOK, At
<1>6. BootOK(k)'
  BY <1>1, <1>2 DEF LabOK, BootOK, At, Fresh, Runs, OwnMacs
<1>7. SettledOK(k)'
  BY <1>1, <1>2 DEF LabOK, SettledOK, At, Runs
<1> QED
  BY <1>3, <1>4, <1>5, <1>6, <1>7 DEF LabOK

\* A step of one lab leaves what the other lab's part of the invariant looks at.
LEMMA OthersStay ==
    ASSUME IInv, NEW l \in Labs, LocalTo(l), NEW k \in Labs, k # l
    PROVE  LabOK(k)'
<1>1. Flag(k)' = Flag(k)
  BY DEF LocalTo, Flag
<1>2. \A n \in NodesOf(env.topo[k]) : n \in Routers /\ n \notin NodesOf(env.topo[l])
  BY Apart, WithFacts DEF IInv, TypeOK
<1> QED
  BY <1>1, <1>2, LabStays DEF IInv, LocalTo

\* A careful person stays careful while no command starts, no firewall comes and
\* the skills lab is not made.
LEMMA CarefulStays ==
    ASSUME IInv, env' = env, firewalls' = firewalls, careless' = careless,
           \A k \in Labs : Under(k)' => Under(k) /\ cmd'[k].fw = cmd[k].fw,
           \A n \in Have("enterprise")' : Firewall(env.topo["enterprise"], n) => n \in Have("enterprise") \/ firewalls \/ careless,
           Scratch \in exists' \/ At(Scratch, "create")' => Scratch \in exists \/ At(Scratch, "create") \/ ~firewalls
    PROVE  CarefulOK'
<1>1. \A k \in Labs : Flag(k)' = Flag(k)
  BY DEF Flag
<1> QED
  BY <1>1 DEF IInv, CarefulOK

\* The bridges and the wires of the file's setting and of the command's.
LEMMA Matters ==
    ASSUME TypeOK, NEW l \in Labs
    PROVE  /\ env \in Environments /\ NodesOf(env.topo[l]) \subseteq Routers /\ Have(l) \subseteq NodesOf(env.topo[l])
           /\ NodesOf(Topo(l)) = NodesOf(env.topo[l]) /\ NodesOf(Now(l)) = NodesOf(env.topo[l])
           /\ Topo(l).nodes \in Seq(Routers) /\ env.topo[l].nodes \in Seq(Routers)
           /\ Topo(l).firewalls = cmd[l].fw /\ Now(l).firewalls = Flag(l)
           /\ Bridges(Topo(l)) \subseteq Nat
           /\ \A n : /\ Wiring(Topo(l), n) = {w \in Cables(l, n) : w[2] \in Bridges(Topo(l))}
                     /\ Wiring(Now(l), n) = {w \in Cables(l, n) : w[2] \in Bridges(Now(l))}
                     /\ Cables(l, n) \subseteq Nat \X Nat
                     /\ Firewall(Topo(l), n) = Firewall(env.topo[l], n)
                     /\ Firewall(Now(l), n) = Firewall(env.topo[l], n)
<1>1. env \in Environments /\ Have(l) \subseteq NodesOf(env.topo[l])
  BY DEF TypeOK, Have
<1>2. TopologyOK(env.topo[l])
  BY <1>1, FileOK
<1>3. PICK f \in BOOLEAN, g \in BOOLEAN : /\ f = cmd[l].fw /\ Topo(l) = With(l, f)
                                       /\ g = Flag(l) /\ Now(l) = With(l, g)
  BY Settings
<1>4. /\ With(l, f).firewalls = f /\ With(l, f).nodes = env.topo[l].nodes /\ With(l, f).role = env.topo[l].role
      /\ NodesOf(With(l, f)) = NodesOf(env.topo[l]) /\ NodesOf(env.topo[l]) \subseteq Routers
      /\ ActiveLinks(With(l, f)) \subseteq Nat \ {0}
  BY <1>1, WithFacts
<1>5. /\ With(l, g).firewalls = g /\ With(l, g).role = env.topo[l].role
      /\ NodesOf(With(l, g)) = NodesOf(env.topo[l])
  BY <1>1, WithFacts
<1>6. \A n : /\ Wiring(With(l, f), n) = {w \in Cables(l, n) : w[2] \in Bridges(With(l, f))}
             /\ Wiring(With(l, g), n) = {w \in Cables(l, n) : w[2] \in Bridges(With(l, g))}
             /\ Cables(l, n) \subseteq Nat \X Nat
  BY <1>1, WiringFacts
<1>7. Bridges(Topo(l)) \subseteq Nat
  BY <1>3, <1>4 DEF Bridges
<1>8. \A n : /\ Firewall(Topo(l), n) = Firewall(env.topo[l], n)
             /\ Firewall(Now(l), n) = Firewall(env.topo[l], n)
  BY <1>3, <1>4, <1>5 DEF Firewall
<1>9. Topo(l).nodes \in Seq(Routers) /\ env.topo[l].nodes \in Seq(Routers)
  BY <1>2, <1>3, <1>4 DEF TopologyOK
<1> QED
  BY <1>1, <1>3, <1>4, <1>5, <1>6, <1>7, <1>8, <1>9

-----------------------------------------------------------------------------
(* Steps that make, wire and remove nothing: power and configurations *)

\* What such a step leaves of the nodes, and that it boots only what has its MAC
NodesStep(l) ==
    /\ nodes' \in [Routers -> Node]
    /\ \A n \in Routers : /\ nodes'[n].made = nodes[n].made /\ nodes'[n].own = nodes[n].own /\ nodes'[n].wires = nodes[n].wires
                          /\ n \notin Have(l) => nodes'[n] = nodes[n]
    /\ \A n \in Have(l) : nodes'[n].selected => nodes'[n].text # "none"
    /\ l = Scratch => \A n \in Have(l) : nodes'[n].on => nodes[n].own
Quiet(l) ==
    /\ UNCHANGED <<env, exists, nets, firewalls, borrower, edits, careless, given>>
    /\ NodesStep(l) /\ Under(l)

\* Such a step leaves the files and what EVE-NG holds, so NodesOK too.
LEMMA QuietMeans ==
    ASSUME IInv, NEW l \in Labs, NEW step, NEW todo, Quiet(l), Moves(l, step, todo)
    PROVE  /\ Have(l)' = Have(l) /\ Topo(l)' = Topo(l) /\ Now(l)' = Now(l) /\ Flag(l)' = Flag(l)
           /\ \A n : Cables(l, n)' = Cables(l, n)
           /\ NodesOK(l)'
           /\ l = Scratch => \A n \in Have(l) : nodes'[n].on => nodes'[n].own
<1>1. /\ env' = env /\ exists' = exists /\ nets' = nets /\ firewalls' = firewalls /\ cmd'[l].fw = cmd[l].fw
  BY DEF Quiet, Moves
<1>2. Topo(l)' = Topo(l) /\ Now(l)' = Now(l) /\ Flag(l)' = Flag(l) /\ \A n : Cables(l, n)' = Cables(l, n)
  BY <1>1 DEF Topo, Now, Flag, Cables
<1>3. /\ TypeOK /\ NodesOK(l) /\ NodesOf(env.topo[l]) \subseteq Routers /\ Have(l) \subseteq NodesOf(env.topo[l])
  BY Matters DEF IInv, LabOK
<1>4. \A n \in NodesOf(env.topo[l]) : nodes'[n].made = nodes[n].made
  BY <1>3 DEF Quiet, NodesStep
<1>5. Have(l)' = Have(l)
  BY <1>1, <1>4 DEF Have
<1>6. NodesOK(l)'
  <2> SUFFICES ASSUME NEW n \in NodesOf(env.topo[l])
               PROVE  /\ IF nodes'[n].made THEN l \in exists ELSE nodes'[n] = Absent
                      /\ nodes'[n].selected => nodes'[n].text # "none"
                      /\ nodes'[n].wires \subseteq Cables(l, n)
                      /\ \A w \in nodes'[n].wires : w[2] \in nets[l]
    BY <1>1, <1>2 DEF NodesOK
  <2>1. nodes'[n].made = nodes[n].made /\ nodes'[n].wires = nodes[n].wires
    BY <1>3 DEF Quiet, NodesStep
  <2>2. ~nodes[n].made => nodes'[n] = nodes[n]
    BY <1>3 DEF Quiet, NodesStep, Have
  <2>3. nodes'[n].selected => nodes'[n].text # "none"
    <3>1. CASE n \in Have(l)
      BY <3>1 DEF Quiet, NodesStep
    <3>2. CASE n \notin Have(l)
      BY <1>3, <3>2 DEF Quiet, NodesStep, NodesOK
    <3> QED
      BY <3>1, <3>2
  <2> QED
    BY <1>3, <2>1, <2>2, <2>3 DEF NodesOK
<1>7. l = Scratch => \A n \in Have(l) : nodes'[n].on => nodes'[n].own
  BY <1>3 DEF Quiet, NodesStep
<1> QED
  BY <1>2, <1>5, <1>6, <1>7

\* Such a step keeps all there is, once the lab's own conjuncts are seen to.
LEMMA QuietKeeps ==
    ASSUME IInv, NEW l \in Labs, NEW step \in CommandTask, NEW todo, Quiet(l), Moves(l, step, todo),
           settled' \in [Labs -> {"no", "applied", "pushed"}], \A k \in Labs : k # l => settled'[k] = settled[k],
           step \notin {"networks", "bypasses", "nodes", "wires"}, step = "configs" => At(l, "configs"),
           step = "create" /\ l = Scratch => ~firewalls,
           StepsOK(l)', BootOK(l)', SettledOK(l)'
    PROVE  IInv'
<1>1. TypeOK'
  BY DEF IInv, TypeOK, Quiet, NodesStep, Moves
<1>2. /\ Have(l)' = Have(l) /\ Topo(l)' = Topo(l) /\ NodesOK(l)' /\ Flag(l)' = Flag(l)
      /\ cmd'[l].at = step /\ nets' = nets /\ exists' = exists
  BY QuietMeans DEF Quiet, Moves
<1>3. ApplyOK(l)'
  <2> SUFFICES ASSUME step = "configs"
               PROVE  /\ l \in exists /\ nets[l] = Bridges(Topo(l)) /\ Wanted(Topo(l)) \subseteq Have(l)
                      /\ \A n \in Have(l) : Wiring(Topo(l), n) \subseteq nodes'[n].wires
    BY <1>2 DEF ApplyOK, At
  <2>1. \A n \in Have(l) : nodes'[n].wires = nodes[n].wires
    BY Matters DEF IInv, Quiet, NodesStep
  <2>2. At(l, "configs")
    OBVIOUS
  <2> QED
    BY <2>1, <2>2 DEF IInv, LabOK, ApplyOK, At
<1>4. LabOK(l)'
  BY <1>2, <1>3 DEF LabOK
<1>5. LocalTo(l)
  <2>1. \A n \in Routers : n \notin NodesOf(env.topo[l]) => nodes'[n] = nodes[n]
    BY Matters DEF IInv, Quiet, NodesStep
  <2> QED
    BY <2>1 DEF LocalTo, Quiet, Moves
<1>6. CarefulOK'
  <2>1. Have("enterprise")' = Have("enterprise")
    <3>1. NodesOf(env.topo["enterprise"]) \subseteq Routers
      BY Matters, LabNames DEF IInv
    <3>2. \A n \in NodesOf(env.topo["enterprise"]) : nodes'[n].made = nodes[n].made
      BY <3>1 DEF Quiet, NodesStep
    <3> QED
      BY <1>5, <3>2 DEF LocalTo, Have
  <2>2. \A k \in Labs : Under(k)' => Under(k) /\ cmd'[k].fw = cmd[k].fw
    BY DEF Moves, Quiet, Under
  <2>3. Scratch \in exists' \/ At(Scratch, "create")' => Scratch \in exists \/ At(Scratch, "create") \/ ~firewalls
    BY LabNames DEF Quiet, Moves, At
  <2> QED
    BY <2>1, <2>2, <2>3, CarefulStays DEF Quiet
<1> QED
  BY <1>1, <1>4, <1>5, <1>6, OthersStay DEF IInv

\* A command that fails at such a step.
LEMMA FailKeeps ==
    ASSUME IInv, NEW l \in Labs, Quiet(l), Fails(l)
    PROVE  IInv'
<1>1. Moves(l, "failed", cmd[l].todo) /\ settled' = settled /\ "failed" \in CommandTask
  BY GoesMoves, CommandTasks DEF Fails, IInv
<1>2. TypeOK /\ StepsOK(l) /\ SettledOK(l)
  BY DEF IInv, LabOK
<1>3. /\ Have(l)' = Have(l) /\ Now(l)' = Now(l) /\ Flag(l)' = Flag(l)
      /\ l = Scratch => \A n \in Have(l) : nodes'[n].on => nodes'[n].own
  BY <1>1, QuietMeans
<1>4. StepsOK(l)'
  BY <1>1, <1>2, <1>3 DEF StepsOK, Moves, At
<1>5. BootOK(l)'
  BY <1>1, <1>3 DEF BootOK, Moves, At
<1>6. SettledOK(l)'
  <2>1. settled[l] # "pushed"
    BY <1>2 DEF SettledOK, Quiet, Under, At
  <2>2. \A n \in Have(l) : nodes'[n].wires = nodes[n].wires
    BY <1>2, Matters DEF Quiet, NodesStep
  <2>3. nets' = nets /\ cmd'[l].does = cmd[l].does
    BY <1>1 DEF Quiet, Moves
  <2>4. ~At(l, "done")
    BY DEF Quiet, Under, At
  <2> QED
    BY <1>1, <1>2, <1>3, <2>1, <2>2, <2>3, <2>4 DEF SettledOK
<1>7. settled' \in [Labs -> {"no", "applied", "pushed"}]
  BY <1>1, <1>2 DEF TypeOK
<1> QED
  BY <1>1, <1>4, <1>5, <1>6, <1>7, QuietKeeps

\* No node changes, or one that EVE-NG holds.
LEMMA NoNode ==
    ASSUME IInv, NEW l \in Labs, nodes' = nodes
    PROVE  NodesStep(l)
<1>1. \A n \in Have(l) : nodes[n].selected => nodes[n].text # "none"
  BY Matters DEF IInv, LabOK, NodesOK
<1> QED
  BY <1>1 DEF IInv, TypeOK, LabOK, BootOK, NodesStep

\* One node that EVE-NG holds is stopped, booted, wiped or given a configuration.
LEMMA OneNode ==
    ASSUME IInv, NEW l \in Labs, NEW n \in Have(l), NEW new \in Node, Set(n, new),
           new.made = nodes[n].made, new.own = nodes[n].own, new.wires = nodes[n].wires,
           l = Scratch /\ new.on => new.own, new.selected => new.text # "none"
    PROVE  NodesStep(l) /\ n \in Routers /\ nodes'[n] = new /\ \A m \in Have(l) : m # n => nodes'[m] = nodes[m]
<1>1. n \in Routers /\ Have(l) \subseteq Routers
  BY Matters DEF IInv
<1>2. /\ nodes' \in [Routers -> Node] /\ nodes'[n] = new
      /\ \A m \in Routers : m # n => nodes'[m] = nodes[m]
  BY <1>1, SetNode DEF IInv
<1>3. l = Scratch => \A m \in Have(l) : nodes[m].on => nodes[m].own
  BY DEF IInv, LabOK, BootOK
<1>4. \A m \in Have(l) : nodes[m].selected => nodes[m].text # "none"
  BY Matters DEF IInv, LabOK, NodesOK
<1> QED
  BY <1>1, <1>2, <1>3, <1>4 DEF NodesStep

\* The nodes EVE-NG holds, one of those left, and what they are.
LEMMA Left ==
    ASSUME IInv, NEW l \in Labs, NEW left, left \subseteq Have(l), left # {}
    PROVE  /\ FirstOf(env.topo[l], left) \in left /\ FirstOf(Topo(l), left) \in left
           /\ \A n \in left : nodes[n] \in Node /\ nodes[n].made /\ (nodes[n].selected => nodes[n].text # "none")
<1>1. left \subseteq NodesOf(env.topo[l]) /\ left \subseteq NodesOf(Topo(l)) /\ left \subseteq Routers
  BY Matters DEF IInv
<1>2. FirstOf(env.topo[l], left) \in left /\ FirstOf(Topo(l), left) \in left
  BY <1>1, Matters, FirstIsLeft DEF IInv
<1> QED
  BY <1>1, <1>2, Matters DEF IInv, TypeOK, Have, LabOK, NodesOK

\* memory_guard, and for push-configs that the lab is there: no more is known after.
LEMMA GuardsKeep ==
    ASSUME IInv, NEW l \in Labs, Guards(l)
    PROVE  IInv'
<1>1. Quiet(l)
  BY NoNode DEF Guards, Quiet, Under, At, labVars, fileVars
<1>2. cmd[l].at = "guards" /\ cmd[l].does \in {"apply", "start", "push"} /\ settled' = settled
  BY DEF IInv, LabOK, StepsOK, Guards, At
<1>3. PICK step \in CommandTask :
         /\ Goes(l, step) /\ step \in {"create", "macs", "targets", "failed"}
         /\ step = "create" => cmd[l].does = "apply" /\ MemoryGuard(l)
         /\ step = "macs" => cmd[l].does = "start"
         /\ step = "targets" => cmd[l].does = "push"
  BY <1>2, CommandTasks DEF Guards
<1>4. Moves(l, step, cmd[l].todo)
  BY <1>3, GoesMoves DEF IInv
<1>5. Have(l)' = Have(l) /\ Flag(l)' = Flag(l) /\ Now(l)' = Now(l)
      /\ (l = Scratch => \A n \in Have(l) : nodes'[n].on => nodes'[n].own)
  BY <1>1, <1>4, QuietMeans
<1>6. StepsOK(l)'
  BY <1>3, <1>4, <1>5 DEF IInv, LabOK, StepsOK, Moves, At
<1>7. BootOK(l)'
  BY <1>3, <1>4, <1>5 DEF BootOK, Moves, At
<1>8. SettledOK(l)'
  <2>1. SettledOK(l) /\ nets' = nets /\ nodes' = nodes /\ cmd'[l].does = cmd[l].does
    BY <1>1, <1>4 DEF IInv, LabOK, Guards, labVars, Moves
  <2>2. ~At(l, "done")
    BY <1>2 DEF At
  <2> QED
    BY <1>2, <1>5, <2>1, <2>2 DEF SettledOK
<1>9. step = "create" /\ l = Scratch => ~firewalls
  BY <1>3, LabNames DEF MemoryGuard
<1> QED
  BY <1>1, <1>2, <1>3, <1>4, <1>6, <1>7, <1>8, <1>9, QuietKeeps DEF IInv, TypeOK

\* With the last configuration the apply has ended: nets, nodes and wires are the
\* file's, because nothing is wired that the file's setting does not ask for.
LEMMA ConfigureKeeps ==
    ASSUME IInv, NEW l \in Labs, Configure(l)
    PROVE  IInv'
<1> DEFINE bare == {n \in Have(l) : ~nodes[n].selected /\ ~nodes[n].on}
           n == FirstOf(Topo(l), bare)
           uploaded == [nodes[n] EXCEPT !.text = Rendering(Topo(l).firewalls)]
<1>1. cmd[l].at = "configs" /\ cmd[l].does = "apply" /\ UNCHANGED <<env, exists, nets, firewalls, borrower, edits, careless, given>>
  BY DEF IInv, LabOK, StepsOK, Configure, At, fileVars
<1>2. CASE bare = {} /\ Ends(l, IF cmd[l].clean THEN "applied" ELSE "no") /\ UNCHANGED nodes
  <2>1. PICK s \in {"no", "applied"} : Ends(l, s) /\ (s = "applied" => cmd[l].clean)
    BY <1>2
  <2>2. Moves(l, "done", cmd[l].todo) /\ settled' \in [Labs -> {"no", "applied", "pushed"}] /\ settled'[l] = s
        /\ \A k \in Labs : k # l => settled'[k] = settled[k]
    BY <2>1, EndsMoves DEF IInv
  <2>3. Quiet(l)
    BY <1>1, <1>2, NoNode DEF Quiet, Under
  <2>4. Have(l)' = Have(l) /\ Flag(l)' = Flag(l) /\ Now(l)' = Now(l)
        /\ (l = Scratch => \A m \in Have(l) : nodes'[m].on => nodes'[m].own)
    BY <2>2, <2>3, QuietMeans
  <2>5. StepsOK(l)'
    BY <2>2, <2>4 DEF IInv, LabOK, StepsOK, Moves, At
  <2>6. BootOK(l)'
    BY <2>2, <2>4 DEF BootOK, Moves, At
  <2>7. SettledOK(l)'
    <3> SUFFICES ASSUME s = "applied"
                 PROVE  /\ nets[l] = Bridges(Now(l)) /\ Wanted(Now(l)) \subseteq Have(l)
                        /\ \A m \in Have(l) : nodes[m].wires = Wiring(Now(l), m)
      BY <1>1, <1>2, <2>2, <2>4 DEF SettledOK, Moves, At
    <3>1. Now(l) = Topo(l)
      BY <2>1 DEF IInv, LabOK, StepsOK, Now, Topo
    <3>2. /\ nets[l] = Bridges(Topo(l)) /\ Wanted(Topo(l)) \subseteq Have(l)
          /\ \A m \in Have(l) : Wiring(Topo(l), m) \subseteq nodes[m].wires
      BY <1>1 DEF IInv, LabOK, ApplyOK, At
    <3>3. \A m \in Have(l) : nodes[m].wires \subseteq Cables(l, m) /\ \A w \in nodes[m].wires : w[2] \in nets[l]
      BY Matters DEF IInv, LabOK, NodesOK
    <3>4. \A m : Wiring(Topo(l), m) = {w \in Cables(l, m) : w[2] \in Bridges(Topo(l))}
      BY Matters DEF IInv
    <3> QED
      BY ZenonT(60), <3>1, <3>2, <3>3, <3>4
  <2> QED
    BY <2>2, <2>3, <2>5, <2>6, <2>7, CommandTasks, QuietKeeps
<1>3. CASE bare # {}
  <2>1. n \in bare /\ n \in Have(l) /\ nodes[n] \in Node /\ nodes[n].made /\ ~nodes[n].on
    BY <1>3, Left
  <2>2. Topo(l).firewalls \in BOOLEAN
    BY Matters, Settings DEF IInv
  <2>3. /\ uploaded \in Node /\ [uploaded EXCEPT !.selected = TRUE] \in Node
        /\ \A new \in {uploaded, [uploaded EXCEPT !.selected = TRUE]} :
              new.made = nodes[n].made /\ new.own = nodes[n].own /\ new.wires = nodes[n].wires /\ ~new.on
              /\ new.text # "none"
    BY <2>1, <2>2 DEF Node, Rendering
  <2>4. ASSUME NEW new \in {uploaded, [uploaded EXCEPT !.selected = TRUE]}, Set(n, new) PROVE Quiet(l)
    <3> HIDE DEF uploaded, n
    <3> QED
      BY <1>1, <2>1, <2>3, <2>4, OneNode DEF Quiet, Under
  <2>5. nodes' = nodes => Quiet(l)
    BY <1>1, NoNode DEF Quiet, Under
  <2>6. CASE Set(n, [uploaded EXCEPT !.selected = TRUE]) /\ Stays /\ UNCHANGED settled
    <3>1. Quiet(l)
      BY <2>4, <2>6
    <3>2. Moves(l, "configs", cmd[l].todo) /\ settled' = settled
      BY <1>1, <2>6, StaysMoves DEF IInv
    <3>3. Have(l)' = Have(l) /\ Flag(l)' = Flag(l) /\ Now(l)' = Now(l)
          /\ (l = Scratch => \A m \in Have(l) : nodes'[m].on => nodes'[m].own)
      BY <3>1, <3>2, QuietMeans
    <3>4. StepsOK(l)'
      BY <1>1, <3>2, <3>3 DEF IInv, LabOK, StepsOK, Moves, At
    <3>5. BootOK(l)'
      BY <3>2, <3>3 DEF BootOK, Moves, At
    <3>6. SettledOK(l)'
      BY <1>1, <3>2 DEF IInv, LabOK, SettledOK, At
    <3>7. At(l, "configs") /\ settled' \in [Labs -> {"no", "applied", "pushed"}]
      BY <1>1, <3>2 DEF At, IInv, TypeOK
    <3> QED
      BY <3>1, <3>2, <3>4, <3>5, <3>6, <3>7, CommandTasks, QuietKeeps
  <2>7. CASE Fails(l) /\ nodes' \in {nodes, [nodes EXCEPT ![n] = [uploaded EXCEPT !.selected = TRUE]]}
    BY <2>4, <2>5, <2>7, FailKeeps DEF Set
  <2>8. CASE Fails(l) /\ Set(n, uploaded)
    BY <2>4, <2>8, FailKeeps
  <2> QED
    BY <1>3, <2>6, <2>7, <2>8 DEF Configure, Calls
<1> QED
  BY <1>2, <1>3 DEF Configure

\* Where a push or a start goes from its checks, nodes and history as they were.
LEMMA CheckMacsKeep ==
    ASSUME IInv, NEW l \in Labs, CheckMacs(l)
    PROVE  IInv'
<1>1. Quiet(l)
  BY NoNode DEF CheckMacs, Quiet, Under, labVars, fileVars
<1>2. cmd[l].at \in {"macs", "targets"} /\ settled' = settled /\ nodes' = nodes /\ nets' = nets
  BY DEF CheckMacs, labVars
<1>3. CASE env.failing /\ Goes(l, "failed")
  BY <1>1, <1>2, <1>3, FailKeeps DEF Fails
<1>4. ASSUME NEW step \in CommandTask, NEW todo \in SUBSET Routers, Moves(l, step, todo),
             \/ step = "failed"
             \/ step = "boot" /\ At(l, "macs") /\ todo \subseteq Have(l) /\ OwnMacs(l)
             \/ step = "wipe" /\ At(l, "targets") /\ todo = Have(l) /\ OwnMacs(l)
      PROVE  IInv'
  <2>1. Have(l)' = Have(l) /\ Flag(l)' = Flag(l) /\ Now(l)' = Now(l)
        /\ (l = Scratch => \A n \in Have(l) : nodes'[n].on => nodes'[n].own)
    BY <1>1, <1>4, QuietMeans
  <2>2. StepsOK(l)'
    BY <1>2, <1>4, <2>1 DEF IInv, LabOK, StepsOK, Moves, At
  <2>3. OwnMacs(l)' = OwnMacs(l)
    BY <1>2, <2>1 DEF OwnMacs
  <2>4. BootOK(l)'
    <3>1. At(l, "macs") => cmd[l].does = "start"
      BY DEF IInv, LabOK, StepsOK
    <3> QED
      BY <1>4, <2>1, <2>3, <3>1 DEF BootOK, Moves, At
  <2>5. SettledOK(l)'
    <3>1. SettledOK(l) /\ cmd'[l].does = cmd[l].does /\ ~At(l, "done")
      BY <1>2, <1>4 DEF IInv, LabOK, Moves, At
    <3> QED
      BY <1>2, <2>1, <3>1 DEF SettledOK
  <2> QED
    BY <1>1, <1>2, <1>4, <2>2, <2>4, <2>5, QuietKeeps DEF IInv, TypeOK
<1>5. CASE ~OwnMacs(l) /\ Goes(l, "failed")
  <2>1. Moves(l, "failed", cmd[l].todo) /\ cmd[l].todo \in SUBSET Routers
    BY <1>5, CommandTasks, GoesMoves DEF IInv, TypeOK, Command
  <2> QED
    BY <1>4, <2>1, CommandTasks
<1>6. CASE /\ OwnMacs(l)
           /\ cmd' = [cmd EXCEPT ![l].at = IF At(l, "macs") THEN "boot" ELSE "wipe",
                                ![l].todo = IF At(l, "macs") THEN {n \in Have(l) : ~nodes[n].on} ELSE Have(l)]
  <2>1. Have(l) \in SUBSET Routers /\ {n \in Have(l) : ~nodes[n].on} \in SUBSET Routers
    BY Matters DEF IInv
  <2>2. CASE At(l, "macs")
    <3>1. Moves(l, "boot", {n \in Have(l) : ~nodes[n].on})
      BY <1>6, <2>1, <2>2, CommandTasks, ListMoves DEF IInv
    <3> QED
      BY <1>4, <1>6, <2>1, <2>2, <3>1, CommandTasks
  <2>3. CASE ~At(l, "macs")
    <3>1. Moves(l, "wipe", Have(l))
      BY <1>6, <2>1, <2>3, CommandTasks, ListMoves DEF IInv
    <3>2. At(l, "targets")
      BY <1>2, <2>3 DEF At
    <3> QED
      BY <1>4, <1>6, <2>1, <3>1, <3>2, CommandTasks
  <2> QED
    BY <2>2, <2>3
<1> QED
  BY <1>3, <1>5, <1>6 DEF CheckMacs

\* A push boots fresh nodes from their rendering; the list left is what does not run yet.
LEMMA BootKeeps ==
    ASSUME IInv, NEW l \in Labs, Boot(l)
    PROVE  IInv'
<1> DEFINE left == cmd[l].todo
           first == IF cmd[l].does = "start" THEN {m \in left : ~Firewall(env.topo[l], m)} ELSE {}
           n == FirstOf(env.topo[l], IF first = {} THEN left ELSE first)
<1>1. /\ At(l, "boot") /\ cmd[l].does \in {"start", "push"} /\ left \subseteq Have(l) /\ (l = Scratch => OwnMacs(l))
      /\ UNCHANGED <<env, exists, nets, firewalls, borrower, edits, careless, given>>
  BY DEF IInv, LabOK, StepsOK, BootOK, Boot, At, fileVars
<1>2. Under(l)
  BY <1>1 DEF Under, At
<1>3. CASE left = {} /\ UNCHANGED nodes
  <2>1. Quiet(l)
    BY <1>1, <1>2, <1>3, NoNode DEF Quiet
  <2>2. CASE cmd[l].does = "start" /\ Ends(l, "no")
    <3>1. Moves(l, "done", cmd[l].todo) /\ settled' \in [Labs -> {"no", "applied", "pushed"}] /\ settled'[l] = "no"
          /\ \A k \in Labs : k # l => settled'[k] = settled[k]
      BY <2>2, EndsMoves DEF IInv
    <3>2. Have(l)' = Have(l) /\ Flag(l)' = Flag(l)
          /\ (l = Scratch => \A m \in Have(l) : nodes'[m].on => nodes'[m].own)
      BY <2>1, <3>1, QuietMeans
    <3>3. StepsOK(l)'
      BY <3>1, <3>2 DEF IInv, LabOK, StepsOK, Moves, At
    <3>4. BootOK(l)'
      BY <3>1, <3>2 DEF BootOK, Moves, At
    <3>5. SettledOK(l)'
      BY <3>1 DEF SettledOK
    <3> QED
      BY <2>1, <3>1, <3>3, <3>4, <3>5, CommandTasks, QuietKeeps
  <2>3. CASE cmd[l].does = "push" /\ Goes(l, "answer") /\ UNCHANGED settled
    <3>1. Moves(l, "answer", cmd[l].todo)
      BY <2>3, CommandTasks, GoesMoves DEF IInv
    <3>2. Have(l)' = Have(l) /\ Flag(l)' = Flag(l) /\ Now(l)' = Now(l)
          /\ (l = Scratch => \A m \in Have(l) : nodes'[m].on => nodes'[m].own)
      BY <2>1, <3>1, QuietMeans
    <3>3. StepsOK(l)'
      BY <2>3, <3>1, <3>2 DEF IInv, LabOK, StepsOK, Moves, At
    <3>4. \A m \in Have(l) : Runs(m, cmd[l].fw)
      BY <1>1, <1>3, <2>3 DEF IInv, LabOK, BootOK
    <3>5. BootOK(l)'
      BY <1>3, <3>1, <3>2, <3>4 DEF BootOK, Runs, Moves, At
    <3>6. SettledOK(l)'
      <4>1. SettledOK(l) /\ cmd'[l].does = cmd[l].does /\ ~At(l, "done") /\ nets' = nets
        BY <1>1, <3>1 DEF IInv, LabOK, Moves, At
      <4> QED
        BY <1>3, <2>3, <3>2, <4>1 DEF SettledOK
    <3> QED
      BY <2>1, <2>3, <3>1, <3>3, <3>5, <3>6, CommandTasks, QuietKeeps DEF IInv, TypeOK
  <2> QED
    BY <1>3, <2>2, <2>3 DEF Boot
<1>4. CASE left # {}
  <2>1. n \in left
    <3>1. first \subseteq left
      OBVIOUS
    <3> HIDE DEF first
    <3> QED
      BY <1>1, <1>4, <3>1, Left
  <2>2. n \in Have(l) /\ nodes[n] \in Node /\ nodes[n].made
    BY <1>1, <1>4, <2>1, Left
  <2> HIDE DEF n
  <2>3. /\ Booted(n) \in Node /\ Booted(n).made = nodes[n].made /\ Booted(n).own = nodes[n].own
        /\ Booted(n).wires = nodes[n].wires /\ Booted(n).on
        /\ nodes[n].disk = "wiped" /\ nodes[n].selected => Booted(n).disk = nodes[n].text
        /\ Booted(n).selected => Booted(n).text # "none"
    <3>1. nodes[n].text \in {"none", "firewalls", "bypass"} /\ nodes[n].disk \in {"wiped", "blank", "firewalls", "bypass"}
      BY <2>2 DEF Node
    <3>2. nodes[n].selected => nodes[n].text # "none"
      BY <1>1, <1>4, <2>1, Left
    <3> QED
      BY <2>2, <3>1, <3>2 DEF Node, Booted
  <2>4. l = Scratch => nodes[n].own
    BY <1>1, <2>2 DEF OwnMacs
  <2>5. ASSUME Set(n, Booted(n))
        PROVE  /\ Quiet(l) /\ n \in Routers /\ nodes'[n] = Booted(n)
               /\ \A m \in Have(l) : m # n => nodes'[m] = nodes[m]
    BY <1>1, <1>2, <2>2, <2>3, <2>4, <2>5, OneNode DEF Quiet
  <2>6. CASE Set(n, Booted(n)) /\ cmd' = [cmd EXCEPT ![l].todo = left \ {n}] /\ UNCHANGED settled
    <3>1. Moves(l, "boot", left \ {n})
      <4>1. left \ {n} \in SUBSET Routers
        BY <1>1, Matters DEF IInv
      <4> QED
        BY <1>1, <2>6, <4>1, CommandTasks, ListMoves DEF IInv
    <3>2. Have(l)' = Have(l) /\ Flag(l)' = Flag(l) /\ Now(l)' = Now(l)
          /\ (l = Scratch => \A m \in Have(l) : nodes'[m].on => nodes'[m].own)
      BY <2>5, <2>6, <3>1, QuietMeans
    <3>3. StepsOK(l)'
      BY <1>1, <3>1, <3>2 DEF IInv, LabOK, StepsOK, Moves, At
    <3>4. \A m \in Have(l) : nodes'[m].own = nodes[m].own
      BY <2>3, <2>5, <2>6
    <3>5. cmd[l].does = "push" =>
             \A m \in Have(l) : IF m \in left \ {n} THEN Fresh(m, cmd[l].fw)' ELSE Runs(m, cmd[l].fw)'
      <4> SUFFICES ASSUME cmd[l].does = "push", NEW m \in Have(l)
                   PROVE  IF m \in left \ {n} THEN Fresh(m, cmd[l].fw)' ELSE Runs(m, cmd[l].fw)'
        OBVIOUS
      <4>1. IF m \in left THEN Fresh(m, cmd[l].fw) ELSE Runs(m, cmd[l].fw)
        BY <1>1 DEF IInv, LabOK, BootOK
      <4>2. cmd'[l].fw = cmd[l].fw
        BY <3>1 DEF Moves
      <4>3. CASE m = n
        BY <2>1, <2>3, <2>5, <2>6, <4>1, <4>2, <4>3 DEF Fresh, Runs
      <4>4. CASE m # n
        BY <2>5, <2>6, <4>1, <4>2, <4>4 DEF Fresh, Runs
      <4> QED
        BY <4>3, <4>4
    <3>6. BootOK(l)'
      BY <1>1, <3>1, <3>2, <3>4, <3>5 DEF BootOK, Moves, At, OwnMacs
    <3>7. SettledOK(l)'
      <4>1. SettledOK(l) /\ cmd'[l].does = cmd[l].does /\ ~At(l, "done") /\ nets' = nets
        BY <1>1, <3>1 DEF IInv, LabOK, Moves, At
      <4>2. \A m \in Have(l) : nodes'[m].wires = nodes[m].wires
        BY <2>3, <2>5, <2>6
      <4> QED
        BY <2>6, <3>2, <4>1, <4>2 DEF SettledOK
    <3> QED
      BY <2>5, <2>6, <3>1, <3>3, <3>6, <3>7, CommandTasks, QuietKeeps DEF IInv, TypeOK
  <2>7. CASE Fails(l) /\ nodes' \in {nodes, [nodes EXCEPT ![n] = Booted(n)]}
    <3>1. nodes' = nodes => Quiet(l)
      BY <1>1, <1>2, NoNode DEF Quiet
    <3> QED
      BY <2>5, <2>7, <3>1, FailKeeps DEF Set
  <2> QED
    BY <1>4, <2>6, <2>7 DEF Boot, Calls, n
<1> QED
  BY <1>3, <1>4 DEF Boot

\* A node is off the list of a push when it holds the rendering on a wiped disk.
LEMMA WipeKeeps ==
    ASSUME IInv, NEW l \in Labs, Wipe(l)
    PROVE  IInv'
<1> DEFINE R == Rendering(Topo(l).firewalls)
           done == {n \in cmd[l].todo : nodes[n] = [nodes[n] EXCEPT !.text = R, !.selected = TRUE,
                                                                   !.disk = "wiped", !.on = FALSE]}
           left == cmd[l].todo \ done
           n == FirstOf(Topo(l), left)
           stopped == [nodes[n] EXCEPT !.on = FALSE]
           uploaded == [stopped EXCEPT !.text = R]
           selected == [uploaded EXCEPT !.selected = TRUE]
           wiped == [selected EXCEPT !.disk = "wiped"]
<1>1. /\ At(l, "wipe") /\ cmd[l].does = "push" /\ cmd[l].todo = Have(l) /\ (l = Scratch => OwnMacs(l))
      /\ UNCHANGED <<env, exists, nets, firewalls, borrower, edits, careless, given>>
  BY DEF IInv, LabOK, StepsOK, BootOK, Wipe, At, fileVars
<1>2. Under(l)
  BY <1>1 DEF Under, At
<1>3. R = Rendering(cmd[l].fw) /\ R \in {"firewalls", "bypass"}
  BY Matters DEF IInv, Rendering
<1>4. CASE left = {} /\ Goes(l, "boot") /\ UNCHANGED <<nodes, settled>>
  <2>1. Quiet(l)
    BY <1>1, <1>2, <1>4, NoNode DEF Quiet
  <2>2. Moves(l, "boot", cmd[l].todo)
    BY <1>4, CommandTasks, GoesMoves DEF IInv
  <2>3. Have(l)' = Have(l) /\ Flag(l)' = Flag(l) /\ Now(l)' = Now(l)
        /\ (l = Scratch => \A m \in Have(l) : nodes'[m].on => nodes'[m].own)
    BY <2>1, <2>2, QuietMeans
  <2>4. StepsOK(l)'
    BY <1>1, <2>2, <2>3 DEF IInv, LabOK, StepsOK, Moves, At
  <2>5. \A m \in Have(l) : Fresh(m, cmd[l].fw)
    <3> SUFFICES ASSUME NEW m \in Have(l) PROVE Fresh(m, cmd[l].fw)
      OBVIOUS
    <3>1. nodes[m] = [nodes[m] EXCEPT !.text = R, !.selected = TRUE, !.disk = "wiped", !.on = FALSE] /\ nodes[m] \in Node
      BY <1>1, <1>4, Left
    <3>2. nodes[m].text = R /\ nodes[m].selected = TRUE /\ nodes[m].disk = "wiped"
      <4> HIDE DEF R
      <4> QED
        BY <3>1 DEF Node
    <3> QED
      BY <1>3, <3>2 DEF Fresh
  <2>6. BootOK(l)'
    <3>1. cmd'[l].at = "boot" /\ cmd'[l].todo = Have(l) /\ cmd'[l].fw = cmd[l].fw
      BY <1>1, <2>2 DEF Moves
    <3>2. \A m \in Have(l) : Fresh(m, cmd[l].fw)'
      BY <1>4, <2>5, <3>1 DEF Fresh
    <3>3. OwnMacs(l)' = OwnMacs(l)
      BY <1>4, <2>3 DEF OwnMacs
    <3> HIDE DEF left, done
    <3> QED
      BY <1>1, <2>3, <3>1, <3>2, <3>3 DEF BootOK, At
  <2>7. SettledOK(l)'
    <3>1. SettledOK(l) /\ cmd'[l].does = cmd[l].does /\ ~At(l, "done") /\ nets' = nets
      BY <1>1, <2>2 DEF IInv, LabOK, Moves, At
    <3> QED
      BY <1>4, <2>3, <3>1 DEF SettledOK
  <2> QED
    BY <1>4, <2>1, <2>2, <2>4, <2>6, <2>7, CommandTasks, QuietKeeps DEF IInv, TypeOK
<1>5. CASE left # {}
  <2>1. n \in Have(l) /\ nodes[n] \in Node /\ nodes[n].made /\ (nodes[n].selected => nodes[n].text # "none")
    <3>1. left \subseteq Have(l)
      BY <1>1
    <3> HIDE DEF left
    <3> QED
      BY <1>5, <3>1, Left
  <2>2. l = Scratch => nodes[n].own
    BY <1>1, <2>1 DEF OwnMacs
  <2> HIDE DEF n, R
  <2>3. \A new \in {nodes[n], stopped, uploaded, selected, wiped} :
           /\ new \in Node /\ new.made = nodes[n].made /\ new.own = nodes[n].own /\ new.wires = nodes[n].wires
           /\ new.selected => new.text # "none"
    BY ZenonT(60), <1>3, <2>1 DEF Node
  <2>4. ASSUME NEW new \in {nodes[n], stopped, uploaded, selected, wiped}, Set(n, new)
        PROVE  /\ Quiet(l)
               /\ \A m \in Have(l) : nodes'[m].own = nodes[m].own /\ nodes'[m].wires = nodes[m].wires
    <3> HIDE DEF stopped, uploaded, selected, wiped
    <3>1. /\ new \in Node /\ new.made = nodes[n].made /\ new.own = nodes[n].own /\ new.wires = nodes[n].wires
          /\ new.selected => new.text # "none"
      BY <2>3
    <3>2. NodesStep(l) /\ nodes'[n] = new /\ \A m \in Have(l) : m # n => nodes'[m] = nodes[m]
      BY ZenonT(60), <2>1, <2>2, <2>4, <3>1, OneNode
    <3>3. \A m \in Have(l) : nodes'[m].own = nodes[m].own /\ nodes'[m].wires = nodes[m].wires
      BY <3>1, <3>2
    <3> QED
      BY <1>1, <1>2, <3>2, <3>3 DEF Quiet
  <2>5. CASE Set(n, wiped) /\ Stays /\ UNCHANGED settled
    <3>1. Quiet(l) /\ \A m \in Have(l) : nodes'[m].own = nodes[m].own /\ nodes'[m].wires = nodes[m].wires
      BY <2>4, <2>5
    <3>2. Moves(l, "wipe", cmd[l].todo) /\ settled' = settled
      BY <1>1, <2>5, StaysMoves DEF IInv, At
    <3>3. Have(l)' = Have(l) /\ Flag(l)' = Flag(l) /\ Now(l)' = Now(l)
          /\ (l = Scratch => \A m \in Have(l) : nodes'[m].on => nodes'[m].own)
      BY <3>1, <3>2, QuietMeans
    <3>4. StepsOK(l)'
      BY <1>1, <3>2, <3>3 DEF IInv, LabOK, StepsOK, Moves, At
    <3>5. BootOK(l)'
      BY <1>1, <3>1, <3>2, <3>3 DEF BootOK, OwnMacs, Moves, At
    <3>6. SettledOK(l)'
      <4>1. SettledOK(l) /\ cmd'[l].does = cmd[l].does /\ ~At(l, "done") /\ nets' = nets
        BY <1>1, <3>2 DEF IInv, LabOK, Moves, At
      <4> QED
        BY <3>1, <3>2, <3>3, <4>1 DEF SettledOK
    <3> QED
      BY <3>1, <3>2, <3>4, <3>5, <3>6, CommandTasks, QuietKeeps DEF IInv, TypeOK
  <2>6. CASE Fails(l) /\ \E half \in {nodes[n], stopped, uploaded, selected} : Set(n, half)
    <3>1. PICK half \in {nodes[n], stopped, uploaded, selected} : Set(n, half)
      BY <2>6
    <3> HIDE DEF stopped, uploaded, selected, wiped
    <3>2. Quiet(l)
      BY <2>4, <3>1
    <3> QED
      BY <2>6, <3>2, FailKeeps
  <2> QED
    BY <1>5, <2>5, <2>6 DEF Wipe, n, R
<1> QED
  BY <1>4, <1>5 DEF Wipe

\* A push that ends on top of an apply, with the flag it read, leaves the lab pushed.
LEMMA AnswerKeeps ==
    ASSUME IInv, NEW l \in Labs, Answer(l)
    PROVE  IInv'
<1>1. /\ At(l, "answer") /\ cmd[l].does = "push" /\ nodes' = nodes
      /\ UNCHANGED <<env, exists, nets, firewalls, borrower, edits, careless, given>>
  BY DEF IInv, LabOK, StepsOK, Answer, At, fileVars, labVars
<1>2. Quiet(l)
  BY <1>1, NoNode DEF Quiet, Under, At
<1>3. ASSUME NEW s \in {"no", "pushed"}, Ends(l, s), s = "pushed" => cmd[l].clean /\ settled[l] = "applied"
      PROVE  IInv'
  <2>1. Moves(l, "done", cmd[l].todo) /\ settled' \in [Labs -> {"no", "applied", "pushed"}] /\ settled'[l] = s
        /\ \A k \in Labs : k # l => settled'[k] = settled[k]
    BY <1>3, EndsMoves DEF IInv
  <2>2. Have(l)' = Have(l) /\ Flag(l)' = Flag(l) /\ Now(l)' = Now(l)
        /\ (l = Scratch => \A m \in Have(l) : nodes'[m].on => nodes'[m].own)
    BY <1>2, <2>1, QuietMeans
  <2>3. StepsOK(l)'
    BY <2>1, <2>2 DEF IInv, LabOK, StepsOK, Moves, At
  <2>4. BootOK(l)'
    BY <2>1, <2>2 DEF BootOK, Moves, At
  <2>5. SettledOK(l)'
    <3>1. s = "pushed" => \A m \in Have(l) : Runs(m, Flag(l))
      BY <1>1, <1>3 DEF IInv, LabOK, StepsOK, BootOK
    <3>2. SettledOK(l) /\ cmd'[l].does = "push" /\ cmd'[l].at = "done" /\ nets' = nets
      BY <1>1, <2>1 DEF IInv, LabOK, Moves
    <3> QED
      BY <1>1, <1>3, <2>1, <2>2, <3>1, <3>2 DEF SettledOK, Runs, At
  <2> QED
    BY <1>2, <2>1, <2>3, <2>4, <2>5, CommandTasks, QuietKeeps
<1>4. CASE Ends(l, IF cmd[l].clean /\ settled[l] = "applied" THEN "pushed" ELSE "no")
  BY <1>3, <1>4
<1> QED
  BY <1>2, <1>4, FailKeeps DEF Answer

\* Stopping a node takes nothing away that the invariant asks for.
LEMMA TurnOffKeeps ==
    ASSUME IInv, NEW l \in Labs, TurnOff(l)
    PROVE  IInv'
<1> DEFINE on == {n \in Have(l) : nodes[n].on}
           n == FirstOf(env.topo[l], on)
           off == [nodes[n] EXCEPT !.on = FALSE]
<1>1. /\ At(l, "off") /\ cmd[l].does \in {"stop", "delete"} /\ settled[l] = "no"
      /\ UNCHANGED <<env, exists, nets, firewalls, borrower, edits, careless, given>>
  BY DEF IInv, LabOK, StepsOK, SettledOK, TurnOff, At, fileVars
<1>2. Under(l)
  BY <1>1 DEF Under, At
<1>3. ASSUME NEW step \in {"off", "remove", "done"}, Quiet(l), Moves(l, step, cmd[l].todo),
             settled' \in [Labs -> {"no", "applied", "pushed"}], settled'[l] = "no", \A k \in Labs : k # l => settled'[k] = settled[k]
      PROVE  IInv'
  <2>1. Have(l)' = Have(l) /\ Flag(l)' = Flag(l)
        /\ (l = Scratch => \A m \in Have(l) : nodes'[m].on => nodes'[m].own)
    BY <1>3, QuietMeans
  <2>2. StepsOK(l)'
    BY <1>1, <1>3, <2>1 DEF IInv, LabOK, StepsOK, Moves, At
  <2>3. BootOK(l)'
    BY <1>3, <2>1 DEF BootOK, Moves, At
  <2>4. SettledOK(l)'
    BY <1>3 DEF SettledOK
  <2> QED
    BY <1>3, <2>2, <2>3, <2>4, CommandTasks, QuietKeeps
<1>4. CASE on = {} /\ UNCHANGED nodes
  <2>1. Quiet(l)
    BY <1>1, <1>2, <1>4, NoNode DEF Quiet
  <2>2. CASE Goes(l, "remove") /\ UNCHANGED settled
    <3>1. Moves(l, "remove", cmd[l].todo)
      BY <2>2, CommandTasks, GoesMoves DEF IInv
    <3> QED
      BY <1>1, <1>3, <2>1, <2>2, <3>1 DEF IInv, TypeOK
  <2>3. CASE Ends(l, "no")
    <3>1. Moves(l, "done", cmd[l].todo) /\ settled' \in [Labs -> {"no", "applied", "pushed"}] /\ settled'[l] = "no"
          /\ \A k \in Labs : k # l => settled'[k] = settled[k]
      BY <2>3, EndsMoves DEF IInv
    <3> QED
      BY <1>3, <2>1, <3>1
  <2> QED
    BY <1>4, <2>2, <2>3 DEF TurnOff
<1>5. CASE on # {}
  <2>1. n \in Have(l) /\ nodes[n] \in Node /\ nodes[n].made /\ (nodes[n].selected => nodes[n].text # "none")
    BY <1>5, Left
  <2> HIDE DEF n
  <2>2. /\ off \in Node /\ off.made = nodes[n].made /\ off.own = nodes[n].own /\ off.wires = nodes[n].wires
        /\ ~off.on /\ (off.selected => off.text # "none")
    BY <2>1 DEF Node
  <2>3. Set(n, off) => Quiet(l)
    <3> HIDE DEF off
    <3> QED
      BY <1>1, <1>2, <2>1, <2>2, OneNode DEF Quiet
  <2>4. nodes' = nodes => Quiet(l)
    BY <1>1, <1>2, NoNode DEF Quiet
  <2>5. CASE Set(n, off) /\ Stays /\ UNCHANGED settled
    <3>1. Moves(l, "off", cmd[l].todo)
      BY <1>1, <2>5, StaysMoves DEF IInv, At
    <3> QED
      BY <1>1, <1>3, <2>3, <2>5, <3>1 DEF IInv, TypeOK
  <2>6. CASE Fails(l) /\ nodes' \in {nodes, [nodes EXCEPT ![n] = off]}
    BY <2>3, <2>4, <2>6, FailKeeps DEF Set
  <2> QED
    BY <1>5, <2>5, <2>6 DEF TurnOff, Calls, n
<1> QED
  BY <1>4, <1>5 DEF TurnOff

-----------------------------------------------------------------------------
(* Steps of an apply and of a delete: they change what EVE-NG holds *)

\* The files a step of lab l works from are the same after it.
LEMMA SameFiles ==
    ASSUME NEW l \in Labs, env' = env, firewalls' = firewalls, cmd'[l].fw = cmd[l].fw
    PROVE  /\ Topo(l)' = Topo(l) /\ Now(l)' = Now(l) /\ Flag(l)' = Flag(l) /\ \A n : Cables(l, n)' = Cables(l, n)
           /\ NodesOf(env.topo[l])' = NodesOf(env.topo[l])
  BY DEF Topo, Now, Flag, Cables

\* Such a step keeps all there is, once the lab's own conjuncts are seen to.
LEMMA BuildKeeps ==
    ASSUME IInv, NEW l \in Labs, NEW step, Moves(l, step, cmd[l].todo), Under(l),
           step \in {"networks", "bypasses", "nodes", "wires", "configs"} => cmd[l].does = "apply",
           step \in {"networks", "bypasses", "nodes", "wires", "configs", "failed", "done"},
           settled' \in [Labs -> {"no", "applied", "pushed"}], settled'[l] = "no", \A k \in Labs : k # l => settled'[k] = settled[k],
           UNCHANGED <<env, firewalls, borrower, edits, careless, given>>, LocalTo(l),
           exists' \subseteq Labs, nets' \in [Labs -> SUBSET Nat], nodes' \in [Routers -> Node],
           NodesOK(l)', ApplyOK(l)', l = Scratch => \A n \in Have(l)' : nodes'[n].on => nodes'[n].own,
           l = "enterprise" => \A n \in Have(l)' : Firewall(env.topo[l], n) => n \in Have(l) \/ firewalls \/ careless,
           l = Scratch /\ l \in exists' => l \in exists \/ At(l, "create")
    PROVE  IInv'
<1>1. TypeOK'
  BY DEF IInv, TypeOK, Moves
<1>2. StepsOK(l)'
  <2>1. Flag(l)' = Flag(l)
    BY DEF Flag
  <2> QED
    BY <2>1 DEF IInv, LabOK, StepsOK, Moves, At
<1>3. BootOK(l)'
  BY DEF BootOK, Moves, At
<1>4. SettledOK(l)'
  BY DEF SettledOK
<1>5. CarefulOK'
  <2>1. \A k \in Labs : Under(k)' => Under(k) /\ cmd'[k].fw = cmd[k].fw
    BY DEF Moves, Under
  <2>2. \A n \in Have("enterprise")' : Firewall(env.topo["enterprise"], n) => n \in Have("enterprise") \/ firewalls \/ careless
    <3>1. CASE l = "enterprise"
      BY <3>1
    <3>2. CASE l # "enterprise"
      <4>1. \A n \in NodesOf(env.topo["enterprise"]) : n \in Routers /\ n \notin NodesOf(env.topo[l])
        BY <3>2, Matters, Apart, LabNames DEF IInv
      <4> QED
        BY <4>1 DEF LocalTo, Have
    <3> QED
      BY <3>1, <3>2
  <2>3. Scratch \in exists' \/ At(Scratch, "create")' => Scratch \in exists \/ At(Scratch, "create") \/ ~firewalls
    BY LabNames DEF LocalTo, Moves, At
  <2> QED
    BY <2>1, <2>2, <2>3, CarefulStays
<1>6. LabOK(l)'
  BY <1>2, <1>3, <1>4 DEF LabOK
<1> QED
  BY <1>1, <1>5, <1>6, OthersStay DEF IInv

\* A command at such a step has not ended anything since.
LEMMA Building ==
    ASSUME IInv, NEW l \in Labs,
           cmd[l].at \in {"create", "networks", "bypasses", "nodes", "wires", "configs", "off", "remove"}
    PROVE  /\ settled[l] = "no" /\ Under(l)
           /\ cmd[l].at \in {"create", "networks", "bypasses", "nodes", "wires", "configs"} => cmd[l].does = "apply"
           /\ l = Scratch => \A n \in Have(l) : nodes[n].on => nodes[n].own
<1>1. StepsOK(l) /\ BootOK(l) /\ SettledOK(l)
  BY DEF IInv, LabOK
<1> QED
  BY <1>1 DEF StepsOK, BootOK, SettledOK, Under, At

\* Where such a step goes, answered or failed, nothing said of the lab.
LEMMA BuildMoves ==
    ASSUME IInv, NEW l \in Labs, settled[l] = "no"
    PROVE  /\ \A step \in CommandTask : Goes(l, step) /\ UNCHANGED settled =>
                 /\ Moves(l, step, cmd[l].todo) /\ settled'[l] = "no" /\ settled' \in [Labs -> {"no", "applied", "pushed"}]
                 /\ \A k \in Labs : k # l => settled'[k] = settled[k]
           /\ Fails(l) => Goes(l, "failed") /\ UNCHANGED settled
           /\ Stays => Moves(l, cmd[l].at, cmd[l].todo)
           /\ settled' = settled => /\ settled'[l] = "no" /\ settled' \in [Labs -> {"no", "applied", "pushed"}]
                                    /\ \A k \in Labs : k # l => settled'[k] = settled[k]
<1>1. ASSUME NEW step \in CommandTask, Goes(l, step) PROVE Moves(l, step, cmd[l].todo)
  BY <1>1, GoesMoves DEF IInv
<1>2. Stays => Moves(l, cmd[l].at, cmd[l].todo)
  BY StaysMoves DEF IInv
<1> QED
  BY <1>1, <1>2 DEF IInv, TypeOK, Fails

\* The lab is there once the apply goes on, and may be there when it failed.
LEMMA CreateLabKeeps ==
    ASSUME IInv, NEW l \in Labs, CreateLab(l)
    PROVE  IInv'
<1>1. cmd[l].at = "create" /\ UNCHANGED <<env, nets, nodes, firewalls, borrower, edits, careless, given>>
  BY DEF CreateLab, At, fileVars
<1>2. settled[l] = "no" /\ Under(l) /\ cmd[l].does = "apply" /\ (l = Scratch => \A n \in Have(l) : nodes[n].on => nodes[n].own)
  BY <1>1, Building
<1>3. PICK step \in {"networks", "failed"} : /\ Goes(l, step) /\ UNCHANGED settled
                                             /\ exists' \in {exists, exists \cup {l}}
                                             /\ step = "networks" => l \in exists'
  BY DEF CreateLab, Fails
<1>4. /\ Moves(l, step, cmd[l].todo) /\ settled'[l] = "no" /\ settled' \in [Labs -> {"no", "applied", "pushed"}]
      /\ \A k \in Labs : k # l => settled'[k] = settled[k]
  BY <1>2, <1>3, BuildMoves, CommandTasks
<1>5. /\ Topo(l)' = Topo(l) /\ (\A n : Cables(l, n)' = Cables(l, n)) /\ Have(l)' = Have(l)
  BY <1>1, <1>4, SameFiles DEF Moves, Have
<1>6. NodesOK(l)'
  BY <1>1, <1>3, <1>5 DEF IInv, LabOK, NodesOK
<1>7. ApplyOK(l)'
  BY <1>3, <1>4 DEF ApplyOK, Moves, At
<1>8. LocalTo(l)
  BY <1>1, <1>3, <1>4 DEF LocalTo, Moves
<1>9. exists' \subseteq Labs /\ nets' \in [Labs -> SUBSET Nat] /\ nodes' \in [Routers -> Node]
  BY <1>1, <1>3 DEF IInv, TypeOK
<1>10. At(l, "create")
  BY <1>1 DEF At
<1> QED
  BY <1>1, <1>2, <1>3, <1>4, <1>5, <1>6, <1>7, <1>8, <1>9, <1>10, BuildKeeps

\* Bridges are added, none taken away, until all of the file's are there.
LEMMA AddNetworkKeeps ==
    ASSUME IInv, NEW l \in Labs, AddNetwork(l)
    PROVE  IInv'
<1> DEFINE missing == Bridges(Topo(l)) \ nets[l]
           next == CHOOSE i \in missing : \A j \in missing : i <= j
<1>1. cmd[l].at = "networks" /\ UNCHANGED <<env, exists, nodes, firewalls, borrower, edits, careless, given>>
  BY DEF AddNetwork, At, fileVars
<1>2. /\ settled[l] = "no" /\ Under(l) /\ cmd[l].does = "apply" /\ (l = Scratch => \A n \in Have(l) : nodes[n].on => nodes[n].own)
      /\ l \in exists
  BY <1>1, Building DEF IInv, LabOK, ApplyOK
<1>3. PICK step \in {"networks", "bypasses", "failed"} :
         /\ Moves(l, step, cmd[l].todo) /\ settled' = settled
         /\ nets' = nets \/ (missing # {} /\ nets' = [nets EXCEPT ![l] = @ \cup {next}])
         /\ step = "bypasses" => missing = {} /\ nets' = nets
  <2>1. CASE missing = {} /\ Goes(l, "bypasses") /\ UNCHANGED <<nets, settled>>
    BY <1>2, <2>1, BuildMoves, CommandTasks
  <2>2. CASE missing # {} /\ nets' = [nets EXCEPT ![l] = @ \cup {next}] /\ Stays /\ UNCHANGED settled
    BY <1>1, <1>2, <2>2, BuildMoves
  <2>3. CASE missing # {} /\ Fails(l) /\ nets' \in {nets, [nets EXCEPT ![l] = @ \cup {next}]}
    BY <1>2, <2>3, BuildMoves, CommandTasks
  <2> QED
    BY <2>1, <2>2, <2>3 DEF AddNetwork, Bridges
<1>4. missing # {} => next \in Nat
  <2>1. missing \in SUBSET Nat
    BY Matters DEF IInv
  <2> HIDE DEF missing
  <2> QED
    BY <2>1, LeastExists
<1>5. nets' \in [Labs -> SUBSET Nat] /\ nets[l] \subseteq nets'[l] /\ \A k \in Labs : k # l => nets'[k] = nets[k]
  <2> HIDE DEF next, missing
  <2> QED
    BY <1>3, <1>4 DEF IInv, TypeOK
<1>6. /\ Topo(l)' = Topo(l) /\ (\A n : Cables(l, n)' = Cables(l, n)) /\ Have(l)' = Have(l)
  BY <1>1, <1>3, SameFiles DEF Moves, Have
<1>7. NodesOK(l)'
  BY <1>1, <1>5, <1>6 DEF IInv, LabOK, NodesOK
<1>8. ApplyOK(l)'
  <2>1. step = "bypasses" => Bridges(Topo(l)) \subseteq nets'[l]
    BY <1>3
  <2> QED
    BY <1>1, <1>2, <1>3, <1>6, <2>1 DEF ApplyOK, Moves, At
<1>9. LocalTo(l)
  BY <1>1, <1>3, <1>5 DEF LocalTo, Moves
<1>10. settled'[l] = "no" /\ settled' \in [Labs -> {"no", "applied", "pushed"}] /\ \A k \in Labs : k # l => settled'[k] = settled[k]
  BY <1>2, <1>3, BuildMoves
<1>11. exists' \subseteq Labs /\ nodes' \in [Routers -> Node]
  BY <1>1 DEF IInv, TypeOK
<1> HIDE DEF next, missing
<1> QED
  BY <1>1, <1>2, <1>3, <1>5, <1>6, <1>7, <1>8, <1>9, <1>10, <1>11, BuildKeeps

\* A bridge that goes takes the wires on it along, so none is left on no bridge.
LEMMA DropBypassKeeps ==
    ASSUME IInv, NEW l \in Labs, DropBypass(l)
    PROVE  IInv'
<1> DEFINE old == nets[l] \ Bridges(Topo(l))
           Less(n, i) == [nodes[n] EXCEPT !.wires = {w \in @ : w[2] # i}]
           Cut(i) == [n \in Routers |-> IF n \in NodesOf(env.topo[l]) THEN Less(n, i) ELSE nodes[n]]
<1>1. cmd[l].at = "bypasses" /\ UNCHANGED <<env, exists, firewalls, borrower, edits, careless, given>>
  BY DEF DropBypass, At, fileVars
<1>2. /\ settled[l] = "no" /\ Under(l) /\ cmd[l].does = "apply" /\ (l = Scratch => \A n \in Have(l) : nodes[n].on => nodes[n].own)
      /\ l \in exists /\ Bridges(Topo(l)) \subseteq nets[l]
  BY <1>1, Building DEF IInv, LabOK, ApplyOK, At
<1>3. PICK step \in {"bypasses", "nodes", "failed"} :
         /\ Moves(l, step, cmd[l].todo) /\ settled' = settled
         /\ \/ nets' = nets /\ nodes' = nodes /\ (step = "nodes" => old = {})
            \/ step # "nodes" /\ \E i \in old : nets' = [nets EXCEPT ![l] = @ \ {i}] /\ nodes' = Cut(i)
  <2>1. CASE old = {} /\ Goes(l, "nodes") /\ UNCHANGED <<nets, nodes, settled>>
    BY <1>2, <2>1, BuildMoves, CommandTasks
  <2>2. ASSUME NEW i \in old, nets' = [nets EXCEPT ![l] = @ \ {i}], nodes' = Cut(i), (Stays /\ UNCHANGED settled) \/ Fails(l)
        PROVE  \E step \in {"bypasses", "failed"} : Moves(l, step, cmd[l].todo) /\ settled' = settled
    BY <1>1, <1>2, <2>2, BuildMoves, CommandTasks
  <2>3. CASE old # {} /\ Fails(l) /\ UNCHANGED <<nets, nodes>>
    BY <1>2, <2>3, BuildMoves, CommandTasks
  <2> QED
    BY <2>1, <2>2, <2>3 DEF DropBypass, Bridges
<1>4. \A n \in NodesOf(env.topo[l]) : n \in Routers /\ nodes[n] \in Node
  BY Matters DEF IInv, TypeOK
<1>5. \A i : \A n \in NodesOf(env.topo[l]) :
         /\ Less(n, i) \in Node /\ Less(n, i).made = nodes[n].made /\ Less(n, i).own = nodes[n].own /\ Less(n, i).on = nodes[n].on
         /\ Less(n, i).text = nodes[n].text /\ Less(n, i).selected = nodes[n].selected
         /\ Less(n, i).wires = {w \in nodes[n].wires : w[2] # i} /\ (nodes[n] = Absent => Less(n, i) = Absent)
  <2> SUFFICES ASSUME NEW i, NEW n \in NodesOf(env.topo[l])
               PROVE  /\ Less(n, i) \in Node /\ Less(n, i).made = nodes[n].made /\ Less(n, i).own = nodes[n].own
                      /\ Less(n, i).on = nodes[n].on
                      /\ Less(n, i).text = nodes[n].text /\ Less(n, i).selected = nodes[n].selected
                      /\ Less(n, i).wires = {w \in nodes[n].wires : w[2] # i} /\ (nodes[n] = Absent => Less(n, i) = Absent)
    OBVIOUS
  <2>1. nodes[n] \in Node
    BY <1>4
  <2>2. nodes[n] = Absent => Less(n, i) = Absent
    BY DEF Absent
  <2> QED
    BY <2>1, <2>2 DEF Node
<1> HIDE DEF Less
<1>6. /\ nets' \in [Labs -> SUBSET Nat] /\ nets'[l] \subseteq nets[l] /\ \A k \in Labs : k # l => nets'[k] = nets[k]
      /\ Bridges(Topo(l)) \subseteq nets'[l] /\ (step = "nodes" => nets'[l] = Bridges(Topo(l)))
  <2>1. nets \in [Labs -> SUBSET Nat]
    BY DEF IInv, TypeOK
  <2>2. CASE nets' = nets /\ (step = "nodes" => old = {})
    BY <1>2, <2>1, <2>2
  <2>3. ASSUME step # "nodes", NEW i \in old, nets' = [nets EXCEPT ![l] = @ \ {i}]
        PROVE  /\ nets' \in [Labs -> SUBSET Nat] /\ nets'[l] \subseteq nets[l] /\ \A k \in Labs : k # l => nets'[k] = nets[k]
               /\ Bridges(Topo(l)) \subseteq nets'[l]
    BY <1>2, <2>1, <2>3
  <2> QED
    BY <1>3, <2>2, <2>3
<1>7. /\ nodes' \in [Routers -> Node]
      /\ \A n \in Routers : n \notin NodesOf(env.topo[l]) => nodes'[n] = nodes[n]
      /\ \A n \in NodesOf(env.topo[l]) :
            /\ nodes'[n].made = nodes[n].made /\ nodes'[n].own = nodes[n].own /\ nodes'[n].on = nodes[n].on
            /\ nodes'[n].text = nodes[n].text /\ nodes'[n].selected = nodes[n].selected
            /\ nodes'[n].wires \subseteq nodes[n].wires /\ (nodes[n] = Absent => nodes'[n] = Absent)
            /\ \A w \in nodes'[n].wires : w[2] \in nets[l] => w[2] \in nets'[l]
  <2>1. nodes \in [Routers -> Node] /\ nets \in [Labs -> SUBSET Nat]
    BY DEF IInv, TypeOK
  <2>2. CASE nodes' = nodes /\ nets' = nets
    BY <2>1, <2>2
  <2>3. ASSUME NEW i \in old, nets' = [nets EXCEPT ![l] = @ \ {i}], nodes' = Cut(i)
        PROVE  /\ nodes' \in [Routers -> Node]
               /\ \A n \in Routers : n \notin NodesOf(env.topo[l]) => nodes'[n] = nodes[n]
               /\ \A n \in NodesOf(env.topo[l]) :
                     /\ nodes'[n].made = nodes[n].made /\ nodes'[n].own = nodes[n].own /\ nodes'[n].on = nodes[n].on
                     /\ nodes'[n].text = nodes[n].text /\ nodes'[n].selected = nodes[n].selected
                     /\ nodes'[n].wires \subseteq nodes[n].wires /\ (nodes[n] = Absent => nodes'[n] = Absent)
                     /\ \A w \in nodes'[n].wires : w[2] \in nets[l] => w[2] \in nets'[l]
    <3>1. nets'[l] = nets[l] \ {i}
      BY <2>1, <2>3
    <3>2. \A n \in NodesOf(env.topo[l]) : nodes'[n] = Less(n, i)
      BY <1>4, <2>3
    <3>3. \A n \in Routers : (IF n \in NodesOf(env.topo[l]) THEN Less(n, i) ELSE nodes[n]) \in Node
      BY <1>5, <2>1
    <3>4. nodes' \in [Routers -> Node]
      BY <2>3, <3>3
    <3>5. \A n \in Routers : n \notin NodesOf(env.topo[l]) => nodes'[n] = nodes[n]
      BY <2>3
    <3>6. \A n \in NodesOf(env.topo[l]) : \A w \in nodes'[n].wires : w[2] # i /\ w \in nodes[n].wires
      BY <1>5, <3>2
    <3>7. \A n \in NodesOf(env.topo[l]) :
             /\ nodes'[n].made = nodes[n].made /\ nodes'[n].own = nodes[n].own /\ nodes'[n].on = nodes[n].on
             /\ nodes'[n].text = nodes[n].text /\ nodes'[n].selected = nodes[n].selected
             /\ (nodes[n] = Absent => nodes'[n] = Absent)
      BY <1>5, <3>2
    <3> QED
      BY <3>1, <3>4, <3>5, <3>6, <3>7
  <2> QED
    BY <1>3, <2>2, <2>3
<1>8. /\ Topo(l)' = Topo(l) /\ (\A n : Cables(l, n)' = Cables(l, n)) /\ Have(l)' = Have(l)
  BY <1>1, <1>3, <1>7, SameFiles DEF Moves, Have
<1>9. NodesOK(l)'
  <2> SUFFICES ASSUME NEW n \in NodesOf(env.topo[l])
               PROVE  /\ IF nodes'[n].made THEN l \in exists ELSE nodes'[n] = Absent
                      /\ nodes'[n].selected => nodes'[n].text # "none"
                      /\ nodes'[n].wires \subseteq Cables(l, n)
                      /\ \A w \in nodes'[n].wires : w[2] \in nets'[l]
    BY <1>1, <1>8 DEF NodesOK
  <2>1. /\ IF nodes[n].made THEN l \in exists ELSE nodes[n] = Absent
        /\ nodes[n].selected => nodes[n].text # "none"
        /\ nodes[n].wires \subseteq Cables(l, n)
        /\ \A w \in nodes[n].wires : w[2] \in nets[l]
    BY DEF IInv, LabOK, NodesOK
  <2> QED
    BY <1>7, <2>1
<1>10. ApplyOK(l)'
  BY <1>1, <1>2, <1>3, <1>6, <1>8 DEF ApplyOK, Moves, At
<1>11. LocalTo(l)
  BY <1>1, <1>2, <1>3, <1>6 DEF LocalTo, Moves
<1>12. settled'[l] = "no" /\ settled' \in [Labs -> {"no", "applied", "pushed"}] /\ \A k \in Labs : k # l => settled'[k] = settled[k]
  BY <1>2, <1>3, BuildMoves
<1>13. exists' \subseteq Labs /\ (l = Scratch => \A n \in Have(l) : nodes'[n].on => nodes'[n].own)
  BY <1>1, <1>2, <1>7, Matters DEF IInv, TypeOK
<1>14. /\ Under(l) /\ cmd[l].does = "apply" /\ UNCHANGED <<env, firewalls, borrower, edits, careless, given>>
       /\ exists' = exists /\ Have(l)' = Have(l) /\ nets' \in [Labs -> SUBSET Nat] /\ nodes' \in [Routers -> Node]
  BY <1>1, <1>2, <1>6, <1>7, <1>8
<1>15. Moves(l, step, cmd[l].todo)
  BY <1>3
<1> HIDE DEF old, Cut
<1> QED
  BY <1>9, <1>10, <1>11, <1>12, <1>13, <1>14, <1>15, BuildKeeps

\* A new node is off and unwired; a firewall comes only with the flag the command read.
LEMMA AddNodeKeeps ==
    ASSUME IInv, NEW l \in Labs, AddNode(l)
    PROVE  IInv'
<1> DEFINE T == Topo(l)
           missing == {n \in NodesOf(T) : ~nodes[n].made /\ (Firewall(T, n) => T.firewalls)}
           n == FirstOf(T, missing)
<1>1. cmd[l].at = "nodes" /\ UNCHANGED <<env, exists, nets, firewalls, borrower, edits, careless, given>>
  BY DEF AddNode, At, fileVars
<1>2. /\ settled[l] = "no" /\ Under(l) /\ cmd[l].does = "apply" /\ (l = Scratch => \A m \in Have(l) : nodes[m].on => nodes[m].own)
      /\ l \in exists /\ nets[l] = Bridges(T)
  BY <1>1, Building DEF IInv, LabOK, ApplyOK, At
<1>3. PICK step \in {"nodes", "wires", "failed"} :
         /\ Moves(l, step, cmd[l].todo) /\ settled' = settled
         /\ \/ nodes' = nodes /\ (step = "wires" => missing = {})
            \/ step # "wires" /\ missing # {} /\ \E own \in BOOLEAN : Set(n, New(own))
  <2>1. CASE missing = {} /\ Goes(l, "wires") /\ UNCHANGED <<nodes, settled>>
    BY <1>2, <2>1, BuildMoves, CommandTasks
  <2>2. CASE missing # {} /\ Calls(l, n, New(TRUE), Stays)
    <3> HIDE DEF missing, n
    <3>1. CASE Set(n, New(TRUE)) /\ Stays /\ UNCHANGED settled
      BY <1>1, <1>2, <2>2, <3>1, BuildMoves
    <3>2. CASE Fails(l) /\ nodes' \in {nodes, [nodes EXCEPT ![n] = New(TRUE)]}
      BY <1>2, <2>2, <3>2, BuildMoves, CommandTasks DEF Set
    <3> QED
      BY <2>2, <3>1, <3>2 DEF Calls
  <2>3. CASE missing # {} /\ Set(n, New(FALSE)) /\ Goes(l, "failed") /\ UNCHANGED settled
    BY <1>2, <2>3, BuildMoves, CommandTasks
  <2> QED
    BY <2>1, <2>2, <2>3 DEF AddNode
<1>4. NodesOf(T) = NodesOf(env.topo[l]) /\ NodesOf(T) \subseteq Routers /\ nodes \in [Routers -> Node]
  BY Matters DEF IInv, TypeOK
<1>5. missing # {} => n \in missing
  <2>1. missing \subseteq NodesOf(T) /\ T.nodes \in Seq(Routers)
    BY Matters DEF IInv
  <2> HIDE DEF missing, T
  <2> QED
    BY <2>1, FirstIsLeft
<1>6. \A own \in BOOLEAN : New(own) \in Node /\ New(own).made /\ New(own).wires = {} /\ ~New(own).selected /\ ~New(own).on
  BY DEF New, Absent, Node
<1>7. ASSUME missing # {}, NEW own \in BOOLEAN, Set(n, New(own))
      PROVE  /\ n \in missing /\ nodes' \in [Routers -> Node] /\ nodes'[n] = New(own)
             /\ \A m \in Routers : m # n => nodes'[m] = nodes[m]
  <2> HIDE DEF missing, n, T
  <2>1. n \in Routers
    BY <1>4, <1>5, <1>7 DEF missing
  <2> QED
    BY <1>5, <1>6, <1>7, <2>1, SetNode DEF IInv
<1> HIDE DEF n
<1>8. /\ nodes' \in [Routers -> Node]
      /\ \A m \in Routers : \/ nodes'[m] = nodes[m]
                            \/ m \in missing /\ \E own \in BOOLEAN : nodes'[m] = New(own)
  BY <1>3, <1>4, <1>7
<1>9. Topo(l)' = Topo(l) /\ \A m : Cables(l, m)' = Cables(l, m)
  BY <1>1, <1>3, SameFiles DEF Moves
<1>10. /\ Have(l) \subseteq Have(l)' /\ NodesOf(env'.topo[l]) = NodesOf(env.topo[l])
       /\ \A m \in Have(l)' : \/ m \in Have(l) /\ nodes'[m] = nodes[m]
                              \/ m \in missing /\ ~nodes'[m].on
  BY <1>1, <1>4, <1>6, <1>8 DEF Have
<1>11. NodesOK(l)'
  <2> SUFFICES ASSUME NEW m \in NodesOf(env.topo[l])
               PROVE  /\ IF nodes'[m].made THEN l \in exists ELSE nodes'[m] = Absent
                      /\ nodes'[m].selected => nodes'[m].text # "none"
                      /\ nodes'[m].wires \subseteq Cables(l, m)
                      /\ \A w \in nodes'[m].wires : w[2] \in nets[l]
    BY <1>1, <1>9, <1>10 DEF NodesOK
  <2>1. CASE nodes'[m] = nodes[m]
    BY <2>1 DEF IInv, LabOK, NodesOK
  <2>2. ASSUME NEW own \in BOOLEAN, nodes'[m] = New(own)
        PROVE  /\ nodes'[m].made /\ ~nodes'[m].selected /\ nodes'[m].wires = {}
    BY <1>6, <2>2
  <2> QED
    BY <1>2, <1>4, <1>8, <2>1, <2>2
<1>12. ApplyOK(l)'
  <2>1. step = "wires" => Wanted(T) \subseteq Have(l)
    BY <1>3, <1>4, <1>5 DEF Wanted, Have
  <2> QED
    BY <1>1, <1>2, <1>3, <1>9, <1>10, <2>1 DEF ApplyOK, Moves, At
<1>13. LocalTo(l)
  BY <1>1, <1>2, <1>3, <1>4, <1>8 DEF LocalTo, Moves
<1>14. settled'[l] = "no" /\ settled' \in [Labs -> {"no", "applied", "pushed"}] /\ \A k \in Labs : k # l => settled'[k] = settled[k]
  BY <1>2, <1>3, BuildMoves
<1>15. l = Scratch => \A m \in Have(l)' : nodes'[m].on => nodes'[m].own
  BY <1>2, <1>10
<1>16. l = "enterprise" => \A m \in Have(l)' : Firewall(env.topo[l], m) => m \in Have(l) \/ firewalls \/ careless
  <2>1. T.firewalls = cmd[l].fw /\ \A m : Firewall(T, m) = Firewall(env.topo[l], m)
    BY Matters DEF IInv
  <2>2. careless \/ cmd[l].fw = Flag(l)
    BY <1>2 DEF IInv, CarefulOK
  <2> QED
    BY <1>10, <2>1, <2>2 DEF Flag
<1>17. exists' \subseteq Labs /\ nets' \in [Labs -> SUBSET Nat]
  BY <1>1 DEF IInv, TypeOK
<1> HIDE DEF missing, T
<1> QED
  BY <1>1, <1>2, <1>3, <1>8, <1>11, <1>12, <1>13, <1>14, <1>15, <1>16, <1>17, BuildKeeps

\* A node is wired to bridges of the file's setting, which are those that are there.
LEMMA WireKeeps ==
    ASSUME IInv, NEW l \in Labs, Wire(l)
    PROVE  IInv'
<1> DEFINE T == Topo(l)
           astray == {n \in Have(l) : ~(Wiring(T, n) \subseteq nodes[n].wires)}
           n == FirstOf(T, astray)
           wired == {w \in nodes[n].wires : \A v \in Wiring(T, n) : v[1] # w[1]} \cup Wiring(T, n)
           new == [nodes[n] EXCEPT !.wires = wired]
<1>1. cmd[l].at = "wires" /\ UNCHANGED <<env, exists, nets, firewalls, borrower, edits, careless, given>>
  BY DEF Wire, At, fileVars
<1>2. /\ settled[l] = "no" /\ Under(l) /\ cmd[l].does = "apply" /\ (l = Scratch => \A m \in Have(l) : nodes[m].on => nodes[m].own)
      /\ l \in exists /\ nets[l] = Bridges(T) /\ Wanted(T) \subseteq Have(l)
  BY <1>1, Building DEF IInv, LabOK, ApplyOK, At
<1>3. PICK step \in {"wires", "configs", "failed"} :
         /\ Moves(l, step, cmd[l].todo) /\ settled' = settled
         /\ \/ nodes' = nodes /\ (step = "configs" => astray = {})
            \/ step # "configs" /\ astray # {} /\ Set(n, new)
  <2>1. CASE astray = {} /\ Goes(l, "configs") /\ UNCHANGED <<nodes, settled>>
    BY <1>2, <2>1, BuildMoves, CommandTasks
  <2>2. CASE astray # {} /\ Calls(l, n, new, Stays)
    <3> HIDE DEF astray, n, new
    <3>1. CASE Set(n, new) /\ Stays /\ UNCHANGED settled
      BY <1>1, <1>2, <2>2, <3>1, BuildMoves
    <3>2. CASE Fails(l) /\ nodes' \in {nodes, [nodes EXCEPT ![n] = new]}
      BY <1>2, <2>2, <3>2, BuildMoves, CommandTasks DEF Set
    <3> QED
      BY <2>2, <3>1, <3>2 DEF Calls
  <2> QED
    BY <2>1, <2>2 DEF Wire
<1>4. NodesOf(env.topo[l]) \subseteq Routers /\ Have(l) \subseteq NodesOf(env.topo[l]) /\ nodes \in [Routers -> Node]
  BY Matters DEF IInv, TypeOK
<1>5. astray # {} => n \in Have(l)
  <2>1. astray \subseteq Have(l)
    OBVIOUS
  <2> HIDE DEF astray
  <2> QED
    BY <2>1, Left
<1> HIDE DEF n
<1>6. ASSUME astray # {}
      PROVE  /\ new \in Node /\ new.made = nodes[n].made /\ new.own = nodes[n].own /\ new.on = nodes[n].on
             /\ new.selected = nodes[n].selected /\ new.text = nodes[n].text
             /\ new.wires \subseteq Cables(l, n) /\ \A w \in new.wires : w[2] \in nets[l]
  <2>1. n \in NodesOf(env.topo[l]) /\ nodes[n] \in Node
    BY <1>4, <1>5, <1>6
  <2>2. nodes[n].wires \subseteq Cables(l, n) /\ \A w \in nodes[n].wires : w[2] \in nets[l]
    BY <2>1 DEF IInv, LabOK, NodesOK
  <2>3. Wiring(T, n) = {w \in Cables(l, n) : w[2] \in nets[l]} /\ Cables(l, n) \subseteq Nat \X Nat
    BY <1>2, Matters DEF IInv
  <2>4. wired \subseteq Cables(l, n) /\ \A w \in wired : w[2] \in nets[l]
    BY <2>2, <2>3
  <2> HIDE DEF wired
  <2> QED
    BY <2>1, <2>3, <2>4 DEF Node
<1> HIDE DEF new
<1>7. /\ nodes' \in [Routers -> Node]
      /\ \A m \in Routers : nodes'[m] = nodes[m] \/ (m = n /\ astray # {} /\ n \in Have(l) /\ nodes'[m] = new)
  <2>1. CASE nodes' = nodes
    BY <1>4, <2>1
  <2>2. CASE astray # {} /\ Set(n, new)
    <3>1. n \in Routers /\ n \in Have(l) /\ new \in Node
      BY <1>4, <1>5, <1>6, <2>2
    <3> QED
      BY <2>2, <3>1, SetNode DEF IInv
  <2> QED
    BY <1>3, <2>1, <2>2
<1>8. \A m \in Routers : nodes'[m].made = nodes[m].made /\ nodes'[m].own = nodes[m].own /\ nodes'[m].on = nodes[m].on
  BY <1>6, <1>7
<1>9. /\ Topo(l)' = Topo(l) /\ (\A m : Cables(l, m)' = Cables(l, m)) /\ Have(l)' = Have(l)
  BY <1>1, <1>3, <1>4, <1>8, SameFiles DEF Moves, Have
<1>10. NodesOK(l)'
  <2> SUFFICES ASSUME NEW m \in NodesOf(env.topo[l])
               PROVE  /\ IF nodes'[m].made THEN l \in exists ELSE nodes'[m] = Absent
                      /\ nodes'[m].selected => nodes'[m].text # "none"
                      /\ nodes'[m].wires \subseteq Cables(l, m)
                      /\ \A w \in nodes'[m].wires : w[2] \in nets[l]
    BY <1>1, <1>9 DEF NodesOK
  <2>1. /\ IF nodes[m].made THEN l \in exists ELSE nodes[m] = Absent
        /\ nodes[m].selected => nodes[m].text # "none"
        /\ nodes[m].wires \subseteq Cables(l, m)
        /\ \A w \in nodes[m].wires : w[2] \in nets[l]
    BY DEF IInv, LabOK, NodesOK
  <2>2. CASE nodes'[m] = nodes[m]
    BY <2>1, <2>2
  <2>3. CASE m = n /\ astray # {} /\ n \in Have(l) /\ nodes'[m] = new
    BY <1>2, <1>6, <2>1, <2>3 DEF Have
  <2> QED
    BY <1>4, <1>7, <2>2, <2>3
<1>11. ApplyOK(l)'
  <2>1. step = "configs" => \A m \in Have(l) : Wiring(T, m) \subseteq nodes'[m].wires
    BY <1>3, <1>5
  <2> QED
    BY <1>1, <1>2, <1>3, <1>9, <2>1 DEF ApplyOK, Moves, At
<1>12. LocalTo(l)
  BY <1>1, <1>2, <1>3, <1>4, <1>7 DEF LocalTo, Moves
<1>13. settled'[l] = "no" /\ settled' \in [Labs -> {"no", "applied", "pushed"}] /\ \A k \in Labs : k # l => settled'[k] = settled[k]
  BY <1>2, <1>3, BuildMoves
<1>14. l = Scratch => \A m \in Have(l)' : nodes'[m].on => nodes'[m].own
  BY <1>2, <1>4, <1>8, <1>9
<1>15. exists' \subseteq Labs /\ nets' \in [Labs -> SUBSET Nat]
  BY <1>1 DEF IInv, TypeOK
<1> HIDE DEF astray, T
<1> QED
  BY <1>1, <1>2, <1>3, <1>7, <1>9, <1>10, <1>11, <1>12, <1>13, <1>14, <1>15, BuildKeeps

\* A lab that is removed holds nothing; one whose removal was refused is as it was.
LEMMA RemoveKeeps ==
    ASSUME IInv, NEW l \in Labs, Remove(l)
    PROVE  IInv'
<1> DEFINE Gone == /\ exists' = exists \ {l}
                   /\ nets' = [nets EXCEPT ![l] = {}]
                   /\ nodes' = [n \in Routers |-> IF n \in NodesOf(env.topo[l]) THEN Absent ELSE nodes[n]]
<1>1. cmd[l].at = "remove" /\ UNCHANGED <<env, firewalls, borrower, edits, careless, given>>
  BY DEF Remove, At, fileVars
<1>2. settled[l] = "no" /\ Under(l) /\ (l = Scratch => \A n \in Have(l) : nodes[n].on => nodes[n].own)
  BY <1>1, Building
<1>3. PICK step \in {"done", "failed"} :
         /\ Moves(l, step, cmd[l].todo) /\ settled'[l] = "no" /\ settled' \in [Labs -> {"no", "applied", "pushed"}]
         /\ \A k \in Labs : k # l => settled'[k] = settled[k]
         /\ Gone \/ UNCHANGED <<exists, nets, nodes>>
  <2>1. CASE Gone /\ Ends(l, "no")
    BY <2>1, EndsMoves DEF IInv
  <2>2. CASE Fails(l) /\ (Gone \/ UNCHANGED labVars)
    <3> HIDE DEF Gone
    <3> QED
      BY <1>2, <2>2, BuildMoves, CommandTasks DEF labVars
  <2> QED
    BY <2>1, <2>2 DEF Remove
<1>4. /\ NodesOf(env.topo[l]) \subseteq Routers /\ Have(l) \subseteq NodesOf(env.topo[l]) /\ nodes \in [Routers -> Node]
      /\ exists \subseteq Labs /\ nets \in [Labs -> SUBSET Nat]
  BY Matters DEF IInv, TypeOK
<1>5. Absent \in Node /\ ~Absent.made /\ ~Absent.on /\ ~Absent.selected /\ Absent.wires = {}
  BY DEF Absent, Node
<1>6. /\ exists' \subseteq Labs /\ nets' \in [Labs -> SUBSET Nat] /\ nodes' \in [Routers -> Node]
      /\ \A k \in Labs : k # l => (k \in exists' <=> k \in exists) /\ nets'[k] = nets[k]
      /\ l \in exists' => l \in exists
      /\ \A n \in Routers : n \notin NodesOf(env.topo[l]) => nodes'[n] = nodes[n]
  <2>1. CASE UNCHANGED <<exists, nets, nodes>>
    BY <1>4, <2>1
  <2>2. CASE Gone
    BY <1>4, <1>5, <2>2
  <2> QED
    BY <1>3, <2>1, <2>2
<1>7. (\A n : Cables(l, n)' = Cables(l, n)) /\ NodesOf(env'.topo[l]) = NodesOf(env.topo[l])
  BY <1>1, <1>3, SameFiles DEF Moves
<1>8. NodesOK(l)' /\ Have(l)' \subseteq Have(l) /\ \A n \in Have(l)' : nodes'[n] = nodes[n]
  <2>1. CASE UNCHANGED <<exists, nets, nodes>>
    BY <1>7, <2>1 DEF IInv, LabOK, NodesOK, Have
  <2>2. CASE Gone
    <3>1. \A n \in NodesOf(env.topo[l]) : nodes'[n] = Absent
      BY <1>4, <2>2
    <3> QED
      BY <1>5, <1>7, <3>1 DEF NodesOK, Have
  <2> QED
    BY <1>3, <2>1, <2>2
<1>9. ApplyOK(l)'
  BY <1>3 DEF ApplyOK, Moves, At
<1>10. LocalTo(l)
  BY <1>1, <1>3, <1>6 DEF LocalTo, Moves
<1>11. l = Scratch => \A n \in Have(l)' : nodes'[n].on => nodes'[n].own
  BY <1>2, <1>8
<1> HIDE DEF Gone
<1> QED
  BY <1>1, <1>2, <1>3, <1>6, <1>8, <1>9, <1>10, <1>11, BuildKeeps

-----------------------------------------------------------------------------
(* Commands and edits *)

\* A command starts where none is under way and reads the flag as it is.
LEMMA GiveKeeps ==
    ASSUME IInv, NEW l \in Labs, NEW does \in {"apply", "start", "push", "stop", "delete"}, Give(l, does)
    PROVE  IInv'
<1> DEFINE start == [does |-> does, fw |-> Flag(l), clean |-> TRUE, todo |-> {},
                     at |-> IF does \in {"stop", "delete"} THEN "off" ELSE "guards"]
<1>1. /\ ~Under(l) /\ UNCHANGED <<env, exists, nets, nodes, firewalls, borrower, edits, careless>>
      /\ cmd' = [cmd EXCEPT ![l] = start] /\ given' = [given EXCEPT ![l] = @ + 1]
      /\ settled' = [settled EXCEPT ![l] = IF does = "push" /\ @ # "no" THEN "applied" ELSE "no"]
  BY DEF Give, labVars, fileVars
<1>2. TypeOK /\ Flag(l) \in BOOLEAN /\ cmd \in [Labs -> Command] /\ settled \in [Labs -> {"no", "applied", "pushed"}]
  BY Settings DEF IInv, TypeOK
<1>3. /\ start \in Command /\ start.does = does /\ start.fw = Flag(l) /\ start.at \in {"off", "guards"}
      /\ start.at = "off" => does \in {"stop", "delete"}
      /\ start.at = "guards" => does \in {"apply", "start", "push"}
  BY <1>2 DEF Command, CommandTask
<1> HIDE DEF start
<1>4. cmd' \in [Labs -> Command] /\ cmd'[l] = start /\ \A k \in Labs : k # l => cmd'[k] = cmd[k]
  BY <1>1, <1>2, <1>3
<1>5. PICK s \in {"no", "applied"} :
         /\ settled' = [settled EXCEPT ![l] = s] /\ (s = "applied" => does = "push" /\ settled[l] # "no")
  BY <1>1
<1>6. /\ settled' \in [Labs -> {"no", "applied", "pushed"}] /\ settled'[l] = s
      /\ \A k \in Labs : k # l => settled'[k] = settled[k]
  BY <1>2, <1>5
<1>7. TypeOK'
  <2>1. given' \in [Labs -> Nat]
    BY <1>1, <1>2 DEF TypeOK
  <2> QED
    BY <1>1, <1>2, <1>4, <1>6, <2>1 DEF TypeOK
<1>8. /\ (\A k \in Labs : Flag(k)' = Flag(k) /\ Have(k)' = Have(k)) /\ Now(l)' = Now(l)
      /\ \A n : Cables(l, n)' = Cables(l, n)
  BY <1>1 DEF Flag, Now, Have, Cables
<1>9. CarefulOK'
  <2>1. \A k \in Labs : Under(k)' => (k = l \/ Under(k))
    BY <1>4 DEF Under
  <2>2. At(Scratch, "create")' => At(Scratch, "create")
    BY <1>3, <1>4, LabNames DEF At
  <2> QED
    BY <1>1, <1>3, <1>4, <1>8, <2>1, <2>2, LabNames DEF IInv, CarefulOK
<1>10. LabOK(l)'
  <2>1. NodesOK(l)'
    BY <1>1, <1>8 DEF IInv, LabOK, NodesOK
  <2>2. StepsOK(l)'
    BY <1>3, <1>4, <1>8, LabNames DEF StepsOK, At, Flag
  <2>3. ApplyOK(l)'
    BY <1>3, <1>4 DEF ApplyOK, At
  <2>4. BootOK(l)'
    BY <1>1, <1>3, <1>4, <1>8 DEF IInv, LabOK, BootOK, At
  <2>5. SettledOK(l)'
    <3>1. SettledOK(l)
      BY DEF IInv, LabOK
    <3> QED
      BY <1>1, <1>3, <1>4, <1>5, <1>6, <1>8, <3>1 DEF SettledOK
  <2> QED
    BY <2>1, <2>2, <2>3, <2>4, <2>5 DEF LabOK
<1>11. \A k \in Labs : k # l => LabOK(k)'
  <2> SUFFICES ASSUME NEW k \in Labs, k # l PROVE LabOK(k)'
    OBVIOUS
  <2> QED
    BY <1>1, <1>2, <1>4, <1>6, <1>8, LabStays DEF IInv
<1> QED
  BY <1>7, <1>9, <1>10, <1>11 DEF IInv

\* lab.firewalls is flipped: what the enterprise lab was said to be is forgotten,
\* the skills lab has no firewalls, and whoever flips it over something is careless.
LEMMA FlipFirewallsKeeps ==
    ASSUME IInv, FlipFirewalls
    PROVE  IInv'
<1> DEFINE l == "enterprise"
           dirty == [cmd[l] EXCEPT !.clean = FALSE]
<1>1. /\ firewalls' = ~firewalls /\ edits' = edits + 1 /\ UNCHANGED <<env, exists, nets, nodes, borrower, given>>
      /\ settled' = [settled EXCEPT ![l] = "no"] /\ cmd' = [cmd EXCEPT ![l] = dirty]
  BY DEF FlipFirewalls, Touched, labVars
<1>2. TypeOK /\ l \in Labs /\ cmd[l] \in Command
  BY LabNames DEF IInv, TypeOK
<1>3. /\ dirty \in Command /\ dirty.does = cmd[l].does /\ dirty.at = cmd[l].at /\ dirty.fw = cmd[l].fw
      /\ dirty.todo = cmd[l].todo /\ ~dirty.clean
  BY <1>2 DEF Command
<1> HIDE DEF dirty
<1>4. /\ cmd' \in [Labs -> Command] /\ cmd'[l] = dirty /\ settled' \in [Labs -> {"no", "applied", "pushed"}] /\ settled'[l] = "no"
      /\ \A k \in Labs : k # l => cmd'[k] = cmd[k] /\ settled'[k] = settled[k]
  BY <1>1, <1>2, <1>3 DEF TypeOK
<1>5. PICK more \in BOOLEAN :
         /\ careless' = (careless \/ more)
         /\ ~more => /\ \A k \in Labs : ~Under(k)
                     /\ firewalls => \A n \in Have(l) : ~Firewall(env.topo[l], n)
                     /\ ~firewalls => Scratch \notin exists
  <2> DEFINE over == \/ \E k \in Labs : Under(k)
                     \/ firewalls /\ \E n \in Have(l) : Firewall(env.topo[l], n)
                     \/ ~firewalls /\ Scratch \in exists
  <2>1. over \in BOOLEAN /\ careless' = (careless \/ over)
    BY DEF FlipFirewalls
  <2>2. ~over => /\ \A k \in Labs : ~Under(k)
                 /\ firewalls => \A n \in Have(l) : ~Firewall(env.topo[l], n)
                 /\ ~firewalls => Scratch \notin exists
    OBVIOUS
  <2> HIDE DEF over
  <2> QED
    BY <2>1, <2>2
<1>6. TypeOK'
  BY <1>1, <1>2, <1>4, <1>5 DEF TypeOK
<1>7. Topo(l)' = Topo(l) /\ Have(l)' = Have(l) /\ \A n : Cables(l, n)' = Cables(l, n)
  BY <1>1, <1>3, <1>4 DEF Topo, Have, Cables
<1>8. CarefulOK'
  <2>1. \A k \in Labs : Under(k)' <=> Under(k)
    BY <1>3, <1>4 DEF Under
  <2>2. At(Scratch, "create")' => Under(Scratch)
    BY <1>4, LabNames DEF At, Under
  <2>3. CarefulOK
    BY DEF IInv
  <2> QED
    BY <1>1, <1>5, <1>7, <2>1, <2>2, <2>3, LabNames DEF CarefulOK
<1>9. LabOK(l)'
  <2>1. NodesOK(l)'
    BY <1>1, <1>2, <1>7 DEF IInv, LabOK, NodesOK
  <2>2. StepsOK(l)'
    BY <1>2, <1>3, <1>4, LabNames DEF IInv, LabOK, StepsOK, At
  <2>3. ApplyOK(l)'
    BY <1>1, <1>2, <1>3, <1>4, <1>7 DEF IInv, LabOK, ApplyOK, At
  <2>4. BootOK(l)'
    BY <1>1, <1>2, <1>3, <1>4, <1>7 DEF IInv, LabOK, BootOK, At, Fresh, Runs, OwnMacs
  <2>5. SettledOK(l)'
    BY <1>4 DEF SettledOK
  <2> QED
    BY <2>1, <2>2, <2>3, <2>4, <2>5 DEF LabOK
<1>10. LabOK(Scratch)'
  <2>1. Flag(Scratch)' = Flag(Scratch)
    BY LabNames DEF Flag
  <2>2. Scratch \in Labs /\ Scratch # l
    BY LabNames
  <2> QED
    BY <1>1, <1>2, <1>4, <2>1, <2>2, LabStays DEF IInv
<1> QED
  BY <1>6, <1>8, <1>9, <1>10, LabNames DEF IInv

\* A step that leaves alone all the invariant looks at
LEMMA AllStays ==
    ASSUME IInv, UNCHANGED <<env, exists, nets, nodes, firewalls, careless, cmd, settled>>,
           given' \in [Labs -> Nat], edits' \in Nat, borrower' \in BOOLEAN
    PROVE  IInv'
<1>1. TypeOK' /\ TypeOK
  BY DEF IInv, TypeOK
<1>2. CarefulOK'
  BY DEF IInv, CarefulOK, Under, Flag, Have, At
<1>3. \A l \in Labs : LabOK(l)'
  <2> SUFFICES ASSUME NEW l \in Labs PROVE LabOK(l)'
    OBVIOUS
  <2>1. Flag(l)' = Flag(l)
    BY DEF Flag
  <2> QED
    BY <1>1, <2>1, LabStays DEF IInv
<1> QED
  BY <1>1, <1>2, <1>3 DEF IInv

\* Nothing in EVE-NG depends on topology/skills-lab.yaml being there.
LEMMA EditBorrowerKeeps ==
    ASSUME IInv, EditBorrower
    PROVE  IInv'
<1>1. UNCHANGED <<env, exists, nets, nodes, firewalls, careless, cmd, settled, given>> /\ edits' = edits + 1 /\ borrower' = ~borrower
  BY DEF EditBorrower, labVars
<1>2. given' \in [Labs -> Nat] /\ edits' \in Nat /\ borrower' \in BOOLEAN
  BY <1>1 DEF IInv, TypeOK
<1> QED
  BY <1>1, <1>2, AllStays

-----------------------------------------------------------------------------
(* The invariant *)

\* EVE-NG starts empty.
LEMMA InitIInv ==
    ASSUME Init
    PROVE  IInv
<1> DEFINE idle == [does |-> "none", at |-> "done", fw |-> FALSE, todo |-> {}, clean |-> FALSE]
<1>1. /\ env \in Environments /\ firewalls = FALSE /\ borrower = FALSE /\ edits = 0 /\ careless = FALSE /\ exists = {}
      /\ \A l \in Labs : nets[l] = {} /\ cmd[l] = idle /\ settled[l] = "no"
      /\ \A n \in Routers : nodes[n] = Absent
  BY DEF Init
<1>2. idle \in Command /\ idle.at = "done" /\ ~idle.clean /\ ~idle.fw
  BY DEF Command, CommandTask
<1>3. Absent \in Node /\ ~Absent.made /\ ~Absent.on /\ ~Absent.selected /\ Absent.wires = {}
  BY DEF Absent, Node
<1>4. TypeOK
  <2>1. cmd \in [Labs -> Command]
    BY <1>2 DEF Init
  <2>2. nodes \in [Routers -> Node]
    BY <1>3 DEF Init
  <2>3. nets \in [Labs -> SUBSET Nat] /\ given \in [Labs -> Nat] /\ settled \in [Labs -> {"no", "applied", "pushed"}]
    BY DEF Init
  <2> QED
    BY <1>1, <2>1, <2>2, <2>3 DEF TypeOK
<1> HIDE DEF idle
<1>5. \A l \in Labs : Have(l) = {} /\ ~Under(l) /\ At(l, "done")
  <2> SUFFICES ASSUME NEW l \in Labs PROVE Have(l) = {} /\ ~Under(l) /\ At(l, "done")
    OBVIOUS
  <2>1. NodesOf(env.topo[l]) \subseteq Routers
    BY <1>4, Matters
  <2> QED
    BY <1>1, <1>2, <1>3, <2>1 DEF Have, Under, At
<1>6. CarefulOK
  BY <1>1, <1>5, LabNames DEF CarefulOK, At
<1>7. ASSUME NEW l \in Labs PROVE LabOK(l)
  <2>1. NodesOf(env.topo[l]) \subseteq Routers
    BY <1>4, Matters
  <2>2. NodesOK(l)
    BY <1>1, <1>3, <2>1 DEF NodesOK
  <2>3. StepsOK(l) /\ ApplyOK(l) /\ BootOK(l) /\ SettledOK(l)
    BY <1>1, <1>2, <1>5 DEF StepsOK, ApplyOK, BootOK, SettledOK, At
  <2> QED
    BY <2>2, <2>3 DEF LabOK
<1> QED
  BY <1>4, <1>6, <1>7 DEF IInv

\* Each call that a command makes, failed or answered, keeps the invariant.
LEMMA StepKeeps ==
    ASSUME IInv, NEW l \in Labs, Step(l)
    PROVE  IInv'
  BY GuardsKeep, CreateLabKeeps, AddNetworkKeeps, DropBypassKeeps, AddNodeKeeps, WireKeeps, ConfigureKeeps,
     CheckMacsKeep, BootKeeps, WipeKeeps, AnswerKeeps, TurnOffKeeps, RemoveKeeps DEF Step

\* Every step keeps the invariant.
LEMMA StepIInv ==
    ASSUME IInv, [Next]_vars
    PROVE  IInv'
<1>1. CASE Next
  BY <1>1, StepKeeps, GiveKeeps, FlipFirewallsKeeps, EditBorrowerKeeps DEF Next
<1>2. CASE UNCHANGED vars
  <2>1. UNCHANGED <<env, exists, nets, nodes, firewalls, borrower, edits, careless, cmd, given, settled>>
    BY <1>2 DEF vars, labVars, fileVars
  <2>2. given' \in [Labs -> Nat] /\ edits' \in Nat /\ borrower' \in BOOLEAN
    BY <2>1 DEF IInv, TypeOK
  <2> QED
    BY <2>1, <2>2, AllStays
<1> QED
  BY <1>1, <1>2

\* Every state of the labs satisfies the inductive invariant.
THEOREM Inductive == Spec => []IInv
<1>1. IInv /\ [Next]_vars => IInv'
  BY StepIInv
<1>2. Init => IInv
  BY InitIInv
<1> QED
  BY <1>1, <1>2, PTL DEF Spec

\* Every variable of the labs keeps its type.
THEOREM TypeCorrect == Spec => []TypeOK
<1>1. IInv => TypeOK
  BY DEF IInv
<1> QED
  BY <1>1, Inductive, PTL

-----------------------------------------------------------------------------
(* What the commands are for *)

\* A scratch router that runs has the MAC its file gives it and, unless somebody
\* flipped lab.firewalls over something, no firewall runs beside it: memory_guard
\* and check_firstmac are enough, whatever calls of EVE-NG failed.
THEOREM ScratchAlone == Spec => []ScratchMeetsNobody
<1>1. IInv => ScratchMeetsNobody
  <2> SUFFICES ASSUME IInv, NEW n \in NodesOf(env.topo[Scratch]), nodes[n].on
               PROVE  /\ nodes[n].own
                      /\ careless \/ \A f \in Have("enterprise") : nodes[f].on => ~Firewall(env.topo["enterprise"], f)
    BY DEF ScratchMeetsNobody
  <2>1. NodesOK(Scratch) /\ BootOK(Scratch) /\ CarefulOK
    BY LabNames DEF IInv, LabOK
  <2>2. n \in Have(Scratch) /\ Scratch \in exists
    BY <2>1 DEF NodesOK, Have, Absent
  <2>3. nodes[n].own
    BY <2>1, <2>2 DEF BootOK
  <2>4. careless \/ \A f \in Have("enterprise") : ~Firewall(env.topo["enterprise"], f)
    BY <2>1, <2>2 DEF CarefulOK
  <2> QED
    BY <2>3, <2>4
<1> QED
  BY <1>1, Inductive, PTL

\* What SettledOK says of a pushed lab is that it is as its file.
LEMMA SettledIsItsFile ==
    ASSUME IInv, NEW l \in Labs, settled[l] = "pushed"
    PROVE  AsItsFile(l)
<1>1. /\ nets[l] = Bridges(Now(l)) /\ Wanted(Now(l)) \subseteq Have(l)
      /\ \A n \in Have(l) : nodes[n].wires = Wiring(Now(l), n) /\ Runs(n, Flag(l))
  BY DEF IInv, LabOK, SettledOK
<1>2. Now(l).firewalls = Flag(l)
  BY Matters DEF IInv
<1> QED
  BY <1>1, <1>2 DEF AsItsFile, Runs, Bridges

\* After an apply and a push-configs that both ended, untouched since, EVE-NG
\* holds and runs just what the topology file says, whatever failed before.
THEOREM PushedLabIsItsFile == Spec => [](\A l \in Labs : settled[l] = "pushed" => AsItsFile(l))
<1>1. IInv => \A l \in Labs : settled[l] = "pushed" => AsItsFile(l)
  BY SettledIsItsFile
<1> QED
  BY <1>1, Inductive, PTL

\* And its BGP sessions are derived for both ends, if that is so of what
\* derive.py makes of the files with lab.firewalls on and off.
THEOREM PushedLabMeets ==
    ASSUME FilesMeet
    PROVE  Spec => []PushedLabIsWhole
<1>1. IInv => PushedLabIsWhole
  <2> SUFFICES ASSUME IInv, NEW l \in Labs, settled[l] = "pushed" PROVE AsItsFile(l) /\ SessionsMeet(Now(l))
    BY DEF PushedLabIsWhole
  <2>1. PICK fw \in BOOLEAN : Now(l) = [env.topo[l] EXCEPT !.firewalls = fw]
    BY Settings DEF IInv, With
  <2>2. env \in Environments
    BY DEF IInv, TypeOK
  <2> QED
    BY <2>1, <2>2, SettledIsItsFile, FilesMeet DEF FilesMeet
<1> QED
  BY <1>1, Inductive, PTL

-----------------------------------------------------------------------------
(* What derive.py makes of a file *)

\* The two ends of a link name each other, on two addresses of its network that
\* are neither its first nor its last, but on a /31 both of them: link_ends.
THEOREM LinkEndsAgree ==
    ASSUME NEW link, link.a[1] # link.b[1], link.prefix.net \in Nat, link.prefix.len \in {30, 31}
    PROVE  LET A == LinkEnds(link)[link.a[1]]
               B == LinkEnds(link)[link.b[1]]
               outer == IF link.prefix.len = 31 THEN 0 ELSE 1
           IN /\ A.peer = link.b[1] /\ B.peer = link.a[1]
              /\ A.peerIp = B.ip /\ B.peerIp = A.ip /\ A.ip # B.ip
              /\ A.peerPort = B.port /\ B.peerPort = A.port
              /\ {A.ip, B.ip} = link.prefix.net + outer .. link.prefix.net + outer + 1
  BY DEF LinkEnds, EndsOf

\* Every EVPN session of the fabric is derived for both ends, between the
\* loopbacks of a spine and a leaf, each with the AS of the other, when every
\* spine and leaf is a switch with a loopback: evpn_peers of render_context and
\* bgp_neighbors agree.
THEOREM EvpnMeets ==
    ASSUME NEW T,
           \A m \in NodesOf(T) : T.role[m] \in {"spine", "leaf"} => T.platform[m] = "veos" /\ T.loopback[m] # None,
           NEW n \in NodesOf(T), Fabric(T, n),
           NEW s \in BgpNeighbors(T, n), s.afi = "evpn"
    PROVE  Mirrored(T, n, s)
<1> DEFINE Other(m) == IF T.role[m] = "spine" THEN "leaf" ELSE "spine"
           Own(m) == IF T.role[m] = "spine" THEN T.asn["dc1_spine"] ELSE T.asn["dc1_leaf"]
           Its(m) == IF T.role[m] = "spine" THEN T.asn["dc1_leaf"] ELSE T.asn["dc1_spine"]
           Peers(m) == {k \in NodesOf(T) : T.role[k] = Other(m) /\ T.site[k] = T.site[m]}
<1>1. ASSUME NEW m \in NodesOf(T), Fabric(T, m)
      PROVE  /\ RenderContext(T, m).asn = Own(m) /\ RenderContext(T, m).evpnPeers = {T.loopback[k] : k \in Peers(m)}
             /\ \E items : BgpNeighbors(T, m) = FabricSessions(T, m, items)
             /\ Row("loopback", 0, T.loopback[m], Host(T.loopback[m]), None) \in Interfaces(T, m)
  BY <1>1 DEF RenderContext, BgpNeighbors, Interfaces, Fabric
<1>2. ASSUME NEW m \in NodesOf(T), Fabric(T, m), NEW k \in Peers(m)
      PROVE  Session(T.loopback[k], Its(m), None, "evpn") \in BgpNeighbors(T, m)
  BY SMTT(30), <1>1, <1>2 DEF FabricSessions
<1>3. PICK y \in Peers(n) : s = Session(T.loopback[y], Its(n), None, "evpn")
  BY <1>1 DEF FabricSessions, Session
<1>4. y \in NodesOf(T) \ {n} /\ Fabric(T, y) /\ n \in Peers(y) /\ Own(y) = Its(n) /\ Its(y) = Own(n)
  BY <1>3 DEF Fabric
<1> DEFINE r == Session(T.loopback[n], Its(y), None, "evpn")
           Lo(m) == Row("loopback", 0, T.loopback[m], Host(T.loopback[m]), None)
<1>5. r \in BgpNeighbors(T, y) /\ r.afi = s.afi /\ r.as = RenderContext(T, n).asn /\ RenderContext(T, y).asn = s.as
  BY <1>1, <1>2, <1>3, <1>4 DEF Session
<1>6. /\ Lo(y) \in Interfaces(T, y) /\ Lo(y).ip = s.neighbor
      /\ Lo(n) \in Interfaces(T, n) /\ Lo(n).ip = r.neighbor /\ s.afi # "ipv4"
  BY <1>1, <1>3, <1>4 DEF Row, Session
<1> HIDE DEF r, Lo
<1> QED
  BY <1>4, <1>5, <1>6 DEF Mirrored
=============================================================================
