------------------------- MODULE HandledOutagesProofs -------------------------
(***************************************************************************)
(* Theorems about HandledOutages and the outage loop, the relay and the    *)
(* drill it composes, for any number of runs, subjects, breaks and         *)
(* reloads.  The argument is the inductive invariant IInv of               *)
(* HandledOutages: which run creates, owns and keeps an incident, and      *)
(* where the fault of a drill can be.                                      *)
(***************************************************************************)
EXTENDS HandledOutages, FiniteSetTheorems, SequenceTheorems, TLAPS

-----------------------------------------------------------------------------
\* A set in which any two elements are equal has at most one.
LEMMA AtMostOne ==
    ASSUME NEW S, \A x, y \in S : x = y
    PROVE  Cardinality(S) \in {0, 1}
<1>1. CASE S = {}
  BY <1>1, FS_EmptySet
<1>2. ASSUME NEW x \in S PROVE Cardinality(S) = 1
  <2>1. S = {x}
    OBVIOUS
  <2> QED
    BY <2>1, FS_Singleton
<1> QED
  BY <1>1, <1>2

\* The steps of a run of the loop and of a drill.
LoopDoes(l)  == LoopStep(l) \/ DecideFix(l) \/ SeeTask(l)
DrillDoes(d) == DrillStep(d) \/ DecideDrill(d) \/ SeeDrill(d) \/ \E s \in Subjects : StartDrill(d, s)
Shakes       == TimerFires \/ Reloads \/ \E s \in Subjects : Breaks(s) \/ Heals(s)

\* The steps of the system by who takes them.
LEMMA NextCases ==
    ASSUME Next
    PROVE  /\ env' = env
           /\ \/ \E l \in Loops : LoopDoes(l) /\ UNCHANGED <<bounded, alert>>
              \/ \E d \in Drills : DrillDoes(d) /\ UNCHANGED <<loopVars, bounded, alert>>
              \/ \E i \in DOMAIN incidents : (WorkOn(i) \/ ResolveByHand(i)) /\ UNCHANGED <<bounded, alert>>
              \/ \E s \in Subjects : (Fire(s) \/ Deliver(s)) /\ UNCHANGED <<bounded, loopVars>>
              \/ Shakes /\ UNCHANGED <<alert, loopVars>>
  BY DEF Next, Step, Decisions, Alerts, Around, LoopDoes, DrillDoes, Shakes

\* Loops and drills are jobs, and no job is both.
LEMMA Who == Loops \subseteq Jobs /\ Drills \subseteq Jobs /\ Loops \cap Drills = {} /\ None \notin Subjects
  BY JobAssumption DEF Jobs

\* A step of one job leaves every other job alone.
Apart(j) == \A i \in Jobs \ {j} : at'[i] = at[i] /\ said'[i] = said[i] /\ about'[i] = about[i]

\* What a run of the loop, and a drill, does to the jobs: it goes on, or says why not.
Moves(j) == \/ \E t \in Task \ {"start"} : GoesOn(j, t)
            \/ \E t \in Task \ {"start"}, what \in Outcome : Says(j, what, t)

-----------------------------------------------------------------------------
\* The names of the tasks and of the outcomes, one by one.
LEMMA Names ==
    /\ "plan" \in Task \ {"start"} /\ "list" \in Task \ {"start"} /\ "note" \in Task \ {"start"}
    /\ "evidence" \in Task \ {"start"} /\ "create" \in Task \ {"start"} /\ "agent" \in Task \ {"start"}
    /\ "lines" \in Task \ {"start"} /\ "card" \in Task \ {"start"} /\ "fix" \in Task \ {"start"}
    /\ "reread" \in Task \ {"start"} /\ "resolve" \in Task \ {"start"} /\ "health" \in Task \ {"start"}
    /\ "inject" \in Task \ {"start"} /\ "wait" \in Task \ {"start"} /\ "confirm" \in Task \ {"start"}
    /\ "after timer" \in Task \ {"start"} /\ "task" \in Task \ {"start"} /\ "done" \in Task \ {"start"}
    /\ "nothing" \in Outcome /\ "nothing deployed" \in Outcome /\ "nothing was changed" \in Outcome
    /\ "no incident" \in Outcome /\ "noted" \in Outcome /\ "up again" \in Outcome
    /\ "escalated" \in Outcome /\ "after the incident" \in Outcome /\ "rejected" \in Outcome
    /\ "not fixed" \in Outcome /\ "fixed" \in Outcome /\ "not healthy" \in Outcome
    /\ "may hold a session" \in Outcome /\ "back and confirmed" \in Outcome
    /\ "timer still rolls back" \in Outcome /\ "rolled back" \in Outcome /\ "not back" \in Outcome
  BY DEF Task, Outcome

\* Going on and saying why are moves.
LEMMA MovesBy ==
    ASSUME NEW j
    PROVE  /\ \A t \in Task \ {"start"} : GoesOn(j, t) => Moves(j)
           /\ \A t \in Task \ {"start"}, what \in Outcome : Says(j, what, t) => Moves(j)
  BY DEF Moves

\* A run of the loop moves itself alone.
LEMMA LoopMoves == ASSUME NEW l \in Loops, LoopDoes(l) PROVE Moves(l) /\ at[l] # "start"
<1>1. at[l] # "start"
  BY DEF LoopDoes, LoopStep, Plan, ListIncidents, NoteOpen, ReadEvidence, CreateIncident, AgentPicks, PrepareCard,
     RunFix, ReadAgain, Resolve, DecideFix, SeeTask, At
<1> SUFFICES Moves(l)
  BY <1>1
<1>a. /\ \A t \in Task \ {"start"} : GoesOn(l, t) => Moves(l)
      /\ \A t \in Task \ {"start"}, what \in Outcome : Says(l, what, t) => Moves(l)
  BY MovesBy
<1> USE <1>a, Names DEF Stops
<1>2. CASE Plan(l) \/ NoteOpen(l)
  BY <1>2 DEF Plan, NothingDeployed, NoteOpen
<1>3. CASE ListIncidents(l)
  BY <1>3 DEF ListIncidents
<1>4. CASE ReadEvidence(l)
  BY <1>4 DEF ReadEvidence, AwsEvidence, FabricEvidence
<1>5. CASE CreateIncident(l)
  BY <1>5 DEF CreateIncident, NoText
<1>6. CASE AgentPicks(l) \/ PrepareCard(l)
  BY <1>6 DEF AgentPicks, Picks, Escalates, PrepareCard
<1>7. CASE DecideFix(l) \/ SeeTask(l)
  BY <1>7 DEF DecideFix, RejectFix, SeeTask
<1>8. CASE RunFix(l)
  BY <1>8 DEF RunFix
<1>9. CASE ReadAgain(l) \/ Resolve(l)
  BY <1>9 DEF ReadAgain, Fixed, NotFixed, Resolve
<1> QED
  BY <1>1, <1>2, <1>3, <1>4, <1>5, <1>6, <1>7, <1>8, <1>9 DEF LoopDoes, LoopStep

\* A drill moves itself alone, from its start with a subject.
LEMMA DrillMoves ==
    ASSUME NEW d \in Drills, DrillDoes(d)
    PROVE  \/ Moves(d) /\ at[d] # "start"
           \/ \E s \in Subjects : StartDrill(d, s)
<1>a. /\ \A t \in Task \ {"start"} : GoesOn(d, t) => Moves(d)
      /\ \A t \in Task \ {"start"}, what \in Outcome : Says(d, what, t) => Moves(d)
  BY MovesBy
<1> USE <1>a, Names DEF Halts, At
<1>1. CASE CheckHealth(d) \/ PrepareDrill(d)
  BY <1>1 DEF CheckHealth, PrepareDrill
<1>2. CASE Inject(d)
  BY <1>2 DEF Inject
<1>3. CASE WaitForLoop(d)
  BY <1>3 DEF WaitForLoop
<1>4. CASE ConfirmDrill(d)
  BY <1>4 DEF ConfirmDrill
<1>5. CASE ReadAfterTimer(d)
  BY <1>5 DEF ReadAfterTimer
<1>6. CASE DecideDrill(d) \/ SeeDrill(d)
  BY <1>6 DEF DecideDrill, SeeDrill
<1> QED
  BY <1>1, <1>2, <1>3, <1>4, <1>5, <1>6 DEF DrillDoes, DrillStep

\* What a move does to the jobs.
LEMMA MovesType ==
    ASSUME TypeOK, NEW j \in Jobs, Moves(j), at[j] # "start"
    PROVE  /\ at' \in [Jobs -> Task] /\ said' \in [Jobs -> Outcome]
           /\ about' = about /\ Apart(j) /\ at'[j] # "start"
<1>a. at \in [Jobs -> Task] /\ said \in [Jobs -> Outcome]
  BY DEF TypeOK
<1>1. CASE \E t \in Task \ {"start"} : GoesOn(j, t)
  BY <1>1, <1>a DEF GoesOn, Go, Apart
<1>2. CASE \E t \in Task \ {"start"}, what \in Outcome : Says(j, what, t)
  BY <1>2, <1>a DEF Says, Go, Apart
<1> QED
  BY <1>1, <1>2 DEF Moves

\* Where a job goes, what it says and what it is about.
LEMMA JobsType ==
    TypeOK /\ Next => /\ at' \in [Jobs -> Task] /\ said' \in [Jobs -> Outcome]
                      /\ about' \in [Jobs -> Subjects \cup {None}]
                      /\ \A j \in Jobs : /\ at'[j] = "start" <=> about'[j] = None
                                         /\ about[j] # None => about'[j] = about[j]
<1> DEFINE Typed == /\ at' \in [Jobs -> Task] /\ said' \in [Jobs -> Outcome]
                    /\ about' \in [Jobs -> Subjects \cup {None}]
                    /\ \A j \in Jobs : /\ at'[j] = "start" <=> about'[j] = None
                                       /\ about[j] # None => about'[j] = about[j]
<1> SUFFICES ASSUME TypeOK, Next PROVE Typed
  OBVIOUS
<1>a. /\ at \in [Jobs -> Task] /\ said \in [Jobs -> Outcome] /\ about \in [Jobs -> Subjects \cup {None}]
      /\ \A j \in Jobs : at[j] = "start" <=> about[j] = None
  BY DEF TypeOK
<1>1. ASSUME NEW j \in Jobs, Moves(j), at[j] # "start" PROVE Typed
  BY <1>1, <1>a, MovesType DEF Apart
<1>2. ASSUME NEW j \in Jobs, NEW s \in Subjects, NEW t \in Task \ {"start"}, at[j] = "start",
             Go(j, t), about' = [about EXCEPT ![j] = s], UNCHANGED said
      PROVE  Typed
  BY <1>2, <1>a, Who DEF Go
<1>3. ASSUME UNCHANGED control PROVE Typed
  BY <1>3, <1>a DEF control
<1>4. ASSUME NEW d \in Drills, DrillDoes(d) PROVE Typed
  BY <1>4, <1>1, <1>2, DrillMoves, Who, Names DEF StartDrill, At
<1>5. ASSUME NEW s \in Subjects, Fire(s) \/ Deliver(s) PROVE Typed
  BY <1>5, <1>2, <1>3, Who, Names DEF Fire, Deliver, Started, At
<1>6. ASSUME NEW i, WorkOn(i) \/ ResolveByHand(i) PROVE Typed
  BY <1>6, <1>3 DEF WorkOn, ResolveByHand
<1>7. ASSUME Shakes PROVE Typed
  BY <1>7, <1>3 DEF Shakes, TimerFires, Reloads, Breaks, Heals
<1> QED
  BY <1>1, <1>4, <1>5, <1>6, <1>7, LoopMoves, Who, NextCases

-----------------------------------------------------------------------------
(* The incidents *)

\* The steps of the loop as its incident sees them.
Reads(l)    == /\ UNCHANGED <<incidents, own, together, byHand>>
               /\ (Creating(l)' => Creating(l)) /\ (Mending(l)' => Mending(l))
Lists(l)    == /\ Open(about[l]) = {} /\ at'[l] = "evidence"
               /\ together' = together \cup {about[o] : o \in Before(l)}
               /\ UNCHANGED <<incidents, own, byHand>>
Creates(l)  == /\ Creating(l) /\ OpenIncident(about[l], "new")
               /\ \/ own' = [own EXCEPT ![l] = Len(incidents) + 1] /\ at'[l] = "agent"
                  \/ own' = own /\ at'[l] = "task"
               /\ UNCHANGED <<together, byHand>>
Resolves(l) == /\ Mending(l) /\ MoveIncident(own[l], "resolved") /\ at'[l] \in {"done", "task"}
               /\ UNCHANGED <<own, together, byHand>>

\* Each step of the loop reads, lists, creates or resolves.
LEMMA LoopKinds ==
    ASSUME TypeOK, NEW l \in Loops, LoopDoes(l)
    PROVE  Reads(l) \/ Lists(l) \/ Creates(l) \/ Resolves(l)
<1>a. at \in [Jobs -> Task] /\ l \in Jobs
  BY Who DEF TypeOK
<1> USE <1>a DEF GoesOn, Says, Stops, Go, At, loopVars, device, Creating, Mending
<1>1. CASE Plan(l) \/ NoteOpen(l) \/ DecideFix(l) \/ SeeTask(l)
  BY <1>1 DEF Plan, NothingDeployed, NoteOpen, DecideFix, RejectFix, SeeTask, Reads
<1>2. CASE ListIncidents(l)
  BY <1>2 DEF ListIncidents, Reads, Lists
<1>3. CASE ReadEvidence(l)
  BY <1>3 DEF ReadEvidence, AwsEvidence, FabricEvidence, Reads
<1>4. CASE CreateIncident(l)
  BY <1>4 DEF CreateIncident, NoText, Reads, Creates
<1>5. CASE AgentPicks(l) \/ PrepareCard(l)
  BY <1>5 DEF AgentPicks, Picks, Escalates, PrepareCard, Reads
<1>6. CASE RunFix(l) \/ ReadAgain(l)
  BY <1>6 DEF RunFix, ReadAgain, Fixed, NotFixed, Reads
<1>7. CASE Resolve(l)
  BY <1>7 DEF Resolve, Reads, Resolves
<1> QED
  BY <1>1, <1>2, <1>3, <1>4, <1>5, <1>6, <1>7 DEF LoopDoes, LoopStep

\* An incident that moves keeps its subject, and only its own state changes.
LEMMA MovedIncident ==
    ASSUME TypeOK, NEW i \in DOMAIN incidents, NEW state \in {"new", "in progress", "resolved"}, MoveIncident(i, state)
    PROVE  /\ incidents' \in Seq(Incident) /\ Len(incidents') = Len(incidents) /\ DOMAIN incidents' = DOMAIN incidents
           /\ \A k \in DOMAIN incidents : incidents'[k].subject = incidents[k].subject
           /\ \A k \in DOMAIN incidents \ {i} : incidents'[k] = incidents[k]
           /\ incidents'[i].state = state
<1>a. incidents \in Seq(Incident)
  BY DEF TypeOK
<1>b. DOMAIN incidents = 1 .. Len(incidents) /\ Len(incidents) \in Nat
  BY <1>a, LenProperties
<1>c. i \in 1 .. Len(incidents)
  BY <1>b
<1>1. incidents \in Seq(Incident) /\ incidents[i] \in Incident
  BY <1>a, <1>c, ElementOfSeq
<1>2. [incidents[i] EXCEPT !.state = state] \in Incident
  BY <1>1 DEF Incident
<1>3. incidents' = [incidents EXCEPT ![i] = [incidents[i] EXCEPT !.state = state]]
  BY <1>1 DEF MoveIncident
<1>4. incidents' \in Seq(Incident) /\ Len(incidents') = Len(incidents) /\ DOMAIN incidents' = DOMAIN incidents
  <2>1. incidents' \in Seq(Incident) /\ Len(incidents') = Len(incidents)
    <3>1. \A e \in Incident : /\ [incidents EXCEPT ![i] = e] \in Seq(Incident)
                              /\ Len([incidents EXCEPT ![i] = e]) = Len(incidents)
      BY <1>a, <1>c, ExceptSeq
    <3> QED
      BY <1>2, <1>3, <3>1
  <2>2. DOMAIN incidents' = DOMAIN incidents
    BY <1>3
  <2> QED
    BY <2>1, <2>2
<1>5. incidents'[i].subject = incidents[i].subject /\ incidents'[i].state = state
  BY <1>1, <1>3 DEF Incident
<1>6. \A k \in DOMAIN incidents \ {i} : incidents'[k] = incidents[k]
  BY <1>3
<1> QED
  BY <1>4, <1>5, <1>6

\* An incident that is opened comes after the others.
LEMMA OpenedIncident ==
    ASSUME TypeOK, NEW s \in Subjects, OpenIncident(s, "new")
    PROVE  /\ incidents' \in Seq(Incident) /\ Len(incidents') = Len(incidents) + 1 /\ Len(incidents) \in Nat
           /\ DOMAIN incidents' = DOMAIN incidents \cup {Len(incidents) + 1} /\ Len(incidents) + 1 \notin DOMAIN incidents
           /\ \A k \in DOMAIN incidents : incidents'[k] = incidents[k]
           /\ incidents'[Len(incidents) + 1] = [subject |-> s, state |-> "new"]
<1>1. incidents \in Seq(Incident) /\ Len(incidents) \in Nat /\ DOMAIN incidents = 1 .. Len(incidents)
  BY DEF TypeOK
<1>2. [subject |-> s, state |-> "new"] \in Incident
  BY DEF Incident
<1>3. incidents' = Append(incidents, [subject |-> s, state |-> "new"])
  BY DEF OpenIncident
<1> HIDE DEF OpenIncident
<1>4. incidents' \in Seq(Incident) /\ Len(incidents') = Len(incidents) + 1
  BY <1>1, <1>2, <1>3
<1>5. DOMAIN incidents' = 1 .. Len(incidents) + 1
  BY <1>4
<1> QED
  BY <1>1, <1>3, <1>4, <1>5

\* A drill, the relay and what happens to the device leave the incidents alone, and
\* no run of the loop gets to its list or further by them.
Elsewhere == /\ UNCHANGED <<incidents, own, together, byHand>>
             /\ \A l \in Loops : (Creating(l)' => Creating(l)) /\ (Mending(l)' => Mending(l))

\* Drills, the relay and the device are elsewhere.
LEMMA OthersElsewhere ==
    ASSUME TypeOK, UNCHANGED loopVars,
           \/ \E d \in Drills : DrillDoes(d)
           \/ \E s \in Subjects : Fire(s) \/ Deliver(s)
           \/ Shakes
    PROVE  Elsewhere
<1>a. at \in [Jobs -> Task] /\ Loops \subseteq Jobs
  BY Who DEF TypeOK
<1> USE DEF loopVars
<1>1. ASSUME NEW d \in Drills, DrillDoes(d) PROVE Elsewhere
  <2>1. UNCHANGED <<incidents, own>>
    BY <1>1 DEF DrillDoes, DrillStep, CheckHealth, PrepareDrill, Inject, WaitForLoop, ConfirmDrill, ReadAfterTimer,
       DecideDrill, SeeDrill, StartDrill
  <2>2. \A l \in Loops : at'[l] = at[l]
    <3>1. \A l \in Loops : l \in Jobs \ {d}
      BY Who
    <3>2. Apart(d) \/ \E s \in Subjects : StartDrill(d, s)
      BY <1>1, DrillMoves, MovesType, Who
    <3> QED
      BY <3>1, <3>2, <1>a DEF Apart, StartDrill, Go
  <2> QED
    BY <2>1, <2>2 DEF Elsewhere, Mending, Creating
<1>2. ASSUME NEW s \in Subjects, Fire(s) \/ Deliver(s) PROVE Elsewhere
  <2>1. UNCHANGED incidents /\ (UNCHANGED at \/ \E l \in Loops : Go(l, "plan"))
    BY <1>2 DEF Fire, Deliver, Started, control
  <2> QED
    BY <2>1, <1>a DEF Go, Elsewhere, Mending, Creating
<1>3. ASSUME Shakes PROVE Elsewhere
  BY <1>3 DEF Shakes, TimerFires, Reloads, Breaks, Heals, control, Elsewhere, Mending, Creating
<1> QED
  BY <1>1, <1>2, <1>3

\* The incidents, and whose they are.
LEMMA IncidentsType ==
    TypeOK /\ Next => /\ incidents' \in Seq(Incident) /\ own' \in [Loops -> 0 .. Len(incidents')]
                      /\ \A l \in Loops : /\ own'[l] # 0 => incidents'[own'[l]].subject = about'[l]
                                          /\ Mending(l)' => own'[l] # 0
<1> DEFINE Typed == /\ incidents' \in Seq(Incident) /\ own' \in [Loops -> 0 .. Len(incidents')]
                    /\ \A l \in Loops : /\ own'[l] # 0 => incidents'[own'[l]].subject = about'[l]
                                        /\ Mending(l)' => own'[l] # 0
<1> SUFFICES ASSUME TypeOK, Next PROVE Typed
  OBVIOUS
<1>a. /\ incidents \in Seq(Incident) /\ own \in [Loops -> 0 .. Len(incidents)] /\ Loops \subseteq Jobs /\ Len(incidents) \in Nat
      /\ DOMAIN incidents = 1 .. Len(incidents)
      /\ \A l \in Loops : /\ own[l] # 0 => incidents[own[l]].subject = about[l]
                          /\ Mending(l) => own[l] # 0
  BY Who DEF TypeOK, Mending
<1>b. \A l \in Loops : own[l] # 0 => own[l] \in DOMAIN incidents /\ incidents[own[l]].subject \in Subjects
  <2> SUFFICES ASSUME NEW l \in Loops, own[l] # 0
               PROVE  own[l] \in DOMAIN incidents /\ incidents[own[l]].subject \in Subjects
    OBVIOUS
  <2>1. own[l] \in DOMAIN incidents
    BY <1>a
  <2>2. incidents[own[l]] \in Incident
    BY <2>1, <1>a
  <2> QED
    BY <2>1, <2>2 DEF Incident
<1>c. \A l \in Loops : own[l] # 0 => about'[l] = about[l]
  BY <1>a, <1>b, JobsType, Who
<1>1. ASSUME incidents' \in Seq(Incident), Len(incidents') >= Len(incidents), own' = own,
             \A k \in DOMAIN incidents : incidents'[k].subject = incidents[k].subject,
             \A l \in Loops : Mending(l)' => Mending(l)
      PROVE  Typed
  <2>1. Len(incidents') \in Nat
    BY <1>1
  <2>2. own' \in [Loops -> 0 .. Len(incidents')]
    BY <1>1, <1>a, <2>1
  <2> QED
    BY <1>1, <1>a, <1>b, <1>c, <2>2
<1>2. ASSUME NEW l \in Loops, LoopDoes(l) PROVE Typed
  <2>a. about' = about /\ Apart(l) /\ at[l] # "start" /\ l \in Jobs
    BY <1>2, <1>a, LoopMoves, MovesType
  <2>b. \A o \in Loops \ {l} : Mending(o)' <=> Mending(o)
    BY <2>a, <1>a DEF Apart, Mending
  <2>c. about[l] \in Subjects
    BY <2>a DEF TypeOK
  <2>1. CASE Reads(l)
    BY <2>1, <2>b, <1>1, <1>a DEF Reads
  <2>2. CASE Lists(l)
    BY <2>2, <2>b, <1>1, <1>a DEF Lists, Mending
  <2>3. CASE Creates(l)
    <3>1. OpenIncident(about[l], "new")
      BY <2>3 DEF Creates
    <3>2. /\ incidents' \in Seq(Incident) /\ Len(incidents') = Len(incidents) + 1
          /\ \A k \in DOMAIN incidents : incidents'[k] = incidents[k]
          /\ incidents'[Len(incidents) + 1].subject = about[l]
      <4>1. incidents'[Len(incidents) + 1] = [subject |-> about[l], state |-> "new"]
        BY <3>1, <2>c, OpenedIncident
      <4> QED
        BY <3>1, <2>c, <4>1, OpenedIncident
    <3>3. CASE own' = own /\ at'[l] = "task"
      BY <3>2, <3>3, <2>b, <1>1, <1>a DEF Mending
    <3>4. CASE own' = [own EXCEPT ![l] = Len(incidents) + 1]
      <4>1. own' \in [Loops -> 0 .. Len(incidents')] /\ own'[l] = Len(incidents) + 1 /\ own'[l] # 0
        BY <3>2, <3>4, <1>a
      <4>2. \A o \in Loops \ {l} : own'[o] = own[o]
        BY <3>4, <1>a
      <4> QED
        BY <3>2, <4>1, <4>2, <2>a, <2>b, <1>a, <1>b
    <3> QED
      BY <2>3, <3>3, <3>4 DEF Creates
  <2>4. CASE Resolves(l)
    <3>1. own[l] \in DOMAIN incidents
      BY <2>4, <1>a, <1>b DEF Resolves
    <3>2. /\ incidents' \in Seq(Incident) /\ Len(incidents') = Len(incidents)
          /\ \A k \in DOMAIN incidents : incidents'[k].subject = incidents[k].subject
      BY <2>4, <3>1, MovedIncident DEF Resolves
    <3> QED
      BY <3>2, <2>4, <2>b, <1>1, <1>a DEF Resolves, Mending
  <2> QED
    BY <1>2, <2>1, <2>2, <2>3, <2>4, LoopKinds
<1>3. ASSUME Elsewhere PROVE Typed
  BY <1>3, <1>1, <1>a DEF Elsewhere
<1>4. ASSUME NEW i \in DOMAIN incidents, WorkOn(i) \/ ResolveByHand(i) PROVE Typed
  <2>1. /\ incidents' \in Seq(Incident) /\ Len(incidents') = Len(incidents)
        /\ \A k \in DOMAIN incidents : incidents'[k].subject = incidents[k].subject
    BY <1>4, MovedIncident DEF WorkOn, ResolveByHand
  <2>2. own' = own /\ at' = at
    BY <1>4 DEF WorkOn, ResolveByHand, control, loopVars
  <2> QED
    BY <2>1, <2>2, <1>1, <1>a DEF Mending
<1> QED
  BY <1>2, <1>3, <1>4, OthersElsewhere, NextCases

\* The device's configurations, and what the relay and the bounds count.
LEMMA DeviceType ==
    TypeOK /\ Next => /\ running' \in Faults /\ saved' \in Faults /\ timer' \in Pending \cup {None}
                      /\ alert' \in [Subjects -> {"none", "firing", "accepted"}]
                      /\ bounded' \in [breaks : 0 .. MaxBreaks, reloads : 0 .. MaxReloads]
                      /\ together' \subseteq Subjects /\ byHand' \subseteq Subjects /\ kept' \subseteq Drills
<1> DEFINE Held == running' \in Faults /\ saved' \in Faults /\ timer' \in Pending \cup {None}
           Ours == together' \subseteq Subjects /\ byHand' \subseteq Subjects /\ kept' \subseteq Drills
           Sent == alert' \in [Subjects -> {"none", "firing", "accepted"}]
           Counted == bounded' \in [breaks : 0 .. MaxBreaks, reloads : 0 .. MaxReloads]
<1> SUFFICES ASSUME TypeOK, Next PROVE Held /\ Ours /\ Sent /\ Counted
  OBVIOUS
<1>a. /\ running \in Faults /\ saved \in Faults /\ timer \in Pending \cup {None} /\ (timer # None => timer.back \in Faults)
      /\ about \in [Jobs -> Subjects \cup {None}]
  BY DEF TypeOK, Pending
<1>b. /\ alert \in [Subjects -> {"none", "firing", "accepted"}]
      /\ bounded \in [breaks : 0 .. MaxBreaks, reloads : 0 .. MaxReloads]
      /\ together \subseteq Subjects /\ byHand \subseteq Subjects /\ kept \subseteq Drills
  BY DEF TypeOK
<1>c. ASSUME NEW s \in Subjects, NEW faults \in SUBSET (Drills \cup {"own"}), running' = [running EXCEPT ![s] = faults]
      PROVE  running' \in Faults
  BY <1>c, <1>a DEF Faults
<1>d. \A s \in Subjects : running[s] \in SUBSET (Drills \cup {"own"})
  BY <1>a DEF Faults
<1>1. ASSUME NEW l \in Loops, LoopDoes(l) PROVE Held /\ Ours
  <2>a. about[l] \in Subjects /\ l \in Jobs
    BY <1>1, LoopMoves, Who DEF TypeOK
  <2>1. CASE RunFix(l)
    <3>1. UNCHANGED <<timer, together, byHand>>
      BY <2>1 DEF RunFix
    <3>2. CASE UNCHANGED <<running, saved, kept>>
      BY <3>1, <3>2, <1>a, <1>b
    <3>3. ASSUME NEW lifted \in SUBSET running[about[l]], FixRuns(about[l], lifted) PROVE Held /\ Ours
      <4>1. running' = [running EXCEPT ![about[l]] = running[about[l]] \ lifted]
        BY <3>3 DEF FixRuns
      <4>2. running[about[l]] \ lifted \in SUBSET (Drills \cup {"own"})
        BY <2>a, <1>d
      <4>3. running' \in Faults
        BY <4>1, <4>2, <2>a, <1>c
      <4>4. saved' \in {saved, running'} /\ kept' \subseteq Drills
        BY <3>3, <1>b DEF FixRuns
      <4> QED
        BY <3>1, <4>3, <4>4, <1>a, <1>b
    <3> QED
      BY <2>1, <3>2, <3>3 DEF RunFix
  <2>2. CASE ListIncidents(l)
    <3>1. \A o \in Before(l) : about[o] \in Subjects
      BY <2>a DEF Before
    <3> QED
      BY <2>2, <3>1, <1>a, <1>b DEF ListIncidents, device
  <2>3. CASE \/ Plan(l) \/ NoteOpen(l) \/ ReadEvidence(l) \/ CreateIncident(l) \/ AgentPicks(l) \/ PrepareCard(l)
             \/ ReadAgain(l) \/ Resolve(l) \/ DecideFix(l) \/ SeeTask(l)
    BY <2>3, <1>a, <1>b DEF Plan, NoteOpen, ReadEvidence, CreateIncident, AgentPicks, PrepareCard, ReadAgain, Resolve,
       DecideFix, SeeTask, device, loopVars
  <2> QED
    BY <1>1, <2>1, <2>2, <2>3 DEF LoopDoes, LoopStep
<1>2. ASSUME NEW d \in Drills, DrillDoes(d) PROVE Held
  <2>1. ASSUME NEW s \in Subjects, CommitUnderTimer(d, s) PROVE Held
    <3>1. [owner |-> d, back |-> running] \in Pending
      BY <1>a DEF Pending
    <3>2. running[s] \cup {d} \in SUBSET (Drills \cup {"own"})
      BY <1>d
    <3> QED
      BY <2>1, <3>1, <3>2, <1>a, <1>c DEF CommitUnderTimer
  <2>2. CASE Inject(d)
    <3>1. about[d] \in Subjects
      BY <2>2, Who DEF Inject, At, TypeOK
    <3> QED
      BY <2>2, <2>1, <3>1, <1>a DEF Inject, device
  <2>3. CASE ~Inject(d)
    BY <1>2, <2>3, <1>a DEF DrillDoes, DrillStep, CheckHealth, PrepareDrill, WaitForLoop, ConfirmDrill, Confirmed,
       ReadAfterTimer, DecideDrill, SeeDrill, StartDrill, device
  <2> QED
    BY <2>2, <2>3
<1>3. ASSUME NEW i \in DOMAIN incidents, WorkOn(i) \/ ResolveByHand(i) PROVE Held /\ Ours
  <2>1. incidents[i].subject \in Subjects
    <3>1. incidents \in Seq(Incident) /\ i \in 1 .. Len(incidents)
      BY LenProperties DEF TypeOK
    <3>2. incidents[i] \in Incident
      BY <3>1, ElementOfSeq
    <3> QED
      BY <3>2 DEF Incident
  <2> QED
    BY <1>3, <2>1, <1>a, <1>b DEF WorkOn, ResolveByHand, device, loopVars
<1>4. ASSUME NEW s \in Subjects, Fire(s) \/ Deliver(s) PROVE Held /\ Sent
  BY <1>4, <1>a, <1>b DEF Fire, Deliver, device
<1>5. ASSUME Shakes PROVE Held /\ Counted
  <2>1. CASE TimerFires
    BY <2>1, <1>a, <1>b DEF TimerFires
  <2>2. CASE Reloads
    BY <2>2, <1>a, <1>b, BoundAssumption DEF Reloads
  <2>3. ASSUME NEW s \in Subjects, Breaks(s) PROVE Held /\ Counted
    <3>1. running[s] \cup {"own"} \in SUBSET (Drills \cup {"own"})
      BY <1>d
    <3>2. running' \in Faults
      BY <2>3, <3>1, <1>c DEF Breaks
    <3>3. Counted
      BY <2>3, <1>b, BoundAssumption DEF Breaks
    <3> QED
      BY <2>3, <3>2, <3>3, <1>a DEF Breaks
  <2>4. ASSUME NEW s \in Subjects, Heals(s) PROVE Held /\ Counted
    <3>1. running[s] \ {"own"} \in SUBSET (Drills \cup {"own"})
      BY <1>d
    <3>2. running' \in Faults
      BY <2>4, <3>1, <1>c DEF Heals
    <3> QED
      BY <2>4, <3>2, <1>a, <1>b DEF Heals
  <2> QED
    BY <1>5, <2>1, <2>2, <2>3, <2>4 DEF Shakes
<1> QED
  BY <1>1, <1>2, <1>3, <1>4, <1>5, <1>b, NextCases DEF loopVars

\* Every step keeps the shape of every variable.
LEMMA TypeStep == TypeOK /\ Next => TypeOK'
  BY NextCases, JobsType, IncidentsType, DeviceType DEF TypeOK, Mending

-----------------------------------------------------------------------------
(* One incident, one run *)

\* What is open of a subject after an incident moved, or was opened.
LEMMA OpenMoves ==
    ASSUME TypeOK, NEW i \in DOMAIN incidents, NEW state \in {"in progress", "resolved"}, MoveIncident(i, state),
           incidents[i].state # "resolved" \/ state = "resolved"
    PROVE  \A s \in Subjects : Open(s)' = IF state = "resolved" THEN Open(s) \ {i} ELSE Open(s)
<1>1. /\ DOMAIN incidents' = DOMAIN incidents
      /\ \A k \in DOMAIN incidents : incidents'[k].subject = incidents[k].subject
      /\ \A k \in DOMAIN incidents \ {i} : incidents'[k] = incidents[k]
      /\ incidents'[i].state = state
  BY MovedIncident
<1> QED
  BY <1>1 DEF Open

\* Opening an incident adds it to its subject's open ones, and to no other's.
LEMMA OpenOpens ==
    ASSUME TypeOK, NEW t \in Subjects, OpenIncident(t, "new")
    PROVE  \A s \in Subjects : Open(s)' = IF s = t THEN Open(s) \cup {Len(incidents) + 1} ELSE Open(s)
<1>1. /\ DOMAIN incidents' = DOMAIN incidents \cup {Len(incidents) + 1} /\ Len(incidents) + 1 \notin DOMAIN incidents
      /\ \A k \in DOMAIN incidents : incidents'[k] = incidents[k]
  BY OpenedIncident
<1>2. incidents'[Len(incidents) + 1].subject = t /\ incidents'[Len(incidents) + 1].state = "new"
  <2>1. incidents'[Len(incidents) + 1] = [subject |-> t, state |-> "new"]
    BY OpenedIncident
  <2> QED
    BY <2>1
<1> QED
  BY <1>1, <1>2 DEF Open

\* The incidents, and a run that is at one, are kept by whatever leaves the runs be.
IncidentsOK == OwnOne /\ \A s \in Subjects : OneOpen(s) /\ OwnOpen(s)

\* What happens elsewhere keeps the incidents.
LEMMA ElsewhereKeeps ==
    ASSUME TypeOK, IncidentsOK, Elsewhere, \A l \in Loops : about[l] # None => about'[l] = about[l]
    PROVE  IncidentsOK'
<1>1. \A l \in Loops : (Creating(l) \/ Mending(l)) => about'[l] = about[l]
  BY Who DEF TypeOK, Creating, Mending
<1>2. \A s \in Subjects : Open(s)' = Open(s)
  BY DEF Elsewhere, Open
<1>3. OwnOne'
  BY DEF IncidentsOK, OwnOne, Elsewhere
<1>4. \A s \in Subjects : OneOpen(s)'
  BY <1>1, <1>2 DEF IncidentsOK, OneOpen, Elsewhere
<1>5. \A s \in Subjects : OwnOpen(s)'
  BY <1>1, <1>2 DEF IncidentsOK, OwnOpen, Elsewhere
<1> QED
  BY <1>3, <1>4, <1>5 DEF IncidentsOK

\* So they are by the people who work on incidents: what a person resolves is on record.
LEMMA PeopleKeep ==
    ASSUME TypeOK, IncidentsOK, NEW i \in DOMAIN incidents, WorkOn(i) \/ ResolveByHand(i)
    PROVE  IncidentsOK'
<1>1. UNCHANGED <<at, about, own, together>>
  BY DEF WorkOn, ResolveByHand, control, loopVars
<1>2. CASE WorkOn(i)
  <2>1. \A s \in Subjects : Open(s)' = Open(s)
    BY <1>2, OpenMoves DEF WorkOn
  <2>2. byHand' = byHand
    BY <1>2 DEF WorkOn, loopVars
  <2> QED
    BY <1>1, <2>1, <2>2 DEF IncidentsOK, OwnOne, OneOpen, OwnOpen, Creating, Mending
<1>3. CASE ResolveByHand(i)
  <2>1. \A s \in Subjects : Open(s)' = Open(s) \ {i}
    BY <1>3, OpenMoves DEF ResolveByHand
  <2>2. byHand' = byHand \cup {incidents[i].subject}
    BY <1>3 DEF ResolveByHand
  <2>3. \A s \in Subjects : i \in Open(s) => s \in byHand'
    BY <2>2 DEF Open
  <2>4. \A s \in Subjects : OneOpen(s)'
    BY <1>1, <2>1 DEF IncidentsOK, OneOpen, Creating
  <2>5. \A s \in Subjects : OwnOpen(s)'
    BY <1>1, <2>1, <2>2, <2>3 DEF IncidentsOK, OwnOpen, Mending
  <2> QED
    BY <1>1, <2>4, <2>5 DEF IncidentsOK, OwnOne
<1> QED
  BY <1>2, <1>3

\* A run that reads, lists, creates or resolves keeps them: it lists beside no other
\* one but on record, creates while none is open, and resolves its own.
LEMMA LoopKeeps ==
    ASSUME TypeOK, IncidentsOK, NEW l \in Loops, LoopDoes(l)
    PROVE  IncidentsOK'
<1>a. about' = about /\ Apart(l) /\ l \in Jobs /\ about[l] \in Subjects /\ Loops \subseteq Jobs
  BY LoopMoves, MovesType, Who DEF TypeOK
<1>b. \A o \in Loops \ {l} : at'[o] = at[o]
  BY <1>a DEF Apart
<1>c. own \in [Loops -> 0 .. Len(incidents)] /\ Len(incidents) \in Nat /\ DOMAIN incidents = 1 .. Len(incidents)
  <2>1. incidents \in Seq(Incident)
    BY DEF TypeOK
  <2> QED
    BY <2>1, LenProperties DEF TypeOK
<1>d. \A o \in Loops : own[o] # Len(incidents) + 1
  BY <1>c
<1> DEFINE s0 == about[l]
<1>1. CASE Reads(l)
  <2>1. \A o \in Loops : (Creating(o)' => Creating(o)) /\ (Mending(o)' => Mending(o))
    BY <1>1, <1>b DEF Reads, Creating, Mending
  <2> QED
    BY <2>1, <1>1, <1>a, ElsewhereKeeps DEF Reads, Elsewhere
<1>2. CASE Lists(l)
  <2>1. UNCHANGED <<incidents, own, byHand>> /\ at'[l] = "evidence" /\ Open(s0) = {} /\ together \subseteq together'
    BY <1>2 DEF Lists
  <2>2. \A s \in Subjects : Open(s)' = Open(s)
    BY <2>1 DEF Open
  <2>3. \A o \in Loops : Mending(o)' => Mending(o)
    BY <2>1, <1>b DEF Mending
  <2>4. \A o \in Loops \ {l} : Creating(o)' <=> Creating(o)
    BY <1>b DEF Creating
  <2>5. ASSUME NEW o \in Loops \ {l}, about[o] = s0, Creating(o) PROVE s0 \in together'
    <3>1. o \in Before(l)
      BY <2>5 DEF Before, Creating
    <3>2. s0 \in {about[b] : b \in Before(l)}
      BY <3>1, <2>5
    <3> QED
      BY <1>2, <3>2 DEF Lists
  <2>6. OwnOne'
    BY <2>1 DEF IncidentsOK, OwnOne
  <2>7. \A s \in Subjects : OwnOpen(s)'
    BY <2>1, <2>2, <2>3, <1>a DEF IncidentsOK, OwnOpen
  <2>8. \A s \in Subjects : OneOpen(s)'
    <3> SUFFICES ASSUME NEW s \in Subjects, s \notin together' PROVE OneOpen(s)'
      BY DEF OneOpen
    <3>1. OneOpen(s) /\ s \notin together
      BY <2>1 DEF IncidentsOK
    <3>2. \A i, k \in Open(s)' : i = k
      BY <3>1, <2>2 DEF OneOpen
    <3>3. \A o, q \in Loops : about'[o] = s /\ about'[q] = s /\ Creating(o)' /\ Creating(q)' => o = q
      BY <3>1, <2>4, <2>5, <1>a DEF OneOpen
    <3>4. \A o \in Loops : about'[o] = s /\ Creating(o)' => Open(s)' = {}
      BY <3>1, <2>1, <2>2, <2>4, <1>a DEF OneOpen
    <3> QED
      BY <3>2, <3>3, <3>4 DEF OneOpen
  <2> QED
    BY <2>6, <2>7, <2>8 DEF IncidentsOK
<1>3. CASE Creates(l)
  <2>1. Creating(l) /\ OpenIncident(s0, "new") /\ UNCHANGED <<together, byHand>> /\ ~Creating(l)'
    BY <1>3 DEF Creates, Creating
  <2>2. \A s \in Subjects : Open(s)' = IF s = s0 THEN Open(s) \cup {Len(incidents) + 1} ELSE Open(s)
    BY <2>1, <1>a, OpenOpens
  <2>3. \A o \in Loops \ {l} : (Creating(o)' <=> Creating(o)) /\ (Mending(o)' <=> Mending(o)) /\ own'[o] = own[o]
    BY <1>3, <1>b, <1>c DEF Creates, Creating, Mending
  <2>4. (own'[l] = own[l] /\ ~Mending(l)') \/ own'[l] = Len(incidents) + 1
    BY <1>3, <1>c DEF Creates, Mending
  <2>5. OwnOne'
    BY <2>3, <2>4, <1>d DEF IncidentsOK, OwnOne
  <2>6. \A s \in Subjects : OwnOpen(s)'
    <3> SUFFICES ASSUME NEW s \in Subjects, s \notin together \cup byHand, NEW o \in Loops, about[o] = s, Mending(o)'
                 PROVE  own'[o] \in Open(s)'
      BY <2>1, <1>a DEF OwnOpen
    <3>1. CASE o = l
      BY <3>1, <2>2, <2>4
    <3>2. CASE o # l
      BY <3>2, <2>2, <2>3 DEF IncidentsOK, OwnOpen
    <3> QED
      BY <3>1, <3>2
  <2>7. \A s \in Subjects : OneOpen(s)'
    <3> SUFFICES ASSUME NEW s \in Subjects, s \notin together PROVE OneOpen(s)'
      BY <2>1 DEF OneOpen
    <3>1. CASE s = s0
      <4>1. Open(s) = {}
        BY <3>1, <2>1 DEF IncidentsOK, OneOpen
      <4>2. \A o \in Loops \ {l} : about[o] = s0 => ~Creating(o)
        BY <3>1, <2>1 DEF IncidentsOK, OneOpen
      <4>3. \A o \in Loops : about'[o] = s0 => ~Creating(o)'
        BY <4>2, <2>1, <2>3, <1>a
      <4> QED
        BY <3>1, <4>1, <4>3, <2>2 DEF OneOpen
    <3>2. CASE s # s0
      <4>1. \A o \in Loops : about'[o] = s => (Creating(o)' <=> Creating(o))
        BY <3>2, <2>3, <1>a
      <4> QED
        BY <3>2, <4>1, <2>2, <1>a DEF IncidentsOK, OneOpen
    <3> QED
      BY <3>1, <3>2
  <2> QED
    BY <2>5, <2>6, <2>7 DEF IncidentsOK
<1>4. CASE Resolves(l)
  <2>1. own[l] # 0 /\ own[l] \in DOMAIN incidents
    BY <1>4, <1>c DEF Resolves, TypeOK, Mending
  <2>2. \A s \in Subjects : Open(s)' = Open(s) \ {own[l]}
    BY <1>4, <2>1, OpenMoves DEF Resolves
  <2>3. UNCHANGED <<own, together, byHand>> /\ ~Creating(l)' /\ ~Mending(l)'
    BY <1>4 DEF Resolves, Creating, Mending
  <2>4. \A o \in Loops \ {l} : (Creating(o)' <=> Creating(o)) /\ (Mending(o)' <=> Mending(o)) /\ own[o] # own[l]
    BY <1>b, <2>1 DEF Creating, Mending, IncidentsOK, OwnOne
  <2>5. OwnOne'
    BY <2>3 DEF IncidentsOK, OwnOne
  <2>6. \A s \in Subjects : OwnOpen(s)'
    BY <2>2, <2>3, <2>4, <1>a DEF IncidentsOK, OwnOpen
  <2>7. \A s \in Subjects : OneOpen(s)'
    BY <2>2, <2>3, <2>4, <1>a DEF IncidentsOK, OneOpen
  <2> QED
    BY <2>5, <2>6, <2>7 DEF IncidentsOK
<1> QED
  BY <1>1, <1>2, <1>3, <1>4, LoopKinds

\* Every step keeps one open incident, and one run at it, per outage.
LEMMA IncidentsStep == TypeOK /\ IncidentsOK /\ Next => IncidentsOK'
<1> SUFFICES ASSUME TypeOK, IncidentsOK, Next PROVE IncidentsOK'
  OBVIOUS
<1>1. \A l \in Loops : about[l] # None => about'[l] = about[l]
  BY JobsType, Who
<1> QED
  BY <1>1, LoopKeeps, PeopleKeep, OthersElsewhere, ElsewhereKeeps, NextCases

-----------------------------------------------------------------------------
(* The faults of the drills *)

\* A step that leaves the device alone leaves the faults where they may be.
LEMMA SameDevice ==
    ASSUME TypeOK, NEW d \in Drills, FaultsOK(d), UNCHANGED device, kept \subseteq kept',
           about[d] # None => about'[d] = about[d]
    PROVE  FaultsOK(d)'
<1>1. UNCHANGED <<running, saved, timer>>
  BY DEF device
<1>2. \A s \in Subjects : about[d] = s => about'[d] = s
  BY Who
<1> QED
  BY <1>1, <1>2 DEF FaultsOK, Backs, Live, Pends

\* A fault taken out leaves the others; a fix that proves its session saves them, on
\* record.
LEMMA FixKeepsFaults ==
    ASSUME TypeOK, NEW l \in Loops, about[l] \in Subjects, NEW lifted \in SUBSET running[about[l]], FixRuns(about[l], lifted),
           UNCHANGED <<timer, about>>, NEW d \in Drills, FaultsOK(d)
    PROVE  FaultsOK(d)'
<1>a. running \in Faults
  BY DEF TypeOK
<1>1. \A s \in Subjects : running'[s] \subseteq running[s]
  BY <1>a DEF FixRuns, Faults
<1>2. kept \subseteq kept'
  BY DEF FixRuns
<1>3. \A s \in Subjects : d \in running'[s] => d \in running[s] /\ about'[d] = s
  BY <1>1 DEF FaultsOK
<1>4. Live(d)' => Pends(d)' \/ d \in kept'
  BY <1>2, <1>3 DEF FaultsOK, Live, Pends
<1>5. ASSUME NEW s \in Subjects, d \in saved'[s] PROVE about'[d] = s /\ d \in kept'
  <2>1. CASE UNCHANGED saved
    BY <1>2, <1>5, <2>1 DEF FaultsOK, Backs
  <2>2. CASE saved' = running' /\ kept' = kept \cup {e \in Drills : \E o \in Subjects : e \in running'[o]}
    BY <1>3, <1>5, <2>2
  <2> QED
    BY <2>1, <2>2 DEF FixRuns
<1>6. \A c \in Backs', s \in Subjects : d \in c[s] => about'[d] = s /\ d \in kept'
  BY <1>2, <1>5 DEF FaultsOK, Backs
<1> QED
  BY <1>3, <1>4, <1>6 DEF FaultsOK

\* A drill breaks its own session under its own timer.
LEMMA CommitKeepsFaults ==
    ASSUME TypeOK, NEW e \in Drills, about[e] \in Subjects, CommitUnderTimer(e, about[e]),
           UNCHANGED <<about, kept>>, NEW d \in Drills, FaultsOK(d)
    PROVE  FaultsOK(d)'
<1>a. running \in Faults
  BY DEF TypeOK
<1>1. timer = None /\ timer' = [owner |-> e, back |-> running] /\ timer' # None /\ UNCHANGED saved
  <2>1. [owner |-> e, back |-> running] \in Pending
    BY <1>a DEF Pending
  <2> QED
    BY <2>1, NoneAssumption DEF CommitUnderTimer
<1>2. running' = [running EXCEPT ![about[e]] = running[about[e]] \cup {e}]
  BY DEF CommitUnderTimer
<1>3. \A s \in Subjects : d \in running'[s] => d \in running[s] \/ (d = e /\ s = about[e])
  BY <1>2, <1>a DEF Faults
<1>4. \A s \in Subjects : d \in running[s] => about[d] = s /\ d \in kept
  BY <1>1 DEF FaultsOK, Live, Pends
<1>5. \A s \in Subjects : d \in running'[s] => about'[d] = s
  BY <1>3, <1>4
<1>6. Live(d)' => Pends(d)' \/ d \in kept'
  BY <1>1, <1>3, <1>4 DEF Live, Pends
<1>7. Backs' = {saved, running}
  BY <1>1 DEF Backs
<1>8. \A c \in Backs', s \in Subjects : d \in c[s] => about'[d] = s /\ d \in kept'
  BY <1>4, <1>7 DEF FaultsOK, Backs
<1> QED
  BY <1>5, <1>6, <1>8 DEF FaultsOK

\* A session that is up again holds no fault of its drill.
LEMMA UpIsOver ==
    ASSUME NEW d \in Drills, FaultsOK(d), Up(about[d])
    PROVE  ~Live(d)
  BY DEF FaultsOK, Up, Live

\* So the confirm takes the timer from a drill that is over.
LEMMA ConfirmKeepsFaults ==
    ASSUME TypeOK, NEW e \in Drills, FaultsOK(e), Confirmed(e), UNCHANGED <<about, kept>>, NEW d \in Drills, FaultsOK(d)
    PROVE  FaultsOK(d)'
<1>1. ~Live(e) /\ Pends(e) /\ timer' = None /\ UNCHANGED <<running, saved>>
  BY UpIsOver DEF Confirmed
<1>2. Live(d) => d \in kept
  BY <1>1 DEF FaultsOK, Pends
<1> QED
  BY <1>1, <1>2 DEF FaultsOK, Backs, Live, Pends

\* What the timer or a reload brings back was there before, or was saved.
LEMMA ShakesKeepFaults ==
    ASSUME TypeOK, Shakes, UNCHANGED loopVars, NEW d \in Drills, FaultsOK(d)
    PROVE  FaultsOK(d)'
<1>a. running \in Faults /\ about' = about /\ kept' = kept
  BY DEF TypeOK, Shakes, TimerFires, Reloads, Breaks, Heals, control, loopVars
<1>1. CASE TimerFires
  <2>1. timer # None /\ running' = timer.back /\ timer' = None /\ saved' = saved
    BY <1>1 DEF TimerFires
  <2> QED
    BY <2>1, <1>a DEF FaultsOK, Backs, Live, Pends
<1>2. CASE Reloads
  <2>1. running' = saved /\ timer' = None /\ saved' = saved
    BY <1>2 DEF Reloads
  <2> QED
    BY <2>1, <1>a DEF FaultsOK, Backs, Live, Pends
<1>3. ASSUME NEW s \in Subjects, Breaks(s) \/ Heals(s) PROVE FaultsOK(d)'
  <2>1. d # "own"
    BY Who, JobAssumption
  <2>2. \A o \in Subjects : d \in running'[o] <=> d \in running[o]
    BY <1>3, <1>a, <2>1 DEF Breaks, Heals, Faults
  <2>3. UNCHANGED <<saved, timer>>
    BY <1>3 DEF Breaks, Heals
  <2> QED
    BY <2>2, <2>3, <1>a DEF FaultsOK, Backs, Live, Pends
<1> QED
  BY <1>1, <1>2, <1>3 DEF Shakes

\* Every step leaves the faults of the drills where they may be.
LEMMA FaultsStep == IInv /\ Next => \A d \in Drills : FaultsOK(d)'
<1> SUFFICES ASSUME IInv, Next, NEW d \in Drills PROVE FaultsOK(d)'
  OBVIOUS
<1>a. TypeOK /\ FaultsOK(d) /\ d \in Jobs /\ (about[d] # None => about'[d] = about[d])
  BY JobsType, Who DEF IInv
<1>1. ASSUME UNCHANGED device, kept \subseteq kept' PROVE FaultsOK(d)'
  BY <1>1, <1>a, SameDevice
<1>2. ASSUME NEW l \in Loops, LoopDoes(l) PROVE FaultsOK(d)'
  <2>a. about' = about /\ about[l] \in Subjects
    BY <1>2, <1>a, LoopMoves, MovesType, Who DEF TypeOK
  <2>1. CASE RunFix(l)
    BY <2>1, <2>a, <1>1, <1>a, FixKeepsFaults DEF RunFix, device
  <2>2. CASE ~RunFix(l)
    <3>1. UNCHANGED <<device, kept>>
      BY <1>2, <2>2 DEF LoopDoes, LoopStep, Plan, ListIncidents, NoteOpen, ReadEvidence, CreateIncident, AgentPicks,
         PrepareCard, ReadAgain, Resolve, DecideFix, SeeTask, loopVars
    <3> QED
      BY <3>1, <1>1
  <2> QED
    BY <2>1, <2>2
<1>3. ASSUME NEW e \in Drills, DrillDoes(e), UNCHANGED loopVars PROVE FaultsOK(d)'
  <2>1. CASE Inject(e)
    <3>1. about' = about /\ about[e] \in Subjects
      <4>1. DrillDoes(e) /\ at[e] = "inject" /\ e \in Jobs
        BY <2>1, Who DEF DrillDoes, DrillStep, Inject, At
      <4> QED
        BY <4>1, <1>a, DrillMoves, MovesType DEF TypeOK, StartDrill, At
    <3> QED
      BY <2>1, <3>1, <1>1, <1>3, <1>a, CommitKeepsFaults DEF Inject, device, loopVars
  <2>2. CASE ConfirmDrill(e)
    <3>1. about' = about
      BY <2>2 DEF ConfirmDrill, Halts, Says
    <3> QED
      BY <2>2, <3>1, <1>1, <1>3, <1>a, ConfirmKeepsFaults DEF ConfirmDrill, device, loopVars, IInv
  <2>3. CASE ~Inject(e) /\ ~ConfirmDrill(e)
    <3>1. UNCHANGED <<device, kept>>
      BY <1>3, <2>3 DEF DrillDoes, DrillStep, CheckHealth, PrepareDrill, WaitForLoop, ReadAfterTimer,
         DecideDrill, SeeDrill, StartDrill, loopVars
    <3> QED
      BY <3>1, <1>1
  <2> QED
    BY <2>1, <2>2, <2>3
<1>4. ASSUME NEW i, WorkOn(i) \/ ResolveByHand(i) PROVE FaultsOK(d)'
  BY <1>4, <1>1 DEF WorkOn, ResolveByHand, loopVars
<1>5. ASSUME NEW s \in Subjects, Fire(s) \/ Deliver(s), UNCHANGED loopVars PROVE FaultsOK(d)'
  BY <1>5, <1>1 DEF Fire, Deliver, loopVars
<1> QED
  BY <1>2, <1>3, <1>4, <1>5, <1>a, ShakesKeepFaults, NextCases

-----------------------------------------------------------------------------
\* At first there is no incident and no fault.
LEMMA InitIInv == Init => IInv
<1> SUFFICES ASSUME Init PROVE IInv
  OBVIOUS
<1> USE DEF Init, OutagesInit, RelayInit, LoopInit
<1>1. "start" \in Task /\ "nothing" \in Outcome
  BY DEF Task, Outcome
<1>2. running \in Faults /\ incidents \in Seq(Incident) /\ Len(incidents) = 0
  BY DEF Faults
<1>3. TypeOK
  <2>1. at \in [Jobs -> Task] /\ said \in [Jobs -> Outcome] /\ about \in [Jobs -> Subjects \cup {None}]
    BY <1>1
  <2>2. bounded \in [breaks : 0 .. MaxBreaks, reloads : 0 .. MaxReloads]
    BY BoundAssumption
  <2>3. own \in [Loops -> 0 .. Len(incidents)]
    BY <1>2
  <2>4. \A l \in Loops : own[l] = 0 /\ at[l] = "start"
    BY Who
  <2> QED
    BY <1>2, <2>1, <2>2, <2>3, <2>4 DEF TypeOK
<1>4. \A s \in Subjects : OneOpen(s) /\ OwnOpen(s)
  BY Who DEF OneOpen, OwnOpen, Creating, Mending, Open
<1>5. OwnOne /\ \A d \in Drills : FaultsOK(d)
  BY DEF OwnOne, FaultsOK, Backs, Live
<1> QED
  BY <1>3, <1>4, <1>5 DEF IInv

\* A step that changes nothing keeps the invariant.
LEMMA StutterStep == IInv /\ UNCHANGED vars => IInv'
<1> SUFFICES ASSUME IInv, UNCHANGED vars PROVE IInv'
  OBVIOUS
<1>1. UNCHANGED <<env, at, said, about, running, saved, timer, incidents, bounded, alert, own, together, byHand, kept>>
  BY DEF vars, control, device, loopVars
<1>2. TypeOK'
  BY <1>1 DEF IInv, TypeOK
<1>3. \A s \in Subjects : OneOpen(s)' /\ OwnOpen(s)'
  BY <1>1 DEF IInv, OneOpen, OwnOpen, Creating, Mending, Open
<1>4. OwnOne' /\ \A d \in Drills : FaultsOK(d)'
  BY <1>1 DEF IInv, OwnOne, FaultsOK, Backs, Live, Pends
<1> QED
  BY <1>2, <1>3, <1>4 DEF IInv

\* IInv is an inductive invariant of the outage loop behind its relay, beside drills.
THEOREM Inductive == Spec => []IInv
<1>1. IInv /\ [Next]_vars => IInv'
  <2>1. IInv /\ Next => IInv'
    BY TypeStep, IncidentsStep, FaultsStep DEF IInv, IncidentsOK
  <2> QED
    BY <2>1, StutterStep
<1> QED
  BY <1>1, InitIInv, PTL DEF Spec

\* Every variable keeps its shape, and a run that may resolve an incident has opened
\* it, for its own subject.
THEOREM TypeCorrect == Spec => []TypeOK
<1>1. IInv => TypeOK
  BY DEF IInv
<1> QED
  BY <1>1, Inductive, PTL

\* However often the relay starts a run, an outage has one open incident and one run
\* at its card or its fix, but for the two races on record.
THEOREM OneIncident == Spec => []OneIncidentPerOutage
<1>1. IInv => OneIncidentPerOutage
  <2> SUFFICES ASSUME IInv, NEW s \in Subjects
               PROVE  /\ Cardinality(Open(s)) > 1 => s \in together
                      /\ Cardinality({l \in Loops : about[l] = s /\ at[l] \in {"card", "fix", "reread", "resolve"}}) > 1
                             => s \in together \cup byHand
    BY DEF OneIncidentPerOutage
  <2>1. ASSUME s \notin together PROVE Cardinality(Open(s)) \in {0, 1}
    BY <2>1, AtMostOne DEF IInv, OneOpen
  <2>2. ASSUME s \notin together \cup byHand
        PROVE  Cardinality({l \in Loops : about[l] = s /\ at[l] \in {"card", "fix", "reread", "resolve"}}) \in {0, 1}
    <3> DEFINE Fixing == {l \in Loops : about[l] = s /\ at[l] \in {"card", "fix", "reread", "resolve"}}
    <3>1. \A l \in Fixing : own[l] \in Open(s) /\ own[l] # 0
      BY <2>2 DEF IInv, OwnOpen, Mending, TypeOK
    <3>2. \A i, k \in Open(s) : i = k
      BY <2>2 DEF IInv, OneOpen
    <3>3. \A l, o \in Fixing : l = o
      BY <3>1, <3>2 DEF IInv, OwnOne
    <3> QED
      BY <3>3, AtMostOne
  <2> QED
    BY <2>1, <2>2
<1> QED
  BY <1>1, Inductive, PTL

\* A drill's fault lives under its own timer, or a fix of another session saved it;
\* and a drill that ends as done has no fault and no timer left.
THEOREM DrillsLeaveNothing == Spec => DrillLeavesNothing
<1> DEFINE Held == \A d \in Drills : Live(d) => Pends(d) \/ d \in kept
           Over == \A d \in Drills : said[d] # said'[d] /\ said'[d] \in {"back and confirmed", "rolled back"}
                                     => ~Live(d)' /\ ~Pends(d)'
<1>1. IInv => Held
  BY DEF IInv, FaultsOK
<1>2. IInv /\ [Next]_vars => [Over]_vars
  <2> SUFFICES ASSUME IInv, Next, NEW d \in Drills, said[d] # said'[d], said'[d] \in {"back and confirmed", "rolled back"}
               PROVE  ~Live(d)' /\ ~Pends(d)'
    BY DEF vars, control
  <2>a. TypeOK /\ FaultsOK(d) /\ d \in Jobs /\ said \in [Jobs -> Outcome]
    BY Who DEF IInv, TypeOK
  <2>1. DrillDoes(d)
    <3>1. ASSUME NEW j \in Jobs, Moves(j), at[j] # "start" PROVE j = d
      BY <3>1, <2>a, MovesType DEF Apart
    <3>2. ASSUME NEW l \in Loops, LoopDoes(l) PROVE FALSE
      BY <3>2, <3>1, LoopMoves, Who
    <3>3. ASSUME NEW e \in Drills, DrillDoes(e) PROVE e = d
      BY <3>3, <3>1, DrillMoves, Who DEF StartDrill
    <3>4. ASSUME \/ \E i : WorkOn(i) \/ ResolveByHand(i)
                 \/ \E s \in Subjects : Fire(s) \/ Deliver(s)
                 \/ Shakes
          PROVE  UNCHANGED said
      BY <3>4 DEF WorkOn, ResolveByHand, Fire, Deliver, Started, Shakes, TimerFires, Reloads, Breaks, Heals, control
    <3> QED
      BY <3>2, <3>3, <3>4, NextCases
  <2>2. \/ ConfirmDrill(d) /\ Confirmed(d)
        \/ ReadAfterTimer(d) /\ Up(about[d])
    <3>1. CASE CheckHealth(d) \/ PrepareDrill(d) \/ Inject(d) \/ WaitForLoop(d)
      BY <3>1, <2>a DEF CheckHealth, PrepareDrill, Inject, WaitForLoop, Halts, GoesOn, Says
    <3>2. CASE ConfirmDrill(d) \/ ReadAfterTimer(d)
      BY <3>2, <2>a DEF ConfirmDrill, ReadAfterTimer, Halts, Says
    <3>3. CASE DecideDrill(d) \/ SeeDrill(d) \/ \E s \in Subjects : StartDrill(d, s)
      BY <3>3, <2>a DEF DecideDrill, SeeDrill, StartDrill, GoesOn, Says
    <3> QED
      BY <2>1, <3>1, <3>2, <3>3 DEF DrillDoes, DrillStep
  <2>3. ~Live(d)
    BY <2>2, <2>a, UpIsOver DEF Confirmed
  <2>4. running' = running /\ ~Pends(d)'
    BY <2>2 DEF Confirmed, ReadAfterTimer, device, Pends
  <2> QED
    BY <2>3, <2>4 DEF Live
<1> QED
  BY <1>1, <1>2, Inductive, PTL DEF Spec, DrillLeavesNothing
=============================================================================
