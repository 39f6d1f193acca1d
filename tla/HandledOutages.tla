---------------------------- MODULE HandledOutages ----------------------------
(***************************************************************************)
(* The outage loop behind the relay that starts it, beside drills on the   *)
(* device whose sessions it mends and the people who work its incidents.   *)
(***************************************************************************)
EXTENDS AlertRelay, OutageLoop, FabricDrill

vars == <<env, control, device, incidents, bounded, alert, loopVars>>

Init == OutagesInit /\ RelayInit /\ LoopInit

Step(j) == /\ \/ j \in Loops /\ LoopStep(j)
              \/ j \in Drills /\ DrillStep(j) /\ UNCHANGED loopVars
           /\ UNCHANGED <<env, bounded, alert>>

\* What people start and decide
Decisions ==
    /\ \/ \E l \in Loops : DecideFix(l) \/ SeeTask(l)
       \/ \E i \in DOMAIN incidents : WorkOn(i) \/ ResolveByHand(i)
       \/ /\ \E d \in Drills : DecideDrill(d) \/ SeeDrill(d) \/ \E s \in Subjects : StartDrill(d, s)
          /\ UNCHANGED loopVars
    /\ UNCHANGED <<env, bounded, alert>>

Alerts == /\ \E s \in Subjects : Fire(s) \/ Deliver(s)
          /\ UNCHANGED <<env, bounded, loopVars>>

Around == /\ TimerFires \/ Reloads \/ \E s \in Subjects : Breaks(s) \/ Heals(s)
          /\ UNCHANGED <<env, alert, loopVars>>

Next == (\E j \in Jobs : Step(j)) \/ Decisions \/ Alerts \/ Around

Spec == Init /\ [][Next]_vars

\* The job engine goes on with what it can; people and Alertmanager may never
FairSpec == Spec /\ \A j \in Jobs : WF_vars(Step(j))

-----------------------------------------------------------------------------
(* Properties *)

Task    == {"start", "plan", "list", "note", "evidence", "create", "agent", "lines", "card", "fix",
            "reread", "resolve", "health", "inject", "wait", "confirm", "after timer", "task", "done"}
Outcome == {"nothing", "nothing deployed", "nothing was changed", "no incident", "noted", "up again",
            "escalated", "after the incident", "rejected", "not fixed", "fixed", "not healthy",
            "may hold a session", "back and confirmed", "timer still rolls back", "rolled back",
            "not back"}

TypeOK ==
    /\ env \in Environments
    /\ at \in [Jobs -> Task] /\ said \in [Jobs -> Outcome]
    /\ about \in [Jobs -> Subjects \cup {None}] /\ \A j \in Jobs : at[j] = "start" <=> about[j] = None
    /\ running \in Faults /\ saved \in Faults /\ timer \in Pending \cup {None}
    /\ alert \in [Subjects -> {"none", "firing", "accepted"}]
    /\ bounded \in [breaks : 0 .. MaxBreaks, reloads : 0 .. MaxReloads]
    /\ incidents \in Seq(Incident) /\ together \subseteq Subjects /\ byHand \subseteq Subjects /\ kept \subseteq Drills
    \* a run that may resolve an incident has opened it, for its own subject
    /\ own \in [Loops -> 0 .. Len(incidents)]
    /\ \A l \in Loops : /\ own[l] # 0 => incidents[own[l]].subject = about[l]
                        /\ at[l] \in {"agent", "lines", "card", "fix", "reread", "resolve"} => own[l] # 0

\* An outage has one open incident and one run at its card or its fix, however
\* often the relay starts a run for it, people work on the incident and the
\* subject comes and goes - unless two runs listed before either created, or a
\* person resolved the incident of a run that was not over.
OneIncidentPerOutage ==
    \A s \in Subjects :
        /\ Cardinality(Open(s)) > 1 => s \in together
        /\ Cardinality({l \in Loops : about[l] = s /\ at[l] \in {"card", "fix", "reread", "resolve"}}) > 1
               => s \in together \cup byHand

\* Each run of the loop brings its outage before somebody, whatever cannot be
\* read or written: an open incident, a card, a task, or a subject that is up.
OutageIsHandled ==
    \A l \in Loops :
        at[l] = "plan" ~> \/ at[l] \in {"card", "task"} \/ said[l] = "nothing deployed"
                          \/ \E s \in Subjects : about[l] = s /\ (Open(s) # {} \/ Up(s))

\* A drill's fault lives under its timer alone: no reload, rollback or fix of an
\* outage makes it last - but for the fix of another session that saved the
\* device's configuration while the fault was in it.  And a drill that ends as
\* done is over: its fault is gone, and no timer is left that would take back
\* what was changed since.
DrillLeavesNothing ==
    /\ [](\A d \in Drills : Live(d) => Pends(d) \/ d \in kept)
    /\ [][\A d \in Drills : said[d] # said'[d] /\ said'[d] \in {"back and confirmed", "rolled back"}
                            => ~Live(d)' /\ ~Pends(d)']_vars

-----------------------------------------------------------------------------
(* The inductive invariant *)

\* From the list of incidents to the create, and from there to the resolve
Creating(l) == at[l] \in {"evidence", "create"}
Mending(l)  == at[l] \in {"agent", "lines", "card", "fix", "reread", "resolve"}

\* But for two runs that listed before either created, a subject has one open
\* incident at most, and a run creates one only while there is none
OneOpen(s) ==
    s \notin together =>
        /\ \A i, k \in Open(s) : i = k
        /\ \A l, o \in Loops : about[l] = s /\ about[o] = s /\ Creating(l) /\ Creating(o) => l = o
        /\ \A l \in Loops : about[l] = s /\ Creating(l) => Open(s) = {}

\* But for them and for what a person resolved, a run's incident stays open until
\* the run resolves it
OwnOpen(s) ==
    s \notin together \cup byHand => \A l \in Loops : about[l] = s /\ Mending(l) => own[l] \in Open(s)

\* An incident was opened by one run
OwnOne == \A l, o \in Loops : own[l] = own[o] /\ own[l] # 0 => l = o

\* The configurations the device may go back to
Backs == {saved} \cup (IF timer = None THEN {} ELSE {timer.back})

\* A drill's fault is on the drill's own session, and what a reload or the timer
\* brings back holds none that no fix has saved
FaultsOK(d) ==
    /\ \A s \in Subjects : d \in running[s] => about[d] = s
    /\ \A c \in Backs, s \in Subjects : d \in c[s] => about[d] = s /\ d \in kept
    /\ Live(d) => Pends(d) \/ d \in kept

IInv ==
    /\ TypeOK
    /\ \A s \in Subjects : OneOpen(s) /\ OwnOpen(s)
    /\ OwnOne
    /\ \A d \in Drills : FaultsOK(d)
=============================================================================
