------------------------------- MODULE Outages -------------------------------
(***************************************************************************)
(* What the outage loops, the alert relay and the BGP drill share: what    *)
(* the alerts are about (the AWS VPN's tunnel, or a BGP session), the      *)
(* device that carries the sessions with its running and saved             *)
(* configuration and its commit timer, and the incidents in ServiceNow.    *)
(* The devices, the services and ServiceNow are not in this repository:    *)
(* what they do is taken from how the workflows call them and read their   *)
(* answers (itential/workflows/build.py; ADR 0072, ADR 0073).              *)
(***************************************************************************)
EXTENDS Naturals, Sequences, FiniteSets

CONSTANTS
    Subjects,       \* what alerts are about; one device carries them all
    Loops,          \* runs of the outage loop
    Drills,         \* runs of Break Fabric BGP
    None,           \* no subject, no pending commit timer
    Environments,   \* bound: which loop it is, who runs, what may fail
    MaxBreaks,      \* bound: how often a subject breaks by itself
    MaxReloads      \* bound: how often the device reloads

Jobs == Loops \cup Drills

ASSUME JobAssumption == Loops \cap Drills = {} /\ None \notin Subjects \cup Jobs /\ "own" \notin Jobs
ASSUME BoundAssumption == MaxBreaks \in Nat /\ MaxReloads \in Nat
ASSUME EnvironmentAssumption ==
           \A e \in Environments : e.runs \subseteq Jobs /\ e.fails \in BOOLEAN /\ e.fabric \in BOOLEAN

VARIABLES
    env,        \* the environment of the behaviour, fixed in Init
    at,         \* the task a job is at
    said,       \* what its outcome, its error or its Work Center task says
    about,      \* the subject of a job
    running,    \* the faults each subject has: a drill's, or one of its own
    saved,      \* the faults the saved configuration holds
    timer,      \* the pending commit timer: None, or whose and what comes back
    incidents,  \* the incidents opened, in order
    bounded     \* breaks and reloads so far

control == <<at, said, about>>
device  == <<running, saved, timer>>

Faults   == [Subjects -> SUBSET (Drills \cup {"own"})]
Pending  == [owner : Drills, back : Faults]
Incident == [subject : Subjects, state : {"new", "in progress", "resolved"}]

ASSUME NoneAssumption == None \notin Pending

\* A service, the runner or ServiceNow may throw, answer with an error, or lose
\* an answer
Fails == env.fails

At(j, t)         == at[j] = t
Go(j, t)         == at' = [at EXCEPT ![j] = t]
GoesOn(j, t)     == Go(j, t) /\ UNCHANGED <<said, about>>
Says(j, what, t) == Go(j, t) /\ said' = [said EXCEPT ![j] = what] /\ UNCHANGED about

Up(s)   == running[s] = {}
Live(d) == \E s \in Subjects : d \in running[s]

OutagesInit ==
    /\ env \in Environments
    /\ at = [j \in Jobs |-> "start"] /\ said = [j \in Jobs |-> "nothing"] /\ about = [j \in Jobs |-> None]
    /\ running = [s \in Subjects |-> {}] /\ saved = running /\ timer = None
    /\ incidents = <<>> /\ bounded = [breaks |-> 0, reloads |-> 0]

\* State moves of an incident; open is New, In Progress or On Hold
MoveIncident(i, state) == incidents' = [incidents EXCEPT ![i].state = state]
OpenIncident(s, state) == incidents' = Append(incidents, [subject |-> s, state |-> state])
Open(s) == {i \in DOMAIN incidents : incidents[i].subject = s /\ incidents[i].state # "resolved"}

-----------------------------------------------------------------------------
(* The device *)

\* A fault, or a configuration session committed under a timer, applied to one
\* subject; the device holds one pending timer
CommitUnderTimer(d, s) ==
    /\ timer = None
    /\ timer' = [owner |-> d, back |-> running]
    /\ running' = [running EXCEPT ![s] = @ \cup {d}]
    /\ UNCHANGED saved

Pends(d) == timer # None /\ timer.owner = d

TimerFires ==
    /\ timer # None
    /\ running' = timer.back /\ timer' = None
    /\ UNCHANGED <<saved, incidents, control, bounded>>

Reloads ==
    /\ bounded.reloads < MaxReloads /\ bounded' = [bounded EXCEPT !.reloads = @ + 1]
    /\ running' = saved /\ timer' = None
    /\ UNCHANGED <<saved, incidents, control>>

Breaks(s) ==
    /\ bounded.breaks < MaxBreaks /\ bounded' = [bounded EXCEPT !.breaks = @ + 1]
    /\ running' = [running EXCEPT ![s] = @ \cup {"own"}]
    /\ UNCHANGED <<saved, timer, incidents, control>>

Heals(s) ==
    /\ "own" \in running[s]
    /\ running' = [running EXCEPT ![s] = @ \ {"own"}]
    /\ UNCHANGED <<saved, timer, incidents, control, bounded>>
=============================================================================
