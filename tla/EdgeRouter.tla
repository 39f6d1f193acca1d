------------------------------ MODULE EdgeRouter ------------------------------
(***************************************************************************)
(* The lab edge router dc1-wan01 as Rotate AWS VPN Key and Push            *)
(* Configuration with Revert Timer (itential/workflows/build.py) see it    *)
(* through the services lab-edge-push and config-push-revert: a running    *)
(* and a saved configuration, and one change at a time under a revert      *)
(* timer.  The services and the router are not in this repository: what    *)
(* they do is taken from how the workflows call them and read their        *)
(* answers.                                                                *)
(***************************************************************************)
EXTENDS Naturals, Sequences, FiniteSets

CONSTANTS
    OnDemand,       \* runs of Rotate AWS VPN Key
    Monthly,        \* runs of Rotate AWS VPN Key Monthly
    Pushes,         \* runs of Push Configuration with Revert Timer, each with
                    \* lines of its own
    Environments,   \* bound: who runs, what may fail, and whether AWS is deployed
    None,           \* no pending change, no key
    MaxReloads      \* bound: how often the router reloads

Rotations == OnDemand \cup Monthly
Runs      == Rotations \cup Pushes

ASSUME RunAssumption == OnDemand \cap Monthly = {} /\ Rotations \cap Pushes = {} /\ None \notin Runs
ASSUME BoundAssumption == MaxReloads \in Nat
ASSUME EnvironmentAssumption ==
           \A e \in Environments : e.runs \subseteq Runs /\ e.gateway \in BOOLEAN /\ e.deployed \in BOOLEAN

VARIABLES
    env,        \* the environment of the behaviour, fixed in Init
    at,         \* the task a run is at
    said,       \* what its outcome, or its Work Center task, says of it
    running,    \* the running configuration: the Vault version its AWS block
                \* records, and the runs whose lines it holds
    startup,    \* the saved configuration
    timer,      \* the pending change: None, or who made it and what comes back
    reloads     \* reloads so far

control == <<at, said>>
router  == <<running, startup, timer, reloads>>

Config  == [version : Nat \ {0}, lines : SUBSET Pushes]
Pending == [owner : Runs, back : Config]

ASSUME NoneAssumption == None \notin Pending

\* The Gateway may throw, answer with an error, or lose an answer
GatewayFails == env.gateway

At(j, t) == at[j] = t
Go(j, t) == at' = [at EXCEPT ![j] = t]

\* A run that goes on has said nothing yet; one that stops says why
GoesOn(j, t)     == Go(j, t) /\ UNCHANGED said
Says(j, what, t) == Go(j, t) /\ said' = [said EXCEPT ![j] = what]

RouterInit ==
    /\ env \in Environments
    /\ at = [j \in Runs |-> "start"] /\ said = [j \in Runs |-> "nothing"]
    /\ running = [version |-> 1, lines |-> {}]
    /\ startup = running /\ timer = None /\ reloads = 0

-----------------------------------------------------------------------------
\* `configure terminal revert timer` with a new configuration
SendUnderTimer(j, new) ==
    /\ timer = None
    /\ timer' = [owner |-> j, back |-> running]
    /\ running' = new
    /\ UNCHANGED <<startup, reloads>>

Own(j) == timer # None /\ timer.owner = j

\* Confirmed and saved: `write memory` saves whatever the router runs
Saved(j) == Own(j) /\ timer' = None /\ startup' = running /\ UNCHANGED <<running, reloads>>

\* Confirmed and not saved
Unsaved(j) == Own(j) /\ timer' = None /\ UNCHANGED <<running, startup, reloads>>

RolledBack(j) == Own(j) /\ running' = timer.back /\ timer' = None /\ UNCHANGED <<startup, reloads>>

\* The revert timer runs out before the change is confirmed; a service that is
\* not stopped decides before that
TimerFires ==
    /\ timer # None /\ GatewayFails
    /\ running' = timer.back /\ timer' = None
    /\ UNCHANGED <<startup, reloads, control>>

Reload ==
    /\ reloads < MaxReloads /\ reloads' = reloads + 1
    /\ running' = startup /\ timer' = None
    /\ UNCHANGED <<startup, control>>
=============================================================================
