---------------------------- MODULE ChangeRequest ----------------------------
(***************************************************************************)
(* The ServiceNow change request that with_change_request                  *)
(* (itential/workflows/build.py) writes into Deploy, Hand Off and Tear     *)
(* Down AWS VPN: opened before anything is planned or read, moved to       *)
(* Implement by the first card's approval, and closed by whichever task    *)
(* the run ended on.  Tear Down Expired carries none.                      *)
(*                                                                         *)
(* An action of this module is one call to ServiceNow with the pure tasks  *)
(* around it, the texts the Gateway's runner writes for it included; the   *)
(* workflow says where its run goes on.                                    *)
(***************************************************************************)
EXTENDS Naturals

CONSTANTS
    Deploys,          \* runs of Deploy AWS VPN
    HandOffs,         \* runs of Hand Off AWS VPN
    TearDowns,        \* runs of Tear Down AWS VPN
    Expiries,         \* runs of Tear Down Expired AWS VPN
    Environments      \* bound: who runs, which services may fail, and the last
                      \* hour the clock shows

PersonRuns == Deploys \cup HandOffs \cup TearDowns
Runs       == PersonRuns \cup Expiries

ASSUME RunAssumption == /\ Deploys \cap HandOffs = {} /\ Deploys \cap TearDowns = {}
                        /\ HandOffs \cap TearDowns = {} /\ PersonRuns \cap Expiries = {}
ASSUME EnvironmentAssumption ==
           \A e \in Environments : /\ e.runs \subseteq Runs /\ e.hours \in Nat
                                      /\ e.gateway \in BOOLEAN /\ e.servicenow \in BOOLEAN
                                      /\ e.runner \in BOOLEAN

VARIABLES
    env,       \* the environment of the behaviour, fixed in Init
    at,        \* the task a run is at
    chg,       \* the state of the change a person's run opened
    ending     \* how the run ends: the kind of CHANGE_ENTRIES it reached

change == <<at, chg, ending>>

\* A service of the Gateway may throw, answer with an error, or lose an answer; the
\* Gateway's Python runner may not write a text of the change; ServiceNow may
\* refuse a call, or take it and lose the answer
GatewayFails    == env.gateway
RunnerFails     == env.runner
ServiceNowFails == env.servicenow

ChangeState == {"none", "New", "Scheduled", "Implement", "Review", "Closed", "Canceled"}
Kind        == {"none", "canceled", "rejected", "failed", "successful"}
Over        == {"done", "fixed", "unwritten"}     \* workflow_end: by itself, after the fix
                                                 \* card, or with only a job variable to say
                                                 \* that the change is not closed

At(j, t) == at[j] = t
Go(j, t) == at' = [at EXCEPT ![j] = t]

\* A run ends on a task of its `ends`: straight at workflow_end when timed
Ends(j, kind, timedEnd) ==
    /\ ending' = [ending EXCEPT ![j] = kind]
    /\ Go(j, IF j \in PersonRuns THEN "close" ELSE timedEnd)

\* createStandardChange or updateStandardChange: taken, refused, or taken with
\* the answer lost
Call(j, s, then, refused) ==
    \/ chg' = [chg EXCEPT ![j] = s] /\ then
    \/ ServiceNowFails /\ chg' \in {chg, [chg EXCEPT ![j] = s]} /\ refused

-----------------------------------------------------------------------------
\* ce0..cef: nothing goes on without an opened change, whose texts the runner
\* writes
OpenChange(j, before) ==
    /\ At(j, "open")
    /\ \/ Call(j, "New", Go(j, before), Go(j, "done"))
       \/ RunnerFails /\ Go(j, "done") /\ UNCHANGED chg
    /\ UNCHANGED ending

\* Mutant: the change goes from New to Implement
ScheduleSkipped(j, refused) ==
    /\ At(j, "schedule")
    /\ Call(j, "Implement", Go(j, "implement") /\ UNCHANGED ending,
                            Go(j, refused) /\ ending' = [ending EXCEPT ![j] = "canceled"])


\* The first card's approval: Scheduled, then Implement, before anything is
\* applied or sent.  `refused` is where c83 leads.
ScheduleChange(j, refused) ==
    /\ At(j, "schedule")
    /\ Call(j, "Scheduled", Go(j, "implement") /\ UNCHANGED ending,
                            Go(j, refused) /\ ending' = [ending EXCEPT ![j] = "canceled"])

\* Mutant: an Implement ServiceNow did not take goes on with the approval
ImplementUnasked(j, approved, refused) ==
    /\ At(j, "implement")
    /\ Call(j, "Implement", Go(j, approved), Go(j, approved))
    /\ UNCHANGED ending


\* The second step of the approval
ImplementChange(j, approved, refused) ==
    /\ At(j, "implement")
    /\ Call(j, "Implement", Go(j, approved) /\ UNCHANGED ending,
                            Go(j, refused) /\ ending' = [ending EXCEPT ![j] = "canceled"])

\* An ending after something was touched goes through Review
TwoSteps(j) == ending[j] \in {"failed", "successful"}

\* cd0..cdd: Canceled, or Review as the first of two steps; without the runner's
\* text there is no call
CloseFirst(j) ==
    /\ At(j, "close")
    /\ \/ Call(j, IF TwoSteps(j) THEN "Review" ELSE "Canceled",
               Go(j, IF TwoSteps(j) THEN "close2" ELSE "done"), Go(j, "fix"))
       \/ RunnerFails /\ Go(j, "fix") /\ UNCHANGED chg
    /\ UNCHANGED ending

\* Mutant: a refused Closed ends the run with no task left behind
CloseSecondUnread(j) ==
    /\ At(j, "close2")
    /\ Call(j, "Closed", Go(j, "done"), Go(j, "done"))
    /\ UNCHANGED ending


\* cde, cdf: Closed, successful or unsuccessful as the run ended
CloseSecond(j) ==
    /\ At(j, "close2")
    /\ Call(j, "Closed", Go(j, "done"), Go(j, "fix"))
    /\ UNCHANGED ending

\* cc0..cc3, cc5: the card "Fix change request by hand"; without the page the
\* runner writes the run ends, and only change_unwritten says what is left to do
FixCard(j) ==
    /\ At(j, "fix")
    /\ \/ Go(j, "fix card")
       \/ RunnerFails /\ Go(j, "unwritten")
    /\ UNCHANGED <<chg, ending>>

\* cc4: a person closes the card
CloseFixCard(j) ==
    /\ At(j, "fix card")
    /\ Go(j, "fixed")
    /\ UNCHANGED <<chg, ending>>

-----------------------------------------------------------------------------
\* A change is canceled from any state before its run touched anything, an
\* Implement whose answer was lost included
ChangeLife == INSTANCE ChangeLifecycle
              WITH Changes <- PersonRuns, Cancelable <- {"New", "Scheduled", "Implement"}, state <- chg
ChangesLive == ChangeLife!Spec
=============================================================================
