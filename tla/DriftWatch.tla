----------------------------- MODULE DriftWatch -----------------------------
(***************************************************************************)
(* Check AWS Drift with the Drift and Cost Watch                           *)
(* (itential/workflows/build.py, check_aws_drift; ADR 0068, ADR 0085): a   *)
(* refresh-only plan, the deployment's state, the list of running jobs and *)
(* the agent's answer are read one after the other, minutes apart, and at  *)
(* most one card may come of them.  Drift that gets no card gets a Work    *)
(* Center task.                                                            *)
(*                                                                         *)
(* found tells the situation too: drift, or a deployment that runs long.   *)
(***************************************************************************)
EXTENDS EndpointRuns

VARIABLES
    found,      \* whether a Check's plan found drift
    proposal,   \* what its card proposes
    early       \* history: a Check made way for one that had not told anybody yet

watchVars == <<found, proposal, early>>

WatchInit == /\ found = [c \in Checks |-> FALSE] /\ proposal = [c \in Checks |-> "none"]
             /\ early = FALSE

\* The drift task has been opened, or the proposal's card
Told(c) == said[c] \in {"drift", "rejected", "started", "not started"} \/ At(c, "card")

\* 1f: drift opens the task, no drift ends quietly
DriftOpensTask(c, otherwise) ==
    \/ found[c] /\ Says(c, "drift", "task")
    \/ ~found[c] /\ Says(c, otherwise, "done")

-----------------------------------------------------------------------------
(* The reads *)

\* The daily schedule, or a person
StartCheck(c) ==
    /\ At(c, "start") /\ c \in env.runs
    /\ GoesOn(c, "check")
    /\ UNCHANGED <<aws, runs, watchVars>>

\* 1a..1e, drift_summary: a check that could not run opens no task
CheckDrift(c) ==
    /\ At(c, "check")
    /\ \/ GoesOn(c, "gate") /\ found' = [found EXCEPT ![c] = aws.drifted]
       \/ Fails /\ Says(c, "not checked", "done") /\ UNCHANGED found
    /\ UNCHANGED <<aws, runs, proposal, early>>

\* watch_gate: a deployment with drift and an end time that is not past, or one
\* with no end time whose last apply is 24 hours ago
Proposable(c) ==
    /\ aws.up
    /\ IF found[c] THEN aws.end # "passed" ELSE aws.end = "none" /\ aws.old

\* Mutant: a deployment that could not be read ends the run quietly
UnreadEndsQuietly(c) ==
    /\ At(c, "gate")
    /\ \/ Proposable(c) /\ GoesOn(c, "list")
       \/ ~Proposable(c) /\ DriftOpensTask(c, "nothing to propose")
       \/ Fails /\ Says(c, "nothing to propose", "done")
    /\ UNCHANGED <<aws, runs, watchVars>>

\* a0..aa: is there anything to propose?  What cannot be read, the end time
\* and the last apply among it, is no proposal
Gate(c) ==
    /\ At(c, "gate")
    /\ \/ Proposable(c) /\ GoesOn(c, "list")
       \/ (Fails \/ ~Proposable(c)) /\ DriftOpensTask(c, "nothing to propose")
    /\ UNCHANGED <<aws, runs, watchVars>>

Others(c) == {o \in Checks \ {c} : Running(o)}
InFlight  == {s \in Starters : Listed(s)}

\* Mutant: only a Check that waits at its card counts as another one
CardsCount(c) ==
    LET waiting == {o \in Others(c) : At(o, "card")} IN
    /\ At(c, "list")
    /\ \/ waiting # {} /\ Says(c, "another runs", "done")
       \/ waiting = {} /\ InFlight # {} /\ DriftOpensTask(c, "a change runs")
       \/ waiting = {} /\ InFlight = {} /\ GoesOn(c, "agent")
       \/ Fails /\ DriftOpensTask(c, "nothing to propose")
    /\ UNCHANGED <<aws, runs, watchVars>>

\* ab..b1, e1, e2, watch_open: another Check that has not ended, whatever it is
\* at, ends this one; a change to the AWS VPN leaves drift its task. The query
\* returns the newest 200 running jobs: there are never more here.
ListRunning(c) ==
    /\ At(c, "list")
    /\ \/ /\ Others(c) # {} /\ Says(c, "another runs", "done")
          /\ early' = (early \/ \A o \in Others(c) : ~Told(o))
       \/ Others(c) = {} /\ InFlight # {} /\ DriftOpensTask(c, "a change runs") /\ UNCHANGED early
       \/ Others(c) = {} /\ InFlight = {} /\ GoesOn(c, "agent") /\ UNCHANGED early
       \/ Fails /\ DriftOpensTask(c, "nothing to propose") /\ UNCHANGED early
    /\ UNCHANGED <<aws, runs, found, proposal>>

-----------------------------------------------------------------------------
(* The proposal *)

\* Mutant: the answer is not held to the day's menu
OffTheMenu(c) ==
    /\ At(c, "agent")
    /\ \/ proposal' = [proposal EXCEPT ![c] = "deploy"] /\ GoesOn(c, "address")
       \/ proposal' = [proposal EXCEPT ![c] = "tear-down"] /\ GoesOn(c, "card")
    /\ UNCHANGED <<aws, runs, found, early>>

\* The day's menu: a deployment that only runs long is not deployed again
Menu(c) == {"tear-down"} \cup IF found[c] THEN {"deploy"} ELSE {}

\* b2..bf, watch_proposal: one of the menu.  An answer that is none leaves drift
\* its task, and a deployment that runs long its Tear Down card
AgentProposes(c) ==
    /\ At(c, "agent")
    /\ \/ \E p \in Menu(c) : /\ proposal' = [proposal EXCEPT ![c] = p]
                             /\ GoesOn(c, IF p = "deploy" THEN "address" ELSE "card")
       \/ (found[c] \/ Fails) /\ DriftOpensTask(c, "nothing to propose") /\ UNCHANGED proposal
    /\ UNCHANGED <<aws, runs, found, early>>

\* Mutant: a redeploy without an address has no way on
NoAddressHangs(c) ==
    /\ At(c, "address")
    /\ PersonDeploy /\ GoesOn(c, "card")
    /\ UNCHANGED <<aws, runs, watchVars>>

\* c0..cc: a redeploy takes the address of the newest Deploy a person started
FindAddress(c) ==
    /\ At(c, "address")
    /\ \/ PersonDeploy /\ GoesOn(c, "card")
       \/ (Fails \/ ~PersonDeploy) /\ Says(c, "drift", "task")
    /\ UNCHANGED <<aws, runs, watchVars>>

\* d0, d1
DecideProposal(c) ==
    /\ At(c, "card")
    /\ GoesOn(c, "trigger") \/ Says(c, "rejected", "done")
    /\ UNCHANGED <<aws, runs, watchVars>>

\* d2..da: a start that errors, and one whose id cannot be read, count as none
StartProposal(c) ==
    /\ At(c, "trigger")
    /\ \/ StartRun(c, proposal[c]) /\ Says(c, "started", "done")
       \/ /\ Fails /\ Says(c, "not started", "done")
          /\ StartRun(c, proposal[c]) \/ UNCHANGED runs
    /\ UNCHANGED <<aws, watchVars>>

\* 2b
SeeDrift(c) == At(c, "task") /\ GoesOn(c, "done") /\ UNCHANGED <<aws, runs, watchVars>>

CheckStep(c) == CheckDrift(c) \/ Gate(c) \/ ListRunning(c) \/ AgentProposes(c) \/ FindAddress(c) \/ StartProposal(c)
=============================================================================
