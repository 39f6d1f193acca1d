---------------------------- MODULE EndpointRuns ----------------------------
(***************************************************************************)
(* What the request tools of the Cloud Concierge and NetClaw and the Drift *)
(* and Cost Watch (itential/workflows/build.py; ADR 0085) share: the AWS   *)
(* side of the VPN as the Terraform state and a drift check show it, and   *)
(* the runs of Deploy, Tear Down and the other AWS VPN workflows that      *)
(* people or an endpoint trigger have started.  A started run stops at a   *)
(* Work Center card of its own; module AwsVpn has what it does after that. *)
(***************************************************************************)
EXTENDS Naturals, FiniteSets

CONSTANTS
    Requests,       \* runs of a request tool, one after the other for one wish
    Checks,         \* runs of Check AWS Drift
    People,         \* who starts AWS VPN workflows by hand, or by schedule
    Environments    \* bound: who runs, what may fail, what is deployed at first

Jobs     == Requests \cup Checks
Starters == Jobs \cup People

ASSUME JobAssumption == Requests \cap Checks = {} /\ Jobs \cap People = {}
ASSUME EnvironmentAssumption ==
           \A e \in Environments : e.runs \subseteq Starters /\ e.fails \in BOOLEAN /\ e.deployed \in BOOLEAN

VARIABLES
    env,        \* the environment of the behaviour, fixed in Init
    at,         \* the task a job is at
    said,       \* what its outcome, its error or its Work Center task says
    aws,        \* the deployment: up, drifted, its end time, past the 24 hours
    runs        \* the AWS VPN run each starter started: its kind, and whether it is over

control == <<at, said>>

Deployment == [up : BOOLEAN, drifted : BOOLEAN, end : {"none", "later", "passed"}, old : BOOLEAN]
Kind       == {"deploy", "tear-down", "other"}
Run        == [kind : Kind \cup {"none"}, open : BOOLEAN]

NoRun == [kind |-> "none", open |-> FALSE]
Gone  == [up |-> FALSE, drifted |-> FALSE, end |-> "none", old |-> FALSE]
Fresh(end) == [Gone EXCEPT !.up = TRUE, !.end = end]

\* The Gateway, the runner or the Platform's API may throw or lose an answer
Fails == env.fails

At(j, t)         == at[j] = t
Go(j, t)         == at' = [at EXCEPT ![j] = t]
GoesOn(j, t)     == Go(j, t) /\ UNCHANGED said
Says(j, what, t) == Go(j, t) /\ said' = [said EXCEPT ![j] = what]

\* A job is listed as running from its start until it has ended
Running(j) == at[j] \notin {"start", "done"}
Listed(s)  == runs[s].open

RunsInit ==
    /\ env \in Environments
    /\ at = [j \in Jobs |-> "start"] /\ said = [j \in Jobs |-> "nothing"]
    /\ aws = IF env.deployed THEN Fresh("none") ELSE Gone
    /\ runs = [s \in Starters |-> NoRun]

-----------------------------------------------------------------------------
\* The endpoint trigger: the run stops at its own Work Center card
StartRun(s, kind) == runs' = [runs EXCEPT ![s] = [kind |-> kind, open |-> TRUE]]

\* newest_person_deploy: the newest Deploy a person started, decided or not; the
\* runs an endpoint started are passed over
PersonDeploy == \E p \in People : runs[p].kind = "deploy"

PersonStarts(p, kind) ==
    /\ p \in env.runs /\ runs[p] = NoRun
    /\ StartRun(p, kind)
    /\ UNCHANGED <<aws, control>>

\* A started run ends: rejected or failed, or it has applied or destroyed
RunEnds(s) ==
    /\ Listed(s)
    /\ runs' = [runs EXCEPT ![s].open = FALSE]
    /\ \/ UNCHANGED aws
       \/ runs[s].kind = "deploy" /\ aws' \in {Fresh("none"), Fresh("later")}
       \/ runs[s].kind = "tear-down" /\ aws' = Gone
    /\ UNCHANGED control

\* Somebody changes a resource outside Terraform
Drifts == aws.up /\ ~aws.drifted /\ aws' = [aws EXCEPT !.drifted = TRUE] /\ UNCHANGED <<runs, control>>

\* Time: a deployment with no end time is 24 hours old; an end time is reached,
\* and the hourly timed teardown removes what is past it
Ages    == aws.up /\ ~aws.old /\ aws' = [aws EXCEPT !.old = TRUE] /\ UNCHANGED <<runs, control>>
Passes  == aws.end = "later" /\ aws' = [aws EXCEPT !.end = "passed"] /\ UNCHANGED <<runs, control>>
Removed == aws.end = "passed" /\ aws' = Gone /\ UNCHANGED <<runs, control>>
=============================================================================
