---------------------------- MODULE RequestTools ----------------------------
(***************************************************************************)
(* Request AWS VPN Deployment and Request AWS VPN Teardown                 *)
(* (itential/workflows/build.py, concierge_request), the tools through     *)
(* which the Cloud Concierge and NetClaw start a run they never hold: the  *)
(* inputs, the newest person-started Deploy's address where the person     *)
(* said `last`, the endpoint trigger, the change request of the run, and   *)
(* an answer in words.  The agent asks again only when the answer says     *)
(* that nothing was started.                                               *)
(***************************************************************************)
EXTENDS EndpointRuns

VARIABLES
    wish,       \* what a request is to start
    unanswered  \* history: the requests whose start was made and its answer lost

requestVars == <<wish, unanswered>>

RequestInit == wish = [q \in Requests |-> "none"] /\ unanswered = {}

Refused(q) == said[q] = "nothing was started"

\* 00..12, 84: what the person wants, in the workflow's own words
Ask(q, kind) ==
    /\ At(q, "start") /\ q \in env.runs
    /\ \A o \in Requests \ {q} : At(o, "start") \/ Refused(o)
    /\ wish' = [wish EXCEPT ![q] = kind]
    /\ \/ kind = "deploy" /\ GoesOn(q, "address")
       \/ GoesOn(q, "trigger")
       \/ Fails /\ Says(q, "nothing was started", "done")
    /\ UNCHANGED <<aws, runs, unanswered>>

\* 20..2a, 80..82: the address of the newest Deploy a person started
ReadAddress(q) ==
    /\ At(q, "address")
    /\ \/ PersonDeploy /\ GoesOn(q, "trigger")
       \/ (Fails \/ ~PersonDeploy) /\ Says(q, "nothing was started", "done")
    /\ UNCHANGED <<aws, runs, requestVars>>

\* 2b, 31, 83: a start that errors counts as none
Trigger(q) ==
    /\ At(q, "trigger")
    /\ \/ StartRun(q, wish[q]) /\ GoesOn(q, "id") /\ UNCHANGED unanswered
       \/ /\ Fails /\ Says(q, "nothing was started", "done")
          /\ \/ UNCHANGED <<runs, unanswered>>
             \/ StartRun(q, wish[q]) /\ unanswered' = unanswered \cup {q}
    /\ UNCHANGED <<aws, wish>>

\* Mutant: an unread id is answered as a start that failed
UnreadIsRefused(q) ==
    /\ At(q, "id")
    /\ \/ GoesOn(q, "answer")
       \/ Fails /\ Says(q, "nothing was started", "done")
    /\ UNCHANGED <<aws, runs, requestVars>>

\* 2c, 32, 86: without the id the answer says not to request again
ReadId(q) ==
    /\ At(q, "id")
    /\ \/ GoesOn(q, "answer")
       \/ Fails /\ Says(q, "started, id unread", "done")
    /\ UNCHANGED <<aws, runs, requestVars>>

\* 3f..6x, 90..9c, 85: up to five reads of the run's change, then the answer
Answer(q) ==
    /\ At(q, "answer")
    /\ \/ Says(q, "started", "done")
       \/ Fails /\ Says(q, "started, no answer", "done")
    /\ UNCHANGED <<aws, runs, requestVars>>

RequestStep(q) == ReadAddress(q) \/ Trigger(q) \/ ReadId(q) \/ Answer(q)
=============================================================================
