------------------------------ MODULE RevertPush ------------------------------
(***************************************************************************)
(* Push Configuration with Revert Timer (config_push_revert in             *)
(* itential/workflows/build.py): the lines are checked without a device,   *)
(* shown on a Work Center card, and pushed by config-push-revert, which    *)
(* confirms and saves them only if BGP, the pings and a fresh login hold.  *)
(* revert_summary turns the service's answer - or its silence - into what  *)
(* the run says of the router and into its `changed` output.               *)
(***************************************************************************)
EXTENDS EdgeRouter

VARIABLE changed    \* the job variable: may the router have changed?

PushInit == changed = [p \in Pushes |-> FALSE]

\* Every early end leaves changed = false
Quiet(p) == Says(p, "unchanged", "done")

\* 1a..1f, 12..14: the plan and the service's check with no device; lines it
\* would refuse never reach an approver (b0, b1, 15, 18, b8)
PrepareChange(p) ==
    /\ At(p, "start") /\ p \in env.runs
    /\ GoesOn(p, "card") \/ Quiet(p)
    /\ UNCHANGED <<router, changed>>

\* 2c: a rejection sends nothing (a0, a2)
DecideChange(p) ==
    /\ At(p, "card")
    /\ GoesOn(p, "send") \/ Says(p, "rejected", "done")
    /\ UNCHANGED <<router, changed>>

\* Mutant: no answer counts as nothing sent
NoAnswerIsUnchanged(p, state) ==
    /\ Says(p, IF state = "unknown" THEN "unchanged" ELSE state, "done")
    /\ changed' = [changed EXCEPT ![p] = state = "saved"]


\* revert_summary: saved, rolled back, nothing sent, or unknown - and then the
\* router may hold a change (5a, 5b, b5, b6)
PushEnds(p, state) ==
    /\ Says(p, state, "done")
    /\ changed' = [changed EXCEPT ![p] = state \in {"saved", "unknown"}]

\* 16..3b: the lines under the timer; a pending change or a router that cannot
\* be reached answers sent = false, a service that cannot run answers nothing
SendChange(p) ==
    /\ At(p, "send")
    /\ \/ /\ SendUnderTimer(p, [running EXCEPT !.lines = @ \cup {p}])
          /\ GoesOn(p, "answer") /\ UNCHANGED changed
       \/ (GatewayFails \/ timer # None) /\ PushEnds(p, "unchanged") /\ UNCHANGED router
       \/ GatewayFails /\ PushEnds(p, "unknown") /\ UNCHANGED router

\* Mutant: a change that was confirmed counts as saved
ConfirmedIsSaved(p) ==
    /\ At(p, "answer")
    /\ \/ (Saved(p) \/ Unsaved(p)) /\ PushEnds(p, "saved")
       \/ RolledBack(p) /\ PushEnds(p, "rolled back")
       \/ GatewayFails /\ (RolledBack(p) \/ UNCHANGED router) /\ PushEnds(p, "unknown")
       \/ ~Own(p) /\ UNCHANGED router /\ PushEnds(p, "unknown")


\* 3c..33: the checks hold or not; the answer may be lost, the service stopped
\* before or after the confirm, or the timer or a reload faster
ReadChange(p) ==
    /\ At(p, "answer")
    /\ \/ Saved(p) /\ PushEnds(p, "saved")
       \/ RolledBack(p) /\ PushEnds(p, "rolled back")
       \/ /\ GatewayFails
          /\ Saved(p) \/ Unsaved(p) \/ RolledBack(p) \/ UNCHANGED router
          /\ PushEnds(p, "unknown")
       \/ /\ ~Own(p) /\ UNCHANGED router
          /\ PushEnds(p, "unknown") \/ PushEnds(p, "rolled back")

\* What the job engine runs by itself
PushStep(p) == SendChange(p) \/ ReadChange(p)
=============================================================================
