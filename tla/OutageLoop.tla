------------------------------ MODULE OutageLoop ------------------------------
(***************************************************************************)
(* Diagnose AWS VPN Outage and Diagnose Fabric BGP Outage                  *)
(* (itential/workflows/build.py; ADR 0072, ADR 0073), which have one shape:*)
(* one incident per outage, found by its correlation_id; the evidence; the *)
(* agent's one fix from a menu; a card; the fix; up to four reads; and the *)
(* incident resolved or noted.  The list of incidents and the create are   *)
(* two calls with the evidence between them.                               *)
(*                                                                         *)
(* Every stop with an error ends at the Work Center task f0.               *)
(***************************************************************************)
EXTENDS Outages

VARIABLES
    own,        \* the incident a run opened, 0 before
    \* history
    together,   \* subjects two runs of which were between list and create at once
    byHand,     \* subjects of which a person resolved an incident
    kept        \* the drills whose fault a fix of another subject saved

loopVars == <<own, together, byHand, kept>>

LoopInit == own = [l \in Loops |-> 0] /\ together = {} /\ byHand = {} /\ kept = {}

Stops(l, what) == Says(l, what, "task")

-----------------------------------------------------------------------------
(* One incident per outage *)

\* outage_plan; whether an AWS VPN is deployed is not kept
NothingDeployed(l) == ~env.fabric /\ Says(l, "nothing deployed", "done")

\* 1a..15, outage_plan, fabric_plan
Plan(l) ==
    /\ At(l, "plan")
    /\ \/ GoesOn(l, "list")
       \/ NothingDeployed(l)
       \/ Fails /\ Stops(l, "nothing was changed")
    /\ UNCHANGED <<device, incidents, loopVars>>

Before(l) == {o \in Loops \ {l} : about[o] = about[l] /\ at[o] \in {"evidence", "create"}}

\* Mutant: only a New incident counts as open
ListNew(l) ==
    /\ At(l, "list")
    /\ \/ /\ \E i \in Open(about[l]) : incidents[i].state = "new"
          /\ GoesOn(l, "note") /\ UNCHANGED together
       \/ /\ \A i \in Open(about[l]) : incidents[i].state # "new"
          /\ GoesOn(l, "evidence")
          /\ together' = together \cup {about[o] : o \in Before(l)}
       \/ Fails /\ Stops(l, "no incident") /\ UNCHANGED together
    /\ UNCHANGED <<device, incidents, own, byHand, kept>>

\* 2a..2f, open_incident. The fabric's incident is that of a device pair: a
\* subject is a pair with one session of it, a pair's further sessions are left out.
ListIncidents(l) ==
    /\ At(l, "list")
    /\ \/ Open(about[l]) # {} /\ GoesOn(l, "note") /\ UNCHANGED together
       \/ /\ Open(about[l]) = {} /\ GoesOn(l, "evidence")
          /\ together' = together \cup {about[o] : o \in Before(l)}
       \/ Fails /\ (Stops(l, "no incident") \/ Stops(l, "nothing was changed")) /\ UNCHANGED together
    /\ UNCHANGED <<device, incidents, own, byHand, kept>>

\* 20..23: still down
NoteOpen(l) ==
    /\ At(l, "note")
    /\ \/ Says(l, "noted", "done")
       \/ Fails /\ Stops(l, "no incident")
    /\ UNCHANGED <<device, incidents, loopVars>>

\* Mutant: evidence that could not be read counts as up
UnreadIsUp(l) ==
    /\ At(l, "evidence")
    /\ \/ Up(about[l]) /\ Says(l, "up again", "done")
       \/ ~Up(about[l]) /\ GoesOn(l, "create")
       \/ Fails /\ Says(l, "up again", "done")
    /\ UNCHANGED <<device, incidents, loopVars>>

\* verify_section: a router, a data plane or a monitor that cannot be read, and
\* signals that differ, are a Verify that has not passed
AwsEvidence(l) == ~env.fabric /\ (~Up(about[l]) \/ Fails) /\ GoesOn(l, "create")

\* 3a..c0: the alerting end must be read; the far end need not
FabricEvidence(l) == env.fabric /\ ~Up(about[l]) /\ GoesOn(l, "create")

\* 3a..30: up again ends the run
ReadEvidence(l) ==
    /\ At(l, "evidence")
    /\ \/ Up(about[l]) /\ Says(l, "up again", "done")
       \/ AwsEvidence(l)
       \/ FabricEvidence(l)
       \/ Fails /\ Stops(l, "nothing was changed")
    /\ UNCHANGED <<device, incidents, loopVars>>

\* Mutant: a create that errors goes on to the agent
ErrorGoesOn(l) ==
    /\ At(l, "create") /\ GoesOn(l, "agent")
    /\ \/ OpenIncident(about[l], "new") /\ own' = [own EXCEPT ![l] = Len(incidents) + 1]
       \/ Fails /\ UNCHANGED <<incidents, own>>
    /\ UNCHANGED <<device, together, byHand, kept>>

\* 31..36, outage_summary, fabric_summary: without the incident's text none is
\* opened, and the task says that there is one
NoText(l) == Fails /\ Stops(l, "after the incident") /\ UNCHANGED <<incidents, own>>

\* 31..3d, c1, c2, outage_request: no answer counts as no incident, and a
\* request that could not be made leaves the one that was opened
CreateIncident(l) ==
    /\ At(l, "create")
    /\ \/ /\ OpenIncident(about[l], "new")
          /\ own' = [own EXCEPT ![l] = Len(incidents) + 1] /\ GoesOn(l, "agent")
       \/ NoText(l)
       \/ /\ Fails /\ OpenIncident(about[l], "new") /\ UNCHANGED own
          /\ Stops(l, "no incident") \/ Stops(l, "after the incident")
       \/ Fails /\ Stops(l, "no incident") /\ UNCHANGED <<incidents, own>>
    /\ UNCHANGED <<device, together, byHand, kept>>

-----------------------------------------------------------------------------
(* The fix *)

\* outage_fix, 41..44: an agent that did not run or finish, or whose answer is not
\* a fix of the menu, is noted on the incident for a person
Escalates(l) == Stops(l, "escalated")

\* fabric_fix: one fix of the menu, on an end of the session; whether the run's
\* own reads back it is shown on the card and stops nothing
Picks(l) == GoesOn(l, "lines")

\* 4a..40
AgentPicks(l) ==
    /\ At(l, "agent")
    /\ \/ Picks(l)
       \/ Escalates(l)
       \/ Fails /\ Stops(l, "after the incident")
    /\ UNCHANGED <<device, incidents, loopVars>>

\* 46..48, 5a..5f: the exact lines of a session's fix, and the card's page
PrepareCard(l) ==
    /\ At(l, "lines")
    /\ \/ GoesOn(l, "card")
       \/ Fails /\ Stops(l, "after the incident")
    /\ UNCHANGED <<device, incidents, loopVars>>

\* 50..52, 58, 59
RejectFix(l) == Says(l, "rejected", "done")

\* 5c
DecideFix(l) ==
    /\ At(l, "card")
    /\ \/ GoesOn(l, "fix")
       \/ RejectFix(l)
       \/ Fails /\ Stops(l, "after the incident")
    /\ UNCHANGED <<device, incidents, loopVars>>

\* Mutant: the fix saves what it has not proved
SavesUnproved(l) ==
    /\ At(l, "fix") /\ GoesOn(l, "reread")
    /\ \E f \in SUBSET running[about[l]] : running' = [running EXCEPT ![about[l]] = @ \ f]
    /\ saved' = running'
    /\ kept' = kept \cup {d \in Drills : \E s \in Subjects \ {about[l]} : d \in running'[s]}
    /\ UNCHANGED <<timer, incidents, own, together, byHand>>

\* fabric-bgp's fix of a session: a change on one end that may lift a fault; it
\* saves the whole configuration when the session is Established.  A fix of the
\* AWS tunnel is on another router
FixRuns(s, lifted) ==
    /\ running' = [running EXCEPT ![s] = @ \ lifted]
    /\ IF running'[s] = {} /\ env.fabric
       THEN /\ saved' = running'
            /\ kept' = kept \cup {d \in Drills : \E o \in Subjects : d \in running'[o]}
       ELSE UNCHANGED <<saved, kept>>

\* 60..6e, 54: exactly one, the approved one.  A fix that errors is followed by
\* the reads all the same
RunFix(l) ==
    /\ At(l, "fix")
    /\ \/ /\ \E lifted \in SUBSET running[about[l]] : FixRuns(about[l], lifted)
          /\ GoesOn(l, "reread")
       \/ /\ Fails /\ UNCHANGED <<running, saved, kept>>
          /\ GoesOn(l, "reread") \/ Stops(l, "after the incident")
    /\ UNCHANGED <<timer, incidents, own, together, byHand>>

\* fabric_result: the read alone counts, whatever the fix said of itself
Fixed(l) == Up(about[l]) /\ GoesOn(l, "resolve")

\* outage_result, 7c..7e
NotFixed(l) == (Fails \/ ~Up(about[l])) /\ Stops(l, "not fixed")

\* 70..ac, 72..78: up to four reads, the first that is up counts
ReadAgain(l) ==
    /\ At(l, "reread")
    /\ \/ Fixed(l)
       \/ NotFixed(l)
       \/ Fails /\ Stops(l, "after the incident")
    /\ UNCHANGED <<device, incidents, loopVars>>

\* 79..7b: by sys_id, whatever a person has made of the incident since
Resolve(l) ==
    /\ At(l, "resolve")
    /\ \/ MoveIncident(own[l], "resolved") /\ Says(l, "fixed", "done")
       \/ /\ Fails /\ Stops(l, "after the incident")
          /\ MoveIncident(own[l], "resolved") \/ UNCHANGED incidents
    /\ UNCHANGED <<device, loopVars>>

\* f0
SeeTask(l) == At(l, "task") /\ GoesOn(l, "done") /\ UNCHANGED <<device, incidents, loopVars>>

LoopStep(l) == \/ Plan(l) \/ ListIncidents(l) \/ NoteOpen(l) \/ ReadEvidence(l) \/ CreateIncident(l)
               \/ AgentPicks(l) \/ PrepareCard(l) \/ RunFix(l) \/ ReadAgain(l) \/ Resolve(l)

\* People work on an incident, and may resolve it themselves
WorkOn(i)        == incidents[i].state = "new" /\ MoveIncident(i, "in progress")
                    /\ UNCHANGED <<device, control, loopVars>>
ResolveByHand(i) == /\ incidents[i].state # "resolved" /\ MoveIncident(i, "resolved")
                    /\ byHand' = byHand \cup {incidents[i].subject}
                    /\ UNCHANGED <<device, control, own, together, kept>>
=============================================================================
