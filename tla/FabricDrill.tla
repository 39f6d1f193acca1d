----------------------------- MODULE FabricDrill -----------------------------
(***************************************************************************)
(* Break Fabric BGP (itential/workflows/build.py; ADR 0073): breaks one    *)
(* healthy session on purpose under the device's commit timer, never       *)
(* saved, waits for the outage loop to bring it back, and only then        *)
(* confirms - otherwise the device rolls the drill back by itself.         *)
(***************************************************************************)
EXTENDS Outages

Halts(d, what) == Says(d, what, "task")

\* drill_plan: a declared session, on a platform with the timer
StartDrill(d, s) ==
    /\ At(d, "start") /\ d \in env.runs
    /\ Go(d, "health") /\ about' = [about EXCEPT ![d] = s] /\ UNCHANGED said
    /\ UNCHANGED <<device, incidents>>

\* 2a..29: both ends; a drill never stacks on a fault
CheckHealth(d) ==
    /\ At(d, "health")
    /\ \/ Up(about[d]) /\ GoesOn(d, "lines")
       \/ ~Up(about[d]) /\ Says(d, "not healthy", "done")
       \/ Fails /\ Halts(d, "nothing was changed")
    /\ UNCHANGED <<device, incidents>>

\* 3a..4f: the exact lines, the card's page
PrepareDrill(d) ==
    /\ At(d, "lines")
    /\ \/ GoesOn(d, "card")
       \/ Fails /\ Halts(d, "nothing was changed")
    /\ UNCHANGED <<device, incidents>>

\* 47, 48
DecideDrill(d) ==
    /\ At(d, "card")
    /\ GoesOn(d, "inject") \/ Says(d, "rejected", "done")
    /\ UNCHANGED <<device, incidents>>

\* 5a..50: a fault that did not apply may leave an open session, and no fault
\* committed; an answer that is lost leaves the fault to its timer
Inject(d) ==
    /\ At(d, "inject")
    /\ \/ CommitUnderTimer(d, about[d]) /\ (GoesOn(d, "wait") \/ (Fails /\ Halts(d, "may hold a session")))
       \/ (Fails \/ timer # None) /\ Halts(d, "may hold a session") /\ UNCHANGED device
    /\ UNCHANGED incidents

\* The four reads over 18 minutes: the first Established goes to the confirm
WaitForLoop(d) ==
    /\ At(d, "wait")
    /\ \/ Up(about[d]) /\ GoesOn(d, "confirm")
       \/ (Fails \/ ~Up(about[d])) /\ GoesOn(d, "after timer")
    /\ UNCHANGED <<device, incidents>>

\* confirm-drill: refused unless the session is Established and the timer runs
Confirmed(d) == Up(about[d]) /\ Pends(d) /\ timer' = None /\ UNCHANGED <<running, saved>>

\* 7a, 7b, e1: a lost answer says the timer still rolls back, and it does not
ConfirmDrill(d) ==
    /\ At(d, "confirm")
    /\ \/ Confirmed(d) /\ Says(d, "back and confirmed", "done")
       \/ Fails /\ Confirmed(d) /\ Halts(d, "timer still rolls back")
       \/ (Fails \/ ~Up(about[d]) \/ ~Pends(d)) /\ UNCHANGED device /\ Halts(d, "timer still rolls back")
    /\ UNCHANGED incidents

\* Mutant: the delay after the last read ends before the timer does
ReadsTooEarly(d) ==
    /\ At(d, "after timer")
    /\ \/ Up(about[d]) /\ Says(d, "rolled back", "done")
       \/ ~Up(about[d]) /\ Halts(d, "not back")
    /\ UNCHANGED <<device, incidents>>

\* 8a..8d, 9a..91, drill_result: the delay ends after the timer, and the
\* session is read once more
ReadAfterTimer(d) ==
    /\ At(d, "after timer") /\ ~Pends(d)
    /\ \/ Up(about[d]) /\ Says(d, "rolled back", "done")
       \/ ~Up(about[d]) /\ Halts(d, "not back")
       \/ Fails /\ Halts(d, "timer still rolls back")
    /\ UNCHANGED <<device, incidents>>

SeeDrill(d) == At(d, "task") /\ GoesOn(d, "done") /\ UNCHANGED <<device, incidents>>

DrillStep(d) == \/ CheckHealth(d) \/ PrepareDrill(d) \/ Inject(d) \/ WaitForLoop(d) \/ ConfirmDrill(d)
                \/ ReadAfterTimer(d)
=============================================================================
