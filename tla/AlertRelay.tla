------------------------------ MODULE AlertRelay ------------------------------
(***************************************************************************)
(* The relay between Alertmanager and the outage loop's endpoint trigger   *)
(* (observability/alert-relay/relay.py; ADR 0072): it starts a run for an  *)
(* alert and answers 200, or answers 502 for any refusal, and Alertmanager *)
(* sends the alert again.  A start whose answer is lost is a refusal.      *)
(* Alertmanager sends one alert per call (max_alerts), one group per       *)
(* device pair, and again while the alert fires.                           *)
(***************************************************************************)
EXTENDS Outages

VARIABLE alert      \* per subject: nothing to send, to be sent, or accepted

RelayInit == alert = [s \in Subjects |-> "none"]

\* Alertmanager: the group's first notification, or a later one
Fire(s) ==
    /\ ~Up(s) /\ alert[s] # "firing"
    /\ alert' = [alert EXCEPT ![s] = "firing"]
    /\ UNCHANGED <<device, incidents, control>>

\* The trigger starts a run of the loop with the alert's labels
Started(s) == \E l \in Loops \cap env.runs :
                  /\ At(l, "start") /\ Go(l, "plan")
                  /\ about' = [about EXCEPT ![l] = s] /\ UNCHANGED said

\* deliver, do_POST: 200 when the run was started, 502 for anything else
Deliver(s) ==
    /\ alert[s] = "firing"
    /\ \/ Started(s) /\ alert' = [alert EXCEPT ![s] = "accepted"]
       \/ Fails /\ Started(s) /\ UNCHANGED alert
    /\ UNCHANGED <<device, incidents>>
=============================================================================
