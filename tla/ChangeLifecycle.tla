--------------------------- MODULE ChangeLifecycle ---------------------------
(***************************************************************************)
(* What the lab promises of a ServiceNow standard change, whichever        *)
(* workflow walks it: it is opened once, scheduled before it is            *)
(* implemented, implemented before it is reviewed, reviewed before it is   *)
(* closed, and canceled only from the states a workflow may give up in.    *)
(***************************************************************************)
CONSTANTS
    Changes,      \* the runs that may open one
    Cancelable    \* the states a run may still cancel its change from
VARIABLE state    \* run -> state of its change

LifecycleMoves == {<<"none", "New">>, <<"New", "Scheduled">>, <<"Scheduled", "Implement">>,
                   <<"Implement", "Review">>, <<"Review", "Closed">>}
                  \cup {<<s, "Canceled">> : s \in Cancelable}

Init == state = [c \in Changes |-> "none"]

Move(c, s) == <<state[c], s>> \in LifecycleMoves /\ state' = [state EXCEPT ![c] = s]

Next == \E c \in Changes, s \in {m[2] : m \in LifecycleMoves} : Move(c, s)

Spec == Init /\ [][Next]_state
=============================================================================
