------------------------------- MODULE MCAwsVpn -------------------------------
(* The AWS VPN's workflows on small instances. *)
EXTENDS AwsVpn, TLC

MCSymmetry == Permutations(Deploys) \cup Permutations(HandOffs)
              \cup Permutations(TearDowns) \cup Permutations(Expiries)

MCHours == {1, Forever}
MCNone  == {Forever}

World(runs, gateway, runner, servicenow, hours) ==
    [runs |-> runs, gateway |-> gateway, runner |-> runner, servicenow |-> servicenow, hours |-> hours]

\* A Hand Off between two Tear Downs, and between a Tear Down and a Deploy
MCRouter == {World(HandOffs \cup TearDowns, TRUE, FALSE, FALSE, 0)}
            \cup {World(Deploys \cup HandOffs \cup {t}, TRUE, FALSE, FALSE, 0) : t \in TearDowns}

\* Two runs of the workflows that carry a change, every service failing at will
MCChange == {World(pair, TRUE, TRUE, TRUE, 0) :
                pair \in UNION {{Deploys \cup HandOffs, Deploys \cup {t}, HandOffs \cup {t}} : t \in TearDowns}}

MCPersons == MCRouter \cup MCChange

\* The hourly run beside a Deploy; a Tear Down beside a Deploy, with services
\* that work and with services that fail
MCEnds == {World(Deploys \cup Expiries, TRUE, TRUE, FALSE, 2),
           World(Deploys \cup TearDowns, FALSE, TRUE, TRUE, 0),
           World(Deploys \cup TearDowns, TRUE, TRUE, TRUE, 0)}

\* Everything works
MCHealthy  == {World(Runs, FALSE, FALSE, FALSE, 0)}
MCTwoHours == {World(Runs, FALSE, FALSE, FALSE, 2)}
=============================================================================
