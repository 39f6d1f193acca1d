----------------------------- MODULE MCEdgeChanges -----------------------------
(* Rotations and pushes on small instances. *)
EXTENDS EdgeChanges

World(runs, gateway, deployed) == [runs |-> runs, gateway |-> gateway, deployed |-> deployed]

\* With services that fail at will: both rotations, the one on demand beside a
\* push, or the pushes.  With services that work: all of them, and nothing deployed.
MCWorlds == {World(Rotations, TRUE, TRUE), World(Pushes, TRUE, TRUE),
             World(Runs, FALSE, TRUE), World(Runs, FALSE, FALSE)}
            \cup {World(OnDemand \cup {p}, TRUE, TRUE) : p \in Pushes}
=============================================================================
