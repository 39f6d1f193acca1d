------------------------------ MODULE MCSkillsLab ------------------------------
(* The skills lab with two pushes, two restores and four plays. *)
EXTENDS SkillsLab, TLC

MCSymmetry == Permutations(Pushes) \cup Permutations(Restores) \cup Permutations(Jobs) \cup Permutations(Cleanups)

\* Two foreign lines; OSPF taken away; OSPF brought back, with the router's own
\* hostname; another hostname
MCProposals ==
    {{<<"add", f>> : f \in Foreign}, {<<"no", Own("router ospf")>>, <<"no", Loopback>>},
     {<<"add", Own("router ospf")>>, <<"no", Probed>>}, {<<"add", Probed>>}}

World(runs, most, flips, tests, failing) ==
    [runs |-> runs, plays |-> most, edits |-> flips, jobs |-> tests, failing |-> failing]

\* A push and a restore beside two plays; two of each beside one play, with
\* services that work; four plays, the OSPF state edited twice; the test jobs
MCEnvironments ==
    {World({p, r}, 2, 0, FALSE, TRUE) : p \in Pushes, r \in Restores}
    \cup {World(Runs, 1, 0, FALSE, FALSE), World({}, 4, 2, FALSE, TRUE), World({}, 0, 0, TRUE, TRUE)}
=============================================================================
