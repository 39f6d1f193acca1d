--------------------------- MODULE MCHandledOutages ---------------------------
(* The outage loops and a drill on small instances. *)
EXTENDS HandledOutages

World(fabric, who, fails) == [fabric |-> fabric, runs |-> who, fails |-> fails]

One(set) == {CHOOSE x \in set : TRUE}

\* The runs of either loop by themselves, and a run of the fabric loop beside a
\* drill, with services that fail at will
MCWorlds == {World(fabric, Loops, TRUE) : fabric \in BOOLEAN}
            \cup {World(TRUE, One(Loops) \cup Drills, TRUE)}
=============================================================================
