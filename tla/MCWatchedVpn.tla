---------------------------- MODULE MCWatchedVpn ----------------------------
(* The watch, the request tools and people on small instances. *)
EXTENDS WatchedVpn

World(who, fails, deployed) == [runs |-> who, fails |-> fails, deployed |-> deployed]

One(set) == {CHOOSE x \in set : TRUE}

\* With services that fail at will: the Checks, or the requests, beside a
\* person.  With services that work: the Checks,
\* one request and a person.
MCWorlds == {World(Checks \cup People, TRUE, TRUE), World(Requests \cup People, TRUE, FALSE),
             World(Checks \cup One(Requests) \cup People, FALSE, TRUE)}
=============================================================================
