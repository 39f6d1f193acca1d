------------------------------- MODULE MCEveLab -------------------------------
(* The two labs on small topologies. *)
EXTENDS EveLab, TLC

P(net, len) == [net |-> net, len |-> len]
L(a, b, prefix) == [a |-> a, b |-> b, prefix |-> prefix, bypass |-> FALSE]
Bypass(a, b, prefix) == [a |-> a, b |-> b, prefix |-> prefix, bypass |-> TRUE]

Site == [isp |-> "wan", e1 |-> "dc1", e2 |-> "dc1", b1 |-> "br1", s1 |-> "dc1", l1 |-> "dc1", l2 |-> "dc1",
         f1 |-> "dc1", w1 |-> "br1", k1 |-> "scratch", k2 |-> "scratch"]
Role == [isp |-> "isp-core", e1 |-> "wan-edge", e2 |-> "wan-edge", b1 |-> "wan-edge", s1 |-> "spine", l1 |-> "leaf",
         l2 |-> "leaf", f1 |-> "firewall", w1 |-> "access", k1 |-> "scratch-router", k2 |-> "scratch-router"]
Platform == [isp |-> "c8000v", e1 |-> "c8000v", e2 |-> "c8000v", b1 |-> "c8000v", s1 |-> "veos", l1 |-> "veos",
             l2 |-> "veos", f1 |-> "pa-vm", w1 |-> "veos", k1 |-> "c8000v", k2 |-> "c8000v"]

MCRouters == DOMAIN Site

\* No two networks meet: links from 0, tunnels from 40, transit 256, loopbacks from 600
File(order, links, tunnels) ==
    [firewalls |-> FALSE, nodes |-> order, links |-> links, tunnels |-> tunnels,
     site |-> Site, role |-> Role, platform |-> Platform,
     loopback |-> [n \in MCRouters |-> CASE n = "s1" -> 600 [] n = "l1" -> 601 [] n = "l2" -> 602 [] OTHER -> None],
     transit |-> [n \in MCRouters |-> CASE n = "l1" -> 267 [] n = "l2" -> 268 [] OTHER -> None],
     lan |-> [n \in MCRouters |-> IF n = "b1" THEN 700 ELSE None],
     asn |-> [isp |-> 1, dc1_edge |-> 2, dc1_fw |-> 3, dc1_spine |-> 4, dc1_leaf |-> 5, br1 |-> 6, scratch |-> 7],
     gateway |-> 257]

Small == File(<<"isp", "e1", "l1", "f1">>,
                   <<L(<<"isp", 2>>, <<"e1", 2>>, P(0, 30)), L(<<"e1", 3>>, <<"f1", 1>>, P(4, 30)),
                     L(<<"f1", 4>>, <<"l1", 6>>, None), Bypass(<<"e1", 6>>, <<"l1", 7>>, P(8, 30))>>, <<>>)

\* Two edges, a branch behind two tunnels, a fabric and the firewall
Whole == File(<<"isp", "e1", "e2", "b1", "s1", "l1", "l2", "w1", "f1">>,
                   <<L(<<"isp", 2>>, <<"e1", 2>>, P(0, 30)), L(<<"isp", 3>>, <<"e2", 2>>, P(4, 30)),
                     L(<<"isp", 4>>, <<"b1", 2>>, P(8, 30)), L(<<"e1", 5>>, <<"e2", 5>>, P(12, 30)),
                     L(<<"e1", 3>>, <<"f1", 1>>, P(16, 30)), L(<<"s1", 1>>, <<"l1", 1>>, P(20, 31)),
                     L(<<"s1", 2>>, <<"l2", 1>>, P(22, 31)), L(<<"f1", 4>>, <<"l1", 6>>, None),
                     L(<<"l1", 4>>, <<"l2", 4>>, None),
                     Bypass(<<"e1", 6>>, <<"l1", 7>>, P(24, 30)), Bypass(<<"e2", 6>>, <<"l2", 7>>, P(28, 30)),
                     Bypass(<<"b1", 4>>, <<"w1", 4>>, None)>>,
                   <<L(<<"e1", 1>>, <<"b1", 1>>, P(40, 30)), L(<<"e2", 1>>, <<"b1", 2>>, P(44, 30))>>)

Pair == File(<<"k1", "k2">>, <<L(<<"k1", 2>>, <<"k2", 2>>, None)>>, <<>>)

World(enterprise, labs, failing) ==
    [topo |-> [l \in Labs |-> IF l = Scratch THEN Pair ELSE enterprise], labs |-> labs, failing |-> failing]

MCEnvironments == {World(Small, {"enterprise"}, TRUE), World(Small, Labs, FALSE), World(Whole, {"enterprise"}, FALSE)}
=============================================================================
