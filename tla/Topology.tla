------------------------------- MODULE Topology -------------------------------
(***************************************************************************)
(* What topology/derive.py computes from a topology file: the addresses of *)
(* both ends of a link, what a startup configuration is rendered from,     *)
(* the interfaces NetBox gets and the BGP sessions of a device.            *)
(*                                                                         *)
(* A topology T is a record:                                               *)
(*   firewalls   lab.firewalls                                             *)
(*   nodes       the nodes in the file's order                             *)
(*   site, role, platform, loopback, lan, transit   functions over nodes   *)
(*               (an address, or None)                                     *)
(*   asn         the AS number of each key of routing.asn                  *)
(*   links, tunnels   the links in the file's order, each with its ends    *)
(*               <<node, port number>>, its prefix or None, and bypass     *)
(*   gateway     the firewalls' address on the transit network             *)
(* An address is a number, a prefix its first number and its length.       *)
(* Descriptions, masks, management addresses, internet ports and the AWS   *)
(* VPN's own tunnel are left out.                                          *)
(***************************************************************************)
EXTENDS Integers, Sequences

CONSTANT None

Managed == {"c8000v", "veos"}

NodesOf(T) == {T.nodes[i] : i \in DOMAIN T.nodes}
EndsOf(link) == {link.a[1], link.b[1]}

\* The a-side takes the first usable address of the prefix, the b-side the
\* second; a /31 has no network address. Mutant: it is given one.
SlashThirtyOneSkipsOne(link) ==
    LET first == link.prefix.net + 1
        End(mine, its, n) ==
            [port |-> mine[2], ip |-> first + n, prefix |-> link.prefix,
             peer |-> its[1], peerPort |-> its[2], peerIp |-> first + 1 - n]
    IN [n \in EndsOf(link) |-> IF n = link.a[1] THEN End(link.a, link.b, 0) ELSE End(link.b, link.a, 1)]
LinkEnds(link) ==
    LET first == link.prefix.net + (IF link.prefix.len = 31 THEN 0 ELSE 1)
        End(mine, its, n) ==
            [port |-> mine[2], ip |-> first + n, prefix |-> link.prefix,
             peer |-> its[1], peerPort |-> its[2], peerIp |-> first + 1 - n]
    IN [n \in EndsOf(link) |-> IF n = link.a[1] THEN End(link.a, link.b, 0) ELSE End(link.b, link.a, 1)]

\* A node's ends of the addressed links, in the file's order
NodeLinks(T, n) == SelectSeq(T.links, LAMBDA l : n \in EndsOf(l) /\ l.prefix # None)

EndsAt(T, n) == LET ls == NodeLinks(T, n) IN [i \in DOMAIN ls |-> [link |-> ls[i], end |-> LinkEnds(ls[i])[n]]]

PeerRole(T, item) == T.role[item.end.peer]

SiteAsn(T, s) == T.asn[IF s = "wan" THEN "isp" ELSE IF s = "dc1" THEN "dc1_edge" ELSE s]

\* The first link to the provider core
WanEnd(T, n) ==
    LET ups == SelectSeq(EndsAt(T, n), LAMBDA item : PeerRole(T, item) = "isp-core")
    IN IF ups = <<>> THEN None ELSE ups[1].end

\* The tunnels of a WAN edge; dst is the peer's address at the provider
NodeTunnels(T, n) ==
    {LET mine == LinkEnds(t)[n]
         peer == WanEnd(T, mine.peer)
     IN [id |-> mine.port, peer |-> mine.peer, ip |-> mine.ip, nbr |-> mine.peerIp, prefix |-> mine.prefix,
         dst |-> IF peer = None THEN None ELSE peer.ip, ras |-> SiteAsn(T, T.site[mine.peer])]
     : t \in {T.tunnels[i] : i \in {i \in DOMAIN T.tunnels : n \in EndsOf(T.tunnels[i])}}}

Fabric(T, n) == T.platform[n] = "veos" /\ T.role[n] \in {"spine", "leaf"}

\* What the startup configuration of a node is rendered from
RenderContext(T, n) ==
    LET other == IF T.role[n] = "spine" THEN "leaf" ELSE "spine"
        edges == SelectSeq(EndsAt(T, n), LAMBDA item : /\ PeerRole(T, item) = "wan-edge"
                                                       /\ T.site[item.end.peer] = T.site[n])
        wan == WanEnd(T, n)
    IN IF T.platform[n] = "c8000v"
       THEN [asn |-> SiteAsn(T, T.site[n]),
             ispPeer |-> IF wan = None THEN None ELSE wan.peerIp,
             tunnels |-> NodeTunnels(T, n),
             ibgp |-> IF edges = <<>> THEN None ELSE edges[Len(edges)].end.peerIp,
             evpnPeers |-> {}]
       ELSE [asn |-> IF ~Fabric(T, n) THEN None
                     ELSE IF T.role[n] = "spine" THEN T.asn["dc1_spine"] ELSE T.asn["dc1_leaf"],
             ispPeer |-> None, tunnels |-> {}, ibgp |-> None,
             evpnPeers |-> IF ~Fabric(T, n) THEN {}
                           ELSE {T.loopback[m] : m \in {m \in NodesOf(T) : T.role[m] = other /\ T.site[m] = T.site[n]}}]

Row(kind, port, ip, prefix, vrf) == [kind |-> kind, port |-> port, ip |-> ip, prefix |-> prefix, vrf |-> vrf]
Host(ip) == [net |-> ip, len |-> 32]

\* Every addressed interface of a device for NetBox
Interfaces(T, n) ==
    LET links == {T.links[i] : i \in {i \in DOMAIN T.links : n \in EndsOf(T.links[i])}}
        Peer(l) == IF l.a[1] = n THEN l.b[1] ELSE l.a[1]
        Port(l) == IF l.a[1] = n THEN l.a[2] ELSE l.b[2]
        \* a bypass exists only without the firewalls, a port to a firewall only with them
        here == {l \in links : IF T.firewalls THEN ~l.bypass ELSE T.role[Peer(l)] # "firewall"}
        Vrf(l) == IF T.platform[n] = "c8000v" /\ T.role[Peer(l)] = "isp-core" THEN "WAN"
                  ELSE IF T.platform[n] = "veos" /\ l.bypass THEN "PROD" ELSE None
    IN (IF T.loopback[n] = None THEN {} ELSE {Row("loopback", 0, T.loopback[n], Host(T.loopback[n]), None)})
       \cup (IF T.transit[n] = None THEN {}
             ELSE {Row("svi", 100, T.transit[n], [net |-> T.gateway - 1, len |-> 24], "PROD")})
       \cup {Row("link", Port(l), LinkEnds(l)[n].ip, l.prefix, Vrf(l)) : l \in {l \in here : l.prefix # None}}
       \cup {Row("link", Port(l), T.lan[n], Host(T.lan[n]), None)
             : l \in {l \in here : l.prefix = None /\ l.bypass /\ T.lan[n] # None}}
       \cup {Row("tunnel", t.id, t.ip, t.prefix, None) : t \in RenderContext(T, n).tunnels}

Session(ip, as, vrf, afi) == [neighbor |-> ip, as |-> as, vrf |-> vrf, afi |-> afi]

\* The BGP sessions of a WAN router: one per tunnel, firewall or bypassed leaf,
\* the other edge of the site, and the provider. The provider's own: one per link,
\* where the code stops if a file gives it more links than neighbors or fewer.
RouterSessions(T, n, items) ==
    LET ctx == RenderContext(T, n)
    IN IF T.role[n] = "isp-core"
       THEN {Session(item.end.peerIp, SiteAsn(T, T.site[item.end.peer]), None, "ipv4") : item \in items}
       ELSE {Session(t.nbr, t.ras, None, "ipv4") : t \in ctx.tunnels}
            \cup {Session(item.end.peerIp, T.asn["dc1_fw"], None, "ipv4")
                  : item \in {item \in items : PeerRole(T, item) = "firewall"}}
            \cup {Session(item.end.peerIp, T.asn["dc1_leaf"], None, "ipv4")
                  : item \in {item \in items : PeerRole(T, item) = "leaf"}}
            \cup (IF ctx.ibgp = None THEN {} ELSE {Session(ctx.ibgp, T.asn["dc1_edge"], None, "ipv4")})
            \cup (IF ctx.ispPeer = None THEN {} ELSE {Session(ctx.ispPeer, T.asn["isp"], "WAN", "ipv4")})

\* The BGP sessions of a switch of the fabric: the underlay, EVPN between the
\* loopbacks, and from a leaf to the WAN edge or to the firewalls
FabricSessions(T, n, items) ==
    LET other == IF T.role[n] = "spine" THEN T.asn["dc1_leaf"] ELSE T.asn["dc1_spine"]
        around == {item \in items : item.link.bypass}
    IN {Session(item.end.peerIp, other, None, "ipv4") : item \in items \ around}
       \cup {Session(lo, other, None, "evpn") : lo \in RenderContext(T, n).evpnPeers}
       \cup (IF T.role[n] # "leaf" THEN {}
             ELSE {Session(item.end.peerIp, T.asn["dc1_edge"], "PROD", "ipv4") : item \in around}
                  \cup (IF T.firewalls THEN {Session(T.gateway, T.asn["dc1_fw"], "PROD", "ipv4")} ELSE {}))

\* The sessions derive.py computes, for the contexts NetBox holds. The startup
\* configurations' templates compute neighbors of their own.
BgpNeighbors(T, n) ==
    LET ends == EndsAt(T, n)
        items == {item \in {ends[i] : i \in DOMAIN ends} :
                     IF T.firewalls THEN ~item.link.bypass ELSE PeerRole(T, item) # "firewall"}
    IN IF T.platform[n] = "c8000v" THEN RouterSessions(T, n, items)
       ELSE IF Fabric(T, n) THEN FabricSessions(T, n, items) ELSE {}

-----------------------------------------------------------------------------
(* What the derivation is for *)

Within(ip, prefix) == prefix.net <= ip /\ ip < prefix.net + 2 ^ (32 - prefix.len)

\* A session of x that its peer y has too: each names an address and the AS of
\* the other, in one address family, and an IPv4 session runs over an interface
\* of x that is in the session's VRF and on the neighbor's network.
Mirrored(T, x, s) ==
    \E y \in NodesOf(T) \ {x} :
        /\ \E row \in Interfaces(T, y) : row.ip = s.neighbor
        /\ RenderContext(T, y).asn = s.as
        /\ \E r \in BgpNeighbors(T, y) :
              /\ r.afi = s.afi /\ r.as = RenderContext(T, x).asn
              /\ \E row \in Interfaces(T, x) :
                    /\ row.ip = r.neighbor
                    /\ s.afi = "ipv4" => row.vrf = s.vrf /\ Within(s.neighbor, row.prefix)

\* The firewalls' ends are configured on the firewalls
ToFirewall(T, s) == s.as = T.asn["dc1_fw"]

Sessions(T) == UNION {{[at |-> n, session |-> s] : s \in BgpNeighbors(T, n)} :
                         n \in {n \in NodesOf(T) : T.platform[n] \in Managed}}
=============================================================================
