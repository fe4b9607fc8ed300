------------------------------- MODULE MCSpf -------------------------------
EXTENDS SegmentRouting

MCRouter == {1, 2, 3}
MCNet == {10}

Distinct == [v \in MCRouter \cup MCNet |-> v]

(* Router 2 is the DR of the network and its router ID is the address of   *)
(* its interface there.                                                    *)
DRById == [v \in MCRouter \cup MCNet |-> IF v = 10 THEN 2 ELSE v]

Links(p2p, transit) ==
    [e \in MCRouter \X (MCRouter \cup MCNet) |->
        IF e[2] \in MCRouter THEN p2p[e] ELSE transit[e[1]]]
P2P(M) ==
    {f \in [MCRouter \X MCRouter -> M \cup {NoLink}] : \A r \in MCRouter : f[r, r] = NoLink}

(* Any links between the routers, with the root on the network or not; the *)
(* LSA of a router or of the network may be missing.                       *)
All ==
    {[has |-> h, link |-> Links(p, t), attached |-> [n \in MCNet |-> a], near |-> MCRouter \cup MCNet] :
        h \in {S \in SUBSET Vertex : Root \in S /\ Cardinality(S) >= 3},
        p \in P2P({1, 2}),
        t \in {f \in [MCRouter -> {1, NoLink}] : f[3] = 1},
        a \in {{1, 3}, {2, 3}, {1, 2, 3}}}

(* Everyone on the network, as OSPF describes it, with or without links.   *)
Symmetric ==
    {[has |-> Vertex, link |-> Links(p, [r \in MCRouter |-> 1]),
      attached |-> [n \in MCNet |-> MCRouter], near |-> MCRouter \cup MCNet] :
        p \in {f \in P2P({1}) : \A r, s \in MCRouter : f[r, s] = f[s, r]}}

(* Links between the routers only, each as dear one way as the other.      *)
Mesh ==
    {[has |-> MCRouter, link |-> Links(p, [r \in MCRouter |-> NoLink]),
      attached |-> [n \in MCNet |-> {}], near |-> MCRouter] :
        p \in {f \in P2P({1, 2}) : \A r, s \in MCRouter : f[r, s] = f[s, r]}}

(* Destinations: a network behind routers 2 and 3, the transit network,    *)
(* networks of other areas and networks outside, two of which are also     *)
(* inside; ASBR 9 is in another area.                                      *)
MCPlace == 101..107
MCAsbr == {1, 2, 3, 9}
MCStub ==
    [r \in MCRouter |-> CASE r = 2 -> {[to |-> 101, metric |-> 1], [to |-> 104, metric |-> 3]}
                          [] r = 3 -> {[to |-> 101, metric |-> 2]}
                          [] OTHER -> {}]
MCPlaceOf == [n \in MCNet |-> 102]
MCInfinity == 9

Summary(f, d, m) == [from |-> f, to |-> d, metric |-> m, old |-> FALSE]
MCSummaries ==
    {Summary(2, 103, 2), Summary(3, 103, 1), Summary(1, 103, 1), Summary(3, 104, 1),
     Summary(2, 105, MCInfinity), [Summary(3, 105, 1) EXCEPT !.old = TRUE]}
MCAsbrSummaries == {Summary(2, 9, 3), Summary(3, 9, 2), Summary(2, 3, 1)}

ExternalLsa(f, d, m, two, fwd) ==
    [from |-> f, to |-> d, metric |-> m, two |-> two, forward |-> fwd, old |-> FALSE]
MCExternals ==
    {ExternalLsa(3, 103, 1, FALSE, 0), ExternalLsa(3, 105, 4, FALSE, 0), ExternalLsa(9, 105, 1, TRUE, 0),
     ExternalLsa(9, 106, 1, TRUE, 0), ExternalLsa(2, 106, 2, TRUE, 0),
     ExternalLsa(3, 107, 1, FALSE, 1000), ExternalLsa(2, 107, 1, FALSE, 0)}
Behind == {ExternalLsa(3, 107, 1, FALSE, 1001)}
(* The forwarding address 1000 is on the transit network, 1001 behind      *)
(* routers 2 and 3.                                                        *)
MCCovers == [a \in {1000, 1001} |-> IF a = 1000 THEN {102, 106} ELSE {101}]
MCLength == [d \in MCPlace |-> IF d = 106 THEN 8 ELSE 24]

(* Router 2 has another range of labels than the others; a router with two *)
(* prefixes, a SID beyond the range and an absolute one.                   *)
MCRouterInfo == [from : {1, 3}, start : {100}, size : {8}] \cup [from : {2}, start : {200}, size : {6}]
Sid(f, d, n, np) == [from |-> f, to |-> d, sid |-> n, absolute |-> FALSE, noPhp |-> np]
MCPrefixSids ==
    {Sid(2, 101, 2, TRUE), Sid(2, 104, 4, FALSE), Sid(3, 101, 3, TRUE), Sid(3, 106, 8, TRUE),
     Sid(1, 103, 1, FALSE), [Sid(3, 102, 900, TRUE) EXCEPT !.absolute = TRUE]}
=============================================================================
