--------------------------- MODULE SegmentRouting ---------------------------
(***************************************************************************)
(* Segment routing after an SPF run: what SrDatabase.rebuild collects of   *)
(* the Opaque LSAs of the area and the routes with a label that            *)
(* compute_sr_routes makes of it and of the tree.                          *)
(*                                                                         *)
(* One area; rebuild clears what it found in an area before.  It does not  *)
(* look at the age of an LSA.                                              *)
(***************************************************************************)
EXTENDS Extraction

CONSTANTS
    RouterInfo,   \* Router Information LSAs: the label range of a router
    PrefixSids    \* Extended Prefix LSAs: a prefix, its SID and its flags

ASSUME SegmentRoutingAssumption ==
    /\ RouterInfo \subseteq [from : Router, start : Nat, size : Nat]
    /\ \A i, j \in RouterInfo : i.from = j.from => i = j
    /\ PrefixSids \subseteq [from : Router, to : Place, sid : Nat, absolute : BOOLEAN, noPhp : BOOLEAN]

(* The label of a prefix: an absolute one, or an index into the range of   *)
(* the router that advertises the prefix, if that has one and it is large  *)
(* enough.                                                                 *)
LabelsUnchecked(s) ==   \* mutant: contains is not asked
    IF s.absolute THEN {s.sid} ELSE {i.start + s.sid : i \in {j \in RouterInfo : j.from = s.from}}
Labels(s) ==
    IF s.absolute THEN {s.sid}
    ELSE {i.start + s.sid : i \in {j \in RouterInfo : j.from = s.from /\ s.sid < j.size}}

(* Nothing for the root's own prefixes, which have no next hop if they     *)
(* have a label.  The label of the last hop is taken off only behind a     *)
(* router 0.0.0.0, of which there is none.                                 *)
SrRoutes ==
    UNION {{[from |-> s.from, to |-> s.to, dist |-> EntryOf(s).dist, hop |-> h, label |-> l] :
              h \in EntryOf(s).hops, l \in Labels(s)} :
            s \in {t \in PrefixSids : InTree(t.from) /\ (t.noPhp \/ EntryOf(t).v # Root)}}

-----------------------------------------------------------------------------
(* Properties.                                                             *)

(* The label of an SR route stands for its prefix at a router: it is the   *)
(* SID counted from the start of that router's range or, if absolute, the  *)
(* advertising router's own label.                                         *)
Understood(r, e) ==
    \E s \in PrefixSids :
       /\ s.from = e.from /\ s.to = e.to
       /\ IF s.absolute THEN r = e.from /\ e.label = s.sid
          ELSE \E i \in RouterInfo : i.from = r /\ s.sid < i.size /\ e.label = i.start + s.sid

RangeOf(r) == {<<i.start, i.size>> : i \in {j \in RouterInfo : j.from = r}}
ByIndex(e) == \A s \in PrefixSids : s.from = e.from /\ s.to = e.to => ~s.absolute

(* Whatever ranges the routers have: an SR route leaves by a router at     *)
(* which a shortest path to the advertising router starts and costs what   *)
(* the path costs; the advertising router understands its label, and so    *)
(* does the next hop if the two have the same range.                       *)
SrRoutesLead ==
    cand = {} =>
       LET D == [s \in Leads(lsdb, Root) |-> DistancesFrom(s)]
       IN \A e \in SrRoutes : e.hop # Direct =>
             /\ e.hop \in Leads(lsdb, Root)
             /\ Cost(lsdb, Root, e.hop) + D[e.hop][e.from] = e.dist
             /\ Understood(e.from, e)
             /\ ByIndex(e) /\ RangeOf(e.hop) = RangeOf(e.from) => Understood(e.hop, e)

(* "label = nexthop_srgb.start + prefix_sid.sid   # index into SRGB"       *)
(* (docs/segment-routing.md:78): the next hop understands the label.  Not  *)
(* so where it has another range than the router that advertises the       *)
(* prefix, whose range the code takes.                                     *)
NextHopUnderstands ==
    cand = {} => \A e \in SrRoutes : e.hop # Direct /\ ByIndex(e) => Understood(e.hop, e)

(* "if not prefix_sid.NP_flag and destination is one hop away: label =     *)
(* IMPLICIT_NULL" (docs/segment-routing.md).                               *)
ImplicitNull == 3
PenultimatePops ==
    cand = {} =>
       \A s \in PrefixSids : ~s.noPhp =>
          \A e \in SrRoutes : e.from = s.from /\ e.to = s.to /\ e.hop = s.from => e.label = ImplicitNull
=============================================================================
