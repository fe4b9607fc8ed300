-------------------------------- MODULE Fib --------------------------------
(***************************************************************************)
(* What the daemon promises about the kernel's routes, without its routing *)
(* table: the kernel follows the set of candidates of each SPF run.  A     *)
(* destination whose best route did not change is left alone; one that has *)
(* a gateway is installed unless the kernel refuses it; one that has no    *)
(* route any more loses its entry of lowest metric unless the kernel       *)
(* refuses that.  A process that has a socket takes all routes with it but *)
(* the default route and what the kernel refuses to delete.                *)
(***************************************************************************)
EXTENDS RouteChoice

CONSTANTS Dest, Default, Route

VARIABLES
    offer,     \* offer[d]: the candidates of the last SPF run for d
    kernel,    \* the kernel's entries with proto 89
    running,   \* between start and the end of shutdown
    netlink,   \* the process has a Netlink socket
    refused    \* the destinations for which the kernel refused a call last

vars == <<offer, kernel, running, netlink, refused>>

Gateways(r) == IF r = NoRoute THEN {} ELSE r.hops \ {Direct}
Wanted(d, r) == [dest |-> d, metric |-> r.cost, hops |-> Gateways(r)]
At(K, d) == {e \in K : e.dest = d}

Init ==
    /\ offer = [d \in Dest |-> {}]
    /\ kernel = {} /\ running = TRUE /\ netlink = TRUE /\ refused = {}

(* What a run does for destination d, whose best route goes from r to s.   *)
Same(d) == At(kernel', d) = At(kernel, d)
Alone(d) == Same(d) /\ (d \in refused' <=> d \in refused)
Refused(d) == Same(d) /\ d \in refused'
Withdraw(d) ==
    /\ At(kernel', d) = {e \in At(kernel, d) : \E f \in At(kernel, d) : f.metric < e.metric}
    /\ d \notin refused'
Put(d, s) ==
    /\ At(kernel', d) = {e \in At(kernel, d) : e.metric # s.cost} \cup {Wanted(d, s)}
    /\ d \notin refused'

Step(d, r, s) ==
    CASE r = s -> Alone(d)
      [] r # s /\ s = NoRoute -> Withdraw(d) \/ Refused(d)
      [] r # s /\ Gateways(s) # {} -> Put(d, s) \/ Refused(d)
      [] OTHER -> Alone(d)

Sync ==
    /\ running /\ netlink
    /\ \A d \in Dest : offer'[d] \subseteq Route[d]
    /\ \A d \in Dest : Step(d, BestOf(offer[d]), BestOf(offer'[d]))
    /\ \A e \in kernel' : e.dest \in Dest
    /\ UNCHANGED <<running, netlink>>

Emptied(d) == At(kernel', d) = {} /\ d \notin refused'
Down ==
    /\ running /\ running' = FALSE
    /\ kernel' \subseteq kernel
    /\ netlink => Same(Default) /\ \A d \in Dest \ {Default} : Emptied(d) \/ d \in refused'
    /\ ~netlink => UNCHANGED <<kernel, refused>>
    /\ UNCHANGED <<offer, netlink>>

(* A new process knows nothing of the routes that it finds. *)
Up ==
    /\ running' = TRUE /\ netlink' \in BOOLEAN
    /\ offer' = [d \in Dest |-> {}] /\ refused' = {}
    /\ UNCHANGED kernel

Next == Sync \/ Down \/ Up

Spec == Init /\ [][Next]_vars
=============================================================================
