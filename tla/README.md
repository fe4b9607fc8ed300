# Specifications of ospfd

TLA+ models of ospfd, the OSPF version 2 daemon in `src/ospfd/`, the TLC
configurations that check them, and proofs for the TLA+ proof system. File
names below are relative to `src/ospfd/` unless they begin with `docs/`.

## The system

ospfd is one process with one asyncio event loop. Every handler (a readable
raw socket, a timer, a debounced `call_later`) runs to its end before the next
one starts. There are no threads and no `await` inside the protocol code: an
interleaving is an interleaving of callbacks, of several routers and of the
network. Inside one callback handlers nest deeply: a Hello changes a
neighbour's state, which makes the interface run the DR election, which raises
`AdjOK?` on every neighbour, the first one included. Nothing is stored on disk
but the PID file; a crash loses all protocol state and leaves the kernel's
routes.

| Component | State | Operations | Talks to |
|---|---|---|---|
| `protocol/neighbor.py` `OspfNeighbor` | state, master flag, DD number, summary, request and retransmission lists, last DD sent and received, three timers | 13 events, DD/LSR/LSU/LSAck handlers, two retransmission timers | interface (`neighbor_state_changed`), database, flooding |
| `protocol/interface.py` `OspfInterface` | state, DR, BDR, neighbours, delayed acknowledgements, Hello and wait timers | 7 events, `process_hello`, `_send_hello`, `_flush_delayed_acks` | neighbours, election, socket |
| `protocol/dr_election.py` | none | `elect_dr_bdr`, two passes of `_run_election` | interface |
| `lsdb/database.py` `LinkStateDatabase` | LSAs by area, externals, last arrivals | `install`, `remove`, `lookup`, `compare_lsa` | everything |
| `lsdb/flooding.py` `FloodingEngine` | none of its own | `receive_lsu`, `flood_lsa`, acknowledgements | database, neighbours, SPF scheduling |
| `lsdb/origination.py` `LsaOriginator` | last originations | Router, Network, Summary and External LSAs, `refresh_lsa` | database, flooding |
| `lsdb/aging.py` | a timer | refresh and flush | database, origination |
| `spf/dijkstra.py` | none | `calculate` | database, interfaces |
| `spf/intra_area.py`, `inter_area.py`, `external.py` | none | candidates for routes | tree, database |
| `spf/routing_table.py`, `io/netlink.py` | `_routes`; the kernel's FIB | `update`, `sync_to_kernel`, install, remove, flush | kernel |
| `protocol/instance.py` | areas, pending SPF and originations | start, dispatch, `schedule_spf`, `_run_spf`, shutdown | everything |
| `util/timer.py` | a flag and a handle | start, stop, fire | event loop |
| `daemon.py` `OspfDaemon` | the PID file | start, signals, clean-up | instance |
| `sr/` | a view rebuilt after each SPF | segment routing | database, kernel |
| `packet/`, `io/raw_socket.py`, `config.py`, the rest of `util/` | none | codec, sockets, configuration | |

What is hard in it, and what makes each part correct:

- **Neighbours**: packets are lost, repeated, overtaken; the two ends restart
  and expire at different times. Correct when the ends agree who is master, a
  new exchange is not disturbed by the last one, nobody waits unarmed, Full
  means synchronised, and both become Full in the end.
- **Interfaces and election**: claims of several routers arrive one at a time,
  and each election may change what the handler around it is doing. Correct
  when nobody is DR and backup at once, adjacencies fit the roles, a DR yields
  only to a better claim, and all agree in the end.
- **Database**: copies arrive in any order, in several areas, and age while they
  are held. Correct when the most recent one is held.
- **Flooding**: loops in the topology, routers that hear each other only by
  way of the DR, acknowledgements that are delayed. Correct when adjacent
  routers never differ without an LSA under way, lists drain, databases
  converge and SPF follows.
- **Origination and scheduling**: changes come while an origination is pending,
  or right after one; SPF waits for a delay and a hold time; shutdown comes in
  the middle of it all. Correct when every change is reported in the end, SPF is
  neither early nor late, and nothing runs after the shutdown.
- **Routes**: only differences between two runs are pushed. Correct when the
  kernel has what the table has, and nothing more.
- **Daemon**: a process that crashes leaves its PID file and its routes. Correct
  when one process at a time pushes routes and the last one leaves none that the
  kernel lets go.
- **SPF**: lazy deletion from a heap; two kinds of vertex in one dict. Correct
  when distances are shortest, next hops start shortest paths, and every
  reachable vertex is found; and when the routes made of the tree have the cost
  of the shortest path, and a labelled packet is understood where it arrives.

The full list, with the line at which each hazard bites, is under `hazards` in
`PROJECT.json`.

## The modules

| Module | Models |
|---|---|
| `Adjacency` | two `OspfNeighbor` objects at the ends of a link, the packets between them, the part of the databases they synchronise |
| `AdjacencyProofs` | invariance proofs for `Adjacency` |
| `Lan` | the `OspfInterface` objects on a broadcast network, Hellos, the DR election |
| `LanProofs` | invariance proofs for `Lan` |
| `LsaOrder` | `compare_lsa` |
| `Lsdb` | the partitions of the database: `install`, `remove`, ageing, the shared arrival times |
| `LsdbProofs` | invariance proofs for `Lsdb` |
| `Flooding` | the `FloodingEngine`, database and lists of all routers of an area, acknowledgements, the pending SPF run |
| `FloodingProofs` | invariance proofs for `Flooding` |
| `Timers` | `PeriodicTimer` and `OneShotTimer` as operators on a flag and a number of handles |
| `Instance` | one `OspfInstance`: start, shutdown, SPF scheduling, origination of its Router and Network LSAs, all timers |
| `InstanceProofs` | invariance proofs for `Instance` |
| `Spf` | `DijkstraEngine.calculate`, one vertex at a time |
| `Extraction` | `spf/intra_area.py`, `inter_area.py` and `external.py` on the finished tree (extends `Spf`) |
| `SegmentRouting` | `SrDatabase.rebuild` and `compute_sr_routes` on the finished tree (extends `Extraction`) |
| `SpfProofs` | proofs for `Spf`, `Extraction` and `SegmentRouting` |
| `RouteChoice` | `OspfRoute.is_better_than` and the merge of candidates in `update`, with a reference definition |
| `RouteChoiceProofs` | what folds of `Merge` compute; used by `SpfProofs` and `DaemonProofs` |
| `Routes` | `OspfRoutingTable` and the kernel entries behind `NetlinkManager` |
| `Fib` | abstract specification: what the kernel is to hold, without a table |
| `Daemon` | the processes that run `OspfDaemon`, one after another or at once, and their PID file (extends `Routes`) |
| `DaemonProofs` | invariance and refinement proofs for `Routes` and `Daemon` |
| `MCAdjacency`, `MCLan`, `MCLsdb`, `MCFlooding`, `MCInstance`, `MCRoutes`, `MCSpf` | the small instances for TLC |

An operator marked `mutant` is a wrong version of the one below it. It is used
nowhere; putting it in the place of the right one is how each property was
tested to be able to fail.

### How code becomes actions

*A callback is an action.* In `Adjacency` and `Lan` a handler is an operator
from one value of an object to the next, and nested handlers are nested
operators: `ReceiveHello` of `Adjacency` applies `HelloReceived`, then
`TwoWayReceived` or `OneWay`, then the elections that they cause. The packets
that a callback sends are collected in the field `out` and leave with the
action. A Python exception in a handler ends that handler only
(`_receive_packet` catches it); the one that the models reach is `struct.pack`
refusing a DD number that does not fit (`SendBatch`).

*LSAs are numbers.* `Adjacency` and `Flooding` take an instance as a number and
"more recent" as "larger". `LsaOrder` and `Lsdb` justify this: sequence number
and checksum order instances totally, for every width, and this is proved
(lemmas `AheadIsNewer` and `NotAheadTransitive`). Ages stay in `Lsdb`.

*The layers.* `Adjacency` is the inside of one adjacency, `Lan` sees of a
neighbour only whether it is adjacent, `Flooding` sees of an adjacency only that
it comes up after each side got what the other described (`Connect`) and that it
goes down (`Drop`). `Connect` is less than what `Adjacency` does: two Full ends were
told what the other listed (`SameExchange`, but for a repeated initial DD), and
what they were told they hold, except for requests that an update struck without
answering them (`NothingForgotten`). `Flooding` takes the exchange to be free of
both exceptions, which are in *Other promises* below.
`Instance` sees of an interface its state, its DR and its Full neighbours, and
lets them go from any value that `Lan` and `Adjacency` allow to any other
(`Possible`, `Moves`). `Routes` takes any lists of candidates, `Extraction`
makes candidates out of the tree of `Spf` and compares with `RouteChoice` what
the table makes of them. `Daemon` runs `Routes` in processes.

*The abstract specification.* `Fib` knows the candidates of each SPF run and the
kernel's entries. It says for each destination, by its best route before and
after the run (`BestOf`, defined on the set of candidates, without an order),
whether its entries are left alone, withdrawn or replaced. `Routes` implements it
with `offer` mapped to `offered`, the sets of the candidates in its lists. The
kernel may refuse any call, those of the flush included, and a process whose
`init_netlink` failed has nothing to flush with; `Fib` says that whatever is then
left over was refused in this very shutdown. `RoutesSafety` checks the refinement
for all processes of `Daemon`.

*Time.* `Instance` keeps no clock: a pending call is the number of seconds left
of it, and a past event the number of seconds since, up to the number that
matters. So its state space is finite without a bound on time.

*Histories.* `told`, `listed`, `struck` and `twice` in `Adjacency`, `considered`
in `Lsdb`, `mine`, `dirty` and `lost` in `Flooding`, `excused` and `dirtyFor` in
`Instance`, `offered` and `refused` in `Routes` are not in the code. They remember
what a property has to speak about and no guard reads them.

*External parts.* The network (`Lose`, `Duplicate`, `Reorder`, `LoseHello`), the
death of a process (`Crash`), the operator who removes a PID file (`CleanUp`)
and the clock (`Tick`) are not code of the repository. The kernel's part of `Routes` follows the way `netlink.py` uses it:
entries are keyed by destination and priority, and a delete without a priority
takes the first one.

## The runs

Passing runs, all without a depth limit:

| Run | Instance | Shows |
|---|---|---|
| `AdjacencySafety` | broadcast link with elections at any time, 2 LSAs that both change, one header per packet, old and new copies, updates refused by MinLSArrival, 4 faults of seven kinds | `TypeOK`, `OneMaster`, `AdjacencyMatchesElection`, `NothingLeftBehind`, `NobodyWaitsUnarmed`, `NothingForgotten`, `SameExchange`, `NeverOlder` |
| `AdjacencyLiveness` | point-to-point, 2 faults but no loss, LSAs refused by MinLSArrival, fairness | `EventuallyFull` |
| `LanRoles` | 3 routers, one with the higher priority, which may die and join again; 2 faults, fairness | `TypeOK`, `RolesDistinct`, `AdjacenciesFit`, `DRYields`, `EventuallyAgreed` |
| `LsdbSafety` | 2 areas with the same 2 keys, room for one LSA each, 4 copies, 2-bit sequence numbers, 4 seconds | `TypeOK`, `HeldIsNewest`, `AgeIsBehind` |
| `FloodingFaults` | line of 3, 2 of restart, dead interval, loss, repetition, refusal by MinLSArrival, fairness | `TypeOK`, `NoGap`, `RoutesFollow`, `ListsDrain`, `AlikeUnlessLost`, `NoStepBack` |
| `FloodingLan` | network of 4 with DR and backup, one originates, fairness | `EventuallyAlike` |
| `InstanceSafety` | 2 areas, a broadcast and a passive interface (whose socket may fail), restarts, own LSAs that return | `TypeOK`, `SpfInTime`, `LsasDescribe`, `QuietAfterShutdown` |
| `RoutesSafety` | the default route and another destination, up to 3 of 8 candidates, a kernel that refuses any call, 2 processes that crash or have no socket | `TypeOK`, `BestWins`, `Installed`, `NothingLeft`, `OneDaemon`, refinement of `Fib` (`RefinesFib`) |
| `SpfTree` | databases of 3 routers and a network, links in one direction and missing LSAs included; 7 destinations, 6 summaries, 3 ASBR summaries, 7 externals, 6 prefix SIDs, label ranges that differ | `TypeOK`, `TreeIsShortest`, `NextHopsLead`, `ReachesAll`, `RoutesAreShortest`, `SrRoutesLead` |

What the properties of these modules say:

- `NothingForgotten`: what the peer described is asked for until an update names
  it, through lost and repeated requests, LSAs learnt elsewhere, exchanges broken
  off, restarts. A Full neighbour that lacks an LSA lost it in one way only: an
  update named the LSA and did not bring what was asked for, or a late
  description of an older instance took the place of the request. That this way
  is open is in *Other promises* (`FullMeansSynchronised`).
- `SameExchange`: of two Full ends the master is one number ahead, and each was
  told all that the other listed when this exchange began; but for
  behaviours in which an initial DD was repeated by the network, or retransmitted
  into a link that still held DDs.
- `NoGap`, `ListsDrain`, `AlikeUnlessLost`: flooding leaves no difference between
  adjacent routers without an LSA on its way, empties its lists and makes the
  databases equal, in every behaviour up to the first update that is lost or
  refused. What happens after one is `FloodingLost`.
- `SpfInTime`: no run of SPF before `spf_hold` is over, and no LSA waits longer
  than the larger of `spf_delay` and `spf_hold`, whatever arrives meanwhile.
- `LsasDescribe`: the Router LSA of an area for which no origination is pending
  has the links that its interfaces have now, and the Network LSA of a DR its
  Full neighbours, whatever came while an origination was pending. Three cases,
  in which the code fails, are excepted by the history `excused`: an attempt was
  refused (`InstanceFrozen`), an election changed the DR only (`LinksScheduled`),
  a neighbour sent another instance of the LSA.
- `QuietAfterShutdown`: after the shutdown no call is pending and the event loop
  has no handle of a timer. It depends on the invariant in `TypeOK` that a timer
  never has two handles, because `stop` takes the last one only.
- `RoutesAreShortest`: from LSAs to table. The reference goes by distances in
  the graph of LSAs and by the order of section 16 of the RFC, and uses neither
  the tree nor the lists.
- `Installed`, `NothingLeft`, `RefinesFib`: of every destination but those for
  which the kernel refused the last call, the entry of the table's route is in the
  kernel while the process runs, and none is after the shutdown of a process that
  had its socket; the default route is the exception that the code makes.
- `SrRoutesLead`: the next hop of an SR route starts a shortest path, and its
  label is one that the router which advertises the prefix takes for it; so does
  the next hop if it has the same range. Ranges differ in the run.
- `OneDaemon`: one process at a time, and the file names it until it has
  withdrawn its routes.

Runs in which the code does not do what a comment or a document says; each
checks that one sentence and TLC shows how it fails:

| Run | Property | What happens |
|---|---|---|
| `FloodingLost` | `EventuallyAlike` | nothing retransmits the retransmission list, so one lost LSU is never made good |
| `InstanceFrozen` | `LsaFollows` | the attempt to report a new adjacency comes within MinLSInterval of the first Router LSA and is dropped, though it is logged as deferred; later ones find the sequence number after `INITIAL_SEQ_NUM` above `MAX_SEQ_NUM`. The Router LSA never names the neighbour |
| `SrRanges` | `NextHopUnderstands` | `docs/segment-routing.md:78` takes the label from the range of the next hop, `_compute_outgoing_label` (`sr/spf.py:95`) from that of the destination: where the two differ, the next hop does not know the label |

### Other promises that the code breaks

These properties are defined next to the others and fail in small instances.
They have no run of their own; to see one, take the configuration named, change
the constants and check the property alone (`ExchangeEnds`, `DRKept`,
`EventuallyAlike` and `OwnLsaPrevails` as PROPERTY, the others as INVARIANT).

| Property | Configuration and constants | What happens |
|---|---|---|
| `FullMeansSynchronised` | `AdjacencySafety` as it is; or with `PointToPoint = TRUE` and no faults | an LSA refused by MinLSArrival leaves the request list, and the neighbour becomes Full without it |
| `FullMeansSynchronised` | `AdjacencySafety`, `PointToPoint = TRUE`, `Burst = FALSE`, `Key <- OneKey`, `InitDb <- OneHeld`, `OwnKey <- OneOwner`, `Feed <- OneFeed`, `Fault = {"reorder", "expire"}`, `MaxFaults = 5`; or `{"duplicate", "expire"}` and 4 | an update of an exchange that was broken off arrives in the next one, whose description promised a newer instance: it strikes the request, and the older instance is all there is |
| `FullMeansSynchronised` | the same with `Feed <- BothFeed`, `MaxInst = 3`, `Fault = {"restart", "lose"}`, `MaxFaults = 2` | the peer restarts during Loading and answers with an older instance than it had described before |
| `SameExchange` without `~twice` | `AdjacencySafety`, `PointToPoint = TRUE`, `MaxInst = 3`, `Fault = {"slow", "lose"}`, `MaxFaults = 3` | the initial DD is retransmitted while its first copy is still on the way. The second copy makes the slave begin again with the same number, with another database by now, and the master takes answers of both lives for one exchange: it was told something that the slave did not list |
| `ExchangeEnds` | `AdjacencyLiveness`, `Burst = FALSE`, `Fault = {"lose"}`, `MaxFaults = 1` | one DD lost in Exchange: the only timer that repeats DDs was stopped when ExStart ended ("Retransmit DD packet (ExStart/Exchange).", `neighbor.py:595`), and both ends stay in Exchange for ever |
| `ExchangeEnds` | the same with `InitSeq = {100}`, `Collisions = TRUE`, no faults | the random first DD number is the largest: the next one cannot be packed |
| `DRKept` | `LanRoles`, `Router <- MCPair`, `Priority <- EqualPair`, `AtStart = {1, 2}`, no faults | two routers start together, one becomes DR and gives the role up to the other |
| `YoungerWins` | `LsdbSafety`, `Wire <- Again` | `compare_lsa` compares the age at the last transmission, not the current one |
| `RefusedForOwnArrival` | `LsdbSafety` | an LSA that arrives in one area makes `install` refuse newer instances of the same key in another area |
| `ListedUntilKnown` | `FloodingLost` | an acknowledgement of an older instance removes the entry of the newer |
| `EventuallyAlike` | `FloodingLan`, `Router = {1, 2, 3}`, `On <- LanOn`, `Key = {8, 9}`, `Border = {3}`, `MaxRxmt = 1` | one full list keeps an LSA from the other neighbours of the network |
| `NoGap` without `~lost` | `FloodingFaults`, `Fault = {"lose"}` or `{"refuse"}` | an LSU that is lost or refused by MinLSArrival leaves a difference that nothing will close |
| `NoGap` | `FloodingLan`, `Router = {1, 2, 3}`, `On <- LanOn`, `Key = {8, 9}`, `Border = {3}`, `MaxRxmt = 1` | a full list leaves a difference as well; on a link a full list takes the adjacency down and leaves no difference behind |
| `NoGap` | `FloodingLan`, `Fault = {"restart"}`, `MaxFaults = 1` | a late update of a router's former life brings the backup an LSA that the DR does not have; only a DR repeats what it receives (`flooding.py:216`), and nobody tells the DR |
| `OwnLsaPrevails` | `FloodingFaults`, `Key = {2}`, `Fault = {"restart"}`, `MaxFaults = 1` | after a restart the LSA of the former life stays: a router cannot originate a larger sequence number |
| `InstallSchedules` | `FloodingFaults`, `Key = {2}`, no faults | an own LSA is installed without scheduling SPF |
| `LinksScheduled` | `InstanceSafety`, one area `{1}`, `Intf <- LanIntf`, `AreaOf <- LanAreaOf`, `Near <- LanNear`, `Passive = {}`, `MayFail = {}` | an election that changes only the DR schedules nothing, and the Router LSA goes on naming the old one |
| `NetworkLsaByDR` | the same | a router that is DR no longer keeps its Network LSA; nothing flushes it |
| `OneEntry` | `RoutesSafety`, `Route <- Costs`, `Most = 1`, `Refusals = FALSE` | a new cost leaves the old kernel entry |
| `NoStrayEntry` | `RoutesSafety`, `Route <- Moving`, `Refusals = FALSE` | a route that becomes connected leaves its gateway in the kernel |
| `AllFlushed` | `RoutesSafety` | `flush_ospf_routes` is to "Remove all OSPF-installed routes" (`io/netlink.py:168`); the default route has no RTA_DST and survives it |
| `FileGoesToo` | `RoutesSafety` | a process that is killed leaves its PID file, and the next one exits, though `ospfd.service` says `Restart=on-failure` |
| `OneDaemon` | `RoutesSafety`, `WriteFails = TRUE` | a PID file that cannot be created is logged and nothing more; two processes push routes |
| `DirectIsConnected` | `SpfTree`, `Lsdbs <- Symmetric` | everything behind a broadcast network has the next hop 0.0.0.0, which `_convert_nexthops` skips as "Connected route — no gateway needed" (`routing_table.py:155`), and is not installed |
| `EqualCostPaths` | `SpfTree`, `Lsdbs <- Mesh` | only one of two equal paths gives next hops |
| `LinksBothWays` | `SpfTree` | a link is used that the other router does not confirm |
| `ReachesAll`, `TreeIsShortest` | `SpfTree`, `IdOf <- DRById`, `Lsdbs <- Symmetric` | a router ID equal to a DR's address hides one of the two vertices |
| `ExternalsHaveHops` | `SpfTree` | an external route by way of an ASBR in another area has no next hops ("simplified", `external.py:88`), and is not installed |
| `RoutesAreShortest` | `SpfTree`, `Externals <- Behind` | a forwarding address behind two routers takes the first route to it, not the shorter one |
| `PenultimatePops` | `SpfTree` | no label is ever popped before the last hop: the test asks for a parent 0.0.0.0 |

### Bounds, and why they are enough

- *Faults* (`MaxFaults`): four in `AdjacencySafety`, because an election has to
  take an adjacency away and give it back with packets of the first one still
  under way; two with fairness, for any pair of kinds (repeated then overtaken,
  restarted then expired). A Hello exchange renews the state of an adjacency, so
  that longer chains of faults mostly repeat states that shorter ones reached.
  Where this was not so, the property was restated until it could be proved
  without the bound: `SameExchange` and `NothingForgotten` name the behaviours in
  which the code fails, instead of counting on a run too short for them.
- *LSAs and instances* (`Key`, `MaxInst`): with two LSAs and one header per
  packet the exchange has several packets in each direction, and each of missing,
  older, same and newer occurs. Flooding of different LSAs does not interact
  but in the size of a list (`MaxRxmt`), which these instances do not fill. Both
  routers of `AdjacencySafety` may have a new instance of their own LSA once, at
  any time. The return and the flush of an own LSA in `Flooding` (`TakeNewer` with
  `k = r`) is in no run; `NoStepBack` is proved for it.
- *DD numbers* (`InitSeq`, `Span`, `MaxDDSeq`): seven first numbers, `Span`
  (ten) apart; an exchange of two LSAs takes five at most. A callback draws one
  that is not near those alive in the link (`Fresh`; `Collisions = FALSE`: of
  2^31 random numbers two near each other are as good as impossible). If none is
  left it draws any, near or not, so that the runs also have a few behaviours in
  which numbers meet; with ten numbers there are none (`NumbersLeft`, below).
  `InitSeq = {100}` puts the first number at the top of the range.
- *Routers*: three on a network is the least with DR, backup and another; four
  in `FloodingLan`, so that two of them are neither; three in a line is the
  least in which an LSA is flooded on and its acknowledgement is not the end.
- *Time* in `Lsdb` runs to `MaxTime`, past `MaxAge`, with the constants reduced
  but in the same order as in `const.py`. `Instance` has no bound on time; its
  constants keep the order delay < hold and debounce < MinLSInterval of the code.
- *Areas*: two in `Lsdb`, so that keys, arrival times and sizes of one meet those
  of another, with room for one LSA in each; two in `Instance`, because the
  second one's Router LSA is held back by the first one's. An own LSA that
  returns has a sequence number up to `LastSeq`: `InitialSeq`, as no router can
  originate a larger one; the proof has no such bound.
- *Processes*: two, for the second may start, be refused or find what the first
  left. Two
  destinations, the default route and another one, because the flush treats them
  differently; `update` and the kernel treat each alone, and the proofs are for
  any number.
- *LSAs of `SpfTree`*: each kind of Summary and External LSA that a check of the
  code tells apart occurs once: at infinity, of age MaxAge, own, of an
  unreachable router, of a destination that is also inside, by way of an ASBR in
  the area, outside it and in both, types 1 and 2, with forwarding addresses; a
  SID inside and beyond the range and an absolute one; of three routers one has
  another label range, start and size, than the others.
- `Overlap` in `Lan` is one: one router's Hello is delivered to all before
  another one sends. Hellos take milliseconds and are ten seconds apart.
- A retransmission finds the link quiet, unless the fault `slow` is spent:
  RxmtInterval is five seconds.

### Fairness

The event loop serves every readable socket and every timer that is due, so
packets are received and timers fire with weak fairness, and with strong
fairness where a timer is re-armed again and again while others run (Hello and
retransmission timers). Nothing is assumed of faults, of routers that have not
started, of LSAs from outside. In `Lan` the fairness of a callback that ends
its own enabling condition is written as "the condition does not last for ever"
(`[]<>~WaitOver`), which says the same and is faster to check. In `Instance` the
clock goes on and a call that is due is made (weak fairness of `Tick`, `RunSpf`
and `Attempt`); changes of interfaces and restarts may stop, and `LsaFollows`
asks for nothing unless they do. The runs `AdjacencySafety`,
`InstanceSafety`, `LsdbSafety`, `RoutesSafety` and `SpfTree` check safety only
and need none.

Deadlock is checked except in `Flooding`, where a quiet network has nothing to
do, in `Spf`, where a calculation ends, and in `InstanceFrozen`.

## The proofs

`tlapm` checks the eight proof modules from nothing in about ten minutes. They
hold for every value of the constants that the named assumptions allow.

**AdjacencyProofs.** Proved for any set of LSAs, any numbers and kinds of
faults, both types of link: `TypeOK`, `OneMaster`, `NothingLeftBehind`,
`NobodyWaitsUnarmed`, `AdjacencyMatchesElection`, `NeverOlder`. None of these is
inductive alone: a neighbour in ExStart must be known to be armed before it can
be known that it is armed after an election in the middle of a Hello. The
inductive invariant `IInv` is `TypeOK`, and for each neighbour object `Sound`
(type, role by router ID, nothing left, armed) and `StateMatchesElection`. It
says nothing of the channels beyond their type, which is the reason why the
properties survive loss, repetition and reordering. There is one lemma for each
handler of the state machine, one for each callback that nests them, and the
step lemma `NextIInv` puts them together. `NeverOlder` is an action property
and follows from the type invariant and `DbStep`.

`NothingForgotten` (theorem `NothingForgottenAlways`) has no hypothesis: it holds
for any faults, restarts and refusals. Its invariant `HoldInv`, on top of `IInv`,
is one predicate on an end and its database (`Holding`): what an end was told it
holds (`Held`), or it is on its request list in that or a newer instance, or it
was struck from the list (`Asked`). A Full end has an empty list by `IInv`. There
is a lemma for each handler that says what it keeps of this, and it needs nothing
of the packets under way: the request list is the only memory of what is still
missing, and the proof is that no handler loses an entry silently, that of
`_process_dd_headers` (`ProcessHeadersHolding`) and that of `process_ls_update`
(`ProcessLSUpdateHolding`) above all. The stronger `FullMeansSynchronised`, without
`struck`, fails in the very run that checks the rest (*Other promises*).

`SameExchange` (theorem `SameExchangeAlways`) relates the two objects to each
other and to every DD between them. It holds under `Distinct`, a condition on the
constants, and as long as `NumbersLeft` does:

- first numbers do not collide and are at least `Span` apart, and the number of
  LSAs plus three is at most `Span`. A number then says which exchange a packet
  or an object is in (`Of`, lemma `OneBlock`). The code does not compare first
  numbers; it draws them out of 2^31 (`os.urandom`);
- no other fault is excluded: packets may be lost, late, repeated and overtaken,
  neighbours may expire, routers restart, elections come and go, LSAs change and
  MinLSArrival refuse what it likes. What the code cannot do is tell a repeated
  initial DD from a new one. The history `twice` is set when an initial DD is
  repeated by the network, or retransmitted while DDs are in the link, and the
  property says nothing of such a behaviour from then on; without this exception
  it fails, see *Other promises*. Any other DD may be in the link twice;
- `NumbersLeft`, a hypothesis on the behaviour: in every state there is a first
  number to draw, far from those alive in the link, and even a second one.
  Exchanges that are broken off do not pile up: TLC finds `NumbersLeft` invariant
  of `AdjacencySafety` with `InitSeq = {10, 20, ..., 100}` and `MaxDDSeq = 120`, and,
  under `Distinct`, with `PointToPoint = TRUE`, the first nine of these numbers,
  `Feed <- OneFeed`, `Burst = FALSE`,
  `Fault = {"lose", "reorder", "expire", "restart"}` and `MaxFaults = 2`. To prove
  it from the constants takes a bound on the packets in the channels, which the
  code does not state; there are 2^31 numbers.

The inductive invariant `ExchInv` is about the master's object, the slave's, and
the two sets of DDs under way (`Exch`); the order of the packets does not matter.
An object's number is as far from the start of its exchange as batches have left
its list (`MasterFit`, `SlaveFit`), which keeps an exchange within `Span`. As long
as an initial DD is under way nothing else of its exchange is (`CallsFirst`); a
master in ExStart was answered once or not at all (`MasterWaits`); a slave in
another exchange than the master is still at its first number (`SlaveBehind`), so
that the two cannot both become Full; an end's packets are not ahead of it
(`AnswersInOrder`, `PollsInOrder`). And in one exchange the master is one poll
ahead of the slave (`MasterAhead`) or level with it, the answer to come
(`MasterLevel`): in either case what one end was told is what the other listed
and has sent. For two Full ends this is `SameExchange` (`FullSame`). The lemmas
`SlaveStarts`, `SlaveGoes`, `MasterStarts` and `MasterGoes` are the four moves of
an exchange, about records and sets only; `SlaveDraws`, `MasterDraws` begin one,
`SlaveLeaves`, `MasterLeaves` end it, `Shrink` loses packets. `Fine` carries `Exch`
through the handlers that a callback nests, with the packets emitted so far and
the numbers not yet used; `ExchFrame` ends the callback.

**LsdbProofs.** `TypeOK`, `HeldIsNewest` and `AgeIsBehind`, for every width of
the sequence number, any areas and keys, every set of copies on the wire and any
time bound.
`HeldIsNewest` rests on two lemmas about the order: an instance ahead in
sequence number and checksum compares as newer whatever the ages
(`AheadIsNewer`), and "not ahead" is transitive (`NotAheadTransitive`); so an
age that `serialize` writes does not matter. `AgeIsBehind` needs that no
installation lies in the future (`Past`), which is the fourth part of `IInv`.

**InstanceProofs.** `TypeOK`, `SpfInTime`, `LsasDescribe` and
`QuietAfterShutdown`, for any areas and interfaces, any delays and intervals and
any sequence numbers. `IInv` is the conjunction of the four and `PeriodicIdle`: a
periodic timer whose flag is not set has no handle. Without it a `stop` could leave a handle behind, and neither the
bound on handles in `TypeOK` nor `QuietAfterShutdown` would be inductive. The operators of `Timers` keep `Sound` (one lemma each), and each action has a lemma
of its own. `LsasDescribe` relates the interfaces to the LSAs in the database,
which three different callbacks change: a change schedules what it touches, so
what has nothing pending was not touched since its last attempt, and an attempt
that was not refused wrote what the interfaces have.

**FloodingProofs.** `TypeOK`, `RoutesFollow` and `NoStepBack` for any topology,
any faults and bounds. `TypeOK` includes that no retransmission list outlives
its adjacency, `RoutesFollow` is inductive with it. Each handler has a lemma that
says what it may do to a router's record (`KeepsDb`, `Onward`), the loops over
interfaces and neighbours are unions of sets, and so no loop needs an induction.

`NoGap` (theorem `NothingMissing`) speaks of a behaviour until its first update
is lost or refused (`lost`, which lemma `LostForGood` says is never reset). It
holds under `Delivers`, a condition on the constants: every segment is either a
point-to-point link, with restarts, dead intervals, repetitions, flushed LSAs and
lists of any length; or a broadcast network of any size, with dead intervals and
repetitions, on which nobody restarts or flushes an LSA of its own and the lists
have room for all LSAs.
The inductive invariant `GapInv` adds to the types: packets and adjacencies are
where the topology has them (`InPlace`); the sender of a packet still has what
it sent, as long as the adjacency stands (`Backed`), for otherwise an
acknowledgement could stand for something lost; the ends of a link, and the DR,
have sent what they have to whom they are adjacent to (`Tells`); and what any
router of a network has is known to the DR, coming to it, or held by a router
that is about to become adjacent to it (`ReachesChief`). `Deed` sums up what a
callback can do about one LSA, and one lemma shows that a deed keeps `GapInv`.
The conditions are not for convenience: with each of them lifted TLC finds a gap
(see *Other promises*; on a network also the flush of an own LSA that comes back
over another link). So the theorem also says where
flooding without retransmission is sound and where it is not.

**LanProofs.** `TypeOK`, `RolesDistinct`, `AdjacenciesFit` and `DRYields`, for
any number of routers and priorities, any Hellos, faults and crashes. `Sound` is
a predicate on one interface: the two roles differ, the adjacencies are those
that the roles call for, and a router in state DR holds itself for DR and is
eligible (`Elected`). It does not mention other routers, as every claim may be
out of date. The two passes of `elect_dr_bdr` rest on the lemma that a finite
set of routers has a best one, by induction over finite sets.

**RouteChoiceProofs.** `BestOfList`: merging candidates one at a time by
`is_better_than` gives the best of the set with the next hops of all that are
as good, for lists of any length and in any order. A candidate is `Proper` if
only a type 2 external has an external metric. `Merged(Q, r)` is the loop
invariant: r has the rank of one of Q, none of Q is below it, and it has exactly
the next hops of those of its rank. The lemmas `FoldsAgree` and `FoldExists`
show that the recursive function inside the community modules' folds exists.

**DaemonProofs.** `Installed` for any candidates, destinations and processes,
from the shape of the kernel's entries and the fact that a destination whose
route did not change is left alone, whatever `Best` is; `NothingLeft`, without a
hypothesis, for any deletes that fail: the flush makes one call for each entry
that has an address, each takes the entry of lowest metric, and so as many calls
as entries leave none, unless one was refused; `OneDaemon`, under the hypothesis that the PID file can be created, which it
needs as well: the file names every process that is not gone (`Named`),
and so there is one. With `BestOfList` also `TypeOK` of `Routes`, `BestWins`,
and the refinement `RefinesFib`: the initial states are initial states of `Fib`,
a run of SPF is its `Sync` with the set of candidates in the place of the lists,
the end of a process its `Down`, whether the flush succeeds, fails in part or is
skipped for want of a socket, the start of a process its `Up`, and every other
step leaves what `Fib` sees unchanged.

**SpfProofs.** For every database, any routers, networks and metrics: `TypeOK`
of `Spf` without a hypothesis, and under `OneKeyEach` (no two vertices have the
same key, see `ReachesAll` with `DRById` above for what happens otherwise)
`TreeIsShortest`, `ReachesAll` and `NextHopsLead`. The invariant `SInv` has a
part for each half of Dijkstra's argument. No shorter: what is in the tree has
been explored, every link out of it leads to a vertex of the tree or to a
candidate that is no dearer than that (`Explored`), and no candidate is nearer
than anything in the tree (`Frontier`); so a walk that leaves the tree is at
least as long as the nearest candidate (`NoShorterWalk`). No longer: every
distance in the tree and among the candidates is the length of a walk of at most
as many links as the tree has vertices (`Walked`), and every next hop that of a
walk which begins with it (`HopsWalked`). The reference counts walks of less
than `Cardinality(Vertex)` links, hence the bound in these two parts.

`RoutesAreShortest` (theorem `RoutesAreRight`) takes that from the tree to the
routing table: what is in the sets of `Extraction` is compared with the
reference class by class (`IntraSound` and `IntraComplete`, the same for `Inter`
and `Inside`), a way to an ASBR or to a forwarding address has the cost of
`WayCosts`, and `TableRouteIs` says what the table makes of a finite set of
candidates. Its hypothesis `OneWay` says that the routes by which a forwarding
address may be reached have one cost; otherwise the code takes the first of a
list, and the property fails (`Behind` above). `SrRoutesLead` (theorem
`SrRoutesAreRight`) follows from `NextHopsLead`, for any label ranges, missing
ones included. That the next hop understands the label, whatever its range, is
not a theorem but `NextHopUnderstands`, which `SrRanges` refutes. TLC confirms that
the instance of `SpfTree` satisfies both hypotheses.

*Induction.* The library's induction theorems have an operator as a parameter,
which the installed provers cannot instantiate. Where a proof needs induction it
takes the set of those numbers, or finite sets, for which something holds, and
shows by well-foundedness (`WFMin`) that nothing is left out (`Induction`,
`SetInduction`). That a recursive function exists is shown by hand in the same
way. RECURSIVE operators would still be out of reach; there are none.

**Only model-checked.** Everything under fairness (`EventuallyFull`,
`EventuallyAgreed`, `EventuallyAlike`, `AlikeUnlessLost`, `ListsDrain`): liveness is out of the
prover's reach. Every safety invariant and every action property
that a run checks has a theorem. `NumbersLeft`, a hypothesis of one of them, is
neither proved nor checked by a run of its own.

## What is not modelled

- **Ageing** (`lsdb/aging.py`). `LsaAgingManager.__init__` passes
  `instance.loop` as the first argument of `PeriodicTimer`. `OspfInstance` has
  no attribute `loop` and the timer's first parameter is the interval, so that
  the constructor raises AttributeError, and with it `OspfInstance(config)`,
  outside of the `try` of `_run_event_loop`: the process ends and its PID file
  stays. There is no behaviour of it to model. The other models describe the
  handlers as they are written, as if the constructor returned.
  (`_flush_maxage_lsa` would fail as well: it reads `.key` of the keys of a
  dict.) Consequently LSAs of age MaxAge appear only as received ones (`Flushed`
  in `Flooding`), and no LSA is ever refreshed but when a newer copy returns.
- **Summary, ASBR summary and external LSAs of this router**: no code calls
  `originate_summary_lsa`, `originate_asbr_summary_lsa` or
  `originate_external_lsa`; an area border router announces nothing between
  areas, although `docs/configuration.md:140` says that it does.
- **Reload**: `docs/operations.md:85` says "SIGHUP triggers a config reload";
  `_handle_reload` logs "config reload not yet implemented".
- **Attempt and NBMA polling**: no code raises the event Start. P2MP links.
- **Several areas in SPF**: `_run_spf` runs Dijkstra and extraction area by area
  and concatenates the lists; `Spf`, `Extraction` and `SegmentRouting` have one.
  In segment routing `rebuild` clears what it found in the area before, so that
  with several areas only the last one has labels.
- **Segment routing beyond the calculation**: the router's own opaque LSAs,
  originated once at the start, with the same Node-SID index for all interfaces;
  the kernel's MPLS routes, one per prefix under protocol 88, which
  `install_sr_routes` replaces with the last next hop and nothing ever removes.
- **Limits**: after 128 router IDs an interface ignores every new router, for
  none leaves the dict of neighbours (`interface.py:324`); multicast membership.
- **Parallel links** between the same two routers in `Spf`.
- **Codec, authentication, sockets, configuration, logging**: parsing and system
  calls.

## Plan

Done: `Adjacency`, `Lan`, `LsaOrder`, `Lsdb` with areas, `Flooding`, `Timers`,
`Instance`, `Spf`, `Extraction`, `SegmentRouting`, `RouteChoice`, `Routes`,
`Fib`, `Daemon`; proofs of every safety property that a run checks.

1. `NumbersLeft` from a bound on the packets that one callback may cause.
2. Several areas in `Spf`, `Extraction` and `SegmentRouting`.
3. Roles that change in `Flooding` (`Chief` and `Deputy` as state), composed with
   the election of `Lan`.
4. The kernel's MPLS routes, beside the entries of `Routes`.
5. An adjacency as a replicated database that becomes equal on `Connect`,
   implemented by `Adjacency`.

All the runs together take about a quarter of an hour; a new question should
take the place of one that another run also answers, or extend its instance.
