# A TLA+ model of teleskop

teleskop is the agent that runs on every compute node of lovi-cloud. This
directory holds TLA+ modules that model its core, configurations that check
them with TLC, and proofs about them that TLAPS checks.

## The system

One process. At start it looks up its interface, dials libvirt and the
datastore, runs a boot sequence (`setup.go`), then serves three servers side by
side: gRPC for the controller, DHCP for the guests, metadata (HTTP) for the
guests. It keeps no state of its own. Everything it knows is in libvirt
(networks, domains), in the kernel (links, bridge ports, addresses, the filter
table) or in the remote datastore, and it survives the process.

| Component | Source | State it works on | Operations |
|---|---|---|---|
| Security groups | `iptables.go` | filter table | SetupDefaultSecurityGroup, AddSecurityGroup (GetIPTables is empty) |
| Bridges | `bridge.go` | libvirt networks, veth pairs, bridge ports | AddBridge, DeleteBridge, AddInterfaceToBridge, DeleteInterfaceFromBridge, GetInterfaceName |
| VLAN links | `vlan.go` | links | AddVLANInterface, DeleteVLANInterface |
| NUMA topology | `cpu.go` | `/sys/devices/system/node` | GetLocalNUMANodes, ParseNodeList |
| Boot sequence | `setup.go`, `main.go:185` | calls Bridges, VLAN links, NUMA; registers with the datastore | setup |
| Daemons | `main.go:163` | three servers under an errgroup, the process under systemd | run |
| Virtual machines | `virtual_machine.go`, `util.go` | libvirt domains and their devices | Add, Start, Stop, Delete, attach and detach of block devices and interfaces, two queries |
| Block devices | `block_device.go`, `iqn.go` | iSCSI sessions, through osbrick | Connect, Disconnect, GetISCSIQualifiedName |
| DHCP server | `dhcp/dhcpd.go` | none; leases come from the datastore | one receive loop |
| Metadata server | `metadata/metadata.go` | none; names come from the datastore | GET handlers |
| gRPC stubs | `protoc/agent/agent.pb.go` | | generated |
| Examples | `example/` | | clients: VLAN link, bridge, port, security group setup; then a machine |

What makes it hard:

- **Interleaving.** gRPC runs each request in its own goroutine and no lock
  protects any handler. What interleaves are single calls: an iptables command,
  a libvirt call, a netlink call.
- **Partial failure.** A handler is a sequence of calls without undo (bridges,
  VLAN links, machines) or with an undo that is wider than what was done
  (security groups clear whole shared chains). Clients retry.
- **Idempotence by lookup.** AddBridge, AddVLANInterface and
  AddInterfaceToBridge answer "done" when the object is there, complete or not.
  SetupDefaultSecurityGroup and AddSecurityGroup do the opposite: an existing
  chain is an error.
- **Restart and reboot.** systemd restarts the process (the unit file of the
  repository's README has Restart=always) while kernel and libvirt keep their state. A reboot loses the kernel's part and keeps libvirt's.
- **Time and loss.** Calls to libvirt, netlink, iptables and, from the DHCP
  server, to the datastore have no deadline. A client that loses its connection
  does not stop its handler. DHCP packets are lost, late and repeated.
- **State read before use.** The flags of an attach are chosen from a state that
  was asked for in an earlier call; a lease is looked up before it is answered;
  a guest is known by an address the datastore may have given away since.
- **Order.** The meaning of a filter table is the order of its rules, and rules
  of several links are inserted into shared chains.

What makes each component correct:

- *Security groups*: a granted link keeps exactly its rules; the shared chains
  keep their order; a guest cannot use another's address or answer DHCP; honest
  traffic passes; a request ends in a granted link.
- *Bridges and VLAN links*: what runs is complete or an error was reported; a
  port belongs to a bridge that runs; no half made network is left behind; a
  requested bridge comes up.
- *NUMA topology*: the registered pairs are the cores of the node, once each.
- *Boot and daemons*: the agent serves only on a wired node and comes up after
  crashes and reboots, unless a network is stuck or an error comes back at every
  start; guests get addresses as long as the DHCP server lives.
- *Virtual machines*: what was reported attached is in the configuration and in
  the running guest; nobody is told twice that he added a machine.
- *Guests' services*: a guest gets its own address and its own host name.
- *Clients*: reruns do not mix, a machine is started only after its own
  AddSecurityGroup succeeded, every run ends that gets past its dial.

## Modules

| Module | What it is |
|---|---|
| `SecurityGroup` | `iptables.go`: both handlers, one action per iptables command |
| `LinkGrants` | abstract: links handed out by a lock |
| `SecurityGroupGrants` | the mapping by which `SecurityGroup` implements `LinkGrants` |
| `SecurityGroupProofs` | theorems about `SecurityGroup` and the mapping |
| `SecurityGroupTraffic` | what that filter table does to packets |
| `SecurityGroupTrafficProofs` | theorems about it |
| `Bridge` | `bridge.go` and `vlan.go`: six handlers, one action per libvirt or netlink call |
| `BridgeProofs` | theorems about `Bridge` |
| `Boot` | `main.go` and `setup.go` up to serving; extends `Bridge`, whose handlers it calls |
| `BootProofs` | theorems about `Boot` |
| `NumaNodes` | `cpu.go`: the loop over the nodes and the parser, run on the kernel's cpulist |
| `NumaNodesProofs` | theorems about `NumaNodes` |
| `VirtualMachine` | `virtual_machine.go`, `util.go`, `block_device.go`: twelve handlers, one action per libvirt call |
| `VirtualMachineProofs` | theorems about `VirtualMachine` |
| `GuestServices` | `dhcpd.go`, `metadata.go` and the guests and the datastore they work for |
| `Daemons` | the end of `run` in `main.go`; extends `GuestServices` |
| `DaemonsProofs` | theorems about `Daemons` and `GuestServices` |
| `Clients` | the programs under `example/` and the calls of `agent.pb.go` they make |
| `ClientsProofs` | theorems about `Clients` |
| `MC*` | instances of these for TLC; `Clients` needs none |

Definitions that end in `_something` are variants of the definition after them,
each with one plausible mistake. Nothing uses them; they are there to see that
every property fails when the code goes wrong.

### SecurityGroup

The filter table is a set of chains, `exists`, and the rules of each, `rules`. A
chain is a pair of its fixed part and the link it is for; a rule keeps what it
matches and where it goes. `handler[h]` says which function of `setupFunctions`
or `addFunctions` goroutine `h` is in and what its next command is. `granted`,
`setupDone` and `wiped` record what clients were told and which shared chains an
error path has cleared.

One action is one command with everything the handler does up to the next:

- `SetupNewChain`, `SetupCheckRule`, `SetupAppend`: `setupChain` and the two
  commands of `AppendUnique`, for the four functions in turn;
- `AddNewChain`, `AddInsert`: `setupChain` and `Insert` at position i+1, for the
  six functions in turn;
- `ClearChain`, `DeleteChain`: the error path of a failed `Insert`, whose own
  errors the code drops. ClearChain creates a chain that is not there, as
  iptables' client library does;
- `AgentRestart`: the process dies with all its goroutines; the kernel keeps the
  table.

`setupChainSucceeds`, `CanInsert` and `CanDeleteChain` are the kernel's
conditions: a new chain must not exist; a rule goes at most one past the end of
an existing chain and jumps to an existing one; a deleted chain must be empty
and not referenced. With `Faults`, any command may fail for other reasons.
`SetupFirst` is the order the example client and the boot of a node use: clients
wait for the setup. A reboot, which empties the table and starts over, is not
an action.

A chain name never reaches `maxChainNameLength`: iptables takes link names of at
most 15 characters and the prefixes have 10. So two links never share a chain.

### LinkGrants and SecurityGroupGrants

`LinkGrants` is what AddSecurityGroup promises without a word about chains: a
link is taken by one goroutine (`Take`), which alone can grant it (`Grant`) or
give it up (`GiveUp`); what it does not free is orphaned and never taken again;
when the agent dies, every link that is taken is orphaned. The mapping: the
owners of a link are the goroutines past the NewChain of its source chain
(`Owns`), and it is orphaned when that chain is there without owner or grant
(`Orphan`). So the source chain is the lock, which no line of the code says.

### SecurityGroupTraffic

`Fate` is the kernel's traversal. `Answer` is what one rule says of a packet,
`Through` what a whole chain does: the answer of the first rule that does not let
the packet go on, or actionRETURN, which in a built-in chain leaves it to the
policy. An answer to a jump needs what becomes of the packet in the target, so
`Walked` computes all chains from all chains one jump further on, and `Fate`
applies it four times. Four is enough since the tables of the handlers only jump
down and at most four times: that is `JumpsGoDown`, checked and proved for every
reachable table. A packet has the ports it comes from and goes to, an owner of
its source address pair, a class and whether its connection is known. Bridged packets enter FORWARD, packets for the node itself
enter INPUT; `physdev --physdev-is-bridged` matches only the former.

### Bridge

`net[b]` is what libvirt knows of the network of bridge b, `veth[b]` what holds
of its DHCP interface pair (exists, enslaved, addressed, both ends up),
`vlan[v]` and `master[v]` the same for VLAN links and their bridge. A busy
handler is at one of `Calls`; `held` are the handles it looked up. A handle is
on an object, not on a name: when the object goes, `Stale` drops it from every
handler, so a later call through it fails even if a new object has the name.

`Possible(h)` is the condition under which the next call of h can succeed;
`OnError` is where the code goes when it does not, which is not always an error:
a failed lookup means "not there" to AddBridge and DeleteBridge, and
deleteTeleskopInterfaceIfExists swallows what goes wrong before it has its pair.
`failed` collects the objects for which some client saw an error or a broken
connection.

`Serial` restricts clients to one request per object at a time. `NodeReboot`
empties the kernel's part and leaves every defined network inactive, since no
code asks libvirt for autostart.

One metadata address per bridge and one parent interface are enough: handlers
never look at another's. DestroyNetwork is the only way to stop a network;
libvirt would also undefine a running one, but no handler gets there with the
network running.

`Fail(h)` is the error return of any call. `Bridge` lets it happen under
`Faults`; `Boot` counts it. The same holds for `AgentDies` and `NodeGoesDown`.

### Boot

`pc` is the place in `run` and `setup`, `Program` the calls in order, `Timed`
those that are given the context of three seconds. At `"bridges"` the goroutine
`Main` is in the loop of `setup`: `turn` is the place of its bridge in the list,
`made` the number of requests made for it. `RequestNext` makes the next one of
`RequestsFor`, which runs through the handler of `Bridge` call by call, on
whatever state the node is in; `NextBridge` is the `continue` of an internal
bridge and the end of the loop's body. An
error ends the process (`Exit`), and systemd's Restart=always is `Start`. Once
it serves, clients send requests to the same handlers. A context that ends
between two calls (`Expire`) is noticed at the next call of `Timed` only: no
handler of bridge.go or vlan.go looks at it.

Some errors are not faults that pass but come back at every start: no IPv4
address on the listen interface (`main.go:204`), a metadata CIDR that does not
parse (`bridge.go:48`), a VLAN link the kernel refuses, cores that ParseNodeList
cannot read (`cpu.go:49`, see `NumaNodes`), a datastore that never answers in time.
Such a condition is a `barrier` at a `place` of the program: no start gets past it.
It may be there from the first state or come and go (`Change`, counted as a
fault). A place is a step of `Program` and, in the loop, a request of a bridge; a
request that is refused has changed nothing. An error that leaves something
behind, as any later call of AddBridge does, is no barrier: the next start finds
the network and goes on, which `HandlerFails` covers.

### VirtualMachine

libvirt keeps a configuration of a machine (`persistent`, `config`) and, while
it runs, a guest (`live`); a machine without configuration ends with its guest.
`handler[h]` holds the request, the next call, the flags it has chosen and
whether its UUID is still that of a machine (`uuid`, see `Stale`): libvirt makes
a new UUID with every definition, so a request never works on a machine made
anew under the old name. `CanModify` says when a device can be changed in the
places the flags name; the qemu driver refuses the flag `force`, so a device
request for a suspended machine fails. `SaveFails` is libvirt's partial failure,
guest changed and configuration not. `AddVirtualMachine` goes through the calls
of AttachBlockDevice when there is a boot device.

`promised`, `told` and `unsaved` record what clients were told and the guests
libvirt could not save. `StartAlone` restricts clients: nobody starts a machine
while its devices are being changed. Without it `AttachedDevicesInGuest` and
`GuestMatchesConfig` fail: the state is read as shut off, the machine starts, the
device reaches the configuration only, and the attach is reported as done.

### GuestServices and Daemons

`sent` holds all packets ever sent: receiving from it models delay, repetition
and, by not receiving, loss. The server's loop is at its receive, in the lookup,
at its answer, or hung in a lookup that does not return. `Kind` says what the
other fields of the lease of an address may be: usable, malformed (makeResponse
returns an error) or not IPv4 (it panics). `Reassign` gives guests other
addresses, also one another's. `addressless` are the guests whose bridge has no DHCP
interface with an IPv4 address: an internal bridge has no such interface, and the
loop skips the packets (no fairness for them); on the others AddBridge takes an IPv6
metadata CIDR too, and one that broke off has set no address, and makeResponse fails
before it looks at the lease. It is chosen in the first state. `SendFails` is an answer that could not be
sent, `HostnameFails` a datastore that cannot be asked. `HostnameOf` is the datastore's lookup by address,
and the guest learns the answer once per boot.

`Daemons` adds the process: servers end alone or together (`ServersEnd`), `Wait`
returns when the last has ended, a panic ends all at once. `Start` is a start that
came through its setup; that it does is not assumed (module `Boot`).

### Clients

A program dials first, and the dial waits for an agent that serves (`SetupClient`)
or ends with an error. `agent` says whether it serves; when that is again after a
restart is up to module `Boot`. A connection that was lost between two calls is made
again by gRPC, or the next call fails (`Unavailable`).

`made` keeps for each call of a program whether what it makes is not there, half
made or made, which is what the detailed modules tell of it: a failed
AddVLANInterface leaves a link that the next one takes for whole (`Adopting`), a
failed AddSecurityGroup leaves chains that refuse the next one (`OrphanedForever`).
`maker` is the attempt whose call made it. AddSecurityGroup may succeed or fail
whatever became of a setup: all it needs are the shared chains, which are not kept
here (`MayMiss`). `Refused` is the AddBridge of setup_compute_node, see below.
`calls` are the calls on their way to the agent, in a handler, or on their way back;
when a connection breaks, the client is told and the handler runs on, or a packet is
lost and the client waits for its keepalive. `unaware` are the programs that a reboot
met just before their last call. Reruns are by an operator, after the program has
ended.

### NumaNodes

Each run starts from a distribution of cores over nodes; `cpulist` prints it the
way the kernel does (maximal runs, ascending) and `ParseNodeList` reads it.
`LogicalLoop` keeps the two pointers of `NewNode` as pointers, because both may
end up on the loop variable. `MaxUint32` is any bound at least as large as the
core ids.

## Runs

| Run | Question | Bounds |
|---|---|---|
| `sg_safety` | what holds of the filter table under overlap, failure, restart, and does it implement `LinkGrants` | 2 links, 2 goroutines, setup at any time |
| `sg_live` | does every request end in a granted link | 2 links, 2 goroutines, no failures, setup first |
| `sg_traffic` | what happens to packets in every reachable table | 2 links, 2 goroutines, failures, setup first |
| `sg_wiped`, `sg_to_node` | disagreements, see below | 2 links, 1 goroutine |
| `bridge_faults` | failures, restarts, reboots | an external and an internal bridge, a link, 2 goroutines, one request per object at a time |
| `bridge_overlap` | overlapping requests | 1 bridge, 1 link, 3 goroutines, no failures |
| `boot` | does the agent come up, and on which node does it serve | an internal and two external bridges, 2 links, 4 places for a barrier, 2 faults, 2 requests of a client |
| `vm` | what is in a guest, under overlap, failure, restart, reboot | 1 machine, 1 disk, 1 link, 2 goroutines |
| `daemons` | which address and name guests get, and do they get one | 2 guests (one boots twice and may lack an address on its interface), 3 addresses, 1 change of leases, 1 fault |
| `clients` | reruns of programs whose calls may outlive them | the node, 1 machine, 2 runs of each program, 3 faults |
| `numa` | is the machine registered as it is | 7 cores over 2 nodes |

Why the bounds are enough: two links and two goroutines give duplicates of one
request, requests for different links in the shared chains, and a setup against
a request. The safety properties of every passing run are proved for any
instance (see below), under the modes the runs have; the bounds matter for
liveness, and so that the interesting cases happen at all when a mutant or a
strengthening is tried. The packet properties relate two guests at a time, in
tables that start from a finished setup. Three goroutines on one bridge give a delete between two adds and an add between two
deletes. In `boot` two faults make a start fail in the middle and a node reboot
before or after it, and two client requests delete a bridge and make it again or
move a link; the second external bridge is there so that the first can be
complete when the start breaks off. The barriers stand before the loop, at the first
and at a later request of external bridges, and after the loop. Requests for different machines meet nowhere
in libvirt, so one machine is enough in `vm`, and two goroutines let any request
come between two calls of any other; there is no bound on time or faults. In
`daemons` two guests are needed for an address that changes hands, the third
address carries the unusable leases, and a second boot lets packets of the first
arrive late; the fault ends servers, makes a lookup fail or hang, an answer stay
unsent, or the process crash; one guest without an address on its interface is
enough to see that the other is served. Machines share nothing in `clients` but the node. Seven cores give one,
two and more runs per node, equal and unequal, offline cores and empty nodes.

Symmetry is used over goroutines only, and not in runs with liveness
properties. Deadlock is checked except where the system may stop: NUMA nodes
(the function returns), `boot` (a node that serves without requests), `daemons`
(all guests bound) and `clients` (all programs ended).

**What the passing runs show.** `GrantedChainsIntact`, `AcceptIsLast` and
`HooksUnique` hold although nothing is locked: the refusal of a second
`NewChain` is the lock, a jump is inserted in front of whatever the security
group chain holds, and the hook of INPUT belongs to the setup that created the
first chain. `AcceptIsLast` ends where an error path clears the security group
chain: with a setup about to append ACCEPT, one AddSecurityGroup that fails and
clears, and a second one between its two inserts, the second jump lands behind
ACCEPT. That takes three goroutines, so the property excludes it by name. `OrphanedForever` is the price: a request that breaks
off after its first function leaves a link that no retry can ever grant.
The traffic properties hold as long as the chains they need were not
cleared; `SpoofedSourceDropped` and `RogueDhcpDropped` need callisto-FORWARD
only. `RunningBridgeServesDhcp` and `VlanUpUnlessReported` say that an
incomplete bridge or link was reported once; retries then hide it.
`NeverLeftInactive` and `StuckForever` belong together: without failing calls
no network is left inactive, and one that is stays so.

`RunningBridgeServesDhcp` needs `Serial`: when a DeleteBridge overlaps the next
AddBridge of the same name, it may delete the DHCP pair the new bridge has just
brought up.

`ServingNodeIsWired` is the point of a boot sequence that can be repeated: it
makes no state of its own and serves only after every request was answered,
whichever earlier start, client or reboot did the work. What it does not say is
that the link is a port of *that* bridge or that the DHCP interface is up; a
half made bridge of an earlier start passes as made. `AgentComesUp` names the two ways in which the agent
never comes up again. One is a barrier, which nothing the agent does has made and
nothing it does removes: a single bad CIDR in the datastore is enough. The other
may be of its own making, an external bridge whose network is defined and not
running, which is what a reboot leaves of every bridge: AddBridge finds the
network, the kernel has no such link, AddInterfaceToBridge fails, at every
start. An operator has to start or undefine the network by hand.

`AttachedDevicesInGuest` and `GuestMatchesConfig` hold through every
interleaving but the start of a machine (`StartAlone`): a machine that stops
between the two calls makes the flag `live` an error, and one made anew has
another UUID. `NoNameAddedTwice` holds though AddVirtualMachine can be overtaken
by a delete and another AddVirtualMachine: the first one's boot device is then
refused.

`GuestsGetAddresses` also has its exceptions in it: the guest's lease does not
become usable, its bridge has no DHCP interface with an IPv4 address, the process no longer comes up,
or the DHCP server ended or hangs while another server lives on, so that `Wait` does
not return and systemd does not restart the agent. A panic is better off: it ends the process, and the next
one serves the other guests.

`StartedMachineWasGranted` and `OneRunPerMachine` hold because AddVirtualMachine
and AddSecurityGroup refuse what is there. The price is that a rerun never
completes a machine that was left half made. `StartedMachineWasGranted` is about the
link's own chains and about how the programs use the agent. It does not say that
the machine's packets meet them: a setup that failed at its last command, or a failed
AddSecurityGroup for another link, leaves shared chains without the jumps
(`sg_wiped`), and the programs do not see it. Its exception is a reboot between the
last two calls: the machine stays defined, the chains are gone, StartVirtualMachine
asks for neither. `EveryRunEnds` has the dial as its exception: it has no deadline.

**Disagreements.** The runs marked *violation* each check one statement of the
source that the code does not keep:

- `SpoofedSourceAlwaysDropped` (`iptables.go:201`): a failed `Insert` for one
  link clears callisto-FORWARD (`iptables.go:304`) and with it the filtering of
  every link.
- `SpoofedSourceToNodeDropped` (`iptables.go:299`): addINPUTRules works on
  callisto-FORWARD (`iptables.go:297`), callisto-INPUT stays empty.

Smaller ones, which the modules follow the code in and no run is about:

- setup_compute_node asks for an external bridge without a metadata CIDR
  (`example/setup_compute_node/main.go:49`), which AddBridge refuses every time
  (`bridge.go:48`), so the program never gets to its last two calls;
- the rule before the fallback of an output chain returns everything
  (`iptables.go:259`), so the next rule and its comment are dead;
- a port of any bridge counts as added (`bridge.go:121`), against the comment
  below it;
- both bounds of the logical cores point to the loop variable (`cpu.go:145`), so
  LogicalCoreMin is the last core, against `cpu_test.go:21`;
  `cpu_test.go:88-97` wants a cpulist of one part to be an error, and the code
  accepts it.

## Fairness

`FairSpec` of `SecurityGroup` assumes weak fairness of `Work(h)` for each
goroutine: the Go scheduler runs every runnable goroutine, and an iptables
command returns. No fairness is assumed of clients, failures or restarts. The
liveness run has no failures, because nothing in the code retries.

`BootSpec`: the process and its requests go on, and systemd starts it
(Restart=always). This assumes that calls to libvirt and netlink return; a start
in which one hangs does not come up, and no deadline would end it. A call that is
not at a barrier succeeds in the end, one at a barrier never does. Faults and client requests are bounded, so "after the last fault" is where liveness speaks.

`Daemons!Fairness`: nothing makes a start succeed. `Wait` returns and a panic ends the
process; the loop goes on after a lookup that
returned (a lookup may also hang, which is a fault), a guest receives what was
sent to it. Strong fairness of `Receive(Retransmitted(g))`: the guest sends its
last packet again and again, the server keeps coming back to its receive, and the
network does not lose all of them. Nothing makes a guest boot or the datastore
change.

`Clients!Fairness`: handlers return, replies that are not lost arrive, and pings
fail on a dead connection. Nothing makes an operator run a program or the agent
serve.

## Proofs

`SecurityGroupProofs` proves, for any links and goroutines and for every value
of the mode flags:

- `TypeCorrect`: `Spec => []TypeOK`;
- `Orphans`: `Spec => OrphanedForever`, an action property, from `TypeOK`: the
  only step past a source chain that exists is by the goroutine that made it;
- `GrantedLinksIntact`: `Spec => []GrantedChainsIntact`. The property says
  nothing of chains under construction, so it is not inductive. `LinkInv` adds
  who owns a link's chains: no rules in a chain that does not exist
  (`NoStrayRules`), one goroutine at most past the NewChain of a link and none
  for a granted one (`OwnerAlone`), and what that owner has built so far, rule
  by rule (`OwnerBuilds`);
- `HooksOnce`: `Spec => []HooksUnique`. `HookInv` adds that one setup at most is
  past its first function (`SetupAlone`) and that a setup which has yet to hook
  a chain finds no hook there (`HooksAhead`);
- `AcceptStaysLast`: `Spec => []AcceptIsLast`. `AcceptInv` adds that a setup
  before its AppendUnique of ACCEPT finds no ACCEPT rule (`AcceptAhead`) and
  that whoever is between the two inserts of addSGRules has a jump in the chain
  in front of any ACCEPT (`JumpInFront`), so that the next position is not
  behind it.

They rest on `ModeAssumption` alone. The strengthenings were checked with TLC
on the constants of `sg_safety` before they were proved.

`SecurityGroupTrafficProofs` proves, for any links and goroutines:

- `NoLoops`: `Spec => []JumpsGoDown`, with or without a setup first. A chain
  holds nothing but rules of the tables for it (`RulesFromTables`);
- `SpoofedSourcesDropped`, `RogueDhcpServersDropped`, `UnmatchedDropped` and
  `HonestAccepted`: if clients wait for the setup (`SetupFirst`), the four packet
  properties of `sg_traffic`.

The packet properties speak of what a table does, not of what is in it, and the
proof has two halves. First, what is in it: `TrafficInv` has the links' own
chains from `LinkInv`, the order around ACCEPT from `AcceptInv`, and of the shared
chains that nothing but rules of the tables gets in and that the rules of a
goroutine which has got past them are there, behind whatever else came since
(`SetupRulesThere`, `AddRulesThere`), as long as the chain was not wiped.
`SetupFirst` is needed: without it an AddSecurityGroup between two steps of a
setup can wipe the security group chain, and the setup then appends its ACCEPT
to an empty chain and reports success. Second, what that does to a packet.
`FirstAnswer` is the walk through one chain, from the least element of the set of
rules that stop a packet, and `StoppedBy` says that a packet gets no further
than to a rule known to stop it. In the shared chains the place of a rule is not
known, so the lemmas say of each rule that may come before it either that it
lets the packet go on or that it says the same (`GoesOnTo`). They rest on
`ModeAssumption` and `PortsAssumption`. The parts of `TrafficInv` were checked with
TLC on the constants of `sg_traffic` first.

`SecurityGroupProofs` also proves `ImplementsLinkGrants`: `Spec =>
HandsOutLinksLikeALock`, which is `Grants!Spec`. From `LinkInv`, every command
maps to a step of `LinkGrants` or to none: a goroutine becomes an owner only by
the NewChain of addSOURCESGRules on a free link (`Takes`), an owner that goes on
changes nothing (`OwnerWorks`), one that stops was granted the link or gave it up
(`LetsGo`), and what belongs to no command of a goroutine stays (`OtherLinks`).

`ClientsProofs` proves, for any machines and bounds, `TypeCorrect`,
`StartedAreGranted` and `MachinesHaveOneRun` from one inductive invariant,
`IInv`. It adds that what is being made has its call's attempt as maker
(`MakersKnown`), without which two calls could finish one thing; that a program
about to call has no call under way and none is of an attempt to come
(`ProgramsBegin`, `NoCallAhead`); that calls after the first belong to the maker of
the machine (`CallsOfMaker`); and that a call to start a machine was sent when its
chains were there, or its program is `unaware` (`GrantedFirst`).
They rest on `BoundAssumption` and `NamesAssumption`.

`BridgeProofs` proves, for any bridges, links and handlers and any mix of
requests:

- `TypeCorrect`: `Spec => []TypeOK`;
- `PortsHaveBridges`: `Spec => []PortsOfRunningBridges`. The property is not
  inductive: SetLinkMaster enslaves a link through two handles without looking
  whether bridge and link are still there. `LiveHandles` supplies that a handle
  which has not gone stale is on a running bridge or an existing link, and
  `OwnCalls` that a handler is at a call of its own request and so has a bridge
  or link to hold. The inductive invariant is `PortsInv`;
- `StuckNetworks`: `Spec => StuckForever`, an action property, from `TypeOK`
  alone: only DefineNetwork and DestroyNetwork put a handler in a position to
  start or undefine a network, and neither succeeds on an inactive one;
- `NothingLeftInactive`: if calls do not fail, `Spec => []NeverLeftInactive`.
  The strengthening `Drivers` says that a network that does not run has one
  handler, and only one, that is about to start or undefine it through a live
  handle.

And, for what no request has reported an error for:

- `VlanUp`: `Spec => []VlanUpUnlessReported`, however requests overlap. The
  property says nothing while a handler is on the link; `LinksTended` adds that a
  link which is down and unreported has a handler at its LinkSetUp or LinkDel;
- `RunningServesDhcp`: if clients wait for a request about a bridge before the
  next (`Serial`), `Spec => []RunningBridgeServesDhcp`, with failing calls,
  restarts and reboots. `ReportInv` adds that a bridge has one handler (`Alone`),
  that DeleteBridge has stopped the bridge before it touches the DHCP interface
  (`StoppedFirst`), and that a running bridge without its interface has an
  AddBridge under way which has built what its next call presupposes
  (`BridgesTended`). `Promise` is what each call does to its own bridge, and
  `StepReport` that this is enough for all of them. `Serial` is needed: see
  the hazard of a DeleteBridge that overlaps the next AddBridge.

`LinksTended` and `ReportInv` were checked with TLC on the constants of the two
bridge runs first; `ReportInv` only where requests are serial.

All rest on the assumptions of `Bridge`: bridges and links have different names,
and the mode flags are Booleans.

`BootProofs` proves, for any list of bridges, any handlers and any number of
faults and requests:

- `TypeCorrectBoot` and `ServesWired`: `BootSpec => []BootTypeOK` and `BootSpec =>
  ServingNodeIsWired`, an action property. `BootInv` adds that the main goroutine
  is at a call of the request that the loop made last (`MainServes`), that
  what AddInterfaceToBridge has found stays there, since nobody else works on
  the node before it serves (`MainFound`), that a bridge whose last request went
  well is wired (`LastWentWell`), and that the bridges the loop has left behind
  stay so (`WiredSoFar`). None of the handlers that setup calls takes a link or a
  running bridge away (`KeepsWiring`);
- `StuckThroughStarts` and `PortsThroughStarts`: `BootSpec => StuckForever` and
  `BootSpec => []PortsOfRunningBridges`. A step of `Boot` is for the node a step
  of a handler, a failing call, or the end of the process (`BootSteps`), and the
  theorems of `BridgeProofs` are about every such step.

Where the barriers stand makes no difference to them. They rest on `MainAssumption`,
`ListAssumption`, `BoundAssumption` and the assumptions of `Bridge`. The parts of `BootInv` were checked with TLC on the
constants of `boot` first.

`VirtualMachineProofs` proves, for any machines, devices and handlers:

- `TypeCorrect`: `Spec => []TypeOK`, with `OwnCalls`, which says that a handler is
  at a call of its own request and names a machine and a device when it needs
  them. `Moves` is what every step of a handler leaves of the others;
- `AddedOnce`: `Spec => NoNameAddedTwice`, an action property. `OneAdder` adds
  that a machine has one handler of AddVirtualMachine at most that holds its UUID,
  and that nobody was told of the machine yet;
- `AttachedStays` and `GuestsMatchConfig`: if clients keep starts and changes of
  devices apart (`StartAlone`), `Spec => []AttachedDevicesInGuest` and
  `Spec => []GuestMatchesConfig`. Neither is inductive: `FlagsKnown` says that a
  handler which is to change the configuration alone has a machine that does
  not run, although the state was read some calls ago; `Apart` that nobody is
  starting it meanwhile; `DetachedNotPromised` that an attach does not promise
  what another handler is detaching.

They rest on `DevicesAssumption`. `OwnCalls`, `OneAdder` and the parts of
`DevicesInv` were checked with TLC on the constants of `vm` first.

`DaemonsProofs` proves, for any guests, addresses, leases and bounds,
`TypeCorrect`, `BoundToOwn` (`DaemonsSpec => []BoundToOwnAddress`) and `ToldOwn`
(`DaemonsSpec => []ToldOwnHostname`) from one inductive invariant, `IInv`. It adds
that no packet is of an exchange its guest has yet to begin (`ExchangesBegun`),
and that what the loop has looked up (`LookedUpInExchange`) and what is in an
Ack that may still arrive (`GrantedInExchange`) is, for the guest's current
exchange, its address as it is now: an address that was read before a change is
only ever granted to a guest that moved. No fairness is used. They rest on the
assumptions of `GuestServices`.

`NumaNodesProofs` proves, for any cores and any distribution of them over any
number of nodes, `CoresPairedOnce` (`Spec => []EveryCoreInOnePair`) and
`PhysicalRangesExact` (`Spec => []PhysicalRangeExact`). The invariant `NodesRead`
says that each node read so far is what the parser makes of its cpulist, and
`ReadRight` that this is right if it is no error. The rest is about the data:
every core is in a run (`InARun`), runs have a gap between them (`RunsApart`) and
are finitely many, so a cpulist of one or two parts is known part by part
(`OneRun`, `TwoRuns`) and the parser refuses every other. `MinOfRun` and `MaxOfRun`
are about the loops, which are recursive functions: a function that satisfies
the equation exists, and none has a first index where it is wrong. They rest on
`CoresAssumption` and `NumNodesAssumption`.

Only model-checked: liveness under fairness, which is out of the prover's reach
(`RequestGetsGranted`, `AgentComesUp`, `GuestsGetAddresses`, `EveryRunEnds`).

## Plan

An abstract bridge (absent, building, ready, stuck), implemented by `Bridge`.

## Not modelled

The message types of the generated gRPC code (data); GetISCSIQualifiedName,
GetInterfaceName and the empty GetIPTables, which change nothing; logging; the
contents of templates and messages; routed (not bridged) traffic in FORWARD; the
policy of built-in chains other than ACCEPT; other programs that change the
node's links, networks or filter table, except that somebody may suspend a guest;
the connection to libvirt, which is dialled once: any call may fail, but that
all of them fail after libvirtd restarted is not a state of any module.
