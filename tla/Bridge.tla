------------------------------- MODULE Bridge -------------------------------
(***************************************************************************)
(* bridge.go and vlan.go: bridges with their DHCP interface, VLAN links    *)
(* and the ports of the bridges, kept by libvirt and by the kernel.        *)
(*                                                                         *)
(* A request runs in a goroutine of its own; a step is one call to libvirt *)
(* or netlink, and handlers interleave between calls.  A link or network   *)
(* that a handler looked up is a handle: it goes stale when the object is  *)
(* deleted, even if another one of the same name is made afterwards.       *)
(*                                                                         *)
(* Simplifications: one metadata address per bridge; one parent interface, *)
(* a VLAN link being identified by its id.  An AddBridge whose metadata    *)
(* address does not parse is refused before the first call.                *)
(***************************************************************************)
EXTENDS Integers, FiniteSets

CONSTANTS
    Bridges,    \* bridge names
    Internal,   \* those that are requested as internal only
    Vlans,      \* VLAN links of the parent interface
    Handlers,   \* goroutines serving requests
    Requests,   \* the RPCs clients use
    Serial,     \* do clients wait for a request before the next on the same object?
    Faults      \* may a call fail, the agent die, the node reboot at any moment?

None == "none"

ASSUME NamesAssumption == Bridges \cap Vlans = {} /\ None \notin Bridges \cup Vlans
ASSUME InternalAssumption == Internal \subseteq Bridges
ASSUME ModeAssumption == Serial \in BOOLEAN /\ Faults \in BOOLEAN

VARIABLES
    net,        \* libvirt: is the network of a bridge absent, inactive or active?
    veth,       \* kernel: what holds of the pair <bridge>-dhcp, dhcp-<bridge>
    vlan,       \* kernel: what holds of a VLAN link
    master,     \* kernel: the bridge a VLAN link is a port of
    handler,    \* what each goroutine is doing
    failed      \* bridges and links for which a client has seen an error

vars == <<net, veth, vlan, master, handler, failed>>

BridgeRequests == {"AddBridge", "DeleteBridge"}
PortRequests == {"AddInterfaceToBridge"}
LinkRequests == {"DeleteInterfaceFromBridge", "AddVLANInterface", "DeleteVLANInterface"}

(* Calls, named after what they are made for. *)
Calls == {"lookup", "define", "create", "destroy", "undefine",
          "vethFind", "vethAdd", "vethPeer", "bridgeFind",
          "vethMaster", "addrAdd", "vethUp", "peerUp",
          "vethDown", "peerDown", "addrDel", "vethNoMaster", "vethDel",
          "vlanLookup", "parentFind", "vlanAdd", "vlanUp",
          "linkFind", "linkMaster", "linkNoMaster", "vlanDown", "vlanDel"}
Done == {"idle", "ok", "error"}

VethFacts == {"link", "master", "addr", "up", "peerUp"}
VlanFacts == {"link", "up"}
Handles == {"net", "bridge", "veth", "vlan"}

Idle == [op |-> None, b |-> None, v |-> None, at |-> "idle", held |-> {}]

HandlerState == [op: Requests \cup {None}, b: Bridges \cup {None}, v: Vlans \cup {None},
                 at: Calls \cup Done, held: SUBSET Handles]

(* Every handler is between two requests or at a call it can make. *)
TypeOK ==
    /\ net \in [Bridges -> {"absent", "inactive", "active"}]
    /\ veth \in [Bridges -> SUBSET VethFacts]
    /\ vlan \in [Vlans -> SUBSET VlanFacts]
    /\ master \in [Vlans -> Bridges \cup {None}]
    /\ handler \in [Handlers -> HandlerState]
    /\ failed \in SUBSET (Bridges \cup Vlans)

Init ==
    /\ net = [b \in Bridges |-> "absent"]
    /\ veth = [b \in Bridges |-> {}]
    /\ vlan = [v \in Vlans |-> {}]
    /\ master = [v \in Vlans |-> None]
    /\ handler = [h \in Handlers |-> Idle]
    /\ failed = {}

------------------------------------------------------------------------------
(* Handlers *)

Busy(h) == handler[h].at \in Calls

Begin(h, op, b, v, at) ==
    /\ op \in Requests
    /\ ~Busy(h)
    /\ Serial => \A g \in Handlers : Busy(g) =>
                    ~(handler[g].b = b /\ b # None) /\ ~(handler[g].v = v /\ v # None)
    /\ handler' = [handler EXCEPT
                     ![h] = [op |-> op, b |-> b, v |-> v, at |-> at, held |-> {}]]
    /\ UNCHANGED <<net, veth, vlan, master, failed>>

AddBridge(h, b) == Begin(h, "AddBridge", b, None, "lookup")
DeleteBridge(h, b) == Begin(h, "DeleteBridge", b, None, "lookup")
AddInterfaceToBridge(h, b, v) == Begin(h, "AddInterfaceToBridge", b, v, "bridgeFind")
DeleteInterfaceFromBridge(h, v) == Begin(h, "DeleteInterfaceFromBridge", None, v, "linkFind")
AddVLANInterface(h, v) == Begin(h, "AddVLANInterface", None, v, "vlanLookup")
DeleteVLANInterface(h, v) == Begin(h, "DeleteVLANInterface", None, v, "linkFind")

(* Handler h makes its next call at "at", now holding "got" as well. *)
Proceed(h, at, got) == [handler EXCEPT ![h].at = at, ![h].held = @ \cup got]
Respond(h, result) == [handler EXCEPT ![h] = [Idle EXCEPT !.at = result]]

(* In the handler states hs, every handle on an object of the given kind   *)
(* and name has gone stale.                                                *)
Stale(hs, kind, name) ==
    [g \in Handlers |-> IF name \in {hs[g].b, hs[g].v}
                        THEN [hs[g] EXCEPT !.held = @ \ {kind}] ELSE hs[g]]

Holds(h, kind) == kind \in handler[h].held

------------------------------------------------------------------------------
(* libvirt and the kernel: when a call of handler h is possible at all. *)

Possible(h) ==
    LET s == handler[h]
        at == s.at
    IN CASE at = "lookup"       -> net[s.b] # "absent"
         [] at = "define"       -> net[s.b] = "absent"
         [] at = "create"       -> Holds(h, "net") /\ net[s.b] = "inactive"
         [] at = "destroy"      -> Holds(h, "net") /\ net[s.b] = "active"
         [] at = "undefine"     -> Holds(h, "net") /\ net[s.b] = "inactive"
         [] at = "bridgeFind"   -> net[s.b] = "active"
         [] at = "vethFind"     -> "link" \in veth[s.b]
         [] at = "vethAdd"      -> "link" \notin veth[s.b]
         [] at = "vethMaster"   -> Holds(h, "veth") /\ Holds(h, "bridge")
         [] at = "addrAdd"      -> Holds(h, "veth") /\ "addr" \notin veth[s.b]
         [] at \in {"vethPeer", "vethUp", "peerUp", "vethDown", "peerDown",
                    "addrDel", "vethNoMaster", "vethDel"} -> Holds(h, "veth")
         [] at \in {"vlanLookup", "linkFind"} -> "link" \in vlan[s.v]
         [] at = "vlanAdd"      -> "link" \notin vlan[s.v]
         [] at = "linkMaster"   -> Holds(h, "vlan") /\ Holds(h, "bridge")
         [] at \in {"vlanUp", "linkNoMaster", "vlanDown", "vlanDel"} -> Holds(h, "vlan")
         [] at = "parentFind"   -> TRUE

Succeeds(h, at) == handler[h].at = at /\ Possible(h)

OnError_panic(op, at) ==
    CASE op = "AddBridge" /\ at = "lookup"      -> {"define"}
      [] op = "DeleteBridge" /\ at = "lookup"   -> {"ok"}
      [] at = "vethFind"                        -> {"vethAdd"}
      [] at = "vethPeer"                        -> {"panic"}
      [] OTHER                                  -> {"error"}
OnError_swallow(op, at) ==
    CASE op = "AddBridge" /\ at = "lookup"      -> {"define"}
      [] at = "vethFind"                        -> {"vethAdd"}
      [] at \in {"vethAdd", "vethPeer", "bridgeFind"} -> {"ok"}
      [] OTHER                                  -> {"error"}
OnError_ignoreDestroy(op, at) ==
    CASE op = "AddBridge" /\ at = "lookup"      -> {"define"}
      [] at = "destroy"                         -> {"undefine"}
      [] OTHER                                  -> {"error"}

(* Where a failed call leaves the handler.  A failed lookup of the network *)
(* means "not there": AddBridge goes on to define it, DeleteBridge is done *)
(* with it.  A failed lookup of a link means "not there" as well.  What    *)
(* goes wrong before DeleteBridge has its veth pair is no error, and       *)
(* neither is an address that cannot be removed.                           *)
OnError(op, at) ==
    CASE op = "AddBridge" /\ at = "lookup"      -> {"define"}
      [] op = "DeleteBridge" /\ at = "lookup"   -> {"ok"}
      [] at = "vethFind"                        -> {"vethAdd"}
      [] op = "DeleteBridge" /\ at \in {"vethAdd", "vethPeer"} -> {"ok"}
      [] at = "addrDel"                         -> {"error", "vethNoMaster"}
      [] at = "vlanLookup"                      -> {"parentFind"}
      [] OTHER                                  -> {"error"}

Fail(h) ==
    /\ Busy(h)
    /\ \E next \in OnError(handler[h].op, handler[h].at) :
         /\ handler' = IF next \in Done THEN Respond(h, next) ELSE Proceed(h, next, {})
         /\ failed' = IF next = "error"
                      THEN failed \cup ({handler[h].b, handler[h].v} \ {None}) ELSE failed
    /\ UNCHANGED <<net, veth, vlan, master>>

CallFails(h) == Fail(h) /\ (Faults \/ ~Possible(h))

------------------------------------------------------------------------------
(* AddBridge and DeleteBridge: the libvirt network *)

(* AddBridge takes an existing network for a finished bridge. *)
FindNetwork(h) ==
    /\ Succeeds(h, "lookup")
    /\ handler' = IF handler[h].op = "AddBridge" THEN Respond(h, "ok")
                  ELSE Proceed(h, "destroy", {"net"})
    /\ UNCHANGED <<net, veth, vlan, master, failed>>

DefineNetwork(h) ==
    /\ Succeeds(h, "define")
    /\ net' = [net EXCEPT ![handler[h].b] = "inactive"]
    /\ handler' = Proceed(h, "create", {"net"})
    /\ UNCHANGED <<veth, vlan, master, failed>>

CreateNetwork(h) ==
    /\ Succeeds(h, "create")
    /\ net' = [net EXCEPT ![handler[h].b] = "active"]
    /\ handler' = IF handler[h].b \in Internal THEN Respond(h, "ok")
                  ELSE Proceed(h, "vethFind", {})
    /\ UNCHANGED <<veth, vlan, master, failed>>

DestroyNetwork_only(h) ==
    LET b == handler[h].b
    IN /\ Succeeds(h, "destroy")
       /\ net' = [net EXCEPT ![b] = "inactive"]
       /\ veth' = [veth EXCEPT ![b] = @ \ {"master"}]
       /\ master' = [v \in Vlans |-> IF master[v] = b THEN None ELSE master[v]]
       /\ handler' = Stale(Proceed(h, "vethFind", {}), "bridge", b)
       /\ UNCHANGED <<vlan, failed>>

(* Stopping the network deletes the bridge, which loses all its ports. *)
DestroyNetwork(h) ==
    LET b == handler[h].b
    IN /\ Succeeds(h, "destroy")
       /\ net' = [net EXCEPT ![b] = "inactive"]
       /\ veth' = [veth EXCEPT ![b] = @ \ {"master"}]
       /\ master' = [v \in Vlans |-> IF master[v] = b THEN None ELSE master[v]]
       /\ handler' = Stale(Proceed(h, "undefine", {}), "bridge", b)
       /\ UNCHANGED <<vlan, failed>>

UndefineNetwork(h) ==
    /\ Succeeds(h, "undefine")
    /\ net' = [net EXCEPT ![handler[h].b] = "absent"]
    /\ handler' = Stale(Proceed(h, "vethFind", {}), "net", handler[h].b)
    /\ UNCHANGED <<veth, vlan, master, failed>>

------------------------------------------------------------------------------
(* createVethPeerIfNotExists, addTeleskopInterface and                     *)
(* deleteTeleskopInterfaceIfExists                                         *)

FindVeth(h) ==
    /\ Succeeds(h, "vethFind")
    /\ handler' = Proceed(h, "vethPeer", {"veth"})
    /\ UNCHANGED <<net, veth, vlan, master, failed>>

AddVeth(h) ==
    /\ Succeeds(h, "vethAdd")
    /\ veth' = [veth EXCEPT ![handler[h].b] = {"link"}]
    /\ handler' = Proceed(h, "vethPeer", {"veth"})
    /\ UNCHANGED <<net, vlan, master, failed>>

FindPeer(h) ==
    /\ Succeeds(h, "vethPeer")
    /\ handler' = Proceed(h, IF handler[h].op = "AddBridge" THEN "bridgeFind" ELSE "vethDown", {})
    /\ UNCHANGED <<net, veth, vlan, master, failed>>

FindBridge(h) ==
    /\ Succeeds(h, "bridgeFind")
    /\ handler' = Proceed(h, IF handler[h].op = "AddBridge" THEN "vethMaster" ELSE "linkFind",
                          {"bridge"})
    /\ UNCHANGED <<net, veth, vlan, master, failed>>

(* A call on the pair: what it makes of it, and the handler's next call. *)
ConfigureVeth(h, at, facts, next) ==
    /\ Succeeds(h, at)
    /\ veth' = [veth EXCEPT ![handler[h].b] = facts]
    /\ handler' = IF next = "ok" THEN Respond(h, "ok") ELSE Proceed(h, next, {})
    /\ UNCHANGED <<net, vlan, master, failed>>

BringVethUp(h) ==
    LET pair == veth[handler[h].b]
    IN \/ ConfigureVeth(h, "vethMaster", pair \cup {"master"}, "addrAdd")
       \/ ConfigureVeth(h, "addrAdd", pair \cup {"addr"}, "vethUp")
       \/ ConfigureVeth(h, "vethUp", pair \cup {"up"}, "peerUp")
       \/ ConfigureVeth(h, "peerUp", pair \cup {"peerUp"}, "ok")

TakeVethDown(h) ==
    LET pair == veth[handler[h].b]
    IN \/ ConfigureVeth(h, "vethDown", pair \ {"up"}, "peerDown")
       \/ ConfigureVeth(h, "peerDown", pair \ {"peerUp"}, "addrDel")
       \/ ConfigureVeth(h, "addrDel", pair \ {"addr"}, "vethNoMaster")
       \/ ConfigureVeth(h, "vethNoMaster", pair \ {"master"}, "vethDel")

DeleteVeth(h) ==
    /\ Succeeds(h, "vethDel")
    /\ veth' = [veth EXCEPT ![handler[h].b] = {}]
    /\ handler' = Stale(Respond(h, "ok"), "veth", handler[h].b)
    /\ UNCHANGED <<net, vlan, master, failed>>

------------------------------------------------------------------------------
(* VLAN links and ports *)

FindVlan(h) ==
    /\ Succeeds(h, "vlanLookup")
    /\ handler' = Respond(h, "ok")
    /\ UNCHANGED <<net, veth, vlan, master, failed>>

FindParent(h) ==
    /\ Succeeds(h, "parentFind")
    /\ handler' = Proceed(h, "vlanAdd", {})
    /\ UNCHANGED <<net, veth, vlan, master, failed>>

AddVlan_leftDown(h) ==
    /\ Succeeds(h, "vlanAdd")
    /\ vlan' = [vlan EXCEPT ![handler[h].v] = {"link"}]
    /\ handler' = Respond(h, "ok")
    /\ UNCHANGED <<net, veth, master, failed>>

AddVlan(h) ==
    /\ Succeeds(h, "vlanAdd")
    /\ vlan' = [vlan EXCEPT ![handler[h].v] = {"link"}]
    /\ handler' = Proceed(h, "vlanUp", {"vlan"})
    /\ UNCHANGED <<net, veth, master, failed>>

SetVlanUp(h) ==
    /\ Succeeds(h, "vlanUp")
    /\ vlan' = [vlan EXCEPT ![handler[h].v] = @ \cup {"up"}]
    /\ handler' = Respond(h, "ok")
    /\ UNCHANGED <<net, veth, master, failed>>

(* AddInterfaceToBridge takes a link that is a port already for added. *)
FindLink(h) ==
    LET s == handler[h]
    IN /\ Succeeds(h, "linkFind")
       /\ handler' = CASE s.op = "DeleteVLANInterface" -> Proceed(h, "vlanDown", {"vlan"})
                       [] s.op = "DeleteInterfaceFromBridge" -> Proceed(h, "linkNoMaster", {"vlan"})
                       [] s.op = "AddInterfaceToBridge" /\ master[s.v] = None
                              -> Proceed(h, "linkMaster", {"vlan"})
                       [] OTHER -> Respond(h, "ok")
       /\ UNCHANGED <<net, veth, vlan, master, failed>>

SetLinkMaster_byName(h) ==
    \/ /\ handler[h].at = "linkMaster" /\ Holds(h, "vlan")
       /\ master' = [master EXCEPT ![handler[h].v] = handler[h].b]
       /\ handler' = Respond(h, "ok")
       /\ UNCHANGED <<net, veth, vlan, failed>>
    \/ /\ Succeeds(h, "linkNoMaster")
       /\ master' = [master EXCEPT ![handler[h].v] = None]
       /\ handler' = Respond(h, "ok")
       /\ UNCHANGED <<net, veth, vlan, failed>>

SetLinkMaster(h) ==
    \/ /\ Succeeds(h, "linkMaster")
       /\ master' = [master EXCEPT ![handler[h].v] = handler[h].b]
       /\ handler' = Respond(h, "ok")
       /\ UNCHANGED <<net, veth, vlan, failed>>
    \/ /\ Succeeds(h, "linkNoMaster")
       /\ master' = [master EXCEPT ![handler[h].v] = None]
       /\ handler' = Respond(h, "ok")
       /\ UNCHANGED <<net, veth, vlan, failed>>

SetVlanDown(h) ==
    /\ Succeeds(h, "vlanDown")
    /\ vlan' = [vlan EXCEPT ![handler[h].v] = @ \ {"up"}]
    /\ handler' = Proceed(h, "vlanDel", {})
    /\ UNCHANGED <<net, veth, master, failed>>

DeleteVlan(h) ==
    /\ Succeeds(h, "vlanDel")
    /\ vlan' = [vlan EXCEPT ![handler[h].v] = {}]
    /\ master' = [master EXCEPT ![handler[h].v] = None]
    /\ handler' = Stale(Respond(h, "ok"), "vlan", handler[h].v)
    /\ UNCHANGED <<net, veth, failed>>

------------------------------------------------------------------------------
(* What the requests under way are about. *)
Interrupted == (UNION {{handler[h].b, handler[h].v} : h \in Handlers}) \ {None}

(* The agent dies and is restarted; its clients see broken connections. *)
AgentDies ==
    /\ handler' = [h \in Handlers |-> Idle]
    /\ failed' = failed \cup Interrupted
    /\ UNCHANGED <<net, veth, vlan, master>>

AgentRestart == Faults /\ (\E h \in Handlers : Busy(h)) /\ AgentDies

(* The node reboots.  libvirt keeps the definition of a network and does   *)
(* not start it: no handler asks for autostart.                            *)
NodeGoesDown ==
    /\ net' = [b \in Bridges |-> IF net[b] = "absent" THEN "absent" ELSE "inactive"]
    /\ veth' = [b \in Bridges |-> {}]
    /\ vlan' = [v \in Vlans |-> {}]
    /\ master' = [v \in Vlans |-> None]
    /\ handler' = [h \in Handlers |-> Idle]
    /\ failed' = failed \cup Interrupted

NodeReboot == Faults /\ NodeGoesDown

Request(h) ==
    \/ \E b \in Bridges : AddBridge(h, b) \/ DeleteBridge(h, b)
    \/ \E v \in Vlans : AddVLANInterface(h, v) \/ DeleteVLANInterface(h, v)
                        \/ DeleteInterfaceFromBridge(h, v)
    \/ \E b \in Bridges, v \in Vlans : AddInterfaceToBridge(h, b, v)

Work(h) ==
    \/ FindNetwork(h) \/ DefineNetwork(h) \/ CreateNetwork(h)
    \/ DestroyNetwork(h) \/ UndefineNetwork(h)
    \/ FindVeth(h) \/ AddVeth(h) \/ FindPeer(h) \/ FindBridge(h)
    \/ BringVethUp(h) \/ TakeVethDown(h) \/ DeleteVeth(h)
    \/ FindVlan(h) \/ FindParent(h) \/ AddVlan(h) \/ SetVlanUp(h)
    \/ FindLink(h) \/ SetLinkMaster(h) \/ SetVlanDown(h) \/ DeleteVlan(h)
    \/ CallFails(h)

Next ==
    \/ \E h \in Handlers : Request(h) \/ Work(h)
    \/ AgentRestart
    \/ NodeReboot

Spec == Init /\ [][Next]_vars

------------------------------------------------------------------------------
(* Properties *)

AtRest(x) == \A h \in Handlers : Busy(h) => x \notin {handler[h].b, handler[h].v}

DhcpReady(b) == veth[b] = VethFacts

(* addTeleskopInterface: an external bridge that runs has its DHCP         *)
(* interface in place, enslaved, addressed and up, unless some request for *)
(* it has reported an error.  AddBridge reports success for a bridge it    *)
(* finds, so nobody would learn of a missing interface later.              *)
RunningBridgeServesDhcp ==
    \A b \in Bridges \ Internal :
        AtRest(b) /\ net[b] = "active" /\ b \notin failed => DhcpReady(b)

(* AddVLANInterface: likewise a VLAN link is up, or an error was reported. *)
VlanUpUnlessReported ==
    \A v \in Vlans : AtRest(v) /\ "link" \in vlan[v] /\ v \notin failed => "up" \in vlan[v]

(* Without failing calls no overlap of AddBridge and DeleteBridge leaves a *)
(* network defined but not running, the state no request leads out of.     *)
NeverLeftInactive == \A b \in Bridges : AtRest(b) => net[b] # "inactive"

(* A network that is defined but not running, with no handler between      *)
(* NetworkDefineXML and NetworkCreate or between NetworkDestroy and        *)
(* NetworkUndefine.                                                        *)
Stuck(b) ==
    /\ net[b] = "inactive"
    /\ \A h \in Handlers : handler[h].b = b => handler[h].at \notin {"create", "undefine"}

(* AddBridge takes such a network for done and DeleteBridge cannot stop    *)
(* what does not run: neither retries nor restarts ever repair it.         *)
StuckForever == [][\A b \in Bridges : Stuck(b) => Stuck(b)']_vars

(* A bridge that is no longer there has no ports. *)
PortsOfRunningBridges ==
    /\ \A v \in Vlans : master[v] # None => net[master[v]] = "active" /\ "link" \in vlan[v]
    /\ \A b \in Bridges : "master" \in veth[b] => net[b] = "active"
==============================================================================
