----------------------------- MODULE BootProofs -----------------------------
(***************************************************************************)
(* Theorems about Boot, for any list of bridges, any handlers and any      *)
(* number of faults and requests.                                          *)
(***************************************************************************)
EXTENDS Boot, BridgeProofs

(* An external bridge as setup wants it. *)
Wired(b) ==
    /\ net[b] = "active"
    /\ "link" \in vlan[VlanOf[b]]
    /\ master[VlanOf[b]] # None

(* The calls that each request of setup may lead to. *)
CallsFor(op) ==
    CASE op = "AddBridge" -> {"lookup", "define", "create", "vethFind", "vethAdd", "vethPeer",
                              "bridgeFind", "vethMaster", "addrAdd", "vethUp", "peerUp"}
      [] op = "AddVLANInterface" -> {"vlanLookup", "parentFind", "vlanAdd", "vlanUp"}
      [] op = "AddInterfaceToBridge" -> {"bridgeFind", "linkFind", "linkMaster"}
      [] OTHER -> {}

(* The main goroutine is at a call of the request that the loop made last. *)
Serves(s, r) == s.op = r.op /\ s.b = r.b /\ s.v = r.v /\ s.at \in CallsFor(r.op)

MainServes == Busy(Main) => Serves(handler[Main], RequestsFor(BridgeList[turn])[made])

(* Once AddInterfaceToBridge has found the bridge it runs, and once it has *)
(* found the link that is there: nobody else works on the node.            *)
Found(s) ==
    s.op = "AddInterfaceToBridge" =>
        /\ s.at \in {"linkFind", "linkMaster"} => net[s.b] = "active"
        /\ s.at = "linkMaster" => "link" \in vlan[s.v]

MainFound == Busy(Main) => Found(handler[Main])

(* An external bridge is wired when the last request for it went well. *)
LastWentWell ==
    Between /\ NoError /\ turn <= Len(BridgeList)
    /\ BridgeList[turn] \notin Internal /\ made = Len(RequestsFor(BridgeList[turn]))
        => Wired(BridgeList[turn])

(* The bridges that the loop has left behind stay wired until the process  *)
(* serves, when clients may undo it.                                       *)
WiredSoFar ==
    pc \in 1 .. 11 => \A i \in 1 .. turn - 1 : BridgeList[i] \notin Internal => Wired(BridgeList[i])

(* Before the loop nothing was asked for; after it, every bridge is done. *)
LoopRuns ==
    /\ pc < 8 => turn = 1 /\ made = 0
    /\ pc > 8 => turn = Len(BridgeList) + 1

BootInv ==
    /\ BootTypeOK
    /\ LoopRuns
    /\ MainServes
    /\ MainFound
    /\ LastWentWell
    /\ WiredSoFar

------------------------------------------------------------------------------
(* The main goroutine's calls *)

(* Nothing of a wired bridge is taken away. *)
KeepsWiring ==
    /\ \A b \in Bridges : net[b] = "active" => net'[b] = "active"
    /\ \A v \in Vlans : "link" \in vlan[v] => "link" \in vlan'[v]
    /\ \A v \in Vlans : master[v] # None => master'[v] # None

(* What is known of the node when a request of setup gets to "at". *)
Knows(op, b, v, at) ==
    op = "AddInterfaceToBridge" =>
        /\ at \in {"linkFind", "linkMaster", "ok"} => net'[b] = "active"
        /\ at \in {"linkMaster", "ok"} => "link" \in vlan'[v]
        /\ at = "ok" => master'[v] # None

(* The main goroutine goes on with its request or answers it. *)
Advances ==
    \E at \in CallsFor(handler[Main].op) \cup {"ok", "error"} :
        /\ MovesTo(handler', Main, at)
        /\ Knows(handler[Main].op, handler[Main].b, handler[Main].v, at)

(* A step in which the node is left as it is, or is only built on. *)
LEMMA KeepsNode == UNCHANGED <<net, vlan, master>> => KeepsWiring
  BY DEF KeepsWiring

(* A call that failed is retried another way or is the end of the request. *)
LEMMA MainFails ==
    ASSUME TypeOK, NEW r, Serves(handler[Main], r),
           r.op \in {"AddBridge", "AddVLANInterface", "AddInterfaceToBridge"}, Fail(Main)
    PROVE  KeepsWiring /\ Advances
  <1> DEFINE at == handler[Main].at
             op == handler[Main].op
  <1>0. Main \in Handlers /\ at \in CallsFor(op) /\ op = r.op
    BY MainAssumption DEF Serves
  <1>1. PICK next \in OnError(op, at) :
          /\ handler' = IF next \in Done THEN Respond(Main, next) ELSE Proceed(Main, next, {})
          /\ UNCHANGED <<net, veth, vlan, master>>
    BY DEF Fail
  <1>2. next \in Calls \cup Done
    BY OnErrorType
  <1>3. MovesTo(handler', Main, next)
    BY <1>0, <1>1, <1>2, ProceedMoves, RespondMoves
  <1>4. /\ next \in CallsFor(op) \cup {"error"}
        /\ op = "AddInterfaceToBridge" => next = "error"
    BY <1>0, <1>1 DEF OnError, CallsFor
  <1>5. Knows(op, handler[Main].b, handler[Main].v, next)
    BY <1>4 DEF Knows
  <1> QED
    BY <1>1, <1>3, <1>4, <1>5, KeepsNode DEF Advances

(* AddBridge never stops a network. *)
LEMMA AddBridgeWorks ==
    ASSUME TypeOK, NEW r, Serves(handler[Main], r), r.op = "AddBridge", Work(Main)
    PROVE  KeepsWiring /\ Advances
  <1> DEFINE at == handler[Main].at
  <1>0. /\ Main \in Handlers /\ at \in CallsFor("AddBridge") /\ handler[Main].op = "AddBridge"
        /\ \A next : Knows("AddBridge", handler[Main].b, handler[Main].v, next)
    BY MainAssumption DEF Serves, Knows
  <1>1. SUFFICES KeepsWiring /\ \E next \in CallsFor("AddBridge") \cup {"ok", "error"} :
                                   MovesTo(handler', Main, next)
    BY <1>0 DEF Advances
  <1>2. CASE FindNetwork(Main)
    BY <1>0, <1>2, WorkMoves, KeepsNode DEF FindNetwork
  <1>3. CASE DefineNetwork(Main)
    <2>1. net[handler[Main].b] # "active"
      BY <1>3 DEF DefineNetwork, Succeeds, Possible
    <2>2. KeepsWiring
      BY <1>3, <2>1 DEF DefineNetwork, KeepsWiring, TypeOK
    <2> QED
      BY <1>0, <1>3, <2>2, WorkMoves DEF CallsFor
  <1>4. CASE CreateNetwork(Main)
    <2>1. KeepsWiring
      BY <1>4 DEF CreateNetwork, KeepsWiring, TypeOK
    <2> QED
      BY <1>0, <1>4, <2>1, WorkMoves DEF CallsFor
  <1>5. CASE FindVeth(Main) \/ AddVeth(Main) \/ FindPeer(Main) \/ FindBridge(Main)
    <2>1. KeepsWiring
      BY <1>5, KeepsNode DEF FindVeth, AddVeth, FindPeer, FindBridge
    <2> QED
      BY <1>0, <1>5, <2>1, WorkMoves DEF CallsFor
  <1>6. CASE BringVethUp(Main)
    <2>0. \E next \in {"addrAdd", "vethUp", "peerUp", "ok"} : \E c, facts :
            ConfigureVeth(Main, c, facts, next)
      BY <1>6 DEF BringVethUp
    <2>1. PICK next \in {"addrAdd", "vethUp", "peerUp", "ok"} : \E c, facts :
            ConfigureVeth(Main, c, facts, next)
      BY <2>0
    <2>2. MovesTo(handler', Main, next)
      BY <1>0, <2>1, ConfigureMoves DEF Calls
    <2>3. KeepsWiring
      BY <2>1, KeepsNode DEF ConfigureVeth
    <2> QED
      BY <2>1, <2>2, <2>3 DEF CallsFor
  <1>7. CASE CallFails(Main)
    <2>1. Fail(Main)
      BY <1>7 DEF CallFails
    <2> QED
      BY <1>0, <2>1, MainFails DEF Advances
  <1>8. at \notin {"destroy", "undefine", "vethDown", "peerDown", "addrDel", "vethNoMaster", "vethDel",
                   "vlanLookup", "parentFind", "vlanAdd", "vlanUp", "linkFind", "linkMaster",
                   "linkNoMaster", "vlanDown", "vlanDel"}
    BY <1>0 DEF CallsFor
  <1>9. ~(DestroyNetwork(Main) \/ UndefineNetwork(Main) \/ TakeVethDown(Main) \/ DeleteVeth(Main)
          \/ FindVlan(Main) \/ FindParent(Main) \/ AddVlan(Main) \/ SetVlanUp(Main)
          \/ FindLink(Main) \/ SetLinkMaster(Main) \/ SetVlanDown(Main) \/ DeleteVlan(Main))
    BY <1>8 DEF DestroyNetwork, UndefineNetwork, TakeVethDown, ConfigureVeth, DeleteVeth,
       FindVlan, FindParent, AddVlan, SetVlanUp, FindLink, SetLinkMaster, SetVlanDown,
       DeleteVlan, Succeeds
  <1> QED
    BY <1>2, <1>3, <1>4, <1>5, <1>6, <1>7, <1>9 DEF Work

(* AddVLANInterface makes a link where there is none. *)
LEMMA AddVlanWorks ==
    ASSUME TypeOK, NEW r, Serves(handler[Main], r), r.op = "AddVLANInterface", Work(Main)
    PROVE  KeepsWiring /\ Advances
  <1> DEFINE at == handler[Main].at
  <1>0. /\ Main \in Handlers /\ at \in CallsFor("AddVLANInterface")
        /\ handler[Main].op = "AddVLANInterface"
        /\ \A next : Knows("AddVLANInterface", handler[Main].b, handler[Main].v, next)
    BY MainAssumption DEF Serves, Knows
  <1>1. SUFFICES KeepsWiring /\ \E next \in CallsFor("AddVLANInterface") \cup {"ok", "error"} :
                                   MovesTo(handler', Main, next)
    BY <1>0 DEF Advances
  <1>2. CASE FindVlan(Main)
    BY <1>0, <1>2, WorkMoves, KeepsNode DEF FindVlan
  <1>3. CASE FindParent(Main)
    <2>1. KeepsWiring
      BY <1>3, KeepsNode DEF FindParent
    <2> QED
      BY <1>0, <1>3, <2>1, WorkMoves DEF CallsFor
  <1>4. CASE AddVlan(Main)
    <2>1. KeepsWiring
      BY <1>4 DEF AddVlan, KeepsWiring, TypeOK
    <2> QED
      BY <1>0, <1>4, <2>1, WorkMoves DEF CallsFor
  <1>5. CASE SetVlanUp(Main)
    <2>1. KeepsWiring
      BY <1>5 DEF SetVlanUp, KeepsWiring, TypeOK
    <2> QED
      BY <1>0, <1>5, <2>1, WorkMoves
  <1>6. CASE CallFails(Main)
    <2>1. Fail(Main)
      BY <1>6 DEF CallFails
    <2> QED
      BY <1>0, <2>1, MainFails DEF Advances
  <1>7. at \in {"vlanLookup", "parentFind", "vlanAdd", "vlanUp"}
    BY <1>0 DEF CallsFor
  <1>8. ~(FindNetwork(Main) \/ DefineNetwork(Main) \/ CreateNetwork(Main)
          \/ DestroyNetwork(Main) \/ UndefineNetwork(Main) \/ FindVeth(Main) \/ AddVeth(Main)
          \/ FindPeer(Main) \/ FindBridge(Main) \/ BringVethUp(Main) \/ TakeVethDown(Main)
          \/ DeleteVeth(Main) \/ FindLink(Main) \/ SetLinkMaster(Main) \/ SetVlanDown(Main)
          \/ DeleteVlan(Main))
    BY <1>7 DEF FindNetwork, DefineNetwork, CreateNetwork, DestroyNetwork, UndefineNetwork,
       FindVeth, AddVeth, FindPeer, FindBridge, BringVethUp, TakeVethDown, ConfigureVeth,
       DeleteVeth, FindLink, SetLinkMaster, SetVlanDown, DeleteVlan, Succeeds
  <1> QED
    BY <1>2, <1>3, <1>4, <1>5, <1>6, <1>8 DEF Work

(* AddInterfaceToBridge succeeds with a link that is a port of a bridge,   *)
(* after it has seen its own bridge run.                                   *)
LEMMA AddPortWorks ==
    ASSUME TypeOK, NEW r, Serves(handler[Main], r), r.op = "AddInterfaceToBridge",
           r.b \in Bridges, r.v \in Vlans, Found(handler[Main]), Work(Main)
    PROVE  KeepsWiring /\ Advances
  <1> DEFINE at == handler[Main].at
             b == handler[Main].b
             v == handler[Main].v
  <1>0. /\ Main \in Handlers /\ at \in {"bridgeFind", "linkFind", "linkMaster"}
        /\ handler[Main].op = "AddInterfaceToBridge" /\ b \in Bridges /\ v \in Vlans
        /\ at \in {"linkFind", "linkMaster"} => net[b] = "active"
        /\ at = "linkMaster" => "link" \in vlan[v]
    BY MainAssumption DEF Serves, CallsFor, Found
  <1>1. SUFFICES KeepsWiring /\ \E next \in {"bridgeFind", "linkFind", "linkMaster", "ok", "error"} :
                                   /\ MovesTo(handler', Main, next)
                                   /\ Knows("AddInterfaceToBridge", b, v, next)
    BY <1>0 DEF Advances, CallsFor
  <1>2. CASE FindBridge(Main)
    <2>1. net[b] = "active" /\ UNCHANGED <<net, vlan, master>>
      BY <1>2 DEF FindBridge, Succeeds, Possible
    <2>2. Knows("AddInterfaceToBridge", b, v, "linkFind")
      BY <2>1 DEF Knows
    <2> QED
      BY <1>0, <1>2, <2>1, <2>2, WorkMoves, KeepsNode
  <1>3. CASE FindLink(Main)
    <2>1. /\ at = "linkFind" /\ net[b] = "active" /\ "link" \in vlan[v]
          /\ UNCHANGED <<net, vlan, master>>
      BY <1>0, <1>3 DEF FindLink, Succeeds, Possible
    <2>2. CASE master[v] = None
      <3>1. handler' = Proceed(Main, "linkMaster", {"vlan"})
        BY <1>0, <1>3, <2>2 DEF FindLink
      <3>2. MovesTo(handler', Main, "linkMaster")
        BY <1>0, <3>1, ProceedMoves DEF Calls, Handles
      <3>3. Knows("AddInterfaceToBridge", b, v, "linkMaster")
        BY <2>1 DEF Knows
      <3> QED
        BY <2>1, <3>2, <3>3, KeepsNode
    <2>3. CASE master[v] # None
      <3>1. handler' = Respond(Main, "ok")
        BY <1>0, <1>3, <2>3 DEF FindLink
      <3>2. MovesTo(handler', Main, "ok")
        BY <1>0, <3>1, RespondMoves DEF Done
      <3>3. Knows("AddInterfaceToBridge", b, v, "ok")
        BY <2>1, <2>3 DEF Knows
      <3> QED
        BY <2>1, <3>2, <3>3, KeepsNode
    <2> QED
      BY <2>2, <2>3
  <1>4. CASE SetLinkMaster(Main)
    <2>1. /\ at = "linkMaster" /\ master' = [master EXCEPT ![v] = b] /\ UNCHANGED <<net, vlan>>
      BY <1>0, <1>4 DEF SetLinkMaster, Succeeds
    <2>2. KeepsWiring /\ master'[v] # None
      BY <1>0, <2>1, NamesAssumption DEF KeepsWiring, TypeOK
    <2>3. Knows("AddInterfaceToBridge", b, v, "ok")
      BY <1>0, <2>1, <2>2 DEF Knows
    <2> QED
      BY <1>0, <1>4, <2>2, <2>3, WorkMoves
  <1>5. CASE CallFails(Main)
    <2>1. Fail(Main)
      BY <1>5 DEF CallFails
    <2> QED
      BY <1>0, <2>1, MainFails DEF Advances, CallsFor
  <1>6. ~(FindNetwork(Main) \/ DefineNetwork(Main) \/ CreateNetwork(Main)
          \/ DestroyNetwork(Main) \/ UndefineNetwork(Main) \/ FindVeth(Main) \/ AddVeth(Main)
          \/ FindPeer(Main) \/ BringVethUp(Main) \/ TakeVethDown(Main)
          \/ DeleteVeth(Main) \/ FindVlan(Main) \/ FindParent(Main) \/ AddVlan(Main)
          \/ SetVlanUp(Main) \/ SetVlanDown(Main) \/ DeleteVlan(Main))
    BY <1>0 DEF FindNetwork, DefineNetwork, CreateNetwork, DestroyNetwork, UndefineNetwork,
       FindVeth, AddVeth, FindPeer, BringVethUp, TakeVethDown, ConfigureVeth,
       DeleteVeth, FindVlan, FindParent, AddVlan, SetVlanUp, SetVlanDown, DeleteVlan, Succeeds
  <1> QED
    BY <1>2, <1>3, <1>4, <1>5, <1>6 DEF Work

------------------------------------------------------------------------------
(* The program and the requests of the loop *)

(* The places of the program that the invariant speaks of. *)
LEMMA Phases ==
    /\ Len(Program) = 12
    /\ pc \in 0 .. 12 => /\ phase = "down" <=> pc = 0
                         /\ phase = "bridges" <=> pc = 8
                         /\ phase = "serving" <=> pc = 12
    /\ pc' \in 0 .. 12 => /\ phase' = "down" <=> pc' = 0
                          /\ phase' = "bridges" <=> pc' = 8
                          /\ phase' = "serving" <=> pc' = 12
  <1>1. Len(Program) = 12
    BY DEF Program
  <1>2. \A k \in 1 .. 12 : /\ Program[k] # "down"
                           /\ Program[k] = "bridges" <=> k = 8
                           /\ Program[k] = "serving" <=> k = 12
    BY DEF Program
  <1>3. Program' = Program
    BY DEF Program
  <1> QED
    BY <1>1, <1>2, <1>3 DEF phase

(* The bridges of the list, and their links, are the node's. *)
LEMMA Listed ==
    ASSUME NEW i \in 1 .. Len(BridgeList)
    PROVE  /\ BridgeList[i] \in Bridges
           /\ BridgeList[i] \notin Internal => VlanOf[BridgeList[i]] \in Vlans
  BY ListAssumption

(* An internal bridge takes one request, an external one three, the last   *)
(* of which adds its link to it.                                           *)
LEMMA RequestKnown ==
    ASSUME NEW b \in Bridges, NEW k \in 1 .. Len(RequestsFor(b))
    PROVE  LET r == RequestsFor(b)[k]
           IN /\ r.op \in {"AddBridge", "AddVLANInterface", "AddInterfaceToBridge"}
              /\ r.op = "AddBridge" => r.b = b /\ r.v = None
              /\ r.op = "AddVLANInterface" => b \notin Internal /\ r.b = None /\ r.v = VlanOf[b]
              /\ r.op = "AddInterfaceToBridge" => b \notin Internal /\ r.b = b /\ r.v = VlanOf[b]
              /\ b \notin Internal /\ k = Len(RequestsFor(b)) => r.op = "AddInterfaceToBridge"
  <1>1. CASE b \in Internal
    <2>1. RequestsFor(b) = <<[op |-> "AddBridge", b |-> b, v |-> None]>>
      BY <1>1 DEF RequestsFor
    <2>2. k = 1
      BY <2>1
    <2> QED
      BY <1>1, <2>1, <2>2
  <1>2. CASE b \notin Internal
    <2>1. RequestsFor(b) = <<[op |-> "AddBridge", b |-> b, v |-> None],
                             [op |-> "AddVLANInterface", b |-> None, v |-> VlanOf[b]],
                             [op |-> "AddInterfaceToBridge", b |-> b, v |-> VlanOf[b]]>>
      BY <1>2 DEF RequestsFor
    <2>2. Len(RequestsFor(b)) = 3 /\ k \in {1, 2, 3}
      BY <2>1
    <2>3. CASE k = 1
      BY <1>2, <2>1, <2>2, <2>3
    <2>4. CASE k = 2
      BY <1>2, <2>1, <2>2, <2>4
    <2>5. CASE k = 3
      BY <1>2, <2>1, <2>2, <2>5
    <2> QED
      BY <2>2, <2>3, <2>4, <2>5
  <1> QED
    BY <1>1, <1>2

(* The request at place k for the bridge of the list that the loop is at. *)
Sought(k) == RequestsFor(BridgeList[turn])[k]

(* What it asks for is on the node. *)
LEMMA RequestSought ==
    ASSUME turn \in 1 .. Len(BridgeList), NEW k \in 1 .. Len(RequestsFor(BridgeList[turn]))
    PROVE  LET b == BridgeList[turn]
               r == Sought(k)
           IN /\ b \in Bridges
              /\ r.op \in {"AddBridge", "AddVLANInterface", "AddInterfaceToBridge"}
              /\ r.op = "AddBridge" => r.b \in Bridges /\ r.v = None
              /\ r.op = "AddVLANInterface" => r.b = None /\ r.v \in Vlans
              /\ r.op = "AddInterfaceToBridge" =>
                    r.b = b /\ r.v = VlanOf[b] /\ r.v \in Vlans /\ b \notin Internal
              /\ b \notin Internal /\ k = Len(RequestsFor(b)) => r.op = "AddInterfaceToBridge"
  <1>1. /\ BridgeList[turn] \in Bridges
        /\ BridgeList[turn] \notin Internal => VlanOf[BridgeList[turn]] \in Vlans
    BY Listed
  <1> QED
    BY <1>1, RequestKnown DEF Sought

(* The loop is at a bridge of the list while it makes requests. *)
LEMMA LoopAt ==
    ASSUME BootTypeOK
    PROVE  /\ Len(BridgeList) \in Nat /\ turn \in 1 .. Len(BridgeList) + 1
           /\ made > 0 => /\ turn \in 1 .. Len(BridgeList)
                          /\ made \in 1 .. Len(RequestsFor(BridgeList[turn]))
  <1>1. Len(BridgeList) \in Nat
    BY ListAssumption
  <1>2. turn <= Len(BridgeList) => Len(RequestsFor(BridgeList[turn])) \in Nat
    BY <1>1 DEF BootTypeOK, RequestsFor
  <1> QED
    BY <1>1, <1>2 DEF BootTypeOK

(* Every step of the agent is one that a node allows, so that what was     *)
(* proved of the handlers holds through all its starts.                    *)
LEMMA BootSteps ==
    ASSUME BootTypeOK, [BootNext]_<<vars, bootVars>>
    PROVE  NodeStep
  <1>1. UNCHANGED vars => NodeStep
    BY DEF NodeStep
  <1>2. Start \/ Step \/ NextBridge \/ BridgesDone \/ Expire \/ Change => NodeStep
    BY <1>1 DEF Start, Step, NextBridge, BridgesDone, Expire, Change
  <1>3. ASSUME RequestNext PROVE NodeStep
    <2>1. turn \in 1 .. Len(BridgeList) /\ made + 1 \in 1 .. Len(RequestsFor(BridgeList[turn]))
      <3>1. Len(RequestsFor(BridgeList[turn])) \in Nat
        BY DEF RequestsFor
      <3> QED
        BY <1>3, <3>1, LoopAt DEF RequestNext, BootTypeOK
    <2>2. Ask(Sought(made + 1)) /\ Main \in Handlers
      BY <1>3, MainAssumption DEF RequestNext, Sought
    <2>3. Request(Main)
      BY <2>1, <2>2, RequestSought DEF Ask, Request
    <2> QED
      BY <2>2, <2>3 DEF NodeStep
  <1>4. Exit \/ StepFails => NodeStep
    BY DEF Exit, StepFails, Gone, node, NodeStep, Dies
  <1>5. Crash \/ Reboot => NodeStep
    BY DEF Crash, Reboot, AgentDies, NodeStep, Dies
  <1>6. ASSUME NEW h \in Handlers, ClientRequest(h) \/ HandlerWorks(h) \/ HandlerFails(h)
        PROVE  NodeStep
    BY <1>6 DEF ClientRequest, HandlerWorks, HandlerFails, NodeStep
  <1> QED
    BY <1>1, <1>2, <1>3, <1>4, <1>5, <1>6 DEF BootNext

------------------------------------------------------------------------------
(* The invariant *)

(* The agent is gone; a reboot may have taken links and bridges with it. *)
Down ==
    /\ pc' = 0 /\ turn' = 1 /\ made' = 0 /\ expired' = FALSE
    /\ handler' = [h \in Handlers |-> Idle]
    /\ faults' \in 0 .. MaxFaults /\ UNCHANGED <<barrier, asked>>

(* A dead agent leaves nothing for the invariant to speak of. *)
LEMMA DownInv ==
    ASSUME BootInv, TypeOK', Down
    PROVE  BootInv'
  <1>1. \A h \in Handlers : ~Busy(h)'
    BY DEF Down, Busy, Idle, Calls
  <1>2. Main \in Handlers /\ Len(BridgeList) \in Nat
    BY MainAssumption, ListAssumption
  <1>3. phase' = "down" /\ Len(Program) = 12
    BY Phases DEF Down
  <1>4. /\ pc' \in 0 .. Len(Program) /\ turn' \in 1 .. Len(BridgeList) + 1 /\ made' = 0
        /\ faults' \in 0 .. MaxFaults
    BY <1>2, <1>3 DEF Down
  <1>5. expired' \in BOOLEAN
    BY DEF Down
  <1>6. asked' \in 0 .. MaxRequests /\ barrier' \in Barriers \cup {Nowhere}
    BY DEF BootInv, BootTypeOK, Down
  <1>7. phase' # "serving" /\ ~Busy(Main)'
    BY <1>1, <1>2, <1>3
  <1>8. BootTypeOK'
    BY <1>1, <1>4, <1>5, <1>6, <1>7 DEF BootTypeOK, Nowhere
  <1> QED
    BY <1>1, <1>2, <1>3, <1>8
       DEF BootInv, LoopRuns, MainServes, MainFound, LastWentWell, Between, WiredSoFar, Down

(* A step of the process that leaves the node and the loop as they are. *)
Onward ==
    /\ UNCHANGED <<vars, made, asked>>
    /\ faults' \in 0 .. MaxFaults /\ expired' \in BOOLEAN
    /\ barrier' \in Barriers \cup {Nowhere}

(* A step of run or setup outside the loop. *)
LEMMA OnwardInv ==
    ASSUME BootInv, Onward, turn' = turn,
           \/ pc' = pc
           \/ pc \in 1 .. 11 /\ pc' = pc + 1 /\ (pc = 8 => Between /\ turn = Len(BridgeList) + 1)
    PROVE  BootInv'
  <1>0. /\ BootTypeOK /\ Len(BridgeList) \in Nat /\ Len(BridgeList)' = Len(BridgeList)
        /\ Main \in Handlers /\ pc \in 0 .. 12
    BY ListAssumption, MainAssumption, Phases DEF BootInv, BootTypeOK
  <1>1. pc' \in 0 .. 12
    BY <1>0
  <1>2. \A h \in Handlers : Busy(h)' <=> Busy(h)
    BY DEF Onward, vars, Busy, Calls
  <1>3. pc' # pc => \A h \in Handlers : ~Busy(h)
    <2> SUFFICES ASSUME pc' # pc, NEW h \in Handlers PROVE ~Busy(h)
      OBVIOUS
    <2>1. phase # "serving" /\ (phase = "bridges" => ~Busy(Main))
      BY <1>0, Phases DEF Between
    <2> QED
      BY <1>0, <2>1 DEF BootTypeOK
  <1>4. phase' = "serving" => turn = Len(BridgeList) + 1
    BY <1>0, <1>1, Phases DEF BootInv, LoopRuns, BootTypeOK
  <1>5. Busy(Main)' => phase' = "bridges" /\ made > 0
    <2> HAVE Busy(Main)'
    <2>1. pc' = pc /\ Busy(Main)
      BY <1>0, <1>2, <1>3
    <2> QED
      BY <1>0, <1>1, <2>1, Phases DEF BootTypeOK
  <1>6. \A h \in Handlers \ {Main} : Busy(h)' => phase' = "serving"
    <2> TAKE h \in Handlers \ {Main}
    <2> HAVE Busy(h)'
    <2>1. pc' = pc /\ Busy(h)
      BY <1>2, <1>3
    <2> QED
      BY <1>0, <1>1, <2>1, Phases DEF BootTypeOK
  <1>7. TypeOK'
    BY <1>0 DEF BootTypeOK, TypeOK, Onward, vars
  <1>8. made' > 0 => turn' <= Len(BridgeList) /\ made' <= Len(RequestsFor(BridgeList[turn]))
    BY <1>0 DEF BootTypeOK, Onward
  <1>9. RequestsFor(BridgeList[turn])' = RequestsFor(BridgeList[turn])
    BY DEF RequestsFor
  <1>10. BootTypeOK'
    BY <1>0, <1>1, <1>4, <1>5, <1>6, <1>7, <1>8, <1>9, Phases DEF BootTypeOK, Onward, Nowhere
  <1>11. LoopRuns'
    BY <1>0 DEF BootInv, LoopRuns, Onward
  <1>12. MainServes' /\ MainFound'
    BY <1>2, <1>0, <1>9 DEF BootInv, MainServes, MainFound, Found, Serves, Onward, vars, CallsFor
  <1>13. LastWentWell'
    <2>1. Between' => pc' = 8
      BY <1>1, Phases DEF Between
    <2>2. CASE pc' = pc
      BY <1>0, <1>1, <1>2, <1>9, <2>1, <2>2, Phases
         DEF BootInv, LastWentWell, Between, NoError, Wired, Onward, vars
    <2>3. CASE pc' = pc + 1 /\ pc \in 1 .. 11
      <3>1. CASE pc' = 8
        <4>1. made' = 0
          BY <1>0, <2>3, <3>1 DEF BootInv, LoopRuns, Onward
        <4>2. Len(RequestsFor(BridgeList[turn])) # 0
          BY DEF RequestsFor
        <4> QED
          BY <1>9, <4>1, <4>2 DEF LastWentWell
      <3>2. CASE pc' # 8
        BY <2>1, <3>2 DEF LastWentWell
      <3> QED
        BY <3>1, <3>2
    <2> QED
      BY <2>2, <2>3
  <1>14. WiredSoFar'
    BY <1>0 DEF BootInv, WiredSoFar, Wired, Onward, vars
  <1> QED
    BY <1>10, <1>11, <1>12, <1>13, <1>14 DEF BootInv

(* The loop goes on to the next bridge when the last request went well. *)
LEMMA NextBridgeInv ==
    ASSUME BootInv, NextBridge
    PROVE  BootInv'
  <1>0. /\ BootTypeOK /\ LoopRuns /\ LastWentWell /\ WiredSoFar
        /\ Len(BridgeList) \in Nat /\ Main \in Handlers /\ pc = 8 /\ turn \in 1 .. Len(BridgeList)
        /\ pc' = pc /\ turn' = turn + 1 /\ made' = 0 /\ UNCHANGED <<vars, expired, barrier, faults, asked>>
    BY ListAssumption, MainAssumption, Phases DEF BootInv, BootTypeOK, NextBridge, Between
  <1>1. \A h \in Handlers : ~Busy(h)
    BY <1>0, Phases DEF BootTypeOK, NextBridge, Between
  <1>2. \A h \in Handlers : ~Busy(h)'
    BY <1>0, <1>1 DEF vars, Busy, Calls
  <1>3. phase' = "bridges"
    BY <1>0, Phases
  <1>4. BootTypeOK'
    <2>1. TypeOK'
      BY <1>0 DEF BootTypeOK, TypeOK, vars
    <2>2. turn' \in 1 .. Len(BridgeList) + 1 /\ pc' \in 0 .. Len(Program)
      BY <1>0 DEF BootTypeOK
    <2> QED
      BY <1>0, <1>2, <1>3, <2>1, <2>2 DEF BootTypeOK, Nowhere
  <1>5. LoopRuns' /\ MainServes' /\ MainFound'
    BY <1>0, <1>2 DEF LoopRuns, MainServes, MainFound
  <1>6. LastWentWell'
    <2>1. \A b : Len(RequestsFor(b)) # 0
      BY DEF RequestsFor
    <2>2. Len(RequestsFor(BridgeList[turn]))' # 0
      BY <2>1 DEF RequestsFor
    <2> QED
      BY <1>0, <2>2 DEF LastWentWell
  <1>7. WiredSoFar'
    <2>1. BridgeList[turn] \notin Internal => Wired(BridgeList[turn])
      BY <1>0 DEF LastWentWell, NextBridge
    <2>2. \A i \in 1 .. turn : BridgeList[i] \notin Internal => Wired(BridgeList[i])
      BY <1>0, <2>1 DEF WiredSoFar
    <2>3. \A b : Wired(b)' <=> Wired(b)
      BY <1>0 DEF vars, Wired
    <2> QED
      BY <1>0, <2>2, <2>3 DEF WiredSoFar
  <1> QED
    BY <1>4, <1>5, <1>6, <1>7 DEF BootInv

(* A bridge stays wired while the main goroutine works. *)
LEMMA StaysWired ==
    ASSUME KeepsWiring, NEW i \in 1 .. Len(BridgeList), BridgeList[i] \notin Internal,
           Wired(BridgeList[i])
    PROVE  Wired(BridgeList[i])'
  BY Listed DEF KeepsWiring, Wired

(* The loop makes its next request. *)
LEMMA RequestNextInv ==
    ASSUME BootInv, RequestNext, TypeOK'
    PROVE  BootInv'
  <1> DEFINE r == Sought(made + 1)
  <1>0. /\ BootTypeOK /\ LoopRuns /\ WiredSoFar
        /\ Len(BridgeList) \in Nat /\ Main \in Handlers /\ pc = 8
        /\ turn \in 1 .. Len(BridgeList) /\ made + 1 \in 1 .. Len(RequestsFor(BridgeList[turn]))
        /\ made' = made + 1 /\ UNCHANGED <<pc, turn, expired, barrier, faults, asked>>
    <2>1. Len(RequestsFor(BridgeList[turn])) \in Nat
      BY DEF RequestsFor
    <2> QED
      BY <2>1, LoopAt, MainAssumption, Phases
         DEF BootInv, BootTypeOK, RequestNext, Between
  <1>1. PICK at \in {"lookup", "vlanLookup", "bridgeFind"} :
          /\ handler' = [handler EXCEPT ![Main] = [op |-> r.op, b |-> r.b, v |-> r.v,
                                                   at |-> at, held |-> {}]]
          /\ UNCHANGED <<net, veth, vlan, master, failed>>
          /\ at \in CallsFor(r.op)
    <2>1. /\ Ask(r)
          /\ r.op = "AddBridge" => r.v = None
          /\ r.op = "AddVLANInterface" => r.b = None
      BY <1>0, RequestSought DEF RequestNext, Sought
    <2> HIDE DEF r
    <2> QED
      BY <2>1 DEF Ask, AddBridge, AddVLANInterface, AddInterfaceToBridge, Begin, CallsFor
  <1>2. /\ handler'[Main] = [op |-> r.op, b |-> r.b, v |-> r.v, at |-> at, held |-> {}]
        /\ \A h \in Handlers \ {Main} : handler'[h] = handler[h]
    BY <1>0, <1>1 DEF BootTypeOK, TypeOK
  <1>3. /\ Busy(Main)'
        /\ \A h \in Handlers \ {Main} : ~Busy(h)'
    BY <1>0, <1>1, <1>2, Phases DEF BootTypeOK, Busy, Calls
  <1>4. phase' = "bridges"
    BY <1>0, Phases
  <1>5. BootTypeOK'
    <2>1. pc' \in 0 .. Len(Program) /\ made' \in Nat /\ made' > 0
      BY <1>0 DEF BootTypeOK
    <2>2. turn' <= Len(BridgeList) /\ made' <= Len(RequestsFor(BridgeList[turn]))'
      BY <1>0 DEF RequestsFor
    <2> QED
      BY <1>0, <1>3, <1>4, <2>1, <2>2 DEF BootTypeOK, Nowhere
  <1>6. LoopRuns'
    BY <1>0 DEF LoopRuns
  <1>7. MainServes'
    <2>1. r = RequestsFor(BridgeList[turn])[made]'
      BY <1>0 DEF Sought, RequestsFor
    <2> HIDE DEF r
    <2> QED
      BY <1>1, <1>2, <2>1 DEF MainServes, Serves, CallsFor
  <1>8. MainFound'
    BY <1>1, <1>2 DEF MainFound, Found
  <1>9. LastWentWell'
    BY <1>3 DEF LastWentWell, Between
  <1>10. WiredSoFar'
    BY <1>0, <1>1, KeepsNode, StaysWired DEF WiredSoFar
  <1> QED
    BY <1>5, <1>6, <1>7, <1>8, <1>9, <1>10 DEF BootInv

(* The main goroutine makes a call of its request, or one of them fails. *)
LEMMA MainWorksInv ==
    ASSUME BootInv, TypeOK', Work(Main) \/ Fail(Main), Busy(Main),
           UNCHANGED <<pc, turn, made, expired, barrier, asked>>, faults' \in 0 .. MaxFaults
    PROVE  BootInv'
  <1> DEFINE s == handler[Main]
             r == Sought(made)
  <1>0. /\ BootTypeOK /\ LoopRuns /\ WiredSoFar /\ Main \in Handlers /\ TypeOK
        /\ pc = 8 /\ made > 0 /\ Len(BridgeList) \in Nat
        /\ turn \in 1 .. Len(BridgeList) /\ made \in 1 .. Len(RequestsFor(BridgeList[turn]))
    BY LoopAt, MainAssumption, Phases DEF BootInv, BootTypeOK
  <1>1. /\ Serves(s, r) /\ Found(s)
        /\ r.op \in {"AddBridge", "AddVLANInterface", "AddInterfaceToBridge"}
        /\ r.op = "AddInterfaceToBridge" => /\ r.b \in Bridges /\ r.v \in Vlans
                                            /\ r.b = BridgeList[turn] /\ r.v = VlanOf[BridgeList[turn]]
    BY <1>0, RequestSought DEF BootInv, MainServes, MainFound, Sought
  <1>2. KeepsWiring /\ Advances
    <2> HIDE DEF r, s
    <2>1. CASE Fail(Main)
      BY <1>0, <1>1, <2>1, MainFails DEF s
    <2>2. CASE Work(Main)
      BY <1>0, <1>1, <2>2, AddBridgeWorks, AddVlanWorks, AddPortWorks DEF s
    <2> QED
      BY <2>1, <2>2
  <1>3. PICK at \in CallsFor(s.op) \cup {"ok", "error"} :
          /\ MovesTo(handler', Main, at)
          /\ Knows(s.op, s.b, s.v, at)
    BY <1>2 DEF Advances
  <1> HIDE DEF s, r
  <1>4. /\ handler'[Main].at = at
        /\ at \in Calls => /\ handler'[Main].op = s.op /\ handler'[Main].b = s.b
                           /\ handler'[Main].v = s.v
        /\ \A h \in Handlers \ {Main} : handler'[h].at = handler[h].at
    BY <1>3 DEF MovesTo, s
  <1>5. s.op = r.op /\ s.b = r.b /\ s.v = r.v
    BY <1>1 DEF Serves
  <1>6. \A h \in Handlers \ {Main} : ~Busy(h)'
    BY <1>0, <1>4, Phases DEF BootTypeOK, Busy, Calls
  <1>7. phase' = "bridges"
    BY <1>0, Phases
  <1>8. RequestsFor(BridgeList[turn])' = RequestsFor(BridgeList[turn]) /\ Sought(made)' = r
    BY DEF RequestsFor, Sought, r
  <1>9. BootTypeOK'
    BY <1>0, <1>6, <1>7, <1>8 DEF BootTypeOK, Nowhere
  <1>10. LoopRuns'
    BY <1>0 DEF LoopRuns
  <1>11. Busy(Main)' => at \in CallsFor(s.op) /\ at \in Calls
    BY <1>3, <1>4 DEF Busy, Calls
  <1>12. MainServes'
    <2>1. Busy(Main)' => Serves(handler'[Main], r)
      BY <1>4, <1>5, <1>11 DEF Serves
    <2> QED
      BY <1>8, <2>1 DEF MainServes, Serves, Sought, CallsFor
  <1>13. MainFound'
    BY <1>3, <1>4, <1>11 DEF MainFound, Found, Knows
  <1>14. LastWentWell'
    <2> SUFFICES ASSUME (Between /\ NoError /\ turn <= Len(BridgeList))',
                        BridgeList[turn] \notin Internal,
                        made = Len(RequestsFor(BridgeList[turn]))
                 PROVE  Wired(BridgeList[turn])'
      BY <1>0, <1>8 DEF LastWentWell
    <2>1. r.op = "AddInterfaceToBridge" /\ r.b = BridgeList[turn] /\ r.v = VlanOf[BridgeList[turn]]
      BY <1>0, <1>1, RequestSought DEF r
    <2>2. at \notin Calls /\ at # "error"
      BY <1>4 DEF Between, NoError, Busy, Calls
    <2>3. at = "ok"
      BY <1>3, <1>5, <2>1, <2>2 DEF CallsFor, Calls
    <2>4. net'[r.b] = "active" /\ "link" \in vlan'[r.v] /\ master'[r.v] # None
      BY <1>3, <1>5, <2>1, <2>3 DEF Knows
    <2> QED
      BY <2>1, <2>4 DEF Wired
  <1>15. WiredSoFar'
    BY <1>0, <1>2, StaysWired DEF WiredSoFar
  <1> QED
    BY <1>9, <1>10, <1>12, <1>13, <1>14, <1>15 DEF BootInv

(* Only a handler that is at a call makes one. *)
LEMMA BusyWorks ==
    ASSUME NEW h \in Handlers, Work(h) \/ Fail(h)
    PROVE  Busy(h)
  <1>1. CASE Fail(h) \/ CallFails(h)
    BY <1>1 DEF CallFails, Fail
  <1>2. CASE ~(Fail(h) \/ CallFails(h))
    BY <1>2 DEF Work, Busy, Calls, Succeeds, FindNetwork, DefineNetwork, CreateNetwork,
       DestroyNetwork, UndefineNetwork, FindVeth, AddVeth, FindPeer, FindBridge, BringVethUp,
       TakeVethDown, ConfigureVeth, DeleteVeth, FindVlan, FindParent, AddVlan, SetVlanUp,
       FindLink, SetLinkMaster, SetVlanDown, DeleteVlan
  <1> QED
    BY <1>1, <1>2

(* Every step of a handler leaves the others where they are. *)
LEMMA OthersStay ==
    ASSUME TypeOK, NEW h \in Handlers, Work(h) \/ Fail(h) \/ Request(h)
    PROVE  \A g \in Handlers : g # h => handler'[g].at = handler[g].at
  <1>1. CASE Request(h)
    BY <1>1, RequestMoves
  <1>2. CASE Fail(h) \/ CallFails(h)
    BY <1>2, FailMoves DEF MovesTo, CallFails
  <1>3. CASE BringVethUp(h) \/ TakeVethDown(h)
    <2>1. \E next \in Calls \cup {"ok"} : \E at, facts : ConfigureVeth(h, at, facts, next)
      BY <1>3 DEF BringVethUp, TakeVethDown, Calls
    <2>2. \E next : MovesTo(handler', h, next)
      BY <2>1, ConfigureMoves
    <2> QED
      BY <2>2 DEF MovesTo
  <1>4. CASE Work(h) /\ ~(CallFails(h) \/ BringVethUp(h) \/ TakeVethDown(h))
    <2>1. \E at : MovesTo(handler', h, at)
      BY <1>4, WorkMoves DEF Work
    <2> QED
      BY <2>1 DEF MovesTo
  <1> QED
    BY <1>1, <1>2, <1>3, <1>4

(* A goroutine of a client works only while the process serves. *)
LEMMA ClientsWorkInv ==
    ASSUME BootInv, TypeOK', NEW h \in Handlers \ {Main},
           Work(h) \/ Fail(h) \/ (Request(h) /\ phase = "serving"),
           UNCHANGED <<pc, turn, made, expired, barrier>>,
           faults' \in 0 .. MaxFaults, asked' \in 0 .. MaxRequests
    PROVE  BootInv'
  <1>0. /\ BootTypeOK /\ TypeOK /\ Main \in Handlers /\ pc \in 0 .. 12
        /\ \A g \in Handlers : g # h => handler'[g].at = handler[g].at
        /\ Len(BridgeList) \in Nat
    BY MainAssumption, ListAssumption, OthersStay, Phases DEF BootInv, BootTypeOK
  <1>1. phase = "serving"
    BY <1>0, BusyWorks DEF BootTypeOK
  <1>2. pc = 12 /\ phase' = "serving"
    BY <1>0, <1>1, Phases
  <1>3. ~Busy(Main)'
    BY <1>0, <1>1 DEF BootTypeOK, Busy, Calls
  <1>4. turn = Len(BridgeList) + 1 /\ made = 0
    BY <1>0, <1>1 DEF BootTypeOK
  <1>5. BootTypeOK'
    BY <1>0, <1>2, <1>3, <1>4 DEF BootTypeOK, Nowhere
  <1> QED
    BY <1>0, <1>2, <1>3, <1>4, <1>5
       DEF BootInv, LoopRuns, MainServes, MainFound, LastWentWell, Between, WiredSoFar

(* systemd starts the agent, on whatever node it finds. *)
LEMMA StartInv ==
    ASSUME BootInv, Start
    PROVE  BootInv'
  <1>0. /\ BootTypeOK /\ Main \in Handlers /\ Len(BridgeList) \in Nat /\ pc = 0 /\ pc' = 1
        /\ turn' = 1 /\ made' = 0 /\ expired' = FALSE /\ UNCHANGED <<vars, barrier, faults, asked>>
    BY MainAssumption, ListAssumption, Phases DEF BootInv, BootTypeOK, Start
  <1>1. phase' # "bridges" /\ phase' # "serving" /\ phase = "down"
    BY <1>0, Phases
  <1>2. \A h \in Handlers : ~Busy(h)
    BY <1>0, <1>1 DEF BootTypeOK
  <1>3. \A h \in Handlers : ~Busy(h)'
    BY <1>0, <1>2 DEF vars, Busy, Calls
  <1>4. TypeOK'
    BY <1>0 DEF BootTypeOK, TypeOK, vars
  <1>5. pc' \in 0 .. Len(Program) /\ turn' \in 1 .. Len(BridgeList) + 1
    BY <1>0, Phases
  <1>6. expired' \in BOOLEAN /\ ~Busy(Main)'
    BY <1>0, <1>3
  <1>7. BootTypeOK'
    BY <1>0, <1>1, <1>3, <1>4, <1>5, <1>6 DEF BootTypeOK, Nowhere
  <1> QED
    BY <1>0, <1>1, <1>3, <1>7
       DEF BootInv, LoopRuns, MainServes, MainFound, LastWentWell, Between, WiredSoFar

(* Every step keeps the invariant. *)
LEMMA BootInvStep ==
    ASSUME BootInv, [BootNext]_<<vars, bootVars>>
    PROVE  BootInv'
  <1>0. /\ TypeOK' /\ BootTypeOK /\ Main \in Handlers /\ pc \in 0 .. 12
        /\ faults \in 0 .. MaxFaults /\ expired \in BOOLEAN /\ asked \in 0 .. MaxRequests
        /\ MaxFaults \in Nat /\ MaxRequests \in Nat /\ barrier \in Barriers \cup {Nowhere}
    BY BootSteps, StepType, MainAssumption, BoundAssumption, Phases DEF BootInv, BootTypeOK
  <1>1. Fault => faults' \in 0 .. MaxFaults
    BY <1>0 DEF Fault
  <1>2. CASE UNCHANGED <<vars, bootVars>>
    BY <1>0, <1>2, OnwardInv DEF Onward, bootVars
  <1>3. CASE Start
    BY <1>0, <1>3, StartInv
  <1>4. CASE Step
    <2>1. pc \in 1 .. 11 /\ pc # 8
      BY <1>0, <1>4, Phases DEF Step
    <2> QED
      BY <1>0, <1>4, <2>1, OnwardInv DEF Step, Onward
  <1>5. CASE BridgesDone
    <2>1. pc = 8
      BY <1>0, <1>5, Phases DEF BridgesDone, Between
    <2> QED
      BY <1>0, <1>5, <2>1, OnwardInv DEF BridgesDone, Onward
  <1>6. CASE Expire \/ Change
    BY <1>0, <1>1, <1>6, OnwardInv DEF Expire, Change, Onward
  <1>7. CASE Exit \/ StepFails \/ Crash \/ Reboot
    BY <1>0, <1>1, <1>7, DownInv
       DEF Exit, StepFails, Crash, Reboot, Gone, AgentDies, NodeGoesDown, Down
  <1>8. ASSUME NEW h \in Handlers, ClientRequest(h) PROVE BootInv'
    <2>1. h # Main /\ asked' \in 0 .. MaxRequests
      BY <1>0, <1>8 DEF ClientRequest
    <2> QED
      BY <1>0, <1>8, <2>1, ClientsWorkInv DEF ClientRequest
  <1>9. ASSUME NEW h \in Handlers, HandlerWorks(h) \/ HandlerFails(h) PROVE BootInv'
    <2>1. /\ Work(h) \/ Fail(h)
          /\ UNCHANGED <<pc, turn, made, expired, barrier, asked>> /\ faults' \in 0 .. MaxFaults
      BY <1>0, <1>1, <1>9 DEF HandlerWorks, HandlerFails, bootVars
    <2>2. Busy(h)
      BY <2>1, BusyWorks
    <2>3. CASE h = Main
      BY <1>0, <2>1, <2>2, <2>3, MainWorksInv
    <2>4. CASE h # Main
      BY <1>0, <2>1, <2>4, ClientsWorkInv
    <2> QED
      BY <2>3, <2>4
  <1> QED
    BY <1>2, <1>3, <1>4, <1>5, <1>6, <1>7, <1>8, <1>9, NextBridgeInv, RequestNextInv, <1>0
       DEF BootNext

(* A fresh node without an agent satisfies it. *)
LEMMA BootInvInit == BootInit => BootInv
  <1> SUFFICES ASSUME BootInit PROVE BootInv
    OBVIOUS
  <1>1. /\ TypeOK /\ Main \in Handlers /\ Len(BridgeList) \in Nat
        /\ MaxFaults \in Nat /\ MaxRequests \in Nat
    BY InitType, MainAssumption, ListAssumption, BoundAssumption DEF BootInit
  <1>2. \A h \in Handlers : ~Busy(h)
    BY DEF BootInit, Init, Busy, Idle, Calls
  <1>3. phase = "down" /\ Len(Program) = 12
    BY Phases DEF BootInit
  <1>4. pc \in 0 .. Len(Program) /\ turn \in 1 .. Len(BridgeList) + 1 /\ ~Busy(Main)
    BY <1>1, <1>2, <1>3 DEF BootInit
  <1>5. expired \in BOOLEAN
    BY DEF BootInit
  <1>6. BootTypeOK
    BY <1>1, <1>2, <1>3, <1>4, <1>5 DEF BootTypeOK, BootInit
  <1> QED
    BY <1>1, <1>2, <1>3, <1>6
       DEF BootInv, LoopRuns, MainServes, MainFound, LastWentWell, Between, WiredSoFar, BootInit

(* The whole invariant holds, whatever becomes of the agent. *)
LEMMA BootInvHolds == BootSpec => []BootInv
  BY BootInvInit, BootInvStep, PTL DEF BootSpec

------------------------------------------------------------------------------
(* Theorems *)

(* The process is at a step of its program and the loop at a bridge of its *)
(* list; the main goroutine calls handlers only from the loop, and clients *)
(* are let in only after it.                                               *)
THEOREM TypeCorrectBoot == BootSpec => []BootTypeOK
  <1>1. BootInv => BootTypeOK
    BY DEF BootInv
  <1> QED
    BY <1>1, BootInvHolds, PTL

(* Whatever earlier starts, clients, crashes and reboots left behind, the  *)
(* agent serves only when every external bridge of its list runs and its   *)
(* VLAN link is there and a port of a bridge.                              *)
THEOREM ServesWired == BootSpec => ServingNodeIsWired
  <1>1. ASSUME BootInv, [BootNext]_<<vars, bootVars>>, BootInv'
        PROVE  [phase # "serving" /\ phase' = "serving"
                 => \A b \in External : /\ net[b] = "active"
                                        /\ "link" \in vlan[VlanOf[b]]
                                        /\ master[VlanOf[b]] # None]_<<vars, bootVars>>
    <2> SUFFICES ASSUME phase # "serving", phase' = "serving", NEW b \in External
                 PROVE  Wired(b)
      BY DEF Wired
    <2>1. pc \in 0 .. 12 /\ pc' \in 0 .. 12 /\ pc # 12 /\ pc' = 12
      BY <1>1, Phases DEF BootInv, BootTypeOK
    <2>2. Step \/ BridgesDone
      BY <1>1, <2>1 DEF BootNext, Start, RequestNext, NextBridge, Exit, StepFails, Gone, Expire,
         Crash, Reboot, Change, ClientRequest, HandlerWorks, HandlerFails, bootVars
    <2>3. pc \in 9 .. 11
      BY <2>1, <2>2, Phases DEF Step, BridgesDone, Between
    <2>4. turn = Len(BridgeList) + 1 /\ Len(BridgeList) \in Nat
      BY <1>1, <2>3, ListAssumption DEF BootInv, LoopRuns
    <2>5. PICK i \in 1 .. Len(BridgeList) : b = BridgeList[i]
      BY ListAssumption DEF External
    <2>6. b \notin Internal
      BY DEF External
    <2> QED
      BY <1>1, <2>3, <2>4, <2>5, <2>6 DEF BootInv, WiredSoFar
  <1> QED
    BY <1>1, BootInvHolds, PTL DEF BootSpec, ServingNodeIsWired

(* No start of the agent, no client and no reboot leads a network that is  *)
(* defined but not running out of that state.                              *)
THEOREM StuckThroughStarts == BootSpec => StuckForever
  <1>1. BootInv /\ [BootNext]_<<vars, bootVars>> => [\A b \in Bridges : Stuck(b) => Stuck(b)']_vars
    <2> SUFFICES ASSUME BootInv, [BootNext]_<<vars, bootVars>>, NEW b \in Bridges, Stuck(b)
                 PROVE  Stuck(b)'
      OBVIOUS
    <2> QED
      BY BootSteps, StuckStep DEF BootInv, BootTypeOK
  <1> QED
    BY <1>1, BootInvHolds, PTL DEF BootSpec, StuckForever

(* Nor does one leave a port of a bridge that does not run.                *)
THEOREM PortsThroughStarts == BootSpec => []PortsOfRunningBridges
  <1>1. BootInit => PortsInv
    BY InitPorts DEF BootInit
  <1>2. ASSUME BootInv, PortsInv, [BootNext]_<<vars, bootVars>> PROVE PortsInv'
    BY <1>2, BootSteps, StepPorts DEF BootInv
  <1>3. PortsInv => PortsOfRunningBridges
    BY DEF PortsInv
  <1> QED
    BY <1>1, <1>2, <1>3, BootInvHolds, PTL DEF BootSpec

==============================================================================
