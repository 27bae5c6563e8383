---------------------------- MODULE BridgeProofs ----------------------------
(***************************************************************************)
(* Theorems about Bridge, for any bridges, links and handlers.             *)
(***************************************************************************)
EXTENDS Bridge, TLAPS

------------------------------------------------------------------------------
(* What any program can do to the node that serves these requests: calls   *)
(* may fail and the agent may die at any moment, and the clients of a dead *)
(* one are told or not.                                                    *)
Dies ==
    /\ handler' = [h \in Handlers |-> Idle]
    /\ failed' \in SUBSET (failed \cup Interrupted)
    /\ UNCHANGED <<net, veth, vlan, master>>

NodeStep ==
    \/ \E h \in Handlers : Request(h) \/ Work(h) \/ Fail(h)
    \/ Dies \/ NodeGoesDown
    \/ UNCHANGED vars

(* The steps of this specification are among them. *)
LEMMA NextSteps == [Next]_vars => NodeStep
  BY DEF Next, NodeStep, AgentRestart, AgentDies, Dies, NodeReboot

------------------------------------------------------------------------------
(* How handlers move *)

(* Proceed keeps the handler states well typed. *)
LEMMA ProceedType ==
    ASSUME handler \in [Handlers -> HandlerState], NEW h \in Handlers,
           NEW at \in Calls \cup Done, NEW got \in SUBSET Handles
    PROVE  Proceed(h, at, got) \in [Handlers -> HandlerState]
  BY DEF Proceed, HandlerState

(* So does Respond. *)
LEMMA RespondType ==
    ASSUME handler \in [Handlers -> HandlerState], NEW h \in Handlers, NEW result \in Done
    PROVE  Respond(h, result) \in [Handlers -> HandlerState]
  BY DEF Respond, Idle, HandlerState, Done

(* So does dropping stale handles. *)
LEMMA StaleType ==
    ASSUME NEW hs \in [Handlers -> HandlerState], NEW kind, NEW name
    PROVE  Stale(hs, kind, name) \in [Handlers -> HandlerState]
  BY DEF Stale, HandlerState

(* A failed call is answered, or followed by another call. *)
LEMMA OnErrorType ==
    ASSUME NEW op, NEW at
    PROVE  OnError(op, at) \subseteq Calls \cup Done
  BY DEF OnError, Calls, Done

------------------------------------------------------------------------------
(* Type correctness *)

(* A request is well typed. *)
LEMMA BeginType ==
    ASSUME TypeOK, NEW h \in Handlers, NEW op, NEW b \in Bridges \cup {None},
           NEW v \in Vlans \cup {None}, NEW at \in Calls, Begin(h, op, b, v, at)
    PROVE  TypeOK'
  BY DEF TypeOK, Begin, HandlerState

(* So is the pair after a call on it. *)
LEMMA ConfigureVethType ==
    ASSUME TypeOK, NEW h \in Handlers, NEW at, NEW facts,
           veth[handler[h].b] \in SUBSET VethFacts => facts \in SUBSET VethFacts,
           NEW next \in Calls \cup {"ok"}, ConfigureVeth(h, at, facts, next)
    PROVE  TypeOK'
  <1>1. handler' \in [Handlers -> HandlerState]
    BY ProceedType, RespondType DEF TypeOK, ConfigureVeth, Done
  <1>2. veth' \in [Bridges -> SUBSET VethFacts]
    BY DEF TypeOK, ConfigureVeth
  <1> QED
    BY <1>1, <1>2 DEF TypeOK, ConfigureVeth

(* Every step of a handler keeps the types. *)
LEMMA WorkType ==
    ASSUME TypeOK, NEW h \in Handlers, Work(h) \/ Fail(h)
    PROVE  TypeOK'
  <1> USE DEF Calls, Done, Handles, VethFacts, VlanFacts
  <1>1. CASE FindNetwork(h)
    BY <1>1, ProceedType, RespondType DEF TypeOK, FindNetwork
  <1>2. CASE DefineNetwork(h)
    BY <1>2, ProceedType DEF TypeOK, DefineNetwork
  <1>3. CASE CreateNetwork(h)
    BY <1>3, ProceedType, RespondType DEF TypeOK, CreateNetwork
  <1>4. CASE DestroyNetwork(h)
    <2>1. handler' \in [Handlers -> HandlerState]
      BY <1>4, ProceedType, StaleType DEF TypeOK, DestroyNetwork
    <2>2. veth' \in [Bridges -> SUBSET VethFacts]
      BY <1>4 DEF TypeOK, DestroyNetwork
    <2>3. master' \in [Vlans -> Bridges \cup {None}]
      BY <1>4 DEF TypeOK, DestroyNetwork
    <2> QED
      BY <1>4, <2>1, <2>2, <2>3 DEF TypeOK, DestroyNetwork
  <1>5. CASE UndefineNetwork(h)
    BY <1>5, ProceedType, StaleType DEF TypeOK, UndefineNetwork
  <1>6. CASE FindVeth(h)
    BY <1>6, ProceedType DEF TypeOK, FindVeth
  <1>7. CASE AddVeth(h)
    BY <1>7, ProceedType DEF TypeOK, AddVeth
  <1>8. CASE FindPeer(h)
    BY <1>8, ProceedType DEF TypeOK, FindPeer
  <1>9. CASE FindBridge(h)
    BY <1>9, ProceedType DEF TypeOK, FindBridge
  <1>10. CASE BringVethUp(h)
    BY <1>10, ConfigureVethType DEF BringVethUp
  <1>11. CASE TakeVethDown(h)
    BY <1>11, ConfigureVethType DEF TakeVethDown
  <1>12. CASE DeleteVeth(h)
    BY <1>12, RespondType, StaleType DEF TypeOK, DeleteVeth
  <1>13. CASE FindVlan(h)
    BY <1>13, RespondType DEF TypeOK, FindVlan
  <1>14. CASE FindParent(h)
    BY <1>14, ProceedType DEF TypeOK, FindParent
  <1>15. CASE AddVlan(h)
    BY <1>15, ProceedType DEF TypeOK, AddVlan
  <1>16. CASE SetVlanUp(h)
    BY <1>16, RespondType DEF TypeOK, SetVlanUp
  <1>17. CASE FindLink(h)
    BY <1>17, ProceedType, RespondType DEF TypeOK, FindLink
  <1>18. CASE SetLinkMaster(h)
    <2>1. handler[h].b \in Bridges \cup {None}
      BY DEF TypeOK, HandlerState
    <2>2. handler' \in [Handlers -> HandlerState]
      BY <1>18, RespondType DEF TypeOK, SetLinkMaster
    <2>3. master' \in [Vlans -> Bridges \cup {None}]
      BY <1>18, <2>1 DEF TypeOK, SetLinkMaster
    <2> QED
      BY <1>18, <2>2, <2>3 DEF TypeOK, SetLinkMaster
  <1>19. CASE SetVlanDown(h)
    BY <1>19, ProceedType DEF TypeOK, SetVlanDown
  <1>20. CASE DeleteVlan(h)
    BY <1>20, RespondType, StaleType DEF TypeOK, DeleteVlan
  <1>21. CASE Fail(h)
    <2>1. PICK next \in OnError(handler[h].op, handler[h].at) :
            /\ handler' = IF next \in Done THEN Respond(h, next) ELSE Proceed(h, next, {})
            /\ failed' = IF next = "error"
                         THEN failed \cup ({handler[h].b, handler[h].v} \ {None}) ELSE failed
      BY <1>21 DEF Fail
    <2>2. next \in Calls \cup Done
      BY OnErrorType
    <2>3. handler' \in [Handlers -> HandlerState]
      BY <2>1, <2>2, ProceedType, RespondType DEF TypeOK
    <2>4. failed' \in SUBSET (Bridges \cup Vlans)
      BY <2>1 DEF TypeOK, HandlerState
    <2> QED
      BY <1>21, <2>3, <2>4 DEF TypeOK, Fail
  <1> QED
    BY <1>1, <1>2, <1>3, <1>4, <1>5, <1>6, <1>7, <1>8, <1>9, <1>10, <1>11, <1>12,
       <1>13, <1>14, <1>15, <1>16, <1>17, <1>18, <1>19, <1>20, <1>21 DEF Work, CallFails

(* A request keeps the types. *)
LEMMA RequestType ==
    ASSUME TypeOK, NEW h \in Handlers, Request(h)
    PROVE  TypeOK'
  BY BeginType DEF Request, AddBridge, DeleteBridge, AddInterfaceToBridge,
     DeleteInterfaceFromBridge, AddVLANInterface, DeleteVLANInterface, Calls

(* Restarts and reboots keep the types. *)
LEMMA RestartType ==
    ASSUME TypeOK, Dies \/ NodeGoesDown
    PROVE  TypeOK'
  <1>1. handler' \in [Handlers -> HandlerState]
    BY DEF Dies, NodeGoesDown, Idle, HandlerState, Done
  <1>2. failed' \in SUBSET (Bridges \cup Vlans)
    <2>1. \A h \in Handlers : {handler[h].b, handler[h].v} \subseteq Bridges \cup Vlans \cup {None}
      BY DEF TypeOK, HandlerState
    <2> QED
      BY <2>1 DEF TypeOK, Dies, NodeGoesDown, Interrupted
  <1>3. CASE Dies
    BY <1>1, <1>2, <1>3 DEF TypeOK, Dies
  <1>4. CASE NodeGoesDown
    BY <1>1, <1>2, <1>4 DEF TypeOK, NodeGoesDown
  <1> QED
    BY <1>3, <1>4

(* The initial state is well typed, and every step keeps it so. *)
LEMMA InitType == Init => TypeOK
  BY DEF Init, TypeOK, HandlerState, Idle, Done

(* Every step keeps the state well typed. *)
LEMMA StepType ==
    ASSUME TypeOK, NodeStep
    PROVE  TypeOK'
  <1>1. CASE UNCHANGED vars
    BY <1>1 DEF TypeOK, vars
  <1> QED
    BY <1>1, WorkType, RequestType, RestartType DEF NodeStep

(* In particular those of this specification. *)
LEMMA NextType == TypeOK /\ [Next]_vars => TypeOK'
  BY NextSteps, StepType

(* Every handler of bridge.go and vlan.go is at a call of its own          *)
(* sequence, and nothing but bridges and links of the node is kept.        *)
THEOREM TypeCorrect == Spec => []TypeOK
  BY InitType, NextType, PTL DEF Spec

------------------------------------------------------------------------------
(* What a handler works on *)

(* The requests in the course of which a call is made. *)
RequestsMaking(at) ==
    CASE at = "bridgeFind" -> {"AddBridge", "AddInterfaceToBridge"}
      [] at \in {"vlanLookup", "parentFind", "vlanAdd", "vlanUp", "linkFind",
                 "linkMaster", "linkNoMaster", "vlanDown", "vlanDel"}
                         -> PortRequests \cup LinkRequests
      [] OTHER           -> BridgeRequests

(* A busy handler makes a call of its request, on a bridge or link that    *)
(* the request names.                                                      *)
OwnCall(s) ==
    s.at \in Calls =>
        /\ s.op \in RequestsMaking(s.at)
        /\ s.op \in BridgeRequests \cup PortRequests => s.b \in Bridges
        /\ s.op \in PortRequests \cup LinkRequests => s.v \in Vlans

OwnCalls == \A h \in Handlers : OwnCall(handler[h])

(* Proceed, Respond and Stale do not change what a handler works on. *)
LEMMA ProceedOwnCalls ==
    ASSUME handler \in [Handlers -> HandlerState], OwnCalls, NEW h \in Handlers, Busy(h),
           NEW at, NEW got,
           handler[h].op \in RequestsMaking(handler[h].at) /\ at \in Calls
               => handler[h].op \in RequestsMaking(at)
    PROVE  \A g \in Handlers : OwnCall(Proceed(h, at, got)[g])
  BY DEF OwnCalls, OwnCall, Proceed, Busy, HandlerState

(* Nor does answering a request leave anyone at a call of another. *)
LEMMA RespondOwnCalls ==
    ASSUME handler \in [Handlers -> HandlerState], OwnCalls, NEW h \in Handlers,
           NEW result \in Done
    PROVE  \A g \in Handlers : OwnCall(Respond(h, result)[g])
  BY DEF OwnCalls, OwnCall, Respond, Idle, Calls, Done

(* Nor does dropping what is stale. *)
LEMMA StaleOwnCalls ==
    ASSUME NEW hs \in [Handlers -> HandlerState], NEW kind, NEW name,
           \A g \in Handlers : OwnCall(hs[g])
    PROVE  \A g \in Handlers : OwnCall(Stale(hs, kind, name)[g])
  BY DEF OwnCall, Stale, HandlerState

(* A failed call is followed by one of the same request. *)
LEMMA OnErrorOwnCall ==
    ASSUME NEW op, NEW at \in Calls, op \in RequestsMaking(at),
           NEW next \in OnError(op, at), next \in Calls
    PROVE  op \in RequestsMaking(next)
  BY DEF OnError, RequestsMaking, Calls, BridgeRequests, PortRequests, LinkRequests

(* Every step of a handler leads to a call of its own request. *)
LEMMA WorkOwnCalls ==
    ASSUME TypeOK, OwnCalls, NEW h \in Handlers, Work(h) \/ Fail(h)
    PROVE  OwnCalls'
  <1> USE DEF RequestsMaking, BridgeRequests, PortRequests, LinkRequests
  <1>0. handler \in [Handlers -> HandlerState]
    BY DEF TypeOK
  <1>1. SUFFICES \A g \in Handlers : OwnCall(handler'[g])
    BY DEF OwnCalls, OwnCall, Calls
  <1>2. CASE FindNetwork(h)
    BY <1>0, <1>2, ProceedOwnCalls, RespondOwnCalls DEF FindNetwork, Succeeds, Busy, Calls, Done
  <1>3. CASE DefineNetwork(h)
    BY <1>0, <1>3, ProceedOwnCalls DEF DefineNetwork, Succeeds, Busy, Calls
  <1>4. CASE CreateNetwork(h)
    BY <1>0, <1>4, ProceedOwnCalls, RespondOwnCalls DEF CreateNetwork, Succeeds, Busy, Calls, Done
  <1>5. CASE DestroyNetwork(h)
    <2>1. \A g \in Handlers : OwnCall(Proceed(h, "undefine", {})[g])
      BY <1>0, <1>5, ProceedOwnCalls DEF DestroyNetwork, Succeeds, Busy, Calls
    <2>2. Proceed(h, "undefine", {}) \in [Handlers -> HandlerState]
      BY <1>0, ProceedType DEF Calls
    <2> QED
      BY <1>5, <2>1, <2>2, StaleOwnCalls DEF DestroyNetwork
  <1>6. CASE UndefineNetwork(h)
    <2>1. \A g \in Handlers : OwnCall(Proceed(h, "vethFind", {})[g])
      BY <1>0, <1>6, ProceedOwnCalls DEF UndefineNetwork, Succeeds, Busy, Calls
    <2>2. Proceed(h, "vethFind", {}) \in [Handlers -> HandlerState]
      BY <1>0, ProceedType DEF Calls
    <2> QED
      BY <1>6, <2>1, <2>2, StaleOwnCalls DEF UndefineNetwork
  <1>7. CASE FindVeth(h) \/ AddVeth(h) \/ FindPeer(h) \/ FindBridge(h)
    BY <1>0, <1>7, ProceedOwnCalls
       DEF FindVeth, AddVeth, FindPeer, FindBridge, Succeeds, Busy, Calls
  <1>8. CASE BringVethUp(h) \/ TakeVethDown(h)
    BY <1>0, <1>8, ProceedOwnCalls, RespondOwnCalls
       DEF BringVethUp, TakeVethDown, ConfigureVeth, Succeeds, Busy, Calls, Done
  <1>9. CASE DeleteVeth(h) \/ DeleteVlan(h)
    <2>1. /\ \A g \in Handlers : OwnCall(Respond(h, "ok")[g])
          /\ Respond(h, "ok") \in [Handlers -> HandlerState]
      BY <1>0, RespondOwnCalls, RespondType DEF Done
    <2> QED
      BY <1>9, <2>1, StaleOwnCalls DEF DeleteVeth, DeleteVlan
  <1>10. CASE FindVlan(h) \/ SetVlanUp(h) \/ SetLinkMaster(h)
    BY <1>0, <1>10, RespondOwnCalls DEF FindVlan, SetVlanUp, SetLinkMaster, Done
  <1>11. CASE FindParent(h) \/ AddVlan(h) \/ SetVlanDown(h)
    BY <1>0, <1>11, ProceedOwnCalls DEF FindParent, AddVlan, SetVlanDown, Succeeds, Busy, Calls
  <1>12. CASE FindLink(h)
    BY <1>0, <1>12, ProceedOwnCalls, RespondOwnCalls DEF FindLink, Succeeds, Busy, Calls, Done
  <1>13. CASE Fail(h)
    <2>1. PICK next \in OnError(handler[h].op, handler[h].at) :
            handler' = IF next \in Done THEN Respond(h, next) ELSE Proceed(h, next, {})
      BY <1>13 DEF Fail
    <2>2. CASE next \in Done
      BY <1>0, <2>1, <2>2, RespondOwnCalls
    <2>3. CASE next \notin Done
      <3>1. Busy(h) /\ handler[h].at \in Calls
        BY <1>13 DEF Fail, Busy
      <3>2. next \in Calls =>
              (handler[h].op \in RequestsMaking(handler[h].at) =>
                  handler[h].op \in RequestsMaking(next))
        BY <2>1, <3>1, OnErrorOwnCall
      <3> HIDE DEF RequestsMaking
      <3> QED
        BY <1>0, <2>1, <2>3, <3>1, <3>2, ProceedOwnCalls
    <2> QED
      BY <2>2, <2>3
  <1> QED
    BY <1>2, <1>3, <1>4, <1>5, <1>6, <1>7, <1>8, <1>9, <1>10, <1>11, <1>12, <1>13 DEF Work, CallFails

(* The agent starts with no request under way. *)
LEMMA InitOwnCalls == Init => OwnCalls
  BY DEF Init, OwnCalls, OwnCall, Idle, Calls

(* Requests, calls, restarts and reboots keep handlers at their own calls. *)
LEMMA StepOwnCalls ==
    ASSUME TypeOK, OwnCalls, NodeStep
    PROVE  OwnCalls'
  <1>1. CASE UNCHANGED vars
    BY <1>1 DEF OwnCalls, OwnCall, vars, Calls
  <1>2. ASSUME NEW h \in Handlers, Request(h) PROVE OwnCalls'
    BY <1>2 DEF Request, AddBridge, DeleteBridge, AddInterfaceToBridge,
       DeleteInterfaceFromBridge, AddVLANInterface, DeleteVLANInterface, Begin, TypeOK,
       OwnCalls, OwnCall, Calls, RequestsMaking, BridgeRequests, PortRequests, LinkRequests
  <1>3. CASE Dies \/ NodeGoesDown
    BY <1>3 DEF Dies, NodeGoesDown, OwnCalls, OwnCall, Idle, Calls
  <1> QED
    BY <1>1, <1>2, <1>3, WorkOwnCalls DEF NodeStep

(* In particular those of this specification. *)
LEMMA NextOwnCalls == TypeOK /\ OwnCalls /\ [Next]_vars => OwnCalls'
  BY NextSteps, StepOwnCalls

------------------------------------------------------------------------------
(* A port has its bridge *)

(* A handle on a bridge or link that has not gone stale is one on a        *)
(* running bridge or an existing link.                                     *)
LiveHandle(s) ==
    /\ "bridge" \in s.held => s.b \in Bridges /\ net[s.b] = "active"
    /\ "vlan" \in s.held => s.v \in Vlans /\ "link" \in vlan[s.v]

LiveHandles == \A h \in Handlers : LiveHandle(handler[h])

PortsInv == TypeOK /\ OwnCalls /\ LiveHandles /\ PortsOfRunningBridges

(* A step in which no bridge stops and no link goes, and which leaves the  *)
(* handlers with no more bridges and links than they had.                  *)
LEMMA KeepsLiveHandles ==
    ASSUME LiveHandles,
           \A b \in Bridges : net[b] = "active" => net'[b] = "active",
           \A v \in Vlans : "link" \in vlan[v] => "link" \in vlan'[v],
           \A g \in Handlers :
               /\ handler'[g].held \cap {"bridge", "vlan"} \subseteq handler[g].held
               /\ handler'[g].held \cap {"bridge", "vlan"} # {} =>
                     handler'[g].b = handler[g].b /\ handler'[g].v = handler[g].v
    PROVE  LiveHandles'
  BY DEF LiveHandles, LiveHandle

(* A step that adds no port and stops no bridge keeps the ports' bridges. *)
LEMMA KeepsPorts ==
    ASSUME PortsOfRunningBridges, TypeOK,
           \A b \in Bridges : net[b] = "active" => net'[b] = "active",
           \A v \in Vlans : "link" \in vlan[v] => "link" \in vlan'[v],
           \A v \in Vlans : master'[v] \in {master[v], None},
           \A b \in Bridges : "master" \in veth'[b] => "master" \in veth[b]
    PROVE  PortsOfRunningBridges'
  BY DEF PortsOfRunningBridges, TypeOK

(* No step of a handler leaves a port without a running bridge. *)
LEMMA WorkPorts ==
    ASSUME PortsInv, NEW h \in Handlers, Work(h) \/ Fail(h)
    PROVE  LiveHandles' /\ PortsOfRunningBridges'
  <1>0. /\ handler \in [Handlers -> HandlerState]
        /\ TypeOK /\ LiveHandles /\ PortsOfRunningBridges
        /\ OwnCall(handler[h])
    BY DEF PortsInv, TypeOK, OwnCalls
  <1> USE NamesAssumption
  <1>1. CASE FindNetwork(h) \/ FindVeth(h) \/ FindPeer(h) \/ FindVlan(h) \/ FindParent(h)
    <2>1. LiveHandles'
      BY <1>0, <1>1, KeepsLiveHandles
         DEF Respond, Idle, Proceed, HandlerState,
             FindNetwork, FindVeth, FindPeer, FindVlan, FindParent
    <2>2. PortsOfRunningBridges'
      BY <1>0, <1>1, KeepsPorts DEF FindNetwork, FindVeth, FindPeer, FindVlan, FindParent
    <2> QED
      BY <2>1, <2>2
  <1>2. CASE DefineNetwork(h)
    <2>1. \A b \in Bridges : net[b] = "active" => net'[b] = "active"
      BY <1>0, <1>2 DEF DefineNetwork, Succeeds, Possible, TypeOK
    <2>2. LiveHandles'
      BY <1>0, <1>2, <2>1, KeepsLiveHandles DEF Proceed, HandlerState, DefineNetwork
    <2>3. PortsOfRunningBridges'
      BY <1>0, <1>2, <2>1, KeepsPorts DEF DefineNetwork
    <2> QED
      BY <2>2, <2>3
  <1>3. CASE CreateNetwork(h)
    <2>1. \A b \in Bridges : net[b] = "active" => net'[b] = "active"
      BY <1>0, <1>3 DEF CreateNetwork, TypeOK
    <2>2. LiveHandles'
      BY <1>0, <1>3, <2>1, KeepsLiveHandles DEF Respond, Idle, Proceed, HandlerState, CreateNetwork
    <2>3. PortsOfRunningBridges'
      BY <1>0, <1>3, <2>1, KeepsPorts DEF CreateNetwork
    <2> QED
      BY <2>2, <2>3
  <1>4. CASE DestroyNetwork(h)
    <2> DEFINE b == handler[h].b
               hs == Proceed(h, "undefine", {})
    <2>1. hs \in [Handlers -> HandlerState]
      BY <1>0, ProceedType DEF Calls
    <2>2. \A g \in Handlers : hs[g].b = handler[g].b /\ hs[g].v = handler[g].v
                              /\ hs[g].held = handler[g].held
      BY <1>0 DEF Proceed, HandlerState
    <2>3. handler' = Stale(hs, "bridge", b)
      BY <1>4 DEF DestroyNetwork
    <2> HIDE DEF hs
    <2>4. \A g \in Handlers : /\ handler'[g].b = handler[g].b /\ handler'[g].v = handler[g].v
                              /\ handler'[g].held \subseteq handler[g].held
                              /\ handler[g].b = b => "bridge" \notin handler'[g].held
      BY <2>1, <2>2, <2>3 DEF Stale, HandlerState
    <2>5. LiveHandles'
      BY <1>0, <1>4, <2>4 DEF DestroyNetwork, LiveHandles, LiveHandle, TypeOK
    <2>6. PortsOfRunningBridges'
      BY <1>0, <1>4 DEF DestroyNetwork, PortsOfRunningBridges, TypeOK
    <2> QED
      BY <2>5, <2>6
  <1>5. CASE UndefineNetwork(h)
    <2> DEFINE b == handler[h].b
               hs == Proceed(h, "vethFind", {})
    <2>1. hs \in [Handlers -> HandlerState]
      BY <1>0, ProceedType DEF Calls
    <2>2. \A g \in Handlers : hs[g].b = handler[g].b /\ hs[g].v = handler[g].v
                              /\ hs[g].held = handler[g].held
      BY <1>0 DEF Proceed, HandlerState
    <2>3. handler' = Stale(hs, "net", b)
      BY <1>5 DEF UndefineNetwork
    <2> HIDE DEF hs
    <2>4. \A g \in Handlers : /\ handler'[g].b = handler[g].b /\ handler'[g].v = handler[g].v
                              /\ handler'[g].held \subseteq handler[g].held
      BY <2>1, <2>2, <2>3 DEF Stale, HandlerState
    <2>5. \A c \in Bridges : net[c] = "active" => net'[c] = "active"
      BY <1>0, <1>5 DEF UndefineNetwork, Succeeds, Possible, TypeOK
    <2>6. LiveHandles'
      BY <1>0, <1>5, <2>4, <2>5, KeepsLiveHandles DEF UndefineNetwork
    <2>7. PortsOfRunningBridges'
      BY <1>0, <1>5, <2>5, KeepsPorts DEF UndefineNetwork
    <2> QED
      BY <2>6, <2>7
  <1>6. CASE AddVeth(h)
    <2>1. \A b \in Bridges : "master" \in veth'[b] => "master" \in veth[b]
      BY <1>0, <1>6 DEF AddVeth, TypeOK
    <2> QED
      BY <1>0, <1>6, <2>1, KeepsLiveHandles, KeepsPorts DEF Proceed, HandlerState, AddVeth
  <1>7. CASE FindBridge(h)
    <2>1. handler[h].b \in Bridges /\ net[handler[h].b] = "active"
      BY <1>0, <1>7 DEF FindBridge, Succeeds, Possible, OwnCall, RequestsMaking, Calls,
                        BridgeRequests, PortRequests
    <2>2. LiveHandles'
      BY <1>0, <1>7, <2>1 DEF Proceed, HandlerState, FindBridge, LiveHandles, LiveHandle
    <2>3. PortsOfRunningBridges'
      BY <1>0, <1>7, KeepsPorts DEF FindBridge
    <2> QED
      BY <2>2, <2>3
  <1>8. CASE BringVethUp(h) \/ TakeVethDown(h)
    <2>1. /\ net' = net /\ vlan' = vlan /\ master' = master
          /\ \E at \in Calls : handler' = Proceed(h, at, {}) \/ handler' = Respond(h, "ok")
      BY <1>8 DEF BringVethUp, TakeVethDown, ConfigureVeth, Calls
    <2>2. LiveHandles'
      BY <1>0, <2>1, KeepsLiveHandles DEF Respond, Idle, Proceed, HandlerState
    <2>3. \A b \in Bridges : "master" \in veth'[b] => "master" \in veth[b] \/ net[b] = "active"
      <3>1. CASE ConfigureVeth(h, "vethMaster", veth[handler[h].b] \cup {"master"}, "addrAdd")
        BY <1>0, <3>1 DEF ConfigureVeth, Succeeds, Possible, Holds, LiveHandles, LiveHandle, TypeOK
      <3>2. CASE ~ConfigureVeth(h, "vethMaster", veth[handler[h].b] \cup {"master"}, "addrAdd")
        BY <1>0, <1>8, <3>2 DEF BringVethUp, TakeVethDown, ConfigureVeth, TypeOK
      <3> QED
        BY <3>1, <3>2
    <2>4. PortsOfRunningBridges'
      BY <1>0, <2>1, <2>3 DEF PortsOfRunningBridges
    <2> QED
      BY <2>2, <2>4
  <1>9. CASE DeleteVeth(h)
    <2> DEFINE hs == Respond(h, "ok")
    <2>1. /\ hs \in [Handlers -> HandlerState]
          /\ \A g \in Handlers : IF g = h THEN hs[g].held = {} ELSE hs[g] = handler[g]
      BY <1>0, RespondType DEF Respond, Idle, HandlerState, Done
    <2>2. handler' = Stale(hs, "veth", handler[h].b)
      BY <1>9 DEF DeleteVeth
    <2> HIDE DEF hs
    <2>3. \A g \in Handlers : /\ handler'[g].held \subseteq handler[g].held
                              /\ handler'[g].held # {} => /\ handler'[g].b = handler[g].b
                                                          /\ handler'[g].v = handler[g].v
      BY <2>1, <2>2 DEF Stale, HandlerState
    <2>4. \A b \in Bridges : "master" \in veth'[b] => "master" \in veth[b]
      BY <1>0, <1>9 DEF DeleteVeth, TypeOK
    <2>5. LiveHandles'
      BY <1>0, <1>9, <2>3, KeepsLiveHandles DEF DeleteVeth
    <2>6. PortsOfRunningBridges'
      BY <1>0, <1>9, <2>4, KeepsPorts DEF DeleteVeth
    <2> QED
      BY <2>5, <2>6
  <1>10. CASE AddVlan(h)
    <2>1. handler[h].v \in Vlans
      BY <1>0, <1>10 DEF AddVlan, Succeeds, OwnCall, RequestsMaking, Calls
    <2>2. \A v \in Vlans : "link" \in vlan[v] => "link" \in vlan'[v]
      BY <1>0, <1>10 DEF AddVlan, TypeOK
    <2>3. LiveHandles'
      BY <1>0, <1>10, <2>1, <2>2 DEF Proceed, HandlerState, AddVlan, LiveHandles, LiveHandle, TypeOK
    <2>4. PortsOfRunningBridges'
      BY <1>0, <1>10, <2>2, KeepsPorts DEF AddVlan
    <2> QED
      BY <2>3, <2>4
  <1>11. CASE SetVlanUp(h) \/ SetVlanDown(h)
    <2>1. \A v \in Vlans : "link" \in vlan[v] => "link" \in vlan'[v]
      BY <1>0, <1>11 DEF SetVlanUp, SetVlanDown, TypeOK
    <2>2. LiveHandles'
      BY <1>0, <1>11, <2>1, KeepsLiveHandles
         DEF Respond, Idle, Proceed, HandlerState, SetVlanUp, SetVlanDown
    <2>3. PortsOfRunningBridges'
      BY <1>0, <1>11, <2>1, KeepsPorts DEF SetVlanUp, SetVlanDown
    <2> QED
      BY <2>2, <2>3
  <1>12. CASE FindLink(h)
    <2>1. handler[h].v \in Vlans /\ "link" \in vlan[handler[h].v]
      BY <1>0, <1>12 DEF FindLink, Succeeds, Possible, OwnCall, RequestsMaking, Calls
    <2>2. \/ \E at \in Calls : handler' = Proceed(h, at, {"vlan"})
          \/ handler' = Respond(h, "ok")
      BY <1>12 DEF FindLink, Calls
    <2>3. LiveHandles'
      <3>1. CASE handler' = Respond(h, "ok")
        BY <1>0, <1>12, <3>1, KeepsLiveHandles DEF Respond, Idle, HandlerState, FindLink
      <3>2. ASSUME NEW at \in Calls, handler' = Proceed(h, at, {"vlan"}) PROVE LiveHandles'
        <4>1. \A g \in Handlers :
                /\ handler'[g].b = handler[g].b /\ handler'[g].v = handler[g].v
                /\ handler'[g].held = handler[g].held \cup (IF g = h THEN {"vlan"} ELSE {})
          BY <1>0, <3>2 DEF Proceed, HandlerState
        <4>2. net' = net /\ vlan' = vlan
          BY <1>12 DEF FindLink
        <4> QED
          BY <1>0, <2>1, <4>1, <4>2 DEF LiveHandles, LiveHandle
      <3> QED
        BY <2>2, <3>1, <3>2
    <2>4. PortsOfRunningBridges'
      BY <1>0, <1>12, KeepsPorts DEF FindLink
    <2> QED
      BY <2>3, <2>4
  <1>13. CASE SetLinkMaster(h)
    <2>1. LiveHandles'
      BY <1>0, <1>13, KeepsLiveHandles DEF Respond, Idle, HandlerState, SetLinkMaster
    <2>2. CASE Succeeds(h, "linkMaster") /\ master' = [master EXCEPT ![handler[h].v] = handler[h].b]
      <3>1. "bridge" \in handler[h].held /\ "vlan" \in handler[h].held
        BY <2>2 DEF Succeeds, Possible, Holds
      <3>2. /\ handler[h].b \in Bridges /\ net[handler[h].b] = "active"
            /\ handler[h].v \in Vlans /\ "link" \in vlan[handler[h].v]
        BY <1>0, <3>1 DEF LiveHandles, LiveHandle
      <3>3. net' = net /\ vlan' = vlan /\ veth' = veth
        BY <1>13 DEF SetLinkMaster
      <3>4. \A v \in Vlans : master'[v] = IF v = handler[h].v THEN handler[h].b ELSE master[v]
        BY <1>0, <2>2 DEF TypeOK
      <3> QED
        BY <1>0, <2>1, <3>2, <3>3, <3>4 DEF PortsOfRunningBridges
    <2>3. CASE master' = [master EXCEPT ![handler[h].v] = None]
      <3>1. net' = net /\ vlan' = vlan /\ veth' = veth
        BY <1>13 DEF SetLinkMaster
      <3>2. \A v \in Vlans : master'[v] = IF v = handler[h].v THEN None ELSE master[v]
        BY <1>0, <2>3 DEF TypeOK
      <3> QED
        BY <1>0, <2>1, <3>1, <3>2 DEF PortsOfRunningBridges
    <2> QED
      BY <1>13, <2>1, <2>2, <2>3 DEF SetLinkMaster
  <1>14. CASE DeleteVlan(h)
    <2> DEFINE hs == Respond(h, "ok")
               v == handler[h].v
    <2>1. /\ hs \in [Handlers -> HandlerState]
          /\ \A g \in Handlers : IF g = h THEN hs[g].held = {} ELSE hs[g] = handler[g]
      BY <1>0, RespondType DEF Respond, Idle, HandlerState, Done
    <2>2. handler' = Stale(hs, "vlan", v)
      BY <1>14 DEF DeleteVlan
    <2> HIDE DEF hs
    <2>3. \A g \in Handlers : /\ handler'[g].held \subseteq handler[g].held
                              /\ handler'[g].held # {} => /\ handler'[g].b = handler[g].b
                                                          /\ handler'[g].v = handler[g].v
                              /\ handler'[g].v = v => "vlan" \notin handler'[g].held
      BY <2>1, <2>2 DEF Stale, HandlerState
    <2>4. LiveHandles'
      BY <1>0, <1>14, <2>3 DEF DeleteVlan, LiveHandles, LiveHandle, TypeOK
    <2>5. PortsOfRunningBridges'
      BY <1>0, <1>14 DEF DeleteVlan, PortsOfRunningBridges, TypeOK
    <2> QED
      BY <2>4, <2>5
  <1>15. CASE Fail(h)
    <2>0. UNCHANGED <<net, veth, vlan, master>>
      BY <1>15 DEF Fail
    <2>1. PICK at : handler' = Proceed(h, at, {}) \/ (at \in Done /\ handler' = Respond(h, at))
      BY <1>15 DEF Fail
    <2>2. LiveHandles'
      <3>1. CASE handler' = Proceed(h, at, {})
        BY <1>0, <2>0, <3>1, KeepsLiveHandles DEF Proceed, HandlerState
      <3>2. CASE handler' = Respond(h, at)
        BY <1>0, <2>0, <3>2, KeepsLiveHandles DEF Respond, Idle, HandlerState
      <3> QED
        BY <2>1, <3>1, <3>2
    <2>3. PortsOfRunningBridges'
      BY <1>0, <2>0, KeepsPorts
    <2> QED
      BY <2>2, <2>3
  <1> QED
    BY <1>1, <1>2, <1>3, <1>4, <1>5, <1>6, <1>7, <1>8, <1>9, <1>10, <1>11, <1>12, <1>13,
       <1>14, <1>15 DEF Work, CallFails

(* Neither does a request, a restart or a reboot. *)
LEMMA StepPorts ==
    ASSUME PortsInv, NodeStep
    PROVE  PortsInv'
  <1>0. SUFFICES LiveHandles' /\ PortsOfRunningBridges'
    BY StepType, StepOwnCalls DEF PortsInv
  <1> USE DEF PortsInv
  <1>1. CASE UNCHANGED vars
    BY <1>1 DEF vars, LiveHandles, LiveHandle, PortsOfRunningBridges
  <1>2. ASSUME NEW h \in Handlers, Request(h) PROVE LiveHandles' /\ PortsOfRunningBridges'
    BY <1>2 DEF Request, AddBridge, DeleteBridge, AddInterfaceToBridge,
       DeleteInterfaceFromBridge, AddVLANInterface, DeleteVLANInterface, Begin, TypeOK,
       LiveHandles, LiveHandle, PortsOfRunningBridges
  <1>3. CASE Dies
    BY <1>3 DEF Dies, LiveHandles, LiveHandle, PortsOfRunningBridges, Idle
  <1>4. CASE NodeGoesDown
    BY <1>4 DEF NodeGoesDown, LiveHandles, LiveHandle, PortsOfRunningBridges, Idle
  <1> QED
    BY <1>1, <1>2, <1>3, <1>4, WorkPorts DEF NodeStep

(* A fresh node has no port and no handle. *)
LEMMA InitPorts == Init => PortsInv
  BY InitType, InitOwnCalls
     DEF Init, PortsInv, LiveHandles, LiveHandle, PortsOfRunningBridges, Idle

(* A VLAN link or a DHCP interface is a port only of a bridge that runs,   *)
(* however requests, failures, restarts and reboots interleave: a handler  *)
(* enslaves through the handle it looked up, which dies with the bridge.   *)
THEOREM PortsHaveBridges == Spec => []PortsOfRunningBridges
  <1>1. PortsInv /\ [Next]_vars => PortsInv'
    BY NextSteps, StepPorts
  <1>2. PortsInv => PortsOfRunningBridges
    BY DEF PortsInv
  <1> QED
    BY <1>1, <1>2, InitPorts, PTL DEF Spec

------------------------------------------------------------------------------
(* A network that is defined but does not run *)

(* Handler states in the middle of NetworkDefineXML; NetworkCreate or of   *)
(* NetworkDestroy; NetworkUndefine for bridge b.                           *)
Drives(s, b) == s.b = b /\ s.at \in {"create", "undefine"}

(* Every step keeps a stuck network stuck. *)
LEMMA StuckStep ==
    ASSUME TypeOK, NodeStep, NEW b \in Bridges, Stuck(b)
    PROVE  Stuck(b)'
  <1>0. /\ net[b] = "inactive" /\ net \in [Bridges -> {"absent", "inactive", "active"}]
        /\ handler \in [Handlers -> HandlerState]
        /\ \A g \in Handlers : ~Drives(handler[g], b)
    BY DEF TypeOK, Stuck, Drives
  <1>1. SUFFICES net'[b] = "inactive" /\ \A g \in Handlers : ~Drives(handler'[g], b)
    BY DEF Stuck, Drives
  <1>2. CASE UNCHANGED vars
    BY <1>0, <1>2 DEF vars
  <1>3. CASE Dies \/ NodeGoesDown
    BY <1>0, <1>3 DEF Dies, NodeGoesDown, Idle, Drives
  <1>4. ASSUME NEW h \in Handlers, Request(h)
        PROVE  net'[b] = "inactive" /\ \A g \in Handlers : ~Drives(handler'[g], b)
    BY <1>0, <1>4 DEF Request, AddBridge, DeleteBridge, AddInterfaceToBridge,
       DeleteInterfaceFromBridge, AddVLANInterface, DeleteVLANInterface, Begin, Drives
  <1>5. ASSUME NEW h \in Handlers, Work(h) \/ Fail(h)
        PROVE  net'[b] = "inactive" /\ \A g \in Handlers : ~Drives(handler'[g], b)
    <2>1. CASE DefineNetwork(h) \/ DestroyNetwork(h)
      <3>1. handler[h].b # b
        BY <1>0, <2>1 DEF DefineNetwork, DestroyNetwork, Succeeds, Possible
      <3>2. net'[b] = "inactive"
        BY <1>0, <2>1, <3>1 DEF DefineNetwork, DestroyNetwork
      <3>3. CASE DefineNetwork(h)
        BY <1>0, <3>1, <3>2, <3>3 DEF DefineNetwork, Proceed, Drives, HandlerState
      <3>4. CASE DestroyNetwork(h)
        <4>1. Proceed(h, "undefine", {}) \in [Handlers -> HandlerState]
          BY <1>0, ProceedType DEF Calls
        <4>2. \A g \in Handlers : ~Drives(Proceed(h, "undefine", {})[g], b)
          BY <1>0, <3>1 DEF Proceed, Drives, HandlerState
        <4> QED
          BY <3>2, <3>4, <4>1, <4>2 DEF DestroyNetwork, Stale, Drives, HandlerState
      <3> QED
        BY <2>1, <3>3, <3>4
    <2>2. CASE CreateNetwork(h) \/ UndefineNetwork(h)
      <3>1. handler[h].b # b
        BY <1>0, <2>2 DEF CreateNetwork, UndefineNetwork, Succeeds, Drives
      <3>2. net'[b] = "inactive"
        BY <1>0, <2>2, <3>1 DEF CreateNetwork, UndefineNetwork
      <3>3. CASE CreateNetwork(h)
        BY <1>0, <3>2, <3>3 DEF CreateNetwork, Proceed, Respond, Idle, Drives, HandlerState
      <3>4. CASE UndefineNetwork(h)
        <4>1. Proceed(h, "vethFind", {}) \in [Handlers -> HandlerState]
          BY <1>0, ProceedType DEF Calls
        <4>2. \A g \in Handlers : ~Drives(Proceed(h, "vethFind", {})[g], b)
          BY <1>0 DEF Proceed, Drives, HandlerState
        <4> QED
          BY <3>2, <3>4, <4>1, <4>2 DEF UndefineNetwork, Stale, Drives, HandlerState
      <3> QED
        BY <2>2, <3>3, <3>4
    <2>3. CASE Fail(h)
      <3>0. \A op, at, next : next \in OnError(op, at) => next \notin {"create", "undefine"}
        BY DEF OnError
      <3>1. \E next : /\ next \notin {"create", "undefine"}
                     /\ handler' = IF next \in Done THEN Respond(h, next)
                                  ELSE Proceed(h, next, {})
        BY <2>3, <3>0 DEF Fail
      <3>2. net' = net
        BY <2>3 DEF Fail
      <3> QED
        BY <1>0, <3>1, <3>2 DEF Proceed, Respond, Idle, Drives, HandlerState, Done
    <2>4. CASE FindNetwork(h) \/ FindVeth(h) \/ AddVeth(h) \/ FindPeer(h) \/ FindBridge(h)
      BY <1>0, <2>4 DEF FindNetwork, FindVeth, AddVeth, FindPeer, FindBridge,
                        Proceed, Respond, Idle, Drives, HandlerState
    <2>5. CASE BringVethUp(h) \/ TakeVethDown(h) \/ DeleteVeth(h)
      BY <1>0, <2>5 DEF BringVethUp, TakeVethDown, ConfigureVeth, DeleteVeth,
                        Proceed, Respond, Idle, Stale, Drives, HandlerState
    <2>6. CASE FindVlan(h) \/ FindParent(h) \/ AddVlan(h) \/ SetVlanUp(h) \/ FindLink(h)
      BY <1>0, <2>6 DEF FindVlan, FindParent, AddVlan, SetVlanUp, FindLink,
                        Proceed, Respond, Idle, Drives, HandlerState
    <2>7. CASE SetLinkMaster(h) \/ SetVlanDown(h) \/ DeleteVlan(h)
      BY <1>0, <2>7 DEF SetLinkMaster, SetVlanDown, DeleteVlan,
                        Proceed, Respond, Idle, Stale, Drives, HandlerState
    <2> QED
      BY <1>5, <2>1, <2>2, <2>3, <2>4, <2>5, <2>6, <2>7 DEF Work, CallFails
  <1> QED
    BY <1>2, <1>3, <1>4, <1>5 DEF NodeStep

(* Whatever clients ask for and whatever fails, restarts or reboots: a     *)
(* network that is left defined but not running is never started, stopped  *)
(* or undefined by the agent again.                                        *)
THEOREM StuckNetworks == Spec => StuckForever
  <1>1. TypeOK /\ [Next]_vars => [\A b \in Bridges : Stuck(b) => Stuck(b)']_vars
    BY NextSteps, StuckStep
  <1> QED
    BY <1>1, TypeCorrect, PTL DEF Spec, StuckForever

------------------------------------------------------------------------------
(* Working calls leave no network behind *)

Driving(s) == s.at \in {"create", "undefine"}

(* A handler in the middle of creating or undefining a network holds a     *)
(* live handle on a network that does not run, and is the only one to do   *)
(* so; if calls do not fail, every such network has its handler.           *)
Drivers ==
    /\ \A h \in Handlers :
          Driving(handler[h]) => /\ handler[h].b \in Bridges /\ net[handler[h].b] = "inactive"
                                 /\ "net" \in handler[h].held
    /\ \A g, h \in Handlers :
          Driving(handler[g]) /\ Driving(handler[h]) /\ handler[g].b = handler[h].b => g = h
    /\ ~Faults => \A b \in Bridges :
          net[b] = "inactive" => \E h \in Handlers : Drives(handler[h], b)

(* A step that changes neither the networks nor who drives them. *)
LEMMA KeepsDrivers ==
    ASSUME Drivers, net' = net,
           \A g \in Handlers :
              Driving(handler'[g]) => /\ Driving(handler[g]) /\ handler'[g].b = handler[g].b
                                      /\ "net" \in handler[g].held => "net" \in handler'[g].held,
           ~Faults => \A g \in Handlers :
              Driving(handler[g]) => Driving(handler'[g]) /\ handler'[g].b = handler[g].b
    PROVE  Drivers'
  BY DEF Drivers, Drives, Driving

(* A handler that leaves a network inactive is still on its way on it. *)
LEMMA WorkDrivers ==
    ASSUME TypeOK, OwnCalls, Drivers, NEW h \in Handlers, Work(h)
    PROVE  Drivers'
  <1>0. /\ handler \in [Handlers -> HandlerState]
        /\ net \in [Bridges -> {"absent", "inactive", "active"}]
        /\ OwnCall(handler[h])
    BY DEF TypeOK, OwnCalls
  <1> USE NamesAssumption
  <1>1. CASE DefineNetwork(h)
    <2>1. /\ handler[h].b \in Bridges /\ net[handler[h].b] = "absent"
          /\ ~Driving(handler[h])
      BY <1>0, <1>1 DEF DefineNetwork, Succeeds, Possible, OwnCall, RequestsMaking, Calls,
                        BridgeRequests, Driving
    <2>2. \A g \in Handlers :
            IF g = h THEN handler'[g].b = handler[h].b /\ handler'[g].at = "create"
                          /\ "net" \in handler'[g].held
            ELSE handler'[g] = handler[g]
      BY <1>0, <1>1 DEF DefineNetwork, Proceed, HandlerState
    <2>3. \A b \in Bridges : net'[b] = IF b = handler[h].b THEN "inactive" ELSE net[b]
      BY <1>0, <1>1 DEF DefineNetwork
    <2> QED
      BY <2>1, <2>2, <2>3 DEF Drivers, Driving, Drives
  <1>2. CASE CreateNetwork(h)
    <2>1. handler[h].b \in Bridges /\ Driving(handler[h])
      BY <1>0, <1>2 DEF CreateNetwork, Succeeds, OwnCall, RequestsMaking, Calls,
                        BridgeRequests, Driving
    <2>2. \A g \in Handlers :
            IF g = h THEN ~Driving(handler'[g]) ELSE handler'[g] = handler[g]
      BY <1>0, <1>2 DEF CreateNetwork, Proceed, Respond, Idle, HandlerState, Driving
    <2>3. \A b \in Bridges : net'[b] = IF b = handler[h].b THEN "active" ELSE net[b]
      BY <1>0, <1>2 DEF CreateNetwork
    <2> QED
      BY <2>1, <2>2, <2>3 DEF Drivers, Driving, Drives
  <1>3. CASE DestroyNetwork(h)
    <2> DEFINE hs == Proceed(h, "undefine", {})
    <2>1. /\ handler[h].b \in Bridges /\ net[handler[h].b] = "active"
          /\ ~Driving(handler[h]) /\ "net" \in handler[h].held
      BY <1>0, <1>3 DEF DestroyNetwork, Succeeds, Possible, Holds, OwnCall, RequestsMaking,
                        Calls, BridgeRequests, Driving
    <2>2. hs \in [Handlers -> HandlerState]
      BY <1>0, ProceedType DEF Calls
    <2>3. \A g \in Handlers : /\ hs[g].b = handler[g].b /\ hs[g].held = handler[g].held
                              /\ hs[g].at = IF g = h THEN "undefine" ELSE handler[g].at
      BY <1>0 DEF Proceed, HandlerState
    <2>4. handler' = Stale(hs, "bridge", handler[h].b)
      BY <1>3 DEF DestroyNetwork
    <2> HIDE DEF hs
    <2>5. \A g \in Handlers : /\ handler'[g].b = hs[g].b /\ handler'[g].at = hs[g].at
                              /\ "net" \in hs[g].held => "net" \in handler'[g].held
      BY <2>2, <2>4 DEF Stale, HandlerState
    <2>6. \A g \in Handlers :
            /\ handler'[g].b = handler[g].b
            /\ handler'[g].at = IF g = h THEN "undefine" ELSE handler[g].at
            /\ "net" \in handler[g].held => "net" \in handler'[g].held
      BY <2>3, <2>5
    <2>7. \A b \in Bridges : net'[b] = IF b = handler[h].b THEN "inactive" ELSE net[b]
      BY <1>0, <1>3 DEF DestroyNetwork
    <2> QED
      BY <2>1, <2>6, <2>7 DEF Drivers, Driving, Drives
  <1>4. CASE UndefineNetwork(h)
    <2> DEFINE hs == Proceed(h, "vethFind", {})
    <2>1. handler[h].b \in Bridges /\ Driving(handler[h])
      BY <1>0, <1>4 DEF UndefineNetwork, Succeeds, OwnCall, RequestsMaking,
                        Calls, BridgeRequests, Driving
    <2>2. /\ hs \in [Handlers -> HandlerState]
          /\ ~Driving(hs[h])
          /\ \A g \in Handlers : g # h => hs[g] = handler[g]
      <3>1. hs \in [Handlers -> HandlerState]
        BY <1>0, ProceedType DEF Calls
      <3>2. hs[h].at = "vethFind" /\ \A g \in Handlers : g # h => hs[g] = handler[g]
        BY <1>0 DEF Proceed, HandlerState
      <3> QED
        BY <3>1, <3>2 DEF Driving
    <2>3. handler' = Stale(hs, "net", handler[h].b)
      BY <1>4 DEF UndefineNetwork
    <2> HIDE DEF hs
    <2>4. \A g \in Handlers : /\ handler'[g].b = hs[g].b /\ handler'[g].at = hs[g].at
                              /\ handler[h].b \notin {hs[g].b, hs[g].v} =>
                                    handler'[g].held = hs[g].held
      BY <2>2, <2>3 DEF Stale, HandlerState
    <2>5. ~Driving(handler'[h])
      BY <2>2, <2>4 DEF Driving
    <2>6. \A g \in Handlers : g # h =>
            /\ handler'[g].b = handler[g].b /\ handler'[g].at = handler[g].at
            /\ handler[g].b # handler[h].b => handler'[g].held = handler[g].held
      <3>1. \A g \in Handlers : handler[g].v # handler[h].b
        BY <1>0, <2>1 DEF HandlerState
      <3> QED
        BY <2>2, <2>4, <3>1
    <2>7. \A b \in Bridges : net'[b] = IF b = handler[h].b THEN "absent" ELSE net[b]
      BY <1>0, <1>4 DEF UndefineNetwork
    <2> QED
      BY <2>1, <2>5, <2>6, <2>7 DEF Drivers, Driving, Drives
  <1>5. CASE CallFails(h)
    <2>1. ~Faults => ~Driving(handler[h])
      BY <1>5 DEF CallFails, Fail, Possible, Holds, Drivers, Driving
    <2>2. \A op, at, next : next \in OnError(op, at) => next \notin {"create", "undefine"}
      BY DEF OnError
    <2>3. \A g \in Handlers :
            IF g = h THEN ~Driving(handler'[g]) ELSE handler'[g] = handler[g]
      BY <1>0, <1>5, <2>2 DEF CallFails, Fail, Proceed, Respond, Idle, Driving, HandlerState, Done
    <2>4. net' = net
      BY <1>5 DEF CallFails, Fail
    <2> QED
      BY <2>1, <2>3, <2>4, KeepsDrivers
  <1>6. CASE \/ FindNetwork(h) \/ FindVeth(h) \/ AddVeth(h) \/ FindPeer(h) \/ FindBridge(h)
             \/ FindVlan(h) \/ FindParent(h) \/ AddVlan(h) \/ SetVlanUp(h) \/ FindLink(h)
             \/ SetLinkMaster(h) \/ SetVlanDown(h)
    <2>1. ~Driving(handler[h]) /\ net' = net
      BY <1>6 DEF FindNetwork, FindVeth, AddVeth, FindPeer, FindBridge, FindVlan, FindParent,
         AddVlan, SetVlanUp, FindLink, SetLinkMaster, SetVlanDown, Succeeds, Driving
    <2>2. \A g \in Handlers :
            IF g = h THEN ~Driving(handler'[g]) ELSE handler'[g] = handler[g]
      BY <1>0, <1>6 DEF FindNetwork, FindVeth, AddVeth, FindPeer, FindBridge, FindVlan,
         FindParent, AddVlan, SetVlanUp, FindLink, SetLinkMaster, SetVlanDown,
         Proceed, Respond, Idle, Driving, HandlerState
    <2> QED
      BY <2>1, <2>2, KeepsDrivers
  <1>7. CASE BringVethUp(h) \/ TakeVethDown(h)
    <2>1. ~Driving(handler[h]) /\ net' = net
      BY <1>7 DEF BringVethUp, TakeVethDown, ConfigureVeth, Succeeds, Driving
    <2>2. \A g \in Handlers :
            IF g = h THEN ~Driving(handler'[g]) ELSE handler'[g] = handler[g]
      BY <1>0, <1>7 DEF BringVethUp, TakeVethDown, ConfigureVeth, Proceed, Respond, Idle,
         Driving, HandlerState
    <2> QED
      BY <2>1, <2>2, KeepsDrivers
  <1>8. CASE DeleteVeth(h) \/ DeleteVlan(h)
    <2> DEFINE hs == Respond(h, "ok")
    <2>1. ~Driving(handler[h]) /\ net' = net
      BY <1>8 DEF DeleteVeth, DeleteVlan, Succeeds, Driving
    <2>2. /\ hs \in [Handlers -> HandlerState]
          /\ \A g \in Handlers : IF g = h THEN ~Driving(hs[g]) ELSE hs[g] = handler[g]
      BY <1>0, RespondType DEF Respond, Idle, Driving, Done
    <2>3. \E name : handler' = Stale(hs, "veth", name) \/ handler' = Stale(hs, "vlan", name)
      BY <1>8 DEF DeleteVeth, DeleteVlan
    <2> HIDE DEF hs
    <2>4. \A g \in Handlers : /\ handler'[g].b = hs[g].b /\ handler'[g].at = hs[g].at
                              /\ "net" \in hs[g].held => "net" \in handler'[g].held
      BY <2>2, <2>3 DEF Stale, HandlerState
    <2>5. /\ ~Driving(handler'[h])
          /\ \A g \in Handlers : g # h =>
                /\ handler'[g].b = handler[g].b /\ handler'[g].at = handler[g].at
                /\ "net" \in handler[g].held => "net" \in handler'[g].held
      BY <2>2, <2>4 DEF Driving
    <2> QED
      BY <2>1, <2>5, KeepsDrivers DEF Driving
  <1> QED
    BY <1>1, <1>2, <1>3, <1>4, <1>5, <1>6, <1>7, <1>8 DEF Work

(* Without faults, so it is in every step. *)
LEMMA NextDrivers ==
    ASSUME TypeOK, OwnCalls, Drivers, [Next]_vars
    PROVE  Drivers'
  <1>1. CASE UNCHANGED vars
    BY <1>1, KeepsDrivers DEF vars
  <1>2. ASSUME NEW h \in Handlers, Request(h) PROVE Drivers'
    <2>1. net' = net /\ ~Driving(handler[h])
      BY <1>2 DEF Request, AddBridge, DeleteBridge, AddInterfaceToBridge, Busy, Calls, Driving,
         DeleteInterfaceFromBridge, AddVLANInterface, DeleteVLANInterface, Begin
    <2>2. \A g \in Handlers :
            IF g = h THEN ~Driving(handler'[g]) ELSE handler'[g] = handler[g]
      BY <1>2 DEF Request, AddBridge, DeleteBridge, AddInterfaceToBridge,
         DeleteInterfaceFromBridge, AddVLANInterface, DeleteVLANInterface, Begin, TypeOK, Driving
    <2> QED
      BY <2>1, <2>2, KeepsDrivers
  <1>3. CASE AgentRestart \/ NodeReboot
    BY <1>3 DEF AgentRestart, AgentDies, NodeReboot, NodeGoesDown, Idle, Drivers, Driving
  <1> QED
    BY <1>1, <1>2, <1>3, WorkDrivers DEF Next

(* As long as calls do not fail and nothing dies, no interleaving of       *)
(* AddBridge and DeleteBridge, overlapping or not, leaves a network in the *)
(* state that StuckNetworks says is never left again.                      *)
THEOREM NothingLeftInactive ==
    ASSUME ~Faults
    PROVE  Spec => []NeverLeftInactive
  <1>1. Init => Drivers
    BY DEF Init, Drivers, Driving, Idle
  <1>2. TypeOK /\ OwnCalls /\ Drivers /\ [Next]_vars => Drivers'
    BY NextDrivers
  <1>3. Drivers => NeverLeftInactive
    BY DEF Drivers, Drives, NeverLeftInactive, AtRest, Busy, Calls
  <1> QED
    BY <1>1, <1>2, <1>3, InitType, InitOwnCalls, NextType, NextOwnCalls, PTL DEF Spec

------------------------------------------------------------------------------
(* What holds of bridges and links for which no request has reported an    *)
(* error.                                                                  *)

(* A link that is down, and for which nobody reported an error, is being   *)
(* brought up or deleted.                                                  *)
LinksTended ==
    \A v \in Vlans :
        "link" \in vlan[v] /\ "up" \notin vlan[v] /\ v \notin failed
            => \E h \in Handlers : handler[h].v = v /\ handler[h].at \in {"vlanUp", "vlanDel"}

(* Calls that only one of AddBridge and DeleteBridge makes. *)
AddCalls == {"define", "create", "vethMaster", "addrAdd", "vethUp", "peerUp"}
DeleteCalls == {"destroy", "undefine", "vethDown", "peerDown", "addrDel", "vethNoMaster", "vethDel"}

CallsOfOne(s) ==
    /\ s.at \in AddCalls => s.op = "AddBridge"
    /\ s.at \in DeleteCalls => s.op = "DeleteBridge"

(* A bridge has one handler. *)
Alone ==
    \A g, h \in Handlers :
        handler[g].at \in Calls /\ handler[h].at \in Calls
        /\ handler[g].b \in Bridges /\ handler[g].b = handler[h].b => g = h

(* While DeleteBridge takes the DHCP interface away, the bridge is gone. *)
StoppedFirst ==
    \A h \in Handlers :
        handler[h].op = "DeleteBridge" /\ handler[h].at \in Calls \ {"lookup", "destroy"}
            => net[handler[h].b] # "active"

(* The calls with which AddBridge puts the DHCP interface in place, and    *)
(* what of it is there before each.                                        *)
Building == {"vethFind", "vethAdd", "vethPeer", "bridgeFind", "vethMaster", "addrAdd",
             "vethUp", "peerUp"}
Built(at) ==
    (IF at \in {"vethFind", "vethAdd"} THEN {} ELSE {"link"})
    \cup (IF at \in {"addrAdd", "vethUp", "peerUp"} THEN {"master"} ELSE {})
    \cup (IF at \in {"vethUp", "peerUp"} THEN {"addr"} ELSE {})
    \cup (IF at = "peerUp" THEN {"up"} ELSE {})

Builds(s, b) ==
    s.b = b /\ s.op = "AddBridge" /\ s.at \in Building /\ Built(s.at) \subseteq veth[b]

(* An external bridge that runs, and for which nobody reported an error,   *)
(* has its DHCP interface or is getting it.                                *)
BridgesTended ==
    \A b \in Bridges \ Internal :
        net[b] = "active" /\ b \notin failed
            => DhcpReady(b) \/ \E h \in Handlers : Builds(handler[h], b)

ReportInv ==
    /\ \A h \in Handlers : CallsOfOne(handler[h])
    /\ Alone
    /\ StoppedFirst
    /\ BridgesTended

------------------------------------------------------------------------------
(* How handlers move *)

(* In hs, handler h has gone on to "at" or answered, and the others are    *)
(* where they were.                                                        *)
MovesTo(hs, h, at) ==
    /\ hs \in [Handlers -> HandlerState]
    /\ hs[h].at = at
    /\ at \in Calls => /\ hs[h].op = handler[h].op /\ hs[h].b = handler[h].b
                       /\ hs[h].v = handler[h].v
    /\ \A g \in Handlers : g # h =>
         /\ hs[g].at = handler[g].at /\ hs[g].op = handler[g].op
         /\ hs[g].b = handler[g].b /\ hs[g].v = handler[g].v

(* Proceed goes on. *)
LEMMA ProceedMoves ==
    ASSUME TypeOK, NEW h \in Handlers, NEW at \in Calls \cup Done, NEW got \in SUBSET Handles
    PROVE  MovesTo(Proceed(h, at, got), h, at)
  <1>1. Proceed(h, at, got) \in [Handlers -> HandlerState]
    BY ProceedType DEF TypeOK
  <1>2. LET s == Proceed(h, at, got)[h]
        IN s.at = at /\ s.op = handler[h].op /\ s.b = handler[h].b /\ s.v = handler[h].v
    BY DEF Proceed, TypeOK, HandlerState
  <1>3. \A g \in Handlers : g # h => Proceed(h, at, got)[g] = handler[g]
    BY DEF Proceed, TypeOK
  <1> QED
    BY <1>1, <1>2, <1>3 DEF MovesTo

(* Respond answers. *)
LEMMA RespondMoves ==
    ASSUME TypeOK, NEW h \in Handlers, NEW result \in Done
    PROVE  MovesTo(Respond(h, result), h, result)
  BY RespondType DEF MovesTo, Respond, Idle, TypeOK, HandlerState, Calls, Done

(* Stale handles move nobody. *)
LEMMA StaleMoves ==
    ASSUME NEW h \in Handlers, NEW hs, NEW at, MovesTo(hs, h, at), NEW kind, NEW object
    PROVE  MovesTo(Stale(hs, kind, object), h, at)
  <1>1. \A g \in Handlers : LET s == Stale(hs, kind, object)[g]
                            IN /\ s.at = hs[g].at /\ s.op = hs[g].op
                               /\ s.b = hs[g].b /\ s.v = hs[g].v
    BY DEF Stale, MovesTo, HandlerState
  <1> QED
    BY <1>1, StaleType DEF MovesTo

(* Where each call takes its handler. *)
LEMMA WorkMoves ==
    ASSUME TypeOK, NEW h \in Handlers
    PROVE  /\ FindNetwork(h) => MovesTo(handler', h, IF handler[h].op = "AddBridge" THEN "ok"
                                                     ELSE "destroy")
           /\ DefineNetwork(h) => MovesTo(handler', h, "create")
           /\ CreateNetwork(h) => MovesTo(handler', h, IF handler[h].b \in Internal THEN "ok"
                                                       ELSE "vethFind")
           /\ DestroyNetwork(h) => MovesTo(handler', h, "undefine")
           /\ UndefineNetwork(h) => MovesTo(handler', h, "vethFind")
           /\ FindVeth(h) \/ AddVeth(h) => MovesTo(handler', h, "vethPeer")
           /\ FindPeer(h) => MovesTo(handler', h, IF handler[h].op = "AddBridge" THEN "bridgeFind"
                                                  ELSE "vethDown")
           /\ FindBridge(h) => MovesTo(handler', h, IF handler[h].op = "AddBridge" THEN "vethMaster"
                                                    ELSE "linkFind")
           /\ DeleteVeth(h) \/ FindVlan(h) \/ SetVlanUp(h) \/ SetLinkMaster(h) \/ DeleteVlan(h)
                => MovesTo(handler', h, "ok")
           /\ FindParent(h) => MovesTo(handler', h, "vlanAdd")
           /\ AddVlan(h) => MovesTo(handler', h, "vlanUp")
           /\ SetVlanDown(h) => MovesTo(handler', h, "vlanDel")
           /\ FindLink(h) => \E at \in {"vlanDown", "linkNoMaster", "linkMaster", "ok"} :
                               MovesTo(handler', h, at)
  <1> USE DEF Calls, Done, Handles
  <1>1. /\ FindNetwork(h) => MovesTo(handler', h, IF handler[h].op = "AddBridge" THEN "ok"
                                                  ELSE "destroy")
        /\ CreateNetwork(h) => MovesTo(handler', h, IF handler[h].b \in Internal THEN "ok"
                                                    ELSE "vethFind")
    BY ProceedMoves, RespondMoves DEF FindNetwork, CreateNetwork
  <1>2. /\ DefineNetwork(h) => MovesTo(handler', h, "create")
        /\ FindVeth(h) \/ AddVeth(h) => MovesTo(handler', h, "vethPeer")
        /\ FindPeer(h) => MovesTo(handler', h, IF handler[h].op = "AddBridge" THEN "bridgeFind"
                                               ELSE "vethDown")
        /\ FindBridge(h) => MovesTo(handler', h, IF handler[h].op = "AddBridge" THEN "vethMaster"
                                                 ELSE "linkFind")
    BY ProceedMoves DEF DefineNetwork, FindVeth, AddVeth, FindPeer, FindBridge
  <1>3. /\ DestroyNetwork(h) => MovesTo(handler', h, "undefine")
        /\ UndefineNetwork(h) => MovesTo(handler', h, "vethFind")
    <2>1. /\ MovesTo(Proceed(h, "undefine", {}), h, "undefine")
          /\ MovesTo(Proceed(h, "vethFind", {}), h, "vethFind")
      BY ProceedMoves
    <2> QED
      BY <2>1, StaleMoves DEF DestroyNetwork, UndefineNetwork
  <1>4. DeleteVeth(h) \/ FindVlan(h) \/ SetVlanUp(h) \/ SetLinkMaster(h) \/ DeleteVlan(h)
          => MovesTo(handler', h, "ok")
    <2>1. MovesTo(Respond(h, "ok"), h, "ok")
      BY RespondMoves
    <2> QED
      BY <2>1, StaleMoves DEF DeleteVeth, FindVlan, SetVlanUp, SetLinkMaster, DeleteVlan
  <1>5. /\ FindParent(h) => MovesTo(handler', h, "vlanAdd")
        /\ AddVlan(h) => MovesTo(handler', h, "vlanUp")
        /\ SetVlanDown(h) => MovesTo(handler', h, "vlanDel")
    BY ProceedMoves DEF FindParent, AddVlan, SetVlanDown
  <1>6. FindLink(h) => \E at \in {"vlanDown", "linkNoMaster", "linkMaster", "ok"} :
                         MovesTo(handler', h, at)
    BY ProceedMoves, RespondMoves DEF FindLink
  <1> QED
    BY <1>1, <1>2, <1>3, <1>4, <1>5, <1>6

(* And each call on the DHCP interface. *)
LEMMA ConfigureMoves ==
    ASSUME TypeOK, NEW h \in Handlers, NEW at, NEW facts, NEW next \in Calls \cup {"ok"},
           ConfigureVeth(h, at, facts, next)
    PROVE  MovesTo(handler', h, next)
  BY ProceedMoves, RespondMoves DEF ConfigureVeth, Done, Calls

(* And each that fails. *)
LEMMA FailMoves ==
    ASSUME TypeOK, NEW h \in Handlers, Fail(h)
    PROVE  \E next \in OnError(handler[h].op, handler[h].at) :
             /\ next \in Calls \cup Done /\ MovesTo(handler', h, next)
             /\ next = "error" => handler[h].b \in failed' \cup {None}
                                  /\ handler[h].v \in failed' \cup {None}
             /\ failed \subseteq failed'
             /\ UNCHANGED <<net, veth, vlan, master>>
  <1>1. PICK next \in OnError(handler[h].op, handler[h].at) :
          /\ handler' = IF next \in Done THEN Respond(h, next) ELSE Proceed(h, next, {})
          /\ failed' = IF next = "error"
                       THEN failed \cup ({handler[h].b, handler[h].v} \ {None}) ELSE failed
    BY DEF Fail
  <1>2. next \in Calls \cup Done
    BY OnErrorType
  <1>3. MovesTo(handler', h, next)
    BY <1>1, <1>2, ProceedMoves, RespondMoves
  <1> QED
    BY <1>1, <1>2, <1>3 DEF Fail

(* A request moves an idle handler to its first call. *)
LEMMA RequestMoves ==
    ASSUME TypeOK, NEW h \in Handlers, Request(h)
    PROVE  /\ handler[h].at \notin Calls
           /\ handler'[h].at \in {"lookup", "bridgeFind", "linkFind", "vlanLookup"}
           /\ handler'[h].op = "DeleteBridge" => handler'[h].at = "lookup"
           /\ \A g \in Handlers : g # h => handler'[g] = handler[g]
           /\ UNCHANGED <<net, veth, vlan, master, failed>>
           /\ Serial /\ handler'[h].b \in Bridges =>
                \A g \in Handlers : handler[g].at \in Calls => handler[g].b # handler'[h].b
  <1>1. PICK op, b, v, at :
          /\ Begin(h, op, b, v, at)
          /\ b \in Bridges \cup {None}
          /\ at \in {"lookup", "bridgeFind", "linkFind", "vlanLookup"}
          /\ op = "DeleteBridge" => at = "lookup"
    BY DEF Request, AddBridge, DeleteBridge, AddInterfaceToBridge, DeleteInterfaceFromBridge,
       AddVLANInterface, DeleteVLANInterface
  <1> DEFINE s == [op |-> op, b |-> b, v |-> v, at |-> at, held |-> {}]
  <1>2. handler' = [handler EXCEPT ![h] = s] /\ s.b = b /\ s.at = at /\ s.op = op
    BY <1>1 DEF Begin
  <1> HIDE DEF s
  <1>3. handler'[h] = s /\ \A g \in Handlers : g # h => handler'[g] = handler[g]
    BY <1>2 DEF TypeOK
  <1>4. /\ handler[h].at \notin Calls /\ UNCHANGED <<net, veth, vlan, master, failed>>
        /\ Serial /\ b # None => \A g \in Handlers : handler[g].at \in Calls => handler[g].b # b
    BY <1>1 DEF Begin, Busy
  <1>5. handler'[h].b = b /\ handler'[h].at = at /\ handler'[h].op = op
    BY <1>2, <1>3
  <1>6. Serial /\ handler'[h].b \in Bridges =>
          \A g \in Handlers : handler[g].at \in Calls => handler[g].b # handler'[h].b
    BY <1>4, <1>5, NamesAssumption
  <1> QED
    BY <1>1, <1>3, <1>4, <1>5, <1>6

------------------------------------------------------------------------------
(* VLAN links *)

(* Handlers that stay where they are go on tending their links. *)
LEMMA KeepsLinksTended ==
    ASSUME LinksTended, failed \subseteq failed',
           \A v \in Vlans : vlan'[v] = vlan[v] \/ "link" \notin vlan'[v] \/ "up" \in vlan'[v]
                            \/ \E h \in Handlers : handler'[h].v = v /\ handler'[h].at \in {"vlanUp", "vlanDel"},
           \A h \in Handlers : handler[h].at \in {"vlanUp", "vlanDel"} /\ handler[h].v \in Vlans =>
             \/ handler'[h].at = handler[h].at /\ handler'[h].v = handler[h].v
             \/ handler[h].v \in failed'
             \/ "up" \in vlan'[handler[h].v] \/ "link" \notin vlan'[handler[h].v]
    PROVE  LinksTended'
  BY DEF LinksTended

(* A call leaves no link down untended. *)
LEMMA WorkLinksTended ==
    ASSUME TypeOK, OwnCalls, LinksTended, NEW h \in Handlers, Work(h)
    PROVE  LinksTended'
  <1> DEFINE v == handler[h].v
  <1>0. OwnCall(handler[h]) /\ vlan \in [Vlans -> SUBSET VlanFacts]
    BY DEF OwnCalls, TypeOK
  <1>1. CASE \/ FindNetwork(h) \/ DefineNetwork(h) \/ CreateNetwork(h) \/ DestroyNetwork(h)
             \/ UndefineNetwork(h) \/ FindVeth(h) \/ AddVeth(h) \/ FindPeer(h) \/ FindBridge(h)
             \/ DeleteVeth(h) \/ FindVlan(h) \/ FindParent(h) \/ FindLink(h) \/ SetLinkMaster(h)
    <2>1. /\ handler[h].at \notin {"vlanUp", "vlanDel"} /\ UNCHANGED <<vlan, failed>>
          /\ \E at : MovesTo(handler', h, at)
      BY <1>1, WorkMoves
         DEF FindNetwork, DefineNetwork, CreateNetwork, DestroyNetwork, UndefineNetwork, FindVeth,
             AddVeth, FindPeer, FindBridge, DeleteVeth, FindVlan, FindParent, FindLink,
             SetLinkMaster, Succeeds
    <2> QED
      BY <2>1, KeepsLinksTended DEF MovesTo
  <1>2. CASE BringVethUp(h) \/ TakeVethDown(h)
    <2>1. /\ handler[h].at \notin {"vlanUp", "vlanDel"} /\ UNCHANGED <<vlan, failed>>
          /\ \E at : MovesTo(handler', h, at)
      BY <1>2, ConfigureMoves DEF BringVethUp, TakeVethDown, ConfigureVeth, Succeeds, Calls
    <2> QED
      BY <2>1, KeepsLinksTended DEF MovesTo
  <1>3. CASE AddVlan(h)
    <2>1. /\ v \in Vlans /\ handler[h].at = "vlanAdd" /\ MovesTo(handler', h, "vlanUp")
          /\ vlan' = [vlan EXCEPT ![v] = {"link"}] /\ failed' = failed
      BY <1>0, <1>3, WorkMoves
         DEF AddVlan, Succeeds, OwnCall, RequestsMaking, PortRequests, LinkRequests, Calls
    <2>2. handler'[h].at = "vlanUp" /\ handler'[h].v = v
      BY <2>1 DEF MovesTo, Calls
    <2>3. \A u \in Vlans : u # v => vlan'[u] = vlan[u]
      BY <1>0, <2>1
    <2> HIDE DEF v
    <2> QED
      BY <2>1, <2>2, <2>3, KeepsLinksTended DEF MovesTo
  <1>4. CASE SetVlanUp(h) \/ DeleteVlan(h)
    <2>1. /\ v \in Vlans /\ MovesTo(handler', h, "ok") /\ failed' = failed
          /\ vlan' = [vlan EXCEPT ![v] = @ \cup {"up"}] \/ vlan' = [vlan EXCEPT ![v] = {}]
      BY <1>0, <1>4, WorkMoves
         DEF SetVlanUp, DeleteVlan, Succeeds, OwnCall, RequestsMaking, PortRequests, LinkRequests,
             Calls
    <2>2. /\ "up" \in vlan'[v] \/ "link" \notin vlan'[v]
          /\ \A u \in Vlans : u # v => vlan'[u] = vlan[u]
      BY <1>0, <2>1
    <2> QED
      BY <2>1, <2>2, KeepsLinksTended DEF MovesTo
  <1>5. CASE SetVlanDown(h)
    <2>1. /\ v \in Vlans /\ handler[h].at = "vlanDown" /\ MovesTo(handler', h, "vlanDel")
          /\ vlan' = [vlan EXCEPT ![v] = @ \ {"up"}] /\ failed' = failed
      BY <1>0, <1>5, WorkMoves
         DEF SetVlanDown, Succeeds, OwnCall, RequestsMaking, PortRequests, LinkRequests, Calls
    <2>2. handler'[h].at = "vlanDel" /\ handler'[h].v = v
      BY <2>1 DEF MovesTo, Calls
    <2>3. \A u \in Vlans : u # v => vlan'[u] = vlan[u]
      BY <1>0, <2>1
    <2> HIDE DEF v
    <2> QED
      BY <2>1, <2>2, <2>3, KeepsLinksTended DEF MovesTo
  <1>6. CASE CallFails(h)
    <2>1. PICK next \in OnError(handler[h].op, handler[h].at) :
            /\ MovesTo(handler', h, next)
            /\ next = "error" => handler[h].v \in failed' \cup {None}
            /\ failed \subseteq failed' /\ UNCHANGED vlan
      BY <1>6, FailMoves DEF CallFails
    <2>2. handler[h].at \in {"vlanUp", "vlanDel"} => next = "error"
      BY <2>1 DEF OnError
    <2> QED
      BY <2>1, <2>2, KeepsLinksTended, NamesAssumption DEF MovesTo
  <1> QED
    BY <1>1, <1>2, <1>3, <1>4, <1>5, <1>6 DEF Work

(* Nor does any other step. *)
LEMMA NextLinksTended ==
    ASSUME TypeOK, OwnCalls, LinksTended, [Next]_vars
    PROVE  LinksTended'
  <1>1. CASE UNCHANGED vars
    BY <1>1 DEF vars, LinksTended
  <1>2. ASSUME NEW h \in Handlers, Request(h) PROVE LinksTended'
    BY <1>2, RequestMoves, KeepsLinksTended DEF Calls
  <1>3. CASE AgentRestart
    <2>1. \A h \in Handlers : handler[h].v \in failed' \cup {None}
      BY <1>3 DEF AgentRestart, AgentDies, Interrupted
    <2>2. failed \subseteq failed' /\ UNCHANGED vlan
      BY <1>3 DEF AgentRestart, AgentDies
    <2> QED
      BY <2>1, <2>2, KeepsLinksTended, NamesAssumption
  <1>4. CASE NodeReboot
    BY <1>4 DEF NodeReboot, NodeGoesDown, LinksTended
  <1> QED
    BY <1>1, <1>2, <1>3, <1>4, WorkLinksTended DEF Next

(* A VLAN link is up or an error was reported for it, however requests     *)
(* overlap, fail, or are cut off.                                          *)
THEOREM VlanUp == Spec => []VlanUpUnlessReported
  <1>1. Init => LinksTended
    BY DEF Init, LinksTended
  <1>2. TypeOK /\ OwnCalls /\ LinksTended /\ [Next]_vars => LinksTended'
    BY NextLinksTended
  <1>3. LinksTended => VlanUpUnlessReported
    BY DEF LinksTended, VlanUpUnlessReported, AtRest, Busy, Calls
  <1> QED
    BY <1>1, <1>2, <1>3, InitType, InitOwnCalls, NextType, NextOwnCalls, PTL DEF Spec

------------------------------------------------------------------------------
(* Bridges and their DHCP interface *)

(* A handler that goes on leaves every bridge one handler.                 *)
LEMMA MovesAlone ==
    ASSUME Alone, NEW h \in Handlers, NEW at, MovesTo(handler', h, at), handler[h].at \in Calls
    PROVE  Alone'
  <1>1. \A g \in Handlers : handler'[g].at \in Calls =>
          handler[g].at \in Calls /\ handler'[g].b = handler[g].b
    BY DEF MovesTo
  <1> QED
    BY <1>1 DEF Alone

(* What a handler makes of its bridge when it goes on to "at", for the     *)
(* invariant to hold: DeleteBridge has stopped it, AddBridge has built     *)
(* what it should have, and whoever else has not touched it.               *)
Promise(h, at) ==
    LET b  == handler[h].b
        op == handler[h].op
    IN /\ op = "DeleteBridge" /\ at \in Calls \ {"lookup", "destroy"} => net'[b] # "active"
       /\ net'[b] = "active" /\ b \notin Internal /\ b \notin failed' =>
            \/ veth'[b] = VethFacts
            \/ op = "AddBridge" /\ at \in Building /\ Built(at) \subseteq veth'[b]
            \/ net'[b] = net[b] /\ veth'[b] = veth[b] /\ ~Builds(handler[h], b)

(* A handler that keeps the promise preserves the invariant: the other     *)
(* handlers are about other bridges.                                       *)
LEMMA StepReport ==
    ASSUME OwnCalls, ReportInv, NEW h \in Handlers, NEW at, MovesTo(handler', h, at),
           handler[h].at \in Calls, failed \subseteq failed',
           \A b \in Bridges : b # handler[h].b => net'[b] = net[b] /\ veth'[b] = veth[b],
           at \in AddCalls => handler[h].op = "AddBridge",
           at \in DeleteCalls => handler[h].op = "DeleteBridge",
           handler[h].b \in Bridges => Promise(h, at)
    PROVE  ReportInv'
  <1>0. (\A g \in Handlers : CallsOfOne(handler[g])) /\ Alone /\ StoppedFirst /\ BridgesTended
    BY DEF ReportInv
  <1>1. Alone'
    BY <1>0, MovesAlone
  <1>2. ASSUME NEW g \in Handlers PROVE CallsOfOne(handler[g])'
    <2>1. CASE g = h
      BY <1>0, <2>1 DEF MovesTo, CallsOfOne, AddCalls, DeleteCalls, Calls
    <2>2. CASE g # h
      BY <1>0, <2>2 DEF MovesTo, CallsOfOne
    <2> QED  BY <2>1, <2>2
  <1>3. ASSUME NEW g \in Handlers, handler'[g].op = "DeleteBridge",
               handler'[g].at \in Calls \ {"lookup", "destroy"}
        PROVE  net'[handler'[g].b] # "active"
    <2>1. CASE g = h
      <3>1. /\ handler[h].op = "DeleteBridge" /\ at \in Calls \ {"lookup", "destroy"}
            /\ handler'[g].b = handler[h].b
        BY <1>3, <2>1 DEF MovesTo
      <3>2. handler[h].b \in Bridges
        BY <3>1 DEF OwnCalls, OwnCall, BridgeRequests
      <3> QED
        BY <3>1, <3>2 DEF Promise
    <2>2. CASE g # h
      <3>1. /\ handler[g].op = "DeleteBridge" /\ handler[g].at \in Calls \ {"lookup", "destroy"}
            /\ handler'[g].b = handler[g].b
        BY <1>3, <2>2 DEF MovesTo
      <3>2. handler[g].b \in Bridges
        BY <3>1 DEF OwnCalls, OwnCall, BridgeRequests
      <3>3. handler[g].b # handler[h].b
        BY <1>0, <2>2, <3>1, <3>2 DEF Alone
      <3>4. net[handler[g].b] # "active"
        BY <1>0, <3>1 DEF StoppedFirst
      <3> QED
        BY <3>1, <3>2, <3>3, <3>4
    <2> QED  BY <2>1, <2>2
  <1>4. ASSUME NEW b \in Bridges \ Internal, net'[b] = "active", b \notin failed',
               veth'[b] # VethFacts
        PROVE  \E g \in Handlers : handler'[g].b = b /\ handler'[g].op = "AddBridge"
                 /\ handler'[g].at \in Building /\ Built(handler'[g].at) \subseteq veth'[b]
    <2>1. CASE b = handler[h].b /\ handler[h].op = "AddBridge" /\ at \in Building
               /\ Built(at) \subseteq veth'[b]
      <3>1. at \in Calls
        BY <2>1 DEF Building, Calls
      <3> QED
        BY <2>1, <3>1 DEF MovesTo
    <2>2. CASE /\ net'[b] = net[b] /\ veth'[b] = veth[b]
               /\ b = handler[h].b => ~Builds(handler[h], b)
      <3>1. PICK g \in Handlers : Builds(handler[g], b)
        BY <1>0, <1>4, <2>2 DEF BridgesTended, DhcpReady
      <3>2. g # h
        BY <2>2, <3>1 DEF Builds
      <3> QED
        BY <2>2, <3>1, <3>2 DEF Builds, MovesTo
    <2> QED
      BY <1>4, <2>1, <2>2 DEF Promise
  <1>5. StoppedFirst'
    BY <1>3 DEF StoppedFirst
  <1>6. BridgesTended'
    BY <1>4 DEF BridgesTended, DhcpReady, Builds
  <1> QED
    BY <1>1, <1>2, <1>5, <1>6 DEF ReportInv

(* What AddBridge should have built before a call is there, if the bridge  *)
(* runs and no error was reported.                                         *)
LEMMA BuiltSoFar ==
    ASSUME ReportInv, NEW h \in Handlers, handler[h].at \in Building,
           handler[h].b \in Bridges \ Internal, net[handler[h].b] = "active",
           handler[h].b \notin failed
    PROVE  Built(handler[h].at) \subseteq veth[handler[h].b]
  <1>1. CASE DhcpReady(handler[h].b)
    BY <1>1 DEF DhcpReady, Built, VethFacts
  <1>2. CASE ~DhcpReady(handler[h].b)
    <2>1. PICK g \in Handlers : Builds(handler[g], handler[h].b)
      BY <1>2 DEF ReportInv, BridgesTended
    <2>2. g = h
      BY <2>1 DEF ReportInv, Alone, Builds, Building, Calls
    <2> QED
      BY <2>1, <2>2 DEF Builds
  <1> QED  BY <1>1, <1>2

(* Every call of a handler keeps the promise. *)
LEMMA WorkReport ==
    ASSUME TypeOK, OwnCalls, ReportInv, NEW h \in Handlers, Work(h)
    PROVE  ReportInv'
  <1> DEFINE b  == handler[h].b
             op == handler[h].op
  <1>0. /\ OwnCall(handler[h]) /\ CallsOfOne(handler[h])
        /\ net \in [Bridges -> {"absent", "inactive", "active"}]
        /\ veth \in [Bridges -> SUBSET VethFacts]
    BY DEF OwnCalls, TypeOK, ReportInv
  <1>s. op = "DeleteBridge" /\ handler[h].at \in Calls \ {"lookup", "destroy"}
          => net[b] # "active"
    BY DEF ReportInv, StoppedFirst
  <1>o. b \in Bridges => \A c \in Bridges : \A x : c # b =>
          [net EXCEPT ![b] = x][c] = net[c] /\ [veth EXCEPT ![b] = x][c] = veth[c]
    BY <1>0
  <1>e. b \in Bridges => \A x : [net EXCEPT ![b] = x][b] = x /\ [veth EXCEPT ![b] = x][b] = x
    BY <1>0
  <1>1. CASE FindNetwork(h)
    <2>1. /\ handler[h].at = "lookup" /\ UNCHANGED <<net, veth, failed>>
          /\ MovesTo(handler', h, IF op = "AddBridge" THEN "ok" ELSE "destroy")
          /\ op \in BridgeRequests
      BY <1>0, <1>1, WorkMoves
         DEF FindNetwork, Succeeds, OwnCall, RequestsMaking, Calls
    <2>2. Promise(h, IF op = "AddBridge" THEN "ok" ELSE "destroy")
      BY <2>1 DEF Promise, Builds, Building, Calls, BridgeRequests
    <2> QED
      BY <2>1, <2>2, StepReport DEF AddCalls, DeleteCalls, Calls, BridgeRequests
  <1>2. CASE DefineNetwork(h)
    <2>1. /\ handler[h].at = "define" /\ UNCHANGED <<veth, failed>> /\ op = "AddBridge"
          /\ MovesTo(handler', h, "create") /\ b \in Bridges
          /\ net' = [net EXCEPT ![b] = "inactive"]
      BY <1>0, <1>2, WorkMoves
         DEF DefineNetwork, Succeeds, OwnCall, CallsOfOne, AddCalls, BridgeRequests, Calls
    <2>2. Promise(h, "create")
      BY <1>e, <2>1 DEF Promise
    <2> QED
      BY <1>o, <2>1, <2>2, StepReport DEF AddCalls, DeleteCalls, Calls
  <1>3. CASE CreateNetwork(h)
    <2> DEFINE at == IF b \in Internal THEN "ok" ELSE "vethFind"
    <2>1. /\ handler[h].at = "create" /\ UNCHANGED <<veth, failed>> /\ op = "AddBridge"
          /\ MovesTo(handler', h, at) /\ b \in Bridges
          /\ net' = [net EXCEPT ![b] = "active"]
      BY <1>0, <1>3, WorkMoves
         DEF CreateNetwork, Succeeds, OwnCall, CallsOfOne, AddCalls, BridgeRequests, Calls
    <2>2. Promise(h, at)
      BY <2>1 DEF Promise, Building, Built
    <2>3. at \notin AddCalls \cup DeleteCalls
      BY DEF AddCalls, DeleteCalls
    <2> HIDE DEF at
    <2> QED
      BY <1>o, <2>1, <2>2, <2>3, StepReport DEF Calls
  <1>4. CASE DestroyNetwork(h)
    <2>1. /\ handler[h].at = "destroy" /\ failed' = failed /\ op = "DeleteBridge"
          /\ MovesTo(handler', h, "undefine") /\ b \in Bridges
          /\ net' = [net EXCEPT ![b] = "inactive"]
          /\ veth' = [veth EXCEPT ![b] = @ \ {"master"}]
      BY <1>0, <1>4, WorkMoves
         DEF DestroyNetwork, Succeeds, OwnCall, CallsOfOne, DeleteCalls, BridgeRequests, Calls
    <2>2. Promise(h, "undefine")
      BY <1>e, <2>1 DEF Promise
    <2> QED
      BY <1>o, <2>1, <2>2, StepReport DEF AddCalls, DeleteCalls, Calls
  <1>5. CASE UndefineNetwork(h)
    <2>1. /\ handler[h].at = "undefine" /\ UNCHANGED <<veth, failed>> /\ op = "DeleteBridge"
          /\ MovesTo(handler', h, "vethFind") /\ b \in Bridges
          /\ net' = [net EXCEPT ![b] = "absent"]
      BY <1>0, <1>5, WorkMoves
         DEF UndefineNetwork, Succeeds, OwnCall, CallsOfOne, DeleteCalls, BridgeRequests, Calls
    <2>2. Promise(h, "vethFind")
      BY <1>e, <2>1 DEF Promise
    <2> QED
      BY <1>o, <2>1, <2>2, StepReport DEF AddCalls, DeleteCalls, Calls
  <1>6. CASE FindVeth(h) \/ AddVeth(h)
    <2>1. /\ handler[h].at \in {"vethFind", "vethAdd"} /\ UNCHANGED <<net, failed>>
          /\ MovesTo(handler', h, "vethPeer") /\ b \in Bridges /\ op \in BridgeRequests
          /\ \/ veth' = veth /\ "link" \in veth[b]
             \/ veth' = [veth EXCEPT ![b] = {"link"}]
      BY <1>0, <1>6, WorkMoves
         DEF FindVeth, AddVeth, Succeeds, Possible, OwnCall, RequestsMaking, BridgeRequests, Calls
    <2>2. "link" \in veth'[b]
      BY <1>e, <2>1
    <2>3. op = "DeleteBridge" => net'[b] # "active"
      BY <1>s, <2>1 DEF Calls
    <2>4. Promise(h, "vethPeer")
      BY <2>1, <2>2, <2>3 DEF Promise, Building, Built, BridgeRequests
    <2>5. \A c \in Bridges : c # b => net'[c] = net[c] /\ veth'[c] = veth[c]
      BY <1>o, <2>1
    <2> QED
      BY <2>1, <2>4, <2>5, StepReport DEF AddCalls, DeleteCalls, Calls
  <1>7. CASE FindPeer(h)
    <2>1. /\ handler[h].at = "vethPeer" /\ UNCHANGED <<net, veth, failed>>
          /\ MovesTo(handler', h, IF op = "AddBridge" THEN "bridgeFind" ELSE "vethDown")
          /\ b \in Bridges /\ op \in BridgeRequests
      BY <1>0, <1>7, WorkMoves
         DEF FindPeer, Succeeds, OwnCall, RequestsMaking, BridgeRequests, Calls
    <2>2. op = "DeleteBridge" => net'[b] # "active"
      BY <1>s, <2>1 DEF Calls
    <2>3. op = "AddBridge" /\ net[b] = "active" /\ b \notin Internal \cup failed
            => "link" \in veth[b]
      BY <2>1, BuiltSoFar DEF Building, Built
    <2>4. Promise(h, IF op = "AddBridge" THEN "bridgeFind" ELSE "vethDown")
      BY <2>1, <2>2, <2>3 DEF Promise, Building, Built, BridgeRequests, Calls
    <2> QED
      BY <2>1, <2>4, StepReport DEF AddCalls, DeleteCalls, Calls, BridgeRequests
  <1>8. CASE FindBridge(h)
    <2>1. /\ handler[h].at = "bridgeFind" /\ UNCHANGED <<net, veth, failed>>
          /\ MovesTo(handler', h, IF op = "AddBridge" THEN "vethMaster" ELSE "linkFind")
          /\ op \in {"AddBridge", "AddInterfaceToBridge"}
      BY <1>0, <1>8, WorkMoves
         DEF FindBridge, Succeeds, OwnCall, RequestsMaking, Calls
    <2>2. b \in Bridges /\ op = "AddBridge" /\ net[b] = "active" /\ b \notin Internal \cup failed
            => "link" \in veth[b]
      BY <2>1, BuiltSoFar DEF Building, Built
    <2>3. b \in Bridges => Promise(h, IF op = "AddBridge" THEN "vethMaster" ELSE "linkFind")
      BY <2>1, <2>2 DEF Promise, Builds, Building, Built
    <2> QED
      BY <2>1, <2>3, StepReport DEF AddCalls, DeleteCalls, Calls
  <1>9. ASSUME NEW at \in {"vethMaster", "addrAdd", "vethUp", "peerUp"},
               NEW fact, NEW next \in {"addrAdd", "vethUp", "peerUp", "ok"},
               ConfigureVeth(h, at, veth[handler[h].b] \cup {fact}, next),
               Built(at) \cup {fact} = IF next = "ok" THEN VethFacts ELSE Built(next),
               fact \in VethFacts
        PROVE  ReportInv'
    <2>1. /\ handler[h].at = at /\ UNCHANGED <<net, failed>> /\ op = "AddBridge"
          /\ MovesTo(handler', h, next) /\ b \in Bridges
          /\ veth' = [veth EXCEPT ![b] = veth[b] \cup {fact}]
      BY <1>0, <1>9, ConfigureMoves
         DEF ConfigureVeth, Succeeds, OwnCall, CallsOfOne, AddCalls, BridgeRequests, Calls
    <2>2. net[b] = "active" /\ b \notin Internal \cup failed => Built(at) \subseteq veth[b]
      BY <2>1, BuiltSoFar DEF Building
    <2>3. veth'[b] = veth[b] \cup {fact} /\ veth[b] \subseteq VethFacts
      BY <1>0, <1>e, <2>1
    <2>4. net'[b] = "active" /\ b \notin Internal /\ b \notin failed' =>
            IF next = "ok" THEN veth'[b] = VethFacts ELSE Built(next) \subseteq veth'[b]
      BY <1>9, <2>1, <2>2, <2>3
    <2>5. Promise(h, next)
      BY <2>1, <2>4 DEF Promise, Building
    <2> QED
      BY <1>o, <2>1, <2>5, StepReport DEF AddCalls, DeleteCalls, Calls
  <1>10. CASE BringVethUp(h)
    <2>1. /\ Built("vethMaster") \cup {"master"} = Built("addrAdd")
          /\ Built("addrAdd") \cup {"addr"} = Built("vethUp")
          /\ Built("vethUp") \cup {"up"} = Built("peerUp")
          /\ Built("peerUp") \cup {"peerUp"} = VethFacts
      BY DEF Built, VethFacts
    <2> QED
      BY <1>9, <1>10, <2>1 DEF BringVethUp, VethFacts
  <1>11. ASSUME NEW at \in {"vethDown", "peerDown", "addrDel", "vethNoMaster"},
                NEW facts, NEW next \in {"peerDown", "addrDel", "vethNoMaster", "vethDel"},
                ConfigureVeth(h, at, facts, next)
         PROVE  ReportInv'
    <2>1. /\ handler[h].at = at /\ UNCHANGED <<net, failed>> /\ op = "DeleteBridge"
          /\ MovesTo(handler', h, next) /\ b \in Bridges
          /\ veth' = [veth EXCEPT ![b] = facts]
      BY <1>0, <1>11, ConfigureMoves
         DEF ConfigureVeth, Succeeds, OwnCall, CallsOfOne, DeleteCalls, BridgeRequests, Calls
    <2>2. net'[b] # "active"
      BY <1>s, <2>1 DEF Calls
    <2>3. Promise(h, next)
      BY <2>2 DEF Promise
    <2> QED
      BY <1>o, <2>1, <2>3, StepReport DEF AddCalls, DeleteCalls, Calls
  <1>12. CASE TakeVethDown(h)
    BY <1>11, <1>12 DEF TakeVethDown
  <1>13. CASE DeleteVeth(h)
    <2>1. /\ handler[h].at = "vethDel" /\ UNCHANGED <<net, failed>> /\ op = "DeleteBridge"
          /\ MovesTo(handler', h, "ok") /\ b \in Bridges
          /\ veth' = [veth EXCEPT ![b] = {}]
      BY <1>0, <1>13, WorkMoves
         DEF DeleteVeth, Succeeds, OwnCall, CallsOfOne, DeleteCalls, BridgeRequests, Calls
    <2>2. net'[b] # "active"
      BY <1>s, <2>1 DEF Calls
    <2>3. Promise(h, "ok")
      BY <2>2 DEF Promise
    <2> QED
      BY <1>o, <2>1, <2>3, StepReport DEF AddCalls, DeleteCalls, Calls
  <1>14. CASE \/ FindVlan(h) \/ FindParent(h) \/ AddVlan(h) \/ SetVlanUp(h)
              \/ FindLink(h) \/ SetLinkMaster(h) \/ SetVlanDown(h) \/ DeleteVlan(h)
    <2>1. PICK at \in {"ok", "vlanAdd", "vlanUp", "vlanDel", "vlanDown", "linkNoMaster",
                       "linkMaster"} : MovesTo(handler', h, at)
      BY <1>14, WorkMoves
    <2>2. /\ handler[h].at \in {"vlanLookup", "parentFind", "vlanAdd", "vlanUp", "linkFind",
                                "linkMaster", "linkNoMaster", "vlanDown", "vlanDel"}
          /\ UNCHANGED <<net, veth, failed>>
      BY <1>14 DEF FindVlan, FindParent, AddVlan, SetVlanUp, FindLink, SetLinkMaster, SetVlanDown,
                   DeleteVlan, Succeeds
    <2>3. op # "DeleteBridge"
      BY <1>0, <2>2 DEF OwnCall, RequestsMaking, PortRequests, LinkRequests, Calls
    <2>4. Promise(h, at)
      BY <2>2, <2>3 DEF Promise, Builds, Building
    <2> QED
      BY <2>1, <2>2, <2>4, StepReport DEF AddCalls, DeleteCalls, Calls
  <1>15. CASE CallFails(h)
    <2>1. PICK next \in OnError(op, handler[h].at) :
            /\ MovesTo(handler', h, next)
            /\ next = "error" => b \in failed' \cup {None}
            /\ failed \subseteq failed' /\ UNCHANGED <<net, veth>>
      BY <1>15, FailMoves DEF CallFails
    <2>2. handler[h].at \in Calls
      BY <1>15 DEF CallFails, Fail, Busy
    <2>3. \/ next = "define" /\ op = "AddBridge" /\ handler[h].at = "lookup"
          \/ next = "ok" /\ op = "DeleteBridge"
          \/ next = "vethAdd" /\ handler[h].at = "vethFind"
          \/ next = "vethNoMaster" /\ handler[h].at = "addrDel"
          \/ next = "parentFind" /\ handler[h].at = "vlanLookup"
          \/ next = "error"
      BY <2>1 DEF OnError
    <2>4. next \in DeleteCalls => op = "DeleteBridge"
      BY <1>0, <2>3 DEF CallsOfOne, DeleteCalls
    <2>5. op = "DeleteBridge" /\ next \in Calls \ {"lookup", "destroy"} => net'[b] # "active"
      <3>1. op = "DeleteBridge" => handler[h].at # "vlanLookup"
        BY <1>0 DEF OwnCall, RequestsMaking, PortRequests, LinkRequests, Calls
      <3> QED
        BY <1>s, <2>1, <2>2, <2>3, <3>1 DEF Calls
    <2>6. ASSUME b \in Bridges, net'[b] = "active", b \notin Internal, b \notin failed',
                 Builds(handler[h], b)
          PROVE  next = "vethAdd"
      BY <2>1, <2>3, <2>6, NamesAssumption DEF Builds, Building
    <2>7. b \in Bridges => Promise(h, next)
      BY <2>1, <2>5, <2>6 DEF Promise, Builds, Building, Built
    <2> QED
      BY <2>1, <2>2, <2>3, <2>4, <2>7, StepReport DEF AddCalls
  <1> QED
    BY <1>1, <1>2, <1>3, <1>4, <1>5, <1>6, <1>7, <1>8, <1>10, <1>12, <1>13, <1>14, <1>15 DEF Work

(* A request waits for its turn, a restart reports what it cuts off, and   *)
(* after a reboot nothing runs.                                            *)
LEMMA NextReport ==
    ASSUME Serial, TypeOK, OwnCalls, ReportInv, [Next]_vars
    PROVE  ReportInv'
  <1>0. (\A g \in Handlers : CallsOfOne(handler[g])) /\ Alone /\ StoppedFirst /\ BridgesTended
    BY DEF ReportInv
  <1>1. CASE UNCHANGED vars
    BY <1>1 DEF vars, ReportInv, CallsOfOne, Alone, StoppedFirst, BridgesTended, DhcpReady, Builds
  <1>2. ASSUME NEW h \in Handlers, Request(h) PROVE ReportInv'
    <2>1. /\ handler[h].at \notin Calls
          /\ handler'[h].at \in {"lookup", "bridgeFind", "linkFind", "vlanLookup"}
          /\ handler'[h].op = "DeleteBridge" => handler'[h].at = "lookup"
          /\ \A g \in Handlers : g # h => handler'[g] = handler[g]
          /\ UNCHANGED <<net, veth, failed>>
          /\ handler'[h].b \in Bridges =>
               \A g \in Handlers : handler[g].at \in Calls => handler[g].b # handler'[h].b
      BY <1>2, RequestMoves
    <2>2. \A g \in Handlers : CallsOfOne(handler[g])'
      BY <1>0, <2>1 DEF CallsOfOne, AddCalls, DeleteCalls
    <2>3. Alone'
      BY <1>0, <2>1 DEF Alone
    <2>4. StoppedFirst'
      BY <1>0, <2>1 DEF StoppedFirst
    <2>5. \A g \in Handlers, b \in Bridges : Builds(handler[g], b) => handler'[g] = handler[g]
      BY <2>1 DEF Builds, Building, Calls
    <2>6. BridgesTended'
      BY <1>0, <2>1, <2>5 DEF BridgesTended, DhcpReady, Builds
    <2> QED
      BY <2>2, <2>3, <2>4, <2>6 DEF ReportInv
  <1>3. CASE AgentRestart \/ NodeReboot
    <2>1. handler' = [h \in Handlers |-> Idle]
      BY <1>3 DEF AgentRestart, AgentDies, NodeReboot, NodeGoesDown
    <2>2. /\ \A g \in Handlers : CallsOfOne(handler[g])'
          /\ Alone' /\ StoppedFirst'
      BY <2>1 DEF Idle, None, Calls, AddCalls, DeleteCalls, CallsOfOne, Alone, StoppedFirst
    <2>3. ASSUME NEW b \in Bridges \ Internal, net'[b] = "active", b \notin failed'
          PROVE  veth'[b] = VethFacts
      <3>1. UNCHANGED <<net, veth>> /\ failed' = failed \cup Interrupted
        BY <1>3, <2>3 DEF AgentRestart, AgentDies, NodeReboot, NodeGoesDown
      <3>2. \A g \in Handlers : handler[g].b # b
        BY <2>3, <3>1, NamesAssumption DEF Interrupted
      <3> QED
        BY <1>0, <2>3, <3>1, <3>2 DEF BridgesTended, DhcpReady, Builds
    <2>4. BridgesTended'
      BY <2>3 DEF BridgesTended, DhcpReady
    <2> QED
      BY <2>2, <2>4 DEF ReportInv
  <1> QED
    BY <1>1, <1>2, <1>3, WorkReport DEF Next

(* If clients wait for a request about a bridge before the next, then an   *)
(* external bridge that runs has its DHCP interface in place, addressed    *)
(* and up, or an error was reported for it, whatever call fails and        *)
(* whenever the agent dies or the node reboots.                            *)
THEOREM RunningServesDhcp ==
    ASSUME Serial
    PROVE  Spec => []RunningBridgeServesDhcp
  <1>1. Init => ReportInv
    <2>1. SUFFICES ASSUME Init PROVE ReportInv
      OBVIOUS
    <2>2. \A h \in Handlers : handler[h] = Idle
      BY <2>1 DEF Init
    <2> QED
      BY <2>1, <2>2 DEF Init, Idle, None, Calls, AddCalls, DeleteCalls, ReportInv, CallsOfOne, Alone,
                        StoppedFirst, BridgesTended
  <1>2. TypeOK /\ OwnCalls /\ ReportInv /\ [Next]_vars => ReportInv'
    BY NextReport
  <1>3. ReportInv => RunningBridgeServesDhcp
    BY DEF ReportInv, BridgesTended, RunningBridgeServesDhcp, AtRest, Busy, Builds, Building, Calls
  <1> QED
    BY <1>1, <1>2, <1>3, InitType, InitOwnCalls, NextType, NextOwnCalls, PTL DEF Spec
==============================================================================
