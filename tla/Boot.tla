-------------------------------- MODULE Boot --------------------------------
(***************************************************************************)
(* main.go and setup.go: the agent's start, from the flags to the three    *)
(* servers, on a node whose bridges and links (module Bridge) are left as  *)
(* earlier lives of the agent, its clients and reboots made them.          *)
(*                                                                         *)
(* The process dials libvirt and the datastore, asks the datastore for the *)
(* node's bridges, calls the agent's own handlers for them one after the   *)
(* other, registers the node and serves.  An error anywhere ends it, and   *)
(* systemd (Restart=always) starts it from the beginning.  Of all this     *)
(* only the dials and the calls to the datastore and for the IQN give up   *)
(* when the three seconds of their context are over.                       *)
(*                                                                         *)
(* Some errors come back at every start: a listen interface that is not    *)
(* there or has no IPv4 address, cores that ParseNodeList cannot read, a   *)
(* metadata CIDR or a VLAN that a handler refuses, a datastore that never  *)
(* answers in time.  Such a condition is a barrier at a place of the       *)
(* program; it is there from the beginning, or comes and goes.             *)
(*                                                                         *)
(* Simplifications: the list of bridges does not change; systemd does not  *)
(* give up; what the servers do after the start is module Daemons.         *)
(***************************************************************************)
EXTENDS Bridge, Sequences

CONSTANTS
    Main,         \* the main goroutine, among the handlers
    BridgeList,   \* the bridges in the order the datastore lists them
    VlanOf,       \* the VLAN link of every external bridge
    Barriers,     \* bound: the places at which a start may meet a barrier
    MaxFaults,    \* bound: failing calls, expired contexts, crashes, reboots, changes
                  \* of the barrier
    MaxRequests   \* bound: requests of clients

ASSUME MainAssumption == Main \in Handlers
ASSUME ListAssumption == BridgeList \in Seq(Bridges) /\ VlanOf \in [Bridges \ Internal -> Vlans]
ASSUME BoundAssumption == MaxFaults \in Nat /\ MaxRequests \in Nat

VARIABLES
    pc,       \* how far the process is; 0 when there is none
    turn,     \* the place in the list of the bridge that setup's loop is at
    made,     \* how many requests it has made for that bridge
    expired,  \* are its three seconds over?
    barrier,  \* the place that no start gets past for now, or Nowhere
    faults,   \* faults so far
    asked     \* requests of clients so far

bootVars == <<pc, turn, made, expired, barrier, faults, asked>>
node == <<net, veth, vlan, master, failed>>

(* The steps of run and setup, in order. *)
Program == <<"links", "dialLibvirt", "connect", "listen", "dialSatelit", "address",
             "list", "bridges", "numa", "iqn", "register", "serving">>

(* Those that are given the context of three seconds. *)
Timed == {"dialLibvirt", "dialSatelit", "list", "iqn", "register"}

phase == IF pc = 0 THEN "down" ELSE Program[pc]

RequestsFor_portFirst(b) ==
    IF b \in Internal THEN <<[op |-> "AddBridge", b |-> b, v |-> None]>>
    ELSE <<[op |-> "AddBridge", b |-> b, v |-> None],
           [op |-> "AddInterfaceToBridge", b |-> b, v |-> VlanOf[b]],
           [op |-> "AddVLANInterface", b |-> None, v |-> VlanOf[b]]>>

(* What setup asks of the agent's own handlers for one bridge. *)
RequestsFor(b) ==
    IF b \in Internal THEN <<[op |-> "AddBridge", b |-> b, v |-> None]>>
    ELSE <<[op |-> "AddBridge", b |-> b, v |-> None],
           [op |-> "AddVLANInterface", b |-> None, v |-> VlanOf[b]],
           [op |-> "AddInterfaceToBridge", b |-> b, v |-> VlanOf[b]]>>

(* A place of the program: a step of Program and, in the loop, a request of *)
(* a bridge.                                                               *)
place == <<pc, turn, made>>
Nowhere == <<0, 1, 0>>

(* Barriers stand before single calls and before requests of the loop that *)
(* fail with nothing changed.                                              *)
ASSUME BarriersAssumption ==
    \A p \in Barriers :
        /\ p \in (1 .. Len(Program) - 1) \X (1 .. Len(BridgeList) + 1) \X (0 .. 2)
        /\ Program[p[1]] = "bridges" =>
              p[2] <= Len(BridgeList) /\ p[3] < Len(RequestsFor(BridgeList[p[2]]))

(* The type invariant of Bridge; the loop makes no request but those for   *)
(* the bridge it is at, the process serves only after the last one, and    *)
(* only a process that serves lets clients in.                             *)
BootTypeOK ==
    /\ TypeOK
    /\ pc \in 0 .. Len(Program)
    /\ turn \in 1 .. Len(BridgeList) + 1
    /\ made \in Nat
    /\ made > 0 => turn <= Len(BridgeList) /\ made <= Len(RequestsFor(BridgeList[turn]))
    /\ expired \in BOOLEAN
    /\ barrier \in Barriers \cup {Nowhere}
    /\ faults \in 0 .. MaxFaults
    /\ asked \in 0 .. MaxRequests
    /\ Busy(Main) => phase = "bridges" /\ made > 0
    /\ phase = "serving" => turn = Len(BridgeList) + 1
    /\ \A h \in Handlers \ {Main} : Busy(h) => phase = "serving"

BootInit ==
    /\ Init
    /\ pc = 0 /\ turn = 1 /\ made = 0 /\ expired = FALSE
    /\ barrier \in Barriers \cup {Nowhere}
    /\ faults = 0 /\ asked = 0

------------------------------------------------------------------------------
(* The process *)

(* systemd starts the agent. *)
Start ==
    /\ phase = "down"
    /\ pc' = 1 /\ turn' = 1 /\ made' = 0 /\ expired' = FALSE
    /\ UNCHANGED <<vars, barrier, faults, asked>>

(* One call of run or setup that succeeds. *)
Step ==
    /\ phase \notin {"down", "bridges", "serving"}
    /\ ~(expired /\ phase \in Timed)
    /\ place # barrier
    /\ pc' = pc + 1
    /\ UNCHANGED <<vars, turn, made, expired, barrier, faults, asked>>

(* The loop of setup: the next request for the bridge it is at, when the   *)
(* one before went well.  A request that its handler refuses every time,   *)
(* as AddBridge does one whose metadata CIDR does not parse, is a barrier. *)
Ask(r) ==
    \/ r.op = "AddBridge" /\ AddBridge(Main, r.b)
    \/ r.op = "AddVLANInterface" /\ AddVLANInterface(Main, r.v)
    \/ r.op = "AddInterfaceToBridge" /\ AddInterfaceToBridge(Main, r.b, r.v)

Between == phase = "bridges" /\ ~Busy(Main)
NoError_unchecked == TRUE
NoError == handler[Main].at # "error"

RequestNext ==
    /\ Between /\ NoError
    /\ turn <= Len(BridgeList)
    /\ made < Len(RequestsFor(BridgeList[turn]))
    /\ place # barrier
    /\ Ask(RequestsFor(BridgeList[turn])[made + 1])
    /\ made' = made + 1
    /\ UNCHANGED <<pc, turn, expired, barrier, faults, asked>>

NextBridge ==
    /\ Between /\ NoError
    /\ turn <= Len(BridgeList)
    /\ made = Len(RequestsFor(BridgeList[turn]))
    /\ turn' = turn + 1 /\ made' = 0
    /\ UNCHANGED <<vars, pc, expired, barrier, faults, asked>>

BridgesDone_lastOpen ==
    /\ Between /\ NoError
    /\ turn >= Len(BridgeList)
    /\ pc' = pc + 1
    /\ UNCHANGED <<vars, turn, made, expired, barrier, faults, asked>>

BridgesDone ==
    /\ Between /\ NoError
    /\ turn = Len(BridgeList) + 1
    /\ pc' = pc + 1
    /\ UNCHANGED <<vars, turn, made, expired, barrier, faults, asked>>

(* The process and its goroutines are gone; the node is left as it is. *)
Gone ==
    /\ handler' = [h \in Handlers |-> Idle]
    /\ pc' = 0 /\ turn' = 1 /\ made' = 0 /\ expired' = FALSE
    /\ UNCHANGED <<node, asked>>

(* run returns an error: a request of setup failed, a call came too late,  *)
(* or the start met its barrier.                                           *)
Exit ==
    /\ \/ phase = "bridges" /\ handler[Main].at = "error"
       \/ expired /\ phase \in Timed
       \/ place = barrier /\ ~Busy(Main)
    /\ Gone
    /\ UNCHANGED <<barrier, faults>>

------------------------------------------------------------------------------
(* Faults *)

Fault == faults < MaxFaults /\ faults' = faults + 1

StepFails ==
    /\ Fault
    /\ phase \notin {"down", "bridges", "serving"}
    /\ Gone
    /\ UNCHANGED barrier

(* A call of a handler fails although it was possible. *)
HandlerFails(h) ==
    /\ Fault
    /\ Fail(h) /\ Possible(h)
    /\ UNCHANGED <<pc, turn, made, expired, barrier, asked>>

Expire ==
    /\ Fault
    /\ phase \notin {"down", "links", "serving"} /\ ~expired
    /\ expired' = TRUE
    /\ UNCHANGED <<vars, pc, turn, made, barrier, asked>>

Crash ==
    /\ Fault
    /\ phase # "down"
    /\ AgentDies
    /\ pc' = 0 /\ turn' = 1 /\ made' = 0 /\ expired' = FALSE
    /\ UNCHANGED <<barrier, asked>>

Reboot ==
    /\ Fault
    /\ NodeGoesDown
    /\ pc' = 0 /\ turn' = 1 /\ made' = 0 /\ expired' = FALSE
    /\ UNCHANGED <<barrier, asked>>

(* The node or the datastore's list changes, by accident or repair. *)
Change ==
    /\ Fault
    /\ barrier' \in (Barriers \cup {Nowhere}) \ {barrier}
    /\ UNCHANGED <<vars, pc, turn, made, expired, asked>>

------------------------------------------------------------------------------
(* Goroutines for clients, and every goroutine's calls. *)

ClientRequest(h) ==
    /\ phase = "serving" /\ h # Main
    /\ asked < MaxRequests
    /\ asked' = asked + 1
    /\ Request(h)
    /\ UNCHANGED <<pc, turn, made, expired, barrier, faults>>

HandlerWorks(h) == Work(h) /\ UNCHANGED bootVars

BootNext ==
    \/ Start \/ Step \/ RequestNext \/ NextBridge \/ BridgesDone \/ Exit
    \/ StepFails \/ Expire \/ Crash \/ Reboot \/ Change
    \/ \E h \in Handlers : ClientRequest(h) \/ HandlerWorks(h) \/ HandlerFails(h)

BootSpec ==
    /\ BootInit
    /\ [][BootNext]_<<vars, bootVars>>
    /\ WF_<<vars, bootVars>>(Start \/ Step \/ RequestNext \/ NextBridge \/ BridgesDone \/ Exit)
    /\ WF_<<vars, bootVars>>(HandlerWorks(Main))

------------------------------------------------------------------------------
(* Properties *)

External == {BridgeList[i] : i \in DOMAIN BridgeList} \ Internal

(* Whatever earlier lives left behind, the agent registers the node and    *)
(* serves only when every external bridge of the list runs and its VLAN    *)
(* link is there and a port of a bridge.                                   *)
ServingNodeIsWired ==
    [][phase # "serving" /\ phase' = "serving"
         => \A b \in External : /\ net[b] = "active"
                                /\ "link" \in vlan[VlanOf[b]]
                                /\ master[VlanOf[b]] # None]_<<vars, bootVars>>

(* After the last fault the agent comes up and serves, with two            *)
(* exceptions: a barrier that no start gets past, which is not of the      *)
(* agent's making, and an external bridge whose network is defined and not *)
(* running, which may be: no start repairs it, and every one ends at       *)
(* adding the link to that bridge.  Nothing else that earlier starts,      *)
(* clients, crashes and reboots leave on the node keeps it from serving.   *)
AgentComesUp ==
    \/ <>[](phase = "serving")
    \/ <>[](barrier # Nowhere /\ pc <= barrier[1])
    \/ <>[](\E b \in External : Stuck(b))
==============================================================================
