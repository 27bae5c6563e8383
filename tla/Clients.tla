------------------------------- MODULE Clients -------------------------------
(***************************************************************************)
(* The programs under example/ and the gRPC calls of agent.pb.go that they *)
(* make: setup_compute_node prepares a node, create_virtual_machine makes  *)
(* a machine.  Each is a list of unary calls and ends at the first error;  *)
(* an operator runs it again.                                              *)
(*                                                                         *)
(* A call that broke off at the client goes on at the agent: no handler    *)
(* looks at its context between its calls to libvirt, netlink and          *)
(* iptables.  Of a handler we keep whether what it makes is not there, half *)
(* made or made, as the modules Bridge, SecurityGroup and VirtualMachine   *)
(* have it, whether it takes what it finds for its own work, and whether   *)
(* what it needs may be missing.                                           *)
(***************************************************************************)
EXTENDS Naturals

CONSTANTS
    Machines,     \* machines that create_virtual_machine is run for
    MaxAttempts,  \* bound: how often a program is run
    MaxFaults     \* bound: failing handlers, broken connections, restarts, reboots

ASSUME BoundAssumption == MaxAttempts \in Nat /\ MaxFaults \in Nat
ASSUME NamesAssumption == "node" \notin Machines

(* setup_compute_node is run for the node. *)
Targets == {"node"} \cup Machines

setup_compute_node ==
    <<"AddVLANInterface", "AddBridge", "AddInterfaceToBridge", "SetupDefaultSecurityGroup">>
create_virtual_machine ==
    <<"AddVirtualMachine", "AttachInterface", "AddSecurityGroup", "StartVirtualMachine">>

Program(t) == IF t = "node" THEN setup_compute_node ELSE create_virtual_machine

VARIABLES
    made,    \* what the calls for each target have made
    maker,   \* the attempt whose call made it, or is making it; 0 for none
    calls,   \* calls on their way to the agent, in it or on their way back
    client,  \* the program of each target
    agent,   \* whether the agent serves, so that a client can connect to it
    unaware, \* targets whose program had a reboot just before its last call
    faults   \* faults so far

vars == <<made, maker, calls, client, agent, unaware, faults>>

Steps == 1 .. 4
Programs == [at: {"off", "dialing", "ready", "calling", "done", "failed"},
             attempt: 0 .. MaxAttempts, step: Steps]
Stages == {"sent", "making", "ok", "error"}
Call == [t: Targets, attempt: 1 .. MaxAttempts, step: Steps, at: Stages]

(* A client waits for one call at most, handlers only work on what they    *)
(* began to make, and an agent that is down has no calls.                  *)
TypeOK ==
    /\ made \in [Targets -> [Steps -> {"none", "half", "made"}]]
    /\ maker \in [Targets -> [Steps -> 0 .. MaxAttempts]]
    /\ calls \subseteq Call
    /\ client \in [Targets -> Programs]
    /\ agent \in {"down", "serving"}
    /\ unaware \subseteq Targets
    /\ faults \in 0 .. MaxFaults
    /\ \A c, d \in calls : c.t = d.t /\ c.attempt = d.attempt => c = d
    /\ \A c \in calls : c.at = "making" => made[c.t][c.step] = "half"
    /\ agent = "down" => calls = {}

Init ==
    /\ made = [t \in Targets |-> [s \in Steps |-> "none"]]
    /\ maker = [t \in Targets |-> [s \in Steps |-> 0]]
    /\ calls = {}
    /\ client = [t \in Targets |-> [at |-> "off", attempt |-> 0, step |-> 1]]
    /\ agent = "down"
    /\ unaware = {}
    /\ faults = 0

Method(c) == Program(c.t)[c.step]

(* Handlers that take what they find, finished or not, for their own work. *)
Adopting_machines == {"AddVLANInterface", "AddBridge", "AddInterfaceToBridge", "AddVirtualMachine"}
Adopting == {"AddVLANInterface", "AddBridge", "AddInterfaceToBridge"}

(* Handlers of one call: they leave nothing half made. *)
Atomic == {"AddInterfaceToBridge", "AttachInterface", "StartVirtualMachine"}

(* Handlers that refuse the request of the programs: setup_compute_node    *)
(* asks for an external bridge and gives no metadata CIDR, which does not  *)
(* parse.  Its calls after this one are never made.                        *)
Refused == {"AddBridge"}

(* Handlers that need what the programs do not make themselves, and what   *)
(* other clients, and failing requests for other links, may take away: the *)
(* shared chains of the filter table, the bridge of a link.                *)
MayMiss == {"AddInterfaceToBridge", "AddSecurityGroup", "StartVirtualMachine"}

Fault == faults < MaxFaults /\ faults' = faults + 1

Move(c, stage) == calls' = (calls \ {c}) \cup {[c EXCEPT !.at = stage]}

------------------------------------------------------------------------------
(* Clients *)

Ends(t, how) == client' = [client EXCEPT ![t].at = how]

(* An operator runs a program, for the first time or again.                *)
Run(t) ==
    /\ client[t].at \in {"off", "done", "failed"}
    /\ client[t].attempt < MaxAttempts
    /\ client' = [client EXCEPT ![t] = [at |-> "dialing", attempt |-> @.attempt + 1, step |-> 1]]
    /\ UNCHANGED <<made, maker, calls, agent, unaware, faults>>

(* example.SetupClient blocks until it is connected, and its context has   *)
(* no deadline.                                                            *)
SetupClient(t) ==
    /\ client[t].at = "dialing"
    /\ agent = "serving"
    /\ client' = [client EXCEPT ![t].at = "ready"]
    /\ UNCHANGED <<made, maker, calls, agent, unaware, faults>>

(* The dial ends with an error, for which SetupClient gives up.            *)
DialFails(t) ==
    /\ Fault
    /\ client[t].at = "dialing"
    /\ Ends(t, "failed")
    /\ UNCHANGED <<made, maker, calls, agent, unaware>>

(* The stubs of agentClient: the request goes out, the client waits.  A    *)
(* connection that was lost since the last call is made again.             *)
Invoke(t) ==
    /\ client[t].at = "ready"
    /\ agent = "serving"
    /\ client' = [client EXCEPT ![t].at = "calling"]
    /\ calls' = calls \cup {[t |-> t, attempt |-> client[t].attempt,
                              step |-> client[t].step, at |-> "sent"]}
    /\ UNCHANGED <<made, maker, agent, unaware, faults>>

(* When it cannot be made again, the call fails.                           *)
Unavailable(t) ==
    /\ client[t].at = "ready"
    /\ agent = "down"
    /\ Ends(t, "failed")
    /\ UNCHANGED <<made, maker, calls, agent, unaware, faults>>

(* The client waits for call c. *)
Awaited(c) == client[c.t] = [at |-> "calling", attempt |-> c.attempt, step |-> c.step]

NextCall(c) == client' = [client EXCEPT ![c.t].at = "ready", ![c.t].step = c.step + 1]

Reply_unchecked(c) ==
    /\ c.at \in {"ok", "error"} /\ Awaited(c)
    /\ calls' = calls \ {c}
    /\ \/ c.step < 4 /\ NextCall(c)
       \/ c.step = 4 /\ Ends(c.t, "done")
    /\ UNCHANGED <<made, maker, agent, unaware, faults>>

(* The program goes on to its next call, or ends. *)
Reply(c) ==
    /\ c.at \in {"ok", "error"} /\ Awaited(c)
    /\ calls' = calls \ {c}
    /\ \/ c.at = "ok" /\ c.step < 4 /\ NextCall(c)
       \/ c.at = "ok" /\ c.step = 4 /\ Ends(c.t, "done")
       \/ c.at = "error" /\ Ends(c.t, "failed")
    /\ UNCHANGED <<made, maker, agent, unaware, faults>>

(* Nothing of a call is left anywhere: it was lost with its connection. *)
Lost(t) ==
    /\ client[t].at = "calling"
    /\ \A c \in calls : ~Awaited(c)

KeepaliveFails_disabled(t) == FALSE /\ Lost(t) /\ Ends(t, "failed")

(* Calls have no deadline: a client learns of a dead connection from its   *)
(* keepalive pings only.                                                   *)
KeepaliveFails(t) ==
    /\ Lost(t)
    /\ Ends(t, "failed")
    /\ UNCHANGED <<made, maker, calls, agent, unaware, faults>>

------------------------------------------------------------------------------
(* The agent *)

(* The agent gets to serving when module Boot lets it: it may take long,   *)
(* and it may never come.                                                  *)
Serve ==
    /\ agent = "down"
    /\ agent' = "serving"
    /\ UNCHANGED <<made, maker, calls, client, unaware, faults>>

(* The _Handler functions: the handler refuses its request, finds its work *)
(* done or begun by another call, or begins it.                            *)
Dispatch(c) ==
    /\ c.at = "sent"
    /\ \/ /\ \/ Method(c) \in Refused
             \/ made[c.t][c.step] # "none" /\ Method(c) \notin Adopting
             \/ made[c.t][c.step] = "none" /\ Method(c) \in Atomic \cap MayMiss
          /\ Move(c, "error")
          /\ UNCHANGED <<made, maker>>
       \/ /\ made[c.t][c.step] # "none" /\ Method(c) \in Adopting \ Refused
          /\ Move(c, "ok")
          /\ UNCHANGED <<made, maker>>
       \/ /\ made[c.t][c.step] = "none" /\ Method(c) \notin Refused
          /\ LET whole == Method(c) \in Atomic IN
                /\ Move(c, IF whole THEN "ok" ELSE "making")
                /\ made' = [made EXCEPT ![c.t][c.step] = IF whole THEN "made" ELSE "half"]
          /\ maker' = [maker EXCEPT ![c.t][c.step] = c.attempt]
    /\ UNCHANGED <<client, agent, unaware, faults>>

(* What is half made when a handler fails stays so. *)
Finish(c) ==
    /\ c.at = "making"
    /\ \/ /\ made' = [made EXCEPT ![c.t][c.step] = "made"]
          /\ Move(c, "ok")
       \/ /\ Method(c) \in MayMiss
          /\ made' = made
          /\ Move(c, "error")
    /\ UNCHANGED <<maker, client, agent, unaware, faults>>

------------------------------------------------------------------------------
(* Faults *)

(* A call of the handler fails.  An AddSecurityGroup that fails may clear  *)
(* shared chains; the chains of other links stay (GrantedChainsIntact of   *)
(* SecurityGroup), and only those are kept here.                           *)
HandlerFails(c) ==
    /\ Fault
    /\ c.at \in {"sent", "making"}
    /\ Move(c, "error")
    /\ UNCHANGED <<made, maker, client, agent, unaware>>

(* A connection breaks: the client is told at once, and its request may    *)
(* still arrive or its handler run on; or a packet is lost on the way.     *)
ConnectionBreaks(c) ==
    /\ Fault
    /\ \/ Awaited(c) /\ Ends(c.t, "failed") /\ calls' = calls
       \/ c.at # "making" /\ client' = client /\ calls' = calls \ {c}
    /\ UNCHANGED <<made, maker, agent, unaware>>

AgentRestart_detached ==
    /\ Fault
    /\ agent' = "down"
    /\ calls' = {c \in calls : c.at = "making"}
    /\ UNCHANGED <<made, maker, client, unaware>>

(* The agent dies with all its handlers and connections. *)
AgentRestart ==
    /\ Fault
    /\ agent' = "down"
    /\ calls' = {}
    /\ UNCHANGED <<made, maker, client, unaware>>

(* What the kernel held is gone; machines stay defined, with the links of  *)
(* their configuration.                                                    *)
NodeReboot ==
    /\ Fault
    /\ agent' = "down"
    /\ calls' = {}
    /\ made' = [t \in Targets |-> [s \in Steps |->
                  IF t # "node" /\ s \in {1, 2} THEN made[t][s] ELSE "none"]]
    /\ unaware' = unaware \cup {t \in Targets : client[t].at = "ready" /\ client[t].step = 4}
    /\ UNCHANGED <<maker, client>>

Next ==
    \/ \E t \in Targets : Run(t) \/ SetupClient(t) \/ DialFails(t) \/ Invoke(t)
                          \/ Unavailable(t) \/ KeepaliveFails(t)
    \/ \E c \in calls : Dispatch(c) \/ Finish(c) \/ Reply(c)
                        \/ HandlerFails(c) \/ ConnectionBreaks(c)
    \/ Serve
    \/ AgentRestart
    \/ NodeReboot

(* Programs go on, handlers return, replies that are not lost arrive, and  *)
(* pings fail on a dead connection.  Operators and the start of the agent  *)
(* are under no fairness.                                                  *)
Fairness ==
    /\ WF_vars(\E c \in calls : Dispatch(c) \/ Finish(c))
    /\ \A t \in Targets : /\ WF_vars(SetupClient(t))
                          /\ WF_vars(Invoke(t) \/ Unavailable(t))
                          /\ WF_vars(\E c \in calls : c.t = t /\ Reply(c))
                          /\ WF_vars(KeepaliveFails(t))

Spec == Init /\ [][Next]_vars /\ Fairness

------------------------------------------------------------------------------
(* Properties *)

(* A machine that was started has the chains of its own link complete:     *)
(* lost replies, calls that outlive their client, reruns, failing calls    *)
(* and restarts never start one whose AddSecurityGroup did not succeed,    *)
(* though StartVirtualMachine does not look for chains.  The exception is  *)
(* a reboot between the last two calls of a program, which takes the       *)
(* chains away and leaves the machine defined: the program does not notice *)
(* and starts it.  Whether the shared chains jump to those of the link,    *)
(* and still do so later, is the matter of SecurityGroupTraffic.           *)
StartedMachineWasGranted ==
    \A m \in Machines : made[m][4] = "made" => made[m][3] = "made" \/ m \in unaware

(* Only the run whose AddVirtualMachine made the machine goes on to attach *)
(* to it, to filter and to start it: a rerun, while calls of the first run *)
(* may still be at work in the agent, never touches a machine that is      *)
(* there.  That is also why no rerun ever completes a machine that was     *)
(* left half made.                                                         *)
OneRunPerMachine ==
    \A m \in Machines :
        /\ client[m].step > 1 => client[m].attempt = maker[m][1]
        /\ \A s \in 2 .. 4 : maker[m][s] \in {0, maker[m][1]}

(* Every program ends.  It has no timeout of its own: when its call or the *)
(* reply is lost, the keepalive pings of example.SetupClient end it.  The  *)
(* exception is the dial: it waits for an agent that does not serve, for   *)
(* ever if that never comes up.                                            *)
EveryRunEnds ==
    \A t \in Targets :
        \/ []<>(client[t].at \in {"off", "done", "failed"})
        \/ <>[](client[t].at = "dialing" /\ agent = "down")
==============================================================================
