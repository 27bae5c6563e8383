--------------------------- MODULE VirtualMachine ---------------------------
(***************************************************************************)
(* virtual_machine.go, util.go and block_device.go: machines, their        *)
(* devices and the block devices of the node, kept by libvirt and by the   *)
(* kernel.                                                                 *)
(*                                                                         *)
(* A request runs in a goroutine of its own; a step is one call to         *)
(* libvirt, osbrick or the datastore.  Requests name a machine by its UUID *)
(* and libvirt makes a new one with every definition, so a request goes    *)
(* stale when its machine is gone, even if one of that name is made again. *)
(*                                                                         *)
(* Simplifications: names of guests' links and of block devices stand for  *)
(* whole device descriptions; one path or several to a block device make   *)
(* no difference; libvirt's qemu driver refuses the flag "force" for       *)
(* devices, and a detach from a guest is complete when the call returns.   *)
(***************************************************************************)
EXTENDS FiniteSets

CONSTANTS
    Names,       \* names of machines
    Disks,       \* block devices
    Interfaces,  \* links of guests
    Handlers,    \* goroutines serving requests
    StartAlone,  \* do clients start a machine only while nobody changes its devices?
    Faults       \* may calls fail, the agent die, the node reboot at any moment?

None == "none"
Devices == Disks \cup Interfaces

ASSUME DevicesAssumption == Disks \cap Interfaces = {} /\ None \notin Devices \cup Names
ASSUME ModeAssumption == StartAlone \in BOOLEAN /\ Faults \in BOOLEAN

VARIABLES
    state,       \* libvirt: what a machine does
    persistent,  \* libvirt: the machines that have a configuration
    config,      \* libvirt: the devices of a machine's configuration
    live,        \* libvirt: the devices of a running guest
    connected,   \* kernel: block devices that are there
    handler,     \* what each goroutine is doing
    promised,    \* devices reported attached, and not asked to be detached since
    told,        \* machines that were reported added
    unsaved      \* guests whose configuration libvirt failed to save

vars == <<state, persistent, config, live, connected, handler, promised, told, unsaved>>
libvirt == <<state, persistent, config, live>>
history == <<promised, told, unsaved>>

Active == {"running", "suspended"}
States == Active \cup {"absent", "shutoff"}
Flags == {"config", "live", "force"}

AttachRequests == {"AttachBlockDevice", "AttachInterface"}
DetachRequests == {"DetachBlockDevice", "DetachInterface"}
DeviceRequests == AttachRequests \cup DetachRequests \cup {"AddVirtualMachine"}
MachineRequests == {"StartVirtualMachine", "StopVirtualMachine", "DeleteVirtualMachine",
                    "GetVirtualMachineState"}
Requests == DeviceRequests \cup MachineRequests
            \cup {"ListVirtualMachineState", "ConnectBlockDevice", "DisconnectBlockDevice"}

(* Calls: to libvirt, to the datastore for the cores, to osbrick. *)
Calls == {"cores", "define", "lookup", "state", "modify", "create", "destroy", "undefine",
          "list", "listState", "connect", "disconnect"}
Done == {"idle", "ok", "error"}

Idle == [op |-> None, n |-> None, dev |-> None, at |-> "idle", uuid |-> FALSE, flags |-> {}]

HandlerState == [op: Requests \cup {None}, n: Names \cup {None}, dev: Devices \cup {None},
                 at: Calls \cup Done, uuid: BOOLEAN, flags: SUBSET Flags]

(* Only what runs has live devices, what does not run is there only        *)
(* because it is defined, and no handler modifies a device before it has   *)
(* chosen its flags.                                                       *)
TypeOK ==
    /\ state \in [Names -> States]
    /\ persistent \in SUBSET Names
    /\ config \in [Names -> SUBSET Devices]
    /\ live \in [Names -> SUBSET Devices]
    /\ connected \in SUBSET Disks
    /\ handler \in [Handlers -> HandlerState]
    /\ promised \in [Names -> SUBSET Devices]
    /\ told \in SUBSET Names
    /\ unsaved \in SUBSET Names
    /\ \A n \in Names : state[n] \notin Active => live[n] = {}
    /\ \A n \in Names : n \notin persistent => config[n] = {} /\ state[n] # "shutoff"
    /\ \A n \in Names : state[n] = "absent" => n \notin persistent \cup told
    /\ \A h \in Handlers : handler[h].at = "modify" => "config" \in handler[h].flags

Init ==
    /\ state = [n \in Names |-> "absent"]
    /\ persistent = {}
    /\ config = [n \in Names |-> {}]
    /\ live = [n \in Names |-> {}]
    /\ connected = {}
    /\ handler = [h \in Handlers |-> Idle]
    /\ promised = [n \in Names |-> {}]
    /\ told = {}
    /\ unsaved = {}

------------------------------------------------------------------------------
(* Handlers *)

Busy(h) == handler[h].at \in Calls

(* Clients that start a machine on its own wait for requests about its     *)
(* devices, and the other way round.                                       *)
StartsOverlap(op, n) ==
    \E g \in Handlers :
        /\ Busy(g) /\ handler[g].n = n
        /\ \/ op = "StartVirtualMachine" /\ handler[g].op \in DeviceRequests
           \/ op \in DeviceRequests /\ handler[g].op = "StartVirtualMachine"

(* A request carries the UUID of the machine that exists now, or an old    *)
(* one when there is none; AddVirtualMachine has yet to learn it.          *)
Begin(h, op, n, dev, at) ==
    /\ ~Busy(h)
    /\ StartAlone => ~StartsOverlap(op, n)
    /\ handler' = [handler EXCEPT
                     ![h] = [op |-> op, n |-> n, dev |-> dev, at |-> at, flags |-> {},
                             uuid |-> /\ n \in Names /\ state[n] # "absent"
                                      /\ op # "AddVirtualMachine"]]
    /\ promised' = IF op \in DetachRequests
                   THEN [promised EXCEPT ![n] = @ \ {dev}] ELSE promised
    /\ UNCHANGED <<libvirt, connected, told, unsaved>>

(* With a pinning group AddVirtualMachine asks for its cores first. *)
AddVirtualMachine(h, n, boot) ==
    \E at \in {"cores", "define"} : Begin(h, "AddVirtualMachine", n, boot, at)

StartVirtualMachine(h, n) == Begin(h, "StartVirtualMachine", n, None, "lookup")
StopVirtualMachine(h, n) == Begin(h, "StopVirtualMachine", n, None, "lookup")
DeleteVirtualMachine(h, n) == Begin(h, "DeleteVirtualMachine", n, None, "lookup")
GetVirtualMachineState(h, n) == Begin(h, "GetVirtualMachineState", n, None, "lookup")
ListVirtualMachineState(h) == Begin(h, "ListVirtualMachineState", None, None, "list")
AttachBlockDevice(h, n, d) == Begin(h, "AttachBlockDevice", n, d, "lookup")
AttachInterface(h, n, i) == Begin(h, "AttachInterface", n, i, "lookup")
DetachBlockDevice(h, n, d) == Begin(h, "DetachBlockDevice", n, d, "lookup")
DetachInterface(h, n, i) == Begin(h, "DetachInterface", n, i, "lookup")
ConnectBlockDevice(h, d) == Begin(h, "ConnectBlockDevice", None, d, "connect")
DisconnectBlockDevice(h, d) == Begin(h, "DisconnectBlockDevice", None, d, "disconnect")

Attaches(h) == handler[h].op \notin DetachRequests

Proceed(h, at) == [handler EXCEPT ![h].at = at]
Respond(h, result) == [handler EXCEPT ![h] = [Idle EXCEPT !.at = result]]

(* The requests for a machine that is gone hold a UUID of nothing. *)
Stale(hs, gone) == [g \in Handlers |-> IF hs[g].n \in gone THEN [hs[g] EXCEPT !.uuid = FALSE] ELSE hs[g]]

------------------------------------------------------------------------------
(* libvirt, the kernel and the datastore: when a call of handler h is      *)
(* possible at all.                                                        *)

(* A device can be attached where it is not, and detached where it is, in  *)
(* each of the two places the flags name.                                  *)
CanModify(s) ==
    LET places == (IF "config" \in s.flags THEN {config[s.n]} ELSE {})
                  \cup (IF "live" \in s.flags THEN {live[s.n]} ELSE {})
    IN /\ s.uuid
       /\ "force" \notin s.flags
       /\ "config" \in s.flags => s.n \in persistent
       /\ "live" \in s.flags => state[s.n] \in Active
       /\ \A devices \in places : (s.dev \in devices) <=> (s.op \in DetachRequests)
       /\ "live" \in s.flags /\ s.op \notin DetachRequests
              => s.dev \in connected \cup Interfaces

Possible(h) ==
    LET s == handler[h]
        at == s.at
    IN CASE at = "define"   -> state[s.n] = "absent"
         [] at = "create"   -> /\ s.uuid /\ state[s.n] = "shutoff"
                               /\ config[s.n] \cap Disks \subseteq connected
         [] at = "destroy"  -> s.uuid /\ state[s.n] \in Active
         [] at = "undefine" -> s.uuid /\ s.n \in persistent
         [] at = "modify"   -> CanModify(s)
         [] at \in {"lookup", "state", "listState"} -> s.uuid
         [] OTHER           -> TRUE

Succeeds(h, at) == handler[h].at = at /\ Possible(h)

OnError_bootOptional(op, at) ==
    IF op = "AddVirtualMachine" /\ at \in {"lookup", "state", "modify"} THEN "ok" ELSE "error"

(* Every failed call is reported, that of the boot device by               *)
(* AddVirtualMachine too, and nothing done before is taken back.           *)
OnError(op, at) == "error"

CallFails(h) ==
    /\ Busy(h)
    /\ Faults \/ ~Possible(h)
    /\ handler' = Respond(h, OnError(handler[h].op, handler[h].at))
    /\ UNCHANGED <<libvirt, connected, history>>

------------------------------------------------------------------------------
(* AddVirtualMachine *)

FindCores(h) ==
    /\ Succeeds(h, "cores")
    /\ handler' = Proceed(h, "define")
    /\ UNCHANGED <<libvirt, connected, history>>

(* The devices the template gives a new machine. *)
domainTmpl == {}

(* A machine with a boot device goes through AttachBlockDevice before it   *)
(* is reported.                                                            *)
DefineDomain(h) ==
    LET n == handler[h].n
    IN /\ Succeeds(h, "define")
       /\ state' = [state EXCEPT ![n] = "shutoff"]
       /\ persistent' = persistent \cup {n}
       /\ config' = [config EXCEPT ![n] = domainTmpl]
       /\ \/ /\ handler[h].dev = None
             /\ handler' = Respond(h, "ok")
             /\ told' = told \cup {n}
          \/ /\ handler[h].dev # None
             /\ handler' = [handler EXCEPT ![h].at = "lookup", ![h].uuid = TRUE]
             /\ told' = told
       /\ UNCHANGED <<live, connected, promised, unsaved>>

------------------------------------------------------------------------------
(* domainLookupByUUID, getDomainState and the devices of a machine *)

AfterLookup_flagsUnset(op) ==
    CASE op = "StartVirtualMachine" -> "create"
      [] op = "StopVirtualMachine" -> "destroy"
      [] op = "DeleteVirtualMachine" -> "undefine"
      [] op = "AddVirtualMachine" -> "modify"
      [] OTHER -> "state"

AfterLookup(op) ==
    CASE op = "StartVirtualMachine" -> "create"
      [] op = "StopVirtualMachine" -> "destroy"
      [] op = "DeleteVirtualMachine" -> "undefine"
      [] OTHER -> "state"

FindDomain(h) ==
    /\ Succeeds(h, "lookup")
    /\ handler' = Proceed(h, AfterLookup(handler[h].op))
    /\ UNCHANGED <<libvirt, connected, history>>

FlagsFor_configOnly(s) == IF s = "suspended" THEN {"config", "force"} ELSE {"config"}
FlagsFor_pausedIsOff(s) == IF s = "running" THEN {"config", "live"} ELSE {"config"}

FlagsFor(s) ==
    CASE s = "running" -> {"config", "live"}
      [] s = "shutoff" -> {"config"}
      [] OTHER         -> {"config", "force"}

GetDomainState(h) ==
    LET s == handler[h]
    IN /\ Succeeds(h, "state")
       /\ handler' = IF s.op = "GetVirtualMachineState" THEN Respond(h, "ok")
                     ELSE [handler EXCEPT ![h].at = "modify", ![h].flags = FlagsFor(state[s.n])]
       /\ UNCHANGED <<libvirt, connected, history>>

(* What a request makes of the devices of a configuration or of a guest. *)
Modified(s, devices) ==
    IF s.op \in DetachRequests THEN devices \ {s.dev} ELSE devices \cup {s.dev}

ModifyLive(s) ==
    live' = IF "live" \in s.flags THEN [live EXCEPT ![s.n] = Modified(s, @)] ELSE live

BeingDetached(n, dev) ==
    \E g \in Handlers : Busy(g) /\ handler[g].op \in DetachRequests
                        /\ handler[g].n = n /\ handler[g].dev = dev

ModifyDevice(h) ==
    LET s == handler[h]
    IN /\ Succeeds(h, "modify")
       /\ config' = [config EXCEPT ![s.n] = Modified(s, @)]
       /\ ModifyLive(s)
       /\ handler' = Respond(h, "ok")
       /\ promised' = IF s.op \in DetachRequests \/ BeingDetached(s.n, s.dev) THEN promised
                      ELSE [promised EXCEPT ![s.n] = @ \cup {s.dev}]
       /\ told' = IF s.op = "AddVirtualMachine" THEN told \cup {s.n} ELSE told
       /\ UNCHANGED <<state, persistent, connected, unsaved>>

(* libvirt changes the guest first and saves the configuration after that. *)
SaveFails(h) ==
    LET s == handler[h]
    IN /\ Faults
       /\ Succeeds(h, "modify") /\ "live" \in s.flags
       /\ ModifyLive(s)
       /\ handler' = Respond(h, OnError(s.op, "modify"))
       /\ unsaved' = unsaved \cup {s.n}
       /\ UNCHANGED <<state, persistent, config, connected, promised, told>>

------------------------------------------------------------------------------
(* The machine itself *)

CreateDomain(h) ==
    LET n == handler[h].n
    IN /\ Succeeds(h, "create")
       /\ state' = [state EXCEPT ![n] = "running"]
       /\ live' = [live EXCEPT ![n] = config[n]]
       /\ handler' = Respond(h, "ok")
       /\ UNCHANGED <<persistent, config, connected, history>>

(* The guests in "ended" run no more, which is the end of those that have  *)
(* no configuration; hs are the handlers after that step.                  *)
Ended(ended, hs) ==
    LET gone == ended \ persistent
    IN /\ state' = [n \in Names |-> IF n \in gone THEN "absent"
                                    ELSE IF n \in ended THEN "shutoff" ELSE state[n]]
       /\ live' = [n \in Names |-> IF n \in ended THEN {} ELSE live[n]]
       /\ unsaved' = unsaved \ ended
       /\ told' = told \ gone
       /\ handler' = Stale(hs, gone)
       /\ UNCHANGED <<persistent, config, promised>>

DestroyDomain(h) ==
    /\ Succeeds(h, "destroy")
    /\ Ended({handler[h].n}, Respond(h, "ok"))
    /\ UNCHANGED connected

(* A guest that runs goes on without a configuration. *)
UndefineDomain(h) ==
    LET n == handler[h].n
        gone == IF state[n] = "shutoff" THEN {n} ELSE {}
    IN /\ Succeeds(h, "undefine")
       /\ persistent' = persistent \ {n}
       /\ config' = [config EXCEPT ![n] = {}]
       /\ promised' = [promised EXCEPT ![n] = {}]
       /\ state' = IF gone = {} THEN state ELSE [state EXCEPT ![n] = "absent"]
       /\ told' = told \ gone
       /\ handler' = Stale(Respond(h, "ok"), gone)
       /\ UNCHANGED <<live, connected, unsaved>>

(* The list is asked for first, the states one by one after it; which      *)
(* machines are asked, and in what order, is left open.                    *)
ListDomains(h) ==
    /\ Succeeds(h, "list") \/ Succeeds(h, "listState")
    /\ \/ handler' = Respond(h, "ok")
       \/ \E n \in {m \in Names : state[m] # "absent"} :
            handler' = [handler EXCEPT ![h].at = "listState", ![h].n = n, ![h].uuid = TRUE]
    /\ UNCHANGED <<libvirt, connected, history>>

(* ConnectBlockDevice and DisconnectBlockDevice of osbrick. *)
ChangeConnection(h) ==
    /\ \/ Succeeds(h, "connect") /\ connected' = connected \cup {handler[h].dev}
       \/ Succeeds(h, "disconnect") /\ connected' = connected \ {handler[h].dev}
    /\ handler' = Respond(h, "ok")
    /\ UNCHANGED <<libvirt, history>>

------------------------------------------------------------------------------
(* Guests, the agent's process and the node *)

GuestPowersOff(n) ==
    /\ state[n] = "running"
    /\ Ended({n}, handler)
    /\ UNCHANGED connected

GuestSuspendsOrWakes(n) ==
    /\ \/ state[n] = "running" /\ state' = [state EXCEPT ![n] = "suspended"]
       \/ state[n] = "suspended" /\ state' = [state EXCEPT ![n] = "running"]
    /\ UNCHANGED <<persistent, config, live, connected, handler, history>>

AgentRestart ==
    /\ Faults
    /\ \E h \in Handlers : Busy(h)
    /\ handler' = [h \in Handlers |-> Idle]
    /\ UNCHANGED <<libvirt, connected, history>>

NodeReboot ==
    /\ Faults
    /\ connected' = {}
    /\ Ended({n \in Names : state[n] \in Active}, [h \in Handlers |-> Idle])

Request(h) ==
    \/ \E n \in Names :
         \/ StartVirtualMachine(h, n) \/ StopVirtualMachine(h, n)
         \/ DeleteVirtualMachine(h, n) \/ GetVirtualMachineState(h, n)
         \/ \E d \in Disks : AttachBlockDevice(h, n, d) \/ DetachBlockDevice(h, n, d)
         \/ \E i \in Interfaces : AttachInterface(h, n, i) \/ DetachInterface(h, n, i)
         \/ \E boot \in Disks \cup {None} : AddVirtualMachine(h, n, boot)
    \/ \E d \in Disks : ConnectBlockDevice(h, d) \/ DisconnectBlockDevice(h, d)
    \/ ListVirtualMachineState(h)

Work(h) ==
    \/ FindCores(h) \/ DefineDomain(h) \/ FindDomain(h) \/ GetDomainState(h)
    \/ ModifyDevice(h) \/ SaveFails(h) \/ CreateDomain(h) \/ DestroyDomain(h)
    \/ UndefineDomain(h) \/ ListDomains(h) \/ ChangeConnection(h) \/ CallFails(h)

Next ==
    \/ \E h \in Handlers : Request(h) \/ Work(h)
    \/ \E n \in Names : GuestPowersOff(n) \/ GuestSuspendsOrWakes(n)
    \/ AgentRestart
    \/ NodeReboot

Spec == Init /\ [][Next]_vars

------------------------------------------------------------------------------
(* Properties *)

(* What an attach reported as done is in the machine's configuration and,  *)
(* while the machine runs, in the guest: through overlapping requests, a   *)
(* machine that stops, is suspended or is made anew in between, failing    *)
(* calls, restarts and reboots.                                            *)
AttachedDevicesInGuest ==
    \A n \in Names :
        /\ promised[n] \subseteq config[n]
        /\ state[n] \in Active => promised[n] \subseteq live[n]

(* A running guest has the devices it would have after a cold start, as    *)
(* long as libvirt could save its configuration: the flags, chosen from a  *)
(* state that was read before, never change one side only.                 *)
GuestMatchesConfig ==
    \A n \in persistent \ unsaved : state[n] \in Active => live[n] = config[n]

(* No two callers are told that they added the same machine, even when it  *)
(* is deleted and added again before the first one got its boot device.    *)
NoNameAddedTwice ==
    [][\A h \in Handlers :
          handler[h].op = "AddVirtualMachine" /\ Busy(h) /\ handler'[h].at = "ok"
              => handler[h].n \notin told]_vars
==============================================================================
