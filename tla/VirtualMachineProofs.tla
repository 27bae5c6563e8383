------------------------ MODULE VirtualMachineProofs ------------------------
(***************************************************************************)
(* Theorems about VirtualMachine, for any machines, devices and handlers.  *)
(***************************************************************************)
EXTENDS VirtualMachine, TLAPS

(* The calls a handler makes are those of its request, which names what    *)
(* they are about, and flags are what FlagsFor gives.                      *)
OwnCall(s) ==
    /\ s.at \in {"cores", "define"} =>
         s.op = "AddVirtualMachine" /\ s.n \in Names /\ s.dev \in Disks \cup {None}
    /\ s.at = "lookup" => s.n \in Names /\ s.op \in DeviceRequests \cup MachineRequests
    /\ s.at = "state" => s.n \in Names /\ s.op \in DeviceRequests \cup {"GetVirtualMachineState"}
    /\ s.at \in {"lookup", "state"} /\ s.op \in DeviceRequests => s.dev \in Devices
    /\ s.at = "modify" =>
         /\ s.n \in Names /\ s.op \in DeviceRequests /\ s.dev \in Devices
         /\ s.flags \in {{"config"}, {"config", "live"}, {"config", "force"}}
    /\ s.at = "create" => s.n \in Names /\ s.op = "StartVirtualMachine"
    /\ s.at = "destroy" => s.n \in Names /\ s.op = "StopVirtualMachine"
    /\ s.at = "undefine" => s.n \in Names /\ s.op = "DeleteVirtualMachine"
    /\ s.at \in {"list", "listState"} => s.op = "ListVirtualMachineState"
    /\ s.at \in {"connect", "disconnect"} =>
         s.dev \in Disks /\ s.op \in {"ConnectBlockDevice", "DisconnectBlockDevice"}

OwnCalls == \A h \in Handlers : OwnCall(handler[h])

(* AddVirtualMachine with the UUID of the machine it defined. *)
Adding(s) == s.op = "AddVirtualMachine" /\ s.at \in Calls /\ s.uuid

(* A machine has one such handler, and nobody was told yet.                *)
OneAdder ==
    /\ \A h \in Handlers : Adding(handler[h]) =>
         /\ handler[h].n \in Names \ told
         /\ state[handler[h].n] # "absent"
    /\ \A g, h \in Handlers :
         Adding(handler[g]) /\ Adding(handler[h]) /\ handler[g].n = handler[h].n => g = h

(* Nobody starts a machine while its devices are being changed. *)
Apart ==
    \A g, h \in Handlers :
        ~ /\ handler[g].at \in Calls /\ handler[g].op = "StartVirtualMachine"
          /\ handler[h].at \in Calls /\ handler[h].op \in DeviceRequests
          /\ handler[g].n = handler[h].n

(* Whoever is to change a configuration alone found no guest running, and  *)
(* none runs since.                                                        *)
FlagsKnown ==
    \A h \in Handlers :
        handler[h].at = "modify" /\ handler[h].flags = {"config"}
            => state[handler[h].n] \notin Active

(* What is being detached is not promised. *)
DetachedNotPromised ==
    \A h \in Handlers :
        handler[h].at \in Calls /\ handler[h].op \in DetachRequests
            => handler[h].dev \notin promised[handler[h].n]

DevicesInv ==
    /\ Apart
    /\ FlagsKnown
    /\ DetachedNotPromised
    /\ AttachedDevicesInGuest
    /\ GuestMatchesConfig

------------------------------------------------------------------------------
(* How handlers move *)

(* The flags of a state. *)
LEMMA FlagsForType ==
    ASSUME NEW s
    PROVE  /\ FlagsFor(s) \in {{"config"}, {"config", "live"}, {"config", "force"}}
           /\ FlagsFor(s) = {"config"} <=> s = "shutoff"
           /\ FlagsFor(s) \in SUBSET Flags
  BY DEF FlagsFor, Flags

(* What a handler that goes on is left with. *)
LEMMA ProceedHandlers ==
    ASSUME handler \in [Handlers -> HandlerState], NEW h \in Handlers,
           NEW at \in Calls \cup Done
    PROVE  /\ Proceed(h, at) \in [Handlers -> HandlerState]
           /\ Proceed(h, at)[h].at = at
           /\ Proceed(h, at)[h].op = handler[h].op
           /\ Proceed(h, at)[h].n = handler[h].n
           /\ Proceed(h, at)[h].dev = handler[h].dev
           /\ Proceed(h, at)[h].flags = handler[h].flags
           /\ Proceed(h, at)[h].uuid = handler[h].uuid
           /\ \A g \in Handlers : g # h => Proceed(h, at)[g] = handler[g]
  BY DEF Proceed, HandlerState

(* What a handler that answers is left with. *)
LEMMA RespondHandlers ==
    ASSUME handler \in [Handlers -> HandlerState], NEW h \in Handlers, NEW result \in Done
    PROVE  /\ Respond(h, result) \in [Handlers -> HandlerState]
           /\ Respond(h, result)[h].at = result
           /\ Respond(h, result)[h].n = None
           /\ \A g \in Handlers : g # h => Respond(h, result)[g] = handler[g]
  BY DEF Respond, Idle, HandlerState, Done

(* All that changes for handlers whose machine is gone is their UUID. *)
LEMMA StaleHandlers ==
    ASSUME NEW hs \in [Handlers -> HandlerState], NEW gone
    PROVE  /\ Stale(hs, gone) \in [Handlers -> HandlerState]
           /\ \A g \in Handlers :
                /\ Stale(hs, gone)[g].at = hs[g].at
                /\ Stale(hs, gone)[g].op = hs[g].op
                /\ Stale(hs, gone)[g].n = hs[g].n
                /\ Stale(hs, gone)[g].dev = hs[g].dev
                /\ Stale(hs, gone)[g].flags = hs[g].flags
                /\ Stale(hs, gone)[g].uuid => hs[g].uuid /\ hs[g].n \notin gone
  <1>1. \A g \in Handlers : hs[g].uuid \in BOOLEAN
    BY DEF HandlerState
  <1>2. ASSUME NEW g \in Handlers, hs[g].n \in gone
        PROVE  Stale(hs, gone)[g] = [hs[g] EXCEPT !.uuid = FALSE]
    BY <1>2 DEF Stale
  <1>3. ASSUME NEW g \in Handlers, hs[g].n \notin gone
        PROVE  Stale(hs, gone)[g] = hs[g]
    BY <1>3 DEF Stale
  <1>4. Stale(hs, gone) \in [Handlers -> HandlerState]
    BY DEF Stale, HandlerState
  <1> QED
    BY <1>1, <1>2, <1>3, <1>4 DEF HandlerState

(* The step of a handler leaves the others what they are doing, and it     *)
(* goes on with its request, answers it, or goes through a list.           *)
Moves(h) ==
    /\ handler' \in [Handlers -> HandlerState]
    /\ handler[h].at \in Calls
    /\ \A g \in Handlers : g # h =>
         /\ handler'[g].at = handler[g].at /\ handler'[g].op = handler[g].op
         /\ handler'[g].n = handler[g].n /\ handler'[g].dev = handler[g].dev
         /\ handler'[g].flags = handler[g].flags
         /\ handler'[g].uuid => handler[g].uuid
    /\ \/ handler'[h].at \in Done
       \/ /\ handler'[h].op = handler[h].op /\ handler'[h].dev = handler[h].dev
          /\ handler'[h].op # "ListVirtualMachineState" => handler'[h].n = handler[h].n

(* A step to the next call of a request is such a step. *)
LEMMA ProceedMoves ==
    ASSUME TypeOK, OwnCalls, NEW h \in Handlers, NEW at \in Calls \cup Done,
           handler[h].at \in Calls, handler' = Proceed(h, at)
    PROVE  Moves(h)
  BY ProceedHandlers DEF TypeOK, Moves

(* So is an answer. *)
LEMMA RespondMoves ==
    ASSUME TypeOK, OwnCalls, NEW h \in Handlers, NEW result \in Done,
           handler[h].at \in Calls, handler' = Respond(h, result)
    PROVE  Moves(h) /\ handler'[h].at \in Done
  BY RespondHandlers DEF TypeOK, Moves

(* And an answer that makes other handlers' UUIDs stale. *)
LEMMA StaleMoves ==
    ASSUME TypeOK, OwnCalls, NEW h \in Handlers, NEW result \in Done, NEW gone,
           handler[h].at \in Calls, handler' = Stale(Respond(h, result), gone)
    PROVE  Moves(h) /\ handler'[h].at \in Done
  <1> DEFINE hs == Respond(h, result)
  <1>1. /\ hs \in [Handlers -> HandlerState] /\ hs[h].at = result
        /\ \A g \in Handlers : g # h => hs[g] = handler[g]
    BY RespondHandlers DEF TypeOK
  <1>2. handler' = Stale(hs, gone)
    OBVIOUS
  <1> HIDE DEF hs
  <1> QED
    BY <1>1, <1>2, StaleHandlers DEF Moves

(* Every step of a handler is such a step, to a call of its request. *)
LEMMA WorkMoves ==
    ASSUME TypeOK, OwnCalls, NEW h \in Handlers, Work(h)
    PROVE  Moves(h) /\ OwnCalls'
  <1>0. handler \in [Handlers -> HandlerState] /\ OwnCall(handler[h])
    BY DEF TypeOK, OwnCalls
  <1>1. ASSUME Moves(h), OwnCall(handler'[h]) PROVE OwnCalls'
    <2>1. \A g \in Handlers : g # h => OwnCall(handler'[g])
      BY <1>1 DEF OwnCalls, OwnCall, Moves
    <2> QED
      BY <1>1, <2>1 DEF OwnCalls
  <1>2. ASSUME handler'[h].at \in Done PROVE OwnCall(handler'[h])
    BY <1>2 DEF Done, OwnCall
  <1>3. CASE FindCores(h)
    <2>1. Moves(h)
      BY <1>3, ProceedMoves DEF FindCores, Succeeds, Calls
    <2>2. OwnCall(handler'[h])
      BY <1>0, <1>3, ProceedHandlers DEF FindCores, Succeeds, Calls, OwnCall
    <2> QED  BY <1>1, <2>1, <2>2
  <1>4. CASE DefineDomain(h)
    <2>1. CASE handler' = Respond(h, "ok")
      BY <1>1, <1>2, <1>4, <2>1, RespondMoves DEF DefineDomain, Succeeds, Calls, Done
    <2>2. CASE /\ handler[h].dev # None
               /\ handler' = [handler EXCEPT ![h].at = "lookup", ![h].uuid = TRUE]
      <3>1. /\ handler[h].op = "AddVirtualMachine" /\ handler[h].n \in Names
            /\ handler[h].dev \in Disks /\ handler[h].at = "define"
        BY <1>0, <1>4, <2>2 DEF DefineDomain, Succeeds, OwnCall
      <3>2. /\ handler' \in [Handlers -> HandlerState]
            /\ handler'[h].at = "lookup" /\ handler'[h].op = handler[h].op
            /\ handler'[h].n = handler[h].n /\ handler'[h].dev = handler[h].dev
            /\ \A g \in Handlers : g # h => handler'[g] = handler[g]
        BY <1>0, <2>2 DEF HandlerState, Calls
      <3> QED
        BY <1>1, <3>1, <3>2 DEF Moves, OwnCall, Calls, DeviceRequests, Devices
    <2> QED  BY <1>4, <2>1, <2>2 DEF DefineDomain
  <1>5. CASE FindDomain(h)
    <2>1. AfterLookup(handler[h].op) \in {"create", "destroy", "undefine", "state"}
      BY DEF AfterLookup
    <2>2. Moves(h)
      BY <1>5, <2>1, ProceedMoves DEF FindDomain, Succeeds, Calls
    <2>3. /\ handler'[h].at = AfterLookup(handler[h].op) /\ handler'[h].op = handler[h].op
          /\ handler'[h].n = handler[h].n /\ handler'[h].dev = handler[h].dev
      BY <1>0, <1>5, <2>1, ProceedHandlers DEF FindDomain, Calls
    <2>4. OwnCall(handler'[h])
      BY <1>0, <1>5, <2>3 DEF FindDomain, Succeeds, AfterLookup, OwnCall,
         DeviceRequests, AttachRequests, DetachRequests, MachineRequests
    <2> QED  BY <1>1, <2>2, <2>4
  <1>6. CASE GetDomainState(h)
    <2>1. CASE handler' = Respond(h, "ok")
      BY <1>1, <1>2, <1>6, <2>1, RespondMoves DEF GetDomainState, Succeeds, Calls, Done
    <2>2. CASE handler[h].op # "GetVirtualMachineState"
      <3>1. handler' = [handler EXCEPT ![h].at = "modify",
                                       ![h].flags = FlagsFor(state[handler[h].n])]
        BY <1>6, <2>2 DEF GetDomainState
      <3>2. /\ handler' \in [Handlers -> HandlerState]
            /\ handler'[h].at = "modify" /\ handler'[h].op = handler[h].op
            /\ handler'[h].n = handler[h].n /\ handler'[h].dev = handler[h].dev
            /\ handler'[h].flags = FlagsFor(state[handler[h].n])
            /\ \A g \in Handlers : g # h => handler'[g] = handler[g]
        BY <1>0, <3>1, FlagsForType DEF HandlerState, Calls
      <3>3. /\ handler[h].op \in DeviceRequests /\ handler[h].n \in Names
            /\ handler[h].dev \in Devices /\ handler[h].at = "state"
        BY <1>0, <1>6, <2>2 DEF GetDomainState, Succeeds, OwnCall
      <3> QED
        BY <1>1, <3>2, <3>3, FlagsForType DEF Moves, OwnCall, Calls
    <2> QED  BY <1>6, <2>1, <2>2 DEF GetDomainState
  <1>7. CASE ModifyDevice(h)
    BY <1>1, <1>2, <1>7, RespondMoves DEF ModifyDevice, Succeeds, Calls, Done
  <1>8. CASE SaveFails(h)
    BY <1>1, <1>2, <1>8, RespondMoves DEF SaveFails, Succeeds, Calls, Done, OnError
  <1>9. CASE CreateDomain(h)
    BY <1>1, <1>2, <1>9, RespondMoves DEF CreateDomain, Succeeds, Calls, Done
  <1>10. CASE DestroyDomain(h)
    <2>1. handler' = Stale(Respond(h, "ok"), {handler[h].n} \ persistent)
      BY <1>10 DEF DestroyDomain, Ended
    <2> QED
      BY <1>1, <1>2, <1>10, <2>1, StaleMoves DEF DestroyDomain, Succeeds, Calls, Done
  <1>11. CASE UndefineDomain(h)
    <2>1. \E gone : handler' = Stale(Respond(h, "ok"), gone)
      BY <1>11 DEF UndefineDomain
    <2> QED
      BY <1>1, <1>2, <1>11, <2>1, StaleMoves DEF UndefineDomain, Succeeds, Calls, Done
  <1>12. CASE ListDomains(h)
    <2>1. CASE handler' = Respond(h, "ok")
      BY <1>1, <1>2, <1>12, <2>1, RespondMoves DEF ListDomains, Succeeds, Calls, Done
    <2>2. ASSUME NEW n \in Names,
                 handler' = [handler EXCEPT ![h].at = "listState", ![h].n = n, ![h].uuid = TRUE]
          PROVE  Moves(h) /\ OwnCalls'
      <3>1. handler[h].at \in {"list", "listState"} /\ handler[h].op = "ListVirtualMachineState"
        BY <1>0, <1>12 DEF ListDomains, Succeeds, OwnCall
      <3> DEFINE s == [handler[h] EXCEPT !.at = "listState", !.n = n, !.uuid = TRUE]
      <3>2. /\ s \in HandlerState /\ s.at = "listState"
            /\ s.op = handler[h].op /\ s.dev = handler[h].dev
        BY <1>0 DEF HandlerState, Calls
      <3>3. handler' = [handler EXCEPT ![h] = s]
        BY <2>2
      <3> HIDE DEF s
      <3>4. /\ handler' \in [Handlers -> HandlerState] /\ handler'[h] = s
            /\ \A g \in Handlers : g # h => handler'[g] = handler[g]
        BY <1>0, <3>2, <3>3
      <3> QED
        BY <1>1, <3>1, <3>2, <3>4 DEF Moves, OwnCall, Calls, DeviceRequests,
           AttachRequests, DetachRequests
    <2> QED  BY <1>12, <2>1, <2>2 DEF ListDomains
  <1>13. CASE ChangeConnection(h)
    BY <1>1, <1>2, <1>13, RespondMoves DEF ChangeConnection, Succeeds, Calls, Done
  <1>14. CASE CallFails(h)
    BY <1>1, <1>2, <1>14, RespondMoves DEF CallFails, Busy, OnError, Done
  <1> QED
    BY <1>3, <1>4, <1>5, <1>6, <1>7, <1>8, <1>9, <1>10, <1>11, <1>12, <1>13, <1>14 DEF Work

(* A request begins in a handler of its own, at a call of its own. *)
Begins(h, op, n, dev, at) ==
    /\ Begin(h, op, n, dev, at)
    /\ op \in Requests /\ n \in Names \cup {None} /\ dev \in Devices \cup {None}
    /\ at \in {"cores", "define", "lookup", "list", "connect", "disconnect"}
    /\ op \in DetachRequests => n \in Names
    /\ \A s : s.op = op /\ s.n = n /\ s.dev = dev /\ s.at = at => OwnCall(s)

(* Every request does. *)
LEMMA RequestBegins ==
    ASSUME NEW h \in Handlers, Request(h)
    PROVE  \E op, n, dev, at : Begins(h, op, n, dev, at)
  <1> USE DEF Begins, OwnCall, Requests, MachineRequests, DeviceRequests, AttachRequests,
              DetachRequests, Devices
  <1>1. ASSUME NEW n \in Names, NEW op \in MachineRequests, Begin(h, op, n, None, "lookup")
        PROVE  Begins(h, op, n, None, "lookup")
    BY <1>1
  <1>2. ASSUME NEW n \in Names, NEW op \in AttachRequests \cup DetachRequests,
               NEW dev \in Devices, Begin(h, op, n, dev, "lookup")
        PROVE  Begins(h, op, n, dev, "lookup")
    BY <1>2
  <1>3. ASSUME NEW n \in Names, NEW boot \in Disks \cup {None}, NEW at \in {"cores", "define"},
               Begin(h, "AddVirtualMachine", n, boot, at)
        PROVE  Begins(h, "AddVirtualMachine", n, boot, at)
    BY <1>3
  <1>4. ASSUME NEW d \in Disks
        PROVE  /\ Begin(h, "ConnectBlockDevice", None, d, "connect")
                    => Begins(h, "ConnectBlockDevice", None, d, "connect")
               /\ Begin(h, "DisconnectBlockDevice", None, d, "disconnect")
                    => Begins(h, "DisconnectBlockDevice", None, d, "disconnect")
    OBVIOUS
  <1>5. Begin(h, "ListVirtualMachineState", None, None, "list")
          => Begins(h, "ListVirtualMachineState", None, None, "list")
    OBVIOUS
  <1> USE DEF StartVirtualMachine, StopVirtualMachine, DeleteVirtualMachine,
              GetVirtualMachineState, AttachBlockDevice, DetachBlockDevice, AttachInterface,
              DetachInterface, AddVirtualMachine, ConnectBlockDevice, DisconnectBlockDevice,
              ListVirtualMachineState
  <1> HIDE DEF Begins, OwnCall, Requests
  <1>6. CASE \E n \in Names : \/ StartVirtualMachine(h, n) \/ StopVirtualMachine(h, n)
                              \/ DeleteVirtualMachine(h, n) \/ GetVirtualMachineState(h, n)
    BY <1>1, <1>6
  <1>7. CASE \E n \in Names :
               \/ \E d \in Disks : AttachBlockDevice(h, n, d) \/ DetachBlockDevice(h, n, d)
               \/ \E i \in Interfaces : AttachInterface(h, n, i) \/ DetachInterface(h, n, i)
    BY <1>2, <1>7
  <1>8. CASE \E n \in Names : \E boot \in Disks \cup {None} : AddVirtualMachine(h, n, boot)
    BY <1>3, <1>8
  <1>9. CASE \/ \E d \in Disks : ConnectBlockDevice(h, d) \/ DisconnectBlockDevice(h, d)
             \/ ListVirtualMachineState(h)
    BY <1>4, <1>5, <1>9
  <1> QED
    BY <1>6, <1>7, <1>8, <1>9 DEF Request

(* What a beginning request changes. *)
LEMMA BeginHandlers ==
    ASSUME TypeOK, NEW h \in Handlers, NEW op, NEW n, NEW dev, NEW at,
           Begins(h, op, n, dev, at)
    PROVE  /\ handler' \in [Handlers -> HandlerState]
           /\ handler[h].at \notin Calls
           /\ handler'[h].op = op /\ handler'[h].n = n /\ handler'[h].dev = dev
           /\ handler'[h].at = at /\ at # "modify"
           /\ op = "AddVirtualMachine" => ~handler'[h].uuid
           /\ \A g \in Handlers : g # h => handler'[g] = handler[g]
           /\ OwnCall(handler'[h])
  <1> DEFINE s == [op |-> op, n |-> n, dev |-> dev, at |-> at, flags |-> {},
                   uuid |-> /\ n \in Names /\ state[n] # "absent"
                            /\ op # "AddVirtualMachine"]
  <1>1. /\ s \in HandlerState /\ s.op = op /\ s.n = n /\ s.dev = dev /\ s.at = at
        /\ op = "AddVirtualMachine" => ~s.uuid
    BY DEF Begins, HandlerState, Calls, Flags
  <1>2. handler' = [handler EXCEPT ![h] = s]
    BY DEF Begins, Begin
  <1> HIDE DEF s
  <1>3. handler'[h] = s /\ \A g \in Handlers : g # h => handler'[g] = handler[g]
    BY <1>2 DEF TypeOK
  <1>4. handler' \in [Handlers -> HandlerState]
    BY <1>1, <1>2 DEF TypeOK
  <1>5. OwnCall(handler'[h])
    BY <1>1, <1>3 DEF Begins
  <1>6. handler[h].at \notin Calls /\ at # "modify"
    BY DEF Begins, Begin, Busy
  <1> QED
    BY <1>1, <1>3, <1>4, <1>5, <1>6

------------------------------------------------------------------------------
(* Type correctness *)

(* A request keeps the types and the calls. *)
LEMMA RequestType ==
    ASSUME TypeOK, OwnCalls, NEW h \in Handlers, NEW op, NEW n, NEW dev, NEW at,
           Begins(h, op, n, dev, at)
    PROVE  TypeOK' /\ OwnCalls'
  <1>1. UNCHANGED <<state, persistent, config, live, connected, told, unsaved>>
    BY DEF Begins, Begin, libvirt
  <1>2. promised' \in [Names -> SUBSET Devices]
    BY DEF Begins, Begin, TypeOK
  <1>3. OwnCalls'
    BY BeginHandlers DEF OwnCalls
  <1>4. \A g \in Handlers : handler'[g].at = "modify" => "config" \in handler'[g].flags
    BY BeginHandlers DEF TypeOK
  <1> QED
    BY <1>1, <1>2, <1>3, <1>4, BeginHandlers DEF TypeOK

(* The end of guests keeps the types. *)
LEMMA EndedType ==
    ASSUME TypeOK, OwnCalls, NEW ended, NEW hs, Ended(ended, hs), UNCHANGED connected \/ connected' = {},
           handler' \in [Handlers -> HandlerState], OwnCalls',
           \A n \in ended : state[n] \in Active
    PROVE  TypeOK'
  <1>1. /\ state' \in [Names -> States]
        /\ \A n \in Names : state'[n] = IF n \in ended \ persistent THEN "absent"
                                        ELSE IF n \in ended THEN "shutoff" ELSE state[n]
    BY DEF TypeOK, Ended, States
  <1>2. /\ live' \in [Names -> SUBSET Devices]
        /\ \A n \in Names : live'[n] = IF n \in ended THEN {} ELSE live[n]
    BY DEF TypeOK, Ended
  <1>3. \A h \in Handlers : handler'[h].at = "modify" => "config" \in handler'[h].flags
    BY DEF OwnCalls, OwnCall
  <1> QED
    BY <1>1, <1>2, <1>3 DEF TypeOK, Ended, Active

(* Every step of a handler keeps the types. *)
LEMMA WorkType ==
    ASSUME TypeOK, OwnCalls, NEW h \in Handlers, Work(h)
    PROVE  TypeOK'
  <1> DEFINE n == handler[h].n
  <1>0. /\ handler' \in [Handlers -> HandlerState] /\ OwnCall(handler[h])
        /\ OwnCalls'
        /\ \A g \in Handlers : handler'[g].at = "modify" => "config" \in handler'[g].flags
    BY WorkMoves DEF OwnCalls, OwnCall, Moves
  <1>1. CASE FindCores(h) \/ FindDomain(h) \/ GetDomainState(h) \/ ListDomains(h) \/ CallFails(h)
    <2>1. UNCHANGED <<libvirt, connected, history>>
      BY <1>1 DEF FindCores, FindDomain, GetDomainState, ListDomains, CallFails
    <2> QED
      BY <1>0, <2>1 DEF TypeOK, libvirt, history
  <1>2. CASE DefineDomain(h)
    <2>1. n \in Names /\ state[n] = "absent" /\ told' \in {told, told \cup {n}}
      BY <1>0, <1>2 DEF DefineDomain, Succeeds, Possible, OwnCall
    <2>2. /\ state' = [state EXCEPT ![n] = "shutoff"] /\ config' = [config EXCEPT ![n] = {}]
          /\ persistent' = persistent \cup {n} /\ UNCHANGED <<live, connected, promised, unsaved>>
      BY <1>2 DEF DefineDomain, domainTmpl
    <2> HIDE DEF n
    <2>3. state' \in [Names -> States] /\ config' \in [Names -> SUBSET Devices]
      BY <2>1, <2>2 DEF TypeOK, States
    <2> QED
      BY <1>0, <2>1, <2>2, <2>3 DEF TypeOK, Active
  <1>3. CASE ModifyDevice(h) \/ SaveFails(h)
    <2>1. /\ n \in Names /\ handler[h].dev \in Devices /\ CanModify(handler[h])
          /\ "config" \in handler[h].flags
      BY <1>0, <1>3 DEF ModifyDevice, SaveFails, Succeeds, Possible, OwnCall
    <2>2. n \in persistent /\ ("live" \in handler[h].flags => state[n] \in Active)
      BY <2>1 DEF CanModify
    <2>3. \A devices \in SUBSET Devices : Modified(handler[h], devices) \in SUBSET Devices
      BY <2>1 DEF Modified
    <2>4. /\ live' \in [Names -> SUBSET Devices]
          /\ \A m \in Names : state[m] \notin Active => live'[m] = {}
      BY <1>3, <2>1, <2>2, <2>3 DEF ModifyDevice, SaveFails, ModifyLive, TypeOK
    <2>5. /\ config' \in [Names -> SUBSET Devices]
          /\ \A m \in Names : m \notin persistent => config'[m] = {}
      BY <1>3, <2>1, <2>2, <2>3 DEF ModifyDevice, SaveFails, TypeOK
    <2>6. promised' \in [Names -> SUBSET Devices]
      BY <1>3, <2>1 DEF ModifyDevice, SaveFails, TypeOK
    <2>7. /\ told' \in {told, told \cup {n}} /\ unsaved' \in {unsaved, unsaved \cup {n}}
          /\ UNCHANGED <<state, persistent, connected>>
      BY <1>3 DEF ModifyDevice, SaveFails
    <2> HIDE DEF n
    <2> QED
      BY <1>0, <2>1, <2>2, <2>4, <2>5, <2>6, <2>7 DEF TypeOK
  <1>4. CASE CreateDomain(h)
    <2>1. n \in Names /\ state[n] = "shutoff"
      BY <1>0, <1>4 DEF CreateDomain, Succeeds, Possible, OwnCall
    <2>2. /\ state' = [state EXCEPT ![n] = "running"] /\ live' = [live EXCEPT ![n] = config[n]]
          /\ UNCHANGED <<persistent, config, connected, history>>
      BY <1>4 DEF CreateDomain
    <2> HIDE DEF n
    <2>3. state' \in [Names -> States] /\ live' \in [Names -> SUBSET Devices]
      BY <2>1, <2>2 DEF TypeOK, States, Active
    <2> QED
      BY <1>0, <2>1, <2>2, <2>3 DEF TypeOK, history, Active
  <1>5. CASE DestroyDomain(h)
    <2>1. /\ Ended({n}, Respond(h, "ok")) /\ UNCHANGED connected /\ state[n] \in Active
      BY <1>5 DEF DestroyDomain, Succeeds, Possible
    <2> QED
      BY <1>0, <2>1, EndedType
  <1>6. CASE UndefineDomain(h)
    <2>1. n \in Names /\ n \in persistent
      BY <1>0, <1>6 DEF UndefineDomain, Succeeds, Possible, OwnCall
    <2>2. /\ persistent' = persistent \ {n} /\ config' = [config EXCEPT ![n] = {}]
          /\ promised' = [promised EXCEPT ![n] = {}] /\ UNCHANGED <<live, connected, unsaved>>
          /\ \/ state[n] = "shutoff" /\ state' = [state EXCEPT ![n] = "absent"] /\ told' = told \ {n}
             \/ state[n] # "shutoff" /\ state' = state /\ told' = told
      BY <1>6 DEF UndefineDomain
    <2> HIDE DEF n
    <2>3. /\ state' \in [Names -> States] /\ config' \in [Names -> SUBSET Devices]
          /\ promised' \in [Names -> SUBSET Devices]
      BY <2>1, <2>2 DEF TypeOK, States
    <2> QED
      BY <1>0, <2>1, <2>2, <2>3 DEF TypeOK, Active
  <1>7. CASE ChangeConnection(h)
    <2>1. connected' \in SUBSET Disks /\ UNCHANGED <<libvirt, history>>
      BY <1>0, <1>7 DEF ChangeConnection, Succeeds, OwnCall, TypeOK
    <2> QED
      BY <1>0, <2>1 DEF TypeOK, libvirt, history
  <1> QED
    BY <1>1, <1>2, <1>3, <1>4, <1>5, <1>6, <1>7 DEF Work

(* What happens to guests and to the node leaves the handlers as they are, *)
(* but for UUIDs, or idle.                                                 *)
LEMMA OutsideMoves ==
    ASSUME TypeOK, OwnCalls,
           \/ \E n \in Names : GuestPowersOff(n) \/ GuestSuspendsOrWakes(n)
           \/ AgentRestart \/ NodeReboot
    PROVE  /\ handler' \in [Handlers -> HandlerState]
           /\ OwnCalls'
           /\ \A h \in Handlers :
                \/ handler'[h].at = "idle"
                \/ /\ handler'[h].at = handler[h].at /\ handler'[h].op = handler[h].op
                   /\ handler'[h].n = handler[h].n /\ handler'[h].dev = handler[h].dev
                   /\ handler'[h].flags = handler[h].flags
                   /\ handler'[h].uuid => handler[h].uuid
  <1> DEFINE idle == [h \in Handlers |-> Idle]
  <1>1. /\ idle \in [Handlers -> HandlerState]
        /\ \A h \in Handlers : idle[h].at = "idle"
    BY DEF Idle, HandlerState, Done
  <1>2. CASE \/ \E n \in Names : GuestPowersOff(n) \/ GuestSuspendsOrWakes(n)
    <2>1. handler' = handler \/ \E gone : handler' = Stale(handler, gone)
      BY <1>2 DEF GuestPowersOff, GuestSuspendsOrWakes, Ended
    <2>2. /\ handler' \in [Handlers -> HandlerState]
          /\ \A h \in Handlers :
               /\ handler'[h].at = handler[h].at /\ handler'[h].op = handler[h].op
               /\ handler'[h].n = handler[h].n /\ handler'[h].dev = handler[h].dev
               /\ handler'[h].flags = handler[h].flags
               /\ handler'[h].uuid => handler[h].uuid
      BY <2>1, StaleHandlers DEF TypeOK
    <2> QED
      BY <2>2 DEF OwnCalls, OwnCall
  <1>3. CASE AgentRestart \/ NodeReboot
    <2>1. handler' = idle \/ \E gone : handler' = Stale(idle, gone)
      BY <1>3 DEF AgentRestart, NodeReboot, Ended
    <2> HIDE DEF idle
    <2>2. /\ handler' \in [Handlers -> HandlerState]
          /\ \A h \in Handlers : handler'[h].at = "idle"
      BY <1>1, <2>1, StaleHandlers
    <2> QED
      BY <2>2 DEF OwnCalls, OwnCall, Calls
  <1> QED
    BY <1>2, <1>3

(* They keep the types too. *)
LEMMA OutsideType ==
    ASSUME TypeOK, OwnCalls,
           \/ \E n \in Names : GuestPowersOff(n) \/ GuestSuspendsOrWakes(n)
           \/ AgentRestart \/ NodeReboot
    PROVE  TypeOK'
  <1>0. /\ handler' \in [Handlers -> HandlerState] /\ OwnCalls'
        /\ \A h \in Handlers : handler'[h].at = "modify" => "config" \in handler'[h].flags
    BY OutsideMoves DEF OwnCalls, OwnCall
  <1>1. ASSUME NEW n \in Names, GuestPowersOff(n) PROVE TypeOK'
    BY <1>0, <1>1, EndedType DEF GuestPowersOff, Active
  <1>2. ASSUME NEW n \in Names, GuestSuspendsOrWakes(n) PROVE TypeOK'
    <2>1. /\ state[n] \in Active
          /\ state' = [state EXCEPT ![n] = "running"] \/ state' = [state EXCEPT ![n] = "suspended"]
          /\ UNCHANGED <<persistent, config, live, connected, handler, history>>
      BY <1>2 DEF GuestSuspendsOrWakes, Active
    <2>2. state' \in [Names -> States]
      BY <2>1 DEF TypeOK, States, Active
    <2> QED
      BY <1>0, <2>1, <2>2 DEF TypeOK, history, Active
  <1>3. CASE AgentRestart
    BY <1>0, <1>3 DEF AgentRestart, TypeOK, libvirt, history
  <1>4. CASE NodeReboot
    BY <1>0, <1>4, EndedType DEF NodeReboot
  <1> QED
    BY <1>1, <1>2, <1>3, <1>4

(* The first state. *)
LEMMA InitType == Init => TypeOK /\ OwnCalls
  BY DEF Init, TypeOK, OwnCalls, OwnCall, Idle, HandlerState, States, Active, Done, Calls

(* Every step keeps the types and the calls. *)
LEMMA NextType == TypeOK /\ OwnCalls /\ [Next]_vars => TypeOK' /\ OwnCalls'
  <1> SUFFICES ASSUME TypeOK, OwnCalls, [Next]_vars
               PROVE  TypeOK' /\ OwnCalls'
    OBVIOUS
  <1>1. CASE UNCHANGED vars
    BY <1>1 DEF vars, TypeOK, OwnCalls
  <1>2. ASSUME NEW h \in Handlers, Request(h) PROVE TypeOK' /\ OwnCalls'
    BY <1>2, RequestBegins, RequestType
  <1>3. ASSUME NEW h \in Handlers, Work(h) PROVE TypeOK' /\ OwnCalls'
    BY <1>3, WorkType, WorkMoves
  <1>4. CASE \/ \E n \in Names : GuestPowersOff(n) \/ GuestSuspendsOrWakes(n)
             \/ AgentRestart \/ NodeReboot
    BY <1>4, OutsideType, OutsideMoves
  <1> QED
    BY <1>1, <1>2, <1>3, <1>4 DEF Next

(* Whatever overlaps, fails or is rebooted, only running guests have live  *)
(* devices, only defined machines have a configuration, and whoever        *)
(* modifies a device has chosen flags, for any machines and handlers.      *)
THEOREM TypeCorrect == Spec => []TypeOK
  BY InitType, NextType, PTL DEF Spec

------------------------------------------------------------------------------
(* Machines are added once *)

(* No step that makes no new adder disturbs the others, as long as their   *)
(* machines are there and nobody is told of them.                          *)
LEMMA KeepsOneAdder ==
    ASSUME OneAdder,
           \A g \in Handlers : Adding(handler'[g]) =>
             /\ Adding(handler[g]) /\ handler'[g].n = handler[g].n
             /\ handler[g].n \notin told' /\ state'[handler[g].n] # "absent"
    PROVE  OneAdder'
  BY DEF OneAdder, Adding

(* A handler that answered adds nothing any more. *)
LEMMA DoneAddsNothing ==
    ASSUME NEW s, s.at \in Done
    PROVE  ~Adding(s)
  BY DEF Adding, Calls, Done

(* The adders after machines are gone, of those whose machine is left. *)
LEMMA GoneOneAdder ==
    ASSUME OneAdder, NEW hs \in [Handlers -> HandlerState], NEW gone,
           \A g \in Handlers : hs[g].at \in Done \/ hs[g] = handler[g],
           handler' = Stale(hs, gone), told' \subseteq told,
           \A n \in Names : state'[n] = "absent" => n \in gone \/ state[n] = "absent"
    PROVE  OneAdder'
  <1>1. ASSUME NEW g \in Handlers, Adding(handler'[g])
        PROVE  /\ Adding(handler[g]) /\ handler'[g].n = handler[g].n
               /\ handler[g].n \notin gone
    <2>1. /\ handler'[g].at = hs[g].at /\ handler'[g].op = hs[g].op
          /\ handler'[g].n = hs[g].n
          /\ handler'[g].uuid => hs[g].uuid /\ hs[g].n \notin gone
      BY StaleHandlers
    <2>2. Adding(hs[g]) /\ hs[g].n \notin gone /\ handler'[g].n = hs[g].n
      BY <1>1, <2>1 DEF Adding
    <2>3. hs[g] = handler[g]
      BY <2>2, DoneAddsNothing
    <2> QED
      BY <2>2, <2>3
  <1>2. \A g \in Handlers : Adding(handler[g]) =>
          handler[g].n \in Names \ told /\ state[handler[g].n] # "absent"
    BY DEF OneAdder
  <1> QED
    BY <1>1, <1>2, KeepsOneAdder

(* No step of a handler makes a second one for its machine. *)
LEMMA WorkOneAdder ==
    ASSUME TypeOK, OwnCalls, OneAdder, NEW h \in Handlers, Work(h)
    PROVE  OneAdder'
  <1> DEFINE n == handler[h].n
  <1>0. /\ handler \in [Handlers -> HandlerState] /\ OwnCall(handler[h]) /\ Moves(h)
        /\ handler[h].at \in Calls
    BY WorkMoves DEF TypeOK, OwnCalls, Moves
  <1>1. ASSUME NEW g \in Handlers, g # h, Adding(handler'[g])
        PROVE  Adding(handler[g]) /\ handler'[g].n = handler[g].n
    BY <1>0, <1>1 DEF Moves, Adding
  <1>2. \A g \in Handlers : Adding(handler[g]) =>
          handler[g].n \in Names \ told /\ state[handler[g].n] # "absent"
    BY DEF OneAdder
  <1>3. CASE FindCores(h) \/ FindDomain(h) \/ GetDomainState(h) \/ ListDomains(h)
             \/ ChangeConnection(h) \/ CallFails(h) \/ SaveFails(h)
    <2>1. UNCHANGED <<state, told>>
      BY <1>3 DEF FindCores, FindDomain, GetDomainState, ListDomains, ChangeConnection,
         CallFails, SaveFails, libvirt, history
    <2>2. Adding(handler'[h]) => Adding(handler[h]) /\ handler'[h].n = handler[h].n
      <3>1. CASE handler'[h].at \in Done
        BY <3>1, DoneAddsNothing
      <3>2. CASE ListDomains(h)
        BY <1>0, <3>2, DoneAddsNothing DEF ListDomains, Succeeds, OwnCall, Moves, Adding
      <3>3. CASE FindCores(h)
        BY <1>0, <3>3, ProceedHandlers DEF FindCores, Adding, Calls
      <3>4. CASE FindDomain(h)
        <4>1. AfterLookup(handler[h].op) \in Calls
          BY DEF AfterLookup, Calls
        <4> QED
          BY <1>0, <3>4, <4>1, ProceedHandlers DEF FindDomain, Adding
      <3>5. CASE GetDomainState(h)
        <4>1. CASE handler' = Respond(h, "ok")
          BY <1>0, <4>1, RespondHandlers, DoneAddsNothing DEF Done
        <4>2. CASE handler' = [handler EXCEPT ![h].at = "modify",
                                              ![h].flags = FlagsFor(state[handler[h].n])]
          <5>1. /\ handler'[h].op = handler[h].op /\ handler'[h].n = handler[h].n
                /\ handler'[h].uuid => handler[h].uuid
            BY <1>0, <4>2 DEF HandlerState
          <5> QED
            BY <1>0, <5>1 DEF Adding
        <4> QED  BY <3>5, <4>1, <4>2 DEF GetDomainState
      <3>6. CASE ChangeConnection(h) \/ CallFails(h) \/ SaveFails(h)
        BY <1>0, <3>6, RespondHandlers, DoneAddsNothing
           DEF ChangeConnection, CallFails, SaveFails, OnError, Done
      <3> QED  BY <1>3, <3>2, <3>3, <3>4, <3>5, <3>6
    <2> QED
      BY <1>1, <1>2, <2>1, <2>2, KeepsOneAdder
  <1>4. CASE DefineDomain(h)
    <2>1. /\ n \in Names /\ state[n] = "absent" /\ n \notin told
          /\ state' = [state EXCEPT ![n] = "shutoff"] /\ told' \in {told, told \cup {n}}
      BY <1>0, <1>4 DEF DefineDomain, Succeeds, Possible, OwnCall, TypeOK
    <2> HIDE DEF n
    <2>2. \A m \in Names : state[m] # "absent" => state'[m] # "absent" /\ (m \in told' => m \in told)
      BY <2>1 DEF TypeOK
    <2>3. \A g \in Handlers : g # h /\ Adding(handler'[g]) =>
            /\ Adding(handler[g]) /\ handler'[g].n = handler[g].n /\ handler[g].n # n
            /\ handler[g].n \in Names \ told' /\ state'[handler[g].n] # "absent"
      BY <1>1, <1>2, <2>1, <2>2
    <2>4. CASE handler' = Respond(h, "ok")
      <3>1. ~Adding(handler'[h])
        BY <1>0, <2>4, RespondHandlers, DoneAddsNothing DEF Done
      <3> QED
        BY <2>3, <3>1, KeepsOneAdder
    <2>5. CASE /\ handler' = [handler EXCEPT ![h].at = "lookup", ![h].uuid = TRUE]
               /\ told' = told
      <3>1. handler'[h].n = n
        BY <1>0, <2>5 DEF HandlerState, n
      <3>2. n \in Names \ told' /\ state'[n] # "absent"
        BY <2>1, <2>5 DEF TypeOK
      <3>3. \A g \in Handlers : Adding(handler'[g]) =>
              /\ handler'[g].n \in Names \ told' /\ state'[handler'[g].n] # "absent"
              /\ g # h => /\ Adding(handler[g]) /\ handler'[g].n = handler[g].n
                          /\ handler[g].n # n
        BY <2>3, <3>1, <3>2
      <3> QED
        BY <3>1, <3>3 DEF OneAdder
    <2> QED  BY <1>4, <2>4, <2>5 DEF DefineDomain
  <1>5. CASE ModifyDevice(h)
    <2>1. ~Adding(handler'[h])
      BY <1>0, <1>5, RespondHandlers, DoneAddsNothing DEF ModifyDevice, Done
    <2>2. handler[h].uuid /\ state' = state
      BY <1>5 DEF ModifyDevice, Succeeds, Possible, CanModify
    <2>3. told' = told \/ (told' = told \cup {n} /\ Adding(handler[h]))
      BY <1>0, <1>5, <2>2 DEF ModifyDevice, Adding
    <2> QED
      BY <1>1, <1>2, <2>1, <2>2, <2>3, KeepsOneAdder DEF OneAdder
  <1>6. CASE CreateDomain(h)
    <2>1. ~Adding(handler'[h])
      BY <1>0, <1>6, RespondHandlers, DoneAddsNothing DEF CreateDomain, Done
    <2>2. told' = told /\ \A m \in Names : state[m] # "absent" => state'[m] # "absent"
      BY <1>6 DEF CreateDomain, history, TypeOK
    <2> QED
      BY <1>1, <1>2, <2>1, <2>2, KeepsOneAdder
  <1>7. CASE DestroyDomain(h) \/ UndefineDomain(h)
    <2>1. \E gone : /\ handler' = Stale(Respond(h, "ok"), gone) /\ told' \subseteq told
                    /\ \A m \in Names : state'[m] = "absent" => m \in gone \/ state[m] = "absent"
      <3>1. CASE DestroyDomain(h)
        BY <3>1 DEF DestroyDomain, Ended, TypeOK
      <3>2. CASE UndefineDomain(h)
        BY <3>2 DEF UndefineDomain, TypeOK
      <3> QED  BY <1>7, <3>1, <3>2
    <2>2. /\ Respond(h, "ok") \in [Handlers -> HandlerState]
          /\ \A g \in Handlers : Respond(h, "ok")[g].at \in Done \/ Respond(h, "ok")[g] = handler[g]
      BY <1>0, RespondHandlers DEF Done
    <2> QED
      BY <2>1, <2>2, GoneOneAdder
  <1> QED
    BY <1>3, <1>4, <1>5, <1>6, <1>7 DEF Work

(* Nor does any other step. *)
LEMMA NextOneAdder ==
    ASSUME TypeOK, OwnCalls, OneAdder, [Next]_vars
    PROVE  OneAdder'
  <1>1. CASE UNCHANGED vars
    BY <1>1 DEF vars, OneAdder
  <1>2. ASSUME NEW h \in Handlers, Request(h) PROVE OneAdder'
    <2>1. PICK op, n, dev, at : Begins(h, op, n, dev, at)
      BY <1>2, RequestBegins
    <2>2. UNCHANGED <<state, told>>
      BY <2>1 DEF Begins, Begin, libvirt
    <2>3. /\ ~Adding(handler'[h])
          /\ \A g \in Handlers : g # h => handler'[g] = handler[g]
      BY <2>1, BeginHandlers DEF Adding
    <2> QED
      BY <2>2, <2>3, KeepsOneAdder DEF OneAdder
  <1>3. ASSUME NEW n \in Names, GuestPowersOff(n) PROVE OneAdder'
    <2>1. /\ handler' = Stale(handler, {n} \ persistent) /\ told' \subseteq told
          /\ \A m \in Names : state'[m] = "absent" => m \in {n} \ persistent \/ state[m] = "absent"
      BY <1>3 DEF GuestPowersOff, Ended, TypeOK
    <2> QED
      BY <2>1, GoneOneAdder DEF TypeOK
  <1>4. ASSUME NEW n \in Names, GuestSuspendsOrWakes(n) PROVE OneAdder'
    <2>1. /\ UNCHANGED <<handler, told>>
          /\ \A m \in Names : state[m] # "absent" => state'[m] # "absent"
      BY <1>4 DEF GuestSuspendsOrWakes, history, TypeOK
    <2> QED
      BY <2>1, KeepsOneAdder DEF OneAdder
  <1>5. CASE AgentRestart \/ NodeReboot
    <2>1. \A h \in Handlers : handler'[h].at = "idle"
      BY <1>5, StaleHandlers DEF AgentRestart, NodeReboot, Ended, Stale, Idle
    <2> QED
      BY <2>1, KeepsOneAdder, DoneAddsNothing DEF Done
  <1> QED
    BY <1>1, <1>2, <1>3, <1>4, <1>5, WorkOneAdder DEF Next

(* A handler of AddVirtualMachine reports success in DefineDomain or after *)
(* it attached the boot device, both times for a machine nobody was told   *)
(* of.                                                                     *)
LEMMA AddedStep ==
    ASSUME TypeOK, OwnCalls, OneAdder, [Next]_vars, NEW h \in Handlers,
           handler[h].op = "AddVirtualMachine", Busy(h), handler'[h].at = "ok"
    PROVE  handler[h].n \notin told
  <1>0. handler[h].at \in Calls /\ OwnCall(handler[h]) /\ "ok" \notin Calls
    BY DEF Busy, OwnCalls, Calls
  <1>1. ASSUME NEW g \in Handlers, Request(g) PROVE FALSE
    <2>1. PICK op, n, dev, at : Begins(g, op, n, dev, at)
      BY <1>1, RequestBegins
    <2> QED
      BY <1>0, <2>1, BeginHandlers
  <1>2. ASSUME NEW g \in Handlers, Work(g), g # h PROVE FALSE
    BY <1>0, <1>2, WorkMoves DEF Moves
  <1>3. ASSUME Work(h) PROVE handler[h].n \notin told
    <2> USE DEF Succeeds
    <2>1. CASE FindCores(h)
      BY <1>0, <2>1, ProceedHandlers DEF FindCores, TypeOK, Calls
    <2>2. CASE DefineDomain(h)
      BY <1>0, <2>2 DEF DefineDomain, Possible, OwnCall, TypeOK
    <2>3. CASE FindDomain(h)
      BY <1>0, <2>3, ProceedHandlers DEF FindDomain, AfterLookup, TypeOK, Calls
    <2>4. CASE GetDomainState(h)
      <3>1. handler'[h].at = "modify"
        BY <2>4 DEF GetDomainState, TypeOK, HandlerState
      <3> QED  BY <3>1
    <2>5. CASE ModifyDevice(h)
      BY <1>0, <2>5 DEF ModifyDevice, Possible, CanModify, OneAdder, Adding
    <2>6. CASE CreateDomain(h) \/ DestroyDomain(h) \/ UndefineDomain(h) \/ ListDomains(h)
               \/ ChangeConnection(h)
      BY <1>0, <2>6 DEF CreateDomain, DestroyDomain, UndefineDomain, ListDomains,
         ChangeConnection, OwnCall
    <2>7. CASE SaveFails(h) \/ CallFails(h)
      <3>1. handler'[h].at = "error"
        BY <2>7, RespondHandlers DEF SaveFails, CallFails, OnError, TypeOK, Done
      <3> QED  BY <3>1
    <2> QED
      BY <1>3, <2>1, <2>2, <2>3, <2>4, <2>5, <2>6, <2>7 DEF Work
  <1>4. CASE \/ \E n \in Names : GuestPowersOff(n) \/ GuestSuspendsOrWakes(n)
             \/ AgentRestart \/ NodeReboot
    BY <1>0, <1>4, OutsideMoves
  <1>5. CASE UNCHANGED vars
    BY <1>0, <1>5 DEF vars
  <1> QED
    BY <1>1, <1>2, <1>3, <1>4, <1>5 DEF Next

(* No two callers are told that they added the same machine, for any       *)
(* machines, devices and handlers: the one UUID that AddVirtualMachine     *)
(* holds for its boot device goes stale with the machine it defined.       *)
THEOREM AddedOnce == Spec => NoNameAddedTwice
  <1>1. Init => OneAdder
    BY DEF Init, OneAdder, Adding, Idle
  <1>2. TypeOK /\ OwnCalls /\ OneAdder /\ [Next]_vars => OneAdder'
    BY NextOneAdder
  <1>3. TypeOK /\ OwnCalls /\ OneAdder /\ [Next]_vars =>
          [\A h \in Handlers :
             handler[h].op = "AddVirtualMachine" /\ Busy(h) /\ handler'[h].at = "ok"
                 => handler[h].n \notin told]_vars
    BY AddedStep
  <1> QED
    BY <1>1, <1>2, <1>3, InitType, NextType, PTL DEF Spec, NoNameAddedTwice

------------------------------------------------------------------------------
(* What is in a guest *)

(* As long as clients keep starts and changes of devices apart, no step of *)
(* a handler brings the two together.                                      *)
LEMMA WorkApart ==
    ASSUME TypeOK, OwnCalls, Apart, NEW h \in Handlers, Work(h)
    PROVE  Apart'
  <1>1. OwnCall(handler[h]) /\ Moves(h)
    BY WorkMoves DEF OwnCalls
  <1>2. ASSUME NEW g \in Handlers, handler'[g].at \in Calls,
               handler'[g].op \in DeviceRequests \cup {"StartVirtualMachine"}
        PROVE  /\ handler[g].at \in Calls /\ handler[g].op = handler'[g].op
               /\ handler[g].n = handler'[g].n
    BY <1>1, <1>2 DEF Moves, Calls, Done, DeviceRequests, AttachRequests, DetachRequests
  <1> QED
    BY <1>2 DEF Apart

(* What a step of a handler knows of the states that flags depend on. *)
LEMMA WorkFlagsKnown ==
    ASSUME TypeOK, OwnCalls, Apart, FlagsKnown, NEW h \in Handlers, Work(h)
    PROVE  FlagsKnown'
  <1>0. OwnCall(handler[h]) /\ Moves(h) /\ handler \in [Handlers -> HandlerState]
    BY WorkMoves DEF OwnCalls, TypeOK
  <1>1. ASSUME NEW n \in Names, state[n] \notin Active, state'[n] \in Active
        PROVE  /\ handler[h].op = "StartVirtualMachine" /\ handler[h].n = n
               /\ handler[h].at \in Calls /\ handler'[h].at = "ok"
    <2>1. CASE CreateDomain(h)
      <3>1. /\ handler[h].at = "create" /\ handler'[h].at = "ok"
            /\ handler[h].op = "StartVirtualMachine"
        BY <1>0, <2>1, RespondHandlers DEF CreateDomain, Succeeds, OwnCall, Done
      <3>2. state' = [state EXCEPT ![handler[h].n] = "running"]
        BY <2>1 DEF CreateDomain
      <3>3. handler[h].n = n
        BY <1>1, <3>2 DEF TypeOK
      <3> QED
        BY <3>1, <3>3 DEF Calls
    <2>2. CASE DefineDomain(h) \/ UndefineDomain(h) \/ DestroyDomain(h)
      <3>1. state'[n] \in {state[n], "shutoff", "absent"}
        <4>1. CASE DefineDomain(h)
          BY <4>1 DEF DefineDomain, TypeOK
        <4>2. CASE UndefineDomain(h)
          BY <4>2 DEF UndefineDomain, TypeOK
        <4>3. CASE DestroyDomain(h)
          BY <4>3 DEF DestroyDomain, Ended
        <4> QED  BY <2>2, <4>1, <4>2, <4>3
      <3> QED
        BY <1>1, <3>1 DEF Active
    <2>3. CASE \/ FindCores(h) \/ FindDomain(h) \/ GetDomainState(h) \/ ModifyDevice(h)
               \/ SaveFails(h) \/ ListDomains(h) \/ ChangeConnection(h) \/ CallFails(h)
      BY <1>1, <2>3 DEF FindCores, FindDomain, GetDomainState, ModifyDevice, SaveFails,
         ListDomains, ChangeConnection, CallFails, libvirt
    <2> QED  BY <2>1, <2>2, <2>3 DEF Work
  <1>2. ASSUME NEW g \in Handlers, handler'[g].at = "modify", handler'[g].flags = {"config"},
               handler[g].at = "modify", handler[g].n = handler'[g].n,
               handler[g].flags = handler'[g].flags
        PROVE  state'[handler'[g].n] \notin Active
    <2>1. /\ handler[g].n \in Names /\ handler[g].op \in DeviceRequests
          /\ handler[g].at \in Calls /\ state[handler[g].n] \notin Active
      BY <1>2 DEF OwnCalls, OwnCall, FlagsKnown, Calls
    <2> QED
      BY <1>1, <1>2, <2>1 DEF Apart
  <1>3. ASSUME handler'[h].at = "modify", handler'[h].flags = {"config"}
        PROVE  state'[handler'[h].n] \notin Active
    <2>1. GetDomainState(h)
      <3>1. CASE FindCores(h) \/ FindDomain(h)
        BY <1>0, <1>3, <3>1, ProceedHandlers
           DEF FindCores, FindDomain, AfterLookup, Calls
      <3>2. CASE DefineDomain(h)
        BY <1>0, <1>3, <3>2 DEF DefineDomain, Respond, Idle, HandlerState
      <3>3. CASE DestroyDomain(h) \/ UndefineDomain(h)
        <4>1. \E gone : handler' = Stale(Respond(h, "ok"), gone)
          BY <3>3 DEF DestroyDomain, UndefineDomain, Ended
        <4>2. /\ Respond(h, "ok") \in [Handlers -> HandlerState]
              /\ Respond(h, "ok")[h].at = "ok"
          BY <1>0, RespondHandlers DEF Done
        <4>3. handler'[h].at = "ok"
          BY <4>1, <4>2, StaleHandlers
        <4> QED
          BY <1>3, <4>3
      <3>4. CASE ListDomains(h)
        <4>1. CASE handler' = Respond(h, "ok")
          BY <1>0, <1>3, <4>1, RespondHandlers DEF Done
        <4>2. ASSUME NEW n, handler' = [handler EXCEPT ![h].at = "listState", ![h].n = n,
                                                       ![h].uuid = TRUE]
              PROVE  handler'[h].at = "listState"
          BY <1>0, <4>2 DEF HandlerState
        <4> QED
          BY <1>3, <3>4, <4>1, <4>2 DEF ListDomains
      <3>5. CASE \/ ModifyDevice(h) \/ SaveFails(h) \/ CreateDomain(h)
                 \/ ChangeConnection(h) \/ CallFails(h)
        BY <1>0, <1>3, <3>5, RespondHandlers
           DEF ModifyDevice, SaveFails, CreateDomain, ChangeConnection, CallFails, OnError, Done
      <3> QED  BY <3>1, <3>2, <3>3, <3>4, <3>5 DEF Work
    <2>2. /\ handler'[h].flags = FlagsFor(state[handler[h].n]) /\ handler'[h].n = handler[h].n
          /\ state' = state
      BY <1>0, <1>3, <2>1 DEF GetDomainState, Respond, Idle, HandlerState, libvirt
    <2>3. state[handler[h].n] = "shutoff"
      BY <1>3, <2>2, FlagsForType
    <2> QED
      BY <2>2, <2>3 DEF Active
  <1>4. \A g \in Handlers : g # h =>
          /\ handler[g].at = handler'[g].at /\ handler[g].n = handler'[g].n
          /\ handler[g].flags = handler'[g].flags
    BY <1>0 DEF Moves
  <1> QED
    BY <1>2, <1>3, <1>4 DEF FlagsKnown

(* Nobody promises what is being detached. *)
LEMMA WorkDetached ==
    ASSUME TypeOK, OwnCalls, DetachedNotPromised, NEW h \in Handlers, Work(h)
    PROVE  DetachedNotPromised'
  <1>1. Moves(h)
    BY WorkMoves
  <1>2. ASSUME NEW g \in Handlers, handler'[g].at \in Calls, handler'[g].op \in DetachRequests
        PROVE  /\ handler[g].at \in Calls /\ handler[g].op = handler'[g].op
               /\ handler[g].n = handler'[g].n /\ handler[g].dev = handler'[g].dev
               /\ handler[g].n \in Names
    <2>1. /\ handler[g].at \in Calls /\ handler[g].op = handler'[g].op
          /\ handler[g].n = handler'[g].n /\ handler[g].dev = handler'[g].dev
      BY <1>1, <1>2 DEF Moves, Calls, Done, DetachRequests
    <2> QED
      BY <1>2, <2>1 DEF OwnCalls, OwnCall, Calls, DetachRequests
  <1>3. \A n \in Names : \A dev : dev \in promised'[n] =>
          \/ dev \in promised[n]
          \/ ~ BeingDetached(n, dev)
    <2>1. CASE ModifyDevice(h)
      BY <2>1 DEF ModifyDevice, TypeOK
    <2>2. CASE UndefineDomain(h)
      BY <2>2 DEF UndefineDomain, TypeOK
    <2>3. CASE \/ FindCores(h) \/ DefineDomain(h) \/ FindDomain(h) \/ GetDomainState(h)
               \/ SaveFails(h) \/ CreateDomain(h) \/ DestroyDomain(h) \/ ListDomains(h)
               \/ ChangeConnection(h) \/ CallFails(h)
      BY <2>3 DEF FindCores, DefineDomain, FindDomain, GetDomainState, SaveFails, CreateDomain,
         DestroyDomain, Ended, ListDomains, ChangeConnection, CallFails, history
    <2> QED  BY <2>1, <2>2, <2>3 DEF Work
  <1> QED
    BY <1>2, <1>3 DEF DetachedNotPromised, BeingDetached, Busy

(* A step of a handler changes configuration and guest alike, and takes    *)
(* nothing from them that is promised.                                     *)
LEMMA WorkGuest ==
    ASSUME TypeOK, OwnCalls, FlagsKnown, DetachedNotPromised, AttachedDevicesInGuest,
           GuestMatchesConfig, NEW h \in Handlers, Work(h)
    PROVE  AttachedDevicesInGuest' /\ GuestMatchesConfig'
  <1> DEFINE n == handler[h].n
             dev == handler[h].dev
  <1>0. OwnCall(handler[h])
    BY DEF OwnCalls
  <1>1. CASE FindCores(h) \/ FindDomain(h) \/ GetDomainState(h) \/ ListDomains(h)
             \/ ChangeConnection(h) \/ CallFails(h)
    BY <1>1 DEF FindCores, FindDomain, GetDomainState, ListDomains, ChangeConnection, CallFails,
       libvirt, history, AttachedDevicesInGuest, GuestMatchesConfig
  <1>2. CASE DefineDomain(h)
    <2>1. n \in Names /\ state[n] = "absent" /\ promised[n] = {}
      BY <1>0, <1>2
         DEF DefineDomain, Succeeds, Possible, OwnCall, TypeOK, AttachedDevicesInGuest
    <2>2. /\ state' = [state EXCEPT ![n] = "shutoff"] /\ config' = [config EXCEPT ![n] = {}]
          /\ persistent' = persistent \cup {n} /\ UNCHANGED <<live, promised, unsaved>>
      BY <1>2 DEF DefineDomain, domainTmpl
    <2> HIDE DEF n
    <2> QED
      BY <2>1, <2>2 DEF TypeOK, AttachedDevicesInGuest, GuestMatchesConfig, Active
  <1>3. CASE ModifyDevice(h) \/ SaveFails(h)
    <2>1. /\ n \in Names /\ dev \in Devices /\ CanModify(handler[h]) /\ handler[h].at = "modify"
          /\ handler[h].flags \in {{"config"}, {"config", "live"}, {"config", "force"}}
      BY <1>0, <1>3 DEF ModifyDevice, SaveFails, Succeeds, Possible, OwnCall
    <2>2. /\ handler[h].flags \in {{"config"}, {"config", "live"}}
          /\ "live" \notin handler[h].flags => state[n] \notin Active
      BY <2>1 DEF CanModify, FlagsKnown
    <2>3. handler[h].op \in DetachRequests => dev \notin promised[n]
      BY <2>1 DEF DetachedNotPromised, Calls
    <2>4. \A devices, d : d \in Modified(handler[h], devices) <=>
                           IF handler[h].op \in DetachRequests THEN d \in devices /\ d # dev
                           ELSE d \in devices \/ d = dev
      BY DEF Modified
    <2>5. /\ live' \in [Names -> SUBSET Devices] /\ UNCHANGED <<state, persistent>>
          /\ \A m \in Names : live'[m] = IF m = n /\ "live" \in handler[h].flags
                                       THEN Modified(handler[h], live[m]) ELSE live[m]
      BY <1>3, <2>1, <2>4 DEF ModifyDevice, SaveFails, ModifyLive, TypeOK
    <2>6. CASE ModifyDevice(h)
      <3>1. /\ unsaved' = unsaved
            /\ \A m \in Names : config'[m] = IF m = n THEN Modified(handler[h], config[m])
                                           ELSE config[m]
        BY <2>1, <2>6 DEF ModifyDevice, TypeOK
      <3>2. \A m \in Names : \/ promised'[m] = promised[m]
                             \/ /\ m = n /\ promised'[m] = promised[m] \cup {dev}
                                /\ handler[h].op \notin DetachRequests
        BY <2>1, <2>6 DEF ModifyDevice, TypeOK
      <3> HIDE DEF n, dev
      <3>3. GuestMatchesConfig'
        BY <2>2, <2>5, <3>1 DEF GuestMatchesConfig, TypeOK
      <3>4. AttachedDevicesInGuest'
        <4>1. ASSUME NEW m \in Names, NEW d \in promised'[m]
              PROVE  /\ d \in config'[m]
                     /\ state'[m] \in Active => d \in live'[m]
          <5>1. d \in promised[m] => d \in config[m] /\ (state[m] \in Active => d \in live[m])
            BY DEF AttachedDevicesInGuest
          <5>2. \/ d \in promised[m]
                \/ m = n /\ d = dev /\ handler[h].op \notin DetachRequests
            BY <3>2, <4>1
          <5>3. CASE m # n
            BY <2>5, <3>1, <5>1, <5>2, <5>3
          <5>4. CASE m = n
            <6>1. config'[m] = Modified(handler[h], config[m]) /\ state' = state
              BY <2>5, <3>1, <5>4
            <6>2. state[m] \in Active => live'[m] = Modified(handler[h], live[m])
              BY <2>2, <2>5, <5>4
            <6> QED
              BY <2>3, <2>4, <5>1, <5>2, <5>4, <6>1, <6>2
          <5> QED  BY <5>3, <5>4
        <4> QED
          BY <4>1 DEF AttachedDevicesInGuest
      <3> QED  BY <3>3, <3>4
    <2>7. CASE SaveFails(h)
      <3>1. unsaved' = unsaved \cup {n} /\ UNCHANGED <<config, promised>>
        BY <2>7 DEF SaveFails
      <3> HIDE DEF n, dev
      <3>2. GuestMatchesConfig'
        BY <2>5, <3>1 DEF GuestMatchesConfig, TypeOK
      <3>3. AttachedDevicesInGuest'
        <4>1. ASSUME NEW m \in Names, NEW d \in promised[m], state'[m] \in Active
              PROVE  d \in live'[m]
          <5>1. d \in live[m]
            BY <2>5, <4>1 DEF AttachedDevicesInGuest
          <5>2. live'[m] \in {live[m], Modified(handler[h], live[m])}
                /\ (m # n => live'[m] = live[m])
            BY <2>5
          <5> QED
            BY <2>3, <2>4, <4>1, <5>1, <5>2
        <4> QED
          BY <3>1, <4>1 DEF AttachedDevicesInGuest
      <3> QED  BY <3>2, <3>3
    <2> QED  BY <1>3, <2>6, <2>7
  <1>4. CASE CreateDomain(h)
    <2>1. /\ n \in Names /\ live' = [live EXCEPT ![n] = config[n]]
          /\ state' = [state EXCEPT ![n] = "running"] /\ UNCHANGED <<persistent, config, history>>
      BY <1>0, <1>4 DEF CreateDomain, Succeeds, OwnCall
    <2> HIDE DEF n
    <2> QED
      BY <2>1 DEF TypeOK, history, AttachedDevicesInGuest, GuestMatchesConfig
  <1>5. CASE DestroyDomain(h)
    BY <1>5 DEF DestroyDomain, Ended, TypeOK, AttachedDevicesInGuest, GuestMatchesConfig, Active
  <1>6. CASE UndefineDomain(h)
    <2>1. /\ n \in Names /\ persistent' = persistent \ {n} /\ config' = [config EXCEPT ![n] = {}]
          /\ promised' = [promised EXCEPT ![n] = {}] /\ UNCHANGED <<live, unsaved>>
          /\ \A m \in Names : state'[m] \in {state[m], "absent"}
      BY <1>0, <1>6 DEF UndefineDomain, Succeeds, OwnCall, TypeOK
    <2> HIDE DEF n
    <2> QED
      BY <2>1 DEF TypeOK, AttachedDevicesInGuest, GuestMatchesConfig, Active
  <1> QED
    BY <1>1, <1>2, <1>3, <1>4, <1>5, <1>6 DEF Work

(* All that is as true after every other step. *)
LEMMA NextDevices ==
    ASSUME StartAlone, TypeOK, OwnCalls, DevicesInv, [Next]_vars
    PROVE  DevicesInv'
  <1>1. CASE UNCHANGED vars
    BY <1>1 DEF vars, DevicesInv, Apart, FlagsKnown, DetachedNotPromised,
       AttachedDevicesInGuest, GuestMatchesConfig
  <1>2. ASSUME NEW h \in Handlers, Request(h) PROVE DevicesInv'
    <2>1. PICK op, n, dev, at : Begins(h, op, n, dev, at)
      BY <1>2, RequestBegins
    <2>2. /\ ~StartsOverlap(op, n) /\ UNCHANGED <<state, persistent, config, live, unsaved>>
          /\ op \in DetachRequests => n \in Names
          /\ promised' = IF op \in DetachRequests
                         THEN [promised EXCEPT ![n] = @ \ {dev}] ELSE promised
      BY <2>1 DEF Begins, Begin, libvirt
    <2>3. /\ handler'[h].op = op /\ handler'[h].n = n /\ handler'[h].dev = dev
          /\ handler'[h].at # "modify" /\ handler[h].at \notin Calls
          /\ \A g \in Handlers : g # h => handler'[g] = handler[g]
      BY <2>1, BeginHandlers
    <2>4. Apart'
      BY <2>2, <2>3 DEF DevicesInv, Apart, StartsOverlap, Busy, DeviceRequests, AttachRequests,
         DetachRequests
    <2>5. FlagsKnown'
      BY <2>2, <2>3 DEF DevicesInv, FlagsKnown
    <2>6. \A m \in Names : promised'[m] \subseteq promised[m]
      BY <2>2 DEF TypeOK
    <2>7. DetachedNotPromised'
      <3>1. op \in DetachRequests => dev \notin promised'[n]
        BY <2>2 DEF TypeOK
      <3>2. \A g \in Handlers : handler[g].at \in Calls /\ handler[g].op \in DetachRequests
                                  => handler[g].n \in Names
        BY DEF OwnCalls, OwnCall, Calls, DetachRequests
      <3> QED
        BY <2>3, <2>6, <3>1, <3>2 DEF DevicesInv, DetachedNotPromised
    <2>8. AttachedDevicesInGuest' /\ GuestMatchesConfig'
      BY <2>2, <2>6 DEF DevicesInv, AttachedDevicesInGuest, GuestMatchesConfig
    <2> QED  BY <2>4, <2>5, <2>7, <2>8 DEF DevicesInv
  <1>3. ASSUME NEW h \in Handlers, Work(h) PROVE DevicesInv'
    BY <1>3, WorkApart, WorkFlagsKnown, WorkDetached, WorkGuest DEF DevicesInv
  <1>4. ASSUME \/ \E n \in Names : GuestPowersOff(n) \/ GuestSuspendsOrWakes(n)
               \/ AgentRestart \/ NodeReboot
        PROVE  DevicesInv'
    <2>1. /\ promised' = promised /\ persistent' = persistent /\ config' = config
          /\ \A m \in Names : state'[m] \in Active =>
               /\ state[m] \in Active /\ live'[m] = live[m]
               /\ m \in unsaved => m \in unsaved'
      <3>1. CASE \/ AgentRestart \/ \E n \in Names : GuestSuspendsOrWakes(n)
        BY <3>1 DEF AgentRestart, GuestSuspendsOrWakes, libvirt, history, TypeOK, Active
      <3>2. CASE NodeReboot \/ \E n \in Names : GuestPowersOff(n)
        BY <3>2 DEF NodeReboot, GuestPowersOff, Ended, TypeOK, Active
      <3> QED  BY <1>4, <3>1, <3>2
    <2>2. \A h \in Handlers : handler'[h].at \in Calls =>
            /\ handler'[h].at = handler[h].at /\ handler'[h].op = handler[h].op
            /\ handler'[h].n = handler[h].n /\ handler'[h].dev = handler[h].dev
            /\ handler'[h].flags = handler[h].flags
      BY <1>4, OutsideMoves DEF Calls
    <2>3. Apart' /\ DetachedNotPromised'
      BY <2>1, <2>2 DEF DevicesInv, Apart, DetachedNotPromised
    <2>4. FlagsKnown'
      BY <2>1, <2>2 DEF DevicesInv, FlagsKnown, OwnCalls, OwnCall, Calls
    <2>5. AttachedDevicesInGuest' /\ GuestMatchesConfig'
      BY <2>1 DEF DevicesInv, AttachedDevicesInGuest, GuestMatchesConfig, TypeOK
    <2> QED  BY <2>3, <2>4, <2>5 DEF DevicesInv
  <1> QED
    BY <1>1, <1>2, <1>3, <1>4 DEF Next

(* The first state. *)
LEMMA InitDevices == Init => DevicesInv
  BY DEF Init, DevicesInv, Apart, FlagsKnown, DetachedNotPromised, AttachedDevicesInGuest,
     GuestMatchesConfig, Idle, Active, Calls

(* As long as clients do not start a machine while they change its         *)
(* devices, what was reported attached is in the configuration and in the  *)
(* running guest, whatever else overlaps, fails or is rebooted.            *)
THEOREM AttachedStays ==
    ASSUME StartAlone
    PROVE  Spec => []AttachedDevicesInGuest
  <1>1. TypeOK /\ OwnCalls /\ DevicesInv /\ [Next]_vars => DevicesInv'
    BY NextDevices
  <1>2. DevicesInv => AttachedDevicesInGuest
    BY DEF DevicesInv
  <1> QED
    BY <1>1, <1>2, InitType, InitDevices, NextType, PTL DEF Spec

(* Nor do the flags of an attach or detach, chosen from a state that was   *)
(* read before, then make a running guest differ from its configuration.   *)
THEOREM GuestsMatchConfig ==
    ASSUME StartAlone
    PROVE  Spec => []GuestMatchesConfig
  <1>1. TypeOK /\ OwnCalls /\ DevicesInv /\ [Next]_vars => DevicesInv'
    BY NextDevices
  <1>2. DevicesInv => GuestMatchesConfig
    BY DEF DevicesInv
  <1> QED
    BY <1>1, <1>2, InitType, InitDevices, NextType, PTL DEF Spec

==============================================================================
