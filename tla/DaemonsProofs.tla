---------------------------- MODULE DaemonsProofs ----------------------------
(***************************************************************************)
(* Theorems about Daemons and the GuestServices it extends, for any        *)
(* guests, addresses, leases and bounds.                                   *)
(***************************************************************************)
EXTENDS Daemons, TLAPS

(* The server handles what was sent, and nobody sends packets of an        *)
(* exchange that the guest has yet to begin.                               *)
ExchangesBegun ==
    /\ \A p \in sent : p.xid <= guest[p.mac].xid
    /\ loop.at \in {"lookup", "respond"} => loop.req \in sent

(* What the server is about to grant in the current exchange of a guest    *)
(* is the guest's address, unless that changed since the exchange began.   *)
LookedUpInExchange ==
    loop.at = "respond" /\ loop.req.xid = guest[loop.req.mac].xid /\ loop.req.mac \notin moved
        => loop.lease = lease[loop.req.mac]

(* So is what it has granted. *)
GrantedInExchange ==
    \A p \in sent :
        p.type = "Ack" /\ p.xid = guest[p.mac].xid /\ p.mac \notin moved
            => p.addr = lease[p.mac]

IInv ==
    /\ DaemonsTypeOK
    /\ ExchangesBegun
    /\ LookedUpInExchange
    /\ GrantedInExchange
    /\ BoundToOwnAddress
    /\ ToldOwnHostname

------------------------------------------------------------------------------
(* Packets and the loop *)

(* The fields of a packet. *)
LEMMA PacketFields ==
    ASSUME NEW types, NEW addrs, NEW p \in Packet(types, addrs)
    PROVE  /\ p.type \in types /\ p.mac \in Guests /\ p.addr \in addrs
           /\ p.xid \in Nat /\ p.xid >= 1 /\ p.xid <= MaxExchanges[p.mac]
  <1>1. PICK g \in Guests : p \in [type: types, mac: {g}, xid: 1 .. MaxExchanges[g], addr: addrs]
    BY DEF Packet
  <1> QED
    BY <1>1, BoundAssumption

(* A packet with such fields is one. *)
LEMMA PacketMade ==
    ASSUME NEW types, NEW addrs, NEW type \in types, NEW g \in Guests, NEW addr \in addrs,
           NEW xid \in Nat, xid >= 1, xid <= MaxExchanges[g]
    PROVE  [type |-> type, mac |-> g, xid |-> xid, addr |-> addr] \in Packet(types, addrs)
  <1>1. xid \in 1 .. MaxExchanges[g]
    BY BoundAssumption
  <1> QED
    BY <1>1 DEF Packet

(* The fields of whatever was sent. *)
LEMMA SentFields ==
    ASSUME TypeOK, NEW p \in sent
    PROVE  /\ p.mac \in Guests /\ p.xid \in Nat /\ p.xid >= 1 /\ p.xid <= MaxExchanges[p.mac]
           /\ p.addr \in Addresses \cup {None}
           /\ p.type \in RequestTypes => p \in Packet(RequestTypes, {None})
           /\ p.type = "Ack" => p.addr \in Addresses
  <1>1. \/ p \in Packet(RequestTypes, {None}) \/ p \in Packet({"Offer"}, {None})
        \/ p \in Packet({"Ack"}, Addresses)
    BY DEF TypeOK, Packets
  <1> QED
    BY <1>1, PacketFields DEF RequestTypes

(* What the loop has at hand. *)
LEMMA LoopFields ==
    ASSUME NEW s \in LoopStates
    PROVE  /\ s.at \in {"receive", "hung", "panic", "lookup", "respond"}
           /\ s.at = "receive" => s = Receiving
           /\ s.at \in {"lookup", "respond"} => s.req \in Packet(RequestTypes, {None})
           /\ s.at = "respond" => s.lease \in Addresses
  BY DEF LoopStates, Receiving

(* States the loop can get into. *)
LEMMA LoopMade ==
    /\ Receiving \in LoopStates /\ Receiving.at = "receive"
    /\ [at |-> "hung"] \in LoopStates /\ [at |-> "panic"] \in LoopStates
    /\ \A req \in Packet(RequestTypes, {None}) :
         /\ [at |-> "lookup", req |-> req] \in LoopStates
         /\ \A a \in Addresses : [at |-> "respond", req |-> req, lease |-> a] \in LoopStates
  BY DEF LoopStates, Receiving

(* An answer to a request is a packet of its exchange. *)
LEMMA ResponseFields ==
    ASSUME NEW req \in Packet(RequestTypes, {None}), NEW addr \in Addresses
    PROVE  /\ Response(req, addr) \in Packets
           /\ Response(req, addr).mac = req.mac /\ Response(req, addr).xid = req.xid
           /\ Response(req, addr).type = "Ack" => Response(req, addr).addr = addr
  <1>1. /\ req.mac \in Guests /\ req.xid \in Nat /\ req.xid >= 1
        /\ req.xid <= MaxExchanges[req.mac]
    BY PacketFields
  <1>2. CASE req.type = "Discover"
    <2>1. Response(req, addr) = [type |-> "Offer", mac |-> req.mac, xid |-> req.xid, addr |-> None]
      BY <1>2 DEF Response
    <2> QED
      BY <1>1, <2>1, PacketMade DEF Packets
  <1>3. CASE req.type # "Discover"
    <2>1. Response(req, addr) = [type |-> "Ack", mac |-> req.mac, xid |-> req.xid, addr |-> addr]
      BY <1>3 DEF Response
    <2> QED
      BY <1>1, <2>1, PacketMade DEF Packets
  <1> QED  BY <1>2, <1>3

(* A request is a packet of the guest's exchange. *)
LEMMA ExchangeFields ==
    ASSUME NEW type \in RequestTypes, NEW g \in Guests, NEW xid \in Nat,
           xid >= 1, xid <= MaxExchanges[g]
    PROVE  [type |-> type, mac |-> g, xid |-> xid, addr |-> None] \in Packets
  BY PacketMade DEF Packets

------------------------------------------------------------------------------
(* Steps of the services *)

(* The DHCP server takes a request or gives it up. *)
LEMMA LoopStep ==
    ASSUME IInv, NEW next \in LoopStates, loop' = next,
           next.at \in {"lookup", "respond"} => next.req \in sent,
           next.at = "respond" => next.lease = lease[next.req.mac],
           UNCHANGED <<lease, addressless, sent, guest, name, moved>>, DaemonsTypeOK'
    PROVE  IInv'
  <1>1. ExchangesBegun' /\ LookedUpInExchange'
    BY DEF IInv, ExchangesBegun, LookedUpInExchange
  <1>2. GrantedInExchange' /\ BoundToOwnAddress' /\ ToldOwnHostname'
    BY DEF IInv, GrantedInExchange, BoundToOwnAddress, ToldOwnHostname
  <1> QED
    BY <1>1, <1>2 DEF IInv

(* Steps of the DHCP server, of guests, of the datastore and of the        *)
(* metadata server keep the invariant.                                     *)
LEMMA ServiceStep ==
    ASSUME IInv, ServiceNext, UNCHANGED process
    PROVE  IInv'
  <1>0. /\ TypeOK /\ loop \in LoopStates /\ lease \in [Guests -> Addresses]
        /\ \A g, k \in Guests : lease[g] = lease[k] => g = k
    BY DEF IInv, DaemonsTypeOK, TypeOK, Leases
  <1>1. ASSUME NEW req \in sent, Receive(req) PROVE IInv'
    <2> DEFINE next == [at |-> "lookup", req |-> req]
    <2>1. next \in LoopStates /\ next.at = "lookup" /\ next.req = req
      BY <1>0, <1>1, SentFields, LoopMade DEF Receive
    <2>2. /\ loop' = next /\ UNCHANGED <<lease, addressless, sent, guest, name, serving, moved, changes, faults>>
          /\ "dhcp" \in serving
      BY <1>1 DEF Receive
    <2> HIDE DEF next
    <2>3. DaemonsTypeOK'
      BY <2>1, <2>2 DEF IInv, DaemonsTypeOK, TypeOK
    <2> QED
      BY <2>1, <2>2, <2>3, LoopStep
  <1>2. ASSUME NEW req \in sent, GetDHCPLease(req) PROVE IInv'
    <2> DEFINE next == [at |-> "respond", req |-> req, lease |-> lease[req.mac]]
    <2>1. loop.at = "lookup" /\ loop.req = req
      BY <1>2 DEF GetDHCPLease
    <2>2. lease[req.mac] \in Addresses
      BY <1>0, SentFields
    <2>3. /\ next \in LoopStates /\ next.at = "respond" /\ next.req = req
          /\ next.lease = lease[req.mac]
      BY <1>0, <2>1, <2>2, LoopFields, LoopMade
    <2>4. loop' = next /\ UNCHANGED <<lease, addressless, sent, guest, name, serving, moved, changes, faults>>
      BY <1>2 DEF GetDHCPLease
    <2> HIDE DEF next
    <2>5. DaemonsTypeOK'
      BY <2>1, <2>3, <2>4, LoopMade DEF IInv, DaemonsTypeOK, TypeOK
    <2> QED
      BY <2>3, <2>4, <2>5, LoopStep
  <1>3. ASSUME NEW req \in sent, LeaseFails(req) PROVE IInv'
    <2>1. loop.at = "lookup"
      BY <1>3 DEF LeaseFails
    <2>2. loop' \in {Receiving, [at |-> "hung"]}
      BY <1>3 DEF LeaseFails, AfterLeaseError
    <2>3. loop' \in LoopStates /\ loop'.at \in {"receive", "hung"}
      BY <2>2, LoopMade
    <2>4. /\ UNCHANGED <<lease, addressless, sent, guest, name, serving, moved, changes>>
          /\ faults' \in 0 .. MaxFaults
      BY <1>3, BoundAssumption DEF LeaseFails, Fault, IInv, DaemonsTypeOK, TypeOK
    <2>5. DaemonsTypeOK'
      BY <2>1, <2>3, <2>4, LoopMade DEF IInv, DaemonsTypeOK, TypeOK
    <2> QED
      BY <2>3, <2>4, <2>5, LoopStep
  <1>4. CASE MakeResponse
    <2>1. /\ loop.at = "respond" /\ loop.req \in Packet(RequestTypes, {None})
          /\ loop.lease \in Addresses /\ loop.req \in sent
      BY <1>0, <1>4, LoopFields DEF MakeResponse, IInv, ExchangesBegun
    <2> DEFINE answer == Response(loop.req, loop.lease)
    <2>2. /\ answer \in Packets /\ answer.mac = loop.req.mac /\ answer.xid = loop.req.xid
          /\ answer.type = "Ack" => answer.addr = loop.lease
      BY <2>1, ResponseFields
    <2>3. /\ sent' \in {sent, sent \cup {answer}} /\ loop' \in {Receiving, [at |-> "panic"]}
          /\ UNCHANGED <<lease, addressless, guest, name, serving, moved, changes, faults>>
      BY <1>4 DEF MakeResponse
    <2> HIDE DEF answer
    <2>4. loop' \in LoopStates /\ loop'.at \in {"receive", "panic"}
      BY <2>3, LoopMade
    <2>5. DaemonsTypeOK'
      BY <2>1, <2>2, <2>3, <2>4, LoopMade DEF IInv, DaemonsTypeOK, TypeOK
    <2>6. ExchangesBegun' /\ LookedUpInExchange'
      BY <2>1, <2>2, <2>3, <2>4 DEF IInv, ExchangesBegun, LookedUpInExchange
    <2>7. GrantedInExchange'
      BY <2>1, <2>2, <2>3 DEF IInv, LookedUpInExchange, GrantedInExchange
    <2>8. BoundToOwnAddress' /\ ToldOwnHostname'
      BY <2>3 DEF IInv, BoundToOwnAddress, ToldOwnHostname
    <2> QED  BY <2>5, <2>6, <2>7, <2>8 DEF IInv
  <1>5. ASSUME NEW g \in Guests, GuestBoots(g) PROVE IInv'
    <2> DEFINE now == [at |-> "selecting", xid |-> guest[g].xid + 1, addr |-> None]
               ask == [type |-> "Discover", mac |-> g, xid |-> guest[g].xid + 1, addr |-> None]
    <2>1. /\ guest[g].xid \in Nat /\ guest[g].xid + 1 <= MaxExchanges[g]
          /\ guest \in [Guests -> [at: {"off", "selecting", "requesting", "bound"},
                                   xid: Nat, addr: Addresses \cup {None}]]
      <3>1. guest[g].xid < MaxExchanges[g]
        BY <1>5 DEF GuestBoots
      <3>2. guest \in [Guests -> [at: {"off", "selecting", "requesting", "bound"},
                                 xid: Nat, addr: Addresses \cup {None}]]
        BY <1>0 DEF TypeOK
      <3>3. guest[g].xid \in Nat /\ MaxExchanges[g] \in Nat
        BY <3>2, BoundAssumption
      <3> QED  BY <3>1, <3>2, <3>3
    <2>2. /\ now \in [at: {"off", "selecting", "requesting", "bound"},
                      xid: Nat, addr: Addresses \cup {None}]
          /\ now.at = "selecting" /\ now.xid = guest[g].xid + 1
      BY <2>1
    <2>3. /\ ask \in Packets /\ ask.mac = g /\ ask.type = "Discover"
          /\ ask.xid = guest[g].xid + 1
      BY <2>1, ExchangeFields DEF RequestTypes
    <2>4. guest' = [guest EXCEPT ![g] = now] /\ sent' = sent \cup {ask}
      BY <1>5 DEF GuestBoots, Exchange
    <2>5. /\ name' = [name EXCEPT ![g] = None] /\ moved' = moved \ {g}
          /\ UNCHANGED <<lease, addressless, loop, serving, changes, faults>>
      BY <1>5 DEF GuestBoots
    <2> HIDE DEF now, ask
    <2>6. /\ guest' \in [Guests -> [at: {"off", "selecting", "requesting", "bound"},
                                    xid: Nat, addr: Addresses \cup {None}]]
          /\ guest'[g] = now /\ \A k \in Guests : k # g => guest'[k] = guest[k]
      BY <2>1, <2>2, <2>4
    <2>7. name' \in [Guests -> Guests \cup {None, "error"}]
      BY <1>0, <2>5 DEF TypeOK
    <2>8. DaemonsTypeOK'
      BY <2>1, <2>2, <2>3, <2>4, <2>5, <2>6, <2>7 DEF IInv, DaemonsTypeOK, TypeOK
    <2>9. ASSUME NEW p \in sent
          PROVE  /\ p.mac \in Guests /\ p.xid <= guest'[p.mac].xid
                 /\ p.xid = guest'[p.mac].xid => p.mac # g /\ p.xid = guest[p.mac].xid
      <3>1. p.mac \in Guests /\ p.xid \in Nat /\ p.xid <= guest[p.mac].xid
        BY <1>0, SentFields DEF IInv, ExchangesBegun
      <3> QED
        BY <2>1, <2>2, <2>6, <3>1
    <2>10. ExchangesBegun'
      BY <2>1, <2>2, <2>3, <2>4, <2>5, <2>6, <2>9 DEF IInv, ExchangesBegun
    <2>11. LookedUpInExchange'
      BY <2>5, <2>9 DEF IInv, ExchangesBegun, LookedUpInExchange
    <2>12. GrantedInExchange'
      BY <2>3, <2>4, <2>5, <2>9 DEF IInv, GrantedInExchange
    <2>13. BoundToOwnAddress'
      BY <2>2, <2>5, <2>6 DEF IInv, BoundToOwnAddress
    <2>14. ToldOwnHostname'
      BY <1>0, <2>5, NamesAssumption DEF IInv, ToldOwnHostname, TypeOK
    <2> QED  BY <2>8, <2>10, <2>11, <2>12, <2>13, <2>14 DEF IInv
  <1>6. ASSUME NEW g \in Guests, GuestReceives(g) PROVE IInv'
    <2>1. PICK p \in sent :
            /\ p.mac = g /\ p.xid = guest[g].xid
            /\ \/ /\ guest[g].at = "selecting" /\ p.type = "Offer"
                  /\ guest' = [guest EXCEPT ![g].at = "requesting"]
                  /\ sent' = sent \cup {Exchange(g, "Request")}
               \/ /\ guest[g].at = "requesting" /\ p.type = "Ack"
                  /\ guest' = [guest EXCEPT ![g].at = "bound", ![g].addr = p.addr]
                  /\ sent' = sent
      BY <1>6 DEF GuestReceives
    <2>2. UNCHANGED <<lease, addressless, loop, name, serving, moved, changes, faults>>
      BY <1>6 DEF GuestReceives
    <2>3. /\ guest[g].xid \in Nat /\ guest[g].xid >= 1 /\ guest[g].xid <= MaxExchanges[g]
          /\ p.type = "Ack" => p.addr \in Addresses
      BY <1>0, <2>1, SentFields
    <2> DEFINE ask == [type |-> "Request", mac |-> g, xid |-> guest[g].xid, addr |-> None]
    <2>4. /\ ask \in Packets /\ ask.mac = g /\ ask.xid = guest[g].xid /\ ask.type = "Request"
          /\ ask = Exchange(g, "Request")
      BY <2>3, ExchangeFields DEF RequestTypes, Exchange
    <2> HIDE DEF ask
    <2>5. /\ guest' \in [Guests -> [at: {"off", "selecting", "requesting", "bound"},
                                    xid: Nat, addr: Addresses \cup {None}]]
          /\ \A k \in Guests : guest'[k].xid = guest[k].xid
          /\ \A k \in Guests : k # g => guest'[k] = guest[k]
          /\ guest'[g].at = "bound" => p.type = "Ack" /\ guest'[g].addr = p.addr
      BY <1>0, <2>1, <2>3 DEF TypeOK
    <2>6. sent' \in {sent, sent \cup {ask}}
      BY <2>1, <2>4
    <2>7. DaemonsTypeOK'
      BY <2>2, <2>4, <2>5, <2>6 DEF IInv, DaemonsTypeOK, TypeOK
    <2>8. \A q \in sent : q.mac \in Guests
      BY <1>0, SentFields
    <2>9. ExchangesBegun' /\ LookedUpInExchange'
      BY <2>2, <2>3, <2>4, <2>5, <2>6, <2>8 DEF IInv, ExchangesBegun, LookedUpInExchange
    <2>10. GrantedInExchange'
      BY <2>2, <2>4, <2>5, <2>6, <2>8 DEF IInv, GrantedInExchange
    <2>11. BoundToOwnAddress'
      BY <2>1, <2>2, <2>5 DEF IInv, GrantedInExchange, BoundToOwnAddress
    <2>12. ToldOwnHostname'
      BY <2>2 DEF IInv, ToldOwnHostname
    <2> QED  BY <2>7, <2>9, <2>10, <2>11, <2>12 DEF IInv
  <1>7. ASSUME NEW g \in Guests, AskHostname(g) PROVE IInv'
    <2>1. PICK k \in IF HostnameOf(guest[g].addr) = {} THEN {"error"} ELSE HostnameOf(guest[g].addr) :
            name' = [name EXCEPT ![g] = k]
      BY <1>7 DEF AskHostname
    <2>2. /\ guest[g].at = "bound"
          /\ UNCHANGED <<lease, addressless, sent, loop, guest, serving, moved, changes, faults>>
      BY <1>7 DEF AskHostname
    <2>3. k = "error" \/ (k \in Guests /\ lease[k] = guest[g].addr)
      BY <2>1 DEF HostnameOf
    <2>4. name' \in [Guests -> Guests \cup {None, "error"}]
      BY <1>0, <2>1, <2>3 DEF TypeOK
    <2>5. DaemonsTypeOK' /\ ExchangesBegun' /\ LookedUpInExchange' /\ GrantedInExchange'
          /\ BoundToOwnAddress'
      BY <2>2, <2>4 DEF IInv, DaemonsTypeOK, TypeOK, ExchangesBegun, LookedUpInExchange,
         GrantedInExchange, BoundToOwnAddress
    <2>6. g \notin moved /\ k \in Guests => k = g
      BY <1>0, <2>2, <2>3, NamesAssumption DEF IInv, BoundToOwnAddress
    <2>7. ToldOwnHostname'
      BY <1>0, <2>1, <2>2, <2>6 DEF IInv, ToldOwnHostname, TypeOK
    <2> QED  BY <2>5, <2>7 DEF IInv
  <1>8. CASE Reassign
    <2>1. /\ lease' \in Leases /\ moved' = moved \cup {g \in Guests : lease'[g] # lease[g]}
          /\ changes' \in 0 .. MaxChanges /\ UNCHANGED <<addressless, sent, loop, guest, name, serving, faults>>
      BY <1>0, <1>8, BoundAssumption DEF Reassign, TypeOK
    <2>2. DaemonsTypeOK'
      BY <2>1 DEF IInv, DaemonsTypeOK, TypeOK
    <2>3. \A g \in Guests : g \notin moved' => g \notin moved /\ lease'[g] = lease[g]
      BY <2>1
    <2>4. \A p \in sent : p.mac \in Guests
      BY <1>0, SentFields
    <2>5. ExchangesBegun' /\ LookedUpInExchange' /\ GrantedInExchange'
      BY <2>1, <2>3, <2>4 DEF IInv, ExchangesBegun, LookedUpInExchange, GrantedInExchange
    <2>6. BoundToOwnAddress' /\ ToldOwnHostname'
      BY <2>1, <2>3 DEF IInv, BoundToOwnAddress, ToldOwnHostname
    <2> QED  BY <2>2, <2>5, <2>6 DEF IInv
  <1>9. CASE SendFails
    <2>1. /\ loop' = Receiving /\ faults' \in 0 .. MaxFaults
          /\ UNCHANGED <<lease, addressless, sent, guest, name, serving, moved, changes>>
      BY <1>0, <1>9, BoundAssumption DEF SendFails, Fault, TypeOK
    <2>2. DaemonsTypeOK'
      BY <2>1, LoopMade DEF IInv, DaemonsTypeOK, TypeOK
    <2> QED
      BY <2>1, <2>2, LoopMade, LoopStep
  <1>10. ASSUME NEW g \in Guests, HostnameFails(g) PROVE IInv'
    <2>1. /\ name' = [name EXCEPT ![g] = "error"] /\ faults' \in 0 .. MaxFaults
          /\ UNCHANGED <<lease, addressless, sent, loop, guest, serving, moved, changes>>
      BY <1>0, <1>10, BoundAssumption DEF HostnameFails, Fault, TypeOK
    <2>2. name \in [Guests -> Guests \cup {None, "error"}]
      BY <1>0 DEF TypeOK
    <2>3. name' \in [Guests -> Guests \cup {None, "error"}]
      BY <2>1, <2>2
    <2>4. DaemonsTypeOK' /\ ExchangesBegun' /\ LookedUpInExchange' /\ GrantedInExchange'
          /\ BoundToOwnAddress'
      BY <2>1, <2>3 DEF IInv, DaemonsTypeOK, TypeOK, ExchangesBegun, LookedUpInExchange,
         GrantedInExchange, BoundToOwnAddress
    <2>5. \A k \in Guests : name'[k] \in Guests => name'[k] = name[k]
      BY <2>1, <2>2, NamesAssumption
    <2>6. ToldOwnHostname'
      BY <2>1, <2>5 DEF IInv, ToldOwnHostname
    <2> QED  BY <2>4, <2>6 DEF IInv
  <1> QED
    BY <1>1, <1>2, <1>3, <1>4, <1>5, <1>6, <1>7, <1>8, <1>9, <1>10 DEF ServiceNext

------------------------------------------------------------------------------
(* Steps of the process *)

(* Starts and ends of servers and of the process leave what was sent and   *)
(* granted alone; at most the loop forgets its request.                    *)
LEMMA ProcessStep ==
    ASSUME IInv, DaemonsTypeOK', loop' \in {loop, Receiving},
           UNCHANGED <<lease, addressless, sent, guest, name, moved>>
    PROVE  IInv'
  <1>1. loop' = loop \/ loop'.at = "receive"
    BY LoopMade
  <1> QED
    BY <1>1 DEF IInv, ExchangesBegun, LookedUpInExchange, GrantedInExchange, BoundToOwnAddress,
       ToldOwnHostname

(* Every step keeps the invariant. *)
LEMMA NextInv == IInv /\ [DaemonsNext]_daemonVars => IInv'
  <1> SUFFICES ASSUME IInv, [DaemonsNext]_daemonVars PROVE IInv'
    OBVIOUS
  <1> USE LoopMade
  <1>1. CASE UNCHANGED daemonVars
    BY <1>1 DEF daemonVars, vars, IInv, DaemonsTypeOK, TypeOK, ExchangesBegun, LookedUpInExchange,
       GrantedInExchange, BoundToOwnAddress, ToldOwnHostname
  <1>2. CASE ServiceNext /\ UNCHANGED process
    BY <1>2, ServiceStep
  <1>3. CASE Start
    <2>1. DaemonsTypeOK'
      BY <1>3 DEF Start, IInv, DaemonsTypeOK, TypeOK
    <2> QED
      BY <1>3, <2>1, ProcessStep DEF Start
  <1>4. CASE WaitReturns \/ Panics \/ Crashes
    <2>1. faults' \in 0 .. MaxFaults
      BY <1>4, BoundAssumption DEF WaitReturns, Panics, Crashes, Fault, IInv, DaemonsTypeOK, TypeOK
    <2>2. Dies
      BY <1>4 DEF WaitReturns, Panics, Crashes
    <2>3. DaemonsTypeOK'
      BY <2>1, <2>2 DEF Dies, IInv, DaemonsTypeOK, TypeOK
    <2> QED
      BY <2>2, <2>3, ProcessStep DEF Dies
  <1>5. ASSUME NEW gone, ServersEnd(gone) PROVE IInv'
    <2>1. faults' \in 0 .. MaxFaults
      BY <1>5, BoundAssumption DEF ServersEnd, Fault, IInv, DaemonsTypeOK, TypeOK
    <2>2. DaemonsTypeOK'
      BY <1>5, <2>1 DEF ServersEnd, IInv, DaemonsTypeOK, TypeOK
    <2> QED
      BY <1>5, <2>2, ProcessStep DEF ServersEnd
  <1> QED
    BY <1>1, <1>2, <1>3, <1>4, <1>5 DEF DaemonsNext

(* The first state. *)
LEMMA InitInv == DaemonsInit => IInv
  <1> SUFFICES ASSUME DaemonsInit PROVE IInv
    OBVIOUS
  <1> USE LoopMade DEF DaemonsInit, Init
  <1>1. DaemonsTypeOK
    BY FirstAssumption, LackAssumption, BoundAssumption DEF DaemonsTypeOK, TypeOK
  <1>2. ExchangesBegun /\ LookedUpInExchange /\ GrantedInExchange /\ BoundToOwnAddress
    BY DEF ExchangesBegun, LookedUpInExchange, GrantedInExchange, BoundToOwnAddress
  <1>3. ToldOwnHostname
    BY NamesAssumption DEF ToldOwnHostname
  <1> QED  BY <1>1, <1>2, <1>3 DEF IInv

(* The datastore never gives two guests one address, the server handles    *)
(* requests of exchanges only, and nothing of a process that is down goes  *)
(* on.                                                                     *)
THEOREM TypeCorrect == DaemonsSpec => []DaemonsTypeOK
  <1>1. IInv => DaemonsTypeOK
    BY DEF IInv
  <1> QED
    BY <1>1, InitInv, NextInv, PTL DEF DaemonsSpec

(* Whatever the server does for other guests, however often it dies, and   *)
(* however late the packets of earlier boots arrive, a guest is bound to   *)
(* the address it has in the datastore, unless that changed since it       *)
(* booted.                                                                 *)
THEOREM BoundToOwn == DaemonsSpec => []BoundToOwnAddress
  <1>1. IInv => BoundToOwnAddress
    BY DEF IInv
  <1> QED
    BY <1>1, InitInv, NextInv, PTL DEF DaemonsSpec

(* Nor is it told the name of another guest, even of one that still holds  *)
(* an address it gave up.                                                  *)
THEOREM ToldOwn == DaemonsSpec => []ToldOwnHostname
  <1>1. IInv => ToldOwnHostname
    BY DEF IInv
  <1> QED
    BY <1>1, InitInv, NextInv, PTL DEF DaemonsSpec

==============================================================================
