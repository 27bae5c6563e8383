---------------------------- MODULE GuestServices ----------------------------
(***************************************************************************)
(* dhcp/dhcpd.go and metadata/metadata.go: what a guest gets from the      *)
(* agent when it boots, its address over DHCP and then its host name over  *)
(* HTTP, both read from the datastore at the moment it asks.               *)
(*                                                                         *)
(* The DHCP server is one loop: receive, GetDHCPLease, answer.  It keeps   *)
(* no state of its own and grants for ever.  The network loses, delays and *)
(* duplicates packets, and guests retransmit: what was sent once may be    *)
(* received at any time, any number of times or never.                     *)
(*                                                                         *)
(* Simplifications: the hardware address of a guest is its name; packets   *)
(* on interfaces not named dhcp* and of other types change nothing; of a   *)
(* lease we keep the address and what becomes of a response made with its  *)
(* other fields; an exchange has a transaction of its own.                 *)
(***************************************************************************)
EXTENDS Naturals, FiniteSets

CONSTANTS
    Guests,
    Addresses,
    FirstLease,    \* the address of every guest at first
    MayLack,       \* guests that may be among the addressless
    Kind,          \* what the other fields of the lease of an address may be
    MaxExchanges,  \* bound: how often each guest boots
    MaxChanges,    \* bound: how often the datastore gives guests other addresses
    MaxFaults      \* bound: failing calls and ending servers

None == "none"
Kinds == {"good", "malformed", "notIPv4"}

ASSUME NamesAssumption ==
    Guests \cap Addresses = {} /\ {None, "error"} \cap (Guests \cup Addresses) = {}

(* What the datastore may hold: no address for two guests. *)
Leases == {f \in [Guests -> Addresses] : \A g, k \in Guests : f[g] = f[k] => g = k}

ASSUME FirstAssumption == FirstLease \in Leases
ASSUME LackAssumption == MayLack \subseteq Guests
ASSUME KindAssumption == Kind \in [Addresses -> SUBSET Kinds \ {{}}]
ASSUME BoundAssumption == {MaxChanges, MaxFaults} \subseteq Nat /\ MaxExchanges \in [Guests -> Nat]

VARIABLES
    lease,    \* datastore: the address of every guest
    addressless, \* guests whose bridge has no dhcp interface with an IPv4 address
    sent,     \* DHCP packets sent so far
    loop,     \* what the loop of the DHCP server is doing
    guest,    \* what the DHCP client of every guest is doing
    name,     \* the host name a guest was told
    serving,  \* the servers of the process that run
    moved,    \* guests whose address changed since they last booted
    changes,  \* changes of the datastore so far
    faults    \* faults so far

dhcpVars == <<sent, loop>>
vars == <<lease, addressless, sent, loop, guest, name, serving, moved, changes, faults>>

Servers == {"grpc", "dhcp", "metadata"}
RequestTypes == {"Discover", "Request"}
ResponseTypes == {"Offer", "Ack"}

Packet(types, addrs) ==
    UNION {[type: types, mac: {g}, xid: 1 .. MaxExchanges[g], addr: addrs] : g \in Guests}
Packets == Packet(RequestTypes, {None}) \cup Packet({"Offer"}, {None}) \cup Packet({"Ack"}, Addresses)

Receiving == [at |-> "receive"]
LoopStates == {Receiving}
              \cup [at: {"hung", "panic"}]
              \cup [at: {"lookup"}, req: Packet(RequestTypes, {None})]
              \cup [at: {"respond"}, req: Packet(RequestTypes, {None}), lease: Addresses]

(* The server handles requests only, and grants no request without an      *)
(* address.                                                                *)
TypeOK ==
    /\ lease \in Leases
    /\ addressless \subseteq Guests
    /\ sent \subseteq Packets
    /\ loop \in LoopStates
    /\ guest \in [Guests -> [at: {"off", "selecting", "requesting", "bound"},
                            xid: Nat, addr: Addresses \cup {None}]]
    /\ \A g \in Guests : guest[g].xid <= MaxExchanges[g]
    /\ name \in [Guests -> Guests \cup {None, "error"}]
    /\ serving \subseteq Servers
    /\ moved \subseteq Guests
    /\ changes \in 0 .. MaxChanges
    /\ faults \in 0 .. MaxFaults

(* An internal bridge has no dhcp interface.  On that of any other bridge  *)
(* AddBridge puts the address of its CIDR, of IPv6 too, unless it broke    *)
(* off before.                                                             *)
Init ==
    /\ lease = FirstLease
    /\ addressless \in SUBSET MayLack
    /\ sent = {} /\ loop = Receiving
    /\ guest = [g \in Guests |-> [at |-> "off", xid |-> 0, addr |-> None]]
    /\ name = [g \in Guests |-> None]
    /\ serving = {}
    /\ moved = {}
    /\ changes = 0 /\ faults = 0

Fault == faults < MaxFaults /\ faults' = faults + 1

------------------------------------------------------------------------------
(* The DHCP server *)

(* A packet that a guest of this node sent arrives. *)
Receive(req) ==
    /\ "dhcp" \in serving /\ loop = Receiving
    /\ req \in sent /\ req.type \in RequestTypes
    /\ loop' = [at |-> "lookup", req |-> req]
    /\ UNCHANGED <<lease, addressless, sent, guest, name, serving, moved, changes, faults>>

GetDHCPLease(req) ==
    /\ loop = [at |-> "lookup", req |-> req]
    /\ loop' = [at |-> "respond", req |-> req, lease |-> lease[req.mac]]
    /\ UNCHANGED <<lease, addressless, sent, guest, name, serving, moved, changes, faults>>

AfterLeaseError_sharedLease(req) ==
    {[at |-> "respond", req |-> req, lease |-> p.addr] : p \in {q \in sent : q.addr # None}}
    \cup {Receiving}

(* Without a lease there is no answer. *)
AfterLeaseError(req) == {Receiving}

(* The call has no deadline: it fails, or never returns. *)
LeaseFails(req) ==
    /\ Fault
    /\ loop = [at |-> "lookup", req |-> req]
    /\ loop' \in AfterLeaseError(req) \cup {[at |-> "hung"]}
    /\ UNCHANGED <<lease, addressless, sent, guest, name, serving, moved, changes>>

(* An offer names the address as well, but neither guest nor server holds  *)
(* the other to it: the answer to the request is looked up again.          *)
Response_offersOnly(req, addr) ==
    [type |-> "Offer", mac |-> req.mac, xid |-> req.xid, addr |-> None]
Response_anyKind(req, addr) ==
    [type |-> IF req.type = "Discover" THEN "Offer" ELSE "Ack", mac |-> req.mac, xid |-> req.xid,
     addr |-> IF req.type = "Request" /\ Kind[addr] = {"good"} THEN addr ELSE None]

Response(req, addr) ==
    [type |-> IF req.type = "Discover" THEN "Offer" ELSE "Ack", mac |-> req.mac, xid |-> req.xid,
     addr |-> IF req.type = "Discover" THEN None ELSE addr]

MakeResponse_noContinue ==
    /\ loop.at = "respond"
    /\ sent' = sent \cup {Response_anyKind(loop.req, loop.lease)}
    /\ loop' = Receiving
    /\ UNCHANGED <<lease, addressless, guest, name, serving, moved, changes, faults>>

(* makeResponse looks for an IPv4 address of the interface the request     *)
(* came in on.  Then it refuses a lease with a field that is no address    *)
(* and panics on a gateway or metadata server that is none of IPv4.        *)
MakeResponse ==
    /\ loop.at = "respond"
    /\ \E kind \in Kind[loop.lease] :
         \/ /\ loop.req.mac \notin addressless /\ kind = "good"
            /\ sent' = sent \cup {Response(loop.req, loop.lease)}
            /\ loop' = Receiving
         \/ /\ loop.req.mac \in addressless \/ kind = "malformed"
            /\ sent' = sent /\ loop' = Receiving
         \/ /\ loop.req.mac \notin addressless /\ kind = "notIPv4"
            /\ sent' = sent /\ loop' = [at |-> "panic"]
    /\ UNCHANGED <<lease, addressless, guest, name, serving, moved, changes, faults>>

(* The interface cannot be asked for its addresses, or the packet not be   *)
(* sent.                                                                   *)
SendFails ==
    /\ Fault
    /\ loop.at = "respond"
    /\ loop' = Receiving
    /\ UNCHANGED <<lease, addressless, sent, guest, name, serving, moved, changes>>

------------------------------------------------------------------------------
(* Guests and the datastore *)

Exchange(g, type) == [type |-> type, mac |-> g, xid |-> guest[g].xid, addr |-> None]

GuestBoots(g) ==
    /\ guest[g].xid < MaxExchanges[g]
    /\ guest' = [guest EXCEPT ![g] = [at |-> "selecting", xid |-> @.xid + 1, addr |-> None]]
    /\ sent' = sent \cup {[Exchange(g, "Discover") EXCEPT !.xid = @ + 1]}
    /\ name' = [name EXCEPT ![g] = None]
    /\ moved' = moved \ {g}
    /\ UNCHANGED <<lease, addressless, loop, serving, changes, faults>>

(* An answer to the guest's current exchange arrives. *)
GuestReceives(g) ==
    \E p \in sent :
        /\ p.mac = g /\ p.xid = guest[g].xid
        /\ \/ /\ guest[g].at = "selecting" /\ p.type = "Offer"
              /\ guest' = [guest EXCEPT ![g].at = "requesting"]
              /\ sent' = sent \cup {Exchange(g, "Request")}
           \/ /\ guest[g].at = "requesting" /\ p.type = "Ack"
              /\ guest' = [guest EXCEPT ![g].at = "bound", ![g].addr = p.addr]
              /\ sent' = sent
        /\ UNCHANGED <<lease, addressless, loop, name, serving, moved, changes, faults>>

(* The datastore gives guests other addresses, those of other guests too. *)
Reassign ==
    /\ changes < MaxChanges
    /\ changes' = changes + 1
    /\ lease' \in Leases \ {lease}
    /\ moved' = moved \cup {g \in Guests : lease'[g] # lease[g]}
    /\ UNCHANGED <<addressless, sent, loop, guest, name, serving, faults>>

------------------------------------------------------------------------------
(* The metadata server *)

HostnameOf_cached(a) == {g \in Guests : lease[g] = a \/ guest[g].addr = a}

(* GetHostnameByAddress: the guest that has the address now, or nobody. *)
HostnameOf(a) == {g \in Guests : lease[g] = a}

(* metadataHandler and userdataHandler know the guest by its source        *)
(* address only; an address of nobody is an error.                         *)
AskHostname(g) ==
    LET owners == HostnameOf(guest[g].addr)
    IN /\ "metadata" \in serving
       /\ guest[g].at = "bound" /\ name[g] = None
       /\ name' \in {[name EXCEPT ![g] = k] : k \in IF owners = {} THEN {"error"} ELSE owners}
       /\ UNCHANGED <<lease, addressless, sent, loop, guest, serving, moved, changes, faults>>

(* The datastore cannot be asked. *)
HostnameFails(g) ==
    /\ Fault
    /\ "metadata" \in serving
    /\ guest[g].at = "bound" /\ name[g] = None
    /\ name' = [name EXCEPT ![g] = "error"]
    /\ UNCHANGED <<lease, addressless, sent, loop, guest, serving, moved, changes>>

ServiceNext ==
    \/ \E g \in Guests : GuestBoots(g) \/ GuestReceives(g) \/ AskHostname(g) \/ HostnameFails(g)
    \/ Reassign
    \/ \E req \in sent : Receive(req) \/ GetDHCPLease(req) \/ LeaseFails(req)
    \/ MakeResponse \/ SendFails

------------------------------------------------------------------------------
(* Properties *)

(* dhcpd.go answers from the datastore at the time of the request and      *)
(* keeps nothing: a guest whose address has not changed since it booted    *)
(* is bound to it, whatever the server does for other guests in between,   *)
(* and however late packets of its earlier boots arrive.                   *)
BoundToOwnAddress ==
    \A g \in Guests \ moved : guest[g].at = "bound" => guest[g].addr = lease[g]

(* metadata.go knows a guest by its source address: unless its address     *)
(* changed since it booted, it is told its own name, even when another     *)
(* guest still holds, for ever, the address it was given.                  *)
ToldOwnHostname ==
    \A g \in Guests \ moved : name[g] \in Guests => name[g] = g
==============================================================================
