------------------------- MODULE SecurityGroupTraffic -------------------------
(***************************************************************************)
(* What the filter table built by SecurityGroup does to packets.           *)
(*                                                                         *)
(* A bridged packet enters at FORWARD, a packet for the node itself at     *)
(* INPUT.  Rules are tried in order: a jump walks the target chain and     *)
(* comes back when that chain ends or says RETURN; ACCEPT and DROP decide. *)
(***************************************************************************)
EXTENDS SecurityGroup

(* The other ports of the bridge, and the node the bridge itself belongs to. *)
Uplink == "uplink"
Node == "node"

ASSUME PortsAssumption == Uplink \notin Interfaces /\ Node \notin Interfaces

(* A packet: the bridge ports it comes from and goes to, whose IP/MAC pair *)
(* it carries as source, what kind of traffic it is and whether conntrack  *)
(* knows its connection.                                                   *)
Classes == {"dhcp-client", "dhcp-server", "tcp", "udp", "icmp", "other"}
Packets == [in: Interfaces \cup {Uplink}, out: Interfaces \cup {Uplink, Node},
            src: Interfaces \cup {Uplink}, class: Classes, established: BOOLEAN]

(* From one port to another, rather than up to the node. *)
Bridged(p) == p.out # Node

(* Both kinds of DHCP packet are udp datagrams to a port in 1:65535. *)
InClass(p, class) ==
    \/ class = "any"
    \/ class = "established" /\ p.established
    \/ class = "udp" /\ p.class \in {"udp", "dhcp-client", "dhcp-server"}
    \/ class = p.class

Matched(p, m) ==
    CASE m[1] = "physdev-in"  -> Bridged(p) /\ p.in = m[2]
      [] m[1] = "physdev-out" -> Bridged(p) /\ p.out = m[2]
      [] m[1] = "pair"        -> p.src = m[2]
      [] OTHER                -> InClass(p, m[1])

(* What rule r says of p, if "after" is what becomes of p in each chain:   *)
(* its own verdict, or that of the chain it jumps to; the walk goes on     *)
(* when p does not match or comes back from there.                         *)
Continue == <<"", "">>
Answer(r, p, after) ==
    IF ~Matched(p, r.match) THEN Continue
    ELSE IF r.target \in Verdicts THEN r.target
    ELSE LET v == after[r.target] IN IF v = actionRETURN THEN Continue ELSE v

(* What becomes of p in chain c, which is what the first rule says that    *)
(* does not let it go on: actionRETURN when p goes back to the caller or,  *)
(* from a built-in chain, is left to the policy.                           *)
Through(c, p, after) ==
    LET answers == {<<k, Answer(rules[c][k], p, after)>> : k \in DOMAIN rules[c]}
        final   == {a \in answers : a[2] # Continue}
    IN IF final = {} THEN actionRETURN
       ELSE (CHOOSE a \in final : \A b \in final : a[1] <= b[1])[2]

(* What becomes of p in every chain, given what does one jump further on.  *)
Walked(p, after) == [c \in Chains |-> Through(c, p, after)]

(* The tables of the handlers nest chains at most four jumps deep: from a  *)
(* built-in chain to callisto-FORWARD, the security group chain, a link's  *)
(* input or output chain, and its source chain or the fallback.            *)
Fate(p) ==
    LET none == [c \in Chains |-> actionRETURN]
    IN Through(IF Bridged(p) THEN chainFORWARD ELSE chainINPUT, p,
               Walked(p, Walked(p, Walked(p, Walked(p, none)))))

(* How many jumps may follow one into chain c. *)
Depth(c) ==
    CASE c \in BuiltinChains                                 -> 4
      [] c \in {chainCallistoINPUT, chainCallistoFORWARD}    -> 3
      [] c = chainCallistoSG                                 -> 2
      [] c \in {"callisto-i", "callisto-o"} \X Interfaces    -> 1
      [] OTHER                                               -> 0

Guarded(i) == setupDone /\ i \in granted

------------------------------------------------------------------------------
(* Properties *)

(* However requests interleave and fail, the chains never form a loop, and *)
(* no packet jumps more than four times: the tables only jump down.        *)
JumpsGoDown ==
    \A c \in Chains : \A k \in DOMAIN rules[c] :
        LET t == rules[c][k].target IN t \in Chains => Depth(t) < Depth(c)

(* addSOURCESGRules: "Drop traffic without an IP/MAC allow rule."  A       *)
(* guarded guest cannot send with a source that is not its own, except as  *)
(* a DHCP client that has no address yet.  This survives a wiped security  *)
(* group chain, since addINPUTRules gives callisto-FORWARD a jump of its   *)
(* own; it is lost only when an error path wipes callisto-FORWARD.         *)
SpoofedSourceDropped ==
    chainCallistoFORWARD \notin wiped =>
        \A i \in Interfaces : Guarded(i) =>
            \A p \in Packets :
                Bridged(p) /\ p.in = i /\ p.src # i /\ p.class # "dhcp-client"
                    => Fate(p) = actionDROP

(* addOUTPUTSGRules: "Prevent DHCP Spoofing by VM."  A guarded guest       *)
(* cannot answer DHCP requests, under any source and even on a known       *)
(* connection.                                                             *)
RogueDhcpDropped ==
    chainCallistoFORWARD \notin wiped =>
        \A i \in Interfaces : Guarded(i) =>
            \A p \in Packets :
                Bridged(p) /\ p.in = i /\ p.class = "dhcp-server" => Fate(p) = actionDROP

(* addINPUTSGRules: "Send unmatched traffic to the fallback chain."  What  *)
(* no rule lets in does not reach a guarded guest, from another guest or   *)
(* from the network, as long as no shared chain was wiped.                 *)
UnmatchedToGuestDropped ==
    wiped = {} =>
        \A i \in Interfaces : Guarded(i) =>
            \A p \in Packets :
                p.out = i /\ p.class = "other" /\ ~p.established
                    => Fate(p) = actionDROP

(* The filter does not cut off the guests: an honest packet of a guarded   *)
(* guest to the network is accepted as long as no shared chain was wiped.  *)
HonestTrafficAccepted ==
    wiped = {} =>
        \A i \in Interfaces : Guarded(i) =>
            \A p \in Packets :
                p.in = i /\ p.out = Uplink /\ p.src = i /\ p.class # "dhcp-server"
                    => Fate(p) = actionACCEPT

(* The comment on the last rule of addSOURCESGRules, "Drop traffic without *)
(* an IP/MAC allow rule.": SpoofedSourceDropped without the exception for  *)
(* what a later, failed request for another link has wiped.                *)
SpoofedSourceAlwaysDropped ==
    \A i \in Interfaces : Guarded(i) =>
        \A p \in Packets :
            Bridged(p) /\ p.in = i /\ p.src # i /\ p.class # "dhcp-client"
                => Fate(p) = actionDROP

(* What addINPUTRules says of itself, "Direct incoming traffic from VM to  *)
(* the security group chain.": what a guarded guest sends to the node      *)
(* itself passes its source check as well.                                 *)
SpoofedSourceToNodeDropped ==
    \A i \in Interfaces : Guarded(i) =>
        \A p \in Packets :
            p.in = i /\ p.out = Node /\ p.src # i /\ p.class # "dhcp-client"
                => Fate(p) = actionDROP
==============================================================================
