------------------------------- MODULE MCBoot -------------------------------
(* An internal bridge and two external ones with their VLAN links.  The    *)
(* barriers: no IPv4 address, a metadata CIDR that does not parse, a VLAN  *)
(* that cannot be made, cores that cannot be read.                         *)
EXTENDS Boot, TLC

CONSTANTS int, ext1, ext2, v1, v2

List == <<int, ext1, ext2>>
Links == (ext1 :> v1) @@ (ext2 :> v2)
Places == {<<6, 1, 0>>, <<8, 2, 0>>, <<8, 3, 1>>, <<9, 4, 0>>}
AllRequests == BridgeRequests \cup PortRequests \cup LinkRequests
==============================================================================
