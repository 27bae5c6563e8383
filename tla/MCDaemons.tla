------------------------------ MODULE MCDaemons ------------------------------
(* Two guests, an address for each and one that comes with unusable leases. *)
EXTENDS Daemons, TLC

CONSTANTS g1, g2, a1, a2, unusable

First == (g1 :> a1) @@ (g2 :> a2)
Boots == (g1 :> 2) @@ (g2 :> 1)
KindOf == (a1 :> {"good"}) @@ (a2 :> {"good"}) @@ (unusable :> {"malformed", "notIPv4"})
==============================================================================
