------------------------ MODULE MCSecurityGroupTraffic ------------------------
(* Instances of SecurityGroupTraffic for TLC. *)
EXTENDS SecurityGroupTraffic

Symmetry == Permutations(Handlers)
==============================================================================
