--------------------------- MODULE MCSecurityGroup ---------------------------
(* Instances of SecurityGroup, and of its mapping to LinkGrants, for TLC. *)
EXTENDS SecurityGroupGrants

Symmetry == Permutations(Handlers)
==============================================================================
