------------------------------ MODULE MCBridge ------------------------------
(* Instances of Bridge for TLC. *)
EXTENDS Bridge, TLC

AllRequests == BridgeRequests \cup PortRequests \cup LinkRequests

Symmetry == Permutations(Handlers)
==============================================================================
