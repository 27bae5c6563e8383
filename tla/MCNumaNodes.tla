---------------------------- MODULE MCNumaNodes ----------------------------
(* Instances of NumaNodes for TLC. *)
EXTENDS NumaNodes

SevenCores == 0..6
==============================================================================
