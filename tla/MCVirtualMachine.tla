-------------------------- MODULE MCVirtualMachine --------------------------
(* One machine, a disk and a link, and two goroutines. *)
EXTENDS VirtualMachine, TLC

Symmetry == Permutations(Handlers)
==============================================================================
