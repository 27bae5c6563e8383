------------------------- MODULE SecurityGroupGrants -------------------------
(***************************************************************************)
(* SecurityGroup implements LinkGrants: the mapping.                       *)
(***************************************************************************)
EXTENDS SecurityGroup

(* The goroutines at work for each link, past the NewChain of its source   *)
(* chain.                                                                  *)
owners == [i \in Interfaces |-> {h \in Handlers : Owns(h, i)}]

(* The links whose source chain was left behind. *)
orphaned == {i \in Interfaces : Orphan(i)}

Grants == INSTANCE LinkGrants WITH owners <- owners, orphaned <- orphaned

(* However requests overlap, fail and die, links are handed out as by a    *)
(* lock: the refusal of NewChain in addSOURCESGRules keeps all but one     *)
(* goroutine from working on a link, nobody else grants it, and what an    *)
(* error path or a restart does not free is lost.                          *)
HandsOutLinksLikeALock == Grants!Spec
==============================================================================
