----------------------------- MODULE LinkGrants ------------------------------
(***************************************************************************)
(* What AddSecurityGroup promises, whatever it does to the filter table: a *)
(* link is taken by one goroutine at a time, only that goroutine can grant *)
(* it, and a goroutine that gives up or dies either frees the link or      *)
(* leaves it orphaned for good.  SecurityGroup implements this, with the   *)
(* source chain of a link as its lock.                                     *)
(***************************************************************************)

CONSTANTS Interfaces, Handlers

VARIABLES
    granted,   \* links whose request succeeded
    owners,    \* the goroutines that work on a link, past its lock
    orphaned   \* links nobody can ever take again

vars == <<granted, owners, orphaned>>

Init ==
    /\ granted = {}
    /\ owners = [i \in Interfaces |-> {}]
    /\ orphaned = {}

Take(h, i) ==
    /\ i \notin granted \cup orphaned
    /\ owners[i] = {}
    /\ owners' = [owners EXCEPT ![i] = {h}]
    /\ UNCHANGED <<granted, orphaned>>

Grant(h, i) ==
    /\ owners[i] = {h}
    /\ owners' = [owners EXCEPT ![i] = {}]
    /\ granted' = granted \cup {i}
    /\ UNCHANGED orphaned

GiveUp(h, i) ==
    /\ owners[i] = {h}
    /\ owners' = [owners EXCEPT ![i] = {}]
    /\ orphaned' \in {orphaned, orphaned \cup {i}}
    /\ UNCHANGED granted

(* All goroutines die at once and undo nothing. *)
AgentDies ==
    /\ owners' = [i \in Interfaces |-> {}]
    /\ orphaned' = orphaned \cup {i \in Interfaces : owners[i] # {}}
    /\ UNCHANGED granted

Next ==
    \/ \E h \in Handlers, i \in Interfaces : Take(h, i) \/ Grant(h, i) \/ GiveUp(h, i)
    \/ AgentDies

Spec == Init /\ [][Next]_vars
==============================================================================
