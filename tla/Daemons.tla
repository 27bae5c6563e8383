------------------------------- MODULE Daemons -------------------------------
(***************************************************************************)
(* The end of run in main.go: three servers under an errgroup in one       *)
(* process that systemd restarts, and the guests they serve (module        *)
(* GuestServices).                                                         *)
(*                                                                         *)
(* Each server ends when its socket cannot be opened or read any more.     *)
(* Wait returns when all of them have ended, so the process goes on        *)
(* without one or two of them.  A panic in any goroutine ends it at once.  *)
(* What happens between start and serving is module Boot.                  *)
(***************************************************************************)
EXTENDS GuestServices

VARIABLE process   \* "down", or "up" while run is waiting for its servers

daemonVars == <<vars, process>>

(* Only a process that is up has servers and a DHCP loop. *)
DaemonsTypeOK ==
    /\ TypeOK
    /\ process \in {"down", "up"}
    /\ process = "down" => serving = {} /\ loop = Receiving
    /\ "dhcp" \notin serving => loop = Receiving

DaemonsInit == Init /\ process = "down"

(* run has come through its setup, which may fail at every start.          *)
Start ==
    /\ process = "down"
    /\ process' = "up"
    /\ serving' = Servers
    /\ UNCHANGED <<lease, addressless, sent, loop, guest, name, moved, changes, faults>>

(* ListenAndServe and Serve return an error: for the DHCP server that is   *)
(* when it opens its socket or waits for a packet.  What ends one server   *)
(* may end the others as well.                                             *)
ServersEnd(gone) ==
    /\ Fault
    /\ "dhcp" \in gone => loop = Receiving
    /\ serving' = serving \ gone
    /\ UNCHANGED <<lease, addressless, sent, loop, guest, name, moved, changes, process>>

Dies ==
    /\ process' = "down"
    /\ serving' = {} /\ loop' = Receiving
    /\ UNCHANGED <<lease, addressless, sent, guest, name, moved, changes>>

(* errgroup.Wait: the last server has ended. *)
WaitReturns ==
    /\ process = "up" /\ serving = {}
    /\ Dies
    /\ UNCHANGED faults

Panics ==
    /\ loop.at = "panic"
    /\ Dies
    /\ UNCHANGED faults

Crashes ==
    /\ Fault
    /\ process = "up"
    /\ Dies

DaemonsNext ==
    \/ ServiceNext /\ UNCHANGED process
    \/ Start \/ WaitReturns \/ Panics \/ Crashes
    \/ \E s \in serving : ServersEnd({s}) \/ ServersEnd(serving)

(* The packet a guest keeps sending until it is answered. *)
Retransmitted(g) == Exchange(g, IF guest[g].at = "selecting" THEN "Discover" ELSE "Request")

(* The process runs, guests receive what is sent to them, and a guest that *)
(* keeps retransmitting gets through to a server that keeps receiving; a   *)
(* packet that came in on no dhcp interface the loop skips.                *)
(* Nothing makes a start succeed.                                          *)
Fairness ==
    /\ WF_daemonVars(WaitReturns \/ Panics)
    /\ WF_daemonVars((MakeResponse \/ \E req \in sent : GetDHCPLease(req))
                     /\ UNCHANGED process)
    /\ \A g \in Guests :
         /\ WF_daemonVars(GuestReceives(g) /\ UNCHANGED process)
         /\ SF_daemonVars(guest[g].at \in {"selecting", "requesting"} /\ g \notin addressless
                          /\ Receive(Retransmitted(g)) /\ UNCHANGED process)

DaemonsSpec == DaemonsInit /\ [][DaemonsNext]_daemonVars /\ Fairness

------------------------------------------------------------------------------
(* Properties *)

(* DHCP is gone while the process goes on: nothing restarts it. *)
DhcpGone == process = "up" /\ serving # {} /\ ("dhcp" \notin serving \/ loop.at = "hung")

(* Every guest that boots gets an address in the end, if the datastore     *)
(* goes on giving it a well formed lease and its bridge has a dhcp         *)
(* interface with an IPv4 address, through failing lookups, restarts and   *)
(* the panics another guest's lease causes; unless the DHCP server has     *)
(* ended, or waits for the datastore for ever, in a process whose other    *)
(* servers run on, or the process no longer comes up.                      *)
GuestsGetAddresses ==
    \/ \A g \in Guests : \/ []<>(guest[g].at \in {"off", "bound"})
                        \/ <>[](Kind[lease[g]] # {"good"})
                        \/ g \in addressless
    \/ <>[]DhcpGone
    \/ <>[](process = "down")
==============================================================================
