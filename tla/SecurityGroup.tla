---------------------------- MODULE SecurityGroup ----------------------------
(***************************************************************************)
(* iptables.go: the filter table of the compute node, written by the RPC   *)
(* handlers SetupDefaultSecurityGroup and AddSecurityGroup.                *)
(*                                                                         *)
(* The gRPC server runs every request in a goroutine of its own and no     *)
(* lock protects the handlers against each other: what interleaves are the *)
(* single iptables commands, each of which is atomic (the xtables lock).   *)
(* An action below is one such command together with everything the        *)
(* handler does until its next command.                                    *)
(*                                                                         *)
(* Simplifications: a rule keeps what it matches, where it sits and where  *)
(* it jumps, not its command line; a link's IP and MAC pair is identified  *)
(* with the link.  Requests that are refused before the first command (an  *)
(* address that does not parse, no iptables binary) change nothing and are *)
(* not begun.                                                              *)
(***************************************************************************)
EXTENDS Integers, Sequences, SequencesExt

CONSTANTS
    Interfaces,  \* links a client may ask a security group for
    Handlers,    \* goroutines serving requests
    Faults,      \* may a command fail, and the agent die, at any moment?
    SetupFirst   \* do clients wait for the setup before they add links?

ASSUME ModeAssumption == Faults \in BOOLEAN /\ SetupFirst \in BOOLEAN

VARIABLES
    exists,      \* the chains of the filter table
    rules,       \* their rules, empty for a chain that does not exist
    handler,     \* what each goroutine is doing
    granted,     \* links whose AddSecurityGroup has returned without error
    setupDone,   \* has SetupDefaultSecurityGroup returned without error?
    wiped        \* shared chains some error path has flushed

table == <<exists, rules>>
vars == <<exists, rules, handler, granted, setupDone, wiped>>

------------------------------------------------------------------------------
(* Chains, targets and rules. *)

chainINPUT              == <<"INPUT", "">>
chainFORWARD            == <<"FORWARD", "">>
chainCallistoSGFallback == <<"callisto-sg-fallback", "">>
chainCallistoSG         == <<"callisto-sg-chain", "">>
chainCallistoINPUT      == <<"callisto-INPUT", "">>
chainCallistoFORWARD    == <<"callisto-FORWARD", "">>

actionACCEPT == <<"ACCEPT", "">>
actionDROP   == <<"DROP", "">>
actionRETURN == <<"RETURN", "">>

(* A link name has at most 15 characters (iptables takes no longer one in  *)
(* a physdev match), so with a prefix of 10 it is never cut to             *)
(* maxChainNameLength and different links have different chains.           *)
getValidChainName(prefix, i) == <<prefix, i>>
getINPUTChainName(i)  == getValidChainName("callisto-i", i)
getOUTPUTChainName(i) == getValidChainName("callisto-o", i)
getSOURCEChainName(i) == getValidChainName("callisto-s", i)

BuiltinChains == {chainINPUT, chainFORWARD}
SharedChains == {chainCallistoSGFallback, chainCallistoSG,
                 chainCallistoINPUT, chainCallistoFORWARD}
LinkChains == {"callisto-i", "callisto-o", "callisto-s"} \X Interfaces
Chains == BuiltinChains \cup SharedChains \cup LinkChains
Verdicts == {actionACCEPT, actionDROP, actionRETURN}

AnyPacket == <<"any", "">>
PhysdevIn(i) == <<"physdev-in", i>>
PhysdevOut(i) == <<"physdev-out", i>>
AllowedPair(i) == <<"pair", i>>
Traffic(class) == <<class, "">>

TrafficClasses == {"any", "established", "dhcp-client", "dhcp-server",
                   "tcp", "udp", "icmp"}
Matches == (TrafficClasses \X {""})
           \cup ({"physdev-in", "physdev-out", "pair"} \X Interfaces)

Rules == [match: Matches, target: Chains \cup Verdicts]
Rule(m, t) == [match |-> m, target |-> t]

------------------------------------------------------------------------------
(* The tables of the two handlers: setupFunctions creates "chain" and      *)
(* appends "rule" to "into" unless it is there; addFunctions creates       *)
(* "chain" if "creates", then inserts "rules"[k] at position k.            *)

SetupFunction(chain, into, rule) == [chain |-> chain, into |-> into, rule |-> rule]

setupFunctions ==
    << SetupFunction(chainCallistoSGFallback, chainCallistoSGFallback, Rule(AnyPacket, actionDROP)),
       SetupFunction(chainCallistoSG, chainCallistoSG, Rule(AnyPacket, actionACCEPT)),
       SetupFunction(chainCallistoINPUT, chainINPUT, Rule(AnyPacket, chainCallistoINPUT)),
       SetupFunction(chainCallistoFORWARD, chainFORWARD, Rule(AnyPacket, chainCallistoFORWARD)) >>

AddFunction(creates, chain, rs) == [creates |-> creates, chain |-> chain, rules |-> rs]

addSOURCESGRules_dropFirst(i) == AddFunction(TRUE, getSOURCEChainName(i),
    << Rule(AnyPacket, actionDROP),
       Rule(AllowedPair(i), actionRETURN) >>)
addSOURCESGRules(i) == AddFunction(TRUE, getSOURCEChainName(i),
    << Rule(AllowedPair(i), actionRETURN),
       Rule(AnyPacket, actionDROP) >>)

addOUTPUTSGRules_knownFirst(i) == AddFunction(TRUE, getOUTPUTChainName(i),
    << Rule(Traffic("established"), actionRETURN),
       Rule(Traffic("dhcp-client"), actionRETURN),
       Rule(AnyPacket, getSOURCEChainName(i)),
       Rule(Traffic("dhcp-server"), actionDROP),
       Rule(AnyPacket, actionRETURN) >>)
addOUTPUTSGRules_udpFirst(i) == AddFunction(TRUE, getOUTPUTChainName(i),
    << Rule(Traffic("dhcp-client"), actionRETURN),
       Rule(AnyPacket, getSOURCEChainName(i)),
       Rule(Traffic("udp"), actionRETURN),
       Rule(Traffic("dhcp-server"), actionDROP),
       Rule(AnyPacket, actionRETURN) >>)
addOUTPUTSGRules(i) == AddFunction(TRUE, getOUTPUTChainName(i),
    << Rule(Traffic("dhcp-client"), actionRETURN),
       Rule(AnyPacket, getSOURCEChainName(i)),
       Rule(Traffic("dhcp-server"), actionDROP),
       Rule(Traffic("established"), actionRETURN),
       Rule(Traffic("tcp"), actionRETURN),
       Rule(Traffic("udp"), actionRETURN),
       Rule(Traffic("icmp"), actionRETURN),
       Rule(AnyPacket, actionRETURN),
       Rule(AnyPacket, chainCallistoSGFallback) >>)

addINPUTSGRules_noFallback(i) == AddFunction(TRUE, getINPUTChainName(i),
    << Rule(Traffic("established"), actionRETURN),
       Rule(AnyPacket, actionRETURN) >>)
addINPUTSGRules(i) == AddFunction(TRUE, getINPUTChainName(i),
    << Rule(Traffic("established"), actionRETURN),
       Rule(Traffic("dhcp-server"), actionRETURN),
       Rule(Traffic("tcp"), actionRETURN),
       Rule(Traffic("udp"), actionRETURN),
       Rule(Traffic("icmp"), actionRETURN),
       Rule(AnyPacket, chainCallistoSGFallback) >>)

addSGRules(i) == AddFunction(FALSE, chainCallistoSG,
    << Rule(PhysdevOut(i), getINPUTChainName(i)),
       Rule(PhysdevIn(i), getOUTPUTChainName(i)) >>)

addINPUTRules(i) == AddFunction(FALSE, chainCallistoFORWARD,
    << Rule(PhysdevIn(i), getOUTPUTChainName(i)) >>)

addFORWARDRules_wrongChain(i) == AddFunction(FALSE, chainCallistoSG,
    << Rule(PhysdevOut(i), chainCallistoSG),
       Rule(PhysdevIn(i), chainCallistoSG) >>)
addFORWARDRules(i) == AddFunction(FALSE, chainCallistoFORWARD,
    << Rule(PhysdevOut(i), chainCallistoSG),
       Rule(PhysdevIn(i), chainCallistoSG) >>)

addFunctions_sgFirst(i) == << addSGRules(i), addSOURCESGRules(i), addOUTPUTSGRules(i),
                              addINPUTSGRules(i), addINPUTRules(i), addFORWARDRules(i) >>
addFunctions(i) == << addSOURCESGRules(i), addOUTPUTSGRules(i), addINPUTSGRules(i),
                      addSGRules(i), addINPUTRules(i), addFORWARDRules(i) >>

------------------------------------------------------------------------------
(* go-iptables and the kernel, as far as the handlers use them. *)

(* iptables -N refuses a chain that exists; setupChain passes the refusal  *)
(* on as an error.                                                         *)
setupChainSucceeds_ignoringExisting(c) == TRUE
setupChainSucceeds(c) == c \notin exists

(* A rule goes to an existing chain, at most one past its end, and jumps   *)
(* to a verdict or to an existing chain.                                   *)
CanInsert(c, pos, r) ==
    /\ c \in exists
    /\ pos \in 1..(Len(rules[c]) + 1)
    /\ r.target \in exists \cup Verdicts

Referenced(c) == \E d \in exists : \E k \in DOMAIN rules[d] : rules[d][k].target = c

InsertRule_append(rs, pos, r) == Append(rs, r)
InsertRule(rs, pos, r) == InsertAt(rs, pos, r)

CanDeleteChain(c) == c \in exists /\ rules[c] = <<>> /\ ~Referenced(c)

------------------------------------------------------------------------------
(* A handler: op is the request, fn the index of the function of its table *)
(* it is in and step the next command of it, 0 being NewChain.  In phase   *)
(* "clear" and "delete" it runs the error path of a failed Insert.         *)

Idle == [op |-> "idle", intf |-> "none", fn |-> 0, step |-> 0, phase |-> "run"]

SetupState == [op: {"setup"}, intf: {"none"}, fn: 1..4, step: 0..2, phase: {"run"}]
AddState ==
    { s \in [op: {"add"}, intf: Interfaces, fn: 1..6, step: 0..9,
             phase: {"run", "clear", "delete"}] :
        LET f == addFunctions(s.intf)[s.fn]
        IN /\ s.step <= Len(f.rules)
           /\ s.step = 0 => f.creates /\ s.phase = "run" }

(* Every goroutine is between two requests or at a command of its table. *)
TypeOK ==
    /\ exists \in SUBSET Chains
    /\ rules \in [Chains -> Seq(Rules)]
    /\ handler \in [Handlers -> {Idle} \cup SetupState \cup AddState]
    /\ granted \in SUBSET Interfaces
    /\ setupDone \in BOOLEAN
    /\ wiped \in SUBSET SharedChains

(* The node boots with the built-in chains of the filter table, empty. *)
Init ==
    /\ exists = BuiltinChains
    /\ rules = [c \in Chains |-> <<>>]
    /\ handler = [h \in Handlers |-> Idle]
    /\ granted = {}
    /\ setupDone = FALSE
    /\ wiped = {}

At(h, op, phase) == handler[h].op = op /\ handler[h].phase = phase

SetupFn(h) == setupFunctions[handler[h].fn]
AddFn(h) == addFunctions(handler[h].intf)[handler[h].fn]

Begin(h, op, i) ==
    handler' = [handler EXCEPT ![h] = [op |-> op, intf |-> i, fn |-> 1, step |-> 0, phase |-> "run"]]
GoTo(h, fn, step) == handler' = [handler EXCEPT ![h].fn = fn, ![h].step = step]
Return(h) == handler' = [handler EXCEPT ![h] = Idle]

(* The first command of the n-th function of addFunctions. *)
EnterAdd(h, n) ==
    GoTo(h, n, IF addFunctions(handler[h].intf)[n].creates THEN 0 ELSE 1)

------------------------------------------------------------------------------
(* SetupDefaultSecurityGroup *)

SetupDefaultSecurityGroup(h) ==
    /\ handler[h] = Idle
    /\ Begin(h, "setup", "none")
    /\ UNCHANGED <<table, granted, setupDone, wiped>>

(* setupChain: an existing chain is an error, and an error ends the call. *)
SetupNewChain(h) ==
    /\ At(h, "setup", "run") /\ handler[h].step = 0
    /\ \/ /\ setupChainSucceeds(SetupFn(h).chain)
          /\ exists' = exists \cup {SetupFn(h).chain}
          /\ GoTo(h, handler[h].fn, 1)
       \/ /\ Faults \/ ~setupChainSucceeds(SetupFn(h).chain)
          /\ Return(h)
          /\ UNCHANGED exists
    /\ UNCHANGED <<rules, granted, setupDone, wiped>>

(* The end of one of setupFunctions: the next one, or success. *)
SetupAdvance(h) ==
    \/ /\ handler[h].fn < Len(setupFunctions)
       /\ GoTo(h, handler[h].fn + 1, 0)
       /\ UNCHANGED setupDone
    \/ /\ handler[h].fn = Len(setupFunctions)
       /\ Return(h)
       /\ setupDone' = TRUE

(* AppendUnique is two commands: does the rule exist, and if not append it. *)
SetupCheckRule(h) ==
    /\ At(h, "setup", "run") /\ handler[h].step = 1
    /\ \/ /\ Contains(rules[SetupFn(h).into], SetupFn(h).rule)
          /\ SetupAdvance(h)
       \/ /\ ~Contains(rules[SetupFn(h).into], SetupFn(h).rule)
          /\ GoTo(h, handler[h].fn, 2)
          /\ UNCHANGED setupDone
       \/ /\ Faults
          /\ Return(h)
          /\ UNCHANGED setupDone
    /\ UNCHANGED <<table, granted, wiped>>

SetupAppend(h) ==
    LET f == SetupFn(h)
        ok == CanInsert(f.into, Len(rules[f.into]) + 1, f.rule)
    IN /\ At(h, "setup", "run") /\ handler[h].step = 2
       /\ \/ /\ ok
             /\ rules' = [rules EXCEPT ![f.into] = Append(@, f.rule)]
             /\ SetupAdvance(h)
          \/ /\ Faults \/ ~ok
             /\ Return(h)
             /\ UNCHANGED <<rules, setupDone>>
       /\ UNCHANGED <<exists, granted, wiped>>

------------------------------------------------------------------------------
(* AddSecurityGroup *)

AddSecurityGroup(h, i) ==
    /\ handler[h] = Idle
    /\ SetupFirst => setupDone
    /\ Begin(h, "add", i)
    /\ UNCHANGED <<table, granted, setupDone, wiped>>

AddNewChain_existingIsDone(h) ==
    /\ At(h, "add", "run") /\ handler[h].step = 0
    /\ \/ /\ setupChainSucceeds(AddFn(h).chain)
          /\ exists' = exists \cup {AddFn(h).chain}
          /\ GoTo(h, handler[h].fn, 1)
          /\ UNCHANGED granted
       \/ /\ ~setupChainSucceeds(AddFn(h).chain)
          /\ Return(h)
          /\ granted' = granted \cup {handler[h].intf}
          /\ UNCHANGED exists
    /\ UNCHANGED <<rules, setupDone, wiped>>
AddNewChain(h) ==
    /\ At(h, "add", "run") /\ handler[h].step = 0
    /\ \/ /\ setupChainSucceeds(AddFn(h).chain)
          /\ exists' = exists \cup {AddFn(h).chain}
          /\ GoTo(h, handler[h].fn, 1)
       \/ /\ Faults \/ ~setupChainSucceeds(AddFn(h).chain)
          /\ Return(h)
          /\ UNCHANGED exists
    /\ UNCHANGED <<rules, granted, setupDone, wiped>>

AddAdvance_oneTooMany(h) ==
    /\ handler[h].step <= Len(AddFn(h).rules)
    /\ GoTo(h, handler[h].fn, handler[h].step + 1)
    /\ UNCHANGED granted

(* After an inserted rule: the next rule, the next function, or success. *)
AddAdvance(h) ==
    \/ /\ handler[h].step < Len(AddFn(h).rules)
       /\ GoTo(h, handler[h].fn, handler[h].step + 1)
       /\ UNCHANGED granted
    \/ /\ handler[h].step = Len(AddFn(h).rules)
       /\ handler[h].fn < Len(addFunctions(handler[h].intf))
       /\ EnterAdd(h, handler[h].fn + 1)
       /\ UNCHANGED granted
    \/ /\ handler[h].step = Len(AddFn(h).rules)
       /\ handler[h].fn = Len(addFunctions(handler[h].intf))
       /\ Return(h)
       /\ granted' = granted \cup {handler[h].intf}

AddInsert(h) ==
    LET f == AddFn(h)
        k == handler[h].step
        ok == CanInsert(f.chain, k, f.rules[k])
    IN /\ At(h, "add", "run") /\ k > 0
       /\ \/ /\ ok
             /\ rules' = [rules EXCEPT ![f.chain] = InsertRule(@, k, f.rules[k])]
             /\ AddAdvance(h)
          \/ /\ Faults \/ ~ok
             /\ handler' = [handler EXCEPT ![h].phase = "clear"]
             /\ UNCHANGED <<rules, granted>>
       /\ UNCHANGED <<exists, setupDone, wiped>>

(* The error path of a failed Insert.  ClearChain flushes the chain the    *)
(* function works on, creating it first if it is not there; its own error, *)
(* and DeleteChain's, are dropped.                                         *)
ClearChain(h) ==
    LET c == AddFn(h).chain
    IN /\ At(h, "add", "clear")
       /\ handler' = [handler EXCEPT ![h].phase = "delete"]
       /\ \/ /\ exists' = exists \cup {c}
             /\ rules' = [rules EXCEPT ![c] = <<>>]
             /\ wiped' = wiped \cup ({c} \cap SharedChains)
          \/ /\ Faults
             /\ UNCHANGED <<exists, rules, wiped>>
       /\ UNCHANGED <<granted, setupDone>>

DeleteChain(h) ==
    LET c == AddFn(h).chain
    IN /\ At(h, "add", "delete")
       /\ Return(h)
       /\ \/ CanDeleteChain(c) /\ exists' = exists \ {c}
          \/ (Faults \/ ~CanDeleteChain(c)) /\ UNCHANGED exists
       /\ UNCHANGED <<rules, granted, setupDone, wiped>>

(* The agent dies and is restarted: the kernel keeps the filter table. *)
AgentRestart ==
    /\ Faults
    /\ \E h \in Handlers : handler[h] # Idle
    /\ handler' = [h \in Handlers |-> Idle]
    /\ UNCHANGED <<table, granted, setupDone, wiped>>

------------------------------------------------------------------------------

Work(h) ==
    \/ SetupNewChain(h) \/ SetupCheckRule(h) \/ SetupAppend(h)
    \/ AddNewChain(h) \/ AddInsert(h) \/ ClearChain(h) \/ DeleteChain(h)

Next ==
    \/ \E h \in Handlers :
          \/ SetupDefaultSecurityGroup(h)
          \/ \E i \in Interfaces : AddSecurityGroup(h, i)
          \/ Work(h)
    \/ AgentRestart

Spec == Init /\ [][Next]_vars

(* A goroutine that can run its next command runs it. *)
FairSpec == Spec /\ \A h \in Handlers : WF_vars(Work(h))

------------------------------------------------------------------------------
(* Properties *)

(* A link whose AddSecurityGroup succeeded has its three chains with       *)
(* exactly the rules of addSOURCESGRules, addOUTPUTSGRules and             *)
(* addINPUTSGRules in their order, whatever duplicate requests, error      *)
(* paths and restarts did meanwhile: NewChain failing on an existing chain *)
(* is the only lock there is.                                              *)
GrantedChainsIntact ==
    \A i \in granted : \A n \in 1..3 :
        LET f == addFunctions(i)[n]
        IN f.chain \in exists /\ rules[f.chain] = f.rules

(* The security group chain ends with the ACCEPT rule of setupSGChain as   *)
(* soon as it has one: no jump of addSGRules ever lands behind it, where   *)
(* it would never be reached.  This holds until an error path clears the   *)
(* chain: a setup may then append ACCEPT between the two rules that an     *)
(* AddSecurityGroup inserts.                                               *)
AcceptIsLast ==
    chainCallistoSG \notin wiped =>
        \A k \in DOMAIN rules[chainCallistoSG] :
            rules[chainCallistoSG][k].target = actionACCEPT => k = Len(rules[chainCallistoSG])

(* INPUT and FORWARD jump to the callisto chains at most once, although    *)
(* AppendUnique looks and appends in two commands and setups may overlap.  *)
HooksUnique == \A c \in BuiltinChains : Len(rules[c]) <= 1

(* A goroutine that works on link i and has got past the first command of  *)
(* addSOURCESGRules.                                                       *)
Owns(h, i) ==
    /\ handler[h].op = "add" /\ handler[h].intf = i
    /\ handler[h].fn # 1 \/ handler[h].step # 0

(* A source chain left behind by an AddSecurityGroup that failed or died:  *)
(* no goroutine works on it and its link was not granted.                  *)
Orphan(i) ==
    /\ getSOURCEChainName(i) \in exists
    /\ i \notin granted
    /\ \A h \in Handlers : handler[h].op = "add" /\ handler[h].intf = i
                           => handler[h].fn = 1 /\ handler[h].step = 0

(* Retrying does not help: once orphaned, a link is orphaned for good,     *)
(* because every retry stops at the NewChain of addSOURCESGRules.          *)
OrphanedForever == [][\A i \in Interfaces : Orphan(i) => Orphan(i)']_vars

(* With working commands and the setup done first, every request for a     *)
(* link ends with the link granted, by this request or by a duplicate.     *)
RequestGetsGranted ==
    \A i \in Interfaces :
        (\E h \in Handlers : handler[h].op = "add" /\ handler[h].intf = i) ~> i \in granted
==============================================================================
