------------------------- MODULE SecurityGroupProofs -------------------------
(***************************************************************************)
(* Theorems about SecurityGroup and about the mapping by which it          *)
(* implements LinkGrants, for any links and goroutines.                    *)
(***************************************************************************)
EXTENDS SecurityGroupGrants, TLAPS

------------------------------------------------------------------------------
(* The tables *)

(* The chain of a function of addFunctions: one of the link's own chains   *)
(* for the first three, which create it, and a shared one for the others.  *)
LEMMA AddChains ==
    ASSUME NEW i \in Interfaces
    PROVE  /\ Len(addFunctions(i)) = 6
           /\ addFunctions(i)[1].chain = <<"callisto-s", i>>
           /\ addFunctions(i)[2].chain = <<"callisto-o", i>>
           /\ addFunctions(i)[3].chain = <<"callisto-i", i>>
           /\ addFunctions(i)[1].creates = TRUE
           /\ addFunctions(i)[2].creates = TRUE
           /\ addFunctions(i)[3].creates = TRUE
           /\ \A n \in 4..6 : /\ addFunctions(i)[n].chain \in SharedChains
                              /\ addFunctions(i)[n].creates = FALSE
  BY DEF addFunctions, AddFunction, addSOURCESGRules, addOUTPUTSGRules, addINPUTSGRules,
     addSGRules, addINPUTRules, addFORWARDRules, SharedChains, getValidChainName,
     getSOURCEChainName, getOUTPUTChainName, getINPUTChainName

(* The rules of a function of addFunctions are rules, at most nine. *)
LEMMA AddRules ==
    ASSUME NEW i \in Interfaces, NEW n \in 1..6
    PROVE  /\ addFunctions(i)[n].rules \in Seq(Rules)
           /\ Len(addFunctions(i)[n].rules) > 0 /\ Len(addFunctions(i)[n].rules) <= 9
  <1>m. /\ AnyPacket \in Matches
        /\ PhysdevIn(i) \in Matches /\ PhysdevOut(i) \in Matches /\ AllowedPair(i) \in Matches
        /\ \A class \in TrafficClasses : Traffic(class) \in Matches
    BY DEF Matches, AnyPacket, Traffic, TrafficClasses, PhysdevIn, PhysdevOut, AllowedPair
  <1>t. /\ {actionACCEPT, actionDROP, actionRETURN, chainCallistoSG,
            chainCallistoSGFallback} \subseteq Chains \cup Verdicts
        /\ {getSOURCEChainName(i), getOUTPUTChainName(i), getINPUTChainName(i)}
              \subseteq Chains \cup Verdicts
    BY DEF Chains, SharedChains, LinkChains, Verdicts, getValidChainName,
       getSOURCEChainName, getOUTPUTChainName, getINPUTChainName
  <1>r. \A m \in Matches, t \in Chains \cup Verdicts : Rule(m, t) \in Rules
    BY DEF Rule, Rules
  <1> USE <1>m, <1>t, <1>r DEF AddFunction, TrafficClasses
  <1> DEFINE Fits(f) == f.rules \in Seq(Rules) /\ Len(f.rules) > 0 /\ Len(f.rules) <= 9
  <1>1. Fits(addSOURCESGRules(i))
    BY DEF addSOURCESGRules
  <1>2. Fits(addOUTPUTSGRules(i))
    BY DEF addOUTPUTSGRules
  <1>3. Fits(addINPUTSGRules(i))
    BY DEF addINPUTSGRules
  <1>4. Fits(addSGRules(i))
    BY DEF addSGRules
  <1>5. Fits(addINPUTRules(i))
    BY DEF addINPUTRules
  <1>6. Fits(addFORWARDRules(i))
    BY DEF addFORWARDRules
  <1>7. /\ addFunctions(i)[1] = addSOURCESGRules(i) /\ addFunctions(i)[2] = addOUTPUTSGRules(i)
        /\ addFunctions(i)[3] = addINPUTSGRules(i)  /\ addFunctions(i)[4] = addSGRules(i)
        /\ addFunctions(i)[5] = addINPUTRules(i)    /\ addFunctions(i)[6] = addFORWARDRules(i)
    BY DEF addFunctions
  <1>8. n = 1 \/ n = 2 \/ n = 3 \/ n = 4 \/ n = 5 \/ n = 6
    OBVIOUS
  <1> HIDE <1>m, <1>t, <1>r DEF AddFunction, TrafficClasses, Fits
  <1>9. Fits(addFunctions(i)[n])
    BY <1>1, <1>2, <1>3, <1>4, <1>5, <1>6, <1>7, <1>8
  <1> QED
    BY <1>9 DEF Fits

(* A function of setupFunctions works on chains that all links share. *)
LEMMA SetupChains ==
    ASSUME NEW n \in 1..4
    PROVE  /\ Len(setupFunctions) = 4
           /\ setupFunctions[n].chain \in SharedChains
           /\ setupFunctions[n].into \in SharedChains \cup BuiltinChains
           /\ setupFunctions[n].rule \in Rules
  <1>1. Rule(AnyPacket, actionDROP) \in Rules /\ Rule(AnyPacket, actionACCEPT) \in Rules
    BY DEF Rule, Rules, Matches, AnyPacket, TrafficClasses, Verdicts
  <1>2. /\ Rule(AnyPacket, chainCallistoINPUT) \in Rules
        /\ Rule(AnyPacket, chainCallistoFORWARD) \in Rules
    BY DEF Rule, Rules, Matches, AnyPacket, TrafficClasses, Chains, SharedChains
  <1>3. setupFunctions =
           << SetupFunction(chainCallistoSGFallback, chainCallistoSGFallback, Rule(AnyPacket, actionDROP)),
              SetupFunction(chainCallistoSG, chainCallistoSG, Rule(AnyPacket, actionACCEPT)),
              SetupFunction(chainCallistoINPUT, chainINPUT, Rule(AnyPacket, chainCallistoINPUT)),
              SetupFunction(chainCallistoFORWARD, chainFORWARD, Rule(AnyPacket, chainCallistoFORWARD)) >>
    BY DEF setupFunctions
  <1>4. n = 1 \/ n = 2 \/ n = 3 \/ n = 4
    OBVIOUS
  <1> QED
    BY <1>1, <1>2, <1>3, <1>4 DEF SetupFunction, SharedChains, BuiltinChains

(* No two of the links' own chains have the same name, nor is one shared. *)
LEMMA OwnChains ==
    ASSUME NEW i \in Interfaces, NEW n \in 1..3
    PROVE  /\ addFunctions(i)[n].chain \in LinkChains
           /\ addFunctions(i)[n].chain \notin SharedChains \cup BuiltinChains
           /\ \A j \in Interfaces, m \in 1..6 :
                 addFunctions(j)[m].chain = addFunctions(i)[n].chain => i = j /\ n = m
  <1>1. \A j \in Interfaces : \A p, q \in {"callisto-s", "callisto-o", "callisto-i"} :
           <<p, i>> = <<q, j>> => p = q /\ i = j
    OBVIOUS
  <1>2. <<"callisto-s", i>> \notin SharedChains \cup BuiltinChains
    BY DEF SharedChains, BuiltinChains, chainINPUT, chainFORWARD,
       chainCallistoSGFallback, chainCallistoSG, chainCallistoINPUT, chainCallistoFORWARD
  <1>3. <<"callisto-o", i>> \notin SharedChains \cup BuiltinChains
    BY DEF SharedChains, BuiltinChains, chainINPUT, chainFORWARD,
       chainCallistoSGFallback, chainCallistoSG, chainCallistoINPUT, chainCallistoFORWARD
  <1>4. <<"callisto-i", i>> \notin SharedChains \cup BuiltinChains
    BY DEF SharedChains, BuiltinChains, chainINPUT, chainFORWARD,
       chainCallistoSGFallback, chainCallistoSG, chainCallistoINPUT, chainCallistoFORWARD
  <1> DEFINE own(j, m) == addFunctions(j)[m].chain
  <1>a. \A j \in Interfaces : /\ own(j, 1) = <<"callisto-s", j>>
                              /\ own(j, 2) = <<"callisto-o", j>>
                              /\ own(j, 3) = <<"callisto-i", j>>
                              /\ \A m \in 4..6 : own(j, m) \in SharedChains
    BY AddChains
  <1>b. n = 1 \/ n = 2 \/ n = 3
    OBVIOUS
  <1> HIDE DEF own
  <1>5. own(i, n) \in LinkChains
    BY <1>a, <1>b DEF LinkChains
  <1>6. own(i, n) \notin SharedChains \cup BuiltinChains
    BY <1>a, <1>b, <1>2, <1>3, <1>4
  <1>7. ASSUME NEW j \in Interfaces, NEW m \in 1..6, own(j, m) = own(i, n)
        PROVE  i = j /\ n = m
    <2>1. m = 1 \/ m = 2 \/ m = 3
      <3>1. m \notin 4..6
        BY <1>a, <1>6, <1>7
      <3> QED
        BY <3>1
    <2> QED
      BY <1>a, <1>b, <1>1, <1>7, <2>1
  <1> QED
    BY <1>5, <1>6, <1>7 DEF own

(* Inserting at one of the places the kernel allows gives rules again. *)
LEMMA InsertType ==
    ASSUME NEW rs \in Seq(Rules), NEW k \in 1..(Len(rs) + 1), NEW r \in Rules
    PROVE  InsertRule(rs, k, r) \in Seq(Rules)
  BY DEF InsertRule, InsertAt

(* Inserting behind a prefix of some rules gives the next longer prefix. *)
LEMMA InsertNext ==
    ASSUME NEW rs \in Seq(Rules), NEW k \in 1..Len(rs)
    PROVE  InsertRule(SubSeq(rs, 1, k - 1), k, rs[k]) = SubSeq(rs, 1, k)
  <1> DEFINE p == SubSeq(rs, 1, k - 1)
  <1>1. p \in Seq(Rules) /\ Len(p) = k - 1 /\ \A j \in 1..(k - 1) : p[j] = rs[j]
    OBVIOUS
  <1>2. SubSeq(p, 1, k - 1) = p
    BY <1>1
  <1>3. SubSeq(p, k, Len(p)) = <<>>
    BY <1>1
  <1>4. p \o <<rs[k]>> = SubSeq(rs, 1, k)
    BY <1>1
  <1> HIDE DEF p
  <1>5. InsertRule(p, k, rs[k]) = p \o <<rs[k]>> \o <<>>
    BY <1>2, <1>3 DEF InsertRule, InsertAt
  <1> QED
    BY <1>1, <1>4, <1>5 DEF p
------------------------------------------------------------------------------
(* Type correctness *)

States == {Idle} \cup SetupState \cup AddState

(* What is known of a goroutine that serves an AddSecurityGroup. *)
LEMMA Adding ==
    ASSUME TypeOK, NEW h \in Handlers, handler[h].op = "add"
    PROVE  /\ handler[h] \in AddState
           /\ handler[h].intf \in Interfaces
           /\ handler[h].fn \in 1..6 /\ handler[h].step \in 0..9
           /\ handler[h].phase \in {"run", "clear", "delete"}
           /\ handler[h].step <= Len(AddFn(h).rules)
           /\ handler[h].step = 0 => AddFn(h).creates /\ handler[h].phase = "run"
           /\ AddFn(h).chain \in Chains
           /\ AddFn(h).chain \in LinkChains \cup SharedChains
           /\ AddFn(h).rules \in Seq(Rules)
           /\ Len(AddFn(h).rules) > 0 /\ Len(AddFn(h).rules) <= 9
  <1>1. handler[h] \in AddState
    BY DEF TypeOK, SetupState, Idle
  <1>2. /\ handler[h].intf \in Interfaces
        /\ handler[h].fn \in 1..6 /\ handler[h].step \in 0..9
        /\ handler[h].phase \in {"run", "clear", "delete"}
        /\ handler[h].step <= Len(AddFn(h).rules)
        /\ handler[h].step = 0 => AddFn(h).creates /\ handler[h].phase = "run"
    BY <1>1 DEF AddState, AddFn
  <1>3. AddFn(h).rules \in Seq(Rules) /\ Len(AddFn(h).rules) > 0 /\ Len(AddFn(h).rules) <= 9
    BY <1>2, AddRules DEF AddFn
  <1>4. AddFn(h).chain \in LinkChains \cup SharedChains
    <2>1. CASE handler[h].fn \in 1..3
      BY <1>2, <2>1, OwnChains DEF AddFn
    <2>2. CASE handler[h].fn \in 4..6
      BY <1>2, <2>2, AddChains DEF AddFn
    <2> QED
      BY <1>2, <2>1, <2>2
  <1> QED
    BY <1>1, <1>2, <1>3, <1>4 DEF Chains

(* And of one that serves a SetupDefaultSecurityGroup. *)
LEMMA SettingUp ==
    ASSUME TypeOK, NEW h \in Handlers, handler[h].op = "setup"
    PROVE  /\ handler[h] \in SetupState
           /\ handler[h].fn \in 1..4 /\ handler[h].step \in 0..2
           /\ SetupFn(h).chain \in SharedChains
           /\ SetupFn(h).into \in SharedChains \cup BuiltinChains
           /\ SetupFn(h).rule \in Rules
  <1>1. handler[h] \in SetupState
    BY DEF TypeOK, AddState, Idle
  <1>2. handler[h].fn \in 1..4 /\ handler[h].step \in 0..2
    BY <1>1 DEF SetupState
  <1> QED
    BY <1>1, <1>2, SetupChains DEF SetupFn

(* A place of the same function, where a goroutine may go on. *)
LEMMA AddPlace ==
    ASSUME NEW s \in AddState, NEW fn \in 1..6, NEW step \in 0..9,
           NEW phase \in {"run", "clear", "delete"},
           step <= Len(addFunctions(s.intf)[fn].rules),
           step = 0 => addFunctions(s.intf)[fn].creates /\ phase = "run"
    PROVE  [s EXCEPT !.fn = fn, !.step = step, !.phase = phase] \in AddState
  BY DEF AddState

(* Answering a request keeps the goroutines well typed. *)
LEMMA ReturnType ==
    ASSUME TypeOK, NEW h \in Handlers, Return(h)
    PROVE  handler' \in [Handlers -> States]
  BY DEF TypeOK, Return, States

(* So does the way of a setup through its functions. *)
LEMMA SetupGoToType ==
    ASSUME TypeOK, NEW h \in Handlers, handler[h].op = "setup",
           NEW fn \in 1..4, NEW step \in 0..2, GoTo(h, fn, step)
    PROVE  handler' \in [Handlers -> States]
  <1>1. [handler[h] EXCEPT !.fn = fn, !.step = step] \in SetupState
    BY SettingUp DEF SetupState
  <1> QED
    BY <1>1 DEF TypeOK, States, GoTo

(* And that of an AddSecurityGroup. *)
LEMMA AddGoToType ==
    ASSUME TypeOK, NEW h \in Handlers, At(h, "add", "run"),
           NEW fn \in 1..6, NEW step \in 0..9, GoTo(h, fn, step),
           step <= Len(addFunctions(handler[h].intf)[fn].rules),
           step = 0 => addFunctions(handler[h].intf)[fn].creates
    PROVE  handler' \in [Handlers -> States]
  <1>1. [handler[h] EXCEPT !.fn = fn, !.step = step] \in AddState
    BY Adding DEF AddState, At
  <1> QED
    BY <1>1 DEF TypeOK, States, GoTo

(* And its error path. *)
LEMMA AddPhaseType ==
    ASSUME TypeOK, NEW h \in Handlers, handler[h].op = "add", handler[h].step > 0,
           NEW phase \in {"clear", "delete"},
           handler' = [handler EXCEPT ![h].phase = phase]
    PROVE  handler' \in [Handlers -> States]
  <1>1. [handler[h] EXCEPT !.phase = phase] \in AddState
    BY Adding DEF AddState
  <1> QED
    BY <1>1 DEF TypeOK, States

(* From the end of a setup function. *)
LEMMA SetupAdvanceType ==
    ASSUME TypeOK, NEW h \in Handlers, handler[h].op = "setup", SetupAdvance(h)
    PROVE  handler' \in [Handlers -> States] /\ setupDone' \in BOOLEAN
  <1>1. Len(setupFunctions) = 4
    BY SetupChains
  <1>2. CASE handler[h].fn < Len(setupFunctions)
    <2>1. handler[h].fn + 1 \in 1..4
      BY <1>1, <1>2, SettingUp
    <2> QED
      BY <1>2, <2>1, SetupGoToType DEF SetupAdvance, TypeOK
  <1>3. CASE handler[h].fn = Len(setupFunctions)
    BY <1>3, <1>1, ReturnType DEF SetupAdvance
  <1> QED
    BY <1>2, <1>3 DEF SetupAdvance

(* From an inserted rule. *)
LEMMA AddAdvanceType ==
    ASSUME TypeOK, NEW h \in Handlers, At(h, "add", "run"), AddAdvance(h)
    PROVE  handler' \in [Handlers -> States] /\ granted' \in SUBSET Interfaces
  <1>0. handler[h].op = "add"
    BY DEF At
  <1>t. /\ handler[h].intf \in Interfaces /\ handler[h].fn \in 1..6 /\ handler[h].step \in 0..9
        /\ AddFn(h).rules \in Seq(Rules)
        /\ Len(AddFn(h).rules) > 0 /\ Len(AddFn(h).rules) <= 9
    BY <1>0, Adding
  <1>l. Len(addFunctions(handler[h].intf)) = 6
    BY <1>t, AddChains
  <1>1. CASE GoTo(h, handler[h].fn, handler[h].step + 1) /\ UNCHANGED granted
             /\ handler[h].step < Len(AddFn(h).rules)
    <2>1. handler[h].step < Len(AddFn(h).rules) /\ GoTo(h, handler[h].fn, handler[h].step + 1)
      BY <1>1
    <2> DEFINE next == handler[h].step + 1
    <2>2. next \in 0..9 /\ next # 0 /\ next <= Len(AddFn(h).rules)
      BY <1>t, <2>1
    <2>3. GoTo(h, handler[h].fn, next)
      BY <2>1
    <2> HIDE DEF next
    <2>4. handler' \in [Handlers -> States]
      BY <1>t, <2>2, <2>3, AddGoToType DEF AddFn
    <2> QED
      BY <1>1, <2>4 DEF TypeOK
  <1>2. CASE EnterAdd(h, handler[h].fn + 1) /\ UNCHANGED granted
             /\ handler[h].fn < Len(addFunctions(handler[h].intf))
    <2>1. handler[h].fn + 1 \in 1..6 /\ handler[h].intf \in Interfaces
      BY <1>2, <1>t, <1>l
    <2>2. addFunctions(handler[h].intf)[handler[h].fn + 1].rules \in Seq(Rules)
          /\ Len(addFunctions(handler[h].intf)[handler[h].fn + 1].rules) > 0
          /\ Len(addFunctions(handler[h].intf)[handler[h].fn + 1].rules) <= 9
      BY <2>1, AddRules
    <2> DEFINE step == IF addFunctions(handler[h].intf)[handler[h].fn + 1].creates THEN 0 ELSE 1
    <2>3. GoTo(h, handler[h].fn + 1, step)
      BY <1>2 DEF EnterAdd
    <2>4. step \in {0, 1} /\ step <= Len(addFunctions(handler[h].intf)[handler[h].fn + 1].rules)
      BY <2>2
    <2>5. step = 0 => addFunctions(handler[h].intf)[handler[h].fn + 1].creates
      OBVIOUS
    <2> HIDE DEF step
    <2> QED
      BY <1>2, <2>1, <2>3, <2>4, <2>5, AddGoToType DEF TypeOK
  <1>3. CASE Return(h) /\ granted' = granted \cup {handler[h].intf}
    BY <1>0, <1>3, ReturnType, Adding DEF TypeOK
  <1> QED
    BY <1>1, <1>2, <1>3 DEF AddAdvance

(* Every command of a handler keeps the types. *)
LEMMA WorkType ==
    ASSUME TypeOK, NEW h \in Handlers, Work(h)
    PROVE  TypeOK'
  <1>0. /\ exists \subseteq Chains /\ rules \in [Chains -> Seq(Rules)]
        /\ granted \subseteq Interfaces /\ setupDone \in BOOLEAN /\ wiped \subseteq SharedChains
    BY DEF TypeOK
  <1>s. SharedChains \subseteq Chains /\ BuiltinChains \subseteq Chains
    BY DEF Chains
  <1>1. CASE SetupNewChain(h)
    <2>0. handler[h].op = "setup"
      BY <1>1 DEF SetupNewChain, At
    <2>1. handler' \in [Handlers -> States]
      BY <1>1, <2>0, SettingUp, SetupGoToType, ReturnType DEF SetupNewChain
    <2>2. exists' \subseteq Chains
      BY <1>0, <1>1, <1>s, <2>0, SettingUp DEF SetupNewChain
    <2> QED
      BY <1>0, <1>1, <2>1, <2>2 DEF SetupNewChain, TypeOK, States
  <1>2. CASE SetupCheckRule(h)
    <2>0. handler[h].op = "setup"
      BY <1>2 DEF SetupCheckRule, At
    <2>1. handler' \in [Handlers -> States] /\ setupDone' \in BOOLEAN
      BY <1>0, <1>2, <2>0, SettingUp, SetupGoToType, SetupAdvanceType, ReturnType
         DEF SetupCheckRule
    <2> QED
      BY <1>0, <1>2, <2>1 DEF SetupCheckRule, TypeOK, States, table
  <1>3. CASE SetupAppend(h)
    <2>0. handler[h].op = "setup"
      BY <1>3 DEF SetupAppend, At
    <2>1. handler' \in [Handlers -> States] /\ setupDone' \in BOOLEAN
      BY <1>0, <1>3, <2>0, SetupAdvanceType, ReturnType DEF SetupAppend
    <2>2. /\ SetupFn(h).into \in Chains /\ SetupFn(h).rule \in Rules
          /\ Append(rules[SetupFn(h).into], SetupFn(h).rule) \in Seq(Rules)
      BY <1>0, <1>s, <2>0, SettingUp
    <2>3. rules' \in [Chains -> Seq(Rules)]
      BY <1>0, <1>3, <2>2 DEF SetupAppend
    <2> QED
      BY <1>0, <1>3, <2>1, <2>3 DEF SetupAppend, TypeOK, States
  <1>4. CASE AddNewChain(h)
    <2>0. handler[h].op = "add" /\ At(h, "add", "run")
      BY <1>4 DEF AddNewChain, At
    <2>1. ASSUME GoTo(h, handler[h].fn, 1) PROVE handler' \in [Handlers -> States]
      <3>1. 1 <= Len(addFunctions(handler[h].intf)[handler[h].fn].rules)
        BY <2>0, Adding DEF AddFn
      <3> QED
        BY <2>0, <2>1, <3>1, Adding, AddGoToType
    <2>2. handler' \in [Handlers -> States]
      BY <1>4, <2>1, ReturnType DEF AddNewChain
    <2>3. exists' \subseteq Chains
      BY <1>0, <1>4, <2>0, Adding DEF AddNewChain
    <2> QED
      BY <1>0, <1>4, <2>2, <2>3 DEF AddNewChain, TypeOK, States
  <1>5. CASE AddInsert(h)
    <2>0. handler[h].op = "add" /\ At(h, "add", "run") /\ handler[h].step > 0
      BY <1>5 DEF AddInsert, At
    <2>1. handler' \in [Handlers -> States] /\ granted' \subseteq Interfaces
      BY <1>0, <1>5, <2>0, AddAdvanceType, AddPhaseType DEF AddInsert
    <2> DEFINE c == AddFn(h).chain
               k == handler[h].step
               r == AddFn(h).rules[k]
    <2>2. c \in Chains /\ k \in 0..9 /\ k <= Len(AddFn(h).rules) /\ AddFn(h).rules \in Seq(Rules)
      BY <2>0, Adding
    <2>3. r \in Rules /\ rules[c] \in Seq(Rules)
      BY <1>0, <2>0, <2>2
    <2>4. ASSUME CanInsert(c, k, r) PROVE InsertRule(rules[c], k, r) \in Seq(Rules)
      BY <2>3, <2>4, InsertType DEF CanInsert
    <2>5. \/ rules' = [rules EXCEPT ![c] = InsertRule(@, k, r)] /\ CanInsert(c, k, r)
          \/ rules' = rules
      BY <1>5 DEF AddInsert
    <2> HIDE DEF c, k, r
    <2>6. rules' \in [Chains -> Seq(Rules)]
      BY <1>0, <2>2, <2>4, <2>5
    <2> QED
      BY <1>0, <1>5, <2>1, <2>6 DEF AddInsert, TypeOK, States
  <1>6. CASE ClearChain(h)
    <2>0. handler[h].op = "add" /\ handler[h].phase = "clear"
      BY <1>6 DEF ClearChain, At
    <2>1. handler[h].step > 0
      BY <2>0, Adding
    <2>2. handler' \in [Handlers -> States]
      BY <1>6, <2>0, <2>1, AddPhaseType DEF ClearChain
    <2>c. AddFn(h).chain \in Chains /\ <<>> \in Seq(Rules)
      BY <2>0, Adding
    <2>3. exists' \subseteq Chains /\ wiped' \subseteq SharedChains
      BY <1>0, <1>6, <2>c DEF ClearChain
    <2>4. rules' \in [Chains -> Seq(Rules)]
      BY <1>0, <1>6, <2>c DEF ClearChain
    <2> QED
      BY <1>0, <1>6, <2>2, <2>3, <2>4 DEF ClearChain, TypeOK, States
  <1>7. CASE DeleteChain(h)
    <2>1. handler' \in [Handlers -> States]
      BY <1>7, ReturnType DEF DeleteChain
    <2> QED
      BY <1>0, <1>7, <2>1 DEF DeleteChain, TypeOK, States
  <1> QED
    BY <1>1, <1>2, <1>3, <1>4, <1>5, <1>6, <1>7 DEF Work

(* A request for a link keeps the types. *)
LEMMA RequestType ==
    ASSUME TypeOK, NEW h \in Handlers, NEW i \in Interfaces,
           AddSecurityGroup(h, i)
    PROVE  TypeOK'
  <1>1. addFunctions(i)[1].creates = TRUE
    BY AddChains
  <1>2. 0 <= Len(addFunctions(i)[1].rules)
    BY AddRules
  <1>3. [op |-> "add", intf |-> i, fn |-> 1, step |-> 0, phase |-> "run"] \in AddState
    BY <1>1, <1>2 DEF AddState
  <1> QED
    BY <1>3 DEF Begin, AddSecurityGroup, TypeOK, table

(* The initial state is well typed. *)
LEMMA InitType == Init => TypeOK
  <1> SUFFICES ASSUME Init PROVE TypeOK
    OBVIOUS
  <1>1. exists \in SUBSET Chains /\ granted \in SUBSET Interfaces /\ wiped \in SUBSET SharedChains
        /\ setupDone \in BOOLEAN
    BY DEF Init, Chains
  <1>2. rules \in [Chains -> Seq(Rules)]
    BY DEF Init
  <1>3. handler \in [Handlers -> {Idle} \cup SetupState \cup AddState]
    BY DEF Init
  <1> QED
    BY <1>1, <1>2, <1>3 DEF TypeOK

(* Every step keeps the state well typed. *)
LEMMA NextType == TypeOK /\ [Next]_vars => TypeOK'
  <1> SUFFICES ASSUME TypeOK, [Next]_vars PROVE TypeOK'
    OBVIOUS
  <1>1. CASE UNCHANGED vars
    BY <1>1 DEF TypeOK, vars, table
  <1>2. CASE AgentRestart
    BY <1>2 DEF AgentRestart, TypeOK, table
  <1>3. ASSUME NEW h \in Handlers, SetupDefaultSecurityGroup(h) PROVE TypeOK'
    <2>1. [op |-> "setup", intf |-> "none", fn |-> 1, step |-> 0, phase |-> "run"] \in SetupState
      BY DEF SetupState
    <2> QED
      BY <1>3, <2>1 DEF Begin, SetupDefaultSecurityGroup, TypeOK, table
  <1> QED
    BY <1>1, <1>2, <1>3, WorkType, RequestType DEF Next

(* Every goroutine is between two requests or at a command of its table,   *)
(* and only known chains with well formed rules exist.                     *)
THEOREM TypeCorrect == Spec => []TypeOK
  BY InitType, NextType, PTL DEF Spec

------------------------------------------------------------------------------
(* Orphaned links *)

(* Only the goroutine whose command it is changes its state. *)
LEMMA OthersStay ==
    ASSUME TypeOK, NEW h \in Handlers, Work(h), NEW g \in Handlers, g # h
    PROVE  handler'[g] = handler[g]
  <1>0. \A s : [handler EXCEPT ![h] = s][g] = handler[g]
    BY DEF TypeOK
  <1>1. \A fn, step : GoTo(h, fn, step) => handler'[g] = handler[g]
    BY DEF TypeOK, GoTo
  <1>2. Return(h) => handler'[g] = handler[g]
    BY DEF TypeOK, Return
  <1>3. SetupAdvance(h) \/ AddAdvance(h) => handler'[g] = handler[g]
    BY <1>1, <1>2 DEF SetupAdvance, AddAdvance, EnterAdd
  <1>4. \A p : handler' = [handler EXCEPT ![h].phase = p] => handler'[g] = handler[g]
    BY DEF TypeOK
  <1> QED
    BY <1>1, <1>2, <1>3, <1>4
       DEF Work, SetupNewChain, SetupCheckRule, SetupAppend, AddNewChain, AddInsert,
           ClearChain, DeleteChain

(* The source chain of a link goes only by the command of its owner. *)
LEMMA SourceChainStays ==
    ASSUME TypeOK, NEW h \in Handlers, Work(h), NEW i \in Interfaces, ~Owns(h, i),
           getSOURCEChainName(i) \in exists
    PROVE  getSOURCEChainName(i) \in exists'
  <1>0. getSOURCEChainName(i) = addFunctions(i)[1].chain
    BY AddChains DEF getSOURCEChainName, getValidChainName
  <1>1. CASE DeleteChain(h)
    <2>1. handler[h].op = "add" /\ handler[h].phase = "delete"
      BY <1>1 DEF DeleteChain, At
    <2>2. handler[h].step # 0 /\ handler[h].intf \in Interfaces /\ handler[h].fn \in 1..6
      BY <2>1, Adding
    <2>3. AddFn(h).chain # getSOURCEChainName(i)
      BY <1>0, <2>1, <2>2, OwnChains DEF AddFn, Owns
    <2> QED
      BY <1>1, <2>3 DEF DeleteChain
  <1>2. CASE ~DeleteChain(h)
    BY <1>2 DEF Work, SetupNewChain, SetupCheckRule, SetupAppend, AddNewChain, AddInsert,
       ClearChain, table
  <1> QED
    BY <1>1, <1>2

(* A link is granted only by its owner. *)
LEMMA GrantedByOwner ==
    ASSUME TypeOK, NEW h \in Handlers, Work(h), NEW i \in Interfaces, ~Owns(h, i),
           i \notin granted
    PROVE  i \notin granted'
  <1>1. CASE AddInsert(h)
    <2>1. handler[h].op = "add" /\ handler[h].step > 0
      BY <1>1 DEF AddInsert, At
    <2>2. handler[h].intf # i
      BY <2>1, Adding DEF Owns
    <2> QED
      BY <1>1, <2>2 DEF AddInsert, AddAdvance
  <1>2. CASE ~AddInsert(h)
    BY <1>2 DEF Work, SetupNewChain, SetupCheckRule, SetupAppend, AddNewChain, ClearChain,
       DeleteChain
  <1> QED
    BY <1>1, <1>2

(* A command ends the request or leaves it the same. *)
LEMMA SameRequest ==
    ASSUME TypeOK, NEW h \in Handlers, Work(h)
    PROVE  \/ handler'[h] = Idle
           \/ handler'[h].op = handler[h].op /\ handler'[h].intf = handler[h].intf
  <1> DEFINE Same == handler'[h].op = handler[h].op /\ handler'[h].intf = handler[h].intf
  <1>1. \A fn, step : GoTo(h, fn, step) => Same
    BY DEF TypeOK, GoTo, SetupState, AddState, Idle
  <1>2. Return(h) => handler'[h] = Idle
    BY DEF TypeOK, Return
  <1>3. \A p : handler' = [handler EXCEPT ![h].phase = p] => Same
    BY DEF TypeOK, SetupState, AddState, Idle
  <1> HIDE DEF Same
  <1>4. SetupAdvance(h) \/ AddAdvance(h) => handler'[h] = Idle \/ Same
    BY <1>1, <1>2 DEF SetupAdvance, AddAdvance, EnterAdd
  <1>5. handler'[h] = Idle \/ Same
    BY <1>1, <1>2, <1>3, <1>4
       DEF Work, SetupNewChain, SetupCheckRule, SetupAppend, AddNewChain, AddInsert,
           ClearChain, DeleteChain
  <1> QED
    BY <1>5 DEF Same

(* While the source chain of a link is there nobody becomes its owner. *)
LEMMA NoNewOwner ==
    ASSUME TypeOK, NEW h \in Handlers, Work(h), NEW i \in Interfaces, ~Owns(h, i),
           getSOURCEChainName(i) \in exists
    PROVE  ~Owns(h, i)'
  <1>1. CASE handler[h].op = "add" /\ handler[h].intf = i
    <2>1. handler[h].fn = 1 /\ handler[h].step = 0
      BY <1>1 DEF Owns
    <2>2. handler[h].phase = "run"
      BY <1>1, <2>1, Adding
    <2>3. AddNewChain(h)
      BY <1>1, <2>1, <2>2 DEF Work, SetupNewChain, SetupCheckRule, SetupAppend, AddInsert,
         ClearChain, DeleteChain, At
    <2>4. AddFn(h).chain = getSOURCEChainName(i)
      BY <1>1, <2>1, AddChains DEF AddFn, getSOURCEChainName, getValidChainName
    <2>5. Return(h)
      BY <2>3, <2>4 DEF AddNewChain, setupChainSucceeds
    <2> QED
      BY <2>5 DEF Return, TypeOK, Owns, Idle
  <1>2. CASE ~(handler[h].op = "add" /\ handler[h].intf = i)
    BY <1>2, SameRequest DEF Owns, Idle
  <1> QED
    BY <1>1, <1>2

(* A step leaves an orphaned link orphaned. *)
LEMMA OrphanStep ==
    ASSUME TypeOK, [Next]_vars, NEW i \in Interfaces, Orphan(i)
    PROVE  Orphan(i)'
  <1>0. /\ getSOURCEChainName(i) \in exists /\ i \notin granted
        /\ \A h \in Handlers : ~Owns(h, i)
    BY DEF Orphan, Owns
  <1>1. SUFFICES /\ getSOURCEChainName(i) \in exists' /\ i \notin granted'
                 /\ \A h \in Handlers : ~Owns(h, i)'
    BY DEF Orphan, Owns
  <1>2. CASE UNCHANGED vars
    BY <1>0, <1>2 DEF vars, table, Owns
  <1>3. ASSUME NEW h \in Handlers, NEW op, NEW j, Begin(h, op, j),
               UNCHANGED <<table, granted>>
        PROVE  /\ getSOURCEChainName(i) \in exists' /\ i \notin granted'
               /\ \A g \in Handlers : ~Owns(g, i)'
    BY <1>0, <1>3 DEF Begin, TypeOK, table, Owns
  <1>4. ASSUME NEW h \in Handlers, Work(h)
        PROVE  /\ getSOURCEChainName(i) \in exists' /\ i \notin granted'
               /\ \A g \in Handlers : ~Owns(g, i)'
    <2>1. \A g \in Handlers : ~Owns(g, i)'
      <3> TAKE g \in Handlers
      <3>1. CASE g = h
        BY <1>0, <1>4, <3>1, NoNewOwner
      <3>2. CASE g # h
        BY <1>0, <1>4, <3>2, OthersStay DEF Owns
      <3> QED
        BY <3>1, <3>2
    <2> QED
      BY <1>0, <1>4, <2>1, SourceChainStays, GrantedByOwner
  <1>5. CASE AgentRestart
    BY <1>0, <1>5 DEF AgentRestart, table, Owns, Idle
  <1> QED
    BY <1>2, <1>3, <1>4, <1>5 DEF Next, SetupDefaultSecurityGroup, AddSecurityGroup

(* A link whose AddSecurityGroup broke off after the first NewChain is     *)
(* never granted, however often and by however many clients it is retried. *)
THEOREM Orphans == Spec => OrphanedForever
  <1>1. TypeOK /\ [Next]_vars => [\A i \in Interfaces : Orphan(i) => Orphan(i)']_vars
    BY OrphanStep
  <1> QED
    BY <1>1, TypeCorrect, PTL DEF Spec, OrphanedForever

------------------------------------------------------------------------------
(* Granted links *)

(* The n-th own chain of link i exists and has rules rs. *)
Holds(i, n, rs) ==
    /\ addFunctions(i)[n].chain \in exists
    /\ rules[addFunctions(i)[n].chain] = rs

(* A chain that is created starts empty. *)
NoStrayRules == \A c \in Chains : c \notin exists => rules[c] = <<>>

(* The goroutine that created the source chain of a link has the link for  *)
(* itself until it is done.                                                *)
OwnerAlone ==
    \A h \in Handlers, i \in Interfaces : Owns(h, i) =>
        /\ i \notin granted
        /\ getSOURCEChainName(i) \in exists
        /\ \A g \in Handlers : Owns(g, i) => g = h

(* It has completed the chains of the functions behind it, and has the     *)
(* rules up to its next one in the chain it works on.                      *)
OwnerBuilds ==
    \A h \in Handlers, i \in Interfaces : \A n \in 1..3 : Owns(h, i) =>
        LET rs == addFunctions(i)[n].rules
        IN /\ n < handler[h].fn => Holds(i, n, rs)
           /\ n = handler[h].fn /\ handler[h].step > 0 /\ handler[h].phase = "run"
              => Holds(i, n, SubSeq(rs, 1, handler[h].step - 1))

LinkInv == TypeOK /\ NoStrayRules /\ OwnerAlone /\ OwnerBuilds /\ GrantedChainsIntact

(* A chain of a link changes only by a command of the goroutine that is at *)
(* the function which created it.                                          *)
LEMMA OwnChainStays ==
    ASSUME TypeOK, NEW h \in Handlers, Work(h), NEW i \in Interfaces, NEW n \in 1..3,
           ~(Owns(h, i) /\ handler[h].fn = n),
           addFunctions(i)[n].chain \in exists
    PROVE  /\ addFunctions(i)[n].chain \in exists'
           /\ rules'[addFunctions(i)[n].chain] = rules[addFunctions(i)[n].chain]
  <1> DEFINE c == addFunctions(i)[n].chain
  <1>0. c \in Chains /\ c \notin SharedChains \cup BuiltinChains /\ rules \in [Chains -> Seq(Rules)]
    BY OwnChains DEF Chains, TypeOK
  <1>1. ASSUME handler[h].op = "add", handler[h].step > 0
        PROVE  AddFn(h).chain # c
    BY <1>1, Adding, OwnChains DEF AddFn, Owns
  <1> HIDE DEF c
  <1>2. CASE SetupNewChain(h) \/ SetupCheckRule(h) \/ AddNewChain(h)
    BY <1>2, c \in exists DEF c, SetupNewChain, SetupCheckRule, AddNewChain, table
  <1>3. CASE SetupAppend(h)
    <2>1. SetupFn(h).into # c
      BY <1>0, <1>3, SettingUp DEF SetupAppend, At
    <2> QED
      BY <1>0, <1>3, <2>1, c \in exists DEF c, SetupAppend
  <1>4. CASE AddInsert(h)
    <2>1. AddFn(h).chain # c
      BY <1>1, <1>4 DEF AddInsert, At
    <2> QED
      BY <1>0, <1>4, <2>1, c \in exists DEF c, AddInsert
  <1>5. CASE ClearChain(h) \/ DeleteChain(h)
    <2>1. handler[h].op = "add" /\ handler[h].phase # "run"
      BY <1>5 DEF ClearChain, DeleteChain, At
    <2>2. AddFn(h).chain # c
      BY <1>1, <2>1, Adding
    <2>3. CASE ClearChain(h)
      BY <1>0, <2>2, <2>3 DEF c, ClearChain
    <2>4. CASE DeleteChain(h)
      BY <2>2, <2>4 DEF c, DeleteChain
    <2> QED
      BY <1>5, <2>3, <2>4 DEF c
  <1> QED
    BY <1>2, <1>3, <1>4, <1>5 DEF Work, c

(* Chains that do not exist stay empty. *)
LEMMA WorkStray ==
    ASSUME TypeOK, NoStrayRules, NEW h \in Handlers, Work(h)
    PROVE  NoStrayRules'
  <1>0. rules \in [Chains -> Seq(Rules)]
    BY DEF TypeOK
  <1>1. CASE SetupNewChain(h) \/ SetupCheckRule(h) \/ AddNewChain(h)
    BY <1>1 DEF SetupNewChain, SetupCheckRule, AddNewChain, table, NoStrayRules
  <1>2. CASE SetupAppend(h)
    BY <1>0, <1>2 DEF SetupAppend, CanInsert, NoStrayRules
  <1>3. CASE AddInsert(h)
    BY <1>0, <1>3 DEF AddInsert, CanInsert, NoStrayRules
  <1>4. CASE ClearChain(h)
    BY <1>0, <1>4 DEF ClearChain, NoStrayRules
  <1>5. CASE DeleteChain(h)
    BY <1>0, <1>5 DEF DeleteChain, CanDeleteChain, NoStrayRules
  <1> QED
    BY <1>1, <1>2, <1>3, <1>4, <1>5 DEF Work

(* What GoTo and Return leave of a goroutine. *)
LEMMA GoToResult ==
    ASSUME TypeOK, NEW h \in Handlers, NEW fn, NEW step, GoTo(h, fn, step)
    PROVE  /\ handler'[h].op = handler[h].op /\ handler'[h].intf = handler[h].intf
           /\ handler'[h].fn = fn /\ handler'[h].step = step
           /\ handler'[h].phase = handler[h].phase
  BY DEF TypeOK, GoTo, SetupState, AddState, Idle

(* An answered request owns nothing. *)
LEMMA ReturnResult ==
    ASSUME TypeOK, NEW h \in Handlers, Return(h)
    PROVE  handler'[h] = Idle /\ \A i : ~Owns(h, i)'
  <1>1. handler'[h] = Idle
    BY DEF TypeOK, Return
  <1> QED
    BY <1>1 DEF Idle, Owns

(* Only addSOURCESGRules' NewChain makes an owner. *)
LEMMA BecomesOwner ==
    ASSUME TypeOK, NEW h \in Handlers, Work(h), NEW i \in Interfaces,
           ~Owns(h, i), Owns(h, i)'
    PROVE  /\ AddNewChain(h) /\ GoTo(h, 1, 1)
           /\ handler[h].intf = i /\ handler[h].fn = 1
           /\ getSOURCEChainName(i) \notin exists
           /\ exists' = exists \cup {getSOURCEChainName(i)}
           /\ UNCHANGED <<rules, granted>>
  <1>1. getSOURCEChainName(i) \notin exists
    BY NoNewOwner
  <1>2. handler[h].op = "add" /\ handler[h].intf = i
    BY SameRequest DEF Owns, Idle
  <1>3. handler[h].fn = 1 /\ handler[h].step = 0
    BY <1>2 DEF Owns
  <1>4. handler[h].phase = "run"
    BY <1>2, <1>3, Adding
  <1>5. AddNewChain(h)
    BY <1>2, <1>3, <1>4 DEF Work, SetupNewChain, SetupCheckRule, SetupAppend, AddInsert,
       ClearChain, DeleteChain, At
  <1>6. AddFn(h).chain = getSOURCEChainName(i)
    BY <1>2, <1>3, AddChains DEF AddFn, getSOURCEChainName, getValidChainName
  <1>7. ~Return(h)
    BY ReturnResult
  <1> QED
    BY <1>1, <1>2, <1>3, <1>5, <1>6, <1>7 DEF AddNewChain

(* An owner that goes on is not granted its link yet, and keeps its chain. *)
LEMMA OwnerGoesOn ==
    ASSUME TypeOK, NEW h \in Handlers, Work(h), NEW i \in Interfaces, Owns(h, i)',
           i \notin granted, getSOURCEChainName(i) \in exists
    PROVE  i \notin granted' /\ getSOURCEChainName(i) \in exists'
  <1>1. ~Return(h)
    BY ReturnResult
  <1> QED
    BY <1>1 DEF Work, SetupNewChain, SetupCheckRule, SetupAppend, AddNewChain, AddInsert,
       AddAdvance, ClearChain, DeleteChain, table

(* No command gives a link a second owner. *)
LEMMA WorkAlone ==
    ASSUME LinkInv, NEW h \in Handlers, Work(h)
    PROVE  OwnerAlone'
  <1>0. TypeOK
    BY DEF LinkInv
  <1> SUFFICES ASSUME NEW g \in Handlers, NEW i \in Interfaces, Owns(g, i)'
               PROVE  /\ i \notin granted' /\ getSOURCEChainName(i) \in exists'
                      /\ \A k \in Handlers : Owns(k, i)' => k = g
    BY DEF OwnerAlone, getSOURCEChainName, getValidChainName
  <1>1. \A k \in Handlers : k # h => (Owns(k, i)' <=> Owns(k, i))
    BY <1>0, OthersStay DEF Owns
  <1>2. \A k \in Handlers : Owns(k, i) =>
            /\ i \notin granted /\ getSOURCEChainName(i) \in exists
            /\ \A l \in Handlers : Owns(l, i) => l = k
    BY DEF LinkInv, OwnerAlone
  <1>3. CASE g # h
    <2>1. Owns(g, i) /\ ~Owns(h, i)
      BY <1>1, <1>2, <1>3
    <2>2. ~Owns(h, i)'
      BY <1>0, <1>2, <2>1, NoNewOwner
    <2>3. i \notin granted' /\ getSOURCEChainName(i) \in exists'
      BY <1>0, <1>2, <2>1, GrantedByOwner, SourceChainStays
    <2> QED
      BY <1>1, <1>2, <2>1, <2>2, <2>3
  <1>4. CASE g = h /\ Owns(h, i)
    <2>1. i \notin granted' /\ getSOURCEChainName(i) \in exists'
      BY <1>0, <1>2, <1>4, OwnerGoesOn
    <2> QED
      BY <1>1, <1>2, <1>4, <2>1
  <1>5. CASE g = h /\ ~Owns(h, i)
    <2>1. /\ getSOURCEChainName(i) \notin exists
          /\ exists' = exists \cup {getSOURCEChainName(i)}
          /\ granted' = granted
      BY <1>0, <1>5, BecomesOwner
    <2>2. i \notin granted
      <3>1. addFunctions(i)[1].chain = getSOURCEChainName(i)
        BY AddChains DEF getSOURCEChainName, getValidChainName
      <3> QED
        BY <2>1, <3>1 DEF LinkInv, GrantedChainsIntact
    <2>3. \A k \in Handlers : ~Owns(k, i)
      BY <1>2, <2>1
    <2> QED
      BY <1>1, <1>5, <2>1, <2>2, <2>3
  <1> QED
    BY <1>3, <1>4, <1>5

(* An inserted rule is the next one of the chain under construction. *)
LEMMA Inserted ==
    ASSUME LinkInv, NEW h \in Handlers, handler[h].op = "add", handler[h].phase = "run",
           NEW k \in 1..9, handler[h].step = k, NEW i \in Interfaces, handler[h].intf = i,
           NEW n \in 1..3, handler[h].fn = n,
           exists' = exists,
           rules' = [rules EXCEPT ![AddFn(h).chain] =
                        InsertRule(@, k, AddFn(h).rules[k])]
    PROVE  Holds(i, n, SubSeq(addFunctions(i)[n].rules, 1, k))'
  <1> DEFINE c == addFunctions(i)[n].chain
             rs == addFunctions(i)[n].rules
  <1>1. AddFn(h).chain = c /\ AddFn(h).rules = rs
    BY DEF AddFn
  <1>2. c \in Chains /\ rs \in Seq(Rules) /\ k <= Len(rs)
    BY <1>1, Adding DEF LinkInv
  <1>3. k \in 1..Len(rs)
    BY <1>2
  <1>4. c \in exists /\ rules[c] = SubSeq(rs, 1, k - 1)
    <2>1. Owns(h, i) /\ handler[h].step > 0
      BY DEF Owns
    <2>2. Holds(i, n, SubSeq(rs, 1, handler[h].step - 1))
      BY <2>1 DEF LinkInv, OwnerBuilds
    <2> QED
      BY <2>2 DEF Holds
  <1>5. rules \in [Chains -> Seq(Rules)]
    BY DEF LinkInv, TypeOK
  <1>6. InsertRule(SubSeq(rs, 1, k - 1), k, rs[k]) = SubSeq(rs, 1, k)
    BY <1>2, <1>3, InsertNext
  <1>7. rules' = [rules EXCEPT ![c] = InsertRule(@, k, rs[k])]
    BY <1>1
  <1> HIDE DEF c, rs
  <1>8. c \in exists' /\ rules'[c] = SubSeq(rs, 1, k)
    BY <1>2, <1>4, <1>5, <1>6, <1>7
  <1> QED
    BY <1>8 DEF Holds, c, rs

(* What a chain holds it holds until its owner is at its function. *)
LEMMA HoldsOn ==
    ASSUME TypeOK, NEW h \in Handlers, Work(h), NEW i \in Interfaces, NEW n \in 1..3,
           ~(Owns(h, i) /\ handler[h].fn = n), NEW rs, Holds(i, n, rs)
    PROVE  Holds(i, n, rs)'
  BY OwnChainStays DEF Holds

(* The owner after its command: what it has left behind is complete, and   *)
(* so is what it has just been at, up to its next rule.                    *)
LEMMA OwnerStep ==
    ASSUME LinkInv, NEW h \in Handlers, Work(h), NEW i \in Interfaces, Owns(h, i)',
           NEW n \in 1..3
    PROVE  LET rs == addFunctions(i)[n].rules
           IN /\ n < handler'[h].fn => Holds(i, n, rs)'
              /\ n = handler'[h].fn /\ handler'[h].step > 0 /\ handler'[h].phase = "run"
                 => \E k \in Nat : k = handler'[h].step - 1 /\ Holds(i, n, SubSeq(rs, 1, k))'
  <1> DEFINE rs == addFunctions(i)[n].rules
             Goal == /\ n < handler'[h].fn => Holds(i, n, rs)'
                     /\ n = handler'[h].fn /\ handler'[h].step > 0 /\ handler'[h].phase = "run"
                        => \E k \in Nat : k = handler'[h].step - 1
                                          /\ Holds(i, n, SubSeq(rs, 1, k))'
  <1>0. TypeOK
    BY DEF LinkInv
  <1>1. handler[h].op = "add" /\ handler[h].intf = i
    BY <1>0, SameRequest DEF Owns, Idle
  <1>2. ~Return(h)
    BY <1>0, ReturnResult
  <1>3. handler[h].fn \in 1..6 /\ handler[h].step \in 0..9
    BY <1>0, <1>1, Adding
  <1>4. rs \in Seq(Rules)
    BY AddRules
  <1>5. ASSUME n < handler[h].fn PROVE Holds(i, n, rs)'
    <2>1. Owns(h, i)
      BY <1>1, <1>5 DEF Owns
    <2>2. Holds(i, n, rs)
      BY <1>5, <2>1 DEF LinkInv, OwnerBuilds
    <2> QED
      BY <1>0, <1>5, <2>2, HoldsOn
  <1> HIDE DEF rs
  <1>6. CASE AddNewChain(h)
    <2>1. /\ GoTo(h, handler[h].fn, 1) /\ AddFn(h).chain \notin exists
          /\ exists' = exists \cup {AddFn(h).chain} /\ rules' = rules
      BY <1>2, <1>6 DEF AddNewChain, setupChainSucceeds
    <2>2. handler'[h].fn = handler[h].fn /\ handler'[h].step = 1
      BY <1>0, <2>1, GoToResult
    <2>3. ASSUME n = handler[h].fn PROVE Holds(i, n, SubSeq(rs, 1, 0))'
      <3>1. AddFn(h).chain = addFunctions(i)[n].chain
        BY <1>1, <2>3 DEF AddFn
      <3>2. rules[AddFn(h).chain] = <<>>
        BY <1>0, <1>1, <2>1, Adding DEF LinkInv, NoStrayRules
      <3>3. SubSeq(rs, 1, 0) = <<>>
        BY <1>4
      <3> QED
        BY <2>1, <3>1, <3>2, <3>3 DEF Holds
    <2> QED
      BY <1>5, <2>2, <2>3 DEF rs
  <1>7. CASE AddInsert(h)
    <2>1. handler[h].phase = "run" /\ handler[h].step > 0
      BY <1>7 DEF AddInsert, At
    <2>2. PICK k \in 1..9 : k = handler[h].step
      BY <1>3, <2>1
    <2>3. CASE handler' = [handler EXCEPT ![h].phase = "clear"]
      <3>1. handler'[h].fn = handler[h].fn /\ handler'[h].phase = "clear"
        BY <1>0, <1>1, <2>3, Adding DEF TypeOK, AddState
      <3> QED
        BY <1>5, <3>1 DEF rs
    <2>4. CASE /\ exists' = exists
               /\ rules' = [rules EXCEPT ![AddFn(h).chain] =
                               InsertRule(@, k, AddFn(h).rules[k])]
               /\ AddAdvance(h)
      <3>1. ASSUME n = handler[h].fn PROVE Holds(i, n, SubSeq(rs, 1, k))'
        BY <1>1, <2>1, <2>2, <2>4, <3>1, Inserted DEF rs
      <3>2. CASE GoTo(h, handler[h].fn, handler[h].step + 1)
        <4>1. handler'[h].fn = handler[h].fn /\ handler'[h].step = k + 1
          BY <1>0, <2>2, <3>2, GoToResult
        <4> QED
          BY <1>5, <3>1, <4>1 DEF rs
      <3>3. CASE handler[h].step = Len(AddFn(h).rules) /\ EnterAdd(h, handler[h].fn + 1)
                 /\ handler[h].fn < Len(addFunctions(handler[h].intf))
        <4> DEFINE m == handler[h].fn + 1
                   step == IF addFunctions(i)[m].creates THEN 0 ELSE 1
        <4>1. handler'[h].fn = m /\ handler'[h].step = step
          BY <1>0, <1>1, <3>3, GoToResult DEF EnterAdd
        <4>2. ASSUME n = handler[h].fn PROVE Holds(i, n, rs)'
          <5>1. k = Len(rs)
            BY <1>1, <2>2, <3>3, <4>2 DEF AddFn, rs
          <5>2. SubSeq(rs, 1, k) = rs
            BY <1>4, <5>1
          <5> QED
            BY <3>1, <4>2, <5>2
        <4>3. n = m => step = 0
          <5>1. n = 1 \/ n = 2 \/ n = 3
            OBVIOUS
          <5>2. addFunctions(i)[n].creates = TRUE
            BY <5>1, AddChains
          <5> QED
            BY <5>2
        <4> HIDE DEF step
        <4> QED
          BY <1>3, <1>5, <4>1, <4>2, <4>3 DEF rs
      <3> QED
        BY <1>2, <2>4, <3>2, <3>3 DEF AddAdvance
    <2> QED
      BY <1>7, <2>2, <2>3, <2>4 DEF AddInsert
  <1>8. CASE ClearChain(h)
    <2>1. handler'[h].fn = handler[h].fn /\ handler'[h].phase = "delete"
      BY <1>0, <1>1, <1>8, Adding DEF ClearChain, TypeOK, AddState
    <2> QED
      BY <1>5, <2>1 DEF rs
  <1>9. CASE DeleteChain(h)
    BY <1>2, <1>9 DEF DeleteChain
  <1> QED
    BY <1>1, <1>6, <1>7, <1>8, <1>9 DEF Work, SetupNewChain, SetupCheckRule, SetupAppend, At

(* No command disturbs what an owner has built. *)
LEMMA WorkBuilds ==
    ASSUME LinkInv, NEW h \in Handlers, Work(h)
    PROVE  OwnerBuilds'
  <1>0. TypeOK
    BY DEF LinkInv
  <1> SUFFICES ASSUME NEW g \in Handlers, NEW i \in Interfaces, NEW n \in 1..3, Owns(g, i)'
               PROVE  LET rs == addFunctions(i)[n].rules
                      IN /\ n < handler'[g].fn => Holds(i, n, rs)'
                         /\ n = handler'[g].fn /\ handler'[g].step > 0
                            /\ handler'[g].phase = "run"
                            => Holds(i, n, SubSeq(rs, 1, handler[g].step - 1))'
    BY DEF OwnerBuilds
  <1>1. CASE g = h
    <2>1. ASSUME NEW k \in Nat, k = handler'[h].step - 1,
                 Holds(i, n, SubSeq(addFunctions(i)[n].rules, 1, k))'
          PROVE  Holds(i, n, SubSeq(addFunctions(i)[n].rules, 1, handler[h].step - 1))'
      BY <2>1
    <2> QED
      BY <1>1, <2>1, OwnerStep
  <1>2. CASE g # h
    <2>1. handler'[g] = handler[g] /\ Owns(g, i)
      BY <1>0, <1>2, OthersStay DEF Owns
    <2>2. ~Owns(h, i)
      BY <1>2, <2>1 DEF LinkInv, OwnerAlone
    <2>3. \A rs : Holds(i, n, rs) => Holds(i, n, rs)'
      BY <1>0, <2>2, HoldsOn
    <2>4. LET rs == addFunctions(i)[n].rules
          IN /\ n < handler[g].fn => Holds(i, n, rs)
             /\ n = handler[g].fn /\ handler[g].step > 0 /\ handler[g].phase = "run"
                => Holds(i, n, SubSeq(rs, 1, handler[g].step - 1))
      BY <2>1 DEF LinkInv, OwnerBuilds
    <2>5. ASSUME Holds(i, n, SubSeq(addFunctions(i)[n].rules, 1, handler[g].step - 1))
          PROVE  Holds(i, n, SubSeq(addFunctions(i)[n].rules, 1, handler[g].step - 1))'
      <3>1. rules'[addFunctions(i)[n].chain] = rules[addFunctions(i)[n].chain]
            /\ addFunctions(i)[n].chain \in exists'
        BY <1>0, <2>2, <2>5, OwnChainStays DEF Holds
      <3> QED
        BY <2>1, <2>5, <3>1 DEF Holds
    <2> QED
      BY <2>1, <2>3, <2>4, <2>5
  <1> QED
    BY <1>1, <1>2

(* A granted link has its rules, and keeps them. *)
LEMMA WorkGranted ==
    ASSUME LinkInv, NEW h \in Handlers, Work(h)
    PROVE  GrantedChainsIntact'
  <1>0. TypeOK
    BY DEF LinkInv
  <1> SUFFICES ASSUME NEW i \in granted', NEW n \in 1..3
               PROVE  Holds(i, n, addFunctions(i)[n].rules)'
    BY DEF GrantedChainsIntact, Holds
  <1>1. i \in Interfaces
    BY <1>0, WorkType DEF TypeOK
  <1>2. CASE i \in granted
    <2>1. Holds(i, n, addFunctions(i)[n].rules)
      BY <1>2 DEF LinkInv, GrantedChainsIntact, Holds
    <2>2. ~Owns(h, i)
      BY <1>1, <1>2 DEF LinkInv, OwnerAlone
    <2> QED
      BY <1>0, <1>1, <2>1, <2>2, HoldsOn
  <1>3. CASE i \notin granted
    <2>1. Owns(h, i)
      BY <1>0, <1>1, <1>3, GrantedByOwner
    <2>2. handler[h].fn = 6
      <3>1. Len(addFunctions(handler[h].intf)) = 6
        BY <1>1, <2>1, AddChains DEF Owns
      <3> QED
        BY <1>3, <3>1 DEF Work, SetupNewChain, SetupCheckRule, SetupAppend, AddNewChain,
           AddInsert, AddAdvance, ClearChain, DeleteChain
    <2>3. Holds(i, n, addFunctions(i)[n].rules)
      BY <1>1, <2>1, <2>2 DEF LinkInv, OwnerBuilds
    <2> QED
      BY <1>0, <1>1, <2>2, <2>3, HoldsOn
  <1> QED
    BY <1>2, <1>3

(* A new request, and the death of the agent, change no chain, and make no *)
(* owner.                                                                  *)
LEMMA OthersInv ==
    ASSUME LinkInv, TypeOK', UNCHANGED <<table, granted>>,
           \A h \in Handlers, i \in Interfaces :
              Owns(h, i)' => handler'[h] = handler[h]
    PROVE  LinkInv'
  <1>1. \A h \in Handlers, i \in Interfaces : Owns(h, i)' => Owns(h, i)
    BY DEF Owns
  <1>2. exists' = exists /\ rules' = rules /\ granted' = granted
    BY DEF table
  <1>3. NoStrayRules' /\ GrantedChainsIntact'
    BY <1>2 DEF LinkInv, NoStrayRules, GrantedChainsIntact
  <1>4. OwnerAlone'
    BY <1>1, <1>2 DEF LinkInv, OwnerAlone, getSOURCEChainName, getValidChainName
  <1>5. OwnerBuilds'
    BY <1>1, <1>2 DEF LinkInv, OwnerBuilds, Holds
  <1> QED
    BY <1>3, <1>4, <1>5 DEF LinkInv

(* No link has an owner at first. *)
LEMMA InitLinks == Init => LinkInv
  <1> SUFFICES ASSUME Init PROVE LinkInv
    OBVIOUS
  <1>1. TypeOK
    BY InitType
  <1>2. \A h \in Handlers, i \in Interfaces : ~Owns(h, i)
    BY DEF Init, Owns, Idle
  <1>3. NoStrayRules /\ GrantedChainsIntact
    BY DEF Init, NoStrayRules, GrantedChainsIntact
  <1> QED
    BY <1>1, <1>2, <1>3 DEF LinkInv, OwnerAlone, OwnerBuilds

(* Every step keeps the links in the hands of their owners. *)
LEMMA NextLinks == LinkInv /\ [Next]_vars => LinkInv'
  <1> SUFFICES ASSUME LinkInv, [Next]_vars PROVE LinkInv'
    OBVIOUS
  <1>0. TypeOK /\ TypeOK'
    BY NextType DEF LinkInv
  <1>1. CASE UNCHANGED vars
    BY <1>0, <1>1, OthersInv DEF vars, table
  <1>2. ASSUME NEW h \in Handlers, Work(h) PROVE LinkInv'
    BY <1>0, <1>2, WorkStray, WorkAlone, WorkBuilds, WorkGranted DEF LinkInv
  <1>3. ASSUME NEW h \in Handlers, NEW op, NEW j, Begin(h, op, j),
               UNCHANGED <<table, granted>>
        PROVE  LinkInv'
    <2>1. ASSUME NEW g \in Handlers, NEW i \in Interfaces, Owns(g, i)'
          PROVE  handler'[g] = handler[g]
      BY <1>0, <1>3, <2>1 DEF Begin, Owns, TypeOK
    <2> QED
      BY <1>0, <1>3, <2>1, OthersInv
  <1>4. CASE AgentRestart
    <2>1. \A h \in Handlers, i \in Interfaces : ~Owns(h, i)'
      BY <1>4 DEF AgentRestart, Owns, Idle
    <2> QED
      BY <1>0, <1>4, <2>1, OthersInv DEF AgentRestart, table
  <1> QED
    BY <1>1, <1>2, <1>3, <1>4 DEF Next, SetupDefaultSecurityGroup, AddSecurityGroup

(* Whatever clients ask for, and whatever fails or dies meanwhile: a link  *)
(* whose AddSecurityGroup succeeded keeps its own chains with exactly      *)
(* their rules.                                                            *)
THEOREM GrantedLinksIntact == Spec => []GrantedChainsIntact
  <1>1. LinkInv => GrantedChainsIntact
    BY DEF LinkInv
  <1> QED
    BY <1>1, InitLinks, NextLinks, PTL DEF Spec

------------------------------------------------------------------------------
(* Hooks *)

(* A goroutine that has got past the first command of setupSGFallback: it  *)
(* is the only one, for the fallback chain exists and nobody deletes it.   *)
SetsUp(h) ==
    /\ handler[h].op = "setup"
    /\ handler[h].fn # 1 \/ handler[h].step # 0

SetupAlone ==
    \A h \in Handlers : SetsUp(h) =>
        /\ chainCallistoSGFallback \in exists
        /\ \A g \in Handlers : SetsUp(g) => g = h

(* A built-in chain is empty until the setup gets to its function. *)
HooksAhead ==
    /\ chainCallistoSGFallback \notin exists =>
          rules[chainINPUT] = <<>> /\ rules[chainFORWARD] = <<>>
    /\ \A h \in Handlers : SetsUp(h) =>
          /\ handler[h].fn <= 3 => rules[chainINPUT] = <<>>
          /\ rules[chainFORWARD] = <<>>

HookInv == TypeOK /\ SetupAlone /\ HooksAhead /\ HooksUnique

(* The chains of setupFunctions. *)
LEMMA SetupTable ==
    /\ setupFunctions[1].chain = chainCallistoSGFallback
    /\ setupFunctions[1].into = chainCallistoSGFallback
    /\ setupFunctions[2].into = chainCallistoSG
    /\ setupFunctions[3].into = chainINPUT
    /\ setupFunctions[4].into = chainFORWARD
    /\ Len(setupFunctions) = 4
  BY DEF setupFunctions, SetupFunction

(* The named chains are different ones. *)
LEMMA ChainNames ==
    /\ chainINPUT # chainFORWARD
    /\ chainCallistoSG # chainCallistoSGFallback
    /\ chainCallistoFORWARD # chainCallistoSGFallback
    /\ chainINPUT \notin SharedChains \cup LinkChains
    /\ chainFORWARD \notin SharedChains \cup LinkChains
    /\ chainCallistoSGFallback \notin LinkChains /\ chainCallistoSG \notin LinkChains
    /\ {chainCallistoSGFallback, chainCallistoSG} \subseteq SharedChains
    /\ {chainINPUT, chainFORWARD, chainCallistoSG} \subseteq Chains
  BY DEF chainINPUT, chainFORWARD, chainCallistoSG, chainCallistoSGFallback,
     chainCallistoINPUT, chainCallistoFORWARD, SharedChains, LinkChains, Chains, BuiltinChains

(* Which shared chains an AddSecurityGroup works on. *)
LEMMA AddSharedChains ==
    ASSUME NEW i \in Interfaces
    PROVE  /\ addFunctions(i)[4].chain = chainCallistoSG
           /\ addFunctions(i)[5].chain = chainCallistoFORWARD
           /\ addFunctions(i)[6].chain = chainCallistoFORWARD
  BY DEF addFunctions, AddFunction, addSGRules, addINPUTRules, addFORWARDRules

(* The fallback chain stays. *)
LEMMA FallbackStays ==
    ASSUME TypeOK, NEW h \in Handlers, Work(h), chainCallistoSGFallback \in exists
    PROVE  chainCallistoSGFallback \in exists'
  <1>1. CASE DeleteChain(h)
    <2>1. handler[h].op = "add"
      BY <1>1 DEF DeleteChain, At
    <2>2. handler[h].intf \in Interfaces /\ handler[h].fn \in 1..6
      BY <2>1, Adding
    <2>3. AddFn(h).chain # chainCallistoSGFallback
      <3>1. CASE handler[h].fn \in 1..3
        BY <2>2, <3>1, OwnChains, ChainNames DEF AddFn
      <3>2. CASE handler[h].fn = 4 \/ handler[h].fn = 5 \/ handler[h].fn = 6
        BY <2>2, <3>2, AddSharedChains, ChainNames DEF AddFn
      <3> QED
        BY <2>2, <3>1, <3>2
    <2> QED
      BY <1>1, <2>3 DEF DeleteChain
  <1>2. CASE ~DeleteChain(h)
    BY <1>2 DEF Work, SetupNewChain, SetupCheckRule, SetupAppend, AddNewChain, AddInsert,
       ClearChain, table
  <1> QED
    BY <1>1, <1>2

(* While it is there nobody starts to set up. *)
LEMMA NoNewSetup ==
    ASSUME TypeOK, NEW h \in Handlers, Work(h), ~SetsUp(h), SetsUp(h)'
    PROVE  chainCallistoSGFallback \notin exists
           /\ SetupNewChain(h) /\ handler'[h].fn = 1
           /\ chainCallistoSGFallback \in exists'
  <1>1. handler[h].op = "setup"
    BY SameRequest DEF SetsUp, Idle
  <1>2. handler[h].fn = 1 /\ handler[h].step = 0
    BY <1>1 DEF SetsUp
  <1>3. SetupNewChain(h)
    BY <1>1, <1>2 DEF Work, SetupCheckRule, SetupAppend, AddNewChain, AddInsert, ClearChain,
       DeleteChain, At
  <1>4. ~Return(h)
    BY ReturnResult DEF SetsUp, Idle
  <1>5. GoTo(h, 1, 1) /\ SetupFn(h).chain \notin exists /\ exists' = exists \cup {SetupFn(h).chain}
    BY <1>2, <1>3, <1>4 DEF SetupNewChain, setupChainSucceeds
  <1> QED
    BY <1>2, <1>3, <1>5, GoToResult, SetupTable DEF SetupFn

(* No command brings a second one to set up. *)
LEMMA WorkSetupAlone ==
    ASSUME TypeOK, SetupAlone, NEW h \in Handlers, Work(h)
    PROVE  SetupAlone'
  <1>1. \A k \in Handlers : k # h => (SetsUp(k)' <=> SetsUp(k))
    BY OthersStay DEF SetsUp
  <1>2. chainCallistoSGFallback \in exists => chainCallistoSGFallback \in exists'
    BY FallbackStays
  <1>3. CASE SetsUp(h) \/ ~SetsUp(h)'
    BY <1>1, <1>2, <1>3 DEF SetupAlone, chainCallistoSGFallback
  <1>4. CASE ~SetsUp(h) /\ SetsUp(h)'
    BY <1>1, <1>2, <1>4, NoNewSetup DEF SetupAlone, chainCallistoSGFallback
  <1> QED
    BY <1>3, <1>4

(* A built-in chain changes only by the setup that appends its hook. *)
LEMMA BuiltinStays ==
    ASSUME TypeOK, NEW h \in Handlers, Work(h), NEW c \in {chainINPUT, chainFORWARD}
    PROVE  \/ rules'[c] = rules[c]
           \/ /\ SetupAppend(h) /\ SetupFn(h).into = c
              /\ rules' = [rules EXCEPT ![c] = Append(@, SetupFn(h).rule)]
              /\ SetupAdvance(h)
  <1>0. rules \in [Chains -> Seq(Rules)] /\ c \in Chains /\ c \notin SharedChains \cup LinkChains
    BY ChainNames DEF TypeOK
  <1>1. handler[h].op = "add" => AddFn(h).chain # c
    BY <1>0, Adding
  <1>2. CASE SetupAppend(h)
    BY <1>0, <1>2 DEF SetupAppend
  <1>3. CASE AddInsert(h) \/ ClearChain(h)
    BY <1>0, <1>1, <1>3 DEF AddInsert, ClearChain, At
  <1>4. CASE ~SetupAppend(h) /\ ~AddInsert(h) /\ ~ClearChain(h)
    BY <1>4 DEF Work, SetupNewChain, SetupCheckRule, AddNewChain, DeleteChain, table
  <1> QED
    BY <1>2, <1>3, <1>4

(* Where a setup is after its command. *)
LEMMA SetupMoves ==
    ASSUME TypeOK, NEW h \in Handlers, Work(h), SetsUp(h), SetsUp(h)'
    PROVE  /\ handler[h].fn \in 1..4 /\ handler'[h].fn \in 1..4
           /\ \/ handler'[h].fn = handler[h].fn
              \/ handler'[h].fn = handler[h].fn + 1 /\ SetupAdvance(h)
           /\ handler'[h].fn = handler[h].fn => ~SetupAdvance(h)
  <1>0. handler[h].op = "setup" /\ handler[h].fn \in 1..4 /\ handler[h].step \in 0..2
    BY SettingUp DEF SetsUp
  <1>1. ~Return(h)
    BY ReturnResult DEF SetsUp, Idle
  <1>2. ASSUME SetupAdvance(h) PROVE handler'[h].fn = handler[h].fn + 1 /\ handler[h].fn < 4
    BY <1>1, <1>2, GoToResult, SetupTable DEF SetupAdvance
  <1>3. \A step : GoTo(h, handler[h].fn, step) => handler'[h].fn = handler[h].fn
    BY GoToResult
  <1>4. handler'[h].fn = handler[h].fn \/ SetupAdvance(h)
    BY <1>0, <1>1, <1>3 DEF Work, SetupNewChain, SetupCheckRule, SetupAppend, AddNewChain,
       AddInsert, ClearChain, DeleteChain, At
  <1> QED
    BY <1>0, <1>2, <1>4

(* No command hooks a chain twice. *)
LEMMA WorkHooks ==
    ASSUME HookInv, NEW h \in Handlers, Work(h)
    PROVE  HooksAhead' /\ HooksUnique'
  <1>0. TypeOK /\ rules \in [Chains -> Seq(Rules)] /\ chainINPUT \in Chains /\ chainFORWARD \in Chains
    BY ChainNames DEF HookInv, TypeOK
  <1>a. \A k \in Handlers : k # h => (SetsUp(k)' <=> SetsUp(k)) /\ handler'[k] = handler[k]
    BY <1>0, OthersStay DEF SetsUp
  <1>b. ASSUME SetupAppend(h), SetupFn(h).into \in {chainINPUT, chainFORWARD}
        PROVE  /\ SetsUp(h) /\ chainCallistoSGFallback \in exists'
               /\ \A k \in Handlers : k # h => ~SetsUp(k)'
               /\ SetupFn(h).into = chainINPUT => handler[h].fn = 3
               /\ SetupFn(h).into = chainFORWARD => handler[h].fn = 4
               /\ rules[SetupFn(h).into] = <<>>
    <2>1. SetsUp(h) /\ handler[h].fn \in 1..4
      BY <1>0, <1>b, SettingUp DEF SetupAppend, At, SetsUp
    <2>2. /\ SetupFn(h).into = chainINPUT => handler[h].fn = 3
          /\ SetupFn(h).into = chainFORWARD => handler[h].fn = 4
      BY <1>b, <2>1, SetupTable, ChainNames DEF SetupFn
    <2>3. rules[SetupFn(h).into] = <<>>
      BY <1>b, <2>1, <2>2 DEF HookInv, HooksAhead
    <2>4. chainCallistoSGFallback \in exists'
      BY <1>0, <2>1, FallbackStays DEF HookInv, SetupAlone
    <2> QED
      BY <1>a, <2>1, <2>2, <2>3, <2>4 DEF HookInv, SetupAlone
  <1>1. HooksUnique'
    <2> SUFFICES ASSUME NEW c \in {chainINPUT, chainFORWARD} PROVE Len(rules'[c]) <= 1
      BY DEF HooksUnique, BuiltinChains, chainINPUT, chainFORWARD
    <2>1. CASE rules'[c] = rules[c]
      BY <2>1 DEF HookInv, HooksUnique, BuiltinChains
    <2>2. CASE SetupAppend(h) /\ SetupFn(h).into = c
               /\ rules' = [rules EXCEPT ![c] = Append(@, SetupFn(h).rule)]
      <3>1. rules[c] = <<>>
        BY <1>b, <2>2
      <3>2. rules'[c] = <<SetupFn(h).rule>>
        BY <1>0, <2>2, <3>1
      <3> QED
        BY <3>2
    <2> QED
      BY <1>0, <2>1, <2>2, BuiltinStays
  <1>2. ASSUME chainCallistoSGFallback \notin exists'
        PROVE  rules'[chainINPUT] = <<>> /\ rules'[chainFORWARD] = <<>>
    <2>1. chainCallistoSGFallback \notin exists
      BY <1>0, <1>2, FallbackStays
    <2> QED
      BY <1>0, <1>2, <1>b, <2>1, BuiltinStays DEF HookInv, HooksAhead
  <1>3. ASSUME NEW k \in Handlers, SetsUp(k)'
        PROVE  /\ handler'[k].fn <= 3 => rules'[chainINPUT] = <<>>
               /\ rules'[chainFORWARD] = <<>>
    <2>1. CASE k # h
      <3>1. SetsUp(k) /\ handler'[k] = handler[k]
        BY <1>3, <1>a, <2>1
      <3>2. \A c \in {chainINPUT, chainFORWARD} : rules'[c] = rules[c]
        BY <1>0, <1>3, <1>b, <2>1, BuiltinStays
      <3> QED
        BY <3>1, <3>2 DEF HookInv, HooksAhead
    <2>2. CASE k = h /\ ~SetsUp(h)
      <3>1. chainCallistoSGFallback \notin exists /\ SetupNewChain(h)
        BY <1>0, <1>3, <2>2, NoNewSetup
      <3> QED
        BY <3>1 DEF SetupNewChain, HookInv, HooksAhead
    <2>3. CASE k = h /\ SetsUp(h)
      <3>1. /\ handler[h].fn \in 1..4 /\ handler'[h].fn \in 1..4
            /\ \/ handler'[h].fn = handler[h].fn /\ ~SetupAdvance(h)
               \/ handler'[h].fn = handler[h].fn + 1
        BY <1>0, <1>3, <2>3, SetupMoves
      <3>2. rules'[chainFORWARD] = <<>>
        <4>1. ~(SetupAppend(h) /\ SetupFn(h).into = chainFORWARD /\ SetupAdvance(h))
          BY <1>b, <3>1
        <4> QED
          BY <1>0, <2>3, <4>1, BuiltinStays DEF HookInv, HooksAhead
      <3>3. ASSUME handler'[h].fn <= 3 PROVE rules'[chainINPUT] = <<>>
        <4>1. ~(SetupAppend(h) /\ SetupFn(h).into = chainINPUT /\ SetupAdvance(h))
          BY <1>b, <3>1, <3>3
        <4>2. handler[h].fn <= 3
          BY <3>1, <3>3
        <4> QED
          BY <1>0, <2>3, <4>1, <4>2, BuiltinStays DEF HookInv, HooksAhead
      <3> QED
        BY <2>3, <3>2, <3>3
    <2> QED
      BY <2>1, <2>2, <2>3
  <1> QED
    BY <1>1, <1>2, <1>3 DEF HooksAhead, chainCallistoSGFallback, chainINPUT, chainFORWARD

(* No hook is there at first. *)
LEMMA InitHooks == Init => HookInv
  <1> SUFFICES ASSUME Init PROVE HookInv
    OBVIOUS
  <1>1. \A h \in Handlers : ~SetsUp(h)
    BY DEF Init, SetsUp, Idle
  <1>2. \A c \in Chains : rules[c] = <<>>
    BY DEF Init
  <1>3. HooksUnique
    BY <1>2 DEF HooksUnique, Chains
  <1>4. HooksAhead
    BY <1>1, <1>2, ChainNames DEF HooksAhead
  <1> QED
    BY <1>1, <1>3, <1>4, InitType DEF HookInv, SetupAlone

(* Every step that is no command leaves the setup where it is or ends it. *)
LEMMA NoCommand ==
    ASSUME TypeOK, [Next]_vars, \A h \in Handlers : ~Work(h)
    PROVE  /\ UNCHANGED <<table, granted, wiped>>
           /\ \A h \in Handlers :
                 /\ handler'[h] # handler[h] /\ handler'[h] # Idle
                       => handler'[h].fn = 1 /\ handler'[h].step = 0
                 /\ SetsUp(h)' => SetsUp(h) /\ handler'[h] = handler[h]
  <1>1. CASE UNCHANGED vars
    BY <1>1 DEF vars, table, SetsUp
  <1>2. ASSUME NEW g \in Handlers, NEW op, NEW j, Begin(g, op, j),
               UNCHANGED <<table, granted, wiped>>
        PROVE  /\ UNCHANGED <<table, granted, wiped>>
               /\ \A h \in Handlers :
                     /\ handler'[h] # handler[h] /\ handler'[h] # Idle
                           => handler'[h].fn = 1 /\ handler'[h].step = 0
                     /\ SetsUp(h)' => SetsUp(h) /\ handler'[h] = handler[h]
    BY <1>2 DEF Begin, TypeOK, SetsUp
  <1>3. CASE AgentRestart
    BY <1>3 DEF AgentRestart, SetsUp, Idle
  <1> QED
    BY <1>1, <1>2, <1>3 DEF Next, SetupDefaultSecurityGroup, AddSecurityGroup

(* Every step keeps the hooks unique. *)
LEMMA NextHooks == HookInv /\ [Next]_vars => HookInv'
  <1> SUFFICES ASSUME HookInv, [Next]_vars PROVE HookInv'
    OBVIOUS
  <1>0. TypeOK /\ TypeOK'
    BY NextType DEF HookInv
  <1>1. ASSUME NEW h \in Handlers, Work(h) PROVE HookInv'
    BY <1>0, <1>1, WorkSetupAlone, WorkHooks DEF HookInv
  <1>2. CASE \A h \in Handlers : ~Work(h)
    <2>1. /\ exists' = exists /\ rules' = rules
          /\ \A h \in Handlers : SetsUp(h)' => SetsUp(h) /\ handler'[h] = handler[h]
      BY <1>0, <1>2, NoCommand DEF table
    <2>2. SetupAlone'
      BY <2>1 DEF HookInv, SetupAlone, chainCallistoSGFallback
    <2>3. HooksAhead'
      BY <2>1 DEF HookInv, HooksAhead, chainCallistoSGFallback, chainINPUT, chainFORWARD
    <2>4. HooksUnique'
      BY <2>1 DEF HookInv, HooksUnique
    <2> QED
      BY <1>0, <2>2, <2>3, <2>4 DEF HookInv
  <1> QED
    BY <1>1, <1>2

(* INPUT and FORWARD are hooked at most once, however many setups overlap: *)
(* setupSGFallbackChain lets only the first of them through.               *)
THEOREM HooksOnce == Spec => []HooksUnique
  <1>1. HookInv => HooksUnique
    BY DEF HookInv
  <1> QED
    BY <1>1, InitHooks, NextHooks, PTL DEF Spec

------------------------------------------------------------------------------
(* The ACCEPT rule *)

Accepts(r) == r.target = actionACCEPT

(* No setup that may still append the ACCEPT rule finds one. *)
AcceptAhead ==
    /\ chainCallistoSGFallback \notin exists =>
          \A j \in DOMAIN rules[chainCallistoSG] : ~Accepts(rules[chainCallistoSG][j])
    /\ \A h \in Handlers : SetsUp(h) /\ handler[h].fn <= 2 =>
          \A j \in DOMAIN rules[chainCallistoSG] : ~Accepts(rules[chainCallistoSG][j])

(* A goroutine about to insert its second rule finds its first, or those   *)
(* that others inserted meanwhile, in front of the ACCEPT rule.            *)
JumpInFront ==
    chainCallistoSG \notin wiped =>
        \A h \in Handlers :
            /\ handler[h].op = "add" /\ handler[h].phase = "run"
            /\ handler[h].fn = 4 /\ handler[h].step = 2
            => \E j \in DOMAIN rules[chainCallistoSG] : ~Accepts(rules[chainCallistoSG][j])

AcceptInv == TypeOK /\ SetupAlone /\ AcceptAhead /\ JumpInFront /\ AcceptIsLast

(* The rules of addSGRules jump, and there are two. *)
LEMMA SGRules ==
    ASSUME NEW i \in Interfaces
    PROVE  /\ Len(addFunctions(i)[4].rules) = 2
           /\ \A k \in 1..2 : ~Accepts(addFunctions(i)[4].rules[k])
           /\ addFunctions(i)[4].creates = FALSE
  <1>1. addFunctions(i)[4] = addSGRules(i)
    BY DEF addFunctions
  <1>2. /\ Len(addSGRules(i).rules) = 2
        /\ addSGRules(i).rules[1].target = getINPUTChainName(i)
        /\ addSGRules(i).rules[2].target = getOUTPUTChainName(i)
        /\ addSGRules(i).creates = FALSE
    BY DEF addSGRules, AddFunction, Rule
  <1>3. getINPUTChainName(i) # actionACCEPT /\ getOUTPUTChainName(i) # actionACCEPT
    BY DEF getINPUTChainName, getOUTPUTChainName, getValidChainName, actionACCEPT
  <1> QED
    BY <1>1, <1>2, <1>3 DEF Accepts

(* Where the rules are after an insertion. *)
LEMMA InsertElements ==
    ASSUME NEW rs \in Seq(Rules), NEW k \in 1..(Len(rs) + 1), NEW r \in Rules
    PROVE  /\ InsertRule(rs, k, r) \in Seq(Rules)
           /\ Len(InsertRule(rs, k, r)) = Len(rs) + 1
           /\ \A j \in 1..(Len(rs) + 1) :
                 InsertRule(rs, k, r)[j] = IF j < k THEN rs[j] ELSE IF j = k THEN r ELSE rs[j - 1]
  <1> DEFINE p == SubSeq(rs, 1, k - 1)
             q == SubSeq(rs, k, Len(rs))
             new == InsertRule(rs, k, r)
  <1>1. /\ p \in Seq(Rules) /\ Len(p) = k - 1
        /\ \A j \in 1..(k - 1) : p[j] = rs[j]
    OBVIOUS
  <1>2. /\ q \in Seq(Rules) /\ Len(q) = Len(rs) - k + 1
        /\ \A j \in 1..(Len(rs) - k + 1) : q[j] = rs[j + k - 1]
    OBVIOUS
  <1> DEFINE n == Len(rs) - k + 1
  <1>n. n \in Nat /\ k + n = Len(rs) + 1
    OBVIOUS
  <1>q. q \in Seq(Rules) /\ Len(q) = n /\ \A j \in 1..n : q[j] = rs[j + k - 1]
    BY <1>2
  <1> HIDE DEF p, q, n
  <1> DEFINE s == p \o <<r>>
  <1>3. /\ s \in Seq(Rules) /\ Len(s) = k
        /\ \A j \in 1..k : s[j] = IF j < k THEN rs[j] ELSE r
    BY <1>1
  <1>4. new = s \o q
    BY DEF InsertRule, InsertAt, p, q
  <1> HIDE DEF s, new
  <1>5. new \in Seq(Rules) /\ Len(new) = k + n
    <2>1. s \in Seq(Rules) /\ q \in Seq(Rules)
      BY <1>3, <1>q
    <2>2. new \in Seq(Rules) /\ Len(new) = Len(s) + Len(q)
      BY <1>4, <2>1
    <2> QED
      BY <1>3, <1>q, <2>2
  <1>6. ASSUME NEW j \in 1..(Len(rs) + 1), j <= k
        PROVE  new[j] = IF j < k THEN rs[j] ELSE r
    BY <1>3, <1>4, <1>q, <1>6, <1>n
  <1>7. ASSUME NEW j \in 1..(Len(rs) + 1), j > k
        PROVE  new[j] = rs[j - 1]
    <2>1. j - k \in 1..n
      BY <1>7, <1>n
    <2>2. new[j] = q[j - k]
      BY <1>3, <1>4, <1>q, <1>7, <1>n, <2>1
    <2>3. q[j - k] = rs[(j - k) + k - 1]
      BY <1>q, <2>1
    <2> QED
      BY <2>2, <2>3
  <1> QED
    BY <1>5, <1>6, <1>7, <1>n DEF new

(* The commands that change the security group chain. *)
LEMMA SGChanges ==
    ASSUME TypeOK, NEW h \in Handlers, Work(h)
    PROVE  /\ wiped \subseteq wiped'
           /\ LET rs == rules[chainCallistoSG]
                  new == rules'[chainCallistoSG]
              IN \/ new = rs
                 \/ /\ SetsUp(h) /\ handler[h].fn = 2 /\ SetupAdvance(h)
                    /\ \E r \in Rules : new = Append(rs, r)
                 \/ /\ At(h, "add", "run") /\ handler[h].fn = 4
                    /\ \E k \in 1..2, r \in Rules :
                          /\ handler[h].step = k /\ k <= Len(rs) + 1 /\ ~Accepts(r)
                          /\ new = InsertRule(rs, k, r)
                 \/ new = <<>> /\ chainCallistoSG \in wiped'
  <1> DEFINE sg == chainCallistoSG
             Goal == \/ rules'[sg] = rules[sg]
                     \/ /\ SetsUp(h) /\ handler[h].fn = 2 /\ SetupAdvance(h)
                        /\ \E r \in Rules : rules'[sg] = Append(rules[sg], r)
                     \/ /\ At(h, "add", "run") /\ handler[h].fn = 4
                        /\ \E k \in 1..2, r \in Rules :
                              /\ handler[h].step = k /\ k <= Len(rules[sg]) + 1 /\ ~Accepts(r)
                              /\ rules'[sg] = InsertRule(rules[sg], k, r)
                     \/ rules'[sg] = <<>> /\ sg \in wiped'
  <1>0. /\ rules \in [Chains -> Seq(Rules)] /\ sg \in Chains /\ sg \in SharedChains
        /\ sg \notin LinkChains
    BY ChainNames DEF TypeOK
  <1>w. wiped \subseteq wiped'
    BY DEF Work, SetupNewChain, SetupCheckRule, SetupAppend, AddNewChain, AddInsert,
       ClearChain, DeleteChain
  <1> SUFFICES Goal
    BY <1>w
  <1>1. CASE SetupAppend(h)
    <2>1. SetsUp(h) /\ handler[h].fn \in 1..4 /\ SetupFn(h).rule \in Rules
      BY <1>1, SettingUp DEF SetupAppend, At, SetsUp
    <2>2. CASE rules' = [rules EXCEPT ![SetupFn(h).into] = Append(@, SetupFn(h).rule)]
               /\ SetupAdvance(h)
      <3>1. CASE SetupFn(h).into = sg
        <4>1. handler[h].fn = 2
          <5>1. handler[h].fn = 1 \/ handler[h].fn = 2 \/ handler[h].fn = 3 \/ handler[h].fn = 4
            BY <2>1
          <5>2. sg # chainINPUT /\ sg # chainFORWARD /\ sg # chainCallistoSGFallback
            BY <1>0, ChainNames
          <5> QED
            BY <3>1, <5>1, <5>2, SetupTable DEF SetupFn
        <4>2. rules'[sg] = Append(rules[sg], SetupFn(h).rule)
          BY <1>0, <2>2, <3>1
        <4> QED
          BY <2>1, <2>2, <4>1, <4>2
      <3>2. CASE SetupFn(h).into # sg
        BY <1>0, <2>2, <3>2
      <3> QED
        BY <3>1, <3>2
    <2>3. CASE rules' = rules
      BY <2>3
    <2> QED
      BY <1>1, <2>2, <2>3 DEF SetupAppend
  <1>2. CASE AddInsert(h)
    <2>1. handler[h].op = "add" /\ At(h, "add", "run") /\ handler[h].step > 0
      BY <1>2 DEF AddInsert, At
    <2>2. /\ handler[h].intf \in Interfaces /\ handler[h].fn \in 1..6 /\ handler[h].step \in 0..9
          /\ handler[h].step <= Len(AddFn(h).rules) /\ AddFn(h).rules \in Seq(Rules)
      BY <2>1, Adding
    <2> DEFINE k == handler[h].step
               r == AddFn(h).rules[k]
    <2>3. CASE AddFn(h).chain = sg /\ CanInsert(sg, k, r)
               /\ rules' = [rules EXCEPT ![sg] = InsertRule(@, k, r)]
      <3>1. handler[h].fn = 4
        <4>1. handler[h].fn \notin 1..3
          BY <1>0, <2>2, <2>3, OwnChains DEF AddFn
        <4>2. handler[h].fn # 5 /\ handler[h].fn # 6
          <5>1. sg # chainCallistoFORWARD
            BY DEF chainCallistoFORWARD, chainCallistoSG
          <5> QED
            BY <2>2, <2>3, <5>1, AddSharedChains DEF AddFn
        <4> QED
          BY <2>2, <4>1, <4>2
      <3>2. Len(AddFn(h).rules) = 2 /\ \A n \in 1..2 : ~Accepts(AddFn(h).rules[n])
        BY <2>2, <3>1, SGRules DEF AddFn
      <3>3. k \in 1..2
        BY <2>1, <2>2, <3>2
      <3>4. r \in Rules /\ ~Accepts(r)
        BY <2>2, <3>2, <3>3
      <3>5. k <= Len(rules[sg]) + 1
        BY <2>3 DEF CanInsert
      <3>6. rules'[sg] = InsertRule(rules[sg], k, r)
        BY <1>0, <2>3
      <3> HIDE DEF r
      <3> QED
        BY <2>1, <3>1, <3>3, <3>4, <3>5, <3>6
    <2>4. CASE AddFn(h).chain # sg \/ rules' = rules
      BY <1>0, <1>2, <2>4 DEF AddInsert
    <2> QED
      BY <1>2, <2>3, <2>4 DEF AddInsert
  <1>3. CASE ClearChain(h)
    <2>1. CASE AddFn(h).chain = sg
      BY <1>0, <1>3, <2>1 DEF ClearChain
    <2>2. CASE AddFn(h).chain # sg
      BY <1>0, <1>3, <2>2 DEF ClearChain
    <2> QED
      BY <2>1, <2>2
  <1>4. CASE ~SetupAppend(h) /\ ~AddInsert(h) /\ ~ClearChain(h)
    BY <1>4 DEF Work, SetupNewChain, SetupCheckRule, AddNewChain, DeleteChain, table
  <1> HIDE DEF Goal
  <1> QED
    BY <1>1, <1>2, <1>3, <1>4

(* Only its own first insertion brings a goroutine to its second. *)
LEMMA SecondInsert ==
    ASSUME TypeOK, NEW h \in Handlers, Work(h), handler'[h].op = "add",
           handler'[h].phase = "run", handler'[h].fn = 4, handler'[h].step = 2
    PROVE  \E r \in Rules :
              /\ ~Accepts(r) /\ rules[chainCallistoSG] \in Seq(Rules)
              /\ rules'[chainCallistoSG] = InsertRule(rules[chainCallistoSG], 1, r)
  <1>0. ~Return(h)
    BY ReturnResult DEF Idle
  <1>1. handler[h].op = "add"
    BY SameRequest DEF Idle
  <1>2. /\ handler[h].intf \in Interfaces /\ handler[h].fn \in 1..6 /\ handler[h].step \in 0..9
        /\ AddFn(h).rules \in Seq(Rules) /\ handler[h].step <= Len(AddFn(h).rules)
    BY <1>1, Adding
  <1>3. ~AddNewChain(h)
    BY <1>0, GoToResult DEF AddNewChain
  <1>4. ~ClearChain(h) /\ ~DeleteChain(h)
    BY <1>0, <1>1, Adding DEF ClearChain, DeleteChain, TypeOK, AddState
  <1>5. AddInsert(h)
    BY <1>1, <1>3, <1>4 DEF Work, SetupNewChain, SetupCheckRule, SetupAppend, At
  <1>6. handler' # [handler EXCEPT ![h].phase = "clear"]
    BY <1>1, Adding DEF TypeOK, AddState
  <1>7. /\ rules' = [rules EXCEPT ![AddFn(h).chain] =
                        InsertRule(@, handler[h].step, AddFn(h).rules[handler[h].step])]
        /\ AddAdvance(h)
    BY <1>5, <1>6 DEF AddInsert
  <1>8. ~EnterAdd(h, handler[h].fn + 1)
    BY GoToResult DEF EnterAdd
  <1>9. GoTo(h, handler[h].fn, handler[h].step + 1)
    BY <1>0, <1>7, <1>8 DEF AddAdvance
  <1>10. handler[h].fn = 4 /\ handler[h].step = 1
    BY <1>2, <1>9, GoToResult
  <1>11. AddFn(h).chain = chainCallistoSG /\ AddFn(h) = addFunctions(handler[h].intf)[4]
    BY <1>2, <1>10, AddSharedChains DEF AddFn
  <1>12. AddFn(h).rules[1] \in Rules /\ ~Accepts(AddFn(h).rules[1])
    <2>1. Len(AddFn(h).rules) = 2 /\ \A k \in 1..2 : ~Accepts(AddFn(h).rules[k])
      BY <1>2, <1>11, SGRules
    <2> QED
      BY <1>2, <2>1
  <1>13. rules \in [Chains -> Seq(Rules)] /\ chainCallistoSG \in Chains
    BY ChainNames DEF TypeOK
  <1> QED
    BY <1>7, <1>10, <1>11, <1>12, <1>13

(* None, some and all but the last of these rules do not accept. *)
NoAccept(rs) == \A j \in DOMAIN rs : ~Accepts(rs[j])
SomeJump(rs) == \E j \in DOMAIN rs : ~Accepts(rs[j])
AcceptLast(rs) == \A j \in DOMAIN rs : Accepts(rs[j]) => j = Len(rs)

(* An inserted jump stays in front of the ACCEPT rule. *)
LEMMA InsertedJump ==
    ASSUME NEW rs \in Seq(Rules), NEW k \in 1..(Len(rs) + 1), NEW r \in Rules, ~Accepts(r)
    PROVE  /\ NoAccept(rs) => NoAccept(InsertRule(rs, k, r))
           /\ SomeJump(InsertRule(rs, k, r))
           /\ AcceptLast(rs) /\ (k = 1 \/ (k = 2 /\ SomeJump(rs)))
              => AcceptLast(InsertRule(rs, k, r))
  <1> DEFINE new == InsertRule(rs, k, r)
             n == Len(rs)
  <1>0. n \in Nat /\ k \in 1..(n + 1)
    OBVIOUS
  <1>1. /\ new \in Seq(Rules) /\ Len(new) = n + 1
        /\ \A j \in 1..(n + 1) :
              new[j] = IF j < k THEN rs[j] ELSE IF j = k THEN r ELSE rs[j - 1]
    BY InsertElements
  <1>2. DOMAIN new = 1..(n + 1) /\ DOMAIN rs = 1..n
    BY <1>1
  <1> HIDE DEF new, n
  <1>3. ASSUME NoAccept(rs), NEW j \in 1..(n + 1) PROVE ~Accepts(new[j])
    <2>1. CASE j < k
      <3>1. j \in 1..n /\ new[j] = rs[j]
        BY <1>0, <1>1, <2>1
      <3> QED
        BY <1>2, <1>3, <3>1 DEF NoAccept
    <2>2. CASE j = k
      BY <1>1, <2>2
    <2>3. CASE j > k
      <3>1. j - 1 \in 1..n /\ new[j] = rs[j - 1]
        BY <1>0, <1>1, <2>3
      <3> QED
        BY <1>2, <1>3, <3>1 DEF NoAccept
    <2> QED
      BY <1>0, <2>1, <2>2, <2>3
  <1>4. SomeJump(new)
    BY <1>0, <1>1, <1>2 DEF SomeJump
  <1>5. ASSUME AcceptLast(rs), k = 1 \/ (k = 2 /\ SomeJump(rs))
        PROVE  AcceptLast(new)
    <2> SUFFICES ASSUME NEW j \in 1..(n + 1), Accepts(new[j]) PROVE j = n + 1
      BY <1>1, <1>2 DEF AcceptLast
    <2>1. CASE j < k
      <3>1. k = 2 /\ j = 1 /\ Accepts(rs[1])
        BY <1>0, <1>1, <1>5, <2>1
      <3>2. PICK m \in 1..n : ~Accepts(rs[m])
        BY <1>2, <1>5, <3>1 DEF SomeJump
      <3>3. m # 1 /\ n >= 2
        BY <1>0, <3>1, <3>2
      <3> QED
        BY <1>0, <1>2, <1>5, <3>1, <3>3 DEF AcceptLast, n
    <2>2. CASE j = k
      BY <1>1, <2>2
    <2>3. CASE j > k
      <3>1. j - 1 \in 1..n /\ Accepts(rs[j - 1])
        BY <1>0, <1>1, <2>3
      <3> QED
        BY <1>0, <1>2, <1>5, <3>1 DEF AcceptLast, n
    <2> QED
      BY <1>0, <2>1, <2>2, <2>3
  <1> QED
    BY <1>2, <1>3, <1>4, <1>5 DEF new, NoAccept

(* Neither does the ACCEPT rule come before what is there already. *)
LEMMA AppendedAccept ==
    ASSUME NEW rs \in Seq(Rules), NEW r \in Rules
    PROVE  /\ SomeJump(rs) => SomeJump(Append(rs, r))
           /\ NoAccept(rs) => AcceptLast(Append(rs, r))
  BY DEF SomeJump, NoAccept, AcceptLast

(* No command puts a jump behind the ACCEPT rule of an uncleared chain. *)
LEMMA WorkAccept ==
    ASSUME AcceptInv, NEW h \in Handlers, Work(h)
    PROVE  AcceptAhead' /\ JumpInFront' /\ AcceptIsLast'
  <1> DEFINE sg == chainCallistoSG
             rs == rules[chainCallistoSG]
             new == rules'[chainCallistoSG]
             Appended == /\ SetsUp(h) /\ handler[h].fn = 2 /\ SetupAdvance(h)
                         /\ \E r \in Rules : new = Append(rs, r)
             Jumped == /\ At(h, "add", "run") /\ handler[h].fn = 4
                       /\ \E k \in 1..2, r \in Rules :
                             /\ handler[h].step = k /\ k <= Len(rs) + 1 /\ ~Accepts(r)
                             /\ new = InsertRule(rs, k, r)
  <1>0. TypeOK /\ rs \in Seq(Rules)
    BY ChainNames DEF AcceptInv, TypeOK
  <1>1. /\ wiped \subseteq wiped'
        /\ new = rs \/ Appended \/ Jumped \/ (new = <<>> /\ sg \in wiped')
    BY <1>0, SGChanges
  <1>2. /\ chainCallistoSGFallback \notin exists => NoAccept(rs)
        /\ \A g \in Handlers : SetsUp(g) /\ handler[g].fn <= 2 => NoAccept(rs)
        /\ \A g \in Handlers : SetsUp(g) =>
              /\ chainCallistoSGFallback \in exists
              /\ \A k \in Handlers : SetsUp(k) => k = g
    BY DEF AcceptInv, AcceptAhead, NoAccept, SetupAlone
  <1>3. sg \notin wiped => AcceptLast(rs)
    BY DEF AcceptInv, AcceptIsLast, AcceptLast, Accepts
  <1>4. ASSUME NEW g \in Handlers, sg \notin wiped, handler[g].op = "add",
               handler[g].phase = "run", handler[g].fn = 4, handler[g].step = 2
        PROVE  SomeJump(rs)
    BY <1>4 DEF AcceptInv, JumpInFront, SomeJump
  <1>5. \A k \in Handlers : k # h => (SetsUp(k)' <=> SetsUp(k)) /\ handler'[k] = handler[k]
    BY <1>0, OthersStay DEF SetsUp
  <1> HIDE DEF rs, new
  <1>j. ASSUME Jumped
        PROVE  /\ NoAccept(rs) => NoAccept(new)
               /\ SomeJump(new)
               /\ sg \notin wiped => AcceptLast(new)
    <2>1. PICK k \in 1..2, r \in Rules :
             /\ handler[h].step = k /\ k <= Len(rs) + 1 /\ ~Accepts(r)
             /\ new = InsertRule(rs, k, r)
      BY <1>j
    <2>2. k \in 1..(Len(rs) + 1)
      BY <1>0, <2>1
    <2>3. sg \notin wiped /\ k = 2 => SomeJump(rs)
      BY <1>4, <1>j, <2>1 DEF At
    <2>4. k = 1 \/ k = 2
      OBVIOUS
    <2>5. /\ NoAccept(rs) => NoAccept(new)
          /\ SomeJump(new)
          /\ AcceptLast(rs) /\ (k = 1 \/ (k = 2 /\ SomeJump(rs))) => AcceptLast(new)
      BY <1>0, <2>1, <2>2, InsertedJump
    <2> QED
      BY <1>3, <2>3, <2>4, <2>5
  <1>p. ASSUME Appended
        PROVE  /\ SomeJump(rs) => SomeJump(new)
               /\ AcceptLast(new)
    BY <1>0, <1>2, <1>p, AppendedAccept
  <1>6. AcceptIsLast'
    <2> SUFFICES ASSUME sg \notin wiped' PROVE AcceptLast(new)
      BY DEF AcceptIsLast, AcceptLast, Accepts, chainCallistoSG, new, actionACCEPT
    <2> QED
      BY <1>1, <1>3, <1>j, <1>p
  <1>7. ASSUME NEW g \in Handlers, sg \notin wiped', handler'[g].op = "add",
               handler'[g].phase = "run", handler'[g].fn = 4, handler'[g].step = 2
        PROVE  SomeJump(new)
    <2>1. CASE g = h
      <3>1. PICK r \in Rules : ~Accepts(r) /\ new = InsertRule(rs, 1, r)
        BY <1>0, <1>7, <2>1, SecondInsert DEF rs, new
      <3>2. 1 \in 1..(Len(rs) + 1)
        BY <1>0
      <3> QED
        BY <1>0, <3>1, <3>2, InsertedJump
    <2>2. CASE g # h
      <3>1. SomeJump(rs)
        BY <1>1, <1>4, <1>5, <1>7, <2>2
      <3> QED
        BY <1>1, <1>7, <1>j, <1>p, <3>1
    <2> QED
      BY <2>1, <2>2
  <1>8. JumpInFront'
    BY <1>7 DEF JumpInFront, SomeJump, chainCallistoSG, new, Accepts, actionACCEPT
  <1>9. ASSUME NoAccept(rs), ~Appended PROVE NoAccept(new)
    <2>1. NoAccept(<<>>)
      BY DEF NoAccept
    <2> QED
      BY <1>1, <1>9, <1>j, <2>1
  <1>10. ASSUME chainCallistoSGFallback \notin exists' PROVE NoAccept(new)
    <2>1. chainCallistoSGFallback \notin exists
      BY <1>0, <1>10, FallbackStays
    <2> QED
      BY <1>2, <1>9, <2>1
  <1>11. ASSUME NEW g \in Handlers, SetsUp(g)', handler'[g].fn <= 2 PROVE NoAccept(new)
    <2>1. CASE g # h
      <3>1. SetsUp(g) /\ handler[g].fn <= 2
        BY <1>5, <1>11, <2>1
      <3>2. ~Appended
        BY <1>2, <2>1, <3>1
      <3> QED
        BY <1>2, <1>9, <3>1, <3>2
    <2>2. CASE g = h /\ ~SetsUp(h)
      <3>1. chainCallistoSGFallback \notin exists
        BY <1>0, <1>11, <2>2, NoNewSetup
      <3> QED
        BY <1>2, <1>9, <2>2, <3>1
    <2>3. CASE g = h /\ SetsUp(h)
      <3>1. /\ handler[h].fn \in 1..4 /\ handler'[h].fn \in 1..4
            /\ \/ handler'[h].fn = handler[h].fn
               \/ handler'[h].fn = handler[h].fn + 1 /\ SetupAdvance(h)
            /\ handler'[h].fn = handler[h].fn => ~SetupAdvance(h)
        BY <1>0, <1>11, <2>3, SetupMoves
      <3>2. handler[h].fn <= 2 /\ ~(handler[h].fn = 2 /\ SetupAdvance(h))
        BY <1>11, <2>3, <3>1
      <3> QED
        BY <1>2, <1>9, <2>3, <3>2
    <2> QED
      BY <2>1, <2>2, <2>3
  <1>12. AcceptAhead'
    BY <1>10, <1>11 DEF AcceptAhead, NoAccept, chainCallistoSG, chainCallistoSGFallback, new,
       Accepts, actionACCEPT
  <1> QED
    BY <1>6, <1>8, <1>12

(* No rule is there at first. *)
LEMMA InitAccept == Init => AcceptInv
  <1> SUFFICES ASSUME Init PROVE AcceptInv
    OBVIOUS
  <1>1. \A h \in Handlers : ~SetsUp(h) /\ handler[h].op # "add"
    BY DEF Init, SetsUp, Idle
  <1>2. rules[chainCallistoSG] = <<>>
    BY ChainNames DEF Init
  <1>3. AcceptAhead /\ JumpInFront /\ AcceptIsLast
    BY <1>1, <1>2 DEF AcceptAhead, JumpInFront, AcceptIsLast
  <1> QED
    BY <1>1, <1>3, InitType DEF AcceptInv, SetupAlone

(* Every step keeps the ACCEPT rule last. *)
LEMMA NextAccept == AcceptInv /\ [Next]_vars => AcceptInv'
  <1> SUFFICES ASSUME AcceptInv, [Next]_vars PROVE AcceptInv'
    OBVIOUS
  <1>0. TypeOK /\ TypeOK'
    BY NextType DEF AcceptInv
  <1>1. ASSUME NEW h \in Handlers, Work(h) PROVE AcceptInv'
    BY <1>0, <1>1, WorkSetupAlone, WorkAccept DEF AcceptInv
  <1>2. CASE \A h \in Handlers : ~Work(h)
    <2>1. /\ exists' = exists /\ rules' = rules /\ wiped' = wiped
          /\ \A h \in Handlers :
                /\ handler'[h] # handler[h] /\ handler'[h] # Idle
                      => handler'[h].fn = 1 /\ handler'[h].step = 0
                /\ SetsUp(h)' => SetsUp(h) /\ handler'[h] = handler[h]
      BY <1>0, <1>2, NoCommand DEF table
    <2>2. SetupAlone'
      BY <2>1 DEF AcceptInv, SetupAlone, chainCallistoSGFallback
    <2>3. AcceptAhead'
      BY <2>1 DEF AcceptInv, AcceptAhead, chainCallistoSGFallback, chainCallistoSG, Accepts,
         actionACCEPT
    <2>4. \A h \in Handlers : handler'[h].op = "add" /\ handler'[h].fn = 4 => handler'[h] = handler[h]
      BY <2>1 DEF Idle
    <2>5. JumpInFront'
      BY <2>1, <2>4 DEF AcceptInv, JumpInFront, chainCallistoSG, Accepts, actionACCEPT
    <2>6. AcceptIsLast'
      BY <2>1 DEF AcceptInv, AcceptIsLast, chainCallistoSG, actionACCEPT
    <2> QED
      BY <1>0, <2>2, <2>3, <2>5, <2>6 DEF AcceptInv
  <1> QED
    BY <1>1, <1>2

(* Until an error path clears it, the security group chain never has a     *)
(* jump behind its ACCEPT rule.                                            *)
THEOREM AcceptStaysLast == Spec => []AcceptIsLast
  <1>1. AcceptInv => AcceptIsLast
    BY DEF AcceptInv
  <1> QED
    BY <1>1, InitAccept, NextAccept, PTL DEF Spec

------------------------------------------------------------------------------
(* SecurityGroup implements LinkGrants.  The inductive invariant is        *)
(* LinkInv: a link has one owner at most, which holds its source chain.    *)

(* A link is lost if its source chain is there and nobody owns it or was   *)
(* granted it.                                                             *)
LEMMA OrphanMeans ==
    ASSUME NEW i \in Interfaces
    PROVE  /\ Orphan(i) <=> /\ getSOURCEChainName(i) \in exists
                            /\ i \notin granted
                            /\ \A h \in Handlers : ~Owns(h, i)
           /\ Orphan(i)' <=> /\ getSOURCEChainName(i) \in exists'
                             /\ i \notin granted'
                             /\ \A h \in Handlers : ~Owns(h, i)'
  <1>1. getSOURCEChainName(i)' = getSOURCEChainName(i)
    BY DEF getSOURCEChainName, getValidChainName
  <1> QED
    BY <1>1 DEF Orphan, Owns

(* Links differ in their source chains. *)
LEMMA SourceChains ==
    ASSUME NEW i \in Interfaces
    PROVE  /\ getSOURCEChainName(i) = addFunctions(i)[1].chain
           /\ getSOURCEChainName(i) \notin SharedChains
           /\ \A j \in Interfaces, m \in 1..6 :
                 addFunctions(j)[m].chain = getSOURCEChainName(i) => i = j /\ m = 1
           /\ \A j \in Interfaces :
                 getSOURCEChainName(j) = getSOURCEChainName(i) => i = j
  <1>1. \A j \in Interfaces : getSOURCEChainName(j) = addFunctions(j)[1].chain
    BY AddChains DEF getSOURCEChainName, getValidChainName
  <1>2. 1 \in 1..3 /\ 1 \in 1..6
    OBVIOUS
  <1> QED
    BY <1>1, <1>2, OwnChains

(* The source chain of a link is made by its owner. *)
LEMMA MadeByOwner ==
    ASSUME TypeOK, NEW h \in Handlers, Work(h), NEW i \in Interfaces, ~Owns(h, i),
           getSOURCEChainName(i) \notin exists, getSOURCEChainName(i) \in exists'
    PROVE  Owns(h, i)'
  <1> DEFINE c == getSOURCEChainName(i)
  <1>1. c \notin exists /\ c \in exists'
    OBVIOUS
  <1> HIDE DEF c
  <1>2. CASE SetupNewChain(h)
    <2>1. SetupFn(h).chain \in SharedChains
      BY <1>2, SettingUp DEF SetupNewChain, At
    <2>2. SetupFn(h).chain # c
      BY <2>1, SourceChains DEF c
    <2> QED
      BY <1>1, <1>2, <2>2 DEF SetupNewChain
  <1>3. CASE AddNewChain(h)
    <2>1. AddFn(h).chain = c /\ GoTo(h, handler[h].fn, 1)
      BY <1>1, <1>3 DEF AddNewChain
    <2>2. handler[h].op = "add" /\ handler[h].intf \in Interfaces /\ handler[h].fn \in 1..6
      BY <1>3, Adding DEF AddNewChain, At
    <2>3. handler[h].intf = i
      BY <2>1, <2>2, SourceChains DEF c, AddFn
    <2> QED
      BY <2>1, <2>2, <2>3, GoToResult DEF Owns
  <1>4. CASE ClearChain(h)
    <2>1. AddFn(h).chain = c
      BY <1>1, <1>4 DEF ClearChain
    <2>2. /\ handler[h].op = "add" /\ handler[h].phase = "clear"
          /\ handler[h].intf \in Interfaces /\ handler[h].fn \in 1..6
          /\ handler[h].step # 0
      BY <1>4, Adding DEF ClearChain, At
    <2>3. handler[h].intf = i
      BY <2>1, <2>2, SourceChains DEF c, AddFn
    <2> QED
      BY <2>2, <2>3 DEF Owns
  <1>5. CASE SetupCheckRule(h) \/ SetupAppend(h) \/ AddInsert(h) \/ DeleteChain(h)
    BY <1>1, <1>5 DEF SetupCheckRule, SetupAppend, AddInsert, DeleteChain, table
  <1> QED
    BY <1>2, <1>3, <1>4, <1>5 DEF Work

(* No grant is taken back. *)
LEMMA GrantsStay ==
    ASSUME TypeOK, NEW h \in Handlers, Work(h)
    PROVE  granted \subseteq granted' /\ granted' \subseteq Interfaces
  <1>1. granted \subseteq granted'
    BY DEF Work, SetupNewChain, SetupCheckRule, SetupAppend, AddNewChain, AddInsert,
       AddAdvance, ClearChain, DeleteChain
  <1>2. granted' \subseteq Interfaces
    BY WorkType DEF TypeOK
  <1> QED
    BY <1>1, <1>2

(* What does not belong to a goroutine stays as it is in its commands. *)
LEMMA OtherLinks ==
    ASSUME LinkInv, NEW h \in Handlers, Work(h), NEW i \in Interfaces,
           ~Owns(h, i), ~Owns(h, i)'
    PROVE  /\ \A g \in Handlers : Owns(g, i)' <=> Owns(g, i)
           /\ i \in granted' <=> i \in granted
           /\ Orphan(i)' <=> Orphan(i)
  <1>0. TypeOK
    BY DEF LinkInv
  <1>1. \A g \in Handlers : Owns(g, i)' <=> Owns(g, i)
    BY <1>0, OthersStay DEF Owns
  <1>2. i \in granted' <=> i \in granted
    BY <1>0, GrantedByOwner, GrantsStay
  <1>3. getSOURCEChainName(i) \in exists' <=> getSOURCEChainName(i) \in exists
    BY <1>0, SourceChainStays, MadeByOwner
  <1> QED
    BY <1>1, <1>2, <1>3, OrphanMeans

------------------------------------------------------------------------------
(* The steps *)

(* A command that makes and ends no ownership leaves all links as they are. *)
LEMMA NoChange ==
    ASSUME LinkInv, NEW h \in Handlers, Work(h),
           \A i \in Interfaces : ~Owns(h, i) /\ ~Owns(h, i)'
    PROVE  UNCHANGED <<granted, owners, orphaned>>
  <1>1. \A i \in Interfaces : /\ \A g \in Handlers : Owns(g, i)' <=> Owns(g, i)
                              /\ i \in granted' <=> i \in granted
                              /\ Orphan(i)' <=> Orphan(i)
    BY OtherLinks
  <1>2. granted' = granted
    BY <1>1, GrantsStay DEF LinkInv, TypeOK
  <1>3. owners' = owners
    BY <1>1 DEF owners
  <1>4. orphaned' = orphaned
    BY <1>1 DEF orphaned
  <1> QED
    BY <1>2, <1>3, <1>4

(* The owner of a link goes on with it. *)
LEMMA OwnerWorks ==
    ASSUME LinkInv, NEW h \in Handlers, Work(h), NEW i \in Interfaces,
           Owns(h, i), Owns(h, i)'
    PROVE  UNCHANGED <<granted, owners, orphaned>>
  <1>0. TypeOK
    BY DEF LinkInv
  <1>1. ASSUME NEW j \in Interfaces, j # i
        PROVE  /\ \A g \in Handlers : Owns(g, j)' <=> Owns(g, j)
               /\ j \in granted' <=> j \in granted
               /\ Orphan(j)' <=> Orphan(j)
    BY <1>1, OtherLinks DEF Owns
  <1>2. \A g \in Handlers : Owns(g, i)' <=> Owns(g, i)
    BY <1>0, OthersStay DEF Owns
  <1>3. i \notin granted /\ getSOURCEChainName(i) \in exists
    BY DEF LinkInv, OwnerAlone
  <1>4. i \notin granted'
    BY <1>0, <1>3, OwnerGoesOn
  <1>5. ~Orphan(i) /\ ~Orphan(i)'
    BY OrphanMeans
  <1>6. granted' = granted
    BY <1>0, <1>1, <1>3, <1>4, GrantsStay DEF TypeOK
  <1>7. owners' = owners
    BY <1>1, <1>2 DEF owners
  <1>8. orphaned' = orphaned
    BY <1>1, <1>5 DEF orphaned
  <1> QED
    BY <1>6, <1>7, <1>8

(* The NewChain of addSOURCESGRules takes the link. *)
LEMMA Takes ==
    ASSUME LinkInv, NEW h \in Handlers, Work(h), NEW i \in Interfaces,
           ~Owns(h, i), Owns(h, i)'
    PROVE  Grants!Take(h, i)
  <1>0. TypeOK
    BY DEF LinkInv
  <1>1. /\ handler[h].intf = i /\ handler[h].fn = 1 /\ AddNewChain(h)
        /\ getSOURCEChainName(i) \notin exists /\ granted' = granted
    BY <1>0, BecomesOwner
  <1>2. handler[h].op = "add" /\ handler[h].step = 0
    BY <1>1 DEF AddNewChain, At
  <1>3. ASSUME NEW j \in Interfaces, j # i
        PROVE  /\ \A g \in Handlers : Owns(g, j)' <=> Owns(g, j)
               /\ Orphan(j)' <=> Orphan(j)
    <2>1. ~Owns(h, j) /\ ~Owns(h, j)'
      BY <1>1, <1>2, <1>3 DEF Owns
    <2> QED
      BY <2>1, OtherLinks
  <1>4. \A g \in Handlers : g # h => (Owns(g, i)' <=> Owns(g, i))
    BY <1>0, OthersStay DEF Owns
  <1>5. \A g \in Handlers : ~Owns(g, i)
    BY <1>1 DEF LinkInv, OwnerAlone
  <1>6. i \notin granted /\ ~Orphan(i) /\ ~Orphan(i)'
    <2>1. i \notin granted
      BY <1>1, SourceChains DEF LinkInv, GrantedChainsIntact
    <2> QED
      BY <1>1, <2>1, OrphanMeans
  <1>7. owners[i] = {} /\ owners' = [owners EXCEPT ![i] = {h}]
    BY <1>3, <1>4, <1>5 DEF owners
  <1>8. i \notin granted \cup orphaned /\ orphaned' = orphaned
    BY <1>3, <1>6 DEF orphaned
  <1> QED
    BY <1>1, <1>7, <1>8 DEF Grants!Take

(* Whoever stops owning a link was granted it or gives it up. *)
LEMMA LetsGo ==
    ASSUME LinkInv, NEW h \in Handlers, Work(h), NEW i \in Interfaces,
           Owns(h, i), ~Owns(h, i)'
    PROVE  Grants!Grant(h, i) \/ Grants!GiveUp(h, i)
  <1>0. TypeOK
    BY DEF LinkInv
  <1>1. ASSUME NEW j \in Interfaces, j # i
        PROVE  /\ \A g \in Handlers : Owns(g, j)' <=> Owns(g, j)
               /\ j \in granted' <=> j \in granted
               /\ Orphan(j)' <=> Orphan(j)
    <2>1. ~Owns(h, j)
      BY <1>1 DEF Owns
    <2>2. ~Owns(h, j)'
      BY <1>0, <1>1, SameRequest DEF Owns, Idle
    <2> QED
      BY <2>1, <2>2, OtherLinks
  <1>2. /\ i \notin granted /\ getSOURCEChainName(i) \in exists
        /\ \A g \in Handlers : Owns(g, i) => g = h
    BY DEF LinkInv, OwnerAlone
  <1>3. \A g \in Handlers : ~Owns(g, i)'
    BY <1>0, <1>2, OthersStay DEF Owns
  <1>4. owners[i] = {h} /\ owners' = [owners EXCEPT ![i] = {}]
    BY <1>1, <1>2, <1>3 DEF owners
  <1>5. ~Orphan(i)
    BY OrphanMeans
  <1>6. CASE i \in granted'
    <2>1. granted' = granted \cup {i}
      BY <1>0, <1>1, <1>6, GrantsStay DEF TypeOK
    <2>2. ~Orphan(i)'
      BY <1>6, OrphanMeans
    <2>3. orphaned' = orphaned
      BY <1>1, <1>5, <2>2 DEF orphaned
    <2> QED
      BY <1>4, <2>1, <2>3 DEF Grants!Grant
  <1>7. CASE i \notin granted'
    <2>1. granted' = granted
      BY <1>0, <1>1, <1>2, <1>7, GrantsStay DEF TypeOK
    <2>2. orphaned' = orphaned \/ orphaned' = orphaned \cup {i}
      BY <1>1, <1>5 DEF orphaned
    <2> QED
      BY <1>4, <2>1, <2>2 DEF Grants!GiveUp
  <1> QED
    BY <1>6, <1>7

(* The death of the agent leaves the links that have an owner orphaned. *)
LEMMA RestartOrphans ==
    ASSUME LinkInv, AgentRestart
    PROVE  Grants!AgentDies
  <1>1. exists' = exists /\ granted' = granted
    BY DEF AgentRestart, table
  <1>2. \A h \in Handlers, i \in Interfaces : ~Owns(h, i)'
    BY DEF AgentRestart, Owns, Idle
  <1>3. owners' = [i \in Interfaces |-> {}]
    BY <1>2 DEF owners
  <1>4. \A i \in Interfaces : owners[i] # {} <=> \E h \in Handlers : Owns(h, i)
    BY DEF owners
  <1>5. ASSUME NEW i \in Interfaces
        PROVE  Orphan(i)' <=> Orphan(i) \/ owners[i] # {}
    <2>1. \A h \in Handlers : Owns(h, i) =>
              i \notin granted /\ getSOURCEChainName(i) \in exists
      BY DEF LinkInv, OwnerAlone
    <2> QED
      BY <1>1, <1>2, <1>4, <2>1, OrphanMeans
  <1>6. orphaned' = orphaned \cup {i \in Interfaces : owners[i] # {}}
    BY <1>5 DEF orphaned
  <1> QED
    BY <1>1, <1>3, <1>6 DEF Grants!AgentDies

(* What leaves the table, the grants and the owners alone is no step. *)
LEMMA NoStep ==
    ASSUME exists' = exists, granted' = granted,
           \A h \in Handlers, i \in Interfaces : Owns(h, i)' <=> Owns(h, i)
    PROVE  UNCHANGED <<granted, owners, orphaned>>
  <1>1. owners' = owners
    BY DEF owners
  <1>2. orphaned' = orphaned
    BY OrphanMeans DEF orphaned
  <1> QED
    BY <1>1, <1>2

(* Every step hands out, grants or gives back a link, or changes nothing. *)
LEMMA StepImplements ==
    ASSUME LinkInv, [Next]_vars
    PROVE  [Grants!Next]_(Grants!vars)
  <1>0. TypeOK
    BY DEF LinkInv
  <1>1. SUFFICES Grants!Next \/ UNCHANGED <<granted, owners, orphaned>>
    BY DEF Grants!vars
  <1>2. CASE UNCHANGED vars
    BY <1>2, NoStep DEF vars, table, Owns
  <1>3. ASSUME NEW h \in Handlers, NEW op, NEW j, Begin(h, op, j), handler[h] = Idle,
               UNCHANGED <<table, granted>>
        PROVE  UNCHANGED <<granted, owners, orphaned>>
    <2>1. \A g \in Handlers, i \in Interfaces : Owns(g, i)' <=> Owns(g, i)
      BY <1>0, <1>3 DEF Begin, TypeOK, Owns, Idle
    <2> QED
      BY <1>3, <2>1, NoStep DEF table
  <1>4. ASSUME NEW h \in Handlers, Work(h)
        PROVE  Grants!Next \/ UNCHANGED <<granted, owners, orphaned>>
    <2>1. CASE \A i \in Interfaces : ~Owns(h, i) /\ ~Owns(h, i)'
      BY <1>4, <2>1, NoChange
    <2>2. ASSUME NEW i \in Interfaces, Owns(h, i) \/ Owns(h, i)'
          PROVE  Grants!Next \/ UNCHANGED <<granted, owners, orphaned>>
      <3>1. CASE Owns(h, i) /\ Owns(h, i)'
        BY <1>4, <3>1, OwnerWorks
      <3>2. CASE ~Owns(h, i) /\ Owns(h, i)'
        BY <1>4, <3>2, Takes DEF Grants!Next
      <3>3. CASE Owns(h, i) /\ ~Owns(h, i)'
        BY <1>4, <3>3, LetsGo DEF Grants!Next
      <3> QED
        BY <2>2, <3>1, <3>2, <3>3
    <2> QED
      BY <2>1, <2>2
  <1>5. CASE AgentRestart
    BY <1>5, RestartOrphans DEF Grants!Next
  <1> QED
    BY <1>2, <1>3, <1>4, <1>5 DEF Next, SetupDefaultSecurityGroup, AddSecurityGroup

(* No link is taken, granted or lost at first. *)
LEMMA InitImplements ==
    ASSUME Init
    PROVE  Grants!Init
  <1>1. granted = {} /\ exists = BuiltinChains /\ \A h \in Handlers : handler[h] = Idle
    BY DEF Init
  <1>2. owners = [i \in Interfaces |-> {}]
    BY <1>1 DEF owners, Owns, Idle
  <1>3. orphaned = {}
    BY <1>1 DEF orphaned, Orphan, BuiltinChains, chainINPUT, chainFORWARD,
       getSOURCEChainName, getValidChainName
  <1> QED
    BY <1>1, <1>2, <1>3 DEF Grants!Init

(* AddSecurityGroup hands out links as by a lock, for any links and        *)
(* goroutines, whatever overlaps, fails or dies.                           *)
THEOREM ImplementsLinkGrants == Spec => HandsOutLinksLikeALock
  <1> QED
    BY InitLinks, NextLinks, InitImplements, StepImplements, PTL
       DEF Spec, HandsOutLinksLikeALock, Grants!Spec
==============================================================================
