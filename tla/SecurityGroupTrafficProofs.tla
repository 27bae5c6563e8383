---------------------- MODULE SecurityGroupTrafficProofs ----------------------
(***************************************************************************)
(* Theorems about SecurityGroupTraffic: what the filter table does to the  *)
(* packets of granted links, for any links and goroutines.                 *)
(***************************************************************************)
EXTENDS SecurityGroupTraffic, SecurityGroupProofs, WellFoundedInduction

------------------------------------------------------------------------------
(* Walks *)

(* Every set of naturals that is not empty has a least element. *)
LEMMA LeastNatural ==
    ASSUME NEW S \in SUBSET Nat, S # {}
    PROVE  \E n \in S : \A m \in S : n <= m
  <1> DEFINE R == {ss \in Nat \X Nat : ss[1] < ss[2]}
  <1>1. IsWellFoundedOn(R, Nat)
    BY NatLessThanWellFounded DEF OpToRel
  <1>2. PICK n \in S : \A m \in S : ~(<<m, n>> \in R)
    BY <1>1, WFMin
  <1>3. \A m \in S : ~(m < n)
    BY <1>2
  <1> QED
    BY <1>3

(* A walk ends at the first rule that does not let the packet go on. *)
LEMMA FirstAnswer ==
    ASSUME NEW c, rules[c] \in Seq(Rules), NEW p, NEW after
    PROVE  \/ /\ \A k \in DOMAIN rules[c] : Answer(rules[c][k], p, after) = Continue
              /\ Through(c, p, after) = actionRETURN
           \/ \E k \in DOMAIN rules[c] :
                /\ Answer(rules[c][k], p, after) # Continue
                /\ Through(c, p, after) = Answer(rules[c][k], p, after)
                /\ \A j \in DOMAIN rules[c] : j < k => Answer(rules[c][j], p, after) = Continue
  <1> DEFINE ans(k)  == Answer(rules[c][k], p, after)
             answers == {<<k, ans(k)>> : k \in DOMAIN rules[c]}
             final   == {a \in answers : a[2] # Continue}
             stops   == {k \in DOMAIN rules[c] : ans(k) # Continue}
  <1>1. Through(c, p, after) = IF final = {} THEN actionRETURN
                               ELSE (CHOOSE a \in final : \A b \in final : a[1] <= b[1])[2]
    BY DEF Through
  <1>2. DOMAIN rules[c] \subseteq Nat
    OBVIOUS
  <1> HIDE DEF ans
  <1>3. \A a : a \in final <=> \E k \in stops : a = <<k, ans(k)>>
    OBVIOUS
  <1>4. CASE stops = {}
    BY <1>1, <1>3, <1>4 DEF ans
  <1>5. CASE stops # {}
    <2>1. PICK k \in stops : \A j \in stops : k <= j
      BY <1>2, <1>5, LeastNatural
    <2> DEFINE first(a) == a \in final /\ \A b \in final : a[1] <= b[1]
    <2>2. first(<<k, ans(k)>>)
      BY <1>3, <2>1
    <2>3. ASSUME NEW a, first(a) PROVE a = <<k, ans(k)>>
      <3>1. PICK j \in stops : a = <<j, ans(j)>>
        BY <1>3, <2>3
      <3>2. j <= k /\ k <= j
        BY <2>1, <2>2, <2>3, <3>1
      <3>3. j = k
        BY <1>2, <3>2
      <3> QED
        BY <3>1, <3>3
    <2>4. (CHOOSE a \in final : \A b \in final : a[1] <= b[1]) = <<k, ans(k)>>
      <3>1. (CHOOSE a : first(a)) = <<k, ans(k)>>
        BY <2>2, <2>3
      <3> QED
        BY <3>1
    <2>5. Through(c, p, after) = ans(k)
      BY <1>1, <2>2, <2>4
    <2>6. \A j \in DOMAIN rules[c] : j < k => ans(j) = Continue
      BY <1>2, <2>1
    <2> QED
      BY <2>1, <2>5, <2>6 DEF ans
  <1> QED
    BY <1>4, <1>5

(* So it ends as one of the rules says that the packet meets no later than *)
(* a rule which stops it.                                                  *)
LEMMA StoppedBy ==
    ASSUME NEW c, rules[c] \in Seq(Rules), NEW p, NEW after,
           NEW k \in DOMAIN rules[c], Answer(rules[c][k], p, after) # Continue
    PROVE  \E j \in DOMAIN rules[c] :
             /\ j <= k /\ Answer(rules[c][j], p, after) # Continue
             /\ Through(c, p, after) = Answer(rules[c][j], p, after)
  <1>1. DOMAIN rules[c] \subseteq Nat
    OBVIOUS
  <1>2. PICK j \in DOMAIN rules[c] :
          /\ Answer(rules[c][j], p, after) # Continue
          /\ Through(c, p, after) = Answer(rules[c][j], p, after)
          /\ \A i \in DOMAIN rules[c] : i < j => Answer(rules[c][i], p, after) = Continue
    BY FirstAnswer
  <1>3. ~(k < j)
    BY <1>2
  <1> QED
    BY <1>1, <1>2, <1>3

------------------------------------------------------------------------------
(* What the commands do to the shared chains *)

Appends(h, c) ==
    /\ SetsUp(h) /\ SetupFn(h).into = c /\ SetupAdvance(h)
    /\ rules'[c] = Append(rules[c], SetupFn(h).rule)

Inserts(h, c) ==
    /\ At(h, "add", "run") /\ AddFn(h).chain = c /\ AddAdvance(h)
    /\ handler[h].step \in 1..Len(AddFn(h).rules)
    /\ handler[h].step \in 1..(Len(rules[c]) + 1)
    /\ rules'[c] = InsertRule(rules[c], handler[h].step, AddFn(h).rules[handler[h].step])

Clears(h, c) ==
    /\ At(h, "add", "clear") /\ AddFn(h).chain = c
    /\ rules'[c] = <<>>
    /\ c \in SharedChains => c \in wiped'

(* A command leaves a chain as it is, appends or inserts the rule that its *)
(* goroutine is at, or clears the chain of its function.                   *)
LEMMA TableChanges ==
    ASSUME TypeOK, NEW h \in Handlers, Work(h), NEW c \in Chains
    PROVE  rules'[c] = rules[c] \/ Appends(h, c) \/ Inserts(h, c) \/ Clears(h, c)
  <1>0. rules \in [Chains -> Seq(Rules)]
    BY DEF TypeOK
  <1>1. CASE SetupAppend(h)
    <2>1. SetsUp(h)
      BY <1>1 DEF SetupAppend, At, SetsUp
    <2>2. CASE rules' = [rules EXCEPT ![SetupFn(h).into] = Append(@, SetupFn(h).rule)]
               /\ SetupAdvance(h)
      <3>1. CASE SetupFn(h).into = c
        BY <1>0, <2>1, <2>2, <3>1 DEF Appends
      <3>2. CASE SetupFn(h).into # c
        BY <1>0, <2>2, <3>2
      <3> QED
        BY <3>1, <3>2
    <2>3. CASE rules' = rules
      BY <2>3
    <2> QED
      BY <1>1, <2>2, <2>3 DEF SetupAppend
  <1>2. CASE AddInsert(h)
    <2>1. handler[h].op = "add" /\ At(h, "add", "run") /\ handler[h].step > 0
      BY <1>2 DEF AddInsert, At
    <2>2. /\ handler[h].step \in 0..9 /\ handler[h].step <= Len(AddFn(h).rules)
          /\ AddFn(h).rules \in Seq(Rules)
      BY <2>1, Adding
    <2>3. handler[h].step \in 1..Len(AddFn(h).rules)
      BY <2>1, <2>2
    <2> DEFINE k == handler[h].step
               r == AddFn(h).rules[k]
    <2>4. CASE AddFn(h).chain = c /\ CanInsert(c, k, r) /\ AddAdvance(h)
               /\ rules' = [rules EXCEPT ![c] = InsertRule(@, k, r)]
      <3>1. k \in 1..(Len(rules[c]) + 1)
        BY <2>4 DEF CanInsert
      <3>2. rules'[c] = InsertRule(rules[c], k, r)
        BY <1>0, <2>4
      <3> QED
        BY <2>1, <2>3, <2>4, <3>1, <3>2 DEF Inserts
    <2>5. CASE AddFn(h).chain # c \/ rules' = rules
      BY <1>0, <1>2, <2>5 DEF AddInsert
    <2> QED
      BY <1>2, <2>4, <2>5 DEF AddInsert
  <1>3. CASE ClearChain(h)
    <2>1. CASE AddFn(h).chain = c
      BY <1>0, <1>3, <2>1 DEF ClearChain, Clears
    <2>2. CASE AddFn(h).chain # c
      BY <1>0, <1>3, <2>2 DEF ClearChain
    <2> QED
      BY <2>1, <2>2
  <1>4. CASE ~SetupAppend(h) /\ ~AddInsert(h) /\ ~ClearChain(h)
    BY <1>4 DEF Work, SetupNewChain, SetupCheckRule, AddNewChain, DeleteChain, table
  <1> QED
    BY <1>1, <1>2, <1>3, <1>4

(* And only clearing a shared chain counts as wiping it. *)
LEMMA WipedChanges ==
    ASSUME TypeOK, NEW h \in Handlers, Work(h)
    PROVE  /\ wiped \subseteq wiped'
           /\ wiped' # wiped => /\ At(h, "add", "clear")
                               /\ wiped' = wiped \cup ({AddFn(h).chain} \cap SharedChains)
  <1>1. CASE ClearChain(h)
    BY <1>1 DEF ClearChain
  <1>2. CASE ~ClearChain(h)
    BY <1>2 DEF Work, SetupNewChain, SetupCheckRule, SetupAppend, AddNewChain, AddInsert, DeleteChain
  <1> QED
    BY <1>1, <1>2

(* The rules of a chain after an insertion. *)
LEMMA InsertContains ==
    ASSUME NEW rs \in Seq(Rules), NEW k \in 1..(Len(rs) + 1), NEW x \in Rules, NEW r
    PROVE  Contains(InsertRule(rs, k, x), r) <=> r = x \/ Contains(rs, r)
  <1> DEFINE new == InsertRule(rs, k, x)
  <1>1. Len(new) = Len(rs) + 1
    BY InsertElements
  <1>2. \A j \in 1..(Len(rs) + 1) :
           new[j] = IF j < k THEN rs[j] ELSE IF j = k THEN x ELSE rs[j - 1]
    BY InsertElements
  <1> HIDE DEF new
  <1>3. Len(rs) \in Nat /\ k \in Nat
    OBVIOUS
  <1>4. new[k] = x
    BY <1>2
  <1>5. ASSUME NEW j \in 1..Len(rs) PROVE \E i \in 1..Len(new) : new[i] = rs[j]
    <2>1. CASE j < k
      BY <1>1, <1>2, <1>3, <2>1
    <2>2. CASE ~(j < k)
      <3>1. j + 1 \in 1..(Len(rs) + 1) /\ ~(j + 1 < k) /\ j + 1 # k /\ (j + 1) - 1 = j
        BY <1>3, <2>2
      <3>2. new[j + 1] = rs[j]
        BY <1>2, <3>1
      <3> QED
        BY <1>1, <3>1, <3>2
    <2> QED
      BY <2>1, <2>2
  <1>6. ASSUME NEW i \in 1..Len(new), new[i] # x PROVE \E j \in 1..Len(rs) : new[i] = rs[j]
    <2>1. CASE i < k
      BY <1>1, <1>2, <1>3, <2>1
    <2>2. CASE ~(i < k)
      <3>1. i # k
        BY <1>4, <1>6
      <3>2. i - 1 \in 1..Len(rs)
        BY <1>1, <1>3, <2>2, <3>1
      <3>3. new[i] = rs[i - 1]
        BY <1>1, <1>2, <2>2, <3>1
      <3> QED
        BY <3>2, <3>3
    <2> QED
      BY <2>1, <2>2
  <1>7. k \in 1..Len(new)
    BY <1>1, <1>3
  <1>8. (\E i \in 1..Len(new) : new[i] = r) <=> r = x \/ \E j \in 1..Len(rs) : rs[j] = r
    BY <1>4, <1>5, <1>6, <1>7
  <1> QED
    BY <1>8 DEF Contains, new

(* And after an append. *)
LEMMA AppendContains ==
    ASSUME NEW rs \in Seq(Rules), NEW x \in Rules, NEW r
    PROVE  Contains(Append(rs, x), r) <=> r = x \/ Contains(rs, r)
  <1> DEFINE new == Append(rs, x)
  <1>1. /\ Len(new) = Len(rs) + 1 /\ new[Len(rs) + 1] = x
        /\ \A j \in 1..Len(rs) : new[j] = rs[j]
    OBVIOUS
  <1> HIDE DEF new
  <1>2. Len(rs) \in Nat
    OBVIOUS
  <1>3. (\E i \in 1..Len(new) : new[i] = r) <=> r = x \/ \E j \in 1..Len(rs) : rs[j] = r
    BY <1>1, <1>2
  <1> QED
    BY <1>3 DEF Contains, new

(* The rules of a chain after a command that does not clear it. *)
LEMMA GrownContains ==
    ASSUME TypeOK, NEW h \in Handlers, NEW c \in Chains, NEW r
    PROVE  /\ Appends(h, c) => (Contains(rules'[c], r) <=> r = SetupFn(h).rule \/ Contains(rules[c], r))
           /\ Inserts(h, c) => (Contains(rules'[c], r) <=> \/ r = AddFn(h).rules[handler[h].step]
                                                           \/ Contains(rules[c], r))
  <1>0. rules[c] \in Seq(Rules)
    BY DEF TypeOK
  <1>1. ASSUME Appends(h, c)
        PROVE  Contains(rules'[c], r) <=> r = SetupFn(h).rule \/ Contains(rules[c], r)
    <2>1. SetupFn(h).rule \in Rules /\ rules'[c] = Append(rules[c], SetupFn(h).rule)
      BY <1>1, SettingUp DEF Appends, SetsUp
    <2> QED
      BY <1>0, <2>1, AppendContains
  <1>2. ASSUME Inserts(h, c)
        PROVE  Contains(rules'[c], r) <=> \/ r = AddFn(h).rules[handler[h].step]
                                          \/ Contains(rules[c], r)
    <2> DEFINE k == handler[h].step
               x == AddFn(h).rules[k]
    <2>1. /\ k \in 1..(Len(rules[c]) + 1) /\ k \in 1..Len(AddFn(h).rules)
          /\ handler[h].op = "add" /\ rules'[c] = InsertRule(rules[c], k, x)
      BY <1>2 DEF Inserts, At
    <2>2. AddFn(h).rules \in Seq(Rules)
      BY <2>1, Adding
    <2>3. x \in Rules
      BY <2>1, <2>2
    <2> QED
      BY <1>0, <2>1, <2>3, InsertContains
  <1> QED
    BY <1>1, <1>2

(* Shared chains only grow unless they are wiped. *)
LEMMA ContainsStays ==
    ASSUME TypeOK, NEW h \in Handlers, Work(h),
           NEW c \in SharedChains \cup BuiltinChains, c \notin wiped', NEW r, Contains(rules[c], r)
    PROVE  Contains(rules'[c], r)
  <1>1. c \in Chains
    BY DEF Chains
  <1>2. ~Clears(h, c)
    <2>1. SUFFICES ASSUME Clears(h, c) PROVE FALSE
      OBVIOUS
    <2>2. AddFn(h).chain = c /\ handler[h].op = "add" /\ c \notin SharedChains
      BY <2>1 DEF Clears, At
    <2>3. c \in LinkChains
      BY <2>2, Adding
    <2>4. c \in {chainINPUT, chainFORWARD}
      BY <2>2 DEF BuiltinChains
    <2> QED
      BY <2>3, <2>4, ChainNames
  <1> QED
    BY <1>1, <1>2, TableChanges, GrownContains

------------------------------------------------------------------------------
(* The shared chains *)

(* A rule that some function of the tables puts into chain c. *)
RuleOf(c, r) ==
    \/ \E n \in 1..4 : setupFunctions[n].into = c /\ setupFunctions[n].rule = r
    \/ \E i \in Interfaces, n \in 1..6 :
          /\ addFunctions(i)[n].chain = c
          /\ Contains(addFunctions(i)[n].rules, r)

(* The chains hold nothing else. *)
RulesFromTables == \A c \in Chains, r \in Rules : Contains(rules[c], r) => RuleOf(c, r)

(* A setup has got past the n-th of its functions. *)
SetupPast(n) == setupDone \/ \E h \in Handlers : SetsUp(h) /\ handler[h].fn > n

(* Its rule is there. *)
SetupRulesThere ==
    \A n \in 1..4 : SetupPast(n) /\ setupFunctions[n].into \notin wiped
        => Contains(rules[setupFunctions[n].into], setupFunctions[n].rule)

(* The k-th rule of the n-th function has been inserted for link i. *)
AddPast(i, n, k) ==
    \/ i \in granted
    \/ \E h \in Handlers : /\ Owns(h, i)
                           /\ n < handler[h].fn \/ (n = handler[h].fn /\ k < handler[h].step)

(* It is there. *)
AddRulesThere ==
    \A i \in Interfaces, n \in 4..6 : \A k \in 1..Len(addFunctions(i)[n].rules) :
        AddPast(i, n, k) /\ addFunctions(i)[n].chain \notin wiped
            => Contains(rules[addFunctions(i)[n].chain], addFunctions(i)[n].rules[k])

(* Links are added, and shared chains wiped, only after the one setup that *)
(* gets through; nobody gives a wiped chain a new ACCEPT rule.             *)
SetupComesFirst ==
    /\ setupDone => chainCallistoSGFallback \in exists /\ \A h \in Handlers : ~SetsUp(h)
    /\ \A h \in Handlers : handler[h].op = "add" => setupDone
    /\ wiped # {} => setupDone
    /\ wiped \subseteq {chainCallistoSG, chainCallistoFORWARD}
    /\ chainCallistoSG \in wiped => NoAccept(rules[chainCallistoSG])

TableInv == TypeOK /\ SetupAlone /\ SetupComesFirst /\ SetupRulesThere /\ AddRulesThere

(* A command adds only rules of the tables. *)
LEMMA WorkRules ==
    ASSUME TypeOK, RulesFromTables, NEW h \in Handlers, Work(h)
    PROVE  RulesFromTables'
  <1> SUFFICES ASSUME NEW c \in Chains, NEW r \in Rules, Contains(rules'[c], r)
               PROVE  RuleOf(c, r)
    BY DEF RulesFromTables, Chains, SharedChains, LinkChains, BuiltinChains, Rules,
       chainINPUT, chainFORWARD, chainCallistoSGFallback, chainCallistoSG, chainCallistoINPUT,
       chainCallistoFORWARD, Matches, TrafficClasses, Verdicts, actionACCEPT, actionDROP,
       actionRETURN
  <1>1. CASE Contains(rules[c], r)
    BY <1>1 DEF RulesFromTables
  <1>2. CASE Appends(h, c) /\ r = SetupFn(h).rule
    <2>1. handler[h].fn \in 1..4 /\ SetupFn(h).into = c
      BY <1>2, SettingUp DEF Appends, SetsUp
    <2> QED
      BY <1>2, <2>1 DEF RuleOf, SetupFn
  <1>3. CASE Inserts(h, c) /\ r = AddFn(h).rules[handler[h].step]
    <2>1. /\ handler[h].op = "add" /\ AddFn(h).chain = c
          /\ handler[h].step \in 1..Len(AddFn(h).rules)
      BY <1>3 DEF Inserts, At
    <2>2. handler[h].intf \in Interfaces /\ handler[h].fn \in 1..6
      BY <2>1, Adding
    <2>3. Contains(AddFn(h).rules, r)
      BY <1>3, <2>1 DEF Contains
    <2> QED
      BY <2>1, <2>2, <2>3 DEF RuleOf, AddFn
  <1>4. ~Clears(h, c)
    <2>1. ~Contains(<<>>, r)
      BY DEF Contains
    <2> QED
      BY <2>1 DEF Clears
  <1> QED
    BY <1>1, <1>2, <1>3, <1>4, TableChanges, GrownContains

(* A setup that advances leaves its rule in its chain. *)
LEMMA SetupAdvances ==
    ASSUME TypeOK, NEW h \in Handlers, Work(h), SetsUp(h),
           \/ SetsUp(h)' /\ handler'[h].fn # handler[h].fn
           \/ setupDone' # setupDone
    PROVE  /\ Contains(rules'[SetupFn(h).into], SetupFn(h).rule)
           /\ SetupAdvance(h)
  <1>0. handler[h].op = "setup" /\ handler[h].fn \in 1..4 /\ SetupFn(h).into \in Chains
    BY SettingUp DEF SetsUp, Chains
  <1>1. CASE SetupCheckRule(h)
    <2>1. ~(Return(h) /\ setupDone' = setupDone)
      BY ReturnResult DEF SetsUp, Idle
    <2>2. ~(GoTo(h, handler[h].fn, 2) /\ setupDone' = setupDone)
      BY GoToResult
    <2>3. rules' = rules /\ SetupAdvance(h) /\ Contains(rules[SetupFn(h).into], SetupFn(h).rule)
      BY <1>1, <2>1, <2>2 DEF SetupCheckRule, table
    <2> QED
      BY <2>3
  <1>2. CASE SetupAppend(h)
    <2>1. ~(Return(h) /\ setupDone' = setupDone)
      BY ReturnResult DEF SetsUp, Idle
    <2>2. /\ rules' = [rules EXCEPT ![SetupFn(h).into] = Append(@, SetupFn(h).rule)]
          /\ SetupAdvance(h)
      BY <1>2, <2>1 DEF SetupAppend
    <2>3. Appends(h, SetupFn(h).into)
      BY <1>0, <2>2 DEF Appends, TypeOK
    <2> QED
      BY <1>0, <2>2, <2>3, GrownContains
  <1>3. CASE SetupNewChain(h)
    <2>1. ~Return(h)
      BY <1>3, ReturnResult DEF SetsUp, Idle, SetupNewChain
    <2>2. handler'[h].fn = handler[h].fn /\ setupDone' = setupDone
      BY <1>3, <2>1, GoToResult DEF SetupNewChain
    <2> QED
      BY <2>2
  <1> QED
    BY <1>0, <1>1, <1>2, <1>3 DEF Work, AddNewChain, AddInsert, ClearChain, DeleteChain, At

(* What a setup has appended is there. *)
LEMMA WorkSetupRules ==
    ASSUME TypeOK, SetupRulesThere, NEW h \in Handlers, Work(h)
    PROVE  SetupRulesThere'
  <1> SUFFICES ASSUME NEW n \in 1..4, SetupPast(n)', setupFunctions[n].into \notin wiped'
               PROVE  Contains(rules'[setupFunctions[n].into], setupFunctions[n].rule)
    BY DEF SetupRulesThere, setupFunctions, SetupFunction, Rule, AnyPacket, actionACCEPT,
       actionDROP, chainINPUT, chainFORWARD, chainCallistoSGFallback, chainCallistoSG,
       chainCallistoINPUT, chainCallistoFORWARD
  <1>0. setupFunctions[n].into \in SharedChains \cup BuiltinChains
    BY SetupChains
  <1>1. CASE SetupPast(n)
    <2>1. setupFunctions[n].into \notin wiped
      BY WipedChanges
    <2>2. Contains(rules[setupFunctions[n].into], setupFunctions[n].rule)
      BY <1>1, <2>1 DEF SetupRulesThere
    <2> QED
      BY <1>0, <2>2, ContainsStays
  <1>2. CASE ~SetupPast(n)
    <2>1. \A g \in Handlers : SetsUp(g)' /\ handler'[g].fn > n => g = h
      BY <1>2, OthersStay DEF SetupPast, SetsUp
    <2>2. SetsUp(h)
      <3>1. CASE SetsUp(h)' /\ handler'[h].fn > n
        BY <3>1, NoNewSetup
      <3>2. CASE setupDone'
        <4>1. setupDone' # setupDone
          BY <1>2, <3>2 DEF SetupPast
        <4>2. SetupCheckRule(h) \/ SetupAppend(h)
          BY <4>1 DEF Work, SetupNewChain, AddNewChain, AddInsert, ClearChain, DeleteChain
        <4> QED
          BY <4>2 DEF SetupCheckRule, SetupAppend, At, SetsUp
      <3> QED
        BY <2>1, <3>1, <3>2 DEF SetupPast
    <2>3. handler[h].fn \in 1..4 /\ handler[h].fn <= n
      BY <1>2, <2>2, SettingUp DEF SetupPast, SetsUp
    <2>4. CASE SetsUp(h)' /\ handler'[h].fn > n
      <3>1. handler'[h].fn = handler[h].fn + 1
        BY <2>2, <2>3, <2>4, SetupMoves
      <3>2. handler[h].fn = n
        BY <2>3, <2>4, <3>1
      <3>3. Contains(rules'[SetupFn(h).into], SetupFn(h).rule)
        BY <2>2, <2>3, <2>4, <3>1, SetupAdvances
      <3> QED
        BY <3>2, <3>3 DEF SetupFn
    <2>5. CASE setupDone'
      <3>1. setupDone' # setupDone
        BY <1>2, <2>5 DEF SetupPast
      <3>2. Contains(rules'[SetupFn(h).into], SetupFn(h).rule) /\ SetupAdvance(h)
        BY <2>2, <3>1, SetupAdvances
      <3>3. handler[h].fn = 4
        BY <3>1, <3>2, SetupTable DEF SetupAdvance
      <3>4. n = 4
        BY <2>3, <3>3
      <3> QED
        BY <3>2, <3>3, <3>4 DEF SetupFn
    <2> QED
      BY <2>1, <2>4, <2>5 DEF SetupPast
  <1> QED
    BY <1>1, <1>2

(* Each call of setup is done before a link is added. *)
LEMMA WorkFirst ==
    ASSUME TypeOK, SetupAlone, SetupComesFirst, NEW h \in Handlers, Work(h)
    PROVE  SetupComesFirst'
  <1>0. /\ \A g \in Handlers : g # h => handler'[g] = handler[g]
        /\ chainCallistoSGFallback \in exists => chainCallistoSGFallback \in exists'
    BY OthersStay, FallbackStays
  <1>a. setupDone => setupDone'
    BY DEF Work, SetupNewChain, SetupCheckRule, SetupAppend, SetupAdvance, AddNewChain,
       AddInsert, ClearChain, DeleteChain
  <1>1. ASSUME setupDone' PROVE chainCallistoSGFallback \in exists' /\ \A g \in Handlers : ~SetsUp(g)'
    <2>1. CASE setupDone
      <3>1. chainCallistoSGFallback \in exists /\ \A g \in Handlers : ~SetsUp(g)
        BY <2>1 DEF SetupComesFirst
      <3>2. ~SetsUp(h)'
        BY <3>1, NoNewSetup
      <3> QED
        BY <1>0, <3>1, <3>2 DEF SetsUp
    <2>2. CASE ~setupDone
      <3>1. SetupCheckRule(h) \/ SetupAppend(h)
        BY <1>1, <2>2 DEF Work, SetupNewChain, AddNewChain, AddInsert, ClearChain, DeleteChain
      <3>2. SetsUp(h)
        BY <3>1 DEF SetupCheckRule, SetupAppend, At, SetsUp
      <3>3. SetupAdvance(h) /\ setupDone' # setupDone
        BY <1>1, <2>2, <3>2, SetupAdvances
      <3>4. handler'[h] = Idle
        BY <3>3, ReturnResult DEF SetupAdvance
      <3>5. chainCallistoSGFallback \in exists /\ \A g \in Handlers : SetsUp(g) => g = h
        BY <3>2 DEF SetupAlone
      <3> QED
        BY <1>0, <3>4, <3>5 DEF SetsUp, Idle
    <2> QED
      BY <2>1, <2>2
  <1>2. ASSUME NEW g \in Handlers, handler'[g].op = "add" PROVE setupDone'
    <2>1. handler[g].op = "add"
      BY <1>0, <1>2, SameRequest DEF Idle
    <2> QED
      BY <1>a, <2>1 DEF SetupComesFirst
  <1>3. wiped' = wiped \/ /\ handler[h].op = "add" /\ setupDone
                          /\ wiped' = wiped \cup ({AddFn(h).chain} \cap SharedChains)
    BY WipedChanges DEF SetupComesFirst, At
  <1>4. wiped' # {} => setupDone'
    BY <1>a, <1>3 DEF SetupComesFirst
  <1>5. wiped' \subseteq {chainCallistoSG, chainCallistoFORWARD}
    <2>1. wiped \subseteq {chainCallistoSG, chainCallistoFORWARD}
      BY DEF SetupComesFirst
    <2>2. ASSUME handler[h].op = "add", AddFn(h).chain \in SharedChains
          PROVE  AddFn(h).chain \in {chainCallistoSG, chainCallistoFORWARD}
      <3>1. handler[h].intf \in Interfaces /\ handler[h].fn \in 1..6
        BY <2>2, Adding
      <3>2. handler[h].fn \notin 1..3
        BY <2>2, <3>1, OwnChains DEF AddFn
      <3>3. handler[h].fn = 4 \/ handler[h].fn = 5 \/ handler[h].fn = 6
        BY <3>1, <3>2
      <3> QED
        BY <3>1, <3>3, AddSharedChains DEF AddFn
    <2> QED
      BY <1>3, <2>1, <2>2
  <1>6. ASSUME chainCallistoSG \in wiped' PROVE NoAccept(rules'[chainCallistoSG])
    <2>0. /\ rules \in [Chains -> Seq(Rules)]
          /\ chainCallistoSG \in Chains
      BY ChainNames DEF TypeOK
    <2>1. CASE chainCallistoSG \in wiped
      <3>1. ~SetsUp(h) /\ NoAccept(rules[chainCallistoSG])
        BY <2>1 DEF SetupComesFirst
      <3>2. \/ rules'[chainCallistoSG] = rules[chainCallistoSG]
            \/ \E k \in 1..2, r \in Rules :
                  /\ k <= Len(rules[chainCallistoSG]) + 1 /\ ~Accepts(r)
                  /\ rules'[chainCallistoSG] = InsertRule(rules[chainCallistoSG], k, r)
            \/ rules'[chainCallistoSG] = <<>>
        BY <3>1, SGChanges
      <3>3. ASSUME NEW k \in 1..2, NEW r \in Rules,
                   k <= Len(rules[chainCallistoSG]) + 1, ~Accepts(r),
                   rules'[chainCallistoSG] = InsertRule(rules[chainCallistoSG], k, r)
            PROVE  NoAccept(rules'[chainCallistoSG])
        <4>1. rules[chainCallistoSG] \in Seq(Rules)
          BY <2>0
        <4>2. k \in 1..(Len(rules[chainCallistoSG]) + 1)
          BY <3>3, <4>1
        <4> QED
          BY <3>1, <3>3, <4>1, <4>2, InsertedJump
      <3>4. NoAccept(<<>>)
        BY DEF NoAccept
      <3> QED
        BY <3>1, <3>2, <3>3, <3>4
    <2>2. CASE chainCallistoSG \notin wiped
      <3>1. ClearChain(h) /\ AddFn(h).chain = chainCallistoSG
        BY <1>6, <2>2 DEF Work, SetupNewChain, SetupCheckRule, SetupAppend, AddNewChain,
           AddInsert, ClearChain, DeleteChain
      <3>2. rules'[chainCallistoSG] = <<>>
        BY <1>6, <2>0, <2>2, <3>1 DEF ClearChain
      <3> QED
        BY <3>2 DEF NoAccept
    <2> QED
      BY <2>1, <2>2
  <1> QED
    BY <1>1, <1>2, <1>4, <1>5, <1>6 DEF SetupComesFirst, chainCallistoSGFallback,
       chainCallistoSG, chainCallistoFORWARD, NoAccept, Accepts, actionACCEPT

(* An AddSecurityGroup that advances has inserted the rule it was at. *)
LEMMA AddAdvances ==
    ASSUME TypeOK, NEW h \in Handlers, Work(h), NEW i \in Interfaces, Owns(h, i),
           \/ Owns(h, i)' /\ (handler'[h].fn # handler[h].fn \/ handler'[h].step # handler[h].step)
           \/ granted' # granted,
           handler[h].step > 0
    PROVE  Inserts(h, AddFn(h).chain)
  <1>0. /\ handler[h].op = "add" /\ handler[h].step \in 0..9 /\ AddFn(h).chain \in Chains
        /\ handler[h].step <= Len(AddFn(h).rules) /\ AddFn(h).rules \in Seq(Rules)
    BY Adding DEF Owns
  <1>1. CASE AddInsert(h)
    <2>1. ~(handler' = [handler EXCEPT ![h].phase = "clear"] /\ granted' = granted)
      <3>1. SUFFICES ASSUME handler' = [handler EXCEPT ![h].phase = "clear"], granted' = granted
                     PROVE  FALSE
        OBVIOUS
      <3>2. handler'[h].fn = handler[h].fn /\ handler'[h].step = handler[h].step
        BY <3>1 DEF TypeOK, AddState
      <3> QED
        BY <3>1, <3>2
    <2>2. /\ CanInsert(AddFn(h).chain, handler[h].step, AddFn(h).rules[handler[h].step])
          /\ rules' = [rules EXCEPT ![AddFn(h).chain] =
                          InsertRule(@, handler[h].step, AddFn(h).rules[handler[h].step])]
          /\ AddAdvance(h) /\ At(h, "add", "run")
      BY <1>1, <2>1 DEF AddInsert
    <2>3. handler[h].step \in 1..Len(AddFn(h).rules)
      BY <1>0
    <2>4. handler[h].step \in 1..(Len(rules[AddFn(h).chain]) + 1)
      BY <2>2 DEF CanInsert
    <2>5. rules'[AddFn(h).chain] =
             InsertRule(rules[AddFn(h).chain], handler[h].step, AddFn(h).rules[handler[h].step])
      BY <1>0, <2>2 DEF TypeOK
    <2> QED
      BY <2>2, <2>3, <2>4, <2>5 DEF Inserts
  <1>2. CASE ClearChain(h)
    BY <1>2 DEF ClearChain, TypeOK
  <1>3. CASE DeleteChain(h)
    <2>1. ~Owns(h, i)'
      BY <1>3, ReturnResult DEF DeleteChain
    <2> QED
      BY <1>3, <2>1 DEF DeleteChain
  <1> QED
    BY <1>0, <1>1, <1>2, <1>3 DEF Work, SetupNewChain, SetupCheckRule, SetupAppend, AddNewChain, At

(* Where an owner may get from the command it is at. *)
LEMMA AddMoves ==
    ASSUME TypeOK, NEW h \in Handlers, Work(h), NEW i \in Interfaces, Owns(h, i)
    PROVE  /\ Owns(h, i)' => \/ /\ handler'[h].fn = handler[h].fn
                                /\ handler'[h].step = handler[h].step
                             \/ /\ handler'[h].fn = handler[h].fn
                                /\ handler'[h].step = handler[h].step + 1
                             \/ /\ handler'[h].fn = handler[h].fn + 1
                                /\ handler'[h].step \in 0..1
                                /\ handler[h].step = Len(AddFn(h).rules)
           /\ i \in granted' /\ i \notin granted =>
                 handler[h].fn = 6 /\ handler[h].step = Len(AddFn(h).rules)
  <1>0. /\ handler[h].op = "add" /\ handler[h].intf = i /\ Len(addFunctions(i)) = 6
    BY AddChains DEF Owns
  <1>1. CASE AddInsert(h)
    <2>1. CASE handler' = [handler EXCEPT ![h].phase = "clear"] /\ granted' = granted
      BY <2>1 DEF TypeOK, AddState
    <2>2. CASE GoTo(h, handler[h].fn, handler[h].step + 1) /\ granted' = granted
      BY <2>2, GoToResult
    <2>3. CASE /\ EnterAdd(h, handler[h].fn + 1) /\ granted' = granted
               /\ handler[h].step = Len(AddFn(h).rules)
      <3> DEFINE step == IF addFunctions(i)[handler[h].fn + 1].creates THEN 0 ELSE 1
      <3>1. GoTo(h, handler[h].fn + 1, step)
        BY <1>0, <2>3 DEF EnterAdd
      <3>2. handler'[h].fn = handler[h].fn + 1 /\ handler'[h].step = step
        BY <3>1, GoToResult
      <3> QED
        BY <2>3, <3>2
    <2>4. CASE Return(h) /\ handler[h].step = Len(AddFn(h).rules) /\ handler[h].fn = 6
      BY <2>4, ReturnResult
    <2> QED
      BY <1>0, <1>1, <2>1, <2>2, <2>3, <2>4 DEF AddInsert, AddAdvance
  <1>2. CASE ClearChain(h)
    BY <1>2 DEF ClearChain, TypeOK
  <1>3. CASE DeleteChain(h)
    BY <1>3, ReturnResult DEF DeleteChain
  <1>4. CASE AddNewChain(h)
    <2>1. granted' = granted /\ (Return(h) \/ (GoTo(h, handler[h].fn, 1) /\ handler[h].step = 0))
      BY <1>4 DEF AddNewChain
    <2> QED
      BY <2>1, ReturnResult, GoToResult
  <1> QED
    BY <1>0, <1>1, <1>2, <1>3, <1>4 DEF Work, SetupNewChain, SetupCheckRule, SetupAppend, At

(* What an AddSecurityGroup has inserted into a shared chain is there. *)
LEMMA WorkAddRules ==
    ASSUME TypeOK, AddRulesThere, NEW h \in Handlers, Work(h)
    PROVE  AddRulesThere'
  <1> SUFFICES ASSUME NEW i \in Interfaces, NEW n \in 4..6,
                      NEW k \in 1..Len(addFunctions(i)[n].rules),
                      AddPast(i, n, k)', addFunctions(i)[n].chain \notin wiped'
               PROVE  Contains(rules'[addFunctions(i)[n].chain], addFunctions(i)[n].rules[k])
    BY DEF AddRulesThere
  <1>0. addFunctions(i)[n].chain \in SharedChains
    BY AddChains
  <1>1. CASE AddPast(i, n, k)
    <2>1. addFunctions(i)[n].chain \notin wiped
      BY WipedChanges
    <2>2. Contains(rules[addFunctions(i)[n].chain], addFunctions(i)[n].rules[k])
      BY <1>1, <2>1 DEF AddRulesThere
    <2> QED
      BY <1>0, <2>2, ContainsStays
  <1>2. CASE ~AddPast(i, n, k)
    <2>0. Len(addFunctions(i)[n].rules) \in Nat
      <3>1. addFunctions(i)[n].rules \in Seq(Rules)
        BY AddRules
      <3> QED
        BY <3>1
    <2> DEFINE Behind(g) == n < handler[g].fn \/ (n = handler[g].fn /\ k < handler[g].step)
    <2>1. \A g \in Handlers : Owns(g, i)' /\ Behind(g)' => g = h
      BY <1>2, OthersStay DEF AddPast, Owns
    <2>2. i \notin granted /\ (Owns(h, i) => ~Behind(h))
      BY <1>2 DEF AddPast
    <2>3. i \in granted' \/ (Owns(h, i)' /\ Behind(h)')
      BY <2>1 DEF AddPast
    <2>4. Owns(h, i)
      <3>1. CASE i \in granted'
        BY <2>2, <3>1, GrantedByOwner
      <3>2. CASE Owns(h, i)' /\ Behind(h)' /\ ~Owns(h, i)
        <4>1. GoTo(h, 1, 1)
          BY <3>2, BecomesOwner
        <4>2. handler'[h].fn = 1
          BY <4>1, GoToResult
        <4> QED
          BY <3>2, <4>2
      <3> QED
        BY <2>3, <3>1, <3>2
    <2>5. /\ handler[h].op = "add" /\ handler[h].intf = i
          /\ handler[h].fn \in 1..6 /\ handler[h].step \in 0..9
          /\ handler[h].step <= Len(AddFn(h).rules) /\ Len(AddFn(h).rules) <= 9
          /\ handler[h].step = 0 => AddFn(h).creates
          /\ AddFn(h).rules \in Seq(Rules)
      BY <2>4, Adding DEF Owns
    <2>a. handler[h].fn = n => addFunctions(i)[n] = AddFn(h)
      BY <2>5 DEF AddFn
    <2>6. handler[h].fn = n /\ handler[h].step = k
      <3>1. CASE i \in granted'
        <4>1. handler[h].fn = 6 /\ handler[h].step = Len(AddFn(h).rules)
          BY <2>2, <2>4, <3>1, AddMoves
        <4>2. n = 6
          BY <2>2, <2>4, <4>1
        <4> QED
          BY <2>0, <2>2, <2>4, <2>a, <4>1, <4>2
      <3>2. CASE Owns(h, i)' /\ Behind(h)'
        <4>1. \/ handler'[h].fn = handler[h].fn /\ handler'[h].step = handler[h].step
              \/ handler'[h].fn = handler[h].fn /\ handler'[h].step = handler[h].step + 1
              \/ /\ handler'[h].fn = handler[h].fn + 1 /\ handler'[h].step \in 0..1
                 /\ handler[h].step = Len(AddFn(h).rules)
          BY <2>4, <3>2, AddMoves
        <4>2. ~Behind(h)
          BY <2>2, <2>4
        <4>3. CASE handler'[h].fn = handler[h].fn /\ handler'[h].step = handler[h].step + 1
          BY <2>0, <2>5, <3>2, <4>2, <4>3
        <4>4. CASE /\ handler'[h].fn = handler[h].fn + 1 /\ handler'[h].step \in 0..1
                   /\ handler[h].step = Len(AddFn(h).rules)
          <5>1. handler[h].fn = n
            BY <2>0, <2>5, <3>2, <4>2, <4>4
          <5>2. k <= handler[h].step
            BY <2>0, <2>a, <4>4, <5>1
          <5> QED
            BY <2>0, <2>5, <4>2, <5>1, <5>2
        <4> QED
          BY <3>2, <4>1, <4>2, <4>3, <4>4
      <3> QED
        BY <2>3, <3>1, <3>2
    <2>7. Inserts(h, AddFn(h).chain)
      <3>1. granted' # granted \/ handler'[h].fn # handler[h].fn \/ handler'[h].step # handler[h].step
        BY <2>2, <2>3, <2>4
      <3>2. i \in granted' \/ Owns(h, i)'
        BY <2>3
      <3>3. handler[h].step > 0
        BY <2>0, <2>6
      <3>4. \/ Owns(h, i)' /\ (handler'[h].fn # handler[h].fn \/ handler'[h].step # handler[h].step)
            \/ granted' # granted
        BY <2>2, <3>1, <3>2
      <3> QED
        BY <2>4, <3>3, <3>4, AddAdvances
    <2> QED
      <3>1. AddFn(h).chain \in Chains
        BY <2>5, Adding
      <3> QED
        BY <2>6, <2>7, <2>a, <3>1, GrownContains
  <1> QED
    BY <1>1, <1>2

(* Nothing is set up at first. *)
LEMMA InitTable == Init => TableInv /\ RulesFromTables
  <1> SUFFICES ASSUME Init PROVE TableInv /\ RulesFromTables
    OBVIOUS
  <1>1. TypeOK /\ SetupAlone
    BY InitType, InitHooks DEF HookInv
  <1>2. \A h \in Handlers : handler[h].op = "idle"
    BY DEF Init, Idle
  <1>3. setupDone = FALSE /\ granted = {} /\ wiped = {}
    BY DEF Init
  <1>4. \A h \in Handlers : ~SetsUp(h) /\ \A i \in Interfaces : ~Owns(h, i)
    BY <1>2 DEF SetsUp, Owns
  <1>5. SetupComesFirst
    BY <1>2, <1>3 DEF SetupComesFirst
  <1>6. SetupRulesThere
    BY <1>3, <1>4 DEF SetupRulesThere, SetupPast
  <1>7. AddRulesThere
    BY <1>3, <1>4 DEF AddRulesThere, AddPast
  <1>8. \A c \in Chains : rules[c] = <<>>
    BY DEF Init
  <1>9. RulesFromTables
    BY <1>8 DEF RulesFromTables, Contains
  <1> QED
    BY <1>1, <1>5, <1>6, <1>7, <1>9 DEF TableInv

(* Requests and restarts change no chain. *)
LEMMA OthersRules ==
    ASSUME TypeOK, RulesFromTables, rules' = rules
    PROVE  RulesFromTables'
  <1> SUFFICES ASSUME NEW c \in Chains, NEW r \in Rules, Contains(rules'[c], r)
               PROVE  RuleOf(c, r)
    BY DEF RulesFromTables, Chains, SharedChains, LinkChains, BuiltinChains, Rules,
       chainINPUT, chainFORWARD, chainCallistoSGFallback, chainCallistoSG, chainCallistoINPUT,
       chainCallistoFORWARD, Matches, TrafficClasses, Verdicts, actionACCEPT, actionDROP,
       actionRETURN
  <1> QED
    BY DEF RulesFromTables

(* The chains hold rules of the tables and no others, whatever fails. *)
LEMMA NextRules == TypeOK /\ RulesFromTables /\ [Next]_vars => RulesFromTables'
  <1> SUFFICES ASSUME TypeOK, RulesFromTables, [Next]_vars PROVE RulesFromTables'
    OBVIOUS
  <1>1. CASE \E h \in Handlers : Work(h)
    BY <1>1, WorkRules
  <1>2. CASE \A h \in Handlers : ~Work(h)
    <2>1. rules' = rules
      BY <1>2, NoCommand DEF table
    <2> QED
      BY <2>1, OthersRules
  <1> QED
    BY <1>1, <1>2

(* A step that is no command. *)
LEMMA OthersTable ==
    ASSUME SetupFirst, TableInv, TypeOK', [Next]_vars, \A h \in Handlers : ~Work(h)
    PROVE  TableInv'
  <1>0. TypeOK /\ SetupAlone /\ SetupComesFirst
    BY DEF TableInv
  <1>1. /\ exists' = exists /\ rules' = rules /\ wiped' = wiped /\ granted' = granted
        /\ \A h \in Handlers :
              /\ handler'[h] # handler[h] /\ handler'[h] # Idle
                    => handler'[h].fn = 1 /\ handler'[h].step = 0
              /\ SetsUp(h)' => SetsUp(h) /\ handler'[h] = handler[h]
    BY <1>0, NoCommand DEF table
  <1>2. setupDone' = setupDone
    BY DEF Next, SetupDefaultSecurityGroup, AddSecurityGroup, AgentRestart, vars
  <1>3. ASSUME NEW g \in Handlers, handler'[g].op = "add" PROVE setupDone
    <2>1. CASE handler'[g] = handler[g]
      BY <1>0, <1>3, <2>1 DEF SetupComesFirst
    <2>2. CASE handler'[g] # handler[g]
      <3>1. ASSUME NEW h \in Handlers, SetupDefaultSecurityGroup(h) PROVE FALSE
        <4>1. handler' = [handler EXCEPT ![h] = [op |-> "setup", intf |-> "none", fn |-> 1,
                                                 step |-> 0, phase |-> "run"]]
          BY <3>1 DEF SetupDefaultSecurityGroup, Begin
        <4> QED
          BY <1>0, <1>3, <2>2, <4>1 DEF TypeOK
      <3>2. ASSUME NEW h \in Handlers, NEW i \in Interfaces, AddSecurityGroup(h, i) PROVE setupDone
        BY <3>2 DEF AddSecurityGroup
      <3>3. ~AgentRestart
        BY <1>3 DEF AgentRestart, Idle
      <3>4. ~UNCHANGED vars
        BY <2>2 DEF vars
      <3> QED
        BY <3>1, <3>2, <3>3, <3>4 DEF Next
    <2> QED
      BY <2>1, <2>2
  <1>4. SetupAlone'
    BY <1>0, <1>1 DEF SetupAlone, chainCallistoSGFallback
  <1>5. SetupComesFirst'
    BY <1>0, <1>1, <1>2, <1>3 DEF SetupComesFirst, chainCallistoSGFallback, chainCallistoSG,
       chainCallistoFORWARD, NoAccept, Accepts, actionACCEPT
  <1>6. SetupRulesThere'
    <2> SUFFICES ASSUME NEW n \in 1..4, SetupPast(n)', setupFunctions[n].into \notin wiped'
                 PROVE  Contains(rules'[setupFunctions[n].into], setupFunctions[n].rule)
      BY DEF SetupRulesThere, setupFunctions, SetupFunction, Rule, AnyPacket, actionACCEPT,
         actionDROP, chainINPUT, chainFORWARD, chainCallistoSGFallback, chainCallistoSG,
         chainCallistoINPUT, chainCallistoFORWARD
    <2>1. SetupPast(n)
      BY <1>1, <1>2 DEF SetupPast
    <2> QED
      BY <1>1, <2>1 DEF TableInv, SetupRulesThere
  <1>7. AddRulesThere'
    <2>1. \A h \in Handlers, i \in Interfaces : Owns(h, i)' => handler'[h] = handler[h]
      BY <1>1 DEF Owns, Idle
    <2> SUFFICES ASSUME NEW i \in Interfaces, NEW n \in 4..6,
                        NEW k \in 1..Len(addFunctions(i)[n].rules),
                        AddPast(i, n, k)', addFunctions(i)[n].chain \notin wiped'
                 PROVE  Contains(rules'[addFunctions(i)[n].chain], addFunctions(i)[n].rules[k])
      BY DEF AddRulesThere
    <2>2. AddPast(i, n, k)
      BY <1>1, <2>1 DEF AddPast, Owns
    <2> QED
      BY <1>1, <2>2 DEF TableInv, AddRulesThere
  <1> QED
    BY <1>4, <1>5, <1>6, <1>7 DEF TableInv

(* Where clients wait for the setup, every rule that a finished step of a  *)
(* setup or of an AddSecurityGroup stands for is there, unless its chain   *)
(* has been wiped.                                                         *)
LEMMA NextTable == ASSUME SetupFirst PROVE TableInv /\ [Next]_vars => TableInv'
  <1> SUFFICES ASSUME TableInv, [Next]_vars PROVE TableInv'
    OBVIOUS
  <1>0. TypeOK /\ TypeOK'
    BY NextType DEF TableInv
  <1>1. ASSUME NEW h \in Handlers, Work(h) PROVE TableInv'
    BY <1>0, <1>1, WorkSetupAlone, WorkFirst, WorkSetupRules, WorkAddRules DEF TableInv
  <1>2. CASE \A h \in Handlers : ~Work(h)
    BY <1>0, <1>2, OthersTable
  <1> QED
    BY <1>1, <1>2

------------------------------------------------------------------------------
(* What the chains contain *)

(* The rules of addFunctions and setupFunctions, by function. *)
LEMMA RuleLists ==
    ASSUME NEW i \in Interfaces
    PROVE  /\ addFunctions(i)[1].rules = << Rule(AllowedPair(i), actionRETURN),
                                            Rule(AnyPacket, actionDROP) >>
           /\ addFunctions(i)[2].rules = << Rule(Traffic("dhcp-client"), actionRETURN),
                                            Rule(AnyPacket, getSOURCEChainName(i)),
                                            Rule(Traffic("dhcp-server"), actionDROP),
                                            Rule(Traffic("established"), actionRETURN),
                                            Rule(Traffic("tcp"), actionRETURN),
                                            Rule(Traffic("udp"), actionRETURN),
                                            Rule(Traffic("icmp"), actionRETURN),
                                            Rule(AnyPacket, actionRETURN),
                                            Rule(AnyPacket, chainCallistoSGFallback) >>
           /\ addFunctions(i)[3].rules = << Rule(Traffic("established"), actionRETURN),
                                            Rule(Traffic("dhcp-server"), actionRETURN),
                                            Rule(Traffic("tcp"), actionRETURN),
                                            Rule(Traffic("udp"), actionRETURN),
                                            Rule(Traffic("icmp"), actionRETURN),
                                            Rule(AnyPacket, chainCallistoSGFallback) >>
           /\ addFunctions(i)[4].rules = << Rule(PhysdevOut(i), getINPUTChainName(i)),
                                            Rule(PhysdevIn(i), getOUTPUTChainName(i)) >>
           /\ addFunctions(i)[5].rules = << Rule(PhysdevIn(i), getOUTPUTChainName(i)) >>
           /\ addFunctions(i)[6].rules = << Rule(PhysdevOut(i), chainCallistoSG),
                                            Rule(PhysdevIn(i), chainCallistoSG) >>
  BY DEF addFunctions, AddFunction, addSOURCESGRules, addOUTPUTSGRules, addINPUTSGRules,
     addSGRules, addINPUTRules, addFORWARDRules

(* The rules of the setup. *)
LEMMA SetupRules ==
    /\ setupFunctions[1].rule = Rule(AnyPacket, actionDROP)
    /\ setupFunctions[2].rule = Rule(AnyPacket, actionACCEPT)
    /\ setupFunctions[3].rule = Rule(AnyPacket, chainCallistoINPUT)
    /\ setupFunctions[4].rule = Rule(AnyPacket, chainCallistoFORWARD)
  BY DEF setupFunctions, SetupFunction

(* The rules of a link's output and input chains one by one. *)
LEMMA OutputList ==
    ASSUME NEW i \in Interfaces, NEW rs, rs = addFunctions(i)[2].rules
    PROVE  /\ Len(rs) = 9
           /\ rs[1] = Rule(Traffic("dhcp-client"), actionRETURN)
           /\ rs[2] = Rule(AnyPacket, getSOURCEChainName(i))
           /\ rs[3] = Rule(Traffic("dhcp-server"), actionDROP)
           /\ rs[4] = Rule(Traffic("established"), actionRETURN)
           /\ rs[5] = Rule(Traffic("tcp"), actionRETURN)
           /\ rs[6] = Rule(Traffic("udp"), actionRETURN)
           /\ rs[7] = Rule(Traffic("icmp"), actionRETURN)
           /\ rs[8] = Rule(AnyPacket, actionRETURN)
           /\ rs[9] = Rule(AnyPacket, chainCallistoSGFallback)
  <1> DEFINE list == << Rule(Traffic("dhcp-client"), actionRETURN),
                        Rule(AnyPacket, getSOURCEChainName(i)),
                        Rule(Traffic("dhcp-server"), actionDROP),
                        Rule(Traffic("established"), actionRETURN),
                        Rule(Traffic("tcp"), actionRETURN),
                        Rule(Traffic("udp"), actionRETURN),
                        Rule(Traffic("icmp"), actionRETURN),
                        Rule(AnyPacket, actionRETURN),
                        Rule(AnyPacket, chainCallistoSGFallback) >>
  <1>1. rs = list
    BY RuleLists
  <1>2. Len(list) = 9
    OBVIOUS
  <1> QED
    BY <1>1, <1>2

(* Those of the input chain. *)
LEMMA InputList ==
    ASSUME NEW i \in Interfaces, NEW rs, rs = addFunctions(i)[3].rules
    PROVE  /\ Len(rs) = 6
           /\ rs[1] = Rule(Traffic("established"), actionRETURN)
           /\ rs[2] = Rule(Traffic("dhcp-server"), actionRETURN)
           /\ rs[3] = Rule(Traffic("tcp"), actionRETURN)
           /\ rs[4] = Rule(Traffic("udp"), actionRETURN)
           /\ rs[5] = Rule(Traffic("icmp"), actionRETURN)
           /\ rs[6] = Rule(AnyPacket, chainCallistoSGFallback)
  <1> DEFINE list == << Rule(Traffic("established"), actionRETURN),
                        Rule(Traffic("dhcp-server"), actionRETURN),
                        Rule(Traffic("tcp"), actionRETURN),
                        Rule(Traffic("udp"), actionRETURN),
                        Rule(Traffic("icmp"), actionRETURN),
                        Rule(AnyPacket, chainCallistoSGFallback) >>
  <1>1. rs = list
    BY RuleLists
  <1>2. Len(list) = 6
    OBVIOUS
  <1> QED
    BY <1>1, <1>2

(* The rules in a link's own chains jump no further than its source chain  *)
(* and the fallback, and none of them accepts.                             *)
LEMMA OwnTargets ==
    ASSUME NEW i \in Interfaces
    PROVE  /\ \A r : Contains(addFunctions(i)[1].rules, r) => r.target \in {actionRETURN, actionDROP}
           /\ \A n \in 2..3 : \A r : Contains(addFunctions(i)[n].rules, r) =>
                 r.target \in {actionRETURN, actionDROP, getSOURCEChainName(i),
                               chainCallistoSGFallback}
  <1>1. \A m, t : Rule(m, t).target = t
    BY DEF Rule
  <1> DEFINE ts == {actionRETURN, actionDROP, getSOURCEChainName(i), chainCallistoSGFallback}
  <1>2. ASSUME NEW r, Contains(addFunctions(i)[1].rules, r)
        PROVE  r.target \in {actionRETURN, actionDROP}
    <2>1. addFunctions(i)[1].rules = << Rule(AllowedPair(i), actionRETURN),
                                        Rule(AnyPacket, actionDROP) >>
      BY RuleLists
    <2>2. r = Rule(AllowedPair(i), actionRETURN) \/ r = Rule(AnyPacket, actionDROP)
      BY <1>2, <2>1 DEF Contains
    <2> QED
      BY <1>1, <2>2
  <1>3. ASSUME NEW r, Contains(addFunctions(i)[2].rules, r) PROVE r.target \in ts
    <2> DEFINE rs == addFunctions(i)[2].rules
    <2>1. Len(rs) = 9
      BY OutputList
    <2>2. /\ rs[1].target = actionRETURN /\ rs[2].target = getSOURCEChainName(i)
          /\ rs[3].target = actionDROP   /\ rs[4].target = actionRETURN
          /\ rs[5].target = actionRETURN /\ rs[6].target = actionRETURN
          /\ rs[7].target = actionRETURN /\ rs[8].target = actionRETURN
          /\ rs[9].target = chainCallistoSGFallback
      BY <1>1, OutputList
    <2>3. PICK k \in 1..9 : rs[k] = r
      BY <1>3, <2>1 DEF Contains
    <2> HIDE DEF rs
    <2>4. k = 1 \/ k = 2 \/ k = 3 \/ k = 4 \/ k = 5 \/ k = 6 \/ k = 7 \/ k = 8 \/ k = 9
      OBVIOUS
    <2> QED
      BY <2>2, <2>3, <2>4
  <1>4. ASSUME NEW r, Contains(addFunctions(i)[3].rules, r) PROVE r.target \in ts
    <2> DEFINE rs == addFunctions(i)[3].rules
    <2>1. Len(rs) = 6
      BY InputList
    <2>2. /\ rs[1].target = actionRETURN /\ rs[2].target = actionRETURN
          /\ rs[3].target = actionRETURN /\ rs[4].target = actionRETURN
          /\ rs[5].target = actionRETURN /\ rs[6].target = chainCallistoSGFallback
      BY <1>1, InputList
    <2>3. PICK k \in 1..6 : rs[k] = r
      BY <1>4, <2>1 DEF Contains
    <2> HIDE DEF rs
    <2>4. k = 1 \/ k = 2 \/ k = 3 \/ k = 4 \/ k = 5 \/ k = 6
      OBVIOUS
    <2> QED
      BY <2>2, <2>3, <2>4
  <1>5. \A n \in 2..3 : n = 2 \/ n = 3
    OBVIOUS
  <1> QED
    BY <1>2, <1>3, <1>4, <1>5

(* All these chains are different ones. *)
LEMMA SharedNames ==
    /\ chainFORWARD \notin SharedChains \cup LinkChains
    /\ chainINPUT \notin SharedChains \cup LinkChains
    /\ chainFORWARD # chainINPUT
    /\ chainCallistoFORWARD # chainCallistoSG /\ chainCallistoFORWARD # chainCallistoSGFallback
    /\ chainCallistoFORWARD # chainCallistoINPUT /\ chainCallistoINPUT # chainCallistoSG
    /\ chainCallistoINPUT # chainCallistoSGFallback /\ chainCallistoSG # chainCallistoSGFallback
    /\ \A c \in SharedChains : c \notin LinkChains
    /\ SharedChains = {chainCallistoSGFallback, chainCallistoSG, chainCallistoINPUT,
                       chainCallistoFORWARD}
  <1>1. /\ chainCallistoFORWARD # chainCallistoSG /\ chainCallistoFORWARD # chainCallistoSGFallback
        /\ chainCallistoFORWARD # chainCallistoINPUT /\ chainCallistoINPUT # chainCallistoSG
        /\ chainCallistoINPUT # chainCallistoSGFallback
    BY DEF chainCallistoSGFallback, chainCallistoSG, chainCallistoINPUT, chainCallistoFORWARD
  <1>2. SharedChains = {chainCallistoSGFallback, chainCallistoSG, chainCallistoINPUT,
                        chainCallistoFORWARD}
    BY DEF SharedChains
  <1>3. /\ chainCallistoSGFallback \notin LinkChains /\ chainCallistoSG \notin LinkChains
        /\ chainCallistoINPUT \notin LinkChains /\ chainCallistoFORWARD \notin LinkChains
    BY DEF chainCallistoSGFallback, chainCallistoSG, chainCallistoINPUT, chainCallistoFORWARD,
       LinkChains
  <1> QED
    BY <1>1, <1>2, <1>3, ChainNames

(* What the tables put into each kind of chain. *)
LEMMA TableRules ==
    ASSUME NEW c \in Chains, NEW r, RuleOf(c, r)
    PROVE  /\ c = chainFORWARD => r = Rule(AnyPacket, chainCallistoFORWARD)
           /\ c = chainINPUT => r = Rule(AnyPacket, chainCallistoINPUT)
           /\ c # chainCallistoINPUT
           /\ c = chainCallistoSGFallback => r = Rule(AnyPacket, actionDROP)
           /\ c = chainCallistoFORWARD =>
                 \E i \in Interfaces : \/ r = Rule(PhysdevIn(i), getOUTPUTChainName(i))
                                       \/ r = Rule(PhysdevOut(i), chainCallistoSG)
                                       \/ r = Rule(PhysdevIn(i), chainCallistoSG)
           /\ c = chainCallistoSG =>
                 \/ r = Rule(AnyPacket, actionACCEPT)
                 \/ \E i \in Interfaces : \/ r = Rule(PhysdevOut(i), getINPUTChainName(i))
                                          \/ r = Rule(PhysdevIn(i), getOUTPUTChainName(i))
           /\ c \in LinkChains =>
                 \E i \in Interfaces :
                    \/ c = getSOURCEChainName(i) /\ r.target \in {actionRETURN, actionDROP}
                    \/ /\ c \in {getOUTPUTChainName(i), getINPUTChainName(i)}
                       /\ r.target \in {actionRETURN, actionDROP, getSOURCEChainName(i),
                                        chainCallistoSGFallback}
  <1> USE SharedNames
  <1>1. CASE \E n \in 1..4 : setupFunctions[n].into = c /\ setupFunctions[n].rule = r
    <2>1. PICK n \in 1..4 : setupFunctions[n].into = c /\ setupFunctions[n].rule = r
      BY <1>1
    <2>2. n = 1 \/ n = 2 \/ n = 3 \/ n = 4
      OBVIOUS
    <2> QED
      BY <2>1, <2>2, SetupTable, SetupRules
  <1>2. CASE \E i \in Interfaces, n \in 1..6 : /\ addFunctions(i)[n].chain = c
                                               /\ Contains(addFunctions(i)[n].rules, r)
    <2>1. PICK i \in Interfaces, n \in 1..6 : /\ addFunctions(i)[n].chain = c
                                              /\ Contains(addFunctions(i)[n].rules, r)
      BY <1>2
    <2>2. n = 1 \/ n = 2 \/ n = 3 \/ n = 4 \/ n = 5 \/ n = 6
      OBVIOUS
    <2>3. CASE n = 4
      <3>1. c = chainCallistoSG
        BY <2>1, <2>3, AddSharedChains
      <3>2. r = Rule(PhysdevOut(i), getINPUTChainName(i)) \/ r = Rule(PhysdevIn(i), getOUTPUTChainName(i))
        BY <2>1, <2>3, RuleLists DEF Contains
      <3> QED
        BY <3>1, <3>2
    <2>4. CASE n = 5 \/ n = 6
      <3>1. c = chainCallistoFORWARD
        BY <2>1, <2>4, AddSharedChains
      <3>2. \/ r = Rule(PhysdevIn(i), getOUTPUTChainName(i))
            \/ r = Rule(PhysdevOut(i), chainCallistoSG) \/ r = Rule(PhysdevIn(i), chainCallistoSG)
        BY <2>1, <2>4, RuleLists DEF Contains
      <3> QED
        BY <3>1, <3>2
    <2>5. CASE n \in 1..3
      <3>1. c \in LinkChains
        BY <2>1, <2>5, OwnChains
      <3>2. /\ n = 1 => c = getSOURCEChainName(i)
            /\ n = 2 => c = getOUTPUTChainName(i)
            /\ n = 3 => c = getINPUTChainName(i)
        BY <2>1, AddChains DEF getSOURCEChainName, getOUTPUTChainName, getINPUTChainName,
           getValidChainName
      <3>3. CASE n = 1
        <4>1. r.target \in {actionRETURN, actionDROP}
          BY <2>1, <3>3, OwnTargets
        <4> QED
          BY <3>1, <3>2, <3>3, <4>1
      <3>4. CASE n = 2
        <4>1. r.target \in {actionRETURN, actionDROP, getSOURCEChainName(i), chainCallistoSGFallback}
          BY <2>1, <3>4, OwnTargets
        <4> QED
          BY <3>1, <3>2, <3>4, <4>1
      <3>5. CASE n = 3
        <4>1. r.target \in {actionRETURN, actionDROP, getSOURCEChainName(i), chainCallistoSGFallback}
          BY <2>1, <3>5, OwnTargets
        <4> QED
          BY <3>1, <3>2, <3>5, <4>1
      <3> QED
        BY <2>5, <3>3, <3>4, <3>5
    <2> QED
      BY <2>2, <2>3, <2>4, <2>5
  <1> QED
    BY <1>1, <1>2 DEF RuleOf

------------------------------------------------------------------------------
(* Walks through the chains *)

(* What each kind of rule matches. *)
LEMMA Matching ==
    ASSUME NEW p
    PROVE  /\ Matched(p, AnyPacket)
           /\ \A i : Matched(p, PhysdevIn(i)) <=> Bridged(p) /\ p.in = i
           /\ \A i : Matched(p, PhysdevOut(i)) <=> Bridged(p) /\ p.out = i
           /\ \A i : Matched(p, AllowedPair(i)) <=> p.src = i
           /\ \A class \in TrafficClasses : Matched(p, Traffic(class)) <=> InClass(p, class)
  <1>1. \A i : PhysdevIn(i)[1] = "physdev-in" /\ PhysdevIn(i)[2] = i
    BY DEF PhysdevIn
  <1>2. \A i : PhysdevOut(i)[1] = "physdev-out" /\ PhysdevOut(i)[2] = i
    BY DEF PhysdevOut
  <1>3. \A i : AllowedPair(i)[1] = "pair" /\ AllowedPair(i)[2] = i
    BY DEF AllowedPair
  <1>4. AnyPacket[1] = "any" /\ InClass(p, "any")
    BY DEF AnyPacket, InClass
  <1>5. \A class : Traffic(class)[1] = class
    BY DEF Traffic
  <1> QED
    BY <1>1, <1>2, <1>3, <1>4, <1>5 DEF Matched, TrafficClasses

(* What a rule says of a packet that matches. *)
LEMMA Answers ==
    ASSUME NEW p, NEW after, NEW m, NEW t
    PROVE  /\ ~Matched(p, m) => Answer(Rule(m, t), p, after) = Continue
           /\ Matched(p, m) /\ t \in Verdicts => Answer(Rule(m, t), p, after) = t
           /\ Matched(p, m) /\ t \notin Verdicts =>
                 Answer(Rule(m, t), p, after) =
                    IF after[t] = actionRETURN THEN Continue ELSE after[t]
  <1>1. Rule(m, t).match = m /\ Rule(m, t).target = t
    BY DEF Rule
  <1> QED
    BY <1>1 DEF Answer

(* The verdicts are three, none of them a chain. *)
LEMMA VerdictNames ==
    /\ Verdicts = {actionACCEPT, actionDROP, actionRETURN}
    /\ actionACCEPT # actionDROP /\ actionACCEPT # actionRETURN /\ actionDROP # actionRETURN
    /\ Continue \notin Verdicts
    /\ \A c \in Chains : c \notin Verdicts
  <1>1. Verdicts = {actionACCEPT, actionDROP, actionRETURN}
    BY DEF Verdicts
  <1>2. actionACCEPT # actionDROP /\ actionACCEPT # actionRETURN /\ actionDROP # actionRETURN
    BY DEF actionACCEPT, actionDROP, actionRETURN
  <1>3. Continue # actionACCEPT /\ Continue # actionDROP /\ Continue # actionRETURN
    BY DEF actionACCEPT, actionDROP, actionRETURN, Continue
  <1>4. actionACCEPT \notin BuiltinChains /\ actionDROP \notin BuiltinChains
        /\ actionRETURN \notin BuiltinChains
    BY DEF BuiltinChains, chainINPUT, chainFORWARD, actionACCEPT, actionDROP, actionRETURN
  <1>5. actionACCEPT \notin SharedChains /\ actionDROP \notin SharedChains
        /\ actionRETURN \notin SharedChains
    BY DEF SharedChains, chainCallistoSGFallback, chainCallistoSG, chainCallistoINPUT,
       chainCallistoFORWARD, actionACCEPT, actionDROP, actionRETURN
  <1>6. actionACCEPT \notin LinkChains /\ actionDROP \notin LinkChains
        /\ actionRETURN \notin LinkChains
    BY DEF LinkChains, actionACCEPT, actionDROP, actionRETURN
  <1> QED
    BY <1>1, <1>2, <1>3, <1>4, <1>5, <1>6 DEF Chains

(* Where all rules that do not let a packet go on say the same of it, and  *)
(* one does, the chain says so.                                            *)
LEMMA SameAnswer ==
    ASSUME NEW c, rules[c] \in Seq(Rules), NEW p, NEW after, NEW v, v # Continue,
           \A r \in Rules : Contains(rules[c], r) => Answer(r, p, after) \in {Continue, v},
           NEW r \in Rules, Contains(rules[c], r), Answer(r, p, after) = v
    PROVE  Through(c, p, after) = v
  <1>1. PICK k \in DOMAIN rules[c] : rules[c][k] = r
    BY DEF Contains
  <1>2. PICK j \in DOMAIN rules[c] : /\ Answer(rules[c][j], p, after) # Continue
                                     /\ Through(c, p, after) = Answer(rules[c][j], p, after)
    BY <1>1, StoppedBy
  <1>3. rules[c][j] \in Rules /\ Contains(rules[c], rules[c][j])
    BY DEF Contains
  <1> QED
    BY <1>2, <1>3

(* Whatever the rules say of a packet, the chain says or returns. *)
LEMMA SomeAnswer ==
    ASSUME NEW c, rules[c] \in Seq(Rules), NEW p, NEW after, NEW vs,
           \A r \in Rules : Contains(rules[c], r) => Answer(r, p, after) \in vs \cup {Continue}
    PROVE  Through(c, p, after) \in vs \cup {actionRETURN}
  <1>1. \A j \in DOMAIN rules[c] : rules[c][j] \in Rules /\ Contains(rules[c], rules[c][j])
    BY DEF Contains
  <1>2. \/ Through(c, p, after) = actionRETURN
        \/ \E j \in DOMAIN rules[c] : /\ Answer(rules[c][j], p, after) # Continue
                                      /\ Through(c, p, after) = Answer(rules[c][j], p, after)
    BY FirstAnswer
  <1> QED
    BY <1>1, <1>2

(* The rules in front of the k-th let the packet go on, or say v as well. *)
GoesOnTo(rs, k, p, after, v) ==
    \A j \in 1..Len(rs) : j < k => Answer(rs[j], p, after) \in {Continue, v}

(* Then a k-th rule that says v decides. *)
LEMMA FirstOf ==
    ASSUME NEW c, NEW rs \in Seq(Rules), rules[c] = rs, NEW p, NEW after,
           NEW k \in 1..Len(rs), NEW v, v # Continue, Answer(rs[k], p, after) = v,
           GoesOnTo(rs, k, p, after, v)
    PROVE  Through(c, p, after) = v
  <1>1. DOMAIN rs = 1..Len(rs) /\ Len(rs) \in Nat
    OBVIOUS
  <1>2. PICK j \in DOMAIN rs : /\ j <= k /\ Answer(rs[j], p, after) # Continue
                               /\ Through(c, p, after) = Answer(rs[j], p, after)
    BY <1>1, StoppedBy
  <1>3. j = k \/ j < k
    BY <1>1, <1>2
  <1> QED
    BY <1>1, <1>2, <1>3 DEF GoesOnTo

(* What holds of the tables and of the goroutines between the steps. *)
TrafficInv == LinkInv /\ AcceptInv /\ TableInv /\ RulesFromTables

(* The source chain of a granted link returns the link's own pair and      *)
(* drops every other.                                                      *)
LEMMA SourceWalk ==
    ASSUME TrafficInv, NEW i \in granted, NEW p, NEW after
    PROVE  Through(getSOURCEChainName(i), p, after) =
              IF p.src = i THEN actionRETURN ELSE actionDROP
  <1>0. i \in Interfaces
    BY DEF TrafficInv, LinkInv, TypeOK
  <1> DEFINE c == getSOURCEChainName(i)
             r1 == Rule(AllowedPair(i), actionRETURN)
             r2 == Rule(AnyPacket, actionDROP)
  <1>1. rules[c] = addFunctions(i)[1].rules
    <2>1. addFunctions(i)[1].chain = c
      BY <1>0, AddChains DEF getSOURCEChainName, getValidChainName
    <2> QED
      BY <2>1 DEF TrafficInv, LinkInv, GrantedChainsIntact
  <1>2. addFunctions(i)[1].rules = <<r1, r2>> /\ addFunctions(i)[1].rules \in Seq(Rules)
    BY <1>0, RuleLists, AddRules
  <1>3. Answer(r1, p, after) = IF p.src = i THEN actionRETURN ELSE Continue
    BY Matching, Answers, VerdictNames
  <1>4. Answer(r2, p, after) = actionDROP
    BY Matching, Answers, VerdictNames
  <1> HIDE DEF r1, r2
  <1> DEFINE rs == <<r1, r2>>
  <1>5. rs \in Seq(Rules) /\ Len(rs) = 2 /\ rs[1] = r1 /\ rs[2] = r2 /\ rules[c] = rs
    BY <1>1, <1>2
  <1> HIDE DEF rs, c
  <1>6. CASE p.src = i
    <2>1. GoesOnTo(rs, 1, p, after, actionRETURN)
      BY <1>5 DEF GoesOnTo
    <2>2. Answer(rs[1], p, after) = actionRETURN /\ actionRETURN # Continue /\ 1 \in 1..Len(rs)
      BY <1>3, <1>5, <1>6, VerdictNames
    <2>3. Through(c, p, after) = actionRETURN
      BY <1>5, <2>1, <2>2, FirstOf
    <2> QED
      BY <1>6, <2>3 DEF c
  <1>7. CASE p.src # i
    <2>1. GoesOnTo(rs, 2, p, after, actionDROP)
      BY <1>3, <1>5, <1>7 DEF GoesOnTo
    <2>2. Answer(rs[2], p, after) = actionDROP /\ actionDROP # Continue /\ 2 \in 1..Len(rs)
      BY <1>4, <1>5, VerdictNames
    <2>3. Through(c, p, after) = actionDROP
      BY <1>5, <2>1, <2>2, FirstOf
    <2> QED
      BY <1>7, <2>3 DEF c
  <1> QED
    BY <1>6, <1>7

(* What the output chain of a granted link says, when its source chain has *)
(* checked the packet: it drops what the source chain drops, DHCP clients  *)
(* apart, and what a DHCP server sends, and returns everything else.       *)
LEMMA OutputWalk ==
    ASSUME TrafficInv, NEW i \in granted, NEW p \in Packets, NEW after,
           after[getSOURCEChainName(i)] = IF p.src = i THEN actionRETURN ELSE actionDROP
    PROVE  Through(getOUTPUTChainName(i), p, after) =
              IF p.class # "dhcp-client" /\ (p.src # i \/ p.class = "dhcp-server")
              THEN actionDROP ELSE actionRETURN
  <1>0. i \in Interfaces
    BY DEF TrafficInv, LinkInv, TypeOK
  <1> DEFINE c == getOUTPUTChainName(i)
             rs == addFunctions(i)[2].rules
             ans(k) == Answer(rs[k], p, after)
  <1>1. rules[c] = rs /\ rs \in Seq(Rules)
    <2>1. addFunctions(i)[2].chain = c
      BY <1>0, AddChains DEF getOUTPUTChainName, getValidChainName
    <2>2. rules[c] = rs
      BY <2>1 DEF TrafficInv, LinkInv, GrantedChainsIntact
    <2> QED
      BY <1>0, <2>2, AddRules
  <1>2. /\ Len(rs) = 9
        /\ rs[1] = Rule(Traffic("dhcp-client"), actionRETURN)
        /\ rs[2] = Rule(AnyPacket, getSOURCEChainName(i))
        /\ rs[3] = Rule(Traffic("dhcp-server"), actionDROP)
        /\ rs[4] = Rule(Traffic("established"), actionRETURN)
        /\ rs[5] = Rule(Traffic("tcp"), actionRETURN)
        /\ rs[6] = Rule(Traffic("udp"), actionRETURN)
        /\ rs[7] = Rule(Traffic("icmp"), actionRETURN)
        /\ rs[8] = Rule(AnyPacket, actionRETURN)
    BY <1>0, OutputList
  <1> HIDE DEF rs
  <1>3. p.class \in Classes
    BY DEF Packets
  <1>4. /\ InClass(p, "dhcp-client") <=> p.class = "dhcp-client"
        /\ InClass(p, "dhcp-server") <=> p.class = "dhcp-server"
    BY <1>3 DEF InClass, Classes
  <1>5. ans(1) = IF p.class = "dhcp-client" THEN actionRETURN ELSE Continue
    <2>1. Matched(p, Traffic("dhcp-client")) <=> p.class = "dhcp-client"
      BY <1>4, Matching DEF TrafficClasses
    <2> QED
      BY <1>2, <2>1, Answers, VerdictNames
  <1>6. ans(2) = IF p.src = i THEN Continue ELSE actionDROP
    <2>1. getSOURCEChainName(i) \in Chains
      BY <1>0 DEF getSOURCEChainName, getValidChainName, Chains, LinkChains
    <2>2. getSOURCEChainName(i) \notin Verdicts /\ Matched(p, AnyPacket)
      BY <2>1, VerdictNames, Matching
    <2> QED
      BY <1>2, <2>2, Answers, VerdictNames
  <1>7. ans(3) = IF p.class = "dhcp-server" THEN actionDROP ELSE Continue
    <2>1. Matched(p, Traffic("dhcp-server")) <=> p.class = "dhcp-server"
      BY <1>4, Matching DEF TrafficClasses
    <2> QED
      BY <1>2, <2>1, Answers, VerdictNames
  <1>8. \A m : Answer(Rule(m, actionRETURN), p, after) \in {Continue, actionRETURN}
    BY Answers, VerdictNames
  <1>9. /\ ans(4) \in {Continue, actionRETURN} /\ ans(5) \in {Continue, actionRETURN}
        /\ ans(6) \in {Continue, actionRETURN} /\ ans(7) \in {Continue, actionRETURN}
    BY <1>2, <1>8
  <1>10. ans(8) = actionRETURN
    BY <1>2, Matching, Answers, VerdictNames
  <1>v. actionRETURN # Continue /\ actionDROP # Continue
    BY VerdictNames
  <1> HIDE DEF ans, c
  <1>11. ASSUME NEW k \in 1..9, NEW v, v # Continue, ans(k) = v,
                \A j \in 1..9 : j < k => ans(j) \in {Continue, v}
         PROVE  Through(c, p, after) = v
    <2>1. k \in 1..Len(rs) /\ Answer(rs[k], p, after) = v
      BY <1>2, <1>11 DEF ans
    <2>2. GoesOnTo(rs, k, p, after, v)
      BY <1>2, <1>11 DEF ans, GoesOnTo
    <2> QED
      BY <1>1, <1>11, <2>1, <2>2, FirstOf
  <1>12. CASE p.class = "dhcp-client"
    <2>1. \A j \in 1..9 : ~(j < 1)
      OBVIOUS
    <2>2. Through(c, p, after) = actionRETURN
      BY <1>5, <1>11, <1>12, <1>v, <2>1
    <2> QED
      BY <1>12, <2>2 DEF c
  <1>13. CASE p.class # "dhcp-client" /\ p.src # i
    <2>1. \A j \in 1..9 : j < 2 => ans(j) \in {Continue, actionDROP}
      BY <1>5, <1>13
    <2>2. Through(c, p, after) = actionDROP
      BY <1>6, <1>11, <1>13, <1>v, <2>1
    <2> QED
      BY <1>13, <2>2 DEF c
  <1>14. CASE p.src = i /\ p.class = "dhcp-server"
    <2>1. \A j \in 1..9 : j < 3 => j = 1 \/ j = 2
      OBVIOUS
    <2>2. \A j \in 1..9 : j < 3 => ans(j) \in {Continue, actionDROP}
      BY <1>5, <1>6, <1>14, <2>1
    <2>3. Through(c, p, after) = actionDROP
      BY <1>7, <1>11, <1>14, <1>v, <2>2
    <2> QED
      BY <1>14, <2>3 DEF c
  <1>15. CASE p.class # "dhcp-client" /\ p.src = i /\ p.class # "dhcp-server"
    <2>1. \A j \in 1..9 : j < 8 => j = 1 \/ j = 2 \/ j = 3 \/ j = 4 \/ j = 5 \/ j = 6 \/ j = 7
      OBVIOUS
    <2>2. \A j \in 1..9 : j < 8 => ans(j) \in {Continue, actionRETURN}
      BY <1>5, <1>6, <1>7, <1>9, <1>15, <2>1
    <2>3. Through(c, p, after) = actionRETURN
      BY <1>10, <1>11, <1>v, <2>2
    <2> QED
      BY <1>15, <2>3 DEF c
  <1> QED
    BY <1>12, <1>13, <1>14, <1>15

(* What no rule of the input chain of a granted link lets in goes to the   *)
(* fallback.                                                               *)
LEMMA InputWalk ==
    ASSUME TrafficInv, NEW i \in granted, NEW p, p.class = "other", ~p.established, NEW after,
           after[chainCallistoSGFallback] = actionDROP
    PROVE  Through(getINPUTChainName(i), p, after) = actionDROP
  <1>0. i \in Interfaces
    BY DEF TrafficInv, LinkInv, TypeOK
  <1> DEFINE c == getINPUTChainName(i)
             rs == addFunctions(i)[3].rules
  <1>1. rules[c] = rs /\ rs \in Seq(Rules)
    <2>1. addFunctions(i)[3].chain = c
      BY <1>0, AddChains DEF getINPUTChainName, getValidChainName
    <2>2. rules[c] = rs
      BY <2>1 DEF TrafficInv, LinkInv, GrantedChainsIntact
    <2> QED
      BY <1>0, <2>2, AddRules
  <1>2. /\ Len(rs) = 6
        /\ rs[1] = Rule(Traffic("established"), actionRETURN)
        /\ rs[2] = Rule(Traffic("dhcp-server"), actionRETURN)
        /\ rs[3] = Rule(Traffic("tcp"), actionRETURN)
        /\ rs[4] = Rule(Traffic("udp"), actionRETURN)
        /\ rs[5] = Rule(Traffic("icmp"), actionRETURN)
        /\ rs[6] = Rule(AnyPacket, chainCallistoSGFallback)
    BY <1>0, InputList
  <1> HIDE DEF rs, c
  <1>3. /\ ~InClass(p, "established") /\ ~InClass(p, "dhcp-server") /\ ~InClass(p, "tcp")
        /\ ~InClass(p, "udp") /\ ~InClass(p, "icmp")
    BY DEF InClass
  <1>4. /\ ~Matched(p, Traffic("established")) /\ ~Matched(p, Traffic("dhcp-server"))
        /\ ~Matched(p, Traffic("tcp")) /\ ~Matched(p, Traffic("udp"))
        /\ ~Matched(p, Traffic("icmp"))
    BY <1>3, Matching DEF TrafficClasses
  <1>5. \A m : ~Matched(p, m) => Answer(Rule(m, actionRETURN), p, after) = Continue
    BY Answers
  <1>6. GoesOnTo(rs, 6, p, after, actionDROP)
    <2>1. \A j \in 1..Len(rs) : j < 6 => j = 1 \/ j = 2 \/ j = 3 \/ j = 4 \/ j = 5
      BY <1>2
    <2> QED
      BY <1>2, <1>4, <1>5, <2>1 DEF GoesOnTo
  <1>7. Answer(rs[6], p, after) = actionDROP
    <2>1. chainCallistoSGFallback \notin Verdicts /\ Matched(p, AnyPacket)
      <3>1. chainCallistoSGFallback \in Chains
        BY SharedNames DEF Chains
      <3> QED
        BY <3>1, VerdictNames, Matching
    <2> QED
      BY <1>2, <2>1, Answers, VerdictNames
  <1>8. Through(c, p, after) = actionDROP
    <2>1. 6 \in 1..Len(rs) /\ actionDROP # Continue
      BY <1>2, VerdictNames
    <2> QED
      BY <1>1, <1>6, <1>7, <2>1, FirstOf
  <1> QED
    BY <1>8 DEF c

(* The rules of a chain are rules, and rules of the tables. *)
LEMMA ChainRules ==
    ASSUME TrafficInv, NEW c \in Chains
    PROVE  /\ rules[c] \in Seq(Rules)
           /\ \A r \in Rules : Contains(rules[c], r) => RuleOf(c, r)
  BY DEF TrafficInv, LinkInv, TypeOK, RulesFromTables

(* The n-th rule of the setup is there once it is done, and the k-th rule  *)
(* of the n-th function for every granted link.                            *)
LEMMA SetupRule ==
    ASSUME TrafficInv, setupDone, NEW n \in 1..4, setupFunctions[n].into \notin wiped
    PROVE  /\ setupFunctions[n].rule \in Rules
           /\ Contains(rules[setupFunctions[n].into], setupFunctions[n].rule)
  BY SetupChains DEF TrafficInv, TableInv, SetupRulesThere, SetupPast

(* So are those of a granted link. *)
LEMMA AddRule ==
    ASSUME TrafficInv, NEW i \in granted, NEW n \in 4..6,
           NEW k \in 1..Len(addFunctions(i)[n].rules), addFunctions(i)[n].chain \notin wiped
    PROVE  /\ addFunctions(i)[n].rules[k] \in Rules
           /\ Contains(rules[addFunctions(i)[n].chain], addFunctions(i)[n].rules[k])
  <1>1. i \in Interfaces
    BY DEF TrafficInv, LinkInv, TypeOK
  <1>2. addFunctions(i)[n].rules \in Seq(Rules)
    BY <1>1, AddRules
  <1> QED
    BY <1>1, <1>2 DEF TrafficInv, TableInv, AddRulesThere, AddPast

(* The fallback drops every packet. *)
LEMMA FallbackWalk ==
    ASSUME TrafficInv, setupDone, NEW p, NEW after
    PROVE  Through(chainCallistoSGFallback, p, after) = actionDROP
  <1> DEFINE c == chainCallistoSGFallback
             r0 == Rule(AnyPacket, actionDROP)
  <1>0. c \in Chains
    BY SharedNames DEF Chains
  <1>1. r0 \in Rules /\ Contains(rules[c], r0)
    <2>1. c \notin wiped
      BY SharedNames DEF TrafficInv, TableInv, SetupComesFirst
    <2>2. setupFunctions[1].into = c /\ setupFunctions[1].rule = r0
      BY SetupTable, SetupRules
    <2>3. 1 \in 1..4
      OBVIOUS
    <2> QED
      BY <2>1, <2>2, <2>3, SetupRule
  <1>2. Answer(r0, p, after) = actionDROP
    BY Matching, Answers, VerdictNames
  <1>3. \A r \in Rules : Contains(rules[c], r) => r = r0
    BY <1>0, ChainRules, TableRules
  <1> HIDE DEF c, r0
  <1>4. \A r \in Rules : Contains(rules[c], r) => Answer(r, p, after) \in {Continue, actionDROP}
    BY <1>2, <1>3
  <1>5. Through(c, p, after) = actionDROP
    BY <1>0, <1>1, <1>2, <1>4, ChainRules, VerdictNames, SameAnswer
  <1> QED
    BY <1>5 DEF c

(* Nothing is accepted in the links' own chains and in the fallback. *)
Calm(after) ==
    \A c \in LinkChains \cup {chainCallistoSGFallback} : after[c] \in {actionRETURN, actionDROP}

(* So a jump there drops a packet or lets it go on. *)
LEMMA CalmJump ==
    ASSUME NEW after, Calm(after), NEW c \in LinkChains \cup {chainCallistoSGFallback},
           NEW r, r.target = c, NEW p
    PROVE  Answer(r, p, after) \in {Continue, actionDROP}
  <1>1. c \notin Verdicts
    BY VerdictNames, SharedNames DEF Chains
  <1>2. after[c] \in {actionRETURN, actionDROP}
    BY DEF Calm
  <1> QED
    BY <1>1, <1>2 DEF Answer

(* The names of a link's own chains. *)
LEMMA OwnNames ==
    ASSUME NEW i \in Interfaces
    PROVE  /\ getSOURCEChainName(i) \in LinkChains /\ getOUTPUTChainName(i) \in LinkChains
           /\ getINPUTChainName(i) \in LinkChains
  BY DEF getSOURCEChainName, getOUTPUTChainName, getINPUTChainName, getValidChainName, LinkChains

(* One jump further on nothing is accepted there either. *)
LEMMA CalmWalk ==
    ASSUME TrafficInv, NEW p, NEW after, Calm(after)
    PROVE  Calm(Walked(p, after))
  <1> SUFFICES ASSUME NEW c \in LinkChains \cup {chainCallistoSGFallback}
               PROVE  Walked(p, after)[c] \in {actionRETURN, actionDROP}
    BY DEF Calm
  <1>0. c \in Chains
    BY SharedNames DEF Chains
  <1>1. ASSUME NEW r \in Rules, Contains(rules[c], r)
        PROVE  Answer(r, p, after) \in {actionDROP, actionRETURN} \cup {Continue}
    <2>1. RuleOf(c, r)
      BY <1>0, <1>1, ChainRules
    <2>2. CASE r.target \in {actionRETURN, actionDROP}
      BY <2>2, VerdictNames DEF Answer
    <2>3. CASE \E t \in LinkChains \cup {chainCallistoSGFallback} : r.target = t
      BY <2>3, CalmJump
    <2>4. CASE c = chainCallistoSGFallback
      <3>1. r = Rule(AnyPacket, actionDROP)
        BY <1>0, <2>1, <2>4, TableRules
      <3> QED
        BY <2>2, <3>1 DEF Rule
    <2>5. CASE c \in LinkChains
      <3>1. PICK i \in Interfaces :
               r.target \in {actionRETURN, actionDROP, getSOURCEChainName(i), chainCallistoSGFallback}
        BY <1>0, <2>1, <2>5, TableRules
      <3> QED
        BY <2>2, <2>3, <3>1, OwnNames
    <2> QED
      BY <2>4, <2>5
  <1>2. Through(c, p, after) \in {actionDROP, actionRETURN} \cup {actionRETURN}
    <2> DEFINE vs == {actionDROP, actionRETURN}
    <2>1. \A r \in Rules : Contains(rules[c], r) => Answer(r, p, after) \in vs \cup {Continue}
      BY <1>1
    <2> HIDE DEF vs
    <2>2. Through(c, p, after) \in vs \cup {actionRETURN}
      BY <1>0, <2>1, ChainRules, SomeAnswer
    <2> QED
      BY <2>2 DEF vs
  <1> QED
    BY <1>0, <1>2 DEF Walked

(* A wiped security group chain accepts nothing either. *)
LEMMA WipedWalk ==
    ASSUME TrafficInv, chainCallistoSG \in wiped, NEW p, NEW after, Calm(after)
    PROVE  Through(chainCallistoSG, p, after) \in {actionRETURN, actionDROP}
  <1> DEFINE c == chainCallistoSG
             vs == {actionDROP}
  <1>0. c \in Chains
    BY SharedNames DEF Chains
  <1>1. ASSUME NEW r \in Rules, Contains(rules[c], r)
        PROVE  Answer(r, p, after) \in vs \cup {Continue}
    <2>1. ~Accepts(r)
      <3>1. NoAccept(rules[c]) /\ rules[c] \in Seq(Rules)
        BY <1>0, ChainRules DEF TrafficInv, TableInv, SetupComesFirst
      <3> QED
        BY <1>1, <3>1 DEF NoAccept, Contains
    <2>2. RuleOf(c, r)
      BY <1>0, <1>1, ChainRules
    <2>3. r # Rule(AnyPacket, actionACCEPT)
      BY <2>1 DEF Accepts, Rule
    <2>4. PICK i \in Interfaces : \/ r = Rule(PhysdevOut(i), getINPUTChainName(i))
                                  \/ r = Rule(PhysdevIn(i), getOUTPUTChainName(i))
      BY <1>0, <2>2, <2>3, TableRules
    <2>5. r.target \in LinkChains
      BY <2>4, OwnNames DEF Rule
    <2> QED
      BY <2>5, CalmJump
  <1> HIDE DEF vs, c
  <1>2. Through(c, p, after) \in vs \cup {actionRETURN}
    BY <1>0, <1>1, ChainRules, SomeAnswer
  <1> QED
    BY <1>2 DEF vs, c

(* Before it is wiped, a jump that drops a packet comes before the ACCEPT  *)
(* rule, and so the packet is dropped.                                     *)
LEMMA SGDrops ==
    ASSUME TrafficInv, chainCallistoSG \notin wiped, NEW p, NEW after, Calm(after),
           NEW r, Contains(rules[chainCallistoSG], r), ~Accepts(r),
           Answer(r, p, after) = actionDROP
    PROVE  Through(chainCallistoSG, p, after) = actionDROP
  <1> DEFINE c == chainCallistoSG
  <1>0. c \in Chains /\ rules[c] \in Seq(Rules)
    BY SharedNames, ChainRules DEF Chains
  <1>1. DOMAIN rules[c] = 1..Len(rules[c]) /\ Len(rules[c]) \in Nat
    BY <1>0
  <1>2. PICK k \in DOMAIN rules[c] : rules[c][k] = r
    BY <1>0 DEF Contains
  <1>3. PICK j \in DOMAIN rules[c] : /\ j <= k /\ Answer(rules[c][j], p, after) # Continue
                                     /\ Through(c, p, after) = Answer(rules[c][j], p, after)
    BY <1>0, <1>2, VerdictNames, StoppedBy
  <1>4. ~Accepts(rules[c][j])
    <2>1. SUFFICES ASSUME Accepts(rules[c][j]) PROVE FALSE
      OBVIOUS
    <2>2. j = Len(rules[c])
      BY <2>1 DEF TrafficInv, AcceptInv, AcceptIsLast, Accepts
    <2>3. j = k
      BY <1>1, <1>3, <2>2
    <2> QED
      BY <1>2, <2>1, <2>3
  <1>5. rules[c][j] \in Rules /\ RuleOf(c, rules[c][j])
    <2>1. rules[c][j] \in Rules /\ Contains(rules[c], rules[c][j])
      BY <1>0 DEF Contains
    <2> QED
      BY <1>0, <2>1, ChainRules
  <1>6. rules[c][j].target \in LinkChains
    <2>1. rules[c][j] # Rule(AnyPacket, actionACCEPT)
      BY <1>4 DEF Accepts, Rule
    <2>2. PICK i \in Interfaces : \/ rules[c][j] = Rule(PhysdevOut(i), getINPUTChainName(i))
                                  \/ rules[c][j] = Rule(PhysdevIn(i), getOUTPUTChainName(i))
      BY <1>0, <1>5, <2>1, TableRules
    <2> QED
      BY <2>2, OwnNames DEF Rule
  <1> HIDE DEF c
  <1>7. Answer(rules[c][j], p, after) \in {Continue, actionDROP}
    BY <1>6, CalmJump
  <1> QED
    BY <1>3, <1>7 DEF c

(* A rule of callisto-FORWARD that drops a packet is not preceded by one   *)
(* that accepts it, if the security group chain does not accept it.        *)
LEMMA ForwardDrops ==
    ASSUME TrafficInv, NEW p, NEW after, Calm(after),
           after[chainCallistoSG] \in {actionRETURN, actionDROP},
           NEW r \in Rules, Contains(rules[chainCallistoFORWARD], r),
           Answer(r, p, after) = actionDROP
    PROVE  Through(chainCallistoFORWARD, p, after) = actionDROP
  <1> DEFINE c == chainCallistoFORWARD
  <1>0. c \in Chains /\ chainCallistoSG \notin Verdicts
    BY SharedNames, VerdictNames DEF Chains
  <1>1. ASSUME NEW x \in Rules, Contains(rules[c], x)
        PROVE  Answer(x, p, after) \in {Continue, actionDROP}
    <2>1. RuleOf(c, x)
      BY <1>0, <1>1, ChainRules
    <2>2. PICK i \in Interfaces : \/ x = Rule(PhysdevIn(i), getOUTPUTChainName(i))
                                  \/ x = Rule(PhysdevOut(i), chainCallistoSG)
                                  \/ x = Rule(PhysdevIn(i), chainCallistoSG)
      BY <1>0, <2>1, TableRules
    <2>3. CASE x = Rule(PhysdevIn(i), getOUTPUTChainName(i))
      <3>1. x.target \in LinkChains
        BY <2>3, OwnNames DEF Rule
      <3> QED
        BY <3>1, CalmJump
    <2>4. CASE x.target = chainCallistoSG
      BY <1>0, <2>4 DEF Answer
    <2> QED
      BY <2>2, <2>3, <2>4 DEF Rule
  <1> HIDE DEF c
  <1>2. rules[c] \in Seq(Rules) /\ actionDROP # Continue /\ Contains(rules[c], r)
    BY <1>0, ChainRules, VerdictNames DEF c
  <1>3. Through(c, p, after) = actionDROP
    BY <1>1, <1>2, SameAnswer
  <1> QED
    BY <1>3 DEF c

(* What becomes of a bridged packet is what callisto-FORWARD says of it,   *)
(* if that is a verdict.                                                   *)
LEMMA Fated ==
    ASSUME TrafficInv, setupDone, NEW p, Bridged(p), NEW v \in {actionACCEPT, actionDROP},
           \A after : Calm(after) =>
              Through(chainCallistoFORWARD, p, Walked(p, Walked(p, Walked(p, after)))) = v
    PROVE  Fate(p) = v
  <1> DEFINE none == [c \in Chains |-> actionRETURN]
             below == Walked(p, Walked(p, Walked(p, none)))
             r0 == Rule(AnyPacket, chainCallistoFORWARD)
  <1>0. /\ chainFORWARD \in Chains /\ chainCallistoFORWARD \in Chains
        /\ chainCallistoFORWARD \notin Verdicts
    BY ChainNames, SharedNames, VerdictNames DEF Chains
  <1>1. Calm(none)
    BY SharedNames DEF Calm, Chains
  <1>2. Through(chainCallistoFORWARD, p, below) = v
    BY <1>1
  <1>3. Fate(p) = Through(chainFORWARD, p, Walked(p, below))
    BY DEF Fate
  <1> HIDE DEF below
  <1>4. Walked(p, below)[chainCallistoFORWARD] = v
    BY <1>0, <1>2 DEF Walked
  <1> DEFINE after == Walked(p, below)
  <1> HIDE DEF after
  <1>v. v # Continue /\ v # actionRETURN
    BY VerdictNames
  <1>5. Answer(r0, p, after) = v
    BY <1>0, <1>4, <1>v, Matching, Answers DEF after
  <1>6. r0 \in Rules /\ Contains(rules[chainFORWARD], r0)
    <2>1. chainFORWARD \notin wiped
      BY SharedNames DEF TrafficInv, TableInv, SetupComesFirst
    <2>2. setupFunctions[4].into = chainFORWARD /\ setupFunctions[4].rule = r0
      BY SetupTable, SetupRules
    <2>3. 4 \in 1..4
      OBVIOUS
    <2> QED
      BY <2>1, <2>2, <2>3, SetupRule
  <1>7. \A r \in Rules : Contains(rules[chainFORWARD], r) => r = r0
    BY <1>0, ChainRules, TableRules
  <1> HIDE DEF r0
  <1>8. \A r \in Rules : Contains(rules[chainFORWARD], r) => Answer(r, p, after) \in {Continue, v}
    BY <1>5, <1>7
  <1>9. rules[chainFORWARD] \in Seq(Rules)
    BY <1>0, ChainRules
  <1>10. Through(chainFORWARD, p, after) = v
    BY <1>5, <1>6, <1>8, <1>9, <1>v, SameAnswer
  <1> QED
    BY <1>3, <1>10 DEF after

------------------------------------------------------------------------------
(* Theorems about packets *)

(* The chains after the walks below callisto-FORWARD. *)
LEMMA Below ==
    ASSUME TrafficInv, NEW p, NEW after, Calm(after),
           NEW a1, a1 = Walked(p, after), NEW a2, a2 = Walked(p, a1), NEW a3, a3 = Walked(p, a2)
    PROVE  /\ Calm(a1) /\ Calm(a2) /\ Calm(a3)
           /\ \A c \in Chains : /\ a1[c] = Through(c, p, after)
                                /\ a2[c] = Through(c, p, a1) /\ a3[c] = Through(c, p, a2)
  BY CalmWalk DEF Walked

(* What the jumps go to are chains and no verdicts. *)
LEMMA OwnChainNames ==
    ASSUME NEW i \in Interfaces
    PROVE  /\ getSOURCEChainName(i) \in Chains /\ getSOURCEChainName(i) \notin Verdicts
           /\ getOUTPUTChainName(i) \in Chains /\ getOUTPUTChainName(i) \notin Verdicts
           /\ getINPUTChainName(i) \in Chains /\ getINPUTChainName(i) \notin Verdicts
           /\ chainCallistoSG \in Chains /\ chainCallistoSG \notin Verdicts
           /\ chainCallistoFORWARD \in Chains
           /\ chainCallistoSGFallback \in Chains
  BY OwnNames, SharedNames, VerdictNames DEF Chains

(* The rules of addSGRules, addINPUTRules and addFORWARDRules are there    *)
(* for a granted link.                                                     *)
LEMMA GrantedRules ==
    ASSUME TrafficInv, NEW i \in granted
    PROVE  /\ chainCallistoSG \notin wiped =>
                 /\ Contains(rules[chainCallistoSG], Rule(PhysdevOut(i), getINPUTChainName(i)))
                 /\ Contains(rules[chainCallistoSG], Rule(PhysdevIn(i), getOUTPUTChainName(i)))
           /\ chainCallistoFORWARD \notin wiped =>
                 /\ Contains(rules[chainCallistoFORWARD], Rule(PhysdevIn(i), getOUTPUTChainName(i)))
                 /\ Contains(rules[chainCallistoFORWARD], Rule(PhysdevOut(i), chainCallistoSG))
                 /\ Contains(rules[chainCallistoFORWARD], Rule(PhysdevIn(i), chainCallistoSG))
           /\ Rule(PhysdevIn(i), getOUTPUTChainName(i)) \in Rules
           /\ Rule(PhysdevOut(i), chainCallistoSG) \in Rules
           /\ Rule(PhysdevIn(i), chainCallistoSG) \in Rules
  <1>0. i \in Interfaces
    BY DEF TrafficInv, LinkInv, TypeOK
  <1> DEFINE F(n) == addFunctions(i)[n]
  <1>1. /\ F(4).chain = chainCallistoSG /\ F(5).chain = chainCallistoFORWARD
        /\ F(6).chain = chainCallistoFORWARD
    BY <1>0, AddSharedChains
  <1>2. Len(F(4).rules) = 2 /\ F(4).rules[1] = Rule(PhysdevOut(i), getINPUTChainName(i))
        /\ F(4).rules[2] = Rule(PhysdevIn(i), getOUTPUTChainName(i))
    <2>1. F(4).rules = << Rule(PhysdevOut(i), getINPUTChainName(i)),
                          Rule(PhysdevIn(i), getOUTPUTChainName(i)) >>
      BY <1>0, RuleLists
    <2> QED
      BY <2>1
  <1>3. Len(F(5).rules) = 1 /\ F(5).rules[1] = Rule(PhysdevIn(i), getOUTPUTChainName(i))
    <2>1. F(5).rules = << Rule(PhysdevIn(i), getOUTPUTChainName(i)) >>
      BY <1>0, RuleLists
    <2> QED
      BY <2>1
  <1>4. Len(F(6).rules) = 2 /\ F(6).rules[1] = Rule(PhysdevOut(i), chainCallistoSG)
        /\ F(6).rules[2] = Rule(PhysdevIn(i), chainCallistoSG)
    <2>1. F(6).rules = << Rule(PhysdevOut(i), chainCallistoSG), Rule(PhysdevIn(i), chainCallistoSG) >>
      BY <1>0, RuleLists
    <2> QED
      BY <2>1
  <1>5. ASSUME NEW n \in 4..6, NEW k \in 1..Len(F(n).rules), F(n).chain \notin wiped
        PROVE  Contains(rules[F(n).chain], F(n).rules[k])
    BY <1>5, AddRule
  <1>6. ASSUME NEW n \in 4..6, NEW k \in 1..Len(F(n).rules) PROVE F(n).rules[k] \in Rules
    <2>1. F(n).rules \in Seq(Rules)
      BY <1>0, AddRules
    <2> QED
      BY <2>1
  <1>7. 4 \in 4..6 /\ 5 \in 4..6 /\ 6 \in 4..6 /\ 1 \in 1..2 /\ 2 \in 1..2 /\ 1 \in 1..1
    OBVIOUS
  <1> HIDE DEF F
  <1> QED
    BY <1>1, <1>2, <1>3, <1>4, <1>5, <1>6, <1>7

(* What the output chain of a guarded link drops is dropped, unless        *)
(* callisto-FORWARD was wiped.                                             *)
LEMMA GuardedOut ==
    ASSUME TrafficInv, setupDone, chainCallistoFORWARD \notin wiped, NEW i \in granted,
           NEW p \in Packets, Bridged(p), p.in = i,
           p.class # "dhcp-client", p.src # i \/ p.class = "dhcp-server"
    PROVE  Fate(p) = actionDROP
  <1>0. i \in Interfaces
    BY DEF TrafficInv, LinkInv, TypeOK
  <1>1. ASSUME NEW after, Calm(after)
        PROVE  Through(chainCallistoFORWARD, p, Walked(p, Walked(p, Walked(p, after)))) = actionDROP
    <2>1. PICK a1, a2, a3 : a1 = Walked(p, after) /\ a2 = Walked(p, a1) /\ a3 = Walked(p, a2)
      OBVIOUS
    <2>2. /\ Calm(a1) /\ Calm(a2) /\ Calm(a3)
          /\ \A c \in Chains : /\ a1[c] = Through(c, p, after)
                               /\ a2[c] = Through(c, p, a1) /\ a3[c] = Through(c, p, a2)
      BY <1>1, <2>1, Below
    <2> DEFINE drops(a) == a[getOUTPUTChainName(i)] = actionDROP
               checks(a) == a[getSOURCEChainName(i)] = IF p.src = i THEN actionRETURN ELSE actionDROP
               r0 == Rule(PhysdevIn(i), getOUTPUTChainName(i))
    <2>3. checks(a1) /\ checks(a2)
      BY <1>0, <2>2, SourceWalk, OwnChainNames
    <2>4. \A a : checks(a) => Through(getOUTPUTChainName(i), p, a) = actionDROP
      BY OutputWalk
    <2>5. drops(a2) /\ drops(a3)
      BY <1>0, <2>2, <2>3, <2>4, OwnChainNames
    <2>6. \A a : drops(a) => Answer(r0, p, a) = actionDROP
      BY <1>0, Matching, Answers, OwnChainNames, VerdictNames
    <2>7. Answer(r0, p, a2) = actionDROP /\ Answer(r0, p, a3) = actionDROP
      BY <2>5, <2>6
    <2>8. r0 \in Rules /\ Contains(rules[chainCallistoFORWARD], r0)
          /\ (chainCallistoSG \notin wiped => Contains(rules[chainCallistoSG], r0))
      BY GrantedRules
    <2>9. ~Accepts(r0)
      BY <1>0, OwnChainNames, VerdictNames DEF Accepts, Rule
    <2> HIDE DEF r0
    <2>10. Through(chainCallistoSG, p, a2) \in {actionRETURN, actionDROP}
      <3>1. CASE chainCallistoSG \in wiped
        BY <2>2, <3>1, WipedWalk
      <3>2. CASE chainCallistoSG \notin wiped
        BY <2>2, <2>7, <2>8, <2>9, <3>2, SGDrops
      <3> QED
        BY <3>1, <3>2
    <2>11. a3[chainCallistoSG] \in {actionRETURN, actionDROP}
      BY <1>0, <2>2, <2>10, OwnChainNames
    <2>12. Through(chainCallistoFORWARD, p, a3) = actionDROP
      BY <2>2, <2>7, <2>8, <2>11, ForwardDrops
    <2> QED
      BY <2>1, <2>12
  <1> QED
    BY <1>1, Fated

(* Nor does what no rule lets in reach a guarded link.                     *)
LEMMA GuardedIn ==
    ASSUME TrafficInv, setupDone, wiped = {}, NEW i \in granted,
           NEW p \in Packets, p.out = i, p.class = "other", ~p.established
    PROVE  Fate(p) = actionDROP
  <1>0. i \in Interfaces
    BY DEF TrafficInv, LinkInv, TypeOK
  <1>1. Bridged(p)
    BY <1>0, PortsAssumption DEF Bridged
  <1>2. ASSUME NEW after, Calm(after)
        PROVE  Through(chainCallistoFORWARD, p, Walked(p, Walked(p, Walked(p, after)))) = actionDROP
    <2>1. PICK a1, a2, a3 : a1 = Walked(p, after) /\ a2 = Walked(p, a1) /\ a3 = Walked(p, a2)
      OBVIOUS
    <2>2. /\ Calm(a1) /\ Calm(a2) /\ Calm(a3)
          /\ \A c \in Chains : /\ a1[c] = Through(c, p, after)
                               /\ a2[c] = Through(c, p, a1) /\ a3[c] = Through(c, p, a2)
      BY <1>2, <2>1, Below
    <2> DEFINE r0 == Rule(PhysdevOut(i), getINPUTChainName(i))
               r1 == Rule(PhysdevOut(i), chainCallistoSG)
    <2>3. a1[chainCallistoSGFallback] = actionDROP
      BY <1>0, <2>2, FallbackWalk, OwnChainNames
    <2>4. a2[getINPUTChainName(i)] = actionDROP
      BY <1>0, <2>2, <2>3, InputWalk, OwnChainNames
    <2>5. Answer(r0, p, a2) = actionDROP
      BY <1>0, <1>1, <2>4, Matching, Answers, OwnChainNames, VerdictNames
    <2>6. ~Accepts(r0)
      BY <1>0, OwnChainNames, VerdictNames DEF Accepts, Rule
    <2>7. chainCallistoSG \notin wiped /\ chainCallistoFORWARD \notin wiped
      OBVIOUS
    <2>8. /\ Contains(rules[chainCallistoSG], r0)
          /\ r1 \in Rules /\ Contains(rules[chainCallistoFORWARD], r1)
      BY <2>7, GrantedRules
    <2>9. Through(chainCallistoSG, p, a2) = actionDROP
      BY <2>2, <2>5, <2>6, <2>7, <2>8, SGDrops
    <2>10. a3[chainCallistoSG] = actionDROP
      BY <1>0, <2>2, <2>9, OwnChainNames
    <2>11. Answer(r1, p, a3) = actionDROP
      BY <1>0, <1>1, <2>10, Matching, Answers, OwnChainNames, VerdictNames
    <2> HIDE DEF r1
    <2>12. Through(chainCallistoFORWARD, p, a3) = actionDROP
      BY <2>2, <2>8, <2>10, <2>11, ForwardDrops
    <2> QED
      BY <2>1, <2>12
  <1> QED
    BY <1>1, <1>2, Fated

(* An honest packet of a guarded link comes back from its output chain,    *)
(* wherever it is sent there, and meets the ACCEPT rule.                   *)
LEMMA GuardedHonest ==
    ASSUME TrafficInv, setupDone, wiped = {}, NEW i \in granted,
           NEW p \in Packets, p.in = i, p.out = Uplink, p.src = i, p.class # "dhcp-server"
    PROVE  Fate(p) = actionACCEPT
  <1>0. i \in Interfaces
    BY DEF TrafficInv, LinkInv, TypeOK
  <1>1. Bridged(p) /\ \A j \in Interfaces : p.out # j
    <2>1. Uplink # Node
      BY DEF Uplink, Node
    <2> QED
      BY <2>1, PortsAssumption DEF Bridged
  <1>2. ASSUME NEW after, Calm(after)
        PROVE  Through(chainCallistoFORWARD, p, Walked(p, Walked(p, Walked(p, after)))) = actionACCEPT
    <2>1. PICK a1, a2, a3 : a1 = Walked(p, after) /\ a2 = Walked(p, a1) /\ a3 = Walked(p, a2)
      OBVIOUS
    <2>2. /\ Calm(a1) /\ Calm(a2) /\ Calm(a3)
          /\ \A c \in Chains : /\ a1[c] = Through(c, p, after)
                               /\ a2[c] = Through(c, p, a1) /\ a3[c] = Through(c, p, a2)
      BY <1>2, <2>1, Below
    <2> DEFINE checks(a) == a[getSOURCEChainName(i)] = IF p.src = i THEN actionRETURN ELSE actionDROP
               returns(a) == a[getOUTPUTChainName(i)] = actionRETURN
               r0 == Rule(AnyPacket, actionACCEPT)
               r1 == Rule(PhysdevIn(i), chainCallistoSG)
    <2>3. checks(a1) /\ checks(a2)
      BY <1>0, <2>2, SourceWalk, OwnChainNames
    <2>4. \A a : checks(a) => Through(getOUTPUTChainName(i), p, a) = actionRETURN
      BY OutputWalk
    <2>5. returns(a2) /\ returns(a3)
      BY <1>0, <2>2, <2>3, <2>4, OwnChainNames
    <2>6. ASSUME NEW a, returns(a), NEW j \in Interfaces
          PROVE  Answer(Rule(PhysdevIn(j), getOUTPUTChainName(j)), p, a) = Continue
      <3>1. CASE j = i
        BY <1>0, <2>6, <3>1, Answers, OwnChainNames
      <3>2. CASE j # i
        <4>1. ~Matched(p, PhysdevIn(j))
          BY <3>2, Matching
        <4> QED
          BY <4>1, Answers
      <3> QED
        BY <3>1, <3>2
    <2>7. ASSUME NEW a, NEW j \in Interfaces, NEW t
          PROVE  Answer(Rule(PhysdevOut(j), t), p, a) = Continue
      <3>1. ~Matched(p, PhysdevOut(j))
        BY <1>1, Matching
      <3> QED
        BY <3>1, Answers
    <2>v. actionACCEPT # Continue /\ actionACCEPT # actionRETURN
      BY VerdictNames
    <2>8. Through(chainCallistoSG, p, a2) = actionACCEPT
      <3>1. Answer(r0, p, a2) = actionACCEPT
        BY Matching, Answers, VerdictNames
      <3>2. r0 \in Rules /\ Contains(rules[chainCallistoSG], r0)
        <4>1. setupFunctions[2].into = chainCallistoSG /\ setupFunctions[2].rule = r0 /\ 2 \in 1..4
          BY SetupTable, SetupRules
        <4>2. setupFunctions[2].into \notin wiped
          OBVIOUS
        <4> QED
          BY <4>1, <4>2, SetupRule
      <3>3. ASSUME NEW r \in Rules, Contains(rules[chainCallistoSG], r)
            PROVE  Answer(r, p, a2) \in {Continue, actionACCEPT}
        <4>1. RuleOf(chainCallistoSG, r)
          BY <1>0, <3>3, ChainRules, OwnChainNames
        <4>2. \/ r = r0
              \/ \E j \in Interfaces : \/ r = Rule(PhysdevOut(j), getINPUTChainName(j))
                                       \/ r = Rule(PhysdevIn(j), getOUTPUTChainName(j))
          BY <1>0, <4>1, TableRules, OwnChainNames
        <4> HIDE DEF r0
        <4> QED
          BY <2>5, <2>6, <2>7, <3>1, <4>2
      <3>4. rules[chainCallistoSG] \in Seq(Rules)
        BY <1>0, ChainRules, OwnChainNames
      <3> HIDE DEF r0
      <3> QED
        BY <2>v, <3>1, <3>2, <3>3, <3>4, SameAnswer
    <2>9. a3[chainCallistoSG] = actionACCEPT
      BY <1>0, <2>2, <2>8, OwnChainNames
    <2>10. Through(chainCallistoFORWARD, p, a3) = actionACCEPT
      <3>1. Answer(r1, p, a3) = actionACCEPT
        BY <1>0, <1>1, <2>9, <2>v, Matching, Answers, OwnChainNames
      <3>2. r1 \in Rules /\ Contains(rules[chainCallistoFORWARD], r1)
        BY GrantedRules
      <3>3. ASSUME NEW r \in Rules, Contains(rules[chainCallistoFORWARD], r)
            PROVE  Answer(r, p, a3) \in {Continue, actionACCEPT}
        <4>1. RuleOf(chainCallistoFORWARD, r)
          BY <1>0, <3>3, ChainRules, OwnChainNames
        <4>2. PICK j \in Interfaces : \/ r = Rule(PhysdevIn(j), getOUTPUTChainName(j))
                                      \/ r = Rule(PhysdevOut(j), chainCallistoSG)
                                      \/ r = Rule(PhysdevIn(j), chainCallistoSG)
          BY <1>0, <4>1, TableRules, OwnChainNames
        <4>3. CASE r = Rule(PhysdevIn(j), chainCallistoSG)
          BY <1>0, <2>9, <2>v, <4>3, Answers, OwnChainNames
        <4> QED
          BY <2>5, <2>6, <2>7, <4>2, <4>3
      <3>4. rules[chainCallistoFORWARD] \in Seq(Rules)
        BY <1>0, ChainRules, OwnChainNames
      <3> HIDE DEF r1
      <3> QED
        BY <2>v, <3>1, <3>2, <3>3, <3>4, SameAnswer
    <2> QED
      BY <2>1, <2>10
  <1> QED
    BY <1>1, <1>2, Fated

(* The invariant behind all of it. *)
LEMMA TrafficInvariant == ASSUME SetupFirst PROVE Spec => []TrafficInv
  <1>1. Init => TrafficInv
    BY InitLinks, InitAccept, InitTable DEF TrafficInv
  <1>2. TrafficInv /\ [Next]_vars => TrafficInv'
    BY NextLinks, NextAccept, NextTable, NextRules DEF TrafficInv, TableInv
  <1> QED
    BY <1>1, <1>2, PTL DEF Spec

(* Where clients wait for the setup, a guarded guest cannot send with a    *)
(* source that is not its own, whatever other requests, failures and       *)
(* restarts do, unless one of them wipes callisto-FORWARD.                 *)
THEOREM SpoofedSourcesDropped == ASSUME SetupFirst PROVE Spec => []SpoofedSourceDropped
  <1>1. TrafficInv => SpoofedSourceDropped
    BY GuardedOut DEF SpoofedSourceDropped, Guarded
  <1> QED
    BY <1>1, TrafficInvariant, PTL

(* Nor can it answer DHCP requests.                                        *)
THEOREM RogueDhcpServersDropped == ASSUME SetupFirst PROVE Spec => []RogueDhcpDropped
  <1>1. TrafficInv => RogueDhcpDropped
    BY GuardedOut DEF RogueDhcpDropped, Guarded
  <1> QED
    BY <1>1, TrafficInvariant, PTL

(* As long as no shared chain was wiped, what no rule lets in does not     *)
(* reach a guarded guest.                                                  *)
THEOREM UnmatchedDropped == ASSUME SetupFirst PROVE Spec => []UnmatchedToGuestDropped
  <1>1. TrafficInv => UnmatchedToGuestDropped
    BY GuardedIn DEF UnmatchedToGuestDropped, Guarded
  <1> QED
    BY <1>1, TrafficInvariant, PTL

(* Nor are guarded guests cut off from the network.                        *)
THEOREM HonestAccepted == ASSUME SetupFirst PROVE Spec => []HonestTrafficAccepted
  <1>1. TrafficInv => HonestTrafficAccepted
    BY GuardedHonest DEF HonestTrafficAccepted, Guarded
  <1> QED
    BY <1>1, TrafficInvariant, PTL

(* How deep each chain lies. *)
LEMMA Depths ==
    /\ Depth(chainFORWARD) = 4 /\ Depth(chainINPUT) = 4
    /\ Depth(chainCallistoINPUT) = 3 /\ Depth(chainCallistoFORWARD) = 3
    /\ Depth(chainCallistoSG) = 2 /\ Depth(chainCallistoSGFallback) = 0
    /\ \A i \in Interfaces : /\ Depth(getSOURCEChainName(i)) = 0
                             /\ Depth(getOUTPUTChainName(i)) = 1
                             /\ Depth(getINPUTChainName(i)) = 1
  <1> DEFINE Ends == {"callisto-i", "callisto-o"} \X Interfaces
  <1>1. BuiltinChains = {chainINPUT, chainFORWARD}
    BY DEF BuiltinChains
  <1>2. \A c \in Ends : c \in LinkChains
    BY DEF LinkChains
  <1>3. \A c \in LinkChains : c \notin SharedChains /\ c # chainINPUT /\ c # chainFORWARD
    BY SharedNames
  <1>4. \A i \in Interfaces : getOUTPUTChainName(i) \in Ends /\ getINPUTChainName(i) \in Ends
    BY DEF getOUTPUTChainName, getINPUTChainName, getValidChainName
  <1>5. \A i \in Interfaces : getSOURCEChainName(i) \notin Ends
    BY DEF getSOURCEChainName, getValidChainName
  <1>6. \A c : Depth(c) = CASE c \in BuiltinChains                              -> 4
                            [] c \in {chainCallistoINPUT, chainCallistoFORWARD} -> 3
                            [] c = chainCallistoSG                              -> 2
                            [] c \in Ends                                       -> 1
                            [] OTHER                                            -> 0
    BY DEF Depth
  <1> HIDE DEF Ends
  <1>7. Depth(chainFORWARD) = 4 /\ Depth(chainINPUT) = 4
    BY <1>1, <1>2, <1>3, <1>6, SharedNames
  <1>8. Depth(chainCallistoINPUT) = 3 /\ Depth(chainCallistoFORWARD) = 3
    BY <1>1, <1>2, <1>3, <1>6, SharedNames
  <1>9. Depth(chainCallistoSG) = 2 /\ Depth(chainCallistoSGFallback) = 0
    BY <1>1, <1>2, <1>3, <1>6, SharedNames
  <1>10. ASSUME NEW c \in LinkChains PROVE Depth(c) = IF c \in Ends THEN 1 ELSE 0
    BY <1>1, <1>3, <1>6, SharedNames
  <1> QED
    BY <1>4, <1>5, <1>7, <1>8, <1>9, <1>10, OwnNames

(* However requests interleave and fail, with or without a setup before    *)
(* them, the chains form no loop and no packet jumps more than four times. *)
THEOREM NoLoops == Spec => []JumpsGoDown
  <1>1. ASSUME TypeOK, RulesFromTables, NEW c \in Chains, NEW k \in DOMAIN rules[c],
               rules[c][k].target \in Chains
        PROVE  Depth(rules[c][k].target) < Depth(c)
    <2> DEFINE r == rules[c][k]
    <2>1. r \in Rules /\ Contains(rules[c], r)
      <3>1. rules[c] \in Seq(Rules)
        BY <1>1 DEF TypeOK
      <3> QED
        BY <3>1 DEF Contains
    <2>2. RuleOf(c, r) /\ r.target \notin Verdicts
      BY <1>1, <2>1, VerdictNames DEF RulesFromTables
    <2>t. /\ actionACCEPT \in Verdicts /\ actionDROP \in Verdicts /\ actionRETURN \in Verdicts
          /\ \A m, t : Rule(m, t).target = t
      BY VerdictNames DEF Rule
    <2> HIDE DEF r
    <2>3. CASE c \in BuiltinChains
      <3>1. c = chainFORWARD \/ c = chainINPUT
        BY <2>3 DEF BuiltinChains
      <3> QED
        BY <2>2, <2>t, <3>1, TableRules, Depths DEF r
    <2>4. CASE c \in SharedChains
      <3>1. c = chainCallistoSGFallback \/ c = chainCallistoSG \/ c = chainCallistoINPUT
            \/ c = chainCallistoFORWARD
        BY <2>4, SharedNames
      <3>2. c # chainCallistoINPUT /\ c # chainCallistoSGFallback
        BY <2>2, <2>t, TableRules
      <3>3. CASE c = chainCallistoSG
        <4>1. PICK i \in Interfaces : r.target \in {getINPUTChainName(i), getOUTPUTChainName(i)}
          BY <2>2, <2>t, <3>3, TableRules
        <4> QED
          BY <3>3, <4>1, Depths DEF r
      <3>4. CASE c = chainCallistoFORWARD
        <4>1. PICK i \in Interfaces : r.target \in {getOUTPUTChainName(i), chainCallistoSG}
          BY <2>2, <2>t, <3>4, TableRules
        <4> QED
          BY <3>4, <4>1, Depths DEF r
      <3> QED
        BY <3>1, <3>2, <3>3, <3>4
    <2>5. CASE c \in LinkChains
      <3>1. PICK i \in Interfaces : /\ c \in {getOUTPUTChainName(i), getINPUTChainName(i)}
                                    /\ r.target \in {getSOURCEChainName(i), chainCallistoSGFallback}
        BY <2>2, <2>5, <2>t, TableRules
      <3> QED
        BY <3>1, Depths DEF r
    <2> QED
      BY <2>3, <2>4, <2>5 DEF Chains
  <1>2. TypeOK /\ RulesFromTables => JumpsGoDown
    BY <1>1 DEF JumpsGoDown
  <1>3. Init => TypeOK /\ RulesFromTables
    BY InitTable, InitType
  <1>4. TypeOK /\ RulesFromTables /\ [Next]_vars => (TypeOK /\ RulesFromTables)'
    BY NextType, NextRules
  <1> QED
    BY <1>2, <1>3, <1>4, PTL DEF Spec
==============================================================================
