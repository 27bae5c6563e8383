---------------------------- MODULE ClientsProofs ----------------------------
(***************************************************************************)
(* Theorems about Clients, for any machines and any bounds.  IInv says who *)
(* is at work for whom; TypeOK, OneRunPerMachine and                       *)
(* StartedMachineWasGranted are parts of it.                               *)
(***************************************************************************)
EXTENDS Clients, TLAPS

(* What is being made is being made by the attempt that began it, so by    *)
(* one call.                                                               *)
MakersKnown == \A c \in calls : c.at = "making" => maker[c.t][c.step] = c.attempt

(* A program that was run has an attempt, and dials before its first call. *)
ProgramsBegin ==
    \A t \in Targets : /\ client[t].attempt = 0 => client[t].at = "off" /\ client[t].step = 1
                       /\ client[t].at = "dialing" => client[t].step = 1

(* No call is of an attempt to come, and a program that is about to call   *)
(* has no call under way.                                                  *)
NoCallAhead ==
    \A c \in calls :
        /\ c.attempt <= client[c.t].attempt
        /\ client[c.t].at \in {"dialing", "ready"} => c.attempt # client[c.t].attempt

(* A machine that nobody made has no maker, and only its maker has calls   *)
(* after the first.                                                        *)
CallsOfMaker ==
    /\ \A m \in Machines : made[m][1] = "none" => maker[m][1] = 0
    /\ \A c \in calls : c.t \in Machines /\ (c.step > 1 \/ c.at = "ok")
                            => maker[c.t][1] = c.attempt

(* A machine is asked to start after its security group was there.         *)
GrantedFirst ==
    /\ \A c \in calls :
          c.t \in Machines /\ (c.step = 4 \/ (c.step = 3 /\ c.at = "ok"))
              => made[c.t][3] = "made" \/ c.t \in unaware
    /\ \A m \in Machines :
          client[m].at = "ready" /\ client[m].step = 4
              => made[m][3] = "made" \/ m \in unaware

IInv ==
    /\ TypeOK
    /\ MakersKnown
    /\ ProgramsBegin
    /\ NoCallAhead
    /\ CallsOfMaker
    /\ OneRunPerMachine
    /\ GrantedFirst
    /\ StartedMachineWasGranted

------------------------------------------------------------------------------
(* Lemmas *)

(* No handler of a machine's program takes what it finds for its own work. *)
LEMMA MachinesAreNotAdopted ==
  ASSUME NEW c \in Call, c.t \in Machines
  PROVE  Method(c) \notin Adopting
<1>1. c.t # "node" /\ c.step \in 1 .. 4
  BY NamesAssumption DEF Call, Steps
<1>2. Program(c.t) = create_virtual_machine
  BY <1>1 DEF Program
<1>3. CASE c.step = 1  BY <1>2, <1>3 DEF Method, create_virtual_machine, Adopting
<1>4. CASE c.step = 2  BY <1>2, <1>4 DEF Method, create_virtual_machine, Adopting
<1>5. CASE c.step = 3  BY <1>2, <1>5 DEF Method, create_virtual_machine, Adopting
<1>6. CASE c.step = 4  BY <1>2, <1>6 DEF Method, create_virtual_machine, Adopting
<1>7. QED  BY <1>1, <1>3, <1>4, <1>5, <1>6

(* A call that changes its place stays the only one of its attempt.        *)
LEMMA Moved ==
  ASSUME TypeOK, NEW c \in calls, NEW stage \in Stages, Move(c, stage)
  PROVE  /\ calls' \subseteq Call
         /\ \A d, e \in calls' : d.t = e.t /\ d.attempt = e.attempt => d = e
         /\ \A d \in calls' :
              \/ d \in calls /\ d # c /\ (d.t # c.t \/ d.attempt # c.attempt)
              \/ /\ d.t = c.t /\ d.attempt = c.attempt /\ d.step = c.step
                 /\ d.at = stage
<1> DEFINE n == [c EXCEPT !.at = stage]
<1>1. c \in Call /\ calls \subseteq Call
  BY DEF TypeOK
<1>2. n \in Call /\ n.t = c.t /\ n.attempt = c.attempt /\ n.step = c.step /\ n.at = stage
  BY <1>1 DEF Call
<1>3. calls' = (calls \ {c}) \cup {n}
  BY DEF Move
<1>4. \A d, e \in calls : d.t = e.t /\ d.attempt = e.attempt => d = e
  BY DEF TypeOK
<1> HIDE DEF n
<1>5. QED  BY <1>1, <1>2, <1>3, <1>4

(* A client that ends keeps its attempt and its step.                      *)
LEMMA Ended ==
  ASSUME TypeOK, NEW t \in Targets, client[t].at # "off",
         NEW how \in {"done", "failed"}, Ends(t, how)
  PROVE  /\ client' \in [Targets -> Programs]
         /\ \A u \in Targets : /\ client'[u].attempt = client[u].attempt
                               /\ client'[u].step = client[u].step
                               /\ \/ client'[u].at = client[u].at
                                  \/ client[u].at # "off" /\ client'[u].at \in {"done", "failed"}
<1> DEFINE k == [client[t] EXCEPT !.at = how]
<1>1. client \in [Targets -> Programs]
  BY DEF TypeOK
<1>2. k \in Programs /\ k.attempt = client[t].attempt /\ k.step = client[t].step /\ k.at = how
  BY <1>1 DEF Programs
<1>3. client' = [client EXCEPT ![t] = k]
  BY DEF Ends
<1> HIDE DEF k
<1>4. client' \in [Targets -> Programs]
  BY <1>1, <1>2, <1>3
<1>5. client'[t] = k /\ \A u \in Targets : u # t => client'[u] = client[u]
  BY <1>1, <1>3
<1>6. QED  BY <1>2, <1>4, <1>5

(* Taking calls away, ending clients and connecting them disturbs nothing. *)
LEMMA FewerCalls ==
  ASSUME IInv, calls' \subseteq calls, UNCHANGED <<made, maker, unaware>>,
         faults' \in 0 .. MaxFaults,
         agent' \in {"down", "serving"}, agent' = "down" => calls' = {},
         client' \in [Targets -> Programs],
         \A u \in Targets : /\ client'[u].attempt = client[u].attempt
                            /\ client'[u].step = client[u].step
                            /\ \/ client'[u].at = client[u].at
                               \/ client[u].at # "off" /\ client'[u].at \in {"done", "failed"}
                               \/ client[u].at = "dialing" /\ client'[u].at = "ready"
  PROVE  IInv'
<1>1. TypeOK'
  BY DEF IInv, TypeOK
<1>2. MakersKnown' /\ CallsOfMaker'
  BY DEF IInv, MakersKnown, CallsOfMaker
<1>3. ProgramsBegin'
  BY DEF IInv, ProgramsBegin
<1>4. NoCallAhead'
  <2>1. \A c \in calls : c.t \in Targets
    BY DEF IInv, TypeOK, Call
  <2>2. QED  BY <2>1 DEF IInv, NoCallAhead
<1>5. OneRunPerMachine'
  BY DEF IInv, OneRunPerMachine, Targets
<1>6. GrantedFirst'
  <2>1. ASSUME NEW m \in Machines, client'[m].at = "ready", client'[m].step = 4
        PROVE  client[m].at = "ready" /\ client[m].step = 4
    <3>1. m \in Targets /\ client[m].step = 4
      BY <2>1 DEF Targets
    <3>2. client[m].at # "dialing"
      BY <3>1 DEF IInv, ProgramsBegin
    <3>3. client[m].at = "ready"
      BY <2>1, <3>1, <3>2
    <3>4. QED  BY <3>1, <3>3
  <2>2. QED  BY <2>1 DEF IInv, GrantedFirst
<1>7. StartedMachineWasGranted'
  BY DEF IInv, StartedMachineWasGranted
<1>8. QED  BY <1>1, <1>2, <1>3, <1>4, <1>5, <1>6, <1>7 DEF IInv

------------------------------------------------------------------------------
(* The steps *)

(* A new run has an attempt that no call has.                              *)
LEMMA RunKeeps ==
  ASSUME IInv, NEW t \in Targets, Run(t)
  PROVE  IInv'
<1> DEFINE k == [at |-> "dialing", attempt |-> client[t].attempt + 1, step |-> 1]
<1>1. TypeOK /\ UNCHANGED <<made, maker, calls, agent, unaware, faults>>
  BY DEF IInv, Run
<1>2. client \in [Targets -> Programs] /\ client[t].attempt \in 0 .. MaxAttempts
  BY <1>1 DEF TypeOK, Programs
<1>3. /\ k \in Programs /\ k.attempt = client[t].attempt + 1 /\ k.attempt # 0
      /\ k.step = 1 /\ k.at = "dialing"
  BY <1>2, BoundAssumption DEF Run, Programs, Steps
<1>4. client' = [client EXCEPT ![t] = k]
  BY DEF Run
<1> HIDE DEF k
<1>5. /\ client' \in [Targets -> Programs] /\ client'[t] = k
      /\ \A u \in Targets : u # t => client'[u] = client[u]
  BY <1>2, <1>3, <1>4
<1>6. TypeOK'
  BY <1>1, <1>5 DEF TypeOK
<1>7. MakersKnown' /\ CallsOfMaker' /\ StartedMachineWasGranted'
  BY <1>1 DEF IInv, MakersKnown, CallsOfMaker, StartedMachineWasGranted
<1>8. ProgramsBegin'
  BY <1>3, <1>5 DEF IInv, ProgramsBegin
<1>9. NoCallAhead'
  <2>1. ASSUME NEW c \in calls
        PROVE  /\ c.attempt <= client'[c.t].attempt
               /\ client'[c.t].at \in {"dialing", "ready"} => c.attempt # client'[c.t].attempt
    <3>1. c.t \in Targets /\ c.attempt \in 1 .. MaxAttempts /\ c.attempt <= client[c.t].attempt
      BY <1>1 DEF TypeOK, Call, IInv, NoCallAhead
    <3>2. CASE c.t = t
      BY <3>1, <3>2, <1>2, <1>3, <1>5, BoundAssumption
    <3>3. CASE c.t # t
      BY <3>1, <3>3, <1>5 DEF IInv, NoCallAhead
    <3>4. QED  BY <3>2, <3>3
  <2>2. QED  BY <2>1, <1>1 DEF NoCallAhead
<1>10. GrantedFirst'
  BY <1>1, <1>3, <1>5 DEF IInv, GrantedFirst, Targets
<1>11. OneRunPerMachine'
  BY <1>1, <1>3, <1>5 DEF IInv, OneRunPerMachine, Targets
<1>12. QED  BY <1>6, <1>7, <1>8, <1>9, <1>10, <1>11 DEF IInv

(* A program calls with an attempt that has no call under way.             *)
LEMMA InvokeKeeps ==
  ASSUME IInv, NEW t \in Targets, Invoke(t)
  PROVE  IInv'
<1> DEFINE n == [t |-> t, attempt |-> client[t].attempt, step |-> client[t].step,
                 at |-> "sent"]
           k == [client[t] EXCEPT !.at = "calling"]
<1>1. /\ TypeOK /\ client[t].at = "ready" /\ agent = "serving"
      /\ UNCHANGED <<made, maker, agent, unaware, faults>>
  BY DEF IInv, Invoke
<1>2. client \in [Targets -> Programs] /\ client[t] \in Programs
  BY <1>1 DEF TypeOK
<1>3. client[t].attempt \in 1 .. MaxAttempts /\ client[t].step \in Steps
  BY <1>1, <1>2, BoundAssumption DEF Programs, IInv, ProgramsBegin
<1>4. /\ n \in Call /\ n.t = t /\ n.attempt = client[t].attempt
      /\ n.step = client[t].step /\ n.at = "sent"
  BY <1>3 DEF Call, Stages
<1>5. /\ k \in Programs /\ k.attempt = client[t].attempt /\ k.step = client[t].step
      /\ k.at = "calling"
  BY <1>2 DEF Programs
<1>6. calls' = calls \cup {n} /\ client' = [client EXCEPT ![t] = k]
  BY DEF Invoke
<1> HIDE DEF n, k
<1>7. /\ client' \in [Targets -> Programs] /\ client'[t] = k
      /\ \A u \in Targets : u # t => client'[u] = client[u]
  BY <1>2, <1>5, <1>6
<1>8. \A u \in Targets : /\ client'[u].attempt = client[u].attempt
                         /\ client'[u].step = client[u].step
                         /\ \/ client'[u].at = client[u].at
                            \/ client[u].at = "ready" /\ client'[u].at = "calling"
  BY <1>1, <1>5, <1>7
<1>9. \A d \in calls : d.t # t \/ d.attempt # client[t].attempt
  BY <1>1 DEF IInv, NoCallAhead
<1>10. \A d \in calls : d \in Call /\ d.t \in Targets
  BY <1>1 DEF TypeOK, Call
<1>11. TypeOK'
  <2>1. \A d, e \in calls' : d.t = e.t /\ d.attempt = e.attempt => d = e
    BY <1>1, <1>4, <1>6, <1>9 DEF TypeOK
  <2>2. \A d \in calls' : d.at = "making" => made'[d.t][d.step] = "half"
    BY <1>1, <1>4, <1>6 DEF TypeOK
  <2>3. calls' \subseteq Call
    BY <1>4, <1>6, <1>10
  <2>4. QED  BY <1>1, <1>7, <2>1, <2>2, <2>3 DEF TypeOK
<1>12. MakersKnown'
  BY <1>1, <1>4, <1>6 DEF IInv, MakersKnown
<1>13. ProgramsBegin'
  BY <1>3, <1>8 DEF IInv, ProgramsBegin
<1>14. NoCallAhead'
  <2>1. ASSUME NEW d \in calls
        PROVE  /\ d.attempt <= client'[d.t].attempt
               /\ client'[d.t].at \in {"dialing", "ready"} => d.attempt # client'[d.t].attempt
    BY <1>8, <1>10 DEF IInv, NoCallAhead
  <2>2. n.attempt <= client'[n.t].attempt /\ client'[n.t].at \notin {"dialing", "ready"}
    BY <1>3, <1>4, <1>5, <1>7
  <2>3. QED  BY <1>6, <2>1, <2>2 DEF NoCallAhead
<1>15. CallsOfMaker'
  <2>1. t \in Machines /\ client[t].step > 1 => maker[t][1] = client[t].attempt
    BY DEF IInv, OneRunPerMachine
  <2>2. QED  BY <1>1, <1>4, <1>6, <2>1 DEF IInv, CallsOfMaker
<1>16. GrantedFirst'
  <2>1. t \in Machines /\ client[t].step = 4 => made[t][3] = "made" \/ t \in unaware
    BY <1>1 DEF IInv, GrantedFirst
  <2>2. ASSUME NEW d \in calls', d.t \in Machines,
               d.step = 4 \/ (d.step = 3 /\ d.at = "ok")
        PROVE  made[d.t][3] = "made" \/ d.t \in unaware
    BY <1>4, <1>6, <2>1, <2>2 DEF IInv, GrantedFirst
  <2>3. ASSUME NEW m \in Machines, client'[m].at = "ready", client'[m].step = 4
        PROVE  made[m][3] = "made" \/ m \in unaware
    BY <1>8, <2>3 DEF IInv, GrantedFirst, Targets
  <2>4. QED  BY <1>1, <2>2, <2>3 DEF GrantedFirst
<1>17. OneRunPerMachine'
  BY <1>1, <1>8 DEF IInv, OneRunPerMachine, Targets
<1>18. StartedMachineWasGranted'
  BY <1>1 DEF IInv, StartedMachineWasGranted
<1>19. QED  BY <1>11, <1>12, <1>13, <1>14, <1>15, <1>16, <1>17, <1>18 DEF IInv

(* A reply leads to the next call only after what its handler made.        *)
LEMMA ReplyKeeps ==
  ASSUME IInv, NEW c \in calls, Reply(c)
  PROVE  IInv'
<1>1. /\ TypeOK /\ c \in Call /\ Awaited(c) /\ calls' = calls \ {c}
      /\ UNCHANGED <<made, maker, agent, unaware, faults>>
  BY DEF IInv, TypeOK, Reply
<1>2. c.t \in Targets /\ c.attempt \in 1 .. MaxAttempts /\ c.step \in Steps
  BY <1>1 DEF Call
<1>3. /\ client[c.t].attempt = c.attempt /\ client[c.t].step = c.step
      /\ client[c.t].at = "calling"
  BY <1>1 DEF Awaited
<1>4. ASSUME c.at = "ok", c.step < 4, NextCall(c)
      PROVE  IInv'
  <2> DEFINE k == [client[c.t] EXCEPT !.at = "ready", !.step = c.step + 1]
  <2>1. client \in [Targets -> Programs] /\ client[c.t] \in Programs
    BY <1>1, <1>2 DEF TypeOK
  <2>2. c.step + 1 \in Steps
    BY <1>2, <1>4 DEF Steps
  <2>3. k \in Programs /\ k.attempt = c.attempt /\ k.step = c.step + 1 /\ k.at = "ready"
    BY <1>3, <2>1, <2>2 DEF Programs
  <2>4. client' = [client EXCEPT ![c.t] = k]
    BY <1>4 DEF NextCall
  <2> HIDE DEF k
  <2>5. /\ client' \in [Targets -> Programs] /\ client'[c.t] = k
        /\ \A u \in Targets : u # c.t => client'[u] = client[u]
    BY <1>2, <2>1, <2>3, <2>4
  <2>6. c.t \in Machines => maker[c.t][1] = c.attempt
    BY <1>4 DEF IInv, CallsOfMaker
  <2>7. TypeOK'
    BY <1>1, <2>5 DEF TypeOK
  <2>8. MakersKnown' /\ CallsOfMaker' /\ StartedMachineWasGranted'
    BY <1>1 DEF IInv, MakersKnown, CallsOfMaker, StartedMachineWasGranted
  <2>9. ProgramsBegin'
    BY <1>2, <2>3, <2>5 DEF IInv, ProgramsBegin
  <2>10. NoCallAhead'
    <3>1. ASSUME NEW d \in calls'
          PROVE  /\ d.attempt <= client'[d.t].attempt
                 /\ client'[d.t].at \in {"dialing", "ready"} => d.attempt # client'[d.t].attempt
      <4>1. d \in calls /\ d # c /\ d.t \in Targets
        BY <1>1 DEF TypeOK, Call
      <4>2. d.t # c.t \/ d.attempt # c.attempt
        BY <1>1, <4>1 DEF TypeOK
      <4>3. d.attempt <= client[d.t].attempt
        BY <4>1 DEF IInv, NoCallAhead
      <4>4. CASE d.t = c.t
        BY <4>2, <4>3, <4>4, <1>3, <2>3, <2>5
      <4>5. CASE d.t # c.t
        BY <4>1, <4>5, <2>5 DEF IInv, NoCallAhead
      <4>6. QED  BY <4>4, <4>5
    <3>2. QED  BY <3>1 DEF NoCallAhead
  <2>11. GrantedFirst'
    <3>1. c.t \in Machines /\ c.step = 3 => made[c.t][3] = "made" \/ c.t \in unaware
      BY <1>4 DEF IInv, GrantedFirst
    <3>2. ASSUME NEW m \in Machines, client'[m].at = "ready", client'[m].step = 4
          PROVE  made[m][3] = "made" \/ m \in unaware
      <4>1. CASE m = c.t
        BY <4>1, <3>1, <3>2, <1>2, <2>3, <2>5 DEF Steps
      <4>2. CASE m # c.t
        BY <4>2, <3>2, <2>5 DEF IInv, GrantedFirst, Targets
      <4>3. QED  BY <4>1, <4>2
    <3>3. QED  BY <1>1, <3>2 DEF IInv, GrantedFirst
  <2>12. OneRunPerMachine'
    BY <1>1, <2>3, <2>5, <2>6 DEF IInv, OneRunPerMachine, Targets
  <2>13. QED  BY <2>7, <2>8, <2>9, <2>10, <2>11, <2>12 DEF IInv
<1>5. ASSUME NEW how \in {"done", "failed"}, Ends(c.t, how)
      PROVE  IInv'
  <2>1. /\ calls' \subseteq calls /\ faults' \in 0 .. MaxFaults
        /\ agent' \in {"down", "serving"} /\ (agent' = "down" => calls' = {})
    BY <1>1 DEF TypeOK
  <2>2. /\ client' \in [Targets -> Programs]
        /\ \A u \in Targets : /\ client'[u].attempt = client[u].attempt
                              /\ client'[u].step = client[u].step
                              /\ \/ client'[u].at = client[u].at
                                 \/ client[u].at # "off" /\ client'[u].at \in {"done", "failed"}
    BY <1>1, <1>2, <1>3, <1>5, Ended
  <2>3. QED  BY <1>1, <2>1, <2>2, FewerCalls
<1>6. QED  BY <1>4, <1>5 DEF Reply

(* A handler that begins what nobody made is the only one at it.           *)
LEMMA DispatchKeeps ==
  ASSUME IInv, NEW c \in calls, Dispatch(c)
  PROVE  IInv'
<1>1. TypeOK /\ c \in Call /\ c.at = "sent" /\ UNCHANGED <<client, agent, unaware, faults>>
  BY DEF IInv, TypeOK, Dispatch
<1>2. c.t \in Targets /\ c.step \in Steps /\ c.attempt \in 1 .. MaxAttempts
  BY <1>1 DEF Call
<1>3. c.t \in Machines => Method(c) \notin Adopting
  BY <1>1, MachinesAreNotAdopted
<1>4. ASSUME NEW stage \in {"ok", "error"}, Move(c, stage), UNCHANGED <<made, maker>>,
             c.t \in Machines => stage = "error"
      PROVE  IInv'
  <2>1. /\ calls' \subseteq Call
        /\ \A d, e \in calls' : d.t = e.t /\ d.attempt = e.attempt => d = e
        /\ \A d \in calls' :
             \/ d \in calls /\ d # c /\ (d.t # c.t \/ d.attempt # c.attempt)
             \/ /\ d.t = c.t /\ d.attempt = c.attempt /\ d.step = c.step
                /\ d.at = stage
    BY <1>1, <1>4, Moved DEF Stages
  <2>2. TypeOK'
    BY <1>1, <1>4, <2>1 DEF TypeOK
  <2>3. MakersKnown'
    BY <1>4, <2>1 DEF IInv, MakersKnown
  <2>4. /\ ProgramsBegin' /\ OneRunPerMachine' /\ StartedMachineWasGranted'
        /\ NoCallAhead'
    BY <1>1, <1>4, <2>1 DEF IInv, ProgramsBegin, OneRunPerMachine, StartedMachineWasGranted,
                            NoCallAhead
  <2>5. CallsOfMaker'
    BY <1>4, <2>1 DEF IInv, CallsOfMaker
  <2>6. GrantedFirst'
    BY <1>1, <1>4, <2>1 DEF IInv, GrantedFirst
  <2>7. QED  BY <2>2, <2>3, <2>4, <2>5, <2>6 DEF IInv
<1>5. ASSUME NEW stage \in {"making", "ok"}, Move(c, stage), made[c.t][c.step] = "none",
             NEW thing \in {"half", "made"},
             thing = IF stage = "making" THEN "half" ELSE "made",
             made' = [made EXCEPT ![c.t][c.step] = thing],
             maker' = [maker EXCEPT ![c.t][c.step] = c.attempt]
      PROVE  IInv'
  <2>1. /\ calls' \subseteq Call
        /\ \A d, e \in calls' : d.t = e.t /\ d.attempt = e.attempt => d = e
        /\ \A d \in calls' :
             \/ d \in calls /\ d # c /\ (d.t # c.t \/ d.attempt # c.attempt)
             \/ /\ d.t = c.t /\ d.attempt = c.attempt /\ d.step = c.step
                /\ d.at = stage
    BY <1>1, <1>5, Moved DEF Stages
  <2>2. /\ made' \in [Targets -> [Steps -> {"none", "half", "made"}]]
        /\ maker' \in [Targets -> [Steps -> 0 .. MaxAttempts]]
        /\ made'[c.t][c.step] = thing /\ maker'[c.t][c.step] = c.attempt
        /\ \A u \in Targets, s \in Steps :
             u # c.t \/ s # c.step => /\ made'[u][s] = made[u][s]
                                      /\ maker'[u][s] = maker[u][s]
    BY <1>1, <1>2, <1>5 DEF TypeOK
  <2>3. \A d \in calls : d \in Call /\ d.t \in Targets /\ d.step \in Steps
    BY <1>1 DEF TypeOK, Call
  <2>4. \A d \in calls : d.at = "making" => d.t # c.t \/ d.step # c.step
    BY <1>1, <1>5 DEF TypeOK
  <2>5. TypeOK'
    <3>1. \A d \in calls' : d.at = "making" => made'[d.t][d.step] = "half"
      BY <1>1, <1>5, <2>1, <2>2, <2>3, <2>4 DEF TypeOK
    <3>2. QED  BY <1>1, <2>1, <2>2, <3>1 DEF TypeOK
  <2>6. MakersKnown'
    BY <2>1, <2>2, <2>3, <2>4 DEF IInv, MakersKnown
  <2>7. ProgramsBegin' /\ NoCallAhead'
    BY <1>1, <2>1 DEF IInv, ProgramsBegin, NoCallAhead
  <2>8. 1 \in Steps /\ 3 \in Steps /\ 4 \in Steps /\ \A s \in 2 .. 4 : s \in Steps /\ s # 1
    BY DEF Steps
  <2>9. c.t \in Machines /\ c.step = 1 => maker[c.t][1] = 0
    BY <1>5 DEF IInv, CallsOfMaker
  <2>10. c.t \in Machines /\ c.step # 1 => maker[c.t][1] = c.attempt
    BY <1>2 DEF IInv, CallsOfMaker, Steps
  <2>11. \A m \in Machines : m \in Targets
    BY DEF Targets
  <2>12. CallsOfMaker'
    <3>1. ASSUME NEW m \in Machines, made'[m][1] = "none"
          PROVE  maker'[m][1] = 0
      BY <2>2, <2>8, <2>11, <3>1 DEF IInv, CallsOfMaker
    <3>2. ASSUME NEW d \in calls', d.t \in Machines, d.step > 1 \/ d.at = "ok"
          PROVE  maker'[d.t][1] = d.attempt
      <4>1. CASE d \in calls
        <5>1. maker[d.t][1] = d.attempt /\ d.attempt \in 1 .. MaxAttempts
          BY <3>2, <4>1, <1>1 DEF IInv, CallsOfMaker, TypeOK, Call
        <5>2. d.t # c.t \/ c.step # 1
          BY <5>1, <2>9, <3>2
        <5>3. QED  BY <5>1, <5>2, <2>2, <2>8, <2>11, <3>2
      <4>2. CASE d.t = c.t /\ d.attempt = c.attempt /\ d.step = c.step
        BY <4>2, <2>2, <2>8, <2>10, <2>11, <3>2
      <4>3. QED  BY <4>1, <4>2, <2>1
    <3>3. QED  BY <3>1, <3>2 DEF CallsOfMaker
  <2>13. OneRunPerMachine'
    <3>1. ASSUME NEW m \in Machines, client[m].step > 1
          PROVE  client[m].attempt = maker'[m][1]
      <4>1. client[m].attempt = maker[m][1] /\ client[m].attempt # 0
        <5>1. client[m].attempt = maker[m][1] /\ m \in Targets
          BY <3>1, <2>11 DEF IInv, OneRunPerMachine
        <5>2. client[m].step # 1
          BY <3>1
        <5>3. QED  BY <5>1, <5>2 DEF IInv, ProgramsBegin
      <4>2. m # c.t \/ c.step # 1
        BY <4>1, <2>9
      <4>3. QED  BY <4>1, <4>2, <2>2, <2>8, <2>11
    <3>2. ASSUME NEW m \in Machines, NEW s \in 2 .. 4
          PROVE  maker'[m][s] \in {0, maker'[m][1]}
      <4>1. maker[m][s] \in {0, maker[m][1]} /\ m \in Targets /\ s \in Steps /\ s # 1
        BY <2>8, <2>11 DEF IInv, OneRunPerMachine
      <4>2. CASE m # c.t
        BY <4>1, <4>2, <2>2, <2>8
      <4>3. CASE m = c.t /\ c.step # 1
        <5>1. maker'[m][1] = c.attempt /\ maker[m][1] = c.attempt
          BY <4>1, <4>3, <2>2, <2>8, <2>10
        <5>2. QED  BY <4>1, <4>3, <5>1, <2>2
      <4>4. CASE m = c.t /\ c.step = 1
        BY <4>1, <4>4, <2>2, <2>9
      <4>5. QED  BY <4>2, <4>3, <4>4
    <3>3. QED  BY <1>1, <3>1, <3>2 DEF OneRunPerMachine
  <2>14. \A u \in Targets, q \in Steps : made[u][q] = "made" => made'[u][q] = "made"
    BY <1>5, <2>2
  <2>15. GrantedFirst'
    <3>1. ASSUME NEW d \in calls', d.t \in Machines,
                 d.step = 4 \/ (d.step = 3 /\ d.at = "ok")
          PROVE  made'[d.t][3] = "made" \/ d.t \in unaware
      <4>1. CASE d \in calls
        BY <3>1, <4>1, <2>8, <2>11, <2>14 DEF IInv, GrantedFirst
      <4>2. CASE d.t = c.t /\ d.step = c.step /\ c.step = 4
        BY <3>1, <4>2, <2>8, <2>11, <2>14 DEF IInv, GrantedFirst
      <4>3. CASE d.t = c.t /\ d.step = c.step /\ d.at = stage /\ c.step = 3
        BY <3>1, <4>3, <1>5, <2>2
      <4>4. QED  BY <4>1, <4>2, <4>3, <3>1, <2>1
    <3>2. ASSUME NEW m \in Machines, client[m].at = "ready", client[m].step = 4
          PROVE  made'[m][3] = "made" \/ m \in unaware
      BY <3>2, <2>8, <2>11, <2>14 DEF IInv, GrantedFirst
    <3>3. QED  BY <1>1, <3>1, <3>2 DEF GrantedFirst
  <2>16. StartedMachineWasGranted'
    <3>1. ASSUME NEW m \in Machines, made'[m][4] = "made"
          PROVE  made'[m][3] = "made" \/ m \in unaware
      <4>1. CASE m = c.t /\ c.step = 4
        BY <4>1, <2>8, <2>11, <2>14 DEF IInv, GrantedFirst
      <4>2. CASE m # c.t \/ c.step # 4
        <5>1. made[m][4] = "made"
          BY <4>2, <3>1, <2>2, <2>8, <2>11
        <5>2. QED  BY <5>1, <2>8, <2>11, <2>14 DEF IInv, StartedMachineWasGranted
      <4>3. QED  BY <4>1, <4>2
    <3>2. QED  BY <1>1, <3>1 DEF StartedMachineWasGranted
  <2>17. QED  BY <2>5, <2>6, <2>7, <2>12, <2>13, <2>15, <2>16 DEF IInv
<1>6. QED
  <2>1. CASE Move(c, "error") /\ UNCHANGED <<made, maker>>
    BY <2>1, <1>4
  <2>2. CASE Method(c) \in Adopting \ Refused /\ Move(c, "ok") /\ UNCHANGED <<made, maker>>
    BY <2>2, <1>3, <1>4
  <2>3. CASE /\ made[c.t][c.step] = "none"
             /\ Move(c, "ok")
             /\ made' = [made EXCEPT ![c.t][c.step] = "made"]
             /\ maker' = [maker EXCEPT ![c.t][c.step] = c.attempt]
    BY <2>3, <1>5
  <2>4. CASE /\ made[c.t][c.step] = "none"
             /\ Move(c, "making")
             /\ made' = [made EXCEPT ![c.t][c.step] = "half"]
             /\ maker' = [maker EXCEPT ![c.t][c.step] = c.attempt]
    BY <2>4, <1>5
  <2>5. CASE Method(c) \in Atomic
    BY <2>1, <2>2, <2>3, <2>5 DEF Dispatch
  <2>6. CASE Method(c) \notin Atomic
    BY <2>1, <2>2, <2>4, <2>6 DEF Dispatch
  <2>7. QED  BY <2>5, <2>6

(* Only the call that makes something finishes it.                         *)
LEMMA FinishKeeps ==
  ASSUME IInv, NEW c \in calls, Finish(c)
  PROVE  IInv'
<1>1. TypeOK /\ c \in Call /\ c.at = "making" /\ UNCHANGED <<maker, client, agent, unaware, faults>>
  BY DEF IInv, TypeOK, Finish
<1>2. c.t \in Targets /\ c.step \in Steps
  BY <1>1 DEF Call
<1>3. PICK stage \in {"ok", "error"} :
        /\ Move(c, stage)
        /\ \/ stage = "ok" /\ made' = [made EXCEPT ![c.t][c.step] = "made"]
           \/ stage = "error" /\ made' = made
  BY DEF Finish
<1>4. /\ calls' \subseteq Call
      /\ \A d, e \in calls' : d.t = e.t /\ d.attempt = e.attempt => d = e
      /\ \A d \in calls' :
           \/ d \in calls /\ d # c /\ (d.t # c.t \/ d.attempt # c.attempt)
           \/ /\ d.t = c.t /\ d.attempt = c.attempt /\ d.step = c.step
              /\ d.at = stage
  BY <1>1, <1>3, Moved DEF Stages
<1>5. /\ made' \in [Targets -> [Steps -> {"none", "half", "made"}]]
      /\ made'[c.t][c.step] = IF stage = "ok" THEN "made" ELSE made[c.t][c.step]
      /\ \A u \in Targets, s \in Steps :
           u # c.t \/ s # c.step => made'[u][s] = made[u][s]
  <2>1. made \in [Targets -> [Steps -> {"none", "half", "made"}]]
    BY <1>1 DEF TypeOK
  <2>2. CASE stage = "ok" /\ made' = [made EXCEPT ![c.t][c.step] = "made"]
    BY <1>2, <2>1, <2>2
  <2>3. CASE stage = "error" /\ made' = made
    BY <1>2, <2>1, <2>3
  <2>4. QED  BY <1>3, <2>2, <2>3
<1>6. made[c.t][c.step] = "half" /\ maker[c.t][c.step] = c.attempt
  BY <1>1 DEF TypeOK, IInv, MakersKnown
<1>7. \A d \in calls : d \in Call /\ d.t \in Targets /\ d.step \in Steps
  BY <1>1 DEF TypeOK, Call
<1>8. TypeOK'
  <2>1. ASSUME NEW d \in calls', d.at = "making"
        PROVE  made'[d.t][d.step] = "half"
    <3>1. d \in calls /\ (d.t # c.t \/ d.attempt # c.attempt)
      BY <1>3, <1>4, <2>1
    <3>2. maker[d.t][d.step] = d.attempt /\ made[d.t][d.step] = "half"
      BY <1>1, <2>1, <3>1 DEF TypeOK, IInv, MakersKnown
    <3>3. d.t # c.t \/ d.step # c.step
      BY <1>6, <3>1, <3>2
    <3>4. QED  BY <1>5, <1>7, <3>1, <3>2, <3>3
  <2>2. QED  BY <1>1, <1>4, <1>5, <2>1 DEF TypeOK
<1>9. MakersKnown'
  BY <1>1, <1>3, <1>4 DEF IInv, MakersKnown
<1>10. ProgramsBegin' /\ OneRunPerMachine' /\ NoCallAhead'
  BY <1>1, <1>4 DEF IInv, ProgramsBegin, OneRunPerMachine, NoCallAhead
<1>11. \A m \in Machines : m \in Targets
  BY DEF Targets
<1>12. 1 \in Steps /\ 3 \in Steps /\ 4 \in Steps
  BY DEF Steps
<1>13. CallsOfMaker'
  <2>1. ASSUME NEW m \in Machines, made'[m][1] = "none"
        PROVE  maker[m][1] = 0
    <3>1. made[m][1] = "none"
      BY <1>5, <1>6, <1>11, <1>12, <2>1
    <3>2. QED  BY <3>1 DEF IInv, CallsOfMaker
  <2>2. ASSUME NEW d \in calls', d.t \in Machines, d.step > 1 \/ d.at = "ok"
        PROVE  maker[d.t][1] = d.attempt
    <3>1. CASE d \in calls
      BY <3>1, <2>2 DEF IInv, CallsOfMaker
    <3>2. CASE d.t = c.t /\ d.attempt = c.attempt /\ d.step = c.step /\ c.step > 1
      BY <3>2, <2>2 DEF IInv, CallsOfMaker
    <3>3. CASE d.t = c.t /\ d.attempt = c.attempt /\ c.step = 1
      BY <3>3, <1>6
    <3>4. c.step = 1 \/ c.step > 1
      BY <1>2 DEF Steps
    <3>5. QED  BY <3>1, <3>2, <3>3, <3>4, <1>4
  <2>3. QED  BY <1>1, <2>1, <2>2 DEF CallsOfMaker
<1>14. \A u \in Targets, s \in Steps : made[u][s] = "made" => made'[u][s] = "made"
  BY <1>5, <1>6
<1>15. GrantedFirst'
  <2>1. ASSUME NEW d \in calls', d.t \in Machines,
               d.step = 4 \/ (d.step = 3 /\ d.at = "ok")
        PROVE  made'[d.t][3] = "made" \/ d.t \in unaware
    <3>1. CASE d \in calls
      BY <3>1, <2>1, <1>11, <1>12, <1>14 DEF IInv, GrantedFirst
    <3>2. CASE d.t = c.t /\ d.step = c.step /\ d.step = 4
      BY <3>2, <2>1, <1>11, <1>12, <1>14 DEF IInv, GrantedFirst
    <3>3. CASE d.t = c.t /\ d.step = c.step /\ d.step = 3 /\ d.at = "ok" /\ d.at = stage
      BY <3>3, <1>5
    <3>4. QED  BY <3>1, <3>2, <3>3, <2>1, <1>4
  <2>2. ASSUME NEW m \in Machines, client[m].at = "ready", client[m].step = 4
        PROVE  made'[m][3] = "made" \/ m \in unaware
    BY <2>2, <1>11, <1>12, <1>14 DEF IInv, GrantedFirst
  <2>3. QED  BY <1>1, <2>1, <2>2 DEF GrantedFirst
<1>16. StartedMachineWasGranted'
  <2>1. ASSUME NEW m \in Machines, made'[m][4] = "made"
        PROVE  made'[m][3] = "made" \/ m \in unaware
    <3>1. CASE m = c.t /\ c.step = 4
      BY <3>1, <1>11, <1>12, <1>14 DEF IInv, GrantedFirst
    <3>2. CASE m # c.t \/ c.step # 4
      <4>1. made[m][4] = "made"
        BY <3>2, <2>1, <1>5, <1>11, <1>12
      <4>2. QED  BY <4>1, <1>11, <1>12, <1>14 DEF IInv, StartedMachineWasGranted
    <3>3. QED  BY <3>1, <3>2
  <2>2. QED  BY <1>1, <2>1 DEF StartedMachineWasGranted
<1>17. QED  BY <1>8, <1>9, <1>10, <1>13, <1>15, <1>16 DEF IInv

(* A handler that fails leaves what it began as it is.                     *)
LEMMA HandlerFailsKeeps ==
  ASSUME IInv, NEW c \in calls, HandlerFails(c)
  PROVE  IInv'
<1>1. /\ TypeOK /\ c \in Call /\ faults' = faults + 1 /\ faults < MaxFaults
      /\ Move(c, "error") /\ UNCHANGED <<made, maker, client, agent, unaware>>
  BY DEF IInv, TypeOK, HandlerFails, Fault
<1>2. /\ calls' \subseteq Call
      /\ \A d, e \in calls' : d.t = e.t /\ d.attempt = e.attempt => d = e
      /\ \A d \in calls' :
           \/ d \in calls /\ d # c /\ (d.t # c.t \/ d.attempt # c.attempt)
           \/ /\ d.t = c.t /\ d.attempt = c.attempt /\ d.step = c.step
              /\ d.at = "error"
  BY <1>1, Moved DEF Stages
<1>3. faults' \in 0 .. MaxFaults
  BY <1>1, BoundAssumption DEF TypeOK
<1>4. TypeOK'
  BY <1>1, <1>2, <1>3 DEF TypeOK
<1>5. MakersKnown' /\ CallsOfMaker' /\ GrantedFirst'
  BY <1>1, <1>2 DEF IInv, MakersKnown, CallsOfMaker, GrantedFirst
<1>6. /\ ProgramsBegin' /\ OneRunPerMachine' /\ StartedMachineWasGranted'
      /\ NoCallAhead'
  BY <1>1, <1>2 DEF IInv, ProgramsBegin, OneRunPerMachine, StartedMachineWasGranted, NoCallAhead
<1>7. QED  BY <1>4, <1>5, <1>6 DEF IInv

(* After a reboot no call is left, and machines are as defined as before.  *)
LEMMA NodeRebootKeeps ==
  ASSUME IInv, NodeReboot
  PROVE  IInv'
<1>1. /\ TypeOK /\ faults' = faults + 1 /\ faults < MaxFaults
      /\ calls' = {} /\ UNCHANGED <<maker, client>> /\ agent' = "down"
      /\ unaware' = unaware \cup {t \in Targets : client[t].at = "ready" /\ client[t].step = 4}
  BY DEF IInv, NodeReboot, Fault
<1>2. faults' \in 0 .. MaxFaults
  BY <1>1, BoundAssumption DEF TypeOK
<1>3. \A m \in Machines : m \in Targets /\ m # "node"
  BY NamesAssumption DEF Targets
<1>4. made' \in [Targets -> [Steps -> {"none", "half", "made"}]]
  BY <1>1 DEF TypeOK, NodeReboot
<1>5. \A m \in Machines : made'[m][1] = made[m][1] /\ made'[m][4] = "none"
  BY <1>3 DEF NodeReboot, Steps
<1>6. TypeOK'
  BY <1>1, <1>2, <1>4 DEF TypeOK
<1>7. MakersKnown' /\ CallsOfMaker' /\ GrantedFirst' /\ NoCallAhead'
  BY <1>1, <1>3, <1>5 DEF IInv, MakersKnown, CallsOfMaker, GrantedFirst, NoCallAhead
<1>8. ProgramsBegin' /\ OneRunPerMachine'
  BY <1>1 DEF IInv, ProgramsBegin, OneRunPerMachine
<1>9. StartedMachineWasGranted'
  BY <1>5 DEF StartedMachineWasGranted
<1>10. QED  BY <1>6, <1>7, <1>8, <1>9 DEF IInv
------------------------------------------------------------------------------
(* The theorems *)

(* Nothing was run yet.                                                    *)
LEMMA Initially ==
  ASSUME Init
  PROVE  IInv
<1>1. TypeOK
  BY BoundAssumption DEF Init, TypeOK, Steps, Programs
<1>2. MakersKnown /\ GrantedFirst /\ CallsOfMaker
  BY DEF Init, MakersKnown, GrantedFirst, CallsOfMaker, Targets, Steps
<1>3. ProgramsBegin /\ NoCallAhead
  BY DEF Init, ProgramsBegin, NoCallAhead
<1>4. OneRunPerMachine
  BY DEF Init, OneRunPerMachine, Targets, Steps
<1>5. StartedMachineWasGranted
  BY DEF Init, StartedMachineWasGranted, Targets, Steps
<1>6. QED  BY <1>1, <1>2, <1>3, <1>4, <1>5 DEF IInv

(* Every step of a client, of the agent and of the world keeps IInv.       *)
LEMMA StepKeeps ==
  ASSUME IInv, [Next]_vars
  PROVE  IInv'
<1>1. ASSUME NEW t \in Targets, SetupClient(t)
      PROVE  IInv'
  <2> DEFINE k == [client[t] EXCEPT !.at = "ready"]
  <2>1. /\ TypeOK /\ client[t].at = "dialing" /\ client' = [client EXCEPT ![t] = k]
        /\ UNCHANGED <<made, maker, calls, agent, unaware, faults>>
    BY <1>1 DEF SetupClient, IInv
  <2>2. client \in [Targets -> Programs]
    BY <2>1 DEF TypeOK
  <2>3. k \in Programs /\ k.attempt = client[t].attempt /\ k.step = client[t].step /\ k.at = "ready"
    BY <2>2 DEF Programs
  <2> HIDE DEF k
  <2>4. /\ client' \in [Targets -> Programs] /\ client'[t] = k
        /\ \A u \in Targets : u # t => client'[u] = client[u]
    BY <2>1, <2>2, <2>3
  <2>5. \A u \in Targets : /\ client'[u].attempt = client[u].attempt
                           /\ client'[u].step = client[u].step
                           /\ \/ client'[u].at = client[u].at
                              \/ client[u].at = "dialing" /\ client'[u].at = "ready"
    BY <2>1, <2>3, <2>4
  <2>6. /\ calls' \subseteq calls /\ faults' \in 0 .. MaxFaults
        /\ agent' \in {"down", "serving"} /\ (agent' = "down" => calls' = {})
    BY <2>1 DEF TypeOK
  <2>7. QED  BY <2>1, <2>4, <2>5, <2>6, FewerCalls
<1>2. ASSUME NEW t \in Targets, client[t].at # "off", Ends(t, "failed"),
             calls' \subseteq calls, UNCHANGED <<made, maker, agent, unaware>>,
             faults' \in 0 .. MaxFaults
      PROVE  IInv'
  <2>1. TypeOK
    BY DEF IInv
  <2>2. /\ client' \in [Targets -> Programs]
        /\ \A u \in Targets : /\ client'[u].attempt = client[u].attempt
                              /\ client'[u].step = client[u].step
                              /\ \/ client'[u].at = client[u].at
                                 \/ client[u].at # "off" /\ client'[u].at \in {"done", "failed"}
    BY <1>2, <2>1, Ended
  <2>3. agent' \in {"down", "serving"} /\ (agent' = "down" => calls' = {})
    BY <1>2, <2>1 DEF TypeOK
  <2>4. QED  BY <1>2, <2>2, <2>3, FewerCalls
<1>3. ASSUME UNCHANGED <<made, maker, unaware, client>>, calls' \subseteq calls,
             faults' \in 0 .. MaxFaults,
             agent' \in {"down", "serving"}, agent' = "down" => calls' = {}
      PROVE  IInv'
  <2>1. client' \in [Targets -> Programs]
    BY <1>3 DEF IInv, TypeOK
  <2>2. QED  BY <1>3, <2>1, FewerCalls
<1>4. /\ faults \in 0 .. MaxFaults /\ agent \in {"down", "serving"}
      /\ (agent = "down" => calls = {}) /\ (Fault => faults' \in 0 .. MaxFaults)
  BY BoundAssumption DEF IInv, TypeOK, Fault
<1>5. ASSUME NEW t \in Targets, DialFails(t) \/ Unavailable(t) \/ KeepaliveFails(t)
      PROVE  IInv'
  BY <1>2, <1>4, <1>5 DEF DialFails, Unavailable, KeepaliveFails, Lost
<1>6. ASSUME NEW c \in calls, ConnectionBreaks(c)
      PROVE  IInv'
  <2>1. c.t \in Targets
    BY DEF IInv, TypeOK, Call
  <2>2. CASE Awaited(c) /\ Ends(c.t, "failed") /\ calls' = calls
    BY <1>2, <1>4, <1>6, <2>1, <2>2 DEF ConnectionBreaks, Awaited
  <2>3. CASE client' = client /\ calls' = calls \ {c}
    BY <1>3, <1>4, <1>6, <2>3 DEF ConnectionBreaks
  <2>4. QED  BY <1>6, <2>2, <2>3 DEF ConnectionBreaks
<1>7. ASSUME Serve \/ AgentRestart \/ UNCHANGED vars
      PROVE  IInv'
  BY <1>3, <1>4, <1>7 DEF Serve, AgentRestart, vars
<1>8. QED
  BY <1>1, <1>5, <1>6, <1>7, RunKeeps, InvokeKeeps, ReplyKeeps, DispatchKeeps, FinishKeeps,
     HandlerFailsKeeps, NodeRebootKeeps DEF Next

(* A client waits for one call at most and handlers work on what they      *)
(* began, however often the programs of example/ are rerun.                *)
THEOREM TypeCorrect == Spec => []TypeOK
<1>1. Spec => []IInv
  BY Initially, StepKeeps, PTL DEF Spec
<1>2. IInv => TypeOK
  BY DEF IInv
<1>3. QED  BY <1>1, <1>2, PTL

(* Lost replies, calls that outlive their client, reruns, failing calls    *)
(* and restarts of the agent never start a machine whose own chains are    *)
(* not complete; a reboot does so only just before the last call.          *)
THEOREM StartedAreGranted == Spec => []StartedMachineWasGranted
<1>1. Spec => []IInv
  BY Initially, StepKeeps, PTL DEF Spec
<1>2. IInv => StartedMachineWasGranted
  BY DEF IInv
<1>3. QED  BY <1>1, <1>2, PTL

(* Only the run that made a machine goes on with it.                       *)
THEOREM MachinesHaveOneRun == Spec => []OneRunPerMachine
<1>1. Spec => []IInv
  BY Initially, StepKeeps, PTL DEF Spec
<1>2. IInv => OneRunPerMachine
  BY DEF IInv
<1>3. QED  BY <1>1, <1>2, PTL
==============================================================================
