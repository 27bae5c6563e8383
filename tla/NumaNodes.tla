------------------------------ MODULE NumaNodes ------------------------------
(***************************************************************************)
(* cpu.go: the NUMA nodes that the agent registers with the datastore,     *)
(* read from /sys/devices/system/node/node<N>/cpulist.                     *)
(*                                                                         *)
(* The kernel prints the cores of a node as the maximal runs of            *)
(* consecutive ids, in ascending order: "0-9,40-49", "3", or nothing at    *)
(* all for a node that has memory only.  A cpulist is therefore the        *)
(* sequence of its comma separated parts, a part being a run of ids.       *)
(***************************************************************************)
EXTENDS Integers, Sequences, SequencesExt, FiniteSets, FiniteSetsExt

CONSTANTS
    Cores,      \* ids of the cores of the compute node
    NumNodes,   \* directories node0, node1, ... that the glob finds
    MaxUint32   \* the largest uint32, at least as large as any id

ASSUME CoresAssumption == MaxUint32 \in Nat /\ Cores \subseteq 0..MaxUint32
ASSUME NumNodesAssumption == NumNodes \in Nat \ {0}

VARIABLES
    topology,   \* topology[k]: the cores of the k-th node
    nodes,      \* the nodes parsed so far
    result      \* "running", "ok" or "error"

vars == <<topology, nodes, result>>

------------------------------------------------------------------------------
(* The kernel's cpulist *)

(* From the first to the last id of each run. *)
RunsOf(S) ==
    {r \in S \X S : /\ r[1] <= r[2]
                    /\ r[1]..r[2] \subseteq S
                    /\ r[1] - 1 \notin S
                    /\ r[2] + 1 \notin S}

(* The runs of S in front of r. *)
Before(S, r) == {q \in RunsOf(S) : q[1] < r[1]}

(* A file without ids still holds one, empty, part. *)
NoIds == <<>>
cpulist(S) ==
    IF S = {} THEN <<NoIds>>
    ELSE [k \in 1..Cardinality(RunsOf(S)) |->
            CHOOSE r \in RunsOf(S) : Cardinality(Before(S, r)) = k - 1]

------------------------------------------------------------------------------
(* The parser *)

Error == [err |-> TRUE]
nil == -1

(* The ids of one part: "a-b", or "a" alone which is printed for a..a.     *)
(* ParseInt refuses the empty part.                                        *)
extractCoreID(part) ==
    IF part = NoIds THEN Error
    ELSE [err |-> FALSE, ids |-> [k \in 1..(part[2] - part[1] + 1) |-> part[1] + k - 1]]

NumaNode(pairs, pmin, pmax, lmin, lmax) ==
    [err |-> FALSE, Pairs |-> pairs,
     PhysicalCoreMin |-> pmin, PhysicalCoreMax |-> pmax,
     LogicalCoreMin |-> lmin, LogicalCoreMax |-> lmax]

(* Running minimum and maximum of a list, as both parsers compute them for *)
(* the physical cores: what is known after the first n cores.              *)
MinLoop_fromZero(list) ==
    LET min[n \in 0..Len(list)] ==
            IF n = 0 THEN 0 ELSE IF list[n] < min[n - 1] THEN list[n] ELSE min[n - 1]
    IN min[Len(list)]
MinLoop(list) ==
    LET min[n \in 0..Len(list)] ==
            IF n = 0 THEN MaxUint32 ELSE IF list[n] < min[n - 1] THEN list[n] ELSE min[n - 1]
    IN min[Len(list)]
MaxLoop(list) ==
    LET max[n \in 0..Len(list)] ==
            IF n = 0 THEN 0 ELSE IF list[n] > max[n - 1] THEN list[n] ELSE max[n - 1]
    IN max[Len(list)]

(* The loop over the logical cores keeps pointers: to a local holding the  *)
(* initial value, or to the loop variable lc, which is one variable for    *)
(* the whole loop in the language version of go.mod.  What a pointer to lc *)
(* yields changes with every iteration.                                    *)
Deref(pointer, initial, lc) == IF pointer = "lc" THEN lc ELSE initial

LogicalLoop(list) ==
    LET step(s, lc) ==
            [lc |-> lc,
             min |-> IF lc < Deref(s.min, MaxUint32, lc) THEN "lc" ELSE s.min,
             max |-> IF lc > Deref(s.max, 0, lc) THEN "lc" ELSE s.max]
        end == FoldLeft(step, [lc |-> 0, min |-> "initial", max |-> "initial"], list)
    IN [min |-> Deref(end.min, MaxUint32, end.lc), max |-> Deref(end.max, 0, end.lc)]

NewNode_shifted(physical, logical) ==
    NumaNode([k \in DOMAIN physical |->
                [PhysicalCore |-> physical[k],
                 LogicalCore |-> logical[IF k = 1 THEN 1 ELSE k - 1]]],
             MinLoop(physical), MaxLoop(physical),
             LogicalLoop(logical).min, LogicalLoop(logical).max)
NewNode(physical, logical) ==
    NumaNode([k \in DOMAIN physical |->
                [PhysicalCore |-> physical[k], LogicalCore |-> logical[k]]],
             MinLoop(physical), MaxLoop(physical),
             LogicalLoop(logical).min, LogicalLoop(logical).max)

parseOneNodeLine(coreIDs) ==
    LET list == extractCoreID(coreIDs[1])
    IN IF list.err THEN Error
       ELSE NumaNode([k \in DOMAIN list.ids |->
                        [PhysicalCore |-> list.ids[k], LogicalCore |-> nil]],
                     MinLoop(list.ids), MaxLoop(list.ids), nil, nil)

parseTwoNodeList(coreIDs) ==
    LET list1 == extractCoreID(coreIDs[1])
        list2 == extractCoreID(coreIDs[2])
    IN IF list1.err \/ list2.err \/ Len(list1.ids) # Len(list2.ids) THEN Error
       ELSE NewNode(list1.ids, list2.ids)

ParseNodeList(coreIDs) ==
    CASE Len(coreIDs) = 1 -> parseOneNodeLine(coreIDs)
      [] Len(coreIDs) = 2 -> parseTwoNodeList(coreIDs)
      [] OTHER            -> Error

------------------------------------------------------------------------------
(* GetLocalNUMANodes: one node after the other, up to the first error. *)

Init ==
    /\ topology \in [1..NumNodes -> SUBSET Cores]
    /\ \A j, k \in 1..NumNodes : j # k => topology[j] \cap topology[k] = {}
    /\ nodes = <<>>
    /\ result = "running"

ReadNode ==
    LET cpu == ParseNodeList(cpulist(topology[Len(nodes) + 1]))
    IN /\ result = "running" /\ Len(nodes) < NumNodes
       /\ nodes' = IF cpu.err THEN <<>> ELSE Append(nodes, cpu)
       /\ result' = IF cpu.err THEN "error" ELSE "running"
       /\ UNCHANGED topology

ReturnNodes ==
    /\ result = "running" /\ Len(nodes) = NumNodes
    /\ result' = "ok"
    /\ UNCHANGED <<topology, nodes>>

Next == ReadNode \/ ReturnNodes

Spec == Init /\ [][Next]_vars

------------------------------------------------------------------------------
(* Properties *)

CoresOfPair(p) == {p.PhysicalCore} \cup (IF p.LogicalCore = nil THEN {} ELSE {p.LogicalCore})

PairsOf(n) == ToSet(n.Pairs)

(* What is registered is the machine: the pairs of a node hold its cores,  *)
(* all of them, and no core is in two pairs, so that the scheduler cannot  *)
(* hand out a core twice.                                                  *)
EveryCoreInOnePair ==
    \A k \in DOMAIN nodes :
        /\ UNION {CoresOfPair(p) : p \in PairsOf(nodes[k])} = topology[k]
        /\ \A p, q \in DOMAIN nodes[k].Pairs :
              p # q => CoresOfPair(nodes[k].Pairs[p]) \cap CoresOfPair(nodes[k].Pairs[q]) = {}

(* PhysicalCoreMin and PhysicalCoreMax are the least and the greatest      *)
(* physical core, and every logical core lies above them.                  *)
PhysicalRangeExact ==
    \A k \in DOMAIN nodes :
        LET physical == {p.PhysicalCore : p \in PairsOf(nodes[k])}
            logical == {p.LogicalCore : p \in PairsOf(nodes[k])} \ {nil}
        IN /\ nodes[k].PhysicalCoreMin = Min(physical)
           /\ nodes[k].PhysicalCoreMax = Max(physical)
           /\ \A l \in logical : l > nodes[k].PhysicalCoreMax
==============================================================================
