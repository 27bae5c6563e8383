--------------------------- MODULE NumaNodesProofs ---------------------------
(***************************************************************************)
(* Theorems about NumaNodes, for any cores, any number of nodes and any    *)
(* distribution of the cores over them.                                    *)
(***************************************************************************)
EXTENDS NumaNodes, FiniteSetTheorems, TLAPS

(* Every set of naturals that is not empty has a least element. *)
LEMMA LeastNatural ==
    ASSUME NEW S \in SUBSET Nat, S # {}
    PROVE  \E n \in S : \A m \in S : n <= m
  <1> DEFINE R == {ss \in Nat \X Nat : ss[1] < ss[2]}
  <1>1. IsWellFoundedOn(R, Nat)
    BY NatLessThanWellFounded DEF OpToRel
  <1>2. PICK n \in S : \A m \in S : ~(<<m, n>> \in R)
    BY <1>1, WFMin
  <1>3. \A m \in S : ~(m < n)
    BY <1>2
  <1> QED
    BY <1>3

------------------------------------------------------------------------------
(* Runs *)

(* Cores are naturals, and finitely many. *)
LEMMA FiniteCores ==
    ASSUME NEW S \in SUBSET Cores
    PROVE  /\ S \in SUBSET Nat /\ IsFiniteSet(S)
           /\ \A x \in S : x <= MaxUint32
  <1>1. S \subseteq 0..MaxUint32 /\ MaxUint32 \in Nat
    BY CoresAssumption
  <1>2. IsFiniteSet(0..MaxUint32)
    BY <1>1, FS_Interval
  <1>3. IsFiniteSet(S)
    BY <1>1, <1>2, FS_Subset
  <1> QED
    BY <1>1, <1>3

(* What a run is. *)
LEMMA RunMeans ==
    ASSUME NEW S \in SUBSET Nat, NEW r \in RunsOf(S)
    PROVE  /\ r = <<r[1], r[2]>>
           /\ r[1] \in S /\ r[2] \in S /\ r[1] \in Nat /\ r[2] \in Nat
           /\ r[1] <= r[2]
           /\ \A x \in Nat : r[1] <= x /\ x <= r[2] => x \in S
           /\ r[1] - 1 \notin S /\ r[2] + 1 \notin S
  <1>1. r \in S \X S /\ r[1] <= r[2] /\ r[1]..r[2] \subseteq S
        /\ r[1] - 1 \notin S /\ r[2] + 1 \notin S
    BY DEF RunsOf
  <1>2. r = <<r[1], r[2]>> /\ r[1] \in S /\ r[2] \in S
    BY <1>1
  <1>3. r[1] \in Nat /\ r[2] \in Nat
    BY <1>2
  <1>4. ASSUME NEW x \in Nat, r[1] <= x, x <= r[2] PROVE x \in S
    <2>1. x \in r[1]..r[2]
      BY <1>3, <1>4
    <2> QED
      BY <1>1, <2>1
  <1> QED
    BY <1>1, <1>2, <1>3, <1>4

(* Every core is in a run. *)
LEMMA InARun ==
    ASSUME NEW S \in SUBSET Cores, NEW x \in S
    PROVE  \E r \in RunsOf(S) : r[1] <= x /\ x <= r[2]
  <1>1. S \in SUBSET Nat /\ (\A y \in S : y <= MaxUint32) /\ MaxUint32 \in Nat
    BY FiniteCores, CoresAssumption
  <1> DEFINE below == {n \in 0..x : n..x \subseteq S}
             above == {d \in Nat : x + d + 1 \notin S}
  <1>2. PICK a \in below : \A m \in below : a <= m
    <2>1. x \in below
      BY <1>1
    <2>2. below \in SUBSET Nat
      BY <1>1
    <2> QED
      BY <2>1, <2>2, LeastNatural
  <1>3. PICK d \in above : \A m \in above : d <= m
    <2>1. MaxUint32 \in above
      BY <1>1
    <2>2. above \in SUBSET Nat
      OBVIOUS
    <2> QED
      BY <2>1, <2>2, LeastNatural
  <1>4. a \in Nat /\ d \in Nat /\ a <= x /\ a..x \subseteq S
    BY <1>1
  <1>5. a - 1 \notin S
    <2> SUFFICES ASSUME a - 1 \in S PROVE FALSE
      OBVIOUS
    <2>1. a - 1 \in Nat /\ a - 1 <= x
      BY <1>1, <1>4
    <2>2. (a - 1)..x \subseteq S
      BY <1>1, <1>4
    <2>3. a - 1 \in below
      BY <1>1, <2>1, <2>2
    <2> QED
      BY <1>2, <1>4, <2>3
  <1>6. x..(x + d) \subseteq S
    <2> SUFFICES ASSUME NEW y \in x..(x + d) PROVE y \in S
      OBVIOUS
    <2>1. CASE y = x
      BY <2>1
    <2>2. CASE y # x
      <3>1. y - x - 1 \in Nat /\ y - x - 1 < d
        BY <1>1, <1>4, <2>2
      <3>2. y - x - 1 \notin above
        BY <1>3, <1>4, <3>1
      <3>3. x + (y - x - 1) + 1 \in S
        BY <3>1, <3>2
      <3> QED
        BY <1>1, <3>3
    <2> QED
      BY <2>1, <2>2
  <1>7. x + d + 1 \notin S
    BY <1>3
  <1>8. a..(x + d) \subseteq S
    <2> SUFFICES ASSUME NEW y \in a..(x + d) PROVE y \in S
      OBVIOUS
    <2>1. y \in a..x \/ y \in x..(x + d)
      BY <1>1, <1>4
    <2> QED
      BY <1>4, <1>6, <2>1
  <1>9. a \in S /\ x + d \in S /\ a <= x + d
    BY <1>1, <1>4, <1>8
  <1>10. <<a, x + d>> \in RunsOf(S)
    BY <1>5, <1>7, <1>8, <1>9 DEF RunsOf
  <1> QED
    BY <1>1, <1>4, <1>10

(* Two runs have a gap between them. *)
LEMMA RunsApart ==
    ASSUME NEW S \in SUBSET Nat, NEW r \in RunsOf(S), NEW q \in RunsOf(S),
           r # q, r[1] <= q[1]
    PROVE  r[2] + 1 < q[1]
  <1> SUFFICES ASSUME q[1] <= r[2] + 1 PROVE FALSE
    BY RunMeans
  <1>1. CASE r[1] < q[1]
    <2>1. q[1] - 1 \in Nat /\ r[1] <= q[1] - 1 /\ q[1] - 1 <= r[2]
      BY <1>1, RunMeans
    <2> QED
      BY <2>1, RunMeans
  <1>2. CASE r[1] = q[1]
    <2>1. r[2] # q[2]
      BY <1>2, RunMeans
    <2>2. CASE r[2] < q[2]
      <3>1. r[2] + 1 \in Nat /\ q[1] <= r[2] + 1 /\ r[2] + 1 <= q[2]
        BY <1>2, <2>2, RunMeans
      <3> QED
        BY <3>1, RunMeans
    <2>3. CASE q[2] < r[2]
      <3>1. q[2] + 1 \in Nat /\ r[1] <= q[2] + 1 /\ q[2] + 1 <= r[2]
        BY <1>2, <2>3, RunMeans
      <3> QED
        BY <3>1, RunMeans
    <2> QED
      BY <2>1, <2>2, <2>3, RunMeans
  <1> QED
    BY <1>1, <1>2, RunMeans

(* There are finitely many. *)
LEMMA FiniteRuns ==
    ASSUME NEW S \in SUBSET Cores
    PROVE  IsFiniteSet(RunsOf(S)) /\ Cardinality(RunsOf(S)) \in Nat
  <1>1. S \in SUBSET Nat /\ IsFiniteSet(S)
    BY FiniteCores
  <1> DEFINE f == [r \in RunsOf(S) |-> r[1]]
  <1>2. f \in [RunsOf(S) -> S]
    BY <1>1, RunMeans
  <1>3. ASSUME NEW r \in RunsOf(S), NEW q \in RunsOf(S), f[r] = f[q] PROVE r = q
    <2>1. r[1] = q[1] /\ r[1] \in Nat /\ r[2] \in Nat /\ r[1] <= r[2]
      BY <1>1, <1>3, RunMeans
    <2> QED
      BY <1>1, <2>1, RunsApart
  <1>4. f \in Injection(RunsOf(S), S)
    BY <1>2, <1>3 DEF Injection, IsInjective
  <1>5. IsFiniteSet(RunsOf(S))
    BY <1>1, <1>4, FS_Injection
  <1> QED
    BY <1>5, FS_CardinalityType

------------------------------------------------------------------------------
(* The kernel's cpulist *)

(* The file of a node with one run. *)
LEMMA OneRun ==
    ASSUME NEW S \in SUBSET Cores, S # {}, Cardinality(RunsOf(S)) = 1
    PROVE  \E r \in RunsOf(S) : RunsOf(S) = {r} /\ cpulist(S) = <<r>>
  <1>1. PICK r : RunsOf(S) = {r}
    BY FiniteRuns, FS_Singleton
  <1>2. r[1] \in Nat
    BY <1>1, FiniteCores, RunMeans
  <1>3. Before(S, r) = {}
    BY <1>1, <1>2 DEF Before
  <1>4. (CHOOSE q \in RunsOf(S) : Cardinality(Before(S, q)) = 1 - 1) = r
    BY <1>1, <1>3, FS_EmptySet
  <1>5. cpulist(S) = [k \in 1..1 |-> CHOOSE q \in RunsOf(S) : Cardinality(Before(S, q)) = k - 1]
    BY DEF cpulist
  <1>6. cpulist(S) = <<r>>
    BY <1>4, <1>5
  <1> QED
    BY <1>1, <1>6

(* The file of a node with two. *)
LEMMA TwoRuns ==
    ASSUME NEW S \in SUBSET Cores, S # {}, Cardinality(RunsOf(S)) = 2
    PROVE  \E r, q \in RunsOf(S) :
             /\ RunsOf(S) = {r, q} /\ r[2] + 1 < q[1]
             /\ cpulist(S) = <<r, q>>
  <1>1. S \in SUBSET Nat
    BY FiniteCores
  <1>2. PICK x \in RunsOf(S) : TRUE
    BY FiniteRuns, FS_EmptySet
  <1>3. IsFiniteSet(RunsOf(S) \ {x}) /\ Cardinality(RunsOf(S) \ {x}) = 1
    BY <1>2, FiniteRuns, FS_RemoveElement
  <1>4. PICK y : RunsOf(S) \ {x} = {y}
    BY <1>3, FS_Singleton
  <1>5. RunsOf(S) = {x, y} /\ x # y
    BY <1>2, <1>4
  <1>6. PICK r, q \in RunsOf(S) : RunsOf(S) = {r, q} /\ r # q /\ r[1] <= q[1]
    <2>1. x[1] \in Nat /\ y[1] \in Nat
      BY <1>1, <1>5, RunMeans
    <2>2. x[1] <= y[1] \/ y[1] <= x[1]
      BY <2>1
    <2> QED
      BY <1>5, <2>2
  <1>7. r[2] + 1 < q[1]
    BY <1>1, <1>6, RunsApart
  <1>8. r[1] \in Nat /\ q[1] \in Nat /\ r[1] < q[1]
    BY <1>1, <1>6, <1>7, RunMeans
  <1>9. Before(S, r) = {} /\ Before(S, q) = {r}
    BY <1>6, <1>8 DEF Before
  <1>10. Cardinality(Before(S, r)) = 0 /\ Cardinality(Before(S, q)) = 1
    BY <1>9, FS_EmptySet, FS_Singleton
  <1> DEFINE nth(k) == CHOOSE s \in RunsOf(S) : Cardinality(Before(S, s)) = k - 1
  <1>11. nth(1) = r /\ nth(2) = q
    BY <1>6, <1>10
  <1>12. cpulist(S) = [k \in 1..2 |-> nth(k)]
    BY DEF cpulist
  <1> HIDE DEF nth
  <1>13. cpulist(S) = <<r, q>>
    BY <1>11, <1>12
  <1> QED
    BY <1>6, <1>7, <1>13

------------------------------------------------------------------------------
(* The loops over a run *)

(* The minimum over the cores of a run is the first, *)
LEMMA MinOfRun ==
    ASSUME NEW a \in Nat, NEW b \in Nat, a <= b, b <= MaxUint32, MaxUint32 \in Nat
    PROVE  MinLoop([k \in 1..(b - a + 1) |-> a + k - 1]) = a
  <1> DEFINE N == b - a + 1
             list == [k \in 1..N |-> a + k - 1]
             step(m, n) == IF n = 0 THEN MaxUint32 ELSE IF list[n] < m[n - 1] THEN list[n] ELSE m[n - 1]
             isLoop(m) == m = [n \in 0..N |-> step(m, n)]
             known == [n \in 0..N |-> IF n = 0 THEN MaxUint32 ELSE a]
  <1>1. N \in Nat /\ N >= 1 /\ Len(list) = N
    OBVIOUS
  <1>2. \A n \in 1..N : list[n] = a + n - 1
    OBVIOUS
  <1>3. MinLoop(list) = (CHOOSE m : isLoop(m))[N]
    BY <1>1 DEF MinLoop
  <1> HIDE DEF N, list
  <1>4. isLoop(known)
    <2>1. ASSUME NEW n \in 0..N PROVE known[n] = step(known, n)
      <3>1. CASE n = 0
        BY <1>1, <3>1
      <3>2. CASE n = 1
        <4>1. list[n] = a /\ known[n - 1] = MaxUint32 /\ known[n] = a
          BY <1>1, <1>2, <3>2
        <4> QED
          BY <3>2, <4>1
      <3>3. CASE n > 1
        <4>1. known[n - 1] = a /\ known[n] = a /\ list[n] \in Nat /\ list[n] >= a
          BY <1>1, <1>2, <3>3
        <4> QED
          BY <3>3, <4>1
      <3> QED
        BY <1>1, <3>1, <3>2, <3>3
    <2> QED
      BY <2>1
  <1>5. ASSUME NEW m, isLoop(m) PROVE m[N] = a
    <2>1. \A n \in 0..N : m[n] = step(m, n)
      BY <1>5
    <2> DEFINE wrong == {n \in 1..N : m[n] # a}
    <2>2. CASE wrong = {}
      BY <1>1, <2>2
    <2>3. CASE wrong # {}
      <3>1. wrong \in SUBSET Nat
        BY <1>1
      <3>2. PICK n \in wrong : \A j \in wrong : n <= j
        BY <2>3, <3>1, LeastNatural
      <3>3. n \in 1..N /\ m[n] = step(m, n)
        BY <1>1, <2>1, <3>2
      <3>4. list[n] \in Nat /\ list[n] >= a /\ (n = 1 => list[n] = a)
        BY <1>1, <1>2, <3>3
      <3>5. CASE n = 1
        <4>1. m[0] = MaxUint32
          BY <1>1, <2>1
        <4> QED
          BY <3>2, <3>3, <3>4, <3>5, <4>1
      <3>6. CASE n > 1
        <4>1. n - 1 \in 1..N /\ n - 1 \notin wrong
          BY <1>1, <3>2, <3>3, <3>6
        <4>2. m[n - 1] = a
          BY <4>1
        <4> QED
          BY <3>2, <3>3, <3>4, <3>6, <4>2
      <3> QED
        BY <1>1, <3>3, <3>5, <3>6
    <2> QED
      BY <2>2, <2>3
  <1> HIDE DEF isLoop
  <1>6. MinLoop(list) = a
    BY <1>3, <1>4, <1>5
  <1> QED
    BY <1>6 DEF list, N

(* and the maximum the last. *)
LEMMA MaxOfRun ==
    ASSUME NEW a \in Nat, NEW b \in Nat, a <= b
    PROVE  MaxLoop([k \in 1..(b - a + 1) |-> a + k - 1]) = b
  <1> DEFINE N == b - a + 1
             list == [k \in 1..N |-> a + k - 1]
             step(m, n) == IF n = 0 THEN 0 ELSE IF list[n] > m[n - 1] THEN list[n] ELSE m[n - 1]
             isLoop(m) == m = [n \in 0..N |-> step(m, n)]
             known == [n \in 0..N |-> IF n = 0 THEN 0 ELSE a + n - 1]
  <1>1. N \in Nat /\ N >= 1 /\ Len(list) = N /\ a + N - 1 = b
    OBVIOUS
  <1>2. \A n \in 1..N : list[n] = a + n - 1
    OBVIOUS
  <1>3. MaxLoop(list) = (CHOOSE m : isLoop(m))[N]
    BY <1>1 DEF MaxLoop
  <1> HIDE DEF N, list
  <1>4. isLoop(known)
    <2>1. ASSUME NEW n \in 0..N PROVE known[n] = step(known, n)
      <3>1. CASE n = 0
        BY <1>1, <3>1
      <3>2. CASE n = 1
        <4>1. list[n] = a /\ known[n - 1] = 0 /\ known[n] = a
          BY <1>1, <1>2, <3>2
        <4> QED
          BY <3>2, <4>1
      <3>3. CASE n > 1
        <4>1. known[n - 1] = a + n - 2 /\ known[n] = a + n - 1 /\ list[n] = a + n - 1
          BY <1>1, <1>2, <3>3
        <4> QED
          BY <3>3, <4>1
      <3> QED
        BY <1>1, <3>1, <3>2, <3>3
    <2> QED
      BY <2>1
  <1>5. ASSUME NEW m, isLoop(m) PROVE m[N] = b
    <2>1. \A n \in 0..N : m[n] = step(m, n)
      BY <1>5
    <2> DEFINE wrong == {n \in 1..N : m[n] # a + n - 1}
    <2>2. CASE wrong = {}
      BY <1>1, <2>2
    <2>3. CASE wrong # {}
      <3>1. wrong \in SUBSET Nat
        BY <1>1
      <3>2. PICK n \in wrong : \A j \in wrong : n <= j
        BY <2>3, <3>1, LeastNatural
      <3>3. n \in 1..N /\ m[n] = step(m, n) /\ list[n] = a + n - 1
        BY <1>1, <1>2, <2>1, <3>2
      <3>4. CASE n = 1
        <4>1. m[0] = 0
          BY <1>1, <2>1
        <4> QED
          BY <3>2, <3>3, <3>4, <4>1
      <3>5. CASE n > 1
        <4>1. n - 1 \in 1..N /\ n - 1 \notin wrong
          BY <1>1, <3>2, <3>3, <3>5
        <4>2. m[n - 1] = a + n - 2
          BY <4>1
        <4> QED
          BY <3>2, <3>3, <3>5, <4>2
      <3> QED
        BY <1>1, <3>3, <3>4, <3>5
    <2> QED
      BY <2>2, <2>3
  <1> HIDE DEF isLoop
  <1>6. MaxLoop(list) = b
    BY <1>1, <1>3, <1>4, <1>5
  <1> QED
    BY <1>6 DEF list, N

------------------------------------------------------------------------------
(* The parser *)

(* The list of the cores of a run. *)
Listed(r) == [k \in 1..(r[2] - r[1] + 1) |-> r[1] + k - 1]

(* A run is read as the list of its cores, whose least and greatest the    *)
(* parsers find.                                                           *)
LEMMA ReadRun ==
    ASSUME NEW S \in SUBSET Cores, NEW r \in RunsOf(S)
    PROVE  /\ extractCoreID(r) = [err |-> FALSE, ids |-> Listed(r)]
           /\ MinLoop(Listed(r)) = r[1] /\ MaxLoop(Listed(r)) = r[2]
           /\ Len(Listed(r)) = r[2] - r[1] + 1
           /\ DOMAIN Listed(r) = 1..(r[2] - r[1] + 1)
           /\ \A k \in DOMAIN Listed(r) : Listed(r)[k] = r[1] + k - 1
  <1>1. S \in SUBSET Nat /\ (\A x \in S : x <= MaxUint32) /\ MaxUint32 \in Nat
    BY FiniteCores, CoresAssumption
  <1>2. /\ r = <<r[1], r[2]>> /\ r[1] \in Nat /\ r[2] \in Nat /\ r[1] <= r[2]
        /\ r[2] <= MaxUint32
    BY <1>1, RunMeans
  <1>3. r # NoIds
    <2>1. Len(<<r[1], r[2]>>) = 2 /\ Len(NoIds) = 0
      BY DEF NoIds
    <2>2. Len(r) = 2
      BY <1>2, <2>1
    <2> QED
      BY <2>1, <2>2
  <1>4. extractCoreID(r) = [err |-> FALSE, ids |-> Listed(r)]
    BY <1>3 DEF extractCoreID, Listed
  <1>5. MinLoop(Listed(r)) = r[1] /\ MaxLoop(Listed(r)) = r[2]
    BY <1>1, <1>2, MinOfRun, MaxOfRun DEF Listed
  <1>6. r[2] - r[1] + 1 \in Nat
    BY <1>2
  <1> QED
    BY <1>4, <1>5, <1>6 DEF Listed

(* What EveryCoreInOnePair and PhysicalRangeExact say of one node. *)
InOnePair(S, n) ==
    /\ UNION {CoresOfPair(p) : p \in PairsOf(n)} = S
    /\ \A p, q \in DOMAIN n.Pairs :
          p # q => CoresOfPair(n.Pairs[p]) \cap CoresOfPair(n.Pairs[q]) = {}

RangeExact(n) ==
    LET physical == {p.PhysicalCore : p \in PairsOf(n)}
        logical == {p.LogicalCore : p \in PairsOf(n)} \ {nil}
    IN /\ n.PhysicalCoreMin = Min(physical)
       /\ n.PhysicalCoreMax = Max(physical)
       /\ \A l \in logical : l > n.PhysicalCoreMax

(* The least and the greatest core of a run. *)
LEMMA EndsOfRun ==
    ASSUME NEW a \in Nat, NEW b \in Nat, a <= b
    PROVE  Min(a..b) = a /\ Max(a..b) = b
  <1>1. ASSUME NEW m \in a..b, \A x \in a..b : m <= x PROVE m = a
    <2>1. m <= a /\ a <= m
      BY <1>1
    <2> QED
      BY <2>1
  <1>2. ASSUME NEW m \in a..b, \A x \in a..b : m >= x PROVE m = b
    <2>1. m <= b /\ b <= m
      BY <1>2
    <2> QED
      BY <2>1
  <1>3. a \in a..b /\ \A x \in a..b : a <= x
    OBVIOUS
  <1>4. b \in a..b /\ \A x \in a..b : b >= x
    OBVIOUS
  <1>5. (CHOOSE m \in a..b : \A x \in a..b : m <= x) = a
    BY <1>1, <1>3
  <1>6. (CHOOSE m \in a..b : \A x \in a..b : m >= x) = b
    BY <1>2, <1>4
  <1> QED
    BY <1>5, <1>6 DEF Min, Max

(* A node with one run of cores has a pair for each of them. *)
LEMMA OneRunRight ==
    ASSUME NEW S \in SUBSET Cores, S # {}, Cardinality(RunsOf(S)) = 1
    PROVE  LET n == ParseNodeList(cpulist(S)) IN InOnePair(S, n) /\ RangeExact(n)
  <1>1. PICK r \in RunsOf(S) : RunsOf(S) = {r} /\ cpulist(S) = <<r>>
    BY OneRun
  <1>2. S \in SUBSET Nat
    BY FiniteCores
  <1>3. /\ r[1] \in Nat /\ r[2] \in Nat /\ r[1] <= r[2]
        /\ \A x \in Nat : r[1] <= x /\ x <= r[2] => x \in S
    BY <1>2, RunMeans
  <1>4. S = r[1]..r[2]
    <2>1. \A x \in S : r[1] <= x /\ x <= r[2]
      BY <1>1, InARun
    <2>2. \A x \in S : x \in r[1]..r[2]
      BY <1>2, <1>3, <2>1
    <2>3. \A x \in r[1]..r[2] : x \in S
      BY <1>3
    <2> QED
      BY <2>2, <2>3
  <1> DEFINE pair(c) == [PhysicalCore |-> c, LogicalCore |-> nil]
             N == r[2] - r[1] + 1
             pairs == [k \in 1..N |-> pair(r[1] + k - 1)]
             n == ParseNodeList(cpulist(S))
  <1>5. n = NumaNode(pairs, r[1], r[2], nil, nil)
    <2>1. Len(cpulist(S)) = 1 /\ cpulist(S)[1] = r
      BY <1>1
    <2>2. n = parseOneNodeLine(cpulist(S))
      BY <2>1 DEF ParseNodeList
    <2> DEFINE list == [err |-> FALSE, ids |-> Listed(r)]
    <2>3. extractCoreID(cpulist(S)[1]) = list /\ list.err = FALSE /\ list.ids = Listed(r)
      BY <2>1, ReadRun
    <2>4. [k \in DOMAIN Listed(r) |-> pair(Listed(r)[k])] = pairs
      BY ReadRun DEF Listed
    <2>5. parseOneNodeLine(cpulist(S)) =
            NumaNode([k \in DOMAIN Listed(r) |-> pair(Listed(r)[k])],
                     MinLoop(Listed(r)), MaxLoop(Listed(r)), nil, nil)
      BY <2>3 DEF parseOneNodeLine
    <2> QED
      BY <2>2, <2>4, <2>5, ReadRun
  <1>6. n.Pairs = pairs /\ n.PhysicalCoreMin = r[1] /\ n.PhysicalCoreMax = r[2]
    BY <1>5 DEF NumaNode
  <1>7. N \in Nat /\ N >= 1
    BY <1>3
  <1>8. PairsOf(n) = {pair(c) : c \in S}
    <2>1. PairsOf(n) = {pairs[k] : k \in 1..N}
      BY <1>6 DEF PairsOf, ToSet
    <2>2. ASSUME NEW k \in 1..N PROVE \E c \in S : pairs[k] = pair(c)
      <3>1. r[1] + k - 1 \in S
        BY <1>3, <1>4, <1>7
      <3> QED
        BY <3>1
    <2>3. ASSUME NEW c \in S PROVE \E k \in 1..N : pair(c) = pairs[k]
      <3>1. c - r[1] + 1 \in 1..N /\ r[1] + (c - r[1] + 1) - 1 = c
        BY <1>3, <1>4, <1>7
      <3>2. pairs[c - r[1] + 1] = pair(c)
        BY <3>1
      <3> QED
        BY <3>1, <3>2
    <2> HIDE DEF pair, pairs, N
    <2> QED
      BY <2>1, <2>2, <2>3
  <1>9. \A c : pair(c).PhysicalCore = c /\ pair(c).LogicalCore = nil /\ CoresOfPair(pair(c)) = {c}
    BY DEF CoresOfPair
  <1>10. \A k \in 1..N : pairs[k] = pair(r[1] + k - 1)
    OBVIOUS
  <1>11. DOMAIN pairs = 1..N
    OBVIOUS
  <1> HIDE DEF pair, n, pairs
  <1>12. InOnePair(S, n)
    <2>1. UNION {CoresOfPair(p) : p \in PairsOf(n)} = S
      BY <1>8, <1>9
    <2>2. ASSUME NEW j \in DOMAIN n.Pairs, NEW k \in DOMAIN n.Pairs, j # k
          PROVE  CoresOfPair(n.Pairs[j]) \cap CoresOfPair(n.Pairs[k]) = {}
      <3>1. j \in 1..N /\ k \in 1..N /\ r[1] + j - 1 # r[1] + k - 1
        BY <1>3, <1>6, <1>7, <1>11, <2>2
      <3>2. CoresOfPair(n.Pairs[j]) = {r[1] + j - 1} /\ CoresOfPair(n.Pairs[k]) = {r[1] + k - 1}
        BY <1>6, <1>9, <1>10, <3>1
      <3> QED
        BY <3>1, <3>2
    <2> QED
      BY <2>1, <2>2 DEF InOnePair
  <1>13. RangeExact(n)
    <2>1. {p.PhysicalCore : p \in PairsOf(n)} = S
      BY <1>8, <1>9
    <2>2. {p.LogicalCore : p \in PairsOf(n)} \ {nil} = {}
      BY <1>8, <1>9
    <2>3. Min(S) = r[1] /\ Max(S) = r[2]
      BY <1>3, <1>4, EndsOfRun
    <2> QED
      BY <1>6, <2>1, <2>2, <2>3 DEF RangeExact
  <1> QED
    BY <1>12, <1>13 DEF n

(* A node with two runs pairs the n-th core of one with the n-th of the    *)
(* other, if they are of one length.                                       *)
LEMMA TwoRunsRight ==
    ASSUME NEW S \in SUBSET Cores, S # {}, Cardinality(RunsOf(S)) = 2,
           ~ParseNodeList(cpulist(S)).err
    PROVE  LET n == ParseNodeList(cpulist(S)) IN InOnePair(S, n) /\ RangeExact(n)
  <1>1. PICK r, q \in RunsOf(S) : /\ RunsOf(S) = {r, q} /\ r[2] + 1 < q[1]
                                  /\ cpulist(S) = <<r, q>>
    BY TwoRuns
  <1>2. S \in SUBSET Nat
    BY FiniteCores
  <1>3. /\ r[1] \in Nat /\ r[2] \in Nat /\ r[1] <= r[2]
        /\ \A x \in Nat : r[1] <= x /\ x <= r[2] => x \in S
    BY <1>2, RunMeans
  <1>4. /\ q[1] \in Nat /\ q[2] \in Nat /\ q[1] <= q[2]
        /\ \A x \in Nat : q[1] <= x /\ x <= q[2] => x \in S
    BY <1>2, RunMeans
  <1>5. S = r[1]..r[2] \cup q[1]..q[2]
    <2>1. \A x \in S : (r[1] <= x /\ x <= r[2]) \/ (q[1] <= x /\ x <= q[2])
      BY <1>1, InARun
    <2>2. \A x \in S : x \in r[1]..r[2] \cup q[1]..q[2]
      BY <1>2, <1>3, <1>4, <2>1
    <2>3. \A x \in r[1]..r[2] \cup q[1]..q[2] : x \in S
      BY <1>3, <1>4
    <2> QED
      BY <2>2, <2>3
  <1> DEFINE pair(c) == [PhysicalCore |-> c, LogicalCore |-> q[1] + c - r[1]]
             N == r[2] - r[1] + 1
             pairs == [k \in 1..N |-> pair(r[1] + k - 1)]
             n == ParseNodeList(cpulist(S))
             lmin == LogicalLoop(Listed(q)).min
             lmax == LogicalLoop(Listed(q)).max
  <1>6. n = NumaNode(pairs, r[1], r[2], lmin, lmax) /\ q[2] - q[1] + 1 = N
    <2>1. Len(cpulist(S)) = 2 /\ cpulist(S)[1] = r /\ cpulist(S)[2] = q
      BY <1>1
    <2>2. n = parseTwoNodeList(cpulist(S))
      BY <2>1 DEF ParseNodeList
    <2> DEFINE list1 == [err |-> FALSE, ids |-> Listed(r)]
               list2 == [err |-> FALSE, ids |-> Listed(q)]
    <2>3. /\ extractCoreID(cpulist(S)[1]) = list1 /\ extractCoreID(cpulist(S)[2]) = list2
          /\ list1.err = FALSE /\ list1.ids = Listed(r)
          /\ list2.err = FALSE /\ list2.ids = Listed(q)
      BY <2>1, ReadRun
    <2> HIDE DEF list1, list2
    <2>4. n = IF Len(Listed(r)) # Len(Listed(q)) THEN Error ELSE NewNode(Listed(r), Listed(q))
      BY <2>2, <2>3 DEF parseTwoNodeList
    <2>5. n # Error
      BY DEF Error
    <2>6. Len(Listed(r)) = Len(Listed(q)) /\ n = NewNode(Listed(r), Listed(q))
      BY <2>4, <2>5
    <2>7. q[2] - q[1] + 1 = N
      BY <2>6, ReadRun
    <2>8. [k \in DOMAIN Listed(r) |-> [PhysicalCore |-> Listed(r)[k], LogicalCore |-> Listed(q)[k]]]
            = pairs
      <3>1. DOMAIN Listed(r) = 1..N /\ DOMAIN Listed(q) = 1..N
        BY <2>7, ReadRun
      <3>2. ASSUME NEW k \in 1..N
            PROVE  Listed(r)[k] = r[1] + k - 1 /\ Listed(q)[k] = q[1] + (r[1] + k - 1) - r[1]
        <4>1. Listed(r)[k] = r[1] + k - 1 /\ Listed(q)[k] = q[1] + k - 1
          BY <3>1, <3>2, ReadRun
        <4>2. k \in Int
          BY <1>3
        <4> QED
          BY <1>3, <1>4, <4>1, <4>2
      <3> QED
        BY <3>1, <3>2
    <2>9. NewNode(Listed(r), Listed(q)) = NumaNode(pairs, r[1], r[2], lmin, lmax)
      BY <2>8, ReadRun DEF NewNode
    <2> QED
      BY <2>6, <2>7, <2>9
  <1>7. n.Pairs = pairs /\ n.PhysicalCoreMin = r[1] /\ n.PhysicalCoreMax = r[2]
    BY <1>6 DEF NumaNode
  <1>8. N \in Nat /\ N >= 1 /\ r[2] = r[1] + N - 1 /\ q[2] = q[1] + N - 1
    BY <1>3, <1>4, <1>6
  <1>9. PairsOf(n) = {pair(c) : c \in r[1]..r[2]}
    <2>1. PairsOf(n) = {pairs[k] : k \in 1..N}
      BY <1>7 DEF PairsOf, ToSet
    <2>2. ASSUME NEW k \in 1..N PROVE \E c \in r[1]..r[2] : pairs[k] = pair(c)
      <3>1. r[1] + k - 1 \in r[1]..r[2]
        BY <1>3, <1>8
      <3> QED
        BY <3>1
    <2>3. ASSUME NEW c \in r[1]..r[2] PROVE \E k \in 1..N : pair(c) = pairs[k]
      <3>1. c - r[1] + 1 \in 1..N /\ r[1] + (c - r[1] + 1) - 1 = c
        BY <1>3, <1>8
      <3>2. pairs[c - r[1] + 1] = pair(c)
        BY <3>1
      <3> QED
        BY <3>1, <3>2
    <2> HIDE DEF pair, pairs, N
    <2> QED
      BY <2>1, <2>2, <2>3
  <1>10. ASSUME NEW c \in r[1]..r[2]
         PROVE  /\ pair(c).PhysicalCore = c /\ pair(c).LogicalCore = q[1] + c - r[1]
                /\ q[1] + c - r[1] \in q[1]..q[2]
                /\ CoresOfPair(pair(c)) = {c, q[1] + c - r[1]}
    <2>1. q[1] + c - r[1] \in q[1]..q[2] /\ q[1] + c - r[1] # nil
      BY <1>3, <1>4, <1>8 DEF nil
    <2>2. pair(c).PhysicalCore = c /\ pair(c).LogicalCore = q[1] + c - r[1]
      OBVIOUS
    <2> HIDE DEF pair
    <2> QED
      BY <2>1, <2>2 DEF CoresOfPair
  <1>11. \A k \in 1..N : pairs[k] = pair(r[1] + k - 1) /\ r[1] + k - 1 \in r[1]..r[2]
    BY <1>3, <1>8
  <1>12. DOMAIN pairs = 1..N
    OBVIOUS
  <1> HIDE DEF pair, n, pairs, lmin, lmax
  <1>13. InOnePair(S, n)
    <2>1. UNION {CoresOfPair(p) : p \in PairsOf(n)} = S
      <3>1. ASSUME NEW p \in PairsOf(n) PROVE CoresOfPair(p) \subseteq S
        BY <1>5, <1>9, <1>10
      <3>2. ASSUME NEW x \in S PROVE \E p \in PairsOf(n) : x \in CoresOfPair(p)
        <4>1. CASE x \in r[1]..r[2]
          BY <1>9, <1>10, <4>1
        <4>2. CASE x \in q[1]..q[2]
          <5>1. r[1] + x - q[1] \in r[1]..r[2] /\ q[1] + (r[1] + x - q[1]) - r[1] = x
            BY <1>3, <1>4, <1>8, <4>2
          <5>2. x \in CoresOfPair(pair(r[1] + x - q[1]))
            BY <1>10, <5>1
          <5>3. pair(r[1] + x - q[1]) \in PairsOf(n)
            BY <1>9, <5>1
          <5> QED
            BY <5>2, <5>3
        <4> QED
          BY <1>5, <4>1, <4>2
      <3> QED
        BY <3>1, <3>2
    <2>2. ASSUME NEW j \in DOMAIN n.Pairs, NEW k \in DOMAIN n.Pairs, j # k
          PROVE  CoresOfPair(n.Pairs[j]) \cap CoresOfPair(n.Pairs[k]) = {}
      <3> DEFINE c == r[1] + j - 1
                 d == r[1] + k - 1
      <3>1. j \in 1..N /\ k \in 1..N
        BY <1>7, <1>12
      <3>2. c \in r[1]..r[2] /\ d \in r[1]..r[2] /\ c # d
        BY <1>3, <1>8, <2>2, <3>1
      <3>3. n.Pairs[j] = pair(c) /\ n.Pairs[k] = pair(d)
        BY <1>7, <1>11, <3>1
      <3> HIDE DEF c, d
      <3>4. /\ CoresOfPair(n.Pairs[j]) = {c, q[1] + c - r[1]}
            /\ CoresOfPair(n.Pairs[k]) = {d, q[1] + d - r[1]}
        BY <1>10, <3>2, <3>3
      <3>5. c # q[1] + d - r[1] /\ d # q[1] + c - r[1] /\ q[1] + c - r[1] # q[1] + d - r[1]
        BY <1>1, <1>3, <1>4, <3>2
      <3> QED
        BY <3>2, <3>4, <3>5
    <2> QED
      BY <2>1, <2>2 DEF InOnePair
  <1>14. RangeExact(n)
    <2>1. {p.PhysicalCore : p \in PairsOf(n)} = r[1]..r[2]
      BY <1>9, <1>10
    <2>2. \A l \in {p.LogicalCore : p \in PairsOf(n)} : l \in q[1]..q[2]
      BY <1>9, <1>10
    <2>3. \A l \in {p.LogicalCore : p \in PairsOf(n)} \ {nil} : l > r[2]
      BY <1>1, <1>3, <1>4, <2>2
    <2>4. Min(r[1]..r[2]) = r[1] /\ Max(r[1]..r[2]) = r[2]
      BY <1>3, EndsOfRun
    <2> QED
      BY <1>7, <2>1, <2>3, <2>4 DEF RangeExact
  <1> QED
    BY <1>13, <1>14 DEF n

(* A node that is read without error is read as it is.                     *)
LEMMA ReadRight ==
    ASSUME NEW S \in SUBSET Cores, ~ParseNodeList(cpulist(S)).err
    PROVE  LET n == ParseNodeList(cpulist(S)) IN InOnePair(S, n) /\ RangeExact(n)
  <1>1. Error.err
    BY DEF Error
  <1>2. S # {}
    <2> SUFFICES ASSUME S = {} PROVE FALSE
      OBVIOUS
    <2>1. cpulist(S) = <<NoIds>>
      BY DEF cpulist
    <2>2. ParseNodeList(cpulist(S)) = parseOneNodeLine(<<NoIds>>)
      BY <2>1 DEF ParseNodeList
    <2>3. extractCoreID(<<NoIds>>[1]) = Error
      BY DEF extractCoreID
    <2>4. parseOneNodeLine(<<NoIds>>) = Error
      BY <1>1, <2>3 DEF parseOneNodeLine
    <2> QED
      BY <1>1, <2>2, <2>4
  <1>3. Cardinality(RunsOf(S)) \in Nat
    BY FiniteRuns
  <1>4. Len(cpulist(S)) = Cardinality(RunsOf(S))
    BY <1>2, <1>3 DEF cpulist
  <1>5. Cardinality(RunsOf(S)) \in {1, 2}
    BY <1>1, <1>4 DEF ParseNodeList
  <1> QED
    BY <1>2, <1>5, OneRunRight, TwoRunsRight

------------------------------------------------------------------------------
(* GetLocalNUMANodes *)

(* The nodes read so far are the first ones, read without error.           *)
NodesRead ==
    /\ topology \in [1..NumNodes -> SUBSET Cores]
    /\ nodes \in Seq({ParseNodeList(cpulist(S)) : S \in SUBSET Cores})
    /\ Len(nodes) <= NumNodes
    /\ \A k \in DOMAIN nodes :
          nodes[k] = ParseNodeList(cpulist(topology[k])) /\ ~nodes[k].err

(* It holds throughout. *)
LEMMA ReadsOn == Spec => []NodesRead
  <1> DEFINE Parsed == {ParseNodeList(cpulist(S)) : S \in SUBSET Cores}
  <1>1. Init => NodesRead
    BY NumNodesAssumption DEF Init, NodesRead
  <1>2. ASSUME NodesRead, [Next]_vars PROVE NodesRead'
    <2>1. CASE ReadNode
      <3> DEFINE cpu == ParseNodeList(cpulist(topology[Len(nodes) + 1]))
      <3>1. /\ Len(nodes) < NumNodes /\ topology' = topology
            /\ nodes' = IF cpu.err THEN <<>> ELSE Append(nodes, cpu)
        BY <2>1 DEF ReadNode
      <3>2. nodes \in Seq(Parsed) /\ Len(nodes) \in Nat
        BY <1>2 DEF NodesRead
      <3>3. Len(nodes) + 1 \in 1..NumNodes
        BY <3>1, <3>2, NumNodesAssumption
      <3>4. cpu \in Parsed
        <4>1. topology[Len(nodes) + 1] \in SUBSET Cores
          BY <1>2, <3>3 DEF NodesRead
        <4> QED
          BY <4>1
      <3> HIDE DEF Parsed
      <3>5. CASE cpu.err
        <4>1. nodes' = <<>>
          BY <3>1, <3>5
        <4>2. nodes' \in Seq(Parsed) /\ Len(nodes') <= NumNodes /\ DOMAIN nodes' = {}
          BY <4>1, NumNodesAssumption
        <4> QED
          BY <1>2, <3>1, <4>2 DEF NodesRead, Parsed
      <3>6. CASE ~cpu.err
        <4>1. nodes' = Append(nodes, cpu)
          BY <3>1, <3>6
        <4> HIDE DEF cpu
        <4>2. /\ nodes' \in Seq(Parsed) /\ Len(nodes') = Len(nodes) + 1
              /\ DOMAIN nodes' = DOMAIN nodes \cup {Len(nodes) + 1}
              /\ \A k \in DOMAIN nodes : nodes'[k] = nodes[k]
              /\ nodes'[Len(nodes) + 1] = cpu
          BY <3>2, <3>4, <4>1
        <4>3. ASSUME NEW k \in DOMAIN nodes'
              PROVE  nodes'[k] = ParseNodeList(cpulist(topology'[k])) /\ ~nodes'[k].err
          <5>1. CASE k \in DOMAIN nodes
            BY <1>2, <3>1, <4>2, <5>1 DEF NodesRead
          <5>2. CASE k = Len(nodes) + 1
            BY <3>1, <3>6, <4>2, <5>2 DEF cpu
          <5> QED
            BY <4>2, <4>3, <5>1, <5>2
        <4>4. Len(nodes') <= NumNodes
          BY <3>1, <3>2, <4>2, NumNodesAssumption
        <4> QED
          BY <1>2, <3>1, <4>2, <4>3, <4>4 DEF NodesRead, Parsed
      <3> QED
        BY <3>5, <3>6
    <2>2. CASE ReturnNodes \/ UNCHANGED vars
      BY <1>2, <2>2 DEF NodesRead, ReturnNodes, vars
    <2> QED
      BY <1>2, <2>1, <2>2 DEF Next
  <1> QED
    BY <1>1, <1>2, PTL DEF Spec

(* However the kernel numbers the cores, every node that the agent         *)
(* registers has each of its cores in one pair.                            *)
THEOREM CoresPairedOnce == Spec => []EveryCoreInOnePair
  <1>1. ASSUME NodesRead, NEW k \in DOMAIN nodes PROVE InOnePair(topology[k], nodes[k])
    <2>1. k \in 1..NumNodes
      BY <1>1, NumNodesAssumption DEF NodesRead
    <2>2. topology[k] \in SUBSET Cores
      BY <1>1, <2>1 DEF NodesRead
    <2> QED
      BY <1>1, <2>2, ReadRight DEF NodesRead
  <1>2. NodesRead => EveryCoreInOnePair
    BY <1>1 DEF EveryCoreInOnePair, InOnePair
  <1> QED
    BY <1>2, ReadsOn, PTL

(* And the range of its physical cores is exact, with the logical cores    *)
(* above it.                                                               *)
THEOREM PhysicalRangesExact == Spec => []PhysicalRangeExact
  <1>1. ASSUME NodesRead, NEW k \in DOMAIN nodes PROVE RangeExact(nodes[k])
    <2>1. k \in 1..NumNodes
      BY <1>1, NumNodesAssumption DEF NodesRead
    <2>2. topology[k] \in SUBSET Cores
      BY <1>1, <2>1 DEF NodesRead
    <2> QED
      BY <1>1, <2>2, ReadRight DEF NodesRead
  <1>2. NodesRead => PhysicalRangeExact
    BY <1>1 DEF PhysicalRangeExact, RangeExact
  <1> QED
    BY <1>2, ReadsOn, PTL
==============================================================================
