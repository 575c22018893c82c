-------------------------- MODULE QueueMetricsProofs --------------------------
(***************************************************************************)
(* QueueMetrics proved for every number of workers, of switches and of     *)
(* service names.                                                          *)
(***************************************************************************)
EXTENDS QueueMetrics, FiniteSetTheorems, SequenceTheorems, WellFoundedInduction, TLAPS

-----------------------------------------------------------------------------
(* The sum over the generations *)

(* The recursion that MapThenSumSet unfolds, on a set D of sets. *)
Some(s) == CHOOSE x \in s : TRUE
Sums(h, v, f, g, D) ==
    h = [s \in D |-> IF s = {} THEN 0 ELSE v[<<f, g, Some(s)>>] + h[s \ {Some(s)}]]

(* Total as the value of that recursion. *)
LEMMA TotalIsSum ==
    ASSUME NEW v, NEW f, NEW g
    PROVE  Total(v, f, g) = (CHOOSE h : Sums(h, v, f, g, SUBSET Generations))[Generations]
BY DEF Total, MapThenSumSet, MapThenFoldSet, Sums, Some

(* Generations are finite, so a set of them becomes smaller when one is    *)
(* taken out.                                                              *)
Small(n) == {s \in SUBSET Generations : Cardinality(s) <= n}

(* Generations are numbers, and finitely many. *)
LEMMA GenerationsFinite ==
    /\ Cardinality(Switchers) \in Nat
    /\ Generations \subseteq Nat
    /\ \A s \in SUBSET Generations : IsFiniteSet(s) /\ Cardinality(s) \in Nat
<1>1. Cardinality(Switchers) \in Nat
  BY SwitchersAssumption, FS_CardinalityType
<1>2. IsFiniteSet(Generations)
  BY <1>1, FS_Interval DEF Generations
<1>3. Generations \subseteq Nat
  BY <1>1 DEF Generations
<1>4. ASSUME NEW s \in SUBSET Generations PROVE IsFiniteSet(s) /\ Cardinality(s) \in Nat
  BY <1>2, FS_Subset, FS_CardinalityType
<1>5. QED
  BY <1>1, <1>3, <1>4

(* The element that is taken out is one of the set. *)
LEMMA SmallerSet ==
    ASSUME NEW s \in SUBSET Generations, s # {}
    PROVE  /\ Some(s) \in s /\ s \ {Some(s)} \in SUBSET Generations
           /\ Cardinality(s) # 0 /\ Cardinality(s \ {Some(s)}) = Cardinality(s) - 1
<1>1. Some(s) \in s
  BY DEF Some
<1>2. IsFiniteSet(s)
  BY GenerationsFinite
<1>3. Cardinality(s) # 0
  BY <1>2, FS_EmptySet
<1>4. Cardinality(s \ {Some(s)}) = Cardinality(s) - 1
  BY <1>1, <1>2, FS_RemoveElement
<1>5. QED
  BY <1>1, <1>3, <1>4

(* A set of numbers that is not empty has a least element. *)
LEMMA Least ==
    ASSUME NEW B \in SUBSET Nat, B # {}
    PROVE  \E n \in B : \A m \in B : n <= m
<1>1. IsWellFoundedOn(OpToRel(<, Nat), Nat)
  BY NatLessThanWellFounded
<1>2. PICK n \in B : \A m \in B : ~(<<m, n>> \in OpToRel(<, Nat))
  BY <1>1, WFMin
<1>3. ASSUME NEW m \in B PROVE n <= m
  <2>1. m \in Nat /\ n \in Nat
    OBVIOUS
  <2>2. ~(m < n)
    BY <1>2, <2>1 DEF OpToRel
  <2>3. QED
    BY <2>1, <2>2
<1>4. QED
  BY <1>3

(* The recursion has a solution on all sets of generations: on the small   *)
(* ones first.                                                             *)
Solved(v, f, g, n) == \E h \in [Small(n) -> Int] : Sums(h, v, f, g, Small(n))

(* A set of generations is small by its cardinality. *)
LEMMA SmallSets ==
    ASSUME NEW n \in Nat, NEW s
    PROVE  s \in Small(n) <=> /\ s \in SUBSET Generations /\ Cardinality(s) \in Nat
                              /\ Cardinality(s) <= n
BY GenerationsFinite DEF Small

(* The recursion has a solution on the empty set. *)
LEMMA SolvedFirst ==
    ASSUME NEW v, NEW f, NEW g
    PROVE  Solved(v, f, g, 0)
<1>1. ASSUME NEW s \in Small(0) PROVE s = {}
  <2>1. s \in SUBSET Generations /\ Cardinality(s) = 0
    BY SmallSets
  <2>2. IsFiniteSet(s)
    BY <2>1, GenerationsFinite
  <2>3. QED
    BY <2>1, <2>2, FS_EmptySet
<1>2. Sums([s \in Small(0) |-> 0], v, f, g, Small(0))
  BY <1>1 DEF Sums
<1>3. [s \in Small(0) |-> 0] \in [Small(0) -> Int]
  OBVIOUS
<1>4. QED
  BY <1>2, <1>3 DEF Solved

(* A solution on the small sets gives one on the next larger sets. *)
LEMMA SolvedNext ==
    ASSUME NEW v, NEW f, NEW g, \A gen \in Generations : v[<<f, g, gen>>] \in Int,
           NEW m \in Nat, Solved(v, f, g, m)
    PROVE  Solved(v, f, g, m + 1)
<1>1. PICK h \in [Small(m) -> Int] : Sums(h, v, f, g, Small(m))
  BY DEF Solved
<1> DEFINE Value(s) == IF s = {} THEN 0 ELSE v[<<f, g, Some(s)>>] + h[s \ {Some(s)}]
           k == [s \in Small(m + 1) |-> Value(s)]
<1>2. ASSUME NEW s \in Small(m + 1), s # {}
      PROVE  s \ {Some(s)} \in Small(m) /\ Some(s) \in Generations
  <2>1. s \in SUBSET Generations /\ Cardinality(s) <= m + 1 /\ Cardinality(s) \in Nat
    BY SmallSets
  <2>2. /\ Some(s) \in s /\ s \ {Some(s)} \in SUBSET Generations
        /\ Cardinality(s) # 0 /\ Cardinality(s \ {Some(s)}) = Cardinality(s) - 1
    BY <1>2, <2>1, SmallerSet
  <2>3. Cardinality(s) - 1 \in Nat /\ Cardinality(s) - 1 <= m
    BY <2>1, <2>2
  <2>4. s \ {Some(s)} \in Small(m)
    BY <2>2, <2>3, SmallSets
  <2>5. QED
    BY <2>1, <2>2, <2>4
<1>3. ASSUME NEW s \in Small(m) PROVE s \in Small(m + 1) /\ h[s] = Value(s)
  <2>1. s \in SUBSET Generations /\ Cardinality(s) <= m /\ Cardinality(s) \in Nat
    BY SmallSets
  <2>2. Cardinality(s) <= m + 1
    BY <2>1
  <2>3. s \in Small(m + 1)
    BY <2>1, <2>2, SmallSets
  <2>4. h[s] = Value(s)
    BY <1>1 DEF Sums
  <2>5. QED
    BY <2>3, <2>4
<1>4. ASSUME NEW s \in Small(m + 1) PROVE Value(s) \in Int
  <2>1. CASE s = {}
    BY <2>1
  <2>2. CASE s # {}
    <3>1. v[<<f, g, Some(s)>>] \in Int /\ h[s \ {Some(s)}] \in Int
      BY <1>1, <1>2, <2>2
    <3>2. QED
      BY <2>2, <3>1
  <2>3. QED
    BY <2>1, <2>2
<1>5. k \in [Small(m + 1) -> Int]
  BY <1>4
<1>6. ASSUME NEW s \in Small(m + 1)
      PROVE  k[s] = IF s = {} THEN 0 ELSE v[<<f, g, Some(s)>>] + k[s \ {Some(s)}]
  <2>1. CASE s = {}
    BY <2>1
  <2>2. CASE s # {}
    <3>1. k[s \ {Some(s)}] = h[s \ {Some(s)}]
      BY <1>2, <1>3, <2>2
    <3>2. QED
      BY <2>2, <3>1
  <2>3. QED
    BY <2>1, <2>2
<1>7. Sums(k, v, f, g, Small(m + 1))
  BY <1>6 DEF Sums
<1>8. QED
  BY <1>5, <1>7 DEF Solved

(* So it has one on all sets of generations: no bound is the least that fails. *)
LEMMA SumsExist ==
    ASSUME NEW v, NEW f, NEW g, \A gen \in Generations : v[<<f, g, gen>>] \in Int
    PROVE  \E h \in [SUBSET Generations -> Int] : Sums(h, v, f, g, SUBSET Generations)
<1>1. ASSUME NEW n \in Nat PROVE Solved(v, f, g, n)
  <2> DEFINE Bad == {m \in Nat : ~Solved(v, f, g, m)}
  <2>1. SUFFICES ASSUME Bad # {} PROVE FALSE
    OBVIOUS
  <2>2. PICK b \in Bad : \A m \in Bad : b <= m
    <3>1. Bad \in SUBSET Nat
      OBVIOUS
    <3> HIDE DEF Bad
    <3>2. QED
      BY <2>1, <3>1, Least
  <2>3. b \in Nat /\ ~Solved(v, f, g, b)
    OBVIOUS
  <2>4. b # 0
    BY <2>3, SolvedFirst
  <2>5. PICK m \in Nat : b = m + 1
    <3>1. b - 1 \in Nat /\ b = (b - 1) + 1
      BY <2>3, <2>4
    <3>2. QED
      BY <3>1
  <2>6. m \notin Bad
    BY <2>2, <2>5
  <2>7. Solved(v, f, g, m)
    BY <2>6
  <2>8. QED
    BY <2>3, <2>5, <2>7, SolvedNext
<1>2. IsFiniteSet(Generations) /\ Cardinality(Generations) \in Nat
  BY GenerationsFinite
<1>3. \A s \in SUBSET Generations : Cardinality(s) <= Cardinality(Generations)
  BY <1>2, FS_Subset
<1>4. Small(Cardinality(Generations)) = SUBSET Generations
  BY <1>3 DEF Small
<1>5. QED
  BY <1>1, <1>2, <1>4 DEF Solved

(* If one value of a gauge changes by d, so does the sum over every set    *)
(* that contains its generation.                                           *)
Changed(h, j, k, d, s) == h[s] \in Int /\ j[s] = h[s] + (IF k \in s THEN d ELSE 0)

(* From a set without one of its generations to the set. *)
LEMMA ChangedNext ==
    ASSUME NEW v, NEW u, NEW f, NEW g, NEW k \in Generations, NEW d \in Int,
           \A gen \in Generations : v[<<f, g, gen>>] \in Int,
           \A gen \in Generations : u[<<f, g, gen>>] = v[<<f, g, gen>>] + (IF gen = k THEN d ELSE 0),
           NEW h, Sums(h, v, f, g, SUBSET Generations),
           NEW j, Sums(j, u, f, g, SUBSET Generations),
           NEW s \in SUBSET Generations, s # {}, Changed(h, j, k, d, s \ {Some(s)})
    PROVE  Changed(h, j, k, d, s)
<1>1. Some(s) \in s /\ Some(s) \in Generations
  BY SmallerSet
<1> DEFINE x == Some(s)
           rest == s \ {Some(s)}
<1>2. h[s] = v[<<f, g, x>>] + h[rest] /\ j[s] = u[<<f, g, x>>] + j[rest]
  BY DEF Sums
<1>3. /\ v[<<f, g, x>>] \in Int
      /\ u[<<f, g, x>>] = v[<<f, g, x>>] + (IF x = k THEN d ELSE 0)
  BY <1>1
<1>4. h[rest] \in Int /\ j[rest] = h[rest] + (IF k \in rest THEN d ELSE 0)
  BY DEF Changed
<1>5. CASE k = x
  <2>1. k \in s /\ k \notin rest
    BY <1>1, <1>5
  <2> HIDE DEF x, rest
  <2>2. h[s] \in Int /\ j[s] = h[s] + d
    BY <1>2, <1>3, <1>4, <1>5, <2>1
  <2>3. QED
    BY <2>1, <2>2 DEF Changed
<1>6. CASE k # x
  <2>1. k \in s <=> k \in rest
    BY <1>6
  <2> HIDE DEF x, rest
  <2>2. h[s] \in Int /\ j[s] = h[s] + (IF k \in s THEN d ELSE 0)
    BY <1>2, <1>3, <1>4, <1>6, <2>1
  <2>3. QED
    BY <2>2 DEF Changed
<1>7. QED
  BY <1>5, <1>6

(* No set is a smallest one for which this fails. *)
LEMMA SumsChange ==
    ASSUME NEW v, NEW u, NEW f, NEW g, NEW k \in Generations, NEW d \in Int,
           \A gen \in Generations : v[<<f, g, gen>>] \in Int,
           \A gen \in Generations : u[<<f, g, gen>>] = v[<<f, g, gen>>] + (IF gen = k THEN d ELSE 0),
           NEW h, Sums(h, v, f, g, SUBSET Generations),
           NEW j, Sums(j, u, f, g, SUBSET Generations)
    PROVE  \A s \in SUBSET Generations : Changed(h, j, k, d, s)
<1> DEFINE Wrong(n) == \E s \in SUBSET Generations : Cardinality(s) = n /\ ~Changed(h, j, k, d, s)
           Bad == {n \in Nat : Wrong(n)}
<1>1. SUFFICES ASSUME NEW z \in SUBSET Generations, ~Changed(h, j, k, d, z) PROVE FALSE
  OBVIOUS
<1>2. Cardinality(z) \in Bad
  BY <1>1, GenerationsFinite
<1>3. PICK b \in Bad : \A m \in Bad : b <= m
  <2>1. Bad \in SUBSET Nat /\ Bad # {}
    BY <1>2
  <2> HIDE DEF Bad
  <2>2. QED
    BY <2>1, Least
<1>4. PICK s \in SUBSET Generations : Cardinality(s) = b /\ ~Changed(h, j, k, d, s)
  OBVIOUS
<1>5. s # {}
  <2>1. SUFFICES ASSUME s = {} PROVE FALSE
    OBVIOUS
  <2>2. h[s] = 0 /\ j[s] = 0 /\ k \notin s
    BY <2>1 DEF Sums
  <2>3. QED
    BY <1>4, <2>2 DEF Changed
<1>6. /\ s \ {Some(s)} \in SUBSET Generations
      /\ Cardinality(s \ {Some(s)}) = b - 1 /\ b # 0 /\ b \in Nat
  BY <1>4, <1>5, SmallerSet, GenerationsFinite
<1>7. b - 1 \in Nat /\ ~(b <= b - 1)
  BY <1>6
<1>8. b - 1 \notin Bad
  BY <1>3, <1>7
<1>9. Changed(h, j, k, d, s \ {Some(s)})
  BY <1>6, <1>7, <1>8
<1> HIDE DEF Bad, Wrong
<1>10. QED
  BY <1>4, <1>5, <1>9, ChangedNext

(* A gauge that one worker increments or decrements changes by as much in  *)
(* sum.                                                                    *)
Shifted(v, u, f, g, k, d) ==
    \A gen \in Generations :
        /\ v[<<f, g, gen>>] \in Int
        /\ u[<<f, g, gen>>] = v[<<f, g, gen>>] + (IF gen = k THEN d ELSE 0)

(* The same for the gauge of the model. *)
LEMMA TotalChange ==
    ASSUME NEW v, NEW u, NEW f, NEW g, NEW k \in Generations, NEW d \in Int,
           Shifted(v, u, f, g, k, d)
    PROVE  Total(v, f, g) \in Int /\ Total(u, f, g) = Total(v, f, g) + d
<1>0. /\ \A gen \in Generations : v[<<f, g, gen>>] \in Int
      /\ \A gen \in Generations : u[<<f, g, gen>>] = v[<<f, g, gen>>] + (IF gen = k THEN d ELSE 0)
  BY DEF Shifted
<1> DEFINE h == CHOOSE t : Sums(t, v, f, g, SUBSET Generations)
           j == CHOOSE t : Sums(t, u, f, g, SUBSET Generations)
<1>1. Sums(h, v, f, g, SUBSET Generations)
  BY <1>0, SumsExist
<1>2. Sums(j, u, f, g, SUBSET Generations)
  <2>1. \A gen \in Generations : u[<<f, g, gen>>] \in Int
    BY <1>0
  <2>2. QED
    BY <2>1, SumsExist
<1>3. Total(v, f, g) = h[Generations] /\ Total(u, f, g) = j[Generations]
  BY TotalIsSum
<1> HIDE DEF h, j
<1>4. Changed(h, j, k, d, Generations)
  BY <1>0, <1>1, <1>2, SumsChange
<1>5. QED
  BY <1>3, <1>4 DEF Changed

(* Gauges that agree in all generations have the same sum. *)
LEMMA TotalSame ==
    ASSUME NEW v, NEW u, NEW f, NEW g,
           \A gen \in Generations : v[<<f, g, gen>>] \in Int,
           \A gen \in Generations : u[<<f, g, gen>>] = v[<<f, g, gen>>]
    PROVE  Total(u, f, g) = Total(v, f, g)
<1>1. PICK k \in Generations, d \in Int : d = 0
  BY GenerationsFinite DEF Generations
<1>2. Shifted(v, u, f, g, k, d)
  BY <1>1 DEF Shifted
<1>3. Total(v, f, g) \in Int /\ Total(u, f, g) = Total(v, f, g) + d
  BY <1>2, TotalChange
<1>4. QED
  BY <1>1, <1>3

(* The sum of a gauge nobody has used. *)
LEMMA TotalZero ==
    ASSUME NEW v, NEW f, NEW g, \A gen \in Generations : v[<<f, g, gen>>] = 0
    PROVE  Total(v, f, g) = 0
<1> DEFINE h == [s \in SUBSET Generations |-> 0]
           j == CHOOSE t : Sums(t, v, f, g, SUBSET Generations)
<1>1. \A s \in SUBSET Generations :
        s # {} => s \ {Some(s)} \in SUBSET Generations /\ v[<<f, g, Some(s)>>] = 0
  BY SmallerSet
<1>2. Sums(h, v, f, g, SUBSET Generations)
  BY <1>1 DEF Sums
<1>3. \A gen \in Generations : v[<<f, g, gen>>] \in Int
  OBVIOUS
<1>4. Sums(j, v, f, g, SUBSET Generations)
  BY <1>3, SumsExist
<1>5. Total(v, f, g) = j[Generations]
  BY TotalIsSum
<1>6. 0 \in Generations
  BY GenerationsFinite DEF Generations
<1>7. \A gen \in Generations : v[<<f, g, gen>>] = v[<<f, g, gen>>] + (IF gen = 0 THEN 0 ELSE 0)
  OBVIOUS
<1>8. h[Generations] = 0
  OBVIOUS
<1> HIDE DEF h, j
<1>9. Changed(h, j, 0, 0, Generations)
  <2>1. 0 \in Int
    OBVIOUS
  <2>2. QED
    BY <1>2, <1>3, <1>4, <1>6, <1>7, <2>1, SumsChange
<1>10. QED
  BY <1>5, <1>8, <1>9 DEF Changed

-----------------------------------------------------------------------------
(* The gauges a worker is inside of *)

(* What the stacks contain. *)
LEMMA StackContents ==
    /\ \A e : ~Contains(<<>>, e)
    /\ \A a, e : Contains(<<a>>, e) <=> a = e
    /\ \A a, b, e : Contains(<<a, b>>, e) <=> (a = e \/ b = e)
    /\ \A a, b, c, e : Contains(<<a, b, c>>, e) <=> (a = e \/ b = e \/ c = e)
<1>1. \A e : ~Contains(<<>>, e)
  BY DEF Contains
<1>2. \A a, e : Contains(<<a>>, e) <=> a = e
  BY DEF Contains
<1>3. ASSUME NEW a, NEW b, NEW e
      PROVE  Contains(<<a, b>>, e) <=> (a = e \/ b = e)
  <2>1. Len(<<a, b>>) = 2 /\ <<a, b>>[1] = a /\ <<a, b>>[2] = b
    OBVIOUS
  <2>2. 1..2 = {1, 2}
    OBVIOUS
  <2>3. QED
    BY <2>1, <2>2 DEF Contains
<1>4. ASSUME NEW a, NEW b, NEW c, NEW e
      PROVE  Contains(<<a, b, c>>, e) <=> (a = e \/ b = e \/ c = e)
  <2>1. /\ Len(<<a, b, c>>) = 3
        /\ <<a, b, c>>[1] = a /\ <<a, b, c>>[2] = b /\ <<a, b, c>>[3] = c
    OBVIOUS
  <2>2. 1..3 = {1, 2, 3}
    OBVIOUS
  <2>3. QED
    BY <2>1, <2>2 DEF Contains
<1>5. QED
  BY <1>1, <1>2, <1>3, <1>4

(* What a stack contains compared with the stack below its last element. *)
LEMMA StackGrowth ==
    ASSUME NEW a, NEW b, NEW c, NEW e
    PROVE  /\ Contains(<<a>>, e) <=> (Contains(<<>>, e) \/ e = a)
           /\ Contains(<<a, b>>, e) <=> (Contains(<<a>>, e) \/ e = b)
           /\ Contains(<<a, b, c>>, e) <=> (Contains(<<a, b>>, e) \/ e = c)
<1>1. ~Contains(<<>>, e) /\ (Contains(<<a>>, e) <=> a = e)
  BY StackContents, Zenon
<1>2. Contains(<<a, b>>, e) <=> (a = e \/ b = e)
  BY StackContents, Zenon
<1>3. Contains(<<a, b, c>>, e) <=> (a = e \/ b = e \/ c = e)
  BY StackContents
<1>4. QED
  BY <1>1, <1>2, <1>3

(* The deepest stack, and the one below it. *)
LEMMA DequeueingStack ==
    \A e : Contains(<<"active_gauge", "working_gauge", "dequeueing_gauge">>, e)
             <=> (Contains(<<"active_gauge", "working_gauge">>, e) \/ e = "dequeueing_gauge")
BY StackGrowth

(* Short stacks when a gauge is entered or left. *)
LEMMA ShortStacks ==
    ASSUME NEW S, NEW a \in S, NEW b \in S, NEW c \in S
    PROVE  /\ Append(<<>>, a) = <<a>> /\ Append(<<a>>, b) = <<a, b>>
           /\ Append(<<a, b>>, c) = <<a, b, c>>
           /\ SubSeq(<<a>>, 1, 0) = <<>> /\ SubSeq(<<a, b>>, 1, 1) = <<a>>
           /\ SubSeq(<<a, b, c>>, 1, 2) = <<a, b>>
<1>1. /\ <<>> \in Seq(S) /\ Len(<<>>) = 0
      /\ <<a>> \in Seq(S) /\ Len(<<a>>) = 1 /\ <<a>>[1] = a
      /\ <<a, b>> \in Seq(S) /\ Len(<<a, b>>) = 2 /\ <<a, b>>[1] = a /\ <<a, b>>[2] = b
  OBVIOUS
<1>2. /\ <<a, b, c>> \in Seq(S) /\ Len(<<a, b, c>>) = 3
      /\ <<a, b, c>>[1] = a /\ <<a, b, c>>[2] = b /\ <<a, b, c>>[3] = c
  OBVIOUS
<1>3. Append(<<>>, a) = <<a>>
  OBVIOUS
<1>4. Append(<<a>>, b) = <<a, b>>
  <2>1. Append(<<a>>, b) \in Seq(S) /\ Len(Append(<<a>>, b)) = 2
    BY <1>1, AppendProperties
  <2>2. \A i \in 1..2 : Append(<<a>>, b)[i] = <<a, b>>[i]
    BY <1>1, AppendProperties
  <2>3. QED
    BY <1>1, <2>1, <2>2, SeqEqual
<1>5. Append(<<a, b>>, c) = <<a, b, c>>
  <2>1. Append(<<a, b>>, c) \in Seq(S) /\ Len(Append(<<a, b>>, c)) = 3
    BY <1>1, AppendProperties
  <2>2. \A i \in 1..3 : Append(<<a, b>>, c)[i] = <<a, b, c>>[i]
    BY <1>1, <1>2, AppendProperties
  <2>3. QED
    BY <1>2, <2>1, <2>2, SeqEqual
<1>6. SubSeq(<<a>>, 1, 0) = <<>>
  BY SubSeqEmpty
<1>7. SubSeq(<<a, b>>, 1, 1) = <<a>>
  <2>1. \A i \in 1..1 : <<a, b>>[i] \in S
    BY <1>1
  <2>2. /\ SubSeq(<<a, b>>, 1, 1) \in Seq(S) /\ Len(SubSeq(<<a, b>>, 1, 1)) = 1
        /\ SubSeq(<<a, b>>, 1, 1)[1] = a
    BY <1>1, <2>1, SubSeqProperties
  <2>3. \A i \in 1..1 : SubSeq(<<a, b>>, 1, 1)[i] = <<a>>[i]
    BY <1>1, <2>2
  <2>4. QED
    BY <1>1, <2>2, <2>3, SeqEqual
<1>8. SubSeq(<<a, b, c>>, 1, 2) = <<a, b>>
  <2>1. \A i \in 1..2 : <<a, b, c>>[i] \in S
    BY <1>2
  <2>2. /\ SubSeq(<<a, b, c>>, 1, 2) \in Seq(S) /\ Len(SubSeq(<<a, b, c>>, 1, 2)) = 2
        /\ SubSeq(<<a, b, c>>, 1, 2)[1] = a /\ SubSeq(<<a, b, c>>, 1, 2)[2] = b
    BY <1>2, <2>1, SubSeqProperties
  <2>3. \A i \in 1..2 : SubSeq(<<a, b, c>>, 1, 2)[i] = <<a, b>>[i]
    BY <1>1, <2>2
  <2>4. QED
    BY <1>1, <2>2, <2>3, SeqEqual
<1>9. QED
  BY <1>3, <1>4, <1>5, <1>6, <1>7, <1>8

(* The last element of a short stack. *)
LEMMA StackTops ==
    /\ \A a : <<a>> # <<>> /\ Len(<<a>>) = 1 /\ <<a>>[1] = a
    /\ \A a, b : <<a, b>> # <<>> /\ Len(<<a, b>>) = 2 /\ <<a, b>>[2] = b
    /\ \A a, b, c : <<a, b, c>> # <<>> /\ Len(<<a, b, c>>) = 3 /\ <<a, b, c>>[3] = c
<1>1. \A a : <<a>> # <<>> /\ Len(<<a>>) = 1 /\ <<a>>[1] = a
  OBVIOUS
<1>2. \A a, b : <<a, b>> # <<>> /\ Len(<<a, b>>) = 2 /\ <<a, b>>[2] = b
  OBVIOUS
<1>3. \A a, b, c : <<a, b, c>> # <<>> /\ Len(<<a, b, c>>) = 3 /\ <<a, b, c>>[3] = c
  OBVIOUS
<1>4. QED
  BY <1>1, <1>2, <1>3

(* The stacks by their last element. *)
LEMMA StackCases ==
    ASSUME NEW st \in Stacks, st # <<>>
    PROVE  \/ st = <<"active_gauge">> /\ st[Len(st)] = "active_gauge"
           \/ \E g \in {"working_gauge", "waiting_gauge"} :
                st = <<"active_gauge", g>> /\ st[Len(st)] = g
           \/ /\ st = <<"active_gauge", "working_gauge", "dequeueing_gauge">>
              /\ st[Len(st)] = "dequeueing_gauge"
<1>1. CASE st = <<"active_gauge">>
  BY <1>1, StackTops
<1>2. CASE st = <<"active_gauge", "working_gauge">>
  BY <1>2, StackTops
<1>3. CASE st = <<"active_gauge", "waiting_gauge">>
  BY <1>3, StackTops
<1>4. CASE st = <<"active_gauge", "working_gauge", "dequeueing_gauge">>
  BY <1>4, StackTops
<1>5. QED
  BY <1>1, <1>2, <1>3, <1>4, Zenon DEF Stacks

(* A gauge that is entered is not on the stack yet. *)
LEMMA PushStack ==
    ASSUME NEW st \in Stacks, NEW g,
           \/ st = <<>> /\ g = "active_gauge"
           \/ st # <<>> /\ st[Len(st)] = "active_gauge" /\ g \in {"working_gauge", "waiting_gauge"}
           \/ st # <<>> /\ st[Len(st)] = "working_gauge" /\ g = "dequeueing_gauge"
    PROVE  /\ Append(st, g) \in Stacks /\ g \in Gauges /\ ~Contains(st, g)
           /\ \A e : Contains(Append(st, g), e) <=> (Contains(st, e) \/ e = g)
<1>1. g \in Gauges /\ "active_gauge" \in Gauges /\ "working_gauge" \in Gauges
  BY DEF Gauges
<1>2. CASE st = <<>> /\ g = "active_gauge"
  <2>1. Append(st, g) = <<g>>
    BY <1>1, <1>2, ShortStacks
  <2>2. QED
    BY <1>1, <1>2, <2>1, StackContents DEF Stacks
<1>3. CASE st # <<>> /\ st[Len(st)] = "active_gauge" /\ g \in {"working_gauge", "waiting_gauge"}
  <2>1. st = <<"active_gauge">>
    BY <1>3, StackCases
  <2>2. Append(<<"active_gauge">>, g) = <<"active_gauge", g>>
    BY <1>1, ShortStacks
  <2>3. <<"active_gauge", g>> \in Stacks
    BY <1>3, Zenon DEF Stacks
  <2>4. ~Contains(st, g)
    BY <1>3, <2>1, StackContents
  <2>5. \A e : Contains(<<"active_gauge", g>>, e) <=> (Contains(<<"active_gauge">>, e) \/ e = g)
    BY StackGrowth
  <2>6. QED
    BY <1>1, <2>1, <2>2, <2>3, <2>4, <2>5
<1>4. CASE st # <<>> /\ st[Len(st)] = "working_gauge" /\ g = "dequeueing_gauge"
  <2>1. st = <<"active_gauge", "working_gauge">>
    BY <1>4, StackCases
  <2>2. Append(<<"active_gauge", "working_gauge">>, g) = <<"active_gauge", "working_gauge", g>>
    BY <1>1, ShortStacks
  <2>3. <<"active_gauge", "working_gauge", g>> \in Stacks
    BY <1>4, Zenon DEF Stacks
  <2>4. ~Contains(st, g)
    BY <1>4, <2>1, StackContents
  <2>5. \A e : Contains(<<"active_gauge", "working_gauge", "dequeueing_gauge">>, e)
                <=> (Contains(<<"active_gauge", "working_gauge">>, e) \/ e = "dequeueing_gauge")
    BY DequeueingStack
  <2>6. QED
    BY <1>1, <1>4, <2>1, <2>2, <2>3, <2>4, <2>5
<1>5. QED
  BY <1>2, <1>3, <1>4

(* The gauge that is left was there once. *)
LEMMA PopStack ==
    ASSUME NEW st \in Stacks, st # <<>>
    PROVE  /\ st[Len(st)] \in Gauges /\ Contains(st, st[Len(st)])
           /\ SubSeq(st, 1, Len(st) - 1) \in Stacks
           /\ \A e : Contains(SubSeq(st, 1, Len(st) - 1), e) <=> (Contains(st, e) /\ e # st[Len(st)])
<1>1. /\ "active_gauge" \in Gauges /\ "working_gauge" \in Gauges
      /\ "waiting_gauge" \in Gauges /\ "dequeueing_gauge" \in Gauges
  BY DEF Gauges
<1>2. CASE st = <<"active_gauge">> /\ st[Len(st)] = "active_gauge"
  <2>1. Len(st) - 1 = 0
    BY <1>2, StackTops
  <2>2. SubSeq(<<"active_gauge">>, 1, 0) = <<>>
    BY <1>1, ShortStacks
  <2>3. SubSeq(st, 1, Len(st) - 1) = <<>>
    BY <1>2, <2>1, <2>2
  <2>4. <<>> \in Stacks
    BY DEF Stacks
  <2>5. \A e : ~Contains(<<>>, e) /\ (Contains(<<"active_gauge">>, e) <=> "active_gauge" = e)
    BY StackContents, Zenon
  <2>6. QED
    BY <1>1, <1>2, <2>3, <2>4, <2>5
<1>3. ASSUME NEW g \in {"working_gauge", "waiting_gauge"},
             st = <<"active_gauge", g>>, st[Len(st)] = g
      PROVE  /\ st[Len(st)] \in Gauges /\ Contains(st, st[Len(st)])
             /\ SubSeq(st, 1, Len(st) - 1) \in Stacks
             /\ \A e : Contains(SubSeq(st, 1, Len(st) - 1), e) <=> (Contains(st, e) /\ e # st[Len(st)])
  <2>1. Len(st) - 1 = 1
    BY <1>3, StackTops
  <2>2. g \in Gauges /\ g # "active_gauge"
    BY <1>1
  <2>3. SubSeq(<<"active_gauge", g>>, 1, 1) = <<"active_gauge">>
    BY <1>1, <2>2, ShortStacks
  <2>4. SubSeq(st, 1, Len(st) - 1) = <<"active_gauge">>
    BY <1>3, <2>1, <2>3
  <2>5. <<"active_gauge">> \in Stacks
    BY Zenon DEF Stacks
  <2>6. ~Contains(<<"active_gauge">>, g)
    BY <2>2, StackContents
  <2>7. \A e : Contains(<<"active_gauge", g>>, e) <=> (Contains(<<"active_gauge">>, e) \/ e = g)
    BY StackGrowth
  <2>8. QED
    BY <1>3, <2>2, <2>4, <2>5, <2>6, <2>7
<1>4. CASE /\ st = <<"active_gauge", "working_gauge", "dequeueing_gauge">>
           /\ st[Len(st)] = "dequeueing_gauge"
  <2>1. Len(st) - 1 = 2
    BY <1>4, StackTops
  <2>2. SubSeq(<<"active_gauge", "working_gauge", "dequeueing_gauge">>, 1, 2)
          = <<"active_gauge", "working_gauge">>
    BY <1>1, ShortStacks
  <2>3. SubSeq(st, 1, Len(st) - 1) = <<"active_gauge", "working_gauge">>
    BY <1>4, <2>1, <2>2
  <2>4. <<"active_gauge", "working_gauge">> \in Stacks
    BY Zenon DEF Stacks
  <2>5. ~Contains(<<"active_gauge", "working_gauge">>, "dequeueing_gauge")
    BY StackContents
  <2>6. \A e : Contains(<<"active_gauge", "working_gauge", "dequeueing_gauge">>, e)
                <=> (Contains(<<"active_gauge", "working_gauge">>, e) \/ e = "dequeueing_gauge")
    BY DequeueingStack
  <2>7. QED
    BY <1>1, <1>4, <2>3, <2>4, <2>5, <2>6
<1>5. QED
  BY <1>2, <1>3, <1>4, StackCases

-----------------------------------------------------------------------------
(* Sets of workers, and the structs *)

(* Cardinalities of sets of workers. *)
LEMMA WorkerSets ==
    /\ Cardinality(Workers) \in Nat
    /\ \A A \in SUBSET Workers :
         Cardinality(A) \in Nat /\ Cardinality(A) <= Cardinality(Workers)
    /\ \A A, B \in SUBSET Workers : A \subseteq B => Cardinality(A) <= Cardinality(B)
    /\ \A A \in SUBSET Workers, w \in Workers :
         /\ w \notin A => Cardinality(A \cup {w}) = Cardinality(A) + 1
         /\ w \in A => Cardinality(A \ {w}) = Cardinality(A) - 1
<1>1. Cardinality(Workers) \in Nat
  BY WorkersAssumption, FS_CardinalityType
<1>2. ASSUME NEW A \in SUBSET Workers
      PROVE  /\ IsFiniteSet(A) /\ Cardinality(A) \in Nat
             /\ Cardinality(A) <= Cardinality(Workers)
  BY WorkersAssumption, FS_Subset, FS_CardinalityType
<1>3. ASSUME NEW A \in SUBSET Workers, NEW B \in SUBSET Workers, A \subseteq B
      PROVE  Cardinality(A) <= Cardinality(B)
  BY <1>2, <1>3, FS_Subset
<1>4. ASSUME NEW A \in SUBSET Workers, NEW w \in Workers, w \notin A
      PROVE  Cardinality(A \cup {w}) = Cardinality(A) + 1
  BY <1>2, <1>4, FS_AddElement
<1>5. ASSUME NEW A \in SUBSET Workers, NEW w \in Workers, w \in A
      PROVE  Cardinality(A \ {w}) = Cardinality(A) - 1
  BY <1>2, <1>5, FS_RemoveElement
<1>6. QED
  BY <1>1, <1>2, <1>3, <1>4, <1>5

(* The four structs have different names. *)
LEMMA FamilyFacts ==
    /\ DOMAIN Families = 1..4 /\ Len(Families) = 4
    /\ \A i \in 1..4 : Families[i] \in FamilyNames
    /\ \A i, j \in 1..4 : Families[i] = Families[j] => i = j
    /\ WorkerFamilies \subseteq FamilyNames
<1>1. /\ Len(Families) = 4 /\ DOMAIN Families = 1..4
      /\ Families[1] = "task" /\ Families[2] = "scheduler"
      /\ Families[3] = "task_worker" /\ Families[4] = "schedule_worker"
  BY DEF Families
<1>2. 1..4 = {1, 2, 3, 4}
  OBVIOUS
<1>3. \A i \in 1..4 : Families[i] \in FamilyNames
  BY <1>1 DEF FamilyNames
<1>4. \A i, j \in 1..4 : Families[i] = Families[j] => i = j
  BY <1>1, <1>2
<1>5. WorkerFamilies \subseteq FamilyNames
  BY <1>1, <1>2, <1>3 DEF WorkerFamilies
<1>6. QED
  BY <1>1, <1>3, <1>4, <1>5

(* The metrics of a struct carry its name. *)
LEMMA MetricsFacts ==
    ASSUME NEW f, NEW gen, NEW m
    PROVE  m \in Metrics(f, gen) => /\ m.family = f /\ m.generation = gen
                                    /\ m \in Metrics(m.family, m.generation)
BY DEF Metrics
-----------------------------------------------------------------------------
(* SwitchMetricsServiceName: the registry and the structs *)

SwitchType ==
    /\ current \in [FamilyNames -> Generations]
    /\ service \in [Generations -> Services]
    /\ pc \in [Switchers -> {"call", "lock", "unregister", "create", "done"}]
    /\ struct \in [Switchers -> 1..4]
    /\ mutex \in Switchers \cup {"none"}
    /\ made \in Generations
    /\ mine \in [Switchers -> Generations]

SwitchInv ==
    SwitchType /\ panicked = FALSE /\ MutexInv /\ RegistryInv /\ MadeInv

(* The package variables: everything is registered once. *)
LEMMA SwitchInit == Init => SwitchInv
<1> SUFFICES ASSUME Init PROVE SwitchInv
  OBVIOUS
<1>1. 0 \in Generations /\ 1 \in 1..4
  BY GenerationsFinite DEF Generations
<1>2. SwitchType
  BY <1>1, ServicesAssumption DEF Init, SwitchType
<1>3. panicked = FALSE
  BY Zenon DEF Init
<1>4. MutexInv
  BY SwitchersAssumption DEF Init, MutexInv
<1>5. Removed = {} /\ Started = {}
  BY DEF Init, Removed, Started
<1>6. RegistryInv
  <2>1. FamilyNames \ Removed = FamilyNames
    BY <1>5
  <2>2. \A f \in FamilyNames : current[f] = 0
    BY DEF Init
  <2>3. registry = UNION {Metrics(f, 0) : f \in FamilyNames}
    BY DEF Init
  <2>4. {Metrics(f, 0) : f \in FamilyNames} = {Metrics(f, current[f]) : f \in FamilyNames}
    BY <2>2
  <2>5. QED
    BY <2>1, <2>3, <2>4 DEF RegistryInv
<1>7. MadeInv
  BY <1>5, FS_EmptySet DEF Init, MadeInv
<1>8. QED
  BY <1>2, <1>3, <1>4, <1>6, <1>7 DEF SwitchInv

(* A generation is left for a switcher that has not started. *)
LEMMA StartOne ==
    ASSUME SwitchType, MadeInv, NEW s \in Switchers, pc[s] = "call"
    PROVE  /\ made + 1 \in Generations /\ made \in Nat
           /\ Cardinality(Started \cup {s}) = made + 1
<1>1. Started \subseteq Switchers /\ s \notin Started
  BY DEF Started
<1>2. IsFiniteSet(Started) /\ IsFiniteSet(Switchers)
  BY <1>1, SwitchersAssumption, FS_Subset
<1>3. Cardinality(Started \cup {s}) = made + 1
  BY <1>1, <1>2, FS_AddElement DEF MadeInv
<1>4. Cardinality(Started \cup {s}) <= Cardinality(Switchers)
  <2>1. Started \cup {s} \subseteq Switchers
    BY <1>1
  <2>2. QED
    BY <1>2, <2>1, FS_Subset
<1>5. made \in Nat /\ Cardinality(Switchers) \in Nat
  BY GenerationsFinite DEF SwitchType
<1>6. QED
  BY <1>3, <1>4, <1>5 DEF Generations

(* A switcher makes a generation that no other has. *)
LEMMA SwitchNewOpts ==
    ASSUME SwitchInv, NEW s \in Switchers, NEW name \in Services, NewOpts(s, name)
    PROVE  SwitchInv'
<1> USE DEF SwitchInv
<1>1. /\ pc[s] = "call" /\ made' = made + 1 /\ mine' = [mine EXCEPT ![s] = made + 1]
      /\ service' = [service EXCEPT ![made + 1] = name] /\ pc' = [pc EXCEPT ![s] = "lock"]
      /\ current' = current /\ registry' = registry /\ struct' = struct /\ mutex' = mutex
      /\ panicked' = panicked
  BY DEF NewOpts, Goto
<1>2. /\ made + 1 \in Generations /\ made \in Nat
      /\ Cardinality(Started \cup {s}) = made + 1
  BY <1>1, StartOne
<1>3. SwitchType'
  BY <1>1, <1>2 DEF SwitchType
<1>4. panicked' = FALSE
  BY <1>1
<1>5. \A t \in Switchers : pc'[t] = IF t = s THEN "lock" ELSE pc[t]
  BY <1>1 DEF SwitchType
<1>6. MutexInv'
  BY <1>1, <1>5 DEF MutexInv
<1>7. Removed' = Removed
  BY <1>1, <1>5 DEF Removed
<1>8. RegistryInv'
  BY <1>1, <1>7 DEF RegistryInv
<1>9. MadeInv'
  <2>1. Started' = Started \cup {s}
    BY <1>1, <1>5 DEF Started
  <2>2. made' = Cardinality(Started')
    BY <1>1, <1>2, <2>1
  <2>3. s \notin Started
    BY <1>1 DEF Started
  <2>4. \A t \in Started' : mine'[t] = IF t = s THEN made + 1 ELSE mine[t]
    BY <1>1 DEF SwitchType, Started
  <2>5. \A t \in Started : mine[t] \in 1..made
    BY DEF MadeInv
  <2>6. \A t \in Started' : mine'[t] \in 1..made'
    BY <1>1, <1>2, <2>1, <2>4, <2>5
  <2>7. \A t, u \in Started' : mine'[t] = mine'[u] => t = u
    BY <1>2, <2>1, <2>3, <2>4, <2>5 DEF MadeInv
  <2>8. QED
    BY <2>2, <2>6, <2>7 DEF MadeInv
<1>10. QED
  BY <1>3, <1>4, <1>6, <1>8, <1>9

(* The first statement under the mutex. *)
LEMMA SwitchLock ==
    ASSUME SwitchInv, NEW s \in Switchers, Lock(s)
    PROVE  SwitchInv' /\ Started' = Started
<1> USE DEF SwitchInv
<1>1. /\ pc[s] = "lock" /\ mutex = "none" /\ mutex' = s /\ pc' = [pc EXCEPT ![s] = "unregister"]
      /\ current' = current /\ service' = service /\ registry' = registry /\ struct' = struct
      /\ made' = made /\ mine' = mine /\ panicked' = panicked
  BY DEF Lock, Goto, MutexFree
<1>2. \A t \in Switchers : pc'[t] = IF t = s THEN "unregister" ELSE pc[t]
  BY <1>1 DEF SwitchType
<1>3. SwitchType' /\ panicked' = FALSE
  BY <1>1 DEF SwitchType
<1>4. MutexInv'
  BY <1>1, <1>2, SwitchersAssumption DEF MutexInv
<1>5. Removed' = Removed /\ Started' = Started
  BY <1>1, <1>2 DEF Removed, Started
<1>6. RegistryInv' /\ MadeInv'
  BY <1>1, <1>5 DEF RegistryInv, MadeInv
<1>7. QED
  BY <1>3, <1>4, <1>5, <1>6

(* Metrics of different structs differ for Prometheus as well. *)
LEMMA DescFacts ==
    ASSUME NEW m, NEW f, NEW gen, Desc(m) \in Descs(Metrics(f, gen))
    PROVE  m.family = f
<1>1. PICK n \in Metrics(f, gen) : Desc(m) = Desc(n)
  BY DEF Descs
<1>2. m.family = n.family
  BY <1>1 DEF Desc
<1>3. n.family = f
  BY MetricsFacts
<1>4. QED
  BY <1>2, <1>3

(* Who holds the mutex is alone at the registry. *)
LEMMA RemovedFacts ==
    ASSUME SwitchType, MutexInv
    PROVE  /\ \A s, t \in Switchers : pc[s] \in {"unregister", "create"}
                /\ pc[t] \in {"unregister", "create"} => s = t
           /\ \A s \in Switchers : pc[s] = "unregister" => Removed = {}
           /\ \A s \in Switchers : pc[s] = "create" => Removed = {Families[struct[s]]}
           /\ mutex = "none" => Removed = {}
<1>1. \A s, t \in Switchers : pc[s] \in {"unregister", "create"}
        /\ pc[t] \in {"unregister", "create"} => s = t
  BY DEF MutexInv
<1>2. \A s \in Switchers : pc[s] = "unregister" => Removed = {}
  BY <1>1 DEF Removed
<1>3. ASSUME NEW s \in Switchers, pc[s] = "create"
      PROVE  Removed = {Families[struct[s]]}
  <2>1. {t \in Switchers : pc[t] = "create"} = {s}
    BY <1>1, <1>3
  <2>2. QED
    BY <2>1 DEF Removed
<1>4. mutex = "none" => Removed = {}
  BY SwitchersAssumption DEF MutexInv, Removed
<1>5. QED
  BY <1>1, <1>2, <1>3, <1>4

(* Exactly the metrics of one struct leave the registry. *)
LEMMA SwitchUnregister ==
    ASSUME SwitchInv, NEW s \in Switchers, Unregister(s)
    PROVE  SwitchInv' /\ Started' = Started
<1> USE DEF SwitchInv
<1> DEFINE F == Families[struct[s]]
<1>1. /\ pc[s] = "unregister" /\ pc' = [pc EXCEPT ![s] = "create"]
      /\ registry' = {m \in registry : Desc(m) \notin Descs(Metrics(F, current[F]))}
      /\ current' = current /\ service' = service /\ struct' = struct /\ mutex' = mutex
      /\ made' = made /\ mine' = mine /\ panicked' = panicked
  BY DEF Unregister, Goto
<1>2. F \in FamilyNames
  BY FamilyFacts DEF SwitchType
<1> HIDE DEF F
<1>3. \A t \in Switchers : pc'[t] = IF t = s THEN "create" ELSE pc[t]
  BY <1>1 DEF SwitchType
<1>4. SwitchType' /\ panicked' = FALSE
  BY <1>1 DEF SwitchType
<1>5. MutexInv'
  BY <1>1, <1>3 DEF MutexInv
<1>6. Removed = {}
  BY <1>1, RemovedFacts
<1>7. Removed' = {F}
  <2>1. {t \in Switchers : pc[t] = "create"} = {}
    BY <1>1, RemovedFacts
  <2>2. {t \in Switchers : pc'[t] = "create"} = {s}
    BY <1>3, <2>1
  <2>3. QED
    BY <1>1, <2>2 DEF Removed, F
<1>8. Started' = Started
  BY <1>1, <1>3 DEF Started
<1>9. RegistryInv'
  <2>1. registry = UNION {Metrics(f, current[f]) : f \in FamilyNames}
    BY <1>6 DEF RegistryInv
  <2>2. ASSUME NEW m \in registry
        PROVE  Desc(m) \in Descs(Metrics(F, current[F])) <=> m.family = F
    <3>1. m.family = F => m \in Metrics(F, current[F])
      BY <2>1, MetricsFacts
    <3>2. m \in Metrics(F, current[F]) => Desc(m) \in Descs(Metrics(F, current[F]))
      BY DEF Descs
    <3>3. QED
      BY <3>1, <3>2, DescFacts
  <2>3. registry' = {m \in registry : m.family # F}
    BY <1>1, <2>2
  <2>4. registry' = UNION {Metrics(f, current[f]) : f \in FamilyNames \ {F}}
    BY <2>1, <2>3, MetricsFacts
  <2>5. QED
    BY <1>1, <1>7, <2>4 DEF RegistryInv
<1>10. MadeInv'
  BY <1>1, <1>8 DEF MadeInv
<1>11. QED
  BY <1>4, <1>5, <1>8, <1>9, <1>10

(* The new metrics of that struct meet none of the registered ones. *)
LEMMA SwitchCreate ==
    ASSUME SwitchInv, NEW s \in Switchers, Create(s)
    PROVE  SwitchInv' /\ Started' = Started
<1> USE DEF SwitchInv
<1> DEFINE F == Families[struct[s]]
<1>1. /\ pc[s] = "create" /\ pc' = [pc EXCEPT ![s] = pc'[s]]
      /\ pc'[s] = IF struct[s] = 4 THEN "done" ELSE "unregister"
      /\ struct' = IF struct[s] = 4 THEN struct ELSE [struct EXCEPT ![s] = struct[s] + 1]
      /\ mutex' = IF struct[s] = 4 THEN "none" ELSE mutex
  BY FamilyFacts DEF Create, Goto, SwitchType
<1>2. /\ panicked' = (panicked \/ Descs(registry) \cap Descs(Metrics(F, mine[s])) # {})
      /\ registry' = registry \cup Metrics(F, mine[s])
      /\ current' = [current EXCEPT ![F] = mine[s]]
      /\ service' = service /\ made' = made /\ mine' = mine
  BY DEF Create
<1>3. F \in FamilyNames
  BY FamilyFacts DEF SwitchType
<1>4. Removed = {F}
  BY <1>1, RemovedFacts
<1> HIDE DEF F
<1>5. SwitchType'
  BY <1>1, <1>2, <1>3 DEF SwitchType
<1>6. \A t \in Switchers : t # s => pc'[t] = pc[t]
  BY <1>1 DEF SwitchType
<1>7. mutex = s
  BY <1>1 DEF MutexInv
<1>8. MutexInv'
  BY <1>1, <1>6, <1>7, SwitchersAssumption DEF MutexInv
<1>9. panicked' = FALSE
  <2>1. Descs(registry) \cap Descs(Metrics(F, mine[s])) = {}
    <3>1. \A m \in registry : m.family # F
      BY <1>4, MetricsFacts DEF RegistryInv
    <3>2. \A m \in registry : Desc(m) \notin Descs(Metrics(F, mine[s]))
      BY <3>1, DescFacts
    <3>3. QED
      BY <3>2 DEF Descs
  <2>2. QED
    BY <1>2, <2>1
<1>10. Removed' = {} /\ Started' = Started
  <2>1. \A t \in Switchers : pc'[t] # "create"
    BY <1>1, <1>6, RemovedFacts
  <2>2. QED
    BY <1>1, <1>6, <2>1 DEF Removed, Started
<1>11. RegistryInv'
  <2>1. registry = UNION {Metrics(f, current[f]) : f \in FamilyNames \ {F}}
    BY <1>4 DEF RegistryInv
  <2>2. \A f \in FamilyNames : current'[f] = IF f = F THEN mine[s] ELSE current[f]
    BY <1>2 DEF SwitchType
  <2>3. registry' = UNION {Metrics(f, current'[f]) : f \in FamilyNames}
    BY <1>2, <1>3, <2>1, <2>2
  <2>4. QED
    BY <1>10, <2>3 DEF RegistryInv
<1>12. MadeInv'
  BY <1>2, <1>10 DEF MadeInv
<1>13. QED
  BY <1>5, <1>8, <1>9, <1>10, <1>11, <1>12

-----------------------------------------------------------------------------
(* The gauges of the workers *)

WorkType ==
    /\ value \in [WorkerFamilies \X Gauges \X Generations -> Int]
    /\ family \in [Workers -> WorkerFamilies]
    /\ inside \in [Workers -> Stacks]
    /\ left \in [Workers -> Gauges \cup {"none"}]
    /\ bound \in [Workers -> [Gauges -> Generations \cup {-1}]]
    /\ disturbed \in BOOLEAN

WorkInv ==
    WorkType /\ UnusedInv /\ BoundInv /\ UndisturbedInv /\ DriftInv /\ GaugesBalance

(* Those inside a gauge, and those that will take from it, are workers. *)
LEMMA SetsOfWorkers ==
    /\ \A f, g : Inside(f, g) \in SUBSET Workers
    /\ \A f, g, gen : Takers(f, g, gen) \in SUBSET Workers
BY DEF Inside, Takers

(* At the start no gauge is used. *)
LEMMA WorkInit == Init => WorkInv
<1> SUFFICES ASSUME Init PROVE WorkInv
  OBVIOUS
<1>1. /\ value = [i \in WorkerFamilies \X Gauges \X Generations |-> 0]
      /\ inside = [w \in Workers |-> <<>>]
      /\ bound = [w \in Workers |-> [g \in Gauges |-> -1]]
      /\ current = [f \in FamilyNames |-> 0]
      /\ family \in [Workers -> WorkerFamilies]
      /\ made = 0 /\ Started = {}
  BY DEF Init, Started
<1>2. Generations \subseteq Nat /\ 0 \in Generations /\ -1 \notin Generations
  BY GenerationsFinite DEF Generations
<1>3. WorkType
  <2>1. <<>> \in Stacks
    BY DEF Stacks
  <2>2. disturbed \in BOOLEAN
    BY Zenon DEF Init
  <2>3. left \in [Workers -> Gauges \cup {"none"}]
    BY DEF Init
  <2>4. QED
    BY <1>1, <2>1, <2>2, <2>3 DEF WorkType
<1>4. \A f \in WorkerFamilies, g \in Gauges, gen \in Generations : value[<<f, g, gen>>] = 0
  BY <1>1
<1>5. \A w \in Workers, g \in Gauges : bound[w][g] = -1
  BY <1>1
<1>6. \A f \in FamilyNames : current[f] = 0
  BY <1>1
<1>7. UnusedInv
  BY <1>1, <1>2, <1>4, <1>5, <1>6 DEF UnusedInv, Unused
<1>8. BoundInv
  BY <1>5 DEF BoundInv
<1>9. \A f, g : Inside(f, g) = {} /\ \A gen : Takers(f, g, gen) = {}
  <2>1. \A w \in Workers : inside[w] = <<>>
    BY <1>1
  <2>2. \A w \in Workers : \A g : ~Contains(inside[w], g)
    BY <2>1, StackContents
  <2>3. QED
    BY <2>2 DEF Inside, Takers
<1>10. Cardinality({}) = 0
  BY FS_EmptySet
<1>11. UndisturbedInv
  <2>1. \A f \in WorkerFamilies, g \in Gauges : value[<<f, g, current[f]>>] = Count(f, g)
    BY <1>2, <1>4, <1>6, <1>9, <1>10, FamilyFacts DEF Count
  <2>2. QED
    BY <1>5, <2>1 DEF UndisturbedInv
<1>12. DriftInv
  <2>1. Cardinality(Workers) \in Nat
    BY WorkerSets
  <2>2. \A f, g, gen : Cardinality(Takers(f, g, gen)) = 0
    BY <1>9, <1>10
  <2>3. ASSUME NEW f \in WorkerFamilies, NEW g \in Gauges, NEW gen \in Generations
        PROVE  /\ value[<<f, g, gen>>] >= Cardinality(Takers(f, g, gen)) - Cardinality(Workers)
               /\ value[<<f, g, gen>>] <=
                    IF current[f] = gen THEN Cardinality(Takers(f, g, gen)) ELSE Cardinality(Workers)
    <3>1. value[<<f, g, gen>>] = 0 /\ Cardinality(Takers(f, g, gen)) = 0
      BY <1>4, <2>2
    <3>2. QED
      BY <2>1, <3>1
  <2>4. QED
    BY <2>3 DEF DriftInv
<1>13. GaugesBalance
  BY <1>4, <1>9, <1>10, TotalZero DEF GaugesBalance, Count
<1>14. QED
  BY <1>3, <1>7, <1>8, <1>11, <1>12, <1>13 DEF WorkInv

(* A switch that replaces no struct leaves the gauges alone. *)
LEMMA WorkFrame ==
    ASSUME WorkInv, UNCHANGED <<current, work, disturbed>>, UnusedInv'
    PROVE  WorkInv'
<1>1. /\ current' = current /\ value' = value /\ family' = family /\ inside' = inside
      /\ left' = left /\ bound' = bound /\ disturbed' = disturbed
  BY DEF work
<1>2. WorkType'
  BY <1>1 DEF WorkInv, WorkType
<1>3. /\ \A f, g : Inside(f, g)' = Inside(f, g) /\ Count(f, g)' = Count(f, g)
      /\ \A f, g, gen : Takers(f, g, gen)' = Takers(f, g, gen)
  BY <1>1 DEF Inside, Count, Takers
<1>4. BoundInv'
  BY <1>1 DEF WorkInv, BoundInv
<1>5. UndisturbedInv'
  BY <1>1, <1>3 DEF WorkInv, UndisturbedInv
<1>6. DriftInv'
  BY <1>1, <1>3 DEF WorkInv, DriftInv
<1>7. GaugesBalance'
  BY <1>1, <1>3 DEF WorkInv, GaugesBalance
<1>8. QED
  BY <1>2, <1>4, <1>5, <1>6, <1>7 DEF WorkInv

(* The new generation has not been used. *)
LEMMA WorkNewOpts ==
    ASSUME SwitchInv, WorkInv, NEW s \in Switchers, NEW name \in Services, NewOpts(s, name)
    PROVE  WorkInv'
<1>1. /\ pc[s] = "call" /\ made' = made + 1 /\ mine' = [mine EXCEPT ![s] = made + 1]
      /\ pc' = [pc EXCEPT ![s] = "lock"] /\ struct' = struct
      /\ UNCHANGED <<current, work, disturbed>>
  BY DEF NewOpts, Goto
<1>2. /\ current' = current /\ value' = value /\ family' = family /\ bound' = bound
  BY <1>1 DEF work
<1>3. made + 1 \in Generations /\ made \in Nat
  BY <1>1, StartOne DEF SwitchInv
<1>5. \A f \in FamilyNames, gen \in Generations : gen > made => Unused(f, gen)
  BY DEF WorkInv, UnusedInv
<1>6. \A t \in Switchers :
        /\ pc'[t] = IF t = s THEN "lock" ELSE pc[t]
        /\ mine'[t] = IF t = s THEN made + 1 ELSE mine[t]
  BY <1>1 DEF SwitchInv, SwitchType
<1>7. Started' = Started \cup {s}
  BY <1>1, <1>6 DEF Started
<1>8. \A f \in FamilyNames, gen \in Generations : gen > made' => Unused(f, gen)
  BY <1>1, <1>3, <1>5, GenerationsFinite
<1>9. ASSUME NEW t \in Started', NEW i \in DOMAIN Families, pc'[t] # "done", i >= struct'[t]
      PROVE  Unused(Families[i], mine'[t])
  <2>1. Families[i] \in FamilyNames
    BY FamilyFacts
  <2>2. CASE t = s
    <3>1. mine'[t] = made + 1 /\ made + 1 > made
      BY <1>3, <1>6, <2>2
    <3>2. QED
      BY <1>3, <1>5, <2>1, <3>1
  <2>3. CASE t # s
    <3>1. t \in Started /\ pc[t] # "done" /\ i >= struct[t] /\ mine'[t] = mine[t]
      BY <1>1, <1>6, <1>7, <1>9, <2>3 DEF Started
    <3>2. QED
      BY <3>1 DEF WorkInv, UnusedInv
  <2>4. QED
    BY <2>2, <2>3
<1>10. UnusedInv'
  BY <1>2, <1>8, <1>9 DEF UnusedInv, Unused
<1>11. QED
  BY <1>1, <1>10, WorkFrame

(* The mutex and the registry do not touch the gauges. *)
LEMMA WorkLockUnregister ==
    ASSUME SwitchInv, WorkInv, NEW s \in Switchers, Lock(s) \/ Unregister(s), Started' = Started
    PROVE  WorkInv'
<1>1. /\ made' = made /\ mine' = mine /\ struct' = struct
      /\ UNCHANGED <<current, work, disturbed>>
  BY DEF Lock, Unregister
<1>2. /\ current' = current /\ value' = value /\ family' = family /\ bound' = bound
  BY <1>1 DEF work
<1>3. \A f, gen : Unused(f, gen)' <=> Unused(f, gen)
  BY <1>2 DEF Unused
<1>4. \A t \in Switchers : pc'[t] # "done" => pc[t] # "done"
  BY DEF Lock, Unregister, Goto, SwitchInv, SwitchType
<1>5. Started \subseteq Switchers
  BY DEF Started
<1>6. UnusedInv'
  BY <1>1, <1>3, <1>4, <1>5 DEF WorkInv, UnusedInv
<1>7. QED
  BY <1>1, <1>6, WorkFrame

(* Workers that are inside of nothing have deferred nothing. *)
LEMMA AllOutside ==
    ASSUME WorkType, BoundInv, \A w \in Workers : inside[w] = <<>>
    PROVE  /\ \A f, g : Count(f, g) = 0
           /\ \A w \in Workers, g \in Gauges : bound[w][g] = -1
<1>1. \A w \in Workers : \A g : ~Contains(inside[w], g)
  BY StackContents
<1>2. \A f, g : Inside(f, g) = {}
  BY <1>1 DEF Inside
<1>3. \A f, g : Count(f, g) = 0
  BY <1>2, FS_EmptySet DEF Count
<1>4. \A w \in Workers, g \in Gauges : bound[w][g] = -1
  BY <1>1 DEF BoundInv
<1>5. QED
  BY <1>3, <1>4

(* A struct is replaced under the workers that use it. *)
LEMMA WorkCreate ==
    ASSUME SwitchInv, WorkInv, NEW s \in Switchers, Create(s), Started' = Started
    PROVE  WorkInv'
<1> DEFINE F == Families[struct[s]]
<1>1. /\ pc[s] = "create" /\ made' = made /\ mine' = mine
      /\ current' = [current EXCEPT ![F] = mine[s]]
      /\ disturbed' = (disturbed \/ \E w \in Workers : inside[w] # <<>>)
      /\ value' = value /\ family' = family /\ inside' = inside /\ left' = left /\ bound' = bound
  BY DEF Create, work
<1>2. \A t \in Switchers : t # s => pc'[t] = pc[t] /\ struct'[t] = struct[t]
  BY DEF Create, Goto, SwitchInv, SwitchType
<1>3. pc'[s] # "done" => struct'[s] = struct[s] + 1
  BY FamilyFacts DEF Create, Goto, SwitchInv, SwitchType
<1>4. F \in FamilyNames /\ struct[s] \in 1..4
  BY FamilyFacts DEF SwitchInv, SwitchType
<1>5. s \in Started /\ mine[s] \in Generations /\ Unused(F, mine[s])
  <2>1. s \in Started /\ pc[s] # "done" /\ mine[s] \in Generations
    BY <1>1 DEF Started, SwitchInv, SwitchType
  <2>2. struct[s] \in DOMAIN Families /\ struct[s] >= struct[s]
    BY <1>4, FamilyFacts
  <2>3. QED
    BY <2>1, <2>2 DEF WorkInv, UnusedInv
<1>6. \A i \in DOMAIN Families : i # struct[s] => Families[i] # F
  BY <1>4, FamilyFacts
<1> HIDE DEF F
<1>7. \A f \in FamilyNames : current'[f] = IF f = F THEN mine[s] ELSE current[f]
  BY <1>1 DEF SwitchInv, SwitchType
<1>8. WorkType'
  <2>1. disturbed' \in BOOLEAN
    BY <1>1, Zenon
  <2>2. QED
    BY <1>1, <2>1 DEF WorkInv, WorkType
<1>9. UnusedInv'
  <2>1. \A f \in FamilyNames, gen \in Generations :
          Unused(f, gen) /\ (f # F \/ gen # mine[s]) => Unused(f, gen)'
    BY <1>1, <1>7 DEF Unused
  <2>2. ASSUME NEW f \in FamilyNames, NEW gen \in Generations, gen > made'
        PROVE  Unused(f, gen)'
    <3>1. mine[s] \in 1..made /\ made \in Nat /\ gen \in Nat
      BY <1>5, GenerationsFinite DEF SwitchInv, SwitchType, MadeInv
    <3>2. gen # mine[s]
      BY <1>1, <2>2, <3>1
    <3>3. Unused(f, gen)
      BY <1>1, <2>2 DEF WorkInv, UnusedInv
    <3>4. QED
      BY <2>1, <3>2, <3>3
  <2>3. ASSUME NEW t \in Started, NEW i \in DOMAIN Families, NEW gen \in Generations,
               pc'[t] # "done", i >= struct'[t], gen = mine[t]
        PROVE  Unused(Families[i], gen)'
    <3>1. Families[i] \in FamilyNames /\ t \in Switchers /\ i \in 1..4
      BY FamilyFacts DEF Started
    <3>2. CASE t = s
      <4>1. i >= struct[s] + 1
        BY <1>3, <2>3, <3>2
      <4>2. i # struct[s] /\ i >= struct[s]
        BY <1>4, <3>1, <4>1
      <4>3. Unused(Families[i], gen)
        BY <1>1, <1>5, <2>3, <3>2, <4>2 DEF WorkInv, UnusedInv
      <4>4. QED
        BY <1>6, <2>1, <3>1, <4>2, <4>3
    <3>3. CASE t # s
      <4>1. pc[t] # "done" /\ i >= struct[t]
        BY <1>2, <2>3, <3>1, <3>3
      <4>2. Unused(Families[i], gen)
        BY <2>3, <4>1 DEF WorkInv, UnusedInv
      <4>3. mine[t] # mine[s]
        BY <1>5, <3>3 DEF SwitchInv, MadeInv
      <4>4. QED
        BY <2>1, <2>3, <3>1, <4>2, <4>3
    <3>4. QED
      BY <3>2, <3>3
  <2>4. \A t \in Started : mine[t] \in Generations
    BY DEF Started, SwitchInv, SwitchType
  <2>5. QED
    BY <1>1, <2>2, <2>3, <2>4 DEF UnusedInv
<1>10. BoundInv'
  BY <1>1 DEF WorkInv, BoundInv
<1>11. \A f, g : Inside(f, g)' = Inside(f, g) /\ Count(f, g)' = Count(f, g)
  BY <1>1 DEF Inside, Count
<1>12. UndisturbedInv'
  <2> SUFFICES ASSUME ~disturbed' PROVE UndisturbedInv'
    BY DEF UndisturbedInv
  <2>1. ~disturbed /\ \A w \in Workers : inside[w] = <<>>
    BY <1>1
  <2>2. /\ \A f, g : Count(f, g) = 0
        /\ \A w \in Workers, g \in Gauges : bound[w][g] = -1
    BY <2>1, AllOutside DEF WorkInv
  <2>3. ASSUME NEW f \in WorkerFamilies, NEW g \in Gauges
        PROVE  value'[<<f, g, current'[f]>>] = 0
    <3>1. CASE f = F
      BY <1>1, <1>4, <1>5, <1>7, <3>1 DEF Unused
    <3>2. CASE f # F
      <4>1. current'[f] = current[f]
        BY <1>7, <3>2, FamilyFacts
      <4>2. value[<<f, g, current[f]>>] = 0
        BY <2>1, <2>2 DEF WorkInv, UndisturbedInv
      <4>3. QED
        BY <1>1, <4>1, <4>2
    <3>3. QED
      BY <3>1, <3>2
  <2>4. QED
    BY <1>1, <1>11, <2>2, <2>3 DEF UndisturbedInv
<1>13. DriftInv'
  <2>1. ASSUME NEW f \in WorkerFamilies, NEW g \in Gauges, NEW gen \in Generations
        PROVE  /\ value[<<f, g, gen>>] >= Cardinality(Takers(f, g, gen)') - Cardinality(Workers)
               /\ value[<<f, g, gen>>] <=
                    IF current'[f] = gen THEN Cardinality(Takers(f, g, gen)') ELSE Cardinality(Workers)
    <3>1. f \in FamilyNames /\ value[<<f, g, gen>>] \in Int /\ Cardinality(Workers) \in Nat
      BY FamilyFacts, WorkerSets DEF WorkInv, WorkType
    <3>2. /\ Takers(f, g, gen) \in SUBSET Workers
          /\ Cardinality(Takers(f, g, gen)) \in Nat
          /\ Cardinality(Takers(f, g, gen)) <= Cardinality(Workers)
      BY SetsOfWorkers, WorkerSets
    <3>3. /\ value[<<f, g, gen>>] >= Cardinality(Takers(f, g, gen)) - Cardinality(Workers)
          /\ value[<<f, g, gen>>] <=
               IF current[f] = gen THEN Cardinality(Takers(f, g, gen)) ELSE Cardinality(Workers)
      BY DEF WorkInv, DriftInv
    <3>4. Takers(f, g, gen)' =
            {w \in Inside(f, g) : bound[w][g] = gen \/ (bound[w][g] = -1 /\ current'[f] = gen)}
      BY <1>1, <1>11 DEF Takers
    <3>5. Takers(f, g, gen)' \in SUBSET Workers
      BY <3>4, SetsOfWorkers
    <3>6. /\ Cardinality(Takers(f, g, gen)') \in Nat
          /\ Cardinality(Takers(f, g, gen)') <= Cardinality(Workers)
      BY <3>5, WorkerSets
    <3>7. CASE f # F
      <4>1. current'[f] = current[f]
        BY <1>7, <3>1, <3>7
      <4>2. Takers(f, g, gen)' = Takers(f, g, gen)
        BY <3>4, <4>1 DEF Takers
      <4>3. QED
        BY <3>3, <4>1, <4>2
    <3>8. CASE f = F /\ gen = mine[s]
      <4>1. value[<<f, g, gen>>] = 0
        BY <1>5, <3>8 DEF Unused
      <4>2. QED
        BY <3>1, <3>6, <4>1
    <3>9. CASE f = F /\ gen # mine[s]
      <4>1. current'[f] # gen
        BY <1>7, <3>1, <3>9
      <4>2. Takers(f, g, gen)' \subseteq Takers(f, g, gen)
        BY <3>4, <4>1 DEF Takers
      <4>3. Cardinality(Takers(f, g, gen)') <= Cardinality(Takers(f, g, gen))
        BY <3>2, <3>5, <4>2, WorkerSets
      <4>4. QED
        BY <3>1, <3>2, <3>3, <3>6, <4>1, <4>3
    <3>10. QED
      BY <3>7, <3>8, <3>9
  <2>2. QED
    BY <1>1, <2>1 DEF DriftInv
<1>14. GaugesBalance'
  BY <1>1, <1>11 DEF WorkInv, GaugesBalance
<1>15. QED
  BY <1>8, <1>9, <1>10, <1>12, <1>13, <1>14 DEF WorkInv

-----------------------------------------------------------------------------
(* The steps of a worker *)

(* The workers do not touch the registry and the structs. *)
LEMMA SwitchFrame ==
    ASSUME SwitchInv, UNCHANGED switch
    PROVE  SwitchInv'
<1>1. /\ current' = current /\ service' = service /\ registry' = registry /\ pc' = pc
      /\ struct' = struct /\ mutex' = mutex /\ made' = made /\ mine' = mine /\ panicked' = panicked
  BY DEF switch
<1>2. SwitchType' /\ panicked' = FALSE /\ MutexInv'
  BY <1>1 DEF SwitchInv, SwitchType, MutexInv
<1>3. Removed' = Removed /\ Started' = Started
  BY <1>1 DEF Removed, Started
<1>4. RegistryInv' /\ MadeInv'
  BY <1>1, <1>3 DEF SwitchInv, RegistryInv, MadeInv
<1>5. QED
  BY <1>2, <1>4 DEF SwitchInv

(* A step of a worker that uses no unused generation. *)
LEMMA UnusedFrame ==
    ASSUME SwitchInv, UnusedInv, UNCHANGED switch,
           \A f \in FamilyNames, gen \in Generations : Unused(f, gen) => Unused(f, gen)'
    PROVE  UnusedInv'
<1>1. /\ pc' = pc /\ struct' = struct /\ made' = made /\ mine' = mine /\ Started' = Started
  BY DEF switch, Started
<1>2. \A f \in FamilyNames, gen \in Generations : gen > made => Unused(f, gen)'
  BY DEF UnusedInv
<1>3. ASSUME NEW s \in Started, NEW i \in DOMAIN Families, NEW gen, gen = mine[s],
             pc[s] # "done", i >= struct[s]
      PROVE  Unused(Families[i], gen)'
  <2>1. Unused(Families[i], gen)
    BY <1>3 DEF UnusedInv
  <2>2. Families[i] \in FamilyNames /\ gen \in Generations
    BY <1>3, FamilyFacts DEF Started, SwitchInv, SwitchType
  <2>3. QED
    BY <2>1, <2>2
<1>4. QED
  BY <1>1, <1>2, <1>3 DEF UnusedInv

(* What Inc and Dec do to the gauges. *)
Added(F, g, k, d) ==
    /\ value' \in [WorkerFamilies \X Gauges \X Generations -> Int]
    /\ \A f \in WorkerFamilies, e \in Gauges, gen \in Generations :
         /\ value[<<f, e, gen>>] \in Int
         /\ value'[<<f, e, gen>>] = value[<<f, e, gen>>]
              + IF f = F /\ e = g /\ gen = k THEN d ELSE 0

(* Add is such a step. *)
LEMMA AddFacts ==
    ASSUME WorkType, NEW w \in Workers, NEW g \in Gauges, NEW k \in Generations, NEW d \in Int,
           Add(w, g, k, d)
    PROVE  Added(family[w], g, k, d)
<1>1. family[w] \in WorkerFamilies
  BY DEF WorkType
<1> DEFINE i == <<family[w], g, k>>
           D == WorkerFamilies \X Gauges \X Generations
<1>2. i \in D
  BY <1>1
<1>3. value' = [value EXCEPT ![i] = value[i] + d]
  BY DEF Add
<1>4. \A f \in WorkerFamilies, e \in Gauges, gen \in Generations :
        /\ <<f, e, gen>> \in D
        /\ <<f, e, gen>> = i <=> f = family[w] /\ e = g /\ gen = k
  OBVIOUS
<1> HIDE DEF i, D
<1>5. value \in [D -> Int]
  BY DEF WorkType, D
<1>6. value' \in [D -> Int] /\ \A j \in D : value'[j] = IF j = i THEN value[j] + d ELSE value[j]
  BY <1>2, <1>3, <1>5
<1>7. \A j \in D : value[j] \in Int
  BY <1>5
<1>8. ASSUME NEW f \in WorkerFamilies, NEW e \in Gauges, NEW gen \in Generations
      PROVE  /\ value[<<f, e, gen>>] \in Int
             /\ value'[<<f, e, gen>>] = value[<<f, e, gen>>]
                  + IF f = family[w] /\ e = g /\ gen = k THEN d ELSE 0
  BY <1>4, <1>6, <1>7
<1>9. QED
  BY <1>6, <1>8 DEF D, Added

(* One gauge changes in sum, the others do not. *)
LEMMA AddedTotals ==
    ASSUME NEW F \in WorkerFamilies, NEW g \in Gauges, NEW k \in Generations, NEW d \in Int,
           Added(F, g, k, d)
    PROVE  /\ Total(value, F, g) \in Int /\ Total(value', F, g) = Total(value, F, g) + d
           /\ \A f \in WorkerFamilies, e \in Gauges :
                f # F \/ e # g => Total(value', f, e) = Total(value, f, e)
<1>1. \A f \in WorkerFamilies, e \in Gauges, gen \in Generations :
        /\ value[<<f, e, gen>>] \in Int
        /\ value'[<<f, e, gen>>] = value[<<f, e, gen>>]
             + IF f = F /\ e = g /\ gen = k THEN d ELSE 0
  BY DEF Added
<1>2. Total(value, F, g) \in Int /\ Total(value', F, g) = Total(value, F, g) + d
  <2>1. Shifted(value, value', F, g, k, d)
    BY <1>1 DEF Shifted
  <2>2. QED
    BY <2>1, TotalChange
<1>3. ASSUME NEW f \in WorkerFamilies, NEW e \in Gauges, f # F \/ e # g
      PROVE  Total(value', f, e) = Total(value, f, e)
  <2>1. \A gen \in Generations : value[<<f, e, gen>>] \in Int
    BY <1>1
  <2>2. \A gen \in Generations : value'[<<f, e, gen>>] = value[<<f, e, gen>>]
    BY <1>1, <1>3
  <2>3. QED
    BY <2>1, <2>2, TotalSame
<1>4. QED
  BY <1>2, <1>3

(* The generations a worker can still take one from. *)
LEMMA UnusedKept ==
    ASSUME SwitchInv, WorkInv, UNCHANGED <<switch, family>>, NEW w \in Workers, NEW k \in Generations,
           \A f \in FamilyNames, gen \in Generations :
             Unused(f, gen) => f # family[w] \/ gen # k,
           \A f \in WorkerFamilies, e \in Gauges, gen \in Generations :
             f # family[w] \/ gen # k => value'[<<f, e, gen>>] = value[<<f, e, gen>>],
           \A x \in Workers, e \in Gauges :
             \/ bound'[x][e] \in {bound[x][e], -1}
             \/ x = w /\ bound'[x][e] = k
    PROVE  UnusedInv'
<1>1. current' = current /\ family' = family
  BY DEF switch
<1>2. ASSUME NEW f \in FamilyNames, NEW gen \in Generations, Unused(f, gen)
      PROVE  Unused(f, gen)'
  <2>1. f # family[w] \/ gen # k
    BY <1>2
  <2>2. current[f] # gen
    BY <1>2 DEF Unused
  <2>3. f \in WorkerFamilies => \A g \in Gauges : value'[<<f, g, gen>>] = 0
    BY <1>2, <2>1 DEF Unused
  <2>4. -1 # gen
    BY GenerationsFinite
  <2>5. \A x \in Workers, g \in Gauges : family[x] = f => bound'[x][g] # gen
    BY <1>2, <2>1, <2>4 DEF Unused
  <2>6. QED
    BY <1>1, <2>2, <2>3, <2>5 DEF Unused
<1>3. QED
  BY <1>2, UnusedFrame DEF WorkInv

(* A worker that enters a gauge will take one from it. *)
LEMMA WorkEnter ==
    ASSUME SwitchInv, WorkInv, NEW w \in Workers, NEW g \in Gauges, Enter(w, g)
    PROVE  WorkInv'
<1>0. PICK F \in WorkerFamilies, k \in Generations, d \in Int :
        F = family[w] /\ k = current[F] /\ d = 1
  <2>1. family[w] \in WorkerFamilies /\ family[w] \in FamilyNames
    BY FamilyFacts DEF WorkInv, WorkType
  <2>2. current[family[w]] \in Generations /\ 1 \in Int
    BY <2>1 DEF SwitchInv, SwitchType
  <2>3. QED
    BY <2>1, <2>2
<1>1. /\ Add(w, g, k, d) /\ inside' = [inside EXCEPT ![w] = Append(inside[w], g)]
      /\ left' = [left EXCEPT ![w] = "none"] /\ UNCHANGED switch
      /\ family' = family /\ bound' = bound /\ disturbed' = disturbed /\ current' = current
  BY <1>0 DEF Enter, switch
<1>2. WorkType /\ BoundInv
  BY DEF WorkInv
<1>3. inside[w] \in Stacks
  BY <1>2 DEF WorkType
<1>4. \/ inside[w] = <<>> /\ g = "active_gauge"
      \/ /\ inside[w] # <<>> /\ inside[w][Len(inside[w])] = "active_gauge"
         /\ g \in {"working_gauge", "waiting_gauge"}
      \/ /\ inside[w] # <<>> /\ inside[w][Len(inside[w])] = "working_gauge"
         /\ g = "dequeueing_gauge"
  BY DEF Enter, MayEnter, Pushed, Top
<1>5. /\ Append(inside[w], g) \in Stacks /\ ~Contains(inside[w], g)
      /\ \A e : Contains(Append(inside[w], g), e) <=> (Contains(inside[w], e) \/ e = g)
  BY <1>3, <1>4, PushStack
<1>6. bound[w][g] = -1
  BY <1>2, <1>5 DEF BoundInv
<1>7. /\ Added(F, g, k, d)
      /\ value' \in [WorkerFamilies \X Gauges \X Generations -> Int]
      /\ \A f \in WorkerFamilies, e \in Gauges, gen \in Generations :
           /\ value[<<f, e, gen>>] \in Int
           /\ value'[<<f, e, gen>>] = value[<<f, e, gen>>]
                + IF f = F /\ e = g /\ gen = k THEN d ELSE 0
  <2>1. Added(F, g, k, d)
    BY <1>0, <1>1, <1>2, AddFacts
  <2>2. QED
    BY <2>1 DEF Added
<1>8. \A x \in Workers : \A e :
        Contains(inside'[x], e) <=> (Contains(inside[x], e) \/ (x = w /\ e = g))
  BY <1>1, <1>2, <1>5 DEF WorkType
<1>9. WorkType'
  BY <1>1, <1>2, <1>5, <1>7 DEF WorkType
<1>10. UnusedInv'
  <2>1. \A f \in FamilyNames, gen \in Generations : Unused(f, gen) => f # F \/ gen # k
    BY <1>0 DEF Unused
  <2>2. \A f \in WorkerFamilies, e \in Gauges, gen \in Generations :
          f # F \/ gen # k => value'[<<f, e, gen>>] = value[<<f, e, gen>>]
    BY <1>7
  <2>3. \A x \in Workers, e \in Gauges : bound'[x][e] \in {bound[x][e], -1}
    BY <1>1
  <2>4. QED
    BY <1>0, <1>1, <2>1, <2>2, <2>3, UnusedKept
<1>11. BoundInv'
  BY <1>1, <1>2, <1>8 DEF BoundInv
<1>12. \A f, e : Inside(f, e)' = IF f = F /\ e = g THEN Inside(f, e) \cup {w} ELSE Inside(f, e)
  BY <1>0, <1>1, <1>8 DEF Inside
<1>13. w \notin Inside(F, g)
  BY <1>5 DEF Inside
<1>14. \A f, e : Count(f, e)' = IF f = F /\ e = g THEN Count(f, e) + 1 ELSE Count(f, e)
  <2>1. Cardinality(Inside(F, g) \cup {w}) = Count(F, g) + 1
    BY <1>13, SetsOfWorkers, WorkerSets DEF Count
  <2>2. QED
    BY <1>12, <2>1 DEF Count
<1>15. UndisturbedInv'
  <2> SUFFICES ASSUME ~disturbed' PROVE UndisturbedInv'
    BY DEF UndisturbedInv
  <2>1. ~disturbed
    BY <1>1
  <2>2. ASSUME NEW f \in WorkerFamilies, NEW e \in Gauges
        PROVE  value'[<<f, e, current[f]>>] = Count(f, e)'
    <3>1. current[f] \in Generations /\ (f = F => current[f] = k)
      BY <1>0, FamilyFacts DEF SwitchInv, SwitchType
    <3>2. value[<<f, e, current[f]>>] = Count(f, e)
      BY <2>1 DEF WorkInv, UndisturbedInv
    <3>3. QED
      BY <1>0, <1>7, <1>14, <3>1, <3>2
  <2>3. QED
    BY <1>1, <2>1, <2>2 DEF WorkInv, UndisturbedInv
<1>16. DriftInv'
  <2>1. ASSUME NEW f \in WorkerFamilies, NEW e \in Gauges, NEW gen \in Generations
        PROVE  /\ value'[<<f, e, gen>>] >= Cardinality(Takers(f, e, gen)') - Cardinality(Workers)
               /\ value'[<<f, e, gen>>] <=
                    IF current[f] = gen THEN Cardinality(Takers(f, e, gen)') ELSE Cardinality(Workers)
    <3>1. /\ value[<<f, e, gen>>] >= Cardinality(Takers(f, e, gen)) - Cardinality(Workers)
          /\ value[<<f, e, gen>>] <=
               IF current[f] = gen THEN Cardinality(Takers(f, e, gen)) ELSE Cardinality(Workers)
      BY DEF WorkInv, DriftInv
    <3>2. Takers(f, e, gen)' =
            {x \in Inside(f, e)' : bound[x][e] = gen \/ (bound[x][e] = -1 /\ current[f] = gen)}
      BY <1>1 DEF Takers
    <3>3. CASE f = F /\ e = g /\ gen = k
      <4>1. Takers(f, e, gen)' = Takers(f, e, gen) \cup {w}
        BY <1>0, <1>6, <1>12, <3>2, <3>3 DEF Takers
      <4>2. w \notin Takers(f, e, gen)
        BY <1>13, <3>3 DEF Takers
      <4>3. Cardinality(Takers(f, e, gen)') = Cardinality(Takers(f, e, gen)) + 1
        BY <4>1, <4>2, SetsOfWorkers, WorkerSets
      <4>4. value'[<<f, e, gen>>] = value[<<f, e, gen>>] + 1 /\ value[<<f, e, gen>>] \in Int
        BY <1>0, <1>7, <3>3
      <4>5. Cardinality(Takers(f, e, gen)) \in Nat /\ Cardinality(Workers) \in Nat
        BY SetsOfWorkers, WorkerSets
      <4>6. current[f] = gen
        BY <1>0, <3>3
      <4>7. QED
        BY <3>1, <4>3, <4>4, <4>5, <4>6
    <3>4. CASE ~(f = F /\ e = g /\ gen = k)
      <4>1. value'[<<f, e, gen>>] = value[<<f, e, gen>>]
        BY <1>7, <3>4
      <4>2. Takers(f, e, gen)' = Takers(f, e, gen)
        <5>1. CASE f = F /\ e = g
          <6>1. ~(bound[w][e] = gen \/ (bound[w][e] = -1 /\ current[f] = gen))
            BY <1>0, <1>6, <3>4, <5>1, GenerationsFinite
          <6>2. QED
            BY <1>12, <3>2, <5>1, <6>1 DEF Takers
        <5>2. CASE ~(f = F /\ e = g)
          BY <1>12, <3>2, <5>2 DEF Takers
        <5>3. QED
          BY <5>1, <5>2
      <4>3. QED
        BY <3>1, <4>1, <4>2
    <3>5. QED
      BY <3>3, <3>4
  <2>2. QED
    BY <1>1, <2>1 DEF DriftInv
<1>17. GaugesBalance'
  <2>1. ASSUME NEW f \in WorkerFamilies, NEW e \in Gauges
        PROVE  Total(value', f, e) = Count(f, e)'
    <3>1. Total(value, f, e) = Count(f, e)
      BY DEF WorkInv, GaugesBalance
    <3>2. Total(value', f, e) =
            IF f = F /\ e = g THEN Total(value, f, e) + d ELSE Total(value, f, e)
      BY <1>7, AddedTotals
    <3>3. QED
      BY <1>0, <1>14, <3>1, <3>2
  <2>2. QED
    BY <2>1 DEF GaugesBalance
<1>18. QED
  BY <1>9, <1>10, <1>11, <1>15, <1>16, <1>17 DEF WorkInv

(* EndWait and Return: the gauge that is decremented is the one the worker *)
(* has deferred, or the current one.                                       *)
LEMMA WorkLeave ==
    ASSUME SwitchInv, WorkInv, NEW w \in Workers, NEW F \in WorkerFamilies, F = family[w],
           NEW g \in Gauges, NEW k \in Generations, NEW d \in Int, d = -1,
           inside[w] # <<>>, g = Top(w),
           bound[w][g] = k \/ (bound[w][g] = -1 /\ current[F] = k),
           Add(w, g, k, d), Leave(w), UNCHANGED <<switch, family, disturbed>>,
           bound' \in [Workers -> [Gauges -> Generations \cup {-1}]],
           \A x \in Workers, e \in Gauges : bound'[x][e] = IF x = w /\ e = g THEN -1 ELSE bound[x][e]
    PROVE  WorkInv'
<1>1. /\ inside' = [inside EXCEPT ![w] = Pop(w)] /\ left' = [left EXCEPT ![w] = g]
      /\ UNCHANGED switch /\ family' = family /\ disturbed' = disturbed /\ current' = current
  BY DEF Leave, switch
<1>2. WorkType /\ BoundInv
  BY DEF WorkInv
<1>3. inside[w] \in Stacks
  BY <1>2 DEF WorkType
<1>4. /\ Contains(inside[w], g) /\ Pop(w) \in Stacks
      /\ \A e : Contains(Pop(w), e) <=> (Contains(inside[w], e) /\ e # g)
  BY <1>3, PopStack DEF Top, Pop
<1>5. /\ Added(F, g, k, d)
      /\ value' \in [WorkerFamilies \X Gauges \X Generations -> Int]
      /\ \A f \in WorkerFamilies, e \in Gauges, gen \in Generations :
           /\ value[<<f, e, gen>>] \in Int
           /\ value'[<<f, e, gen>>] = value[<<f, e, gen>>]
                + IF f = F /\ e = g /\ gen = k THEN d ELSE 0
  <2>1. Added(F, g, k, d)
    BY <1>2, AddFacts
  <2>2. QED
    BY <2>1 DEF Added
<1>6. \A x \in Workers : \A e :
        Contains(inside'[x], e) <=> (Contains(inside[x], e) /\ ~(x = w /\ e = g))
  BY <1>1, <1>2, <1>4 DEF WorkType
<1>7. -1 \notin Generations
  BY GenerationsFinite
<1>8. WorkType'
  BY <1>1, <1>2, <1>4, <1>5 DEF WorkType
<1>9. UnusedInv'
  <2>1. \A f \in FamilyNames, gen \in Generations : Unused(f, gen) => f # F \/ gen # k
    BY DEF Unused
  <2>2. \A f \in WorkerFamilies, e \in Gauges, gen \in Generations :
          f # F \/ gen # k => value'[<<f, e, gen>>] = value[<<f, e, gen>>]
    BY <1>5
  <2>3. \A x \in Workers, e \in Gauges : bound'[x][e] \in {bound[x][e], -1}
    OBVIOUS
  <2>4. QED
    BY <1>1, <2>1, <2>2, <2>3, UnusedKept
<1>10. BoundInv'
  <2>1. ASSUME NEW x \in Workers, NEW e \in Gauges, bound'[x][e] # -1
        PROVE  e # "waiting_gauge" /\ Contains(inside'[x], e)
    <3>1. ~(x = w /\ e = g) /\ bound[x][e] # -1
      BY <2>1
    <3>2. e # "waiting_gauge" /\ Contains(inside[x], e)
      BY <1>2, <3>1 DEF BoundInv
    <3>3. QED
      BY <1>6, <3>1, <3>2
  <2>2. QED
    BY <2>1 DEF BoundInv
<1>11. \A f, e : Inside(f, e)' = IF f = F /\ e = g THEN Inside(f, e) \ {w} ELSE Inside(f, e)
  BY <1>1, <1>6 DEF Inside
<1>12. w \in Inside(F, g)
  BY <1>4 DEF Inside
<1>13. \A f, e : Count(f, e)' = IF f = F /\ e = g THEN Count(f, e) - 1 ELSE Count(f, e)
  <2>1. Cardinality(Inside(F, g) \ {w}) = Count(F, g) - 1
    BY <1>12, SetsOfWorkers, WorkerSets DEF Count
  <2>2. QED
    BY <1>11, <2>1 DEF Count
<1>14. UndisturbedInv'
  <2> SUFFICES ASSUME ~disturbed' PROVE UndisturbedInv'
    BY DEF UndisturbedInv
  <2>1. ~disturbed
    BY <1>1
  <2>2. k = current[F]
    BY <1>7, <2>1 DEF WorkInv, UndisturbedInv
  <2>3. ASSUME NEW f \in WorkerFamilies, NEW e \in Gauges
        PROVE  value'[<<f, e, current[f]>>] = Count(f, e)'
    <3>1. current[f] \in Generations
      BY FamilyFacts DEF SwitchInv, SwitchType
    <3>2. value[<<f, e, current[f]>>] = Count(f, e)
      BY <2>1 DEF WorkInv, UndisturbedInv
    <3>3. QED
      BY <1>5, <1>13, <2>2, <3>1, <3>2
  <2>4. \A x \in Workers, e \in Gauges : bound'[x][e] \in {-1, current[family[x]]}
    BY <2>1 DEF WorkInv, UndisturbedInv
  <2>5. QED
    BY <1>1, <2>3, <2>4 DEF UndisturbedInv
<1>15. DriftInv'
  <2>1. ASSUME NEW f \in WorkerFamilies, NEW e \in Gauges, NEW gen \in Generations
        PROVE  /\ value'[<<f, e, gen>>] >= Cardinality(Takers(f, e, gen)') - Cardinality(Workers)
               /\ value'[<<f, e, gen>>] <=
                    IF current[f] = gen THEN Cardinality(Takers(f, e, gen)') ELSE Cardinality(Workers)
    <3>1. /\ value[<<f, e, gen>>] >= Cardinality(Takers(f, e, gen)) - Cardinality(Workers)
          /\ value[<<f, e, gen>>] <=
               IF current[f] = gen THEN Cardinality(Takers(f, e, gen)) ELSE Cardinality(Workers)
      BY DEF WorkInv, DriftInv
    <3>2. Takers(f, e, gen)' =
            {x \in Inside(f, e)' : bound'[x][e] = gen \/ (bound'[x][e] = -1 /\ current[f] = gen)}
      BY <1>1 DEF Takers
    <3>3. Inside(f, e)' \subseteq Inside(f, e) /\ Inside(f, e) \in SUBSET Workers
      BY <1>11, SetsOfWorkers
    <3>4. \A x \in Inside(f, e)' : bound'[x][e] = bound[x][e]
      <4>1. ASSUME NEW x \in Inside(f, e)' PROVE ~(x = w /\ e = g)
        BY <1>6 DEF Inside
      <4>2. QED
        BY <3>3, <4>1
    <3>5. Takers(f, e, gen)' = Takers(f, e, gen) \cap Inside(f, e)'
      BY <3>2, <3>3, <3>4 DEF Takers
    <3>6. CASE f = F /\ e = g /\ gen = k
      <4>1. Takers(f, e, gen)' = Takers(f, e, gen) \ {w}
        BY <1>11, <3>5, <3>6 DEF Takers
      <4>2. w \in Takers(f, e, gen)
        BY <1>12, <3>6 DEF Takers
      <4>3. Cardinality(Takers(f, e, gen)') = Cardinality(Takers(f, e, gen)) - 1
        BY <4>1, <4>2, SetsOfWorkers, WorkerSets
      <4>4. value'[<<f, e, gen>>] = value[<<f, e, gen>>] - 1 /\ value[<<f, e, gen>>] \in Int
        BY <1>5, <3>6
      <4>5. Cardinality(Takers(f, e, gen)) \in Nat /\ Cardinality(Workers) \in Nat
        BY SetsOfWorkers, WorkerSets
      <4>6. QED
        BY <3>1, <4>3, <4>4, <4>5
    <3>7. CASE ~(f = F /\ e = g /\ gen = k)
      <4>1. value'[<<f, e, gen>>] = value[<<f, e, gen>>]
        BY <1>5, <3>7
      <4>2. Takers(f, e, gen)' = Takers(f, e, gen)
        <5>1. CASE f = F /\ e = g
          <6>1. gen # k /\ gen # -1
            BY <1>7, <3>7, <5>1
          <6>2. ~(bound[w][e] = gen \/ (bound[w][e] = -1 /\ current[f] = gen))
            BY <1>7, <5>1, <6>1
          <6>3. w \notin Takers(f, e, gen)
            BY <6>2 DEF Takers
          <6>4. QED
            BY <1>11, <3>5, <5>1, <6>3 DEF Takers
        <5>2. CASE ~(f = F /\ e = g)
          BY <1>11, <3>5, <5>2 DEF Takers
        <5>3. QED
          BY <5>1, <5>2
      <4>3. QED
        BY <3>1, <4>1, <4>2
    <3>8. QED
      BY <3>6, <3>7
  <2>2. QED
    BY <1>1, <2>1 DEF DriftInv
<1>16. GaugesBalance'
  <2>1. ASSUME NEW f \in WorkerFamilies, NEW e \in Gauges
        PROVE  Total(value', f, e) = Count(f, e)'
    <3>1. Total(value, f, e) = Count(f, e)
      BY DEF WorkInv, GaugesBalance
    <3>2. Total(value', f, e) =
            IF f = F /\ e = g THEN Total(value, f, e) + d ELSE Total(value, f, e)
      BY <1>5, AddedTotals
    <3>3. QED
      BY <1>13, <3>1, <3>2
  <2>2. QED
    BY <2>1 DEF GaugesBalance
<1>17. QED
  BY <1>8, <1>9, <1>10, <1>14, <1>15, <1>16 DEF WorkInv

(* Where a worker is: at the end of its stack, which its struct has. *)
LEMMA AtTop ==
    ASSUME SwitchInv, WorkInv, NEW w \in Workers, inside[w] # <<>>
    PROVE  /\ Top(w) \in Gauges /\ Contains(inside[w], Top(w))
           /\ family[w] \in WorkerFamilies /\ current[family[w]] \in Generations
<1>1. inside[w] \in Stacks
  BY DEF WorkInv, WorkType
<1>2. Top(w) \in Gauges /\ Contains(inside[w], Top(w))
  BY <1>1, PopStack DEF Top
<1>3. family[w] \in WorkerFamilies /\ family[w] \in FamilyNames
  BY FamilyFacts DEF WorkInv, WorkType
<1>4. QED
  BY <1>2, <1>3 DEF SwitchInv, SwitchType

(* The end of the wait decrements the current gauge. *)
LEMMA WorkEndWait ==
    ASSUME SwitchInv, WorkInv, NEW w \in Workers, EndWait(w)
    PROVE  WorkInv'
<1>1. /\ inside[w] # <<>> /\ Top(w) = "waiting_gauge"
      /\ Leave(w) /\ UNCHANGED <<switch, family, disturbed>> /\ bound' = bound
  BY DEF EndWait, Pushed
<1>2. PICK F \in WorkerFamilies, g \in Gauges, k \in Generations, d \in Int :
        F = family[w] /\ g = Top(w) /\ k = current[F] /\ d = -1
  <2>1. -1 \in Int
    OBVIOUS
  <2>2. QED
    BY <1>1, <2>1, AtTop
<1>3. Add(w, g, k, d)
  BY <1>1, <1>2 DEF EndWait
<1>4. bound[w][g] = -1
  BY <1>1, <1>2 DEF WorkInv, BoundInv
<1>5. /\ bound' \in [Workers -> [Gauges -> Generations \cup {-1}]]
      /\ \A x \in Workers, e \in Gauges : bound'[x][e] = IF x = w /\ e = g THEN -1 ELSE bound[x][e]
  BY <1>1, <1>4 DEF WorkInv, WorkType
<1>6. QED
  BY <1>1, <1>2, <1>3, <1>4, <1>5, WorkLeave

(* A return decrements the gauge that was deferred. *)
LEMMA WorkReturn ==
    ASSUME SwitchInv, WorkInv, NEW w \in Workers, Return(w)
    PROVE  WorkInv'
<1>1. /\ inside[w] # <<>> /\ bound[w][Top(w)] # -1
      /\ Leave(w) /\ UNCHANGED <<switch, family, disturbed>>
      /\ bound' = [bound EXCEPT ![w] = [bound[w] EXCEPT ![Top(w)] = -1]]
  BY DEF Return, Pushed
<1>2. bound \in [Workers -> [Gauges -> Generations \cup {-1}]]
  BY DEF WorkInv, WorkType
<1>3. PICK F \in WorkerFamilies, g \in Gauges, k \in Generations, d \in Int :
        F = family[w] /\ g = Top(w) /\ k = bound[w][g] /\ d = -1
  <2>1. -1 \in Int
    OBVIOUS
  <2>2. Top(w) \in Gauges /\ family[w] \in WorkerFamilies
    BY <1>1, AtTop
  <2>3. bound[w][Top(w)] \in Generations
    BY <1>1, <1>2, <2>2
  <2>4. QED
    BY <2>1, <2>2, <2>3
<1>4. Add(w, g, k, d)
  BY <1>3 DEF Return
<1>5. /\ bound' \in [Workers -> [Gauges -> Generations \cup {-1}]]
      /\ \A x \in Workers, e \in Gauges : bound'[x][e] = IF x = w /\ e = g THEN -1 ELSE bound[x][e]
  BY <1>1, <1>2, <1>3
<1>6. QED
  BY <1>1, <1>3, <1>4, <1>5, WorkLeave

(* A defer fixes what the worker will take back, and takes nothing. *)
LEMMA WorkDefer ==
    ASSUME SwitchInv, WorkInv, NEW w \in Workers, Defer(w)
    PROVE  WorkInv'
<1>1. /\ inside[w] # <<>> /\ Top(w) # "waiting_gauge" /\ bound[w][Top(w)] = -1
      /\ bound' = [bound EXCEPT ![w] = [bound[w] EXCEPT ![Top(w)] = current[family[w]]]]
      /\ UNCHANGED switch /\ current' = current /\ family' = family /\ value' = value
      /\ inside' = inside /\ left' = left /\ disturbed' = disturbed
  BY DEF Defer, Pushed, switch
<1>2. PICK F \in WorkerFamilies, g \in Gauges, k \in Generations :
        /\ F = family[w] /\ g = Top(w) /\ k = current[F]
        /\ Contains(inside[w], g)
  BY <1>1, AtTop
<1>3. bound \in [Workers -> [Gauges -> Generations \cup {-1}]]
  BY DEF WorkInv, WorkType
<1>4. /\ bound' \in [Workers -> [Gauges -> Generations \cup {-1}]]
      /\ \A x \in Workers, e \in Gauges : bound'[x][e] = IF x = w /\ e = g THEN k ELSE bound[x][e]
  BY <1>1, <1>2, <1>3
<1>5. WorkType'
  BY <1>1, <1>4 DEF WorkInv, WorkType
<1>6. UnusedInv'
  <2>1. \A f \in FamilyNames, gen \in Generations : Unused(f, gen) => f # F \/ gen # k
    BY <1>2 DEF Unused
  <2>2. \A x \in Workers, e \in Gauges :
          \/ bound'[x][e] \in {bound[x][e], -1}
          \/ x = w /\ bound'[x][e] = k
    BY <1>4
  <2>3. QED
    BY <1>1, <1>2, <2>1, <2>2, UnusedKept
<1>7. BoundInv'
  BY <1>1, <1>2, <1>4 DEF WorkInv, BoundInv
<1>8. \A f, e : Inside(f, e)' = Inside(f, e) /\ Count(f, e)' = Count(f, e)
  BY <1>1 DEF Inside, Count
<1>9. UndisturbedInv'
  <2> SUFFICES ASSUME ~disturbed' PROVE UndisturbedInv'
    BY DEF UndisturbedInv
  <2>1. ~disturbed
    BY <1>1
  <2>2. \A x \in Workers, e \in Gauges : bound'[x][e] \in {-1, current[family[x]]}
    BY <1>2, <1>4, <2>1 DEF WorkInv, UndisturbedInv
  <2>3. \A f \in WorkerFamilies, e \in Gauges : value[<<f, e, current[f]>>] = Count(f, e)
    BY <2>1 DEF WorkInv, UndisturbedInv
  <2>4. QED
    BY <1>1, <1>8, <2>2, <2>3 DEF UndisturbedInv
<1>10. DriftInv'
  <2>1. ASSUME NEW f \in WorkerFamilies, NEW e \in Gauges, NEW gen \in Generations
        PROVE  Takers(f, e, gen)' = Takers(f, e, gen)
    <3>1. Takers(f, e, gen)' =
            {x \in Inside(f, e) : bound'[x][e] = gen \/ (bound'[x][e] = -1 /\ current[f] = gen)}
      BY <1>1, <1>8 DEF Takers
    <3>2. gen # -1 /\ k # -1
      BY GenerationsFinite
    <3>3. ASSUME NEW x \in Inside(f, e)
          PROVE  (bound'[x][e] = gen \/ (bound'[x][e] = -1 /\ current[f] = gen))
                   <=> (bound[x][e] = gen \/ (bound[x][e] = -1 /\ current[f] = gen))
      <4>1. x \in Workers /\ family[x] = f
        BY DEF Inside
      <4>2. CASE x = w /\ e = g
        <5>1. bound'[x][e] = k /\ bound[x][e] = -1 /\ current[f] = k
          BY <1>1, <1>2, <1>4, <4>1, <4>2
        <5>2. QED
          BY <3>2, <5>1
      <4>3. CASE ~(x = w /\ e = g)
        BY <1>4, <4>1, <4>3
      <4>4. QED
        BY <4>2, <4>3
    <3>4. QED
      BY <3>1, <3>3 DEF Takers
  <2>2. QED
    BY <1>1, <2>1 DEF WorkInv, DriftInv
<1>11. GaugesBalance'
  BY <1>1, <1>8 DEF WorkInv, GaugesBalance
<1>12. QED
  BY <1>5, <1>6, <1>7, <1>9, <1>10, <1>11 DEF WorkInv

-----------------------------------------------------------------------------
(* The theorem *)

(* Every step keeps both halves of the invariant. *)
LEMMA MetricsNext ==
    ASSUME SwitchInv, WorkInv, [Next]_vars
    PROVE  SwitchInv' /\ WorkInv'
<1>1. CASE UNCHANGED vars
  <2>1. UNCHANGED switch /\ UNCHANGED <<current, work, disturbed>>
    BY <1>1 DEF vars, switch
  <2>2. SwitchInv'
    BY <2>1, SwitchFrame
  <2>3. \A f, gen : Unused(f, gen)' <=> Unused(f, gen)
    BY <2>1 DEF Unused, work
  <2>4. UnusedInv'
    BY <2>1, <2>3, UnusedFrame DEF WorkInv
  <2>5. QED
    BY <2>1, <2>2, <2>4, WorkFrame
<1>2. ASSUME NEW s \in Switchers, NEW name \in Services, NewOpts(s, name)
      PROVE  SwitchInv' /\ WorkInv'
  BY <1>2, SwitchNewOpts, WorkNewOpts
<1>3. ASSUME NEW s \in Switchers, Lock(s) PROVE SwitchInv' /\ WorkInv'
  BY <1>3, SwitchLock, WorkLockUnregister
<1>4. ASSUME NEW s \in Switchers, Unregister(s) PROVE SwitchInv' /\ WorkInv'
  BY <1>4, SwitchUnregister, WorkLockUnregister
<1>5. ASSUME NEW s \in Switchers, Create(s) PROVE SwitchInv' /\ WorkInv'
  BY <1>5, SwitchCreate, WorkCreate
<1>6. ASSUME NEW w \in Workers, NEW g \in Gauges, Enter(w, g) PROVE SwitchInv' /\ WorkInv'
  <2>1. UNCHANGED switch
    BY <1>6 DEF Enter
  <2>2. QED
    BY <1>6, <2>1, SwitchFrame, WorkEnter
<1>7. ASSUME NEW w \in Workers, Defer(w) PROVE SwitchInv' /\ WorkInv'
  <2>1. UNCHANGED switch
    BY <1>7 DEF Defer
  <2>2. QED
    BY <1>7, <2>1, SwitchFrame, WorkDefer
<1>8. ASSUME NEW w \in Workers, EndWait(w) PROVE SwitchInv' /\ WorkInv'
  <2>1. UNCHANGED switch
    BY <1>8 DEF EndWait
  <2>2. QED
    BY <1>8, <2>1, SwitchFrame, WorkEndWait
<1>9. ASSUME NEW w \in Workers, Return(w) PROVE SwitchInv' /\ WorkInv'
  <2>1. UNCHANGED switch
    BY <1>9 DEF Return
  <2>2. QED
    BY <1>9, <2>1, SwitchFrame, WorkReturn
<1>10. QED
  BY <1>1, <1>2, <1>3, <1>4, <1>5, <1>6, <1>7, <1>8, <1>9 DEF Next

(* The value of a gauge stays within the number of workers. *)
LEMMA ValueRange ==
    ASSUME WorkInv
    PROVE  value \in [WorkerFamilies \X Gauges \X Generations ->
                         (0 - Cardinality(Workers))..Cardinality(Workers)]
<1>1. ASSUME NEW f \in WorkerFamilies, NEW g \in Gauges, NEW gen \in Generations
      PROVE  value[<<f, g, gen>>] \in (0 - Cardinality(Workers))..Cardinality(Workers)
  <2>1. value[<<f, g, gen>>] \in Int
    BY DEF WorkInv, WorkType
  <2>2. /\ Cardinality(Takers(f, g, gen)) \in Nat /\ Cardinality(Workers) \in Nat
        /\ Cardinality(Takers(f, g, gen)) <= Cardinality(Workers)
    BY SetsOfWorkers, WorkerSets
  <2>3. /\ value[<<f, g, gen>>] >= Cardinality(Takers(f, g, gen)) - Cardinality(Workers)
        /\ value[<<f, g, gen>>] <=
             IF current[f] = gen THEN Cardinality(Takers(f, g, gen)) ELSE Cardinality(Workers)
    BY DEF WorkInv, DriftInv
  <2>4. QED
    BY <2>1, <2>2, <2>3
<1>2. \A i \in WorkerFamilies \X Gauges \X Generations :
        \E f \in WorkerFamilies, g \in Gauges, gen \in Generations : i = <<f, g, gen>>
  OBVIOUS
<1>3. \A i \in WorkerFamilies \X Gauges \X Generations :
        value[i] \in (0 - Cardinality(Workers))..Cardinality(Workers)
  BY <1>1, <1>2
<1>4. QED
  BY <1>3 DEF WorkInv, WorkType

(* What is exported, from the registry and the structs. *)
LEMMA MetricsExported ==
    ASSUME SwitchInv, WorkInv
    PROVE  MetricsInv
<1>1. \A m \in registry :
        /\ m \in Metrics(m.family, m.generation)
        /\ m.family \in FamilyNames /\ m.generation = current[m.family]
  BY MetricsFacts DEF SwitchInv, RegistryInv
<1>2. TypeOK
  <2>1. struct \in [Switchers -> DOMAIN Families]
    BY FamilyFacts DEF SwitchInv, SwitchType
  <2>2. panicked \in BOOLEAN
    BY Zenon DEF SwitchInv
  <2>3. disturbed \in BOOLEAN
    BY Zenon DEF WorkInv, WorkType
  <2>4. /\ family \in [Workers -> WorkerFamilies]
        /\ inside \in [Workers -> Stacks]
        /\ left \in [Workers -> Gauges \cup {"none"}]
        /\ bound \in [Workers -> [Gauges -> Generations \cup {-1}]]
    BY DEF WorkInv, WorkType
  <2>5. /\ current \in [FamilyNames -> Generations]
        /\ service \in [Generations -> Services]
        /\ pc \in [Switchers -> {"call", "lock", "unregister", "create", "done"}]
        /\ mutex \in Switchers \cup {"none"}
        /\ made \in Generations
        /\ mine \in [Switchers -> Generations]
    BY DEF SwitchInv, SwitchType
  <2>6. QED
    BY <1>1, <2>1, <2>2, <2>3, <2>4, <2>5, ValueRange, Zenon DEF TypeOK
<1>3. CurrentIsExported
  <2> SUFFICES ASSUME mutex = "none"
               PROVE  registry = UNION {Metrics(f, current[f]) : f \in FamilyNames}
    BY DEF CurrentIsExported
  <2>1. Removed = {}
    BY RemovedFacts DEF SwitchInv
  <2>2. QED
    BY <2>1 DEF SwitchInv, RegistryInv
<1>4. ExportedIsCount
  <2> SUFFICES ASSUME ~disturbed, NEW m \in registry, m.name \in Gauges
               PROVE  value[<<m.family, m.name, m.generation>>] = Count(m.family, m.name)
    BY DEF ExportedIsCount
  <2>1. m.family \in WorkerFamilies
    <3>1. m.name \in Opts[m.family] /\ m.family \in FamilyNames
      BY <1>1 DEF Metrics
    <3>2. /\ TaskQueueOpts \cap Gauges = {} /\ SchedulerOpts \cap Gauges = {}
      BY DEF TaskQueueOpts, SchedulerOpts, Gauges
    <3>3. Opts["task"] = TaskQueueOpts /\ Opts["scheduler"] = SchedulerOpts
      BY DEF Opts
    <3>4. FamilyNames = {"task", "scheduler", "task_worker", "schedule_worker"}
      <4>1. /\ Families[1] = "task" /\ Families[2] = "scheduler"
            /\ Families[3] = "task_worker" /\ Families[4] = "schedule_worker"
        BY DEF Families
      <4>2. DOMAIN Families = {1, 2, 3, 4}
        BY FamilyFacts
      <4>3. QED
        BY <4>1, <4>2 DEF FamilyNames
    <3>5. QED
      BY <3>1, <3>2, <3>3, <3>4 DEF WorkerFamilies
  <2>2. QED
    BY <1>1, <2>1 DEF WorkInv, UndisturbedInv
<1>5. QED
  BY <1>2, <1>3, <1>4 DEF MetricsInv, NeverPanics, SwitchInv, WorkInv

(* SwitchMetricsServiceName and the workers, for every number of both:     *)
(* promauto never meets a metric twice, the registry exports what the      *)
(* structs hold, a gauge counts the workers inside over all generations,   *)
(* and the exported one does as long as no switch came while a worker was  *)
(* at work.                                                                *)
THEOREM MetricsSafe == Spec => []MetricsInv
<1>1. Init => SwitchInv /\ WorkInv
  BY SwitchInit, WorkInit
<1>2. SwitchInv /\ WorkInv /\ [Next]_vars => SwitchInv' /\ WorkInv'
  BY MetricsNext
<1>3. SwitchInv /\ WorkInv => MetricsInv
  BY MetricsExported
<1>4. QED
  BY <1>1, <1>2, <1>3, PTL DEF Spec
=============================================================================
