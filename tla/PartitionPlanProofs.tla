------------------------- MODULE PartitionPlanProofs -------------------------
(***************************************************************************)
(* Theorems about PartitionPlan, for every number of Edges and partitions  *)
(* and all weights: the loads are what was placed, and no plan is better   *)
(* by more than a factor of 4/3 - 1/(3 PartitionCount).                    *)
(*                                                                         *)
(* Sums are numbers of events, so all arithmetic on them is counting: two  *)
(* sets are compared by an injection from one into the other.              *)
(***************************************************************************)
EXTENDS PartitionPlan, FiniteSetTheorems, FunctionTheorems, TLAPS

Weights == weight \in [Edge -> 1 .. MaxWeight]

\* What is left weighs no more than what was placed.
HeaviestFirst ==
    \A d \in DOMAIN placed, e \in Unplaced : weight[e] <= weight[d]

\* No plan of all Edges has a heaviest partition much lighter than any here.
Balanced ==
    \A plan \in [Edge -> Partition], p \in Partition :
        3 * PartitionCount * load[p] <= (4 * PartitionCount - 1) * Heaviest(plan)

(***************************************************************************)
(* The inductive invariant.                                                *)
(***************************************************************************)
IInv ==
    /\ TypeOK
    /\ placed = [d \in DOMAIN placed |-> placed[d]]
    /\ status = "assigned" => Unplaced = {}
    /\ HeaviestFirst
    /\ Balanced

-----------------------------------------------------------------------------
(***************************************************************************)
(* Numbers and finite sets.                                                *)
(***************************************************************************)
LEMMA SmallModulo ==
    ASSUME NEW a \in Nat, NEW n \in Nat, a < n
    PROVE  a % n = a
OBVIOUS

\* A nonempty set of naturals below a bound has a greatest element.
LEMMA Greatest ==
    ASSUME NEW S \in SUBSET Nat, S # {}, NEW b \in Nat, \A x \in S : x <= b
    PROVE  \E m \in S : \A x \in S : x <= m
<1> DEFINE Less == {pair \in Nat \X Nat : pair[1] < pair[2]}
           U == {n \in Nat : \A x \in S : x <= n}
<1>0. IsWellFoundedOn(Less, Nat)
  BY NatLessThanWellFounded DEF OpToRel
<1>1. U \subseteq Nat /\ U # {}
  OBVIOUS
<1>2. PICK m \in U : \A n \in U : ~ (<<n, m>> \in Less)
  <2> HIDE DEF Less, U
  <2> QED
    BY <1>0, <1>1, WFMin
<1>3. m \in Nat /\ \A x \in S : x <= m
  BY <1>2
<1>4. ASSUME NEW n \in U PROVE m <= n
  <2>1. n \in Nat /\ ~ (<<n, m>> \in Less)
    BY <1>1, <1>2
  <2> QED
    BY <1>3, <2>1
<1>5. m \in S
  <2>1. SUFFICES ASSUME m \notin S PROVE FALSE
    OBVIOUS
  <2>2. \A x \in S : x \in Nat /\ x <= m - 1
    BY <1>3, <2>1
  <2>3. PICK x \in S : TRUE
    OBVIOUS
  <2>4. m - 1 \in Nat
    BY <1>3, <2>2, <2>3
  <2>5. m - 1 \in U
    BY <2>2, <2>4
  <2>6. m <= m - 1
    <3> HIDE DEF U
    <3> QED
      BY <1>4, <2>5
  <2> QED
    BY <1>3, <2>6
<1> QED
  BY <1>3, <1>5

\* Two sets of which one is mapped into the other one to one.
LEMMA Counted ==
    ASSUME NEW S, NEW T, IsFiniteSet(T), NEW f \in [S -> T],
           \A a, b \in S : f[a] = f[b] => a = b
    PROVE  IsFiniteSet(S) /\ Cardinality(S) <= Cardinality(T)
<1>1. f \in Injection(S, T)
  BY Fun_IsInj
<1> QED
  BY <1>1, FS_Injection

LEMMA Finiteness ==
    /\ IsFiniteSet(Edge) /\ IsFiniteSet(Partition)
    /\ Cardinality(Partition) = PartitionCount /\ PartitionCount \in Nat \ {0}
    /\ Edges \in Nat /\ MaxWeight \in Nat /\ MaxLoad \in Nat
<1>1. PartitionCount - 1 \in Int /\ ~ (0 > PartitionCount - 1)
  BY ConstantsAssumption
<1>2. /\ IsFiniteSet(0 .. PartitionCount - 1)
      /\ Cardinality(0 .. PartitionCount - 1)
            = IF 0 > PartitionCount - 1 THEN 0 ELSE (PartitionCount - 1) - 0 + 1
  BY <1>1, FS_Interval
<1>3. IsFiniteSet(1 .. Edges)
  BY ConstantsAssumption, FS_Interval
<1> QED
  BY <1>1, <1>2, <1>3, ConstantsAssumption DEF Edge, Partition

-----------------------------------------------------------------------------
(***************************************************************************)
(* Totals.                                                                 *)
(***************************************************************************)
LEMMA TotalType ==
    ASSUME NEW S \in SUBSET Edge
    PROVE  IsFiniteSet(S) /\ IsFiniteSet(Events(S)) /\ Total(S) \in Nat
<1>1. IsFiniteSet(S) /\ IsFiniteSet(1 .. MaxWeight)
  BY Finiteness, FS_Subset, FS_Interval
<1>2. IsFiniteSet(S \X (1 .. MaxWeight))
  BY <1>1, FS_Product
<1>3. Events(S) \in SUBSET (S \X (1 .. MaxWeight))
  BY DEF Events
<1>4. IsFiniteSet(Events(S))
  BY <1>2, <1>3, FS_Subset
<1> QED
  BY <1>1, <1>4, FS_CardinalityType DEF Total

LEMMA TotalUnion ==
    ASSUME NEW S \in SUBSET Edge, NEW T \in SUBSET Edge, S \cap T = {}
    PROVE  Total(S \cup T) = Total(S) + Total(T)
<1>1. Events(S \cup T) = Events(S) \cup Events(T)
  BY DEF Events
<1>2. Events(S) \cap Events(T) = {}
  BY DEF Events
<1>3. Cardinality(Events(S) \cup Events(T))
        = Cardinality(Events(S)) + Cardinality(Events(T))
            - Cardinality(Events(S) \cap Events(T))
  BY TotalType, FS_Union
<1>4. Cardinality(Events(S)) \in Nat /\ Cardinality(Events(T)) \in Nat
  BY TotalType DEF Total
<1>5. Cardinality(Events(S) \cap Events(T)) = 0
  <2>1. Cardinality({}) = 0
    BY FS_EmptySet
  <2> QED
    BY <1>2, <2>1, Zenon
<1>6. Cardinality(Events(S) \cup Events(T)) = Cardinality(Events(S)) + Cardinality(Events(T))
  BY <1>3, <1>4, <1>5
<1> QED
  BY <1>1, <1>6, Zenon DEF Total

LEMMA TotalEmpty == Total({}) = 0
<1>1. Events({}) = {}
  BY DEF Events
<1> QED
  BY <1>1, FS_EmptySet DEF Total

LEMMA TotalOne ==
    ASSUME Weights, NEW e \in Edge
    PROVE  Total({e}) = weight[e]
<1> DEFINE f == [n \in 1 .. weight[e] |-> <<e, n>>]
<1>1. weight[e] \in 1 .. MaxWeight /\ MaxWeight \in Nat
  BY Finiteness DEF Weights
<1>2. f \in [1 .. weight[e] -> Events({e})]
  BY <1>1 DEF Events
<1>3. \A m, n \in 1 .. weight[e] : f[m] = f[n] => m = n
  OBVIOUS
<1>4. \A v \in Events({e}) : \E n \in 1 .. weight[e] : f[n] = v
  <2>1. ASSUME NEW v \in Events({e})
        PROVE  v = <<e, v[2]>> /\ v[2] \in 1 .. weight[e]
    BY <1>1 DEF Events
  <2> QED
    BY <2>1
<1>5. f \in Bijection(1 .. weight[e], Events({e}))
  BY <1>2, <1>3, <1>4, Fun_IsBij
<1>6. ExistsBijection(1 .. weight[e], Events({e}))
  BY <1>5, Fun_ExistsBij
<1> QED
  BY <1>1, <1>6, FS_CountingElements DEF Total

LEMMA TotalSubset ==
    ASSUME NEW T \in SUBSET Edge, NEW S \in SUBSET T
    PROVE  Total(S) <= Total(T)
<1>1. Events(S) \in SUBSET Events(T)
  BY DEF Events
<1> QED
  BY <1>1, TotalType, FS_Subset DEF Total

\* One Edge more.
LEMMA TotalAdd ==
    ASSUME Weights, NEW S \in SUBSET Edge, NEW e \in Edge, e \notin S
    PROVE  Total(S \cup {e}) = Total(S) + weight[e]
BY TotalUnion, TotalOne

-----------------------------------------------------------------------------
(***************************************************************************)
(* Edges spread over the partitions.                                       *)
(***************************************************************************)
LEMMA OnType ==
    ASSUME NEW D \in SUBSET Edge, NEW f \in [D -> Partition], NEW p \in Partition
    PROVE  /\ On(f, p) \in SUBSET D /\ On(f, p) \in SUBSET Edge
           /\ \A d \in D : d \in On(f, p) <=> f[d] = p
BY DEF On

\* The events of a partition can be numbered.
LEMMA Numbering ==
    ASSUME NEW S \in SUBSET Edge
    PROVE  /\ \E g : g \in Bijection(1 .. Total(S), Events(S))
           /\ \E g : g \in Bijection(Events(S), 1 .. Total(S))
<1>1. ExistsBijection(1 .. Total(S), Events(S))
  BY TotalType, FS_CardinalityType DEF Total
<1>2. ExistsBijection(Events(S), 1 .. Total(S))
  BY <1>1, Fun_ExistsBijSymmetric
<1> QED
  BY <1>1, <1>2, Zenon DEF ExistsBijection

\* What every partition has at least, all have together.
LEMMA SpreadAtLeast ==
    ASSUME NEW D \in SUBSET Edge, NEW f \in [D -> Partition],
           NEW l \in Nat, \A p \in Partition : l <= Total(On(f, p))
    PROVE  PartitionCount * l <= Total(D)
<1> DEFINE b == [p \in Partition |->
                    CHOOSE g : g \in Bijection(1 .. Total(On(f, p)), Events(On(f, p)))]
           cells == Partition \X (1 .. l)
           h == [c \in cells |-> b[c[1]][c[2]]]
<1>1. ASSUME NEW p \in Partition
      PROVE  b[p] \in Bijection(1 .. Total(On(f, p)), Events(On(f, p)))
  BY OnType, Numbering
<1>2. ASSUME NEW p \in Partition
      PROVE  /\ \A n \in 1 .. l : b[p][n] \in Events(On(f, p))
             /\ \A m, n \in 1 .. l : b[p][m] = b[p][n] => m = n
  <2> HIDE DEF b
  <2>1. /\ b[p] \in [1 .. Total(On(f, p)) -> Events(On(f, p))]
        /\ \A m, n \in 1 .. Total(On(f, p)) : b[p][m] = b[p][n] => m = n
    BY <1>1 DEF Bijection, Injection, IsInjective
  <2>2. Total(On(f, p)) \in Nat
    BY OnType, TotalType
  <2>3. \A n \in 1 .. l : n \in 1 .. Total(On(f, p))
    BY <2>2
  <2> QED
    BY <2>1, <2>3
<1>3. ASSUME NEW p \in Partition, NEW v \in Events(On(f, p))
      PROVE  v \in Events(D) /\ f[v[1]] = p
  BY OnType DEF Events, On
<1>4. ASSUME NEW c \in cells
      PROVE  /\ c[1] \in Partition /\ c[2] \in 1 .. l /\ c = <<c[1], c[2]>>
             /\ h[c] = b[c[1]][c[2]]
  OBVIOUS
<1> HIDE DEF b
<1>5. ASSUME NEW c \in cells
      PROVE  h[c] \in Events(D) /\ f[h[c][1]] = c[1]
  BY <1>2, <1>3, <1>4
<1>6. h \in [cells -> Events(D)]
  BY <1>5
<1>7. ASSUME NEW c \in cells, NEW d \in cells, h[c] = h[d]
      PROVE  c = d
  <2>1. c[1] = d[1]
    BY <1>5, <1>7
  <2>2. b[c[1]][c[2]] = b[c[1]][d[2]]
    BY <1>4, <1>7, <2>1
  <2>3. c[2] = d[2]
    BY <1>2, <1>4, <2>2
  <2> QED
    BY <1>4, <2>1, <2>3
<1>8. Cardinality(cells) <= Cardinality(Events(D))
  <2> HIDE DEF h, cells
  <2> QED
    BY <1>6, <1>7, TotalType, Counted
<1>9. IsFiniteSet(1 .. l) /\ Cardinality(1 .. l) = l
  BY FS_Interval
<1>10. Cardinality(cells) = PartitionCount * l
  BY <1>9, Finiteness, FS_Product
<1> QED
  BY <1>8, <1>10 DEF Total

\* What no partition has more of, all together have no more of.
LEMMA SpreadAtMost ==
    ASSUME NEW D \in SUBSET Edge, NEW f \in [D -> Partition],
           NEW u \in Nat, \A p \in Partition : Total(On(f, p)) <= u
    PROVE  Total(D) <= PartitionCount * u
<1> DEFINE b == [p \in Partition |->
                    CHOOSE g : g \in Bijection(Events(On(f, p)), 1 .. Total(On(f, p)))]
           cells == Partition \X (1 .. u)
           h == [v \in Events(D) |-> <<f[v[1]], b[f[v[1]]][v]>>]
<1>1. ASSUME NEW p \in Partition
      PROVE  b[p] \in Bijection(Events(On(f, p)), 1 .. Total(On(f, p)))
  BY OnType, Numbering
<1>2. ASSUME NEW p \in Partition
      PROVE  /\ \A v \in Events(On(f, p)) : b[p][v] \in 1 .. u
             /\ \A v, w \in Events(On(f, p)) : b[p][v] = b[p][w] => v = w
  <2> HIDE DEF b
  <2>1. /\ b[p] \in [Events(On(f, p)) -> 1 .. Total(On(f, p))]
        /\ \A v, w \in Events(On(f, p)) : b[p][v] = b[p][w] => v = w
    BY <1>1 DEF Bijection, Injection, IsInjective
  <2>2. Total(On(f, p)) \in Nat
    BY OnType, TotalType
  <2>3. \A n \in 1 .. Total(On(f, p)) : n \in 1 .. u
    BY <2>2
  <2> QED
    BY <2>1, <2>3
<1>3. ASSUME NEW v \in Events(D)
      PROVE  f[v[1]] \in Partition /\ v \in Events(On(f, f[v[1]]))
  BY DEF Events, On
<1> HIDE DEF b
<1>4. ASSUME NEW v \in Events(D)
      PROVE  h[v] \in cells /\ h[v][1] = f[v[1]] /\ h[v][2] = b[f[v[1]]][v]
  BY <1>2, <1>3
<1>5. h \in [Events(D) -> cells]
  BY <1>4
<1>6. ASSUME NEW v \in Events(D), NEW w \in Events(D), h[v] = h[w]
      PROVE  v = w
  <2>1. f[v[1]] = f[w[1]] /\ b[f[v[1]]][v] = b[f[v[1]]][w]
    BY <1>4, <1>6
  <2>2. w \in Events(On(f, f[v[1]]))
    BY <1>3, <2>1
  <2> QED
    BY <1>2, <1>3, <2>1, <2>2
<1>7. IsFiniteSet(1 .. u) /\ Cardinality(1 .. u) = u
  BY FS_Interval
<1>8. IsFiniteSet(cells) /\ Cardinality(cells) = PartitionCount * u
  BY <1>7, Finiteness, FS_Product
<1>9. Cardinality(Events(D)) <= Cardinality(cells)
  <2> HIDE DEF h, cells
  <2> QED
    BY <1>5, <1>6, <1>8, Counted
<1> QED
  BY <1>8, <1>9 DEF Total

\* Heaviest(plan) is what it is called.
LEMMA HeaviestIsGreatest ==
    ASSUME NEW plan \in [Edge -> Partition]
    PROVE  /\ Heaviest(plan) \in Nat
           /\ \E p \in Partition : Heaviest(plan) = Total(On(plan, p))
           /\ \A p \in Partition : Total(On(plan, p)) <= Heaviest(plan)
<1> DEFINE totals == {Total(On(plan, p)) : p \in Partition}
<1>1. \A p \in Partition : On(plan, p) \in SUBSET Edge
  BY OnType
<1>2. \A p \in Partition :
         Total(On(plan, p)) \in Nat /\ Total(On(plan, p)) <= Total(Edge)
  BY <1>1, TotalType, TotalSubset
<1>3. totals \in SUBSET Nat /\ totals # {} /\ Total(Edge) \in Nat
  BY <1>2, TotalType, Finiteness DEF Partition
<1>4. \A x \in totals : x <= Total(Edge)
  BY <1>2
<1>5. \E m \in totals : \A x \in totals : x <= m
  <2> HIDE DEF totals
  <2> QED
    BY <1>3, <1>4, Greatest
<1>6. \E m \in totals : \A p \in Partition : Total(On(plan, p)) <= m
  BY <1>5
<1>7. /\ Heaviest(plan) \in totals
      /\ \A p \in Partition : Total(On(plan, p)) <= Heaviest(plan)
  BY <1>6 DEF Heaviest
<1> QED
  BY <1>2, <1>7

-----------------------------------------------------------------------------
(***************************************************************************)
(* The step: an Edge e comes to a partition with the least load l, after   *)
(* Edges D that weigh no less.  In no plan does every partition stay       *)
(* much below l + weight[e].                                               *)
(***************************************************************************)
Step(D, f, e, l, plan, o) ==
    /\ Weights /\ D \in SUBSET Edge /\ e \in Edge \ D
    /\ f \in [D -> Partition] /\ plan \in [Edge -> Partition]
    /\ l \in Nat /\ \A p \in Partition : l <= Total(On(f, p))
    /\ o \in Nat /\ \A p \in Partition : Total(On(plan, p)) <= o
    /\ \A d \in D : weight[e] <= weight[d]

\* All partitions together.
LEMMA TogetherAtMost ==
    ASSUME NEW D, NEW f, NEW e, NEW l, NEW plan, NEW o, Step(D, f, e, l, plan, o)
    PROVE  PartitionCount * l + weight[e] <= PartitionCount * o
<1>1. PartitionCount * l <= Total(D)
  BY SpreadAtLeast DEF Step
<1>2. Total(Edge) <= PartitionCount * o
  BY SpreadAtMost DEF Step
<1>3. Total(D \cup {e}) = Total(D) + weight[e]
  BY TotalAdd DEF Step
<1>4. Total(D \cup {e}) <= Total(Edge)
  BY TotalSubset DEF Step
<1>5. /\ Total(D) \in Nat /\ Total(Edge) \in Nat /\ weight[e] \in Nat
      /\ PartitionCount * l \in Nat /\ PartitionCount * o \in Nat
  BY TotalType, Finiteness DEF Step, Weights
<1> QED
  BY <1>1, <1>2, <1>3, <1>4, <1>5

\* Two or three Edges on one partition of a plan.
LEMMA Company ==
    ASSUME NEW D, NEW f, NEW e, NEW l, NEW plan, NEW o, Step(D, f, e, l, plan, o),
           NEW c \in Edge
    PROVE  /\ weight[c] \in Nat /\ weight[c] <= o
           /\ \A d \in Edge \ {c} : plan[d] = plan[c] => weight[c] + weight[d] <= o
           /\ \A b, d \in Edge \ {c} :
                 b # d /\ plan[b] = plan[c] /\ plan[d] = plan[c]
                    => weight[b] + weight[c] + weight[d] <= o
<1>1. /\ Weights /\ plan \in [Edge -> Partition] /\ o \in Nat
      /\ Total(On(plan, plan[c])) <= o /\ Total(On(plan, plan[c])) \in Nat
  BY OnType, TotalType DEF Step
<1>2. \A d \in Edge : weight[d] \in Nat
  BY <1>1, Finiteness DEF Weights
<1>3. ASSUME NEW S \in SUBSET Edge, \A d \in S : plan[d] = plan[c]
      PROVE  Total(S) <= o
  <2>1. S \in SUBSET On(plan, plan[c]) /\ On(plan, plan[c]) \in SUBSET Edge
    BY <1>1, <1>3, OnType
  <2>2. Total(S) <= Total(On(plan, plan[c])) /\ Total(S) \in Nat
    BY <2>1, TotalSubset, TotalType
  <2> QED
    BY <1>1, <2>2
<1>4. Total({c}) = weight[c]
  BY <1>1, TotalOne
<1>5. \A d \in Edge \ {c} : Total({c} \cup {d}) = weight[c] + weight[d]
  BY <1>1, <1>4, TotalAdd
<1>6. ASSUME NEW b \in Edge \ {c}, NEW d \in Edge \ {c}, b # d
      PROVE  Total(({c} \cup {b}) \cup {d}) = weight[c] + weight[b] + weight[d]
  <2>1. {c} \cup {b} \in SUBSET Edge /\ d \notin {c} \cup {b}
    BY <1>6
  <2> QED
    BY <1>1, <1>5, <2>1, TotalAdd
<1>7. weight[c] <= o
  BY <1>3, <1>4
<1>8. ASSUME NEW d \in Edge \ {c}, plan[d] = plan[c]
      PROVE  weight[c] + weight[d] <= o
  BY <1>3, <1>5, <1>8
<1>9. ASSUME NEW b \in Edge \ {c}, NEW d \in Edge \ {c},
             b # d, plan[b] = plan[c] /\ plan[d] = plan[c]
      PROVE  weight[b] + weight[c] + weight[d] <= o
  <2>1. Total(({c} \cup {b}) \cup {d}) <= o
    BY <1>3, <1>9
  <2>2. Total(({c} \cup {b}) \cup {d}) = weight[c] + weight[b] + weight[d]
    BY <1>6, <1>9
  <2>3. weight[b] \in Nat /\ weight[c] \in Nat /\ weight[d] \in Nat
    BY <1>2
  <2>4. weight[c] + weight[b] + weight[d] <= o
    BY <2>1, <2>2, Zenon
  <2> QED
    BY <2>3, <2>4
<1> QED
  BY <1>2, <1>7, <1>8, <1>9

\* If e weighs more than a third of what any partition of the plan holds, the
\* plan has at most two Edges on a partition, and one if that one is too big for
\* e; were every partition here above o - weight[e], it would hold as many.  A
\* token is a half of a partition: an Edge takes one, a big Edge both.
LEMMA CrowdedPartitions ==
    ASSUME NEW D, NEW f, NEW e, NEW l, NEW plan, NEW o, Step(D, f, e, l, plan, o),
           3 * weight[e] > o
    PROVE  l + weight[e] <= o
<1> DEFINE all == D \cup {e}
           big == {d \in D : weight[d] + weight[e] > o}
           halves == Partition \X {1, 2}
           tokens == {t \in all \X {1, 2} : t[1] \in big \/ t[2] = 1}
           others == tokens \ {<<e, 1>>}
<1>1. SUFFICES ASSUME l + weight[e] > o PROVE FALSE
  BY Finiteness DEF Step, Weights
<1>2. /\ D \in SUBSET Edge /\ e \in Edge /\ e \notin D /\ o \in Nat /\ l \in Nat
      /\ f \in [D -> Partition] /\ plan \in [Edge -> Partition]
      /\ \A d \in D : weight[e] <= weight[d]
      /\ all \in SUBSET Edge /\ big \in SUBSET D
  BY DEF Step
<1>3. \A d \in Edge : weight[d] \in Nat /\ weight[d] <= o
  BY Company
<1>4. \A d \in all : weight[e] <= weight[d]
  BY <1>2, <1>3
<1>5. ASSUME NEW c \in all, NEW d \in big, c # d
      PROVE  plan[c] # plan[d]
  <2>1. weight[c] + weight[d] > o
    BY <1>2, <1>3, <1>4
  <2> QED
    BY <1>2, <1>3, <1>5, <2>1, Company
<1>6. ASSUME NEW b \in all, NEW c \in all, NEW d \in all, b # c, c # d, b # d
      PROVE  ~ (plan[b] = plan[c] /\ plan[d] = plan[c])
  <2>1. weight[b] + weight[c] + weight[d] > o
    BY <1>2, <1>3, <1>4
  <2>2. b \in Edge \ {c} /\ d \in Edge \ {c} /\ c \in Edge
    BY <1>2, <1>6
  <2>3. plan[b] = plan[c] /\ plan[d] = plan[c] => weight[b] + weight[c] + weight[d] <= o
    BY <1>6, <2>2, Company
  <2> QED
    BY <1>2, <1>3, <2>1, <2>2, <2>3
<1>7. ASSUME NEW p \in Partition, On(f, p) \cap big = {}
      PROVE  \E c, d \in On(f, p) : c # d
  <2>1. SUFFICES ASSUME \A c, d \in On(f, p) : c = d PROVE FALSE
    OBVIOUS
  <2>2. l <= Total(On(f, p)) /\ Total(On(f, p)) \in Nat /\ On(f, p) \in SUBSET D
    BY <1>2, OnType, TotalType DEF Step
  <2>3. CASE On(f, p) = {}
    BY <1>1, <1>2, <1>3, <2>2, <2>3, TotalEmpty
  <2>4. CASE On(f, p) # {}
    <3>1. PICK d \in On(f, p) : On(f, p) = {d}
      BY <2>1, <2>4
    <3>2. Total(On(f, p)) = weight[d] /\ d \in D
      BY <1>2, <2>2, <3>1, TotalOne DEF Step
    <3>3. d \in big
      BY <1>1, <1>2, <1>3, <2>2, <3>2
    <3> QED
      BY <1>7, <3>1, <3>3
  <2> QED
    BY <2>3, <2>4
<1>8. IsFiniteSet(halves) /\ IsFiniteSet(tokens) /\ IsFiniteSet(others)
  <2>1. IsFiniteSet({1, 2})
    <3>1. {1, 2} = {1} \cup {2}
      OBVIOUS
    <3>2. IsFiniteSet({1} \cup {2})
      BY FS_Singleton, FS_AddElement
    <3> QED
      BY <3>1, <3>2, Zenon
  <2>2. IsFiniteSet(all)
    BY <1>2, TotalType
  <2>3. IsFiniteSet(all \X {1, 2}) /\ IsFiniteSet(halves)
    BY <2>1, <2>2, Finiteness, FS_Product
  <2>4. tokens \in SUBSET (all \X {1, 2}) /\ others \in SUBSET tokens
    OBVIOUS
  <2> HIDE DEF all, halves, tokens, others
  <2>5. IsFiniteSet(tokens)
    BY <2>3, <2>4, FS_Subset
  <2> QED
    BY <2>3, <2>4, <2>5, FS_Subset
\* Each half of a partition here to a token other than that of e.
<1>9. Cardinality(halves) <= Cardinality(others)
  <2> DEFINE one(p) == CHOOSE d \in On(f, p) :
                          /\ d \in big \/ On(f, p) \cap big = {}
                          /\ On(f, p) \cap big = {} => \E c \in On(f, p) : c # d
             two(p) == IF On(f, p) \cap big = {}
                         THEN CHOOSE d \in On(f, p) : d # one(p)
                         ELSE one(p)
             g == [h \in halves |-> IF h[2] = 1 THEN <<one(h[1]), 1>>
                                    ELSE IF On(f, h[1]) \cap big = {}
                                         THEN <<two(h[1]), 1>> ELSE <<one(h[1]), 2>>]
  <2>1. ASSUME NEW p \in Partition
        PROVE  /\ one(p) \in On(f, p)
               /\ one(p) \in big \/ On(f, p) \cap big = {}
               /\ On(f, p) \cap big = {} => \E c \in On(f, p) : c # one(p)
    <3>1. CASE On(f, p) \cap big = {}
      <4>1. PICK c, d \in On(f, p) : c # d
        BY <1>7, <3>1
      <4> QED
        BY <3>1, <4>1
    <3>2. CASE On(f, p) \cap big # {}
      BY <3>2
    <3> QED
      BY <3>1, <3>2
  <2>2. ASSUME NEW p \in Partition, On(f, p) \cap big = {}
        PROVE  two(p) \in On(f, p) /\ two(p) # one(p)
    <3> HIDE DEF one
    <3> QED
      BY <2>1, <2>2
  <2> HIDE DEF one, two
  <2>3. ASSUME NEW h \in halves
        PROVE  /\ h[1] \in Partition /\ h[2] \in {1, 2} /\ h = <<h[1], h[2]>>
               /\ g[h][1] \in On(f, h[1]) /\ g[h] \in others
               /\ On(f, h[1]) \cap big # {} => g[h][2] = h[2]
               /\ On(f, h[1]) \cap big = {} =>
                     g[h][1] = IF h[2] = 1 THEN one(h[1]) ELSE two(h[1])
    <3>1. h[1] \in Partition /\ h[2] \in {1, 2} /\ h = <<h[1], h[2]>>
      OBVIOUS
    <3>2. On(f, h[1]) \in SUBSET D
      BY <1>2, <3>1, OnType
    <3>3. CASE h[2] = 1
      <4>1. g[h] = <<one(h[1]), 1>>
        BY <3>3
      <4> QED
        BY <1>2, <2>1, <3>1, <3>2, <3>3, <4>1
    <3>4. CASE h[2] = 2 /\ On(f, h[1]) \cap big = {}
      <4>1. g[h] = <<two(h[1]), 1>>
        BY <3>4
      <4> QED
        BY <1>2, <2>2, <3>1, <3>2, <3>4, <4>1
    <3>5. CASE h[2] = 2 /\ On(f, h[1]) \cap big # {}
      <4>1. g[h] = <<one(h[1]), 2>>
        BY <3>5
      <4> QED
        BY <1>2, <2>1, <3>1, <3>2, <3>5, <4>1
    <3> QED
      BY <3>1, <3>3, <3>4, <3>5
  <2>4. g \in [halves -> others]
    BY <2>3
  <2>5. ASSUME NEW h \in halves, NEW k \in halves, g[h] = g[k]
        PROVE  h = k
    <3> HIDE DEF g, halves, others
    <3>1. h[1] = k[1]
      BY <1>2, <2>3, <2>5, OnType
    <3>2. h[2] = k[2]
      BY <2>2, <2>3, <2>5, <3>1
    <3> QED
      BY <2>3, <3>1, <3>2
  <2> HIDE DEF g, halves, others
  <2> QED
    BY <1>8, <2>4, <2>5, Counted
\* Each token to a half of a partition of the plan.
<1>10. Cardinality(tokens) <= Cardinality(halves)
  <2> DEFINE second(d) == \E c \in all : c < d /\ plan[c] = plan[d]
             g == [t \in tokens |->
                     <<plan[t[1]], IF t[1] \in big THEN t[2]
                                   ELSE IF second(t[1]) THEN 2 ELSE 1>>]
  <2>1. ASSUME NEW t \in tokens
        PROVE  /\ t[1] \in all /\ t[2] \in {1, 2} /\ t = <<t[1], t[2]>>
               /\ t[1] \in big \/ t[2] = 1
               /\ g[t] \in halves /\ g[t][1] = plan[t[1]]
               /\ t[1] \in big => g[t][2] = t[2]
               /\ t[1] \notin big => (g[t][2] = 2 <=> second(t[1]))
    <3> HIDE DEF second
    <3>1. t[1] \in all /\ t[2] \in {1, 2} /\ t = <<t[1], t[2]>>
          /\ (t[1] \in big \/ t[2] = 1)
      OBVIOUS
    <3>2. plan[t[1]] \in Partition
      BY <1>2, <3>1
    <3> QED
      BY <3>1, <3>2
  <2>2. g \in [tokens -> halves]
    BY <2>1
  <2>3. ASSUME NEW s \in tokens, NEW t \in tokens, g[s] = g[t]
        PROVE  s = t
    <3> HIDE DEF g, tokens, halves
    <3>1. plan[s[1]] = plan[t[1]]
      BY <2>1, <2>3
    <3>2. CASE s[1] = t[1]
      BY <2>1, <2>3, <3>2
    <3>3. CASE s[1] # t[1]
      <4> HIDE DEF all, big, second
      <4>1. s[1] \notin big /\ t[1] \notin big
        BY <1>5, <2>1, <3>1, <3>3
      <4>2. second(s[1]) <=> second(t[1])
        BY <2>1, <2>3, <4>1
      <4>3. s[1] \in Int /\ t[1] \in Int
        BY <1>2, <2>1 DEF Edge
      <4>4. CASE s[1] < t[1]
        <5>1. second(t[1])
          BY <2>1, <3>1, <4>4 DEF second
        <5>2. PICK c \in all : c < s[1] /\ plan[c] = plan[s[1]]
          BY <4>2, <5>1 DEF second
        <5>3. c \in Int
          BY <1>2 DEF Edge
        <5> QED
          BY <1>6, <2>1, <3>1, <4>3, <4>4, <5>2, <5>3
      <4>5. CASE t[1] < s[1]
        <5>1. second(s[1])
          BY <2>1, <3>1, <4>5 DEF second
        <5>2. PICK c \in all : c < t[1] /\ plan[c] = plan[t[1]]
          BY <4>2, <5>1 DEF second
        <5>3. c \in Int
          BY <1>2 DEF Edge
        <5> QED
          BY <1>6, <2>1, <3>1, <4>3, <4>5, <5>2, <5>3
      <4> QED
        BY <3>3, <4>3, <4>4, <4>5
    <3> QED
      BY <3>2, <3>3
  <2> HIDE DEF g, tokens, halves
  <2> QED
    BY <1>8, <2>2, <2>3, Counted
<1>11. <<e, 1>> \in tokens
  OBVIOUS
<1>12. Cardinality(others) = Cardinality(tokens) - 1
  BY <1>8, <1>11, FS_RemoveElement
<1>13. Cardinality(tokens) \in Nat /\ Cardinality(others) \in Nat /\ Cardinality(halves) \in Nat
  BY <1>8, FS_CardinalityType
<1> QED
  BY <1>9, <1>10, <1>12, <1>13

-----------------------------------------------------------------------------
(***************************************************************************)
(* The bound.                                                              *)
(***************************************************************************)
LEMMA LightArithmetic ==
    ASSUME NEW m \in Nat \ {0}, NEW l \in Nat, NEW w \in Nat, NEW o \in Nat,
           m * l + w <= m * o, 3 * w <= o
    PROVE  3 * m * (l + w) <= (4 * m - 1) * o
<1>1. (m - 1) * (3 * w) <= (m - 1) * o
  <2>1. m - 1 \in Nat /\ o - 3 * w \in Nat
    OBVIOUS
  <2>2. (m - 1) * (o - 3 * w) >= 0
    BY <2>1
  <2> QED
    BY <2>2
<1>2. 3 * m * (l + w) = 3 * (m * l) + 3 * (m * w)
  OBVIOUS
<1>3. (4 * m - 1) * o = 4 * (m * o) - o
  OBVIOUS
<1>4. (m - 1) * (3 * w) = 3 * (m * w) - 3 * w /\ (m - 1) * o = m * o - o
  OBVIOUS
<1>5. m * l \in Nat /\ m * w \in Nat /\ m * o \in Nat
  OBVIOUS
<1> QED
  BY <1>1, <1>2, <1>3, <1>4, <1>5

LEMMA HeavyArithmetic ==
    ASSUME NEW m \in Nat \ {0}, NEW l \in Nat, NEW w \in Nat, NEW o \in Nat, l + w <= o
    PROVE  3 * m * (l + w) <= (4 * m - 1) * o
<1>1. m * (o - (l + w)) >= 0
  OBVIOUS
<1>2. m * (l + w) <= m * o
  BY <1>1
<1>3. (m - 1) * o >= 0
  OBVIOUS
<1>4. m * o >= o
  BY <1>3
<1>5. 3 * m * (l + w) = 3 * (m * (l + w)) /\ (4 * m - 1) * o = 4 * (m * o) - o
  OBVIOUS
<1>6. m * (l + w) \in Nat /\ m * o \in Nat
  OBVIOUS
<1> QED
  BY <1>2, <1>4, <1>5, <1>6

LEMMA StepBound ==
    ASSUME NEW D, NEW f, NEW e, NEW l, NEW plan, NEW o, Step(D, f, e, l, plan, o)
    PROVE  3 * PartitionCount * (l + weight[e]) <= (4 * PartitionCount - 1) * o
<1>1. PartitionCount \in Nat \ {0} /\ l \in Nat /\ weight[e] \in Nat /\ o \in Nat
  BY Finiteness DEF Step, Weights
<1>2. CASE 3 * weight[e] <= o
  BY <1>1, <1>2, TogetherAtMost, LightArithmetic
<1>3. CASE 3 * weight[e] > o
  BY <1>1, <1>3, CrowdedPartitions, HeavyArithmetic
<1> QED
  BY <1>1, <1>2, <1>3

-----------------------------------------------------------------------------
(***************************************************************************)
(* The inductive invariant.                                                *)
(***************************************************************************)
LEMMA InitIInv == Init => IInv
<1> SUFFICES ASSUME Init PROVE IInv
  OBVIOUS
<1>1. DOMAIN placed = {}
  BY DEF Init
<1>2. \A p \in Partition : On(placed, p) = {}
  BY <1>1 DEF On
<1>3. \A p \in Partition : load[p] = 0 /\ load[p] = Total(On(placed, p))
  BY <1>2, TotalEmpty DEF Init
<1>4. TypeOK
  BY <1>1, <1>3, Finiteness DEF Init, TypeOK
<1>5. Balanced
  <2> SUFFICES ASSUME NEW plan \in [Edge -> Partition], NEW p \in Partition
               PROVE  3 * PartitionCount * load[p]
                         <= (4 * PartitionCount - 1) * Heaviest(plan)
    BY DEF Balanced
  <2>1. PartitionCount \in Nat \ {0} /\ Heaviest(plan) \in Nat
    BY Finiteness, HeaviestIsGreatest
  <2>2. 4 * PartitionCount - 1 \in Nat
    BY <2>1
  <2>3. 3 * PartitionCount * load[p] = 0
    BY <1>3, <2>1
  <2>4. (4 * PartitionCount - 1) * Heaviest(plan) \in Nat
    BY <2>1, <2>2
  <2> QED
    BY <2>3, <2>4
<1>6. placed = [d \in DOMAIN placed |-> placed[d]]
  BY DEF Init
<1>7. HeaviestFirst /\ (status = "assigned" => Unplaced = {})
  BY <1>1 DEF Init, HeaviestFirst
<1> QED
  BY <1>4, <1>5, <1>6, <1>7 DEF IInv

LEMMA PlaceFacts ==
    ASSUME IInv, NEW e \in Edge, NEW p \in Partition, Place(e, p)
    PROVE  /\ weight' = weight /\ status' = status /\ status = "placing"
           /\ e \in Edge \ DOMAIN placed /\ DOMAIN placed' = DOMAIN placed \cup {e}
           /\ placed' = [d \in DOMAIN placed' |-> placed'[d]]
           /\ placed'[e] = p /\ \A d \in DOMAIN placed : placed'[d] = placed[d]
           /\ load' \in [Partition -> 0 .. MaxLoad] /\ load'[p] = load[p] + weight[e]
           /\ \A q \in Partition \ {p} : load'[q] = load[q]
           /\ \A q \in Partition : load[p] <= load[q]
           /\ \A d \in Unplaced \ {e} : weight[d] <= weight[e]
<1>1. /\ weight \in [Edge -> 1 .. MaxWeight] /\ load \in [Partition -> 0 .. MaxLoad]
      /\ DOMAIN placed \subseteq Edge /\ MaxLoad \in Nat /\ MaxWeight \in Nat
  BY Finiteness DEF IInv, TypeOK
<1>2. /\ weight' = weight /\ status' = status /\ status = "placing"
      /\ NextEdge(e) /\ LeastLoaded(p) /\ load[p] <= MaxLoad - weight[e]
      /\ load' = [load EXCEPT ![p] = (load[p] + weight[e]) % (MaxLoad + 1)]
      /\ placed' = [d \in DOMAIN placed \cup {e} |-> IF d = e THEN p ELSE placed[d]]
  BY DEF Place, Fits
<1>3. e \in Edge \ DOMAIN placed
  BY <1>2 DEF NextEdge, Unplaced
<1>4. load[p] + weight[e] \in Nat /\ load[p] + weight[e] < MaxLoad + 1
  BY <1>1, <1>2
<1>5. (load[p] + weight[e]) % (MaxLoad + 1) = load[p] + weight[e]
  BY <1>1, <1>4, SmallModulo
<1>6. /\ load' \in [Partition -> 0 .. MaxLoad] /\ load'[p] = load[p] + weight[e]
      /\ \A q \in Partition \ {p} : load'[q] = load[q]
  BY <1>1, <1>2, <1>4, <1>5
<1>7. /\ DOMAIN placed' = DOMAIN placed \cup {e}
      /\ placed' = [d \in DOMAIN placed' |-> placed'[d]]
      /\ placed'[e] = p /\ \A d \in DOMAIN placed : placed'[d] = placed[d]
  BY <1>2, <1>3
<1>8. \A q \in Partition : load[p] <= load[q]
  BY <1>1, <1>2 DEF LeastLoaded
<1>9. \A d \in Unplaced \ {e} : weight[d] <= weight[e]
  BY <1>1, <1>2, <1>3 DEF NextEdge, Heavier, Unplaced
<1> QED
  BY <1>2, <1>3, <1>6, <1>7, <1>8, <1>9

LEMMA PlaceIInv ==
    ASSUME IInv, NEW e \in Edge, NEW p \in Partition, Place(e, p)
    PROVE  IInv'
<1>1. /\ weight \in [Edge -> 1 .. MaxWeight] /\ load \in [Partition -> 0 .. MaxLoad]
      /\ DOMAIN placed \subseteq Edge
      /\ \A d \in DOMAIN placed : placed[d] \in Partition
      /\ \A q \in Partition : load[q] = Total(On(placed, q))
      /\ placed = [d \in DOMAIN placed |-> placed[d]]
  BY DEF IInv, TypeOK
<1>2. Weights /\ MaxWeight \in Nat
  BY <1>1, Finiteness DEF Weights
<1>3. /\ weight' = weight /\ status' = status /\ status = "placing"
      /\ e \in Edge \ DOMAIN placed /\ DOMAIN placed' = DOMAIN placed \cup {e}
      /\ placed'[e] = p /\ \A d \in DOMAIN placed : placed'[d] = placed[d]
      /\ load' \in [Partition -> 0 .. MaxLoad] /\ load'[p] = load[p] + weight[e]
      /\ \A q \in Partition \ {p} : load'[q] = load[q]
      /\ \A q \in Partition : load[p] <= load[q]
  BY PlaceFacts
<1>4. placed' = [d \in DOMAIN placed' |-> placed'[d]]
  BY PlaceFacts
<1>5. \A q \in Partition : load'[q] = Total(On(placed, q)')
  <2>1. ASSUME NEW q \in Partition \ {p}
        PROVE  On(placed, q)' = On(placed, q)
    BY <1>3, <2>1 DEF On
  <2>2. On(placed, p)' = On(placed, p) \cup {e}
    BY <1>3 DEF On
  <2>3. On(placed, p) \in SUBSET Edge /\ e \notin On(placed, p)
    BY <1>1, <1>3 DEF On
  <2>4. Total(On(placed, p) \cup {e}) = Total(On(placed, p)) + weight[e]
    BY <1>2, <2>3, TotalAdd
  <2>5. load'[p] = Total(On(placed, p)')
    BY <1>1, <1>3, <2>2, <2>4
  <2>6. \A q \in Partition \ {p} : load'[q] = Total(On(placed, q)')
    BY <1>1, <1>3, <2>1
  <2> QED
    BY <2>5, <2>6
<1>6. TypeOK'
  BY <1>1, <1>3, <1>5 DEF TypeOK, IInv, Total, Events
<1>7. HeaviestFirst'
  <2>1. Unplaced' = Unplaced \ {e}
    BY <1>3 DEF Unplaced
  <2>2. \A d \in Unplaced \ {e} : weight[d] <= weight[e]
    BY PlaceFacts
  <2> QED
    BY <1>3, <2>1, <2>2 DEF IInv, HeaviestFirst
<1>8. Balanced'
  <2>1. ASSUME NEW plan \in [Edge -> Partition]
        PROVE  Heaviest(plan)' = Heaviest(plan)
    BY <1>3 DEF Heaviest, Total, Events, On
  <2>2. ASSUME NEW plan \in [Edge -> Partition]
        PROVE  3 * PartitionCount * (load[p] + weight[e])
                  <= (4 * PartitionCount - 1) * Heaviest(plan)
    <3>1. placed \in [DOMAIN placed -> Partition]
      BY <1>1
    <3>2. \A d \in DOMAIN placed : weight[e] <= weight[d]
      BY <1>3 DEF IInv, HeaviestFirst, Unplaced
    <3>3. load[p] \in Nat /\ \A q \in Partition : load[p] <= Total(On(placed, q))
      BY <1>1, <1>3
    <3>4. Step(DOMAIN placed, placed, e, load[p], plan, Heaviest(plan))
      BY <1>1, <1>2, <1>3, <2>2, <3>1, <3>2, <3>3, HeaviestIsGreatest DEF Step
    <3> QED
      BY <3>4, StepBound
  <2>3. ASSUME NEW plan \in [Edge -> Partition], NEW q \in Partition
        PROVE  3 * PartitionCount * load'[q]
                  <= (4 * PartitionCount - 1) * Heaviest(plan)
    BY <1>3, <2>2, <2>3 DEF IInv, Balanced
  <2> QED
    BY <2>1, <2>3 DEF Balanced
<1> QED
  BY <1>3, <1>4, <1>6, <1>7, <1>8 DEF IInv

\* Nothing of the plan changes.
LEMMA StatusIInv ==
    ASSUME IInv, UNCHANGED <<weight, load, placed>>,
           status' \in {"placing", "assigned", "overflow"},
           status' = "assigned" => Unplaced = {}
    PROVE  IInv'
<1>1. weight' = weight /\ load' = load /\ placed' = placed /\ Unplaced' = Unplaced
  BY DEF Unplaced
<1>2. TypeOK'
  BY <1>1 DEF IInv, TypeOK, Total, Events, On
<1>3. HeaviestFirst'
  BY <1>1 DEF IInv, HeaviestFirst
<1>4. Balanced'
  <2>1. ASSUME NEW plan \in [Edge -> Partition]
        PROVE  Heaviest(plan)' = Heaviest(plan)
    BY <1>1 DEF Heaviest, Total, Events, On
  <2> QED
    BY <1>1, <2>1 DEF IInv, Balanced
<1> QED
  BY <1>1, <1>2, <1>3, <1>4 DEF IInv

LEMMA NextIInv == IInv /\ [Next]_vars => IInv'
<1> SUFFICES ASSUME IInv, [Next]_vars PROVE IInv'
  OBVIOUS
<1>1. ASSUME NEW e \in Edge, NEW p \in Partition, Place(e, p)
      PROVE  IInv'
  BY <1>1, PlaceIInv
<1>2. ASSUME NEW e \in Edge, NEW p \in Partition, Overflow(e, p)
      PROVE  IInv'
  BY <1>2, StatusIInv DEF Overflow
<1>3. CASE Finish
  BY <1>3, StatusIInv DEF Finish
<1>4. CASE UNCHANGED vars
  BY <1>4, StatusIInv DEF vars, IInv, TypeOK
<1> QED
  BY <1>1, <1>2, <1>3, <1>4 DEF Next, Returned

THEOREM Invariance == Spec => []IInv
<1>1. Init => IInv
  BY InitIInv
<1>2. IInv /\ [Next]_vars => IInv'
  BY NextIInv
<1> QED
  BY <1>1, <1>2, PTL DEF Spec

(***************************************************************************)
(* The load the planner compares is what it placed on the partition, and   *)
(* its sums never wrap around, for any weights that fit in an unsigned     *)
(* integer.                                                                *)
(***************************************************************************)
THEOREM TypeCorrect == Spec => []TypeOK
<1>1. IInv => TypeOK
  BY DEF IInv
<1> QED
  BY <1>1, Invariance, PTL

(***************************************************************************)
(* Whatever the weights, the heaviest partition of the plan the planner    *)
(* returns weighs at most 4/3 - 1/(3 PartitionCount) of that of the best   *)
(* plan.                                                                   *)
(***************************************************************************)
THEOREM NearOptimality == Spec => []NearOptimal
<1>1. IInv => NearOptimal
  <2> SUFFICES ASSUME IInv, status = "assigned", NEW plan \in [Edge -> Partition]
               PROVE  3 * PartitionCount * Heaviest(placed)
                         <= (4 * PartitionCount - 1) * Heaviest(plan)
    BY DEF NearOptimal
  <2>1. DOMAIN placed = Edge
    BY DEF IInv, TypeOK, Unplaced
  <2>2. placed \in [Edge -> Partition]
    BY <2>1 DEF IInv, TypeOK
  <2>3. PICK p \in Partition : Heaviest(placed) = Total(On(placed, p))
    BY <2>2, HeaviestIsGreatest
  <2>4. Heaviest(placed) = load[p]
    BY <2>3 DEF IInv, TypeOK
  <2> QED
    BY <2>4 DEF IInv, Balanced
<1> QED
  BY <1>1, Invariance, PTL

=============================================================================
