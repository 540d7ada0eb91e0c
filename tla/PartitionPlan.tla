----------------------------- MODULE PartitionPlan -----------------------------
(***************************************************************************)
(* The placement of the Edges on the Kafka partitions                      *)
(* (assignEdgePartitions in cmd/deploygen/partition_plan.go): heaviest     *)
(* Edge first, each on the partition with the least load so far, ties      *)
(* broken by number.  One action is one turn of the loop.  The weights     *)
(* were read and found positive by loadEdgePartitionWeights; loads are     *)
(* unsigned integers of limited width.                                     *)
(***************************************************************************)
EXTENDS Integers, FiniteSets

CONSTANTS
    Edges,           \* number of Edges; an Edge is its EdgeNumber
    PartitionCount,  \* number of partitions
    MaxWeight,       \* bound: replay_event_count of an Edge
    MaxLoad          \* math.MaxUint64

ASSUME ConstantsAssumption ==
    /\ Edges \in Nat /\ PartitionCount \in Nat \ {0}
    /\ MaxWeight \in Nat /\ MaxLoad \in Nat
    /\ MaxWeight <= MaxLoad

VARIABLES
    weight,   \* the weight of each Edge
    load,     \* partitionLoads
    placed,   \* the Edges placed so far, with their KafkaPartition
    status    \* placing, or what assignEdgePartitions returned

vars == <<weight, load, placed, status>>

Edge == 1 .. Edges
Partition == 0 .. PartitionCount - 1

Unplaced == Edge \ DOMAIN placed

\* Mutant of Heavier: the lightest Edge first.
Lighter(e, f) == weight[e] < weight[f] \/ (weight[e] = weight[f] /\ e < f)

\* The order of the sort.
Heavier(e, f) == weight[e] > weight[f] \/ (weight[e] = weight[f] /\ e < f)

NextEdge(e) == e \in Unplaced /\ \A f \in Unplaced \ {e} : Heavier(e, f)

\* The first partition with the least load.
LeastLoaded(p) ==
    \A q \in Partition : load[p] < load[q] \/ (load[p] = load[q] /\ p <= q)

\* Mutant of Fits: the sum wraps around before it is compared.
FitsWrapped(p, w) == (load[p] + w) % (MaxLoad + 1) <= MaxLoad

Fits(p, w) == load[p] <= MaxLoad - w

-----------------------------------------------------------------------------
Place(e, p) ==
    /\ status = "placing"
    /\ NextEdge(e) /\ LeastLoaded(p)
    /\ Fits(p, weight[e])
    /\ load' = [load EXCEPT ![p] = (@ + weight[e]) % (MaxLoad + 1)]
    /\ placed' = [f \in DOMAIN placed \cup {e} |-> IF f = e THEN p ELSE placed[f]]
    /\ UNCHANGED <<weight, status>>

Overflow(e, p) ==
    /\ status = "placing"
    /\ NextEdge(e) /\ LeastLoaded(p)
    /\ ~Fits(p, weight[e])
    /\ status' = "overflow"
    /\ UNCHANGED <<weight, load, placed>>

Finish ==
    /\ status = "placing" /\ Unplaced = {}
    /\ status' = "assigned"
    /\ UNCHANGED <<weight, load, placed>>

Returned == status # "placing" /\ UNCHANGED vars

Init ==
    /\ weight \in [Edge -> 1 .. MaxWeight]
    /\ load = [p \in Partition |-> 0]
    /\ placed = [e \in {} |-> 0]
    /\ status = "placing"

Next ==
    \/ \E e \in Edge, p \in Partition : Place(e, p) \/ Overflow(e, p)
    \/ Finish
    \/ Returned

Spec == Init /\ [][Next]_vars

-----------------------------------------------------------------------------
\* The Edges of a plan on one partition.
On(plan, p) == {e \in DOMAIN plan : plan[e] = p}

\* A weight is a number of events: event n of an Edge is <<edge, n>>.
Events(edges) == {v \in edges \X (1 .. MaxWeight) : v[2] <= weight[v[1]]}

\* The sum of the weights.
Total(edges) == Cardinality(Events(edges))

(***************************************************************************)
(* Type invariant; the load of a partition is what was placed on it, and   *)
(* no addition has wrapped around.                                         *)
(***************************************************************************)
TypeOK ==
    /\ weight \in [Edge -> 1 .. MaxWeight]
    /\ load \in [Partition -> 0 .. MaxLoad]
    /\ DOMAIN placed \subseteq Edge /\ \A e \in DOMAIN placed : placed[e] \in Partition
    /\ status \in {"placing", "assigned", "overflow"}
    /\ \A p \in Partition : load[p] = Total(On(placed, p))

(***************************************************************************)
(* The plan against the best of all plans: the heaviest partition weighs   *)
(* at most 4/3 - 1/(3 PartitionCount) of what it would there.              *)
(***************************************************************************)
Heaviest(plan) ==
    CHOOSE m \in {Total(On(plan, p)) : p \in Partition} :
        \A p \in Partition : Total(On(plan, p)) <= m

NearOptimal ==
    status = "assigned" =>
        \A plan \in [Edge -> Partition] :
            3 * PartitionCount * Heaviest(placed)
                <= (4 * PartitionCount - 1) * Heaviest(plan)
=============================================================================
