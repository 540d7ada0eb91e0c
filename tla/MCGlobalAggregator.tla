-------------------------- MODULE MCGlobalAggregator --------------------------
(***************************************************************************)
(* GlobalAggregator on an arbitrary log: two partitions and one out of     *)
(* range, three adjacent windows with several progress values each, a      *)
(* window that overlaps two of them and a malformed partial, in any order, *)
(* repeated at will.                                                       *)
(***************************************************************************)
EXTENDS GlobalAggregator, TLC

CONSTANTS p1, p2, stranger, LastTime

MCPartition == {p1, p2}
MCSender == {p1, p2, stranger}

Record(p, s, n, t) ==
    [partition |-> p, start |-> s, end |-> s + n, through |-> t]

MCInput ==
    UNION {{Record(p, s, 1, t) : s \in 1 .. LastTime - 1, t \in {LastTime}}
           \cup {Record(p, s, 1, s + 1) : s \in 1 .. LastTime - 1}
           \cup {Record(p, 1, 2, 3), Record(p, 2, 1, 2)} : p \in MCPartition}
    \cup {Record(stranger, 1, 1, 2)}

MCSymmetry == Permutations(MCPartition)
=============================================================================
