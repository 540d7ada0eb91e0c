------------------------ MODULE MCPartitionAggregator ------------------------
(***************************************************************************)
(* PartitionAggregator on an arbitrary log: two members and one stranger,  *)
(* two Cloud windows of two Edge windows each, records well formed or not, *)
(* in any order, repeated at will.                                         *)
(***************************************************************************)
EXTENDS PartitionAggregator, TLC

CONSTANTS e1, e2, stranger, LastTime

MCEdge == {e1, e2}
MCSender == {e1, e2, stranger}

Record(e, s, n, t) == [edge |-> e, start |-> s, end |-> s + n, through |-> t]

\* Edge windows of one unit with either no gap or a long gap after them (two
\* contents for one id), one as long as a Cloud window; then a window that is
\* not aligned, progress before the window's end, and a stranger.
MCInput ==
    UNION {{Record(e, s, 1, t) : s \in WindowSize .. LastTime - 1,
                                 t \in {LastTime, LastTime + 1}}
           \cup {Record(e, s, 1, s + 1) : s \in WindowSize .. LastTime - 1}
           \cup {Record(e, WindowSize, WindowSize, 2 * WindowSize),
                 Record(e, WindowSize + 1, WindowSize, LastTime),
                 Record(e, WindowSize + 1, 1, WindowSize)} : e \in MCEdge}
    \cup {Record(stranger, WindowSize, 1, WindowSize + 1)}

MCSymmetry == Permutations(MCEdge)
=============================================================================
