-------------------------- MODULE MCPartitionIngest --------------------------
(***************************************************************************)
(* PartitionIngest with two Edges whose windows are half a Cloud window    *)
(* and event times that span three Cloud windows.                          *)
(***************************************************************************)
EXTENDS PartitionIngest, TLC

CONSTANTS e1, e2, LastTime

MCEdge == {e1, e2}

\* A record that certifies more than its window is followed by the window it
\* certifies up to, so that window exists.
MCInput ==
    UNION {{[edge |-> e, start |-> s, end |-> s + 1, through |-> t] :
            t \in {s + 1} \cup (s + 2 .. LastTime - 1)} :
           e \in MCEdge, s \in WindowSize .. LastTime - 1}

MCSymmetry == Permutations(MCEdge)
=============================================================================
