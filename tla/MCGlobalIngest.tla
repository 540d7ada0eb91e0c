---------------------------- MODULE MCGlobalIngest ----------------------------
(***************************************************************************)
(* GlobalIngest with two partitions, windows of one unit, and progress     *)
(* anywhere from the end of the window to LastTime.                        *)
(***************************************************************************)
EXTENDS GlobalIngest, TLC

CONSTANTS p1, p2, LastTime

MCPartition == {p1, p2}

MCInput ==
    UNION {{[partition |-> p, start |-> s, end |-> s + WindowSize, through |-> t] :
            t \in s + WindowSize .. LastTime} :
           p \in MCPartition, s \in 1 .. LastTime - WindowSize}

MCSymmetry == Permutations(MCPartition)
=============================================================================
