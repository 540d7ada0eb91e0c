--------------------------- MODULE MCGlobalConsumer ---------------------------
(***************************************************************************)
(* GlobalConsumer with two partitions, one of which may have two owners,   *)
(* windows of one unit, and progress that certifies the window alone or    *)
(* all of the replay up to LastTime.                                       *)
(***************************************************************************)
EXTENDS GlobalConsumer

CONSTANTS p1, p2, LastTime

MCPartition == {p1, p2}
MCUnstable == {p1}

MCInput ==
    UNION {{[partition |-> p, start |-> s, end |-> s + WindowSize, through |-> t] :
            t \in {s + WindowSize, LastTime}} :
           p \in MCPartition, s \in 1 .. LastTime - WindowSize}
=============================================================================
