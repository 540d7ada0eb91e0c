---------------------------- MODULE MCCloudConsumer ----------------------------
(***************************************************************************)
(* CloudConsumer with two records in p1, the second an end of input that    *)
(* flushes two windows, one silent record in p2, and no Edges in p3.        *)
(***************************************************************************)
EXTENDS CloudConsumer, TLC

CONSTANTS w1, w2, p1, p2, p3

MCWorker == {w1, w2}
MCPartition == {p1, p2, p3}
MCOutputs == p1 :> <<1, 2>> @@ p2 :> <<0>> @@ p3 :> <<>>
MCEndOffsets == {1}

MCSymmetry == Permutations(MCWorker)
=============================================================================
