----------------------------- MODULE GlobalIngest -----------------------------
(***************************************************************************)
(* The partition-aggregates topic as Cloud Workers really write it, read   *)
(* by the GlobalAggregator one record after another.                       *)
(*                                                                         *)
(* The partials of one source partition are aligned windows that leave in  *)
(* order and never fall behind the progress already certified              *)
(* (PartitionProofs!PartialsFollowInOrder).  The worker writes one         *)
(* message at a time and waits for its acknowledgement, so only the last   *)
(* one can be repeated by a retry; the partition's EOS is the last         *)
(* message.  A worker that fails writes no EOS.  The topic has one         *)
(* partition, so the Global Aggregator sees some interleaving of these     *)
(* streams.                                                                *)
(*                                                                         *)
(* A worker may lose an unstable partition before it committed an offset   *)
(* of it.  The next owner starts from the first record and writes the same *)
(* stream again, while the first one, until its heartbeat fails, may go on *)
(* writing (CloudConsumer).  The slower of the two copies the other.       *)
(***************************************************************************)
EXTENDS GlobalAggregator, Sequences

CONSTANTS
    WindowSize,
    Unstable     \* the partitions that may get a second owner

ASSUME IngestAssumption ==
    /\ WindowSize \in Nat \ {0}
    /\ Unstable \subseteq Partition

VARIABLES
    written,   \* the partials of each partition in the log, in order
    closed,    \* the partitions whose EOS is in the log
    copied,    \* how many partials of each partition were written twice
    dropped    \* history: the partials reported late

ingestVars == <<vars, written, closed, copied, dropped>>

LastWritten(p) == written[p][Len(written[p])]

Certified(p) == IF written[p] = <<>> THEN 0 ELSE LastWritten(p).through

\* i is a partial its partition may emit next.
Follows(i) ==
    /\ WellFormed(i)
    /\ i.start % WindowSize = 0 /\ i.end = i.start + WindowSize
    /\ i.end > Certified(i.partition)

-----------------------------------------------------------------------------
IngestInit ==
    /\ Init
    /\ written = [p \in Partition |-> <<>>]
    /\ closed = {}
    /\ copied = [p \in Partition |-> 0]
    /\ dropped = {}

\* A partial is processed; a late one is reported.
Receive(i) ==
    /\ Add(i)
    /\ dropped' = dropped \cup {l.input : l \in late'}

\* A partial arrives for the first time.
Deliver(i) ==
    /\ i.partition \in Partition \ closed
    /\ Follows(i)
    /\ Receive(i)
    /\ written' = [written EXCEPT ![i.partition] = Append(@, i)]
    /\ UNCHANGED <<closed, copied>>

\* The last partial of its partition comes again.
Redeliver(i) ==
    /\ i.partition \in Partition \ closed
    /\ written[i.partition] # <<>> /\ i = LastWritten(i.partition)
    /\ Receive(i)
    /\ UNCHANGED <<written, closed, copied>>

\* The slower of two owners of a partition writes what the other one wrote.
Copy(i) ==
    LET p == i.partition IN
    /\ p \in Unstable
    /\ copied[p] < Len(written[p])
    /\ i = written[p][copied[p] + 1]
    /\ Receive(i)
    /\ copied' = [copied EXCEPT ![p] = @ + 1]
    /\ UNCHANGED <<written, closed>>

\* The EOS of p comes, or comes again.
EndOfReplay(p) ==
    /\ EndPartition(p)
    /\ closed' = closed \cup {p}
    /\ UNCHANGED <<written, copied, dropped>>

IngestNext ==
    \/ \E i \in Input : Deliver(i) \/ Redeliver(i) \/ Copy(i)
    \/ \E p \in Partition : EndOfReplay(p)

IngestSpec == IngestInit /\ [][IngestNext]_ingestVars

-----------------------------------------------------------------------------
(***************************************************************************)
(* What window.go:100 ("includes the certified null contributions", said   *)
(* of ContributingPartitions, which is always the count of partitions) and *)
(* aggregator.go:208 ("progress certifies the partitions without           *)
(* contributions to the window") say of a result: a partition that did not *)
(* contribute ended or certified progress past the window.                 *)
(***************************************************************************)
ContributionsCertified ==
    \A r \in sunk : \A p \in Partition :
       \/ \E i \in r.contributors : i.partition = p
       \/ p \in ended
       \/ through[p] >= r.end
=============================================================================
