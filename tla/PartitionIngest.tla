--------------------------- MODULE PartitionIngest ---------------------------
(***************************************************************************)
(* PartitionAggregator fed with what Edges really write to one partition   *)
(* of the edge-aggregates topic.                                           *)
(*                                                                         *)
(* An Edge (cmd/edge/aggregation.go) closes one tumbling window after the  *)
(* other: an event of a later window closes the current one and certifies  *)
(* everything up to the new window, which then becomes the current one and *)
(* is never empty; the end of the replay closes the last window, certified *)
(* up to its own end, and is followed by the Edge's end-of-input.  Its     *)
(* Kafka writer retries a batch whose acknowledgement it missed, so the    *)
(* log may repeat what the Edge wrote; the end-of-input is written once    *)
(* the last batch is acknowledged, so nothing but itself follows it.  An   *)
(* Edge that fails writes no end-of-input.                                 *)
(***************************************************************************)
EXTENDS PartitionAggregator, Sequences

VARIABLES
    written,   \* the records of each Edge in the log, in order
    dropped    \* history: what was lost as late

ingestVars == <<vars, written, dropped>>

WrittenBy(e) == {written[e][k] : k \in DOMAIN written[e]}

\* The progress certified by what the Edge wrote, 0 before its first record.
Certified(e) ==
    IF written[e] = <<>> THEN 0 ELSE written[e][Len(written[e])].through

\* i is the next record its Edge closes.
Follows(e, i) ==
    /\ i.edge = e
    /\ WellFormed(i) /\ Aligned(i)
    /\ Certified(e) # 0 => i.start = Certified(e)

\* The last window of an Edge is certified up to its own end.
MayEnd(e) ==
    written[e] # <<>> => Certified(e) = written[e][Len(written[e])].end

-----------------------------------------------------------------------------
IngestInit ==
    /\ Init
    /\ written = [e \in Edge |-> <<>>]
    /\ dropped = {}

Start == Initialize /\ UNCHANGED <<written, dropped>>

\* A record of e reaches the aggregator for the first time.
Deliver(e) ==
    /\ e \notin edgeEnded
    /\ \E i \in Input :
          /\ Follows(e, i)
          /\ Add(i)
          /\ written' = [written EXCEPT ![e] = Append(@, i)]
          /\ dropped' = dropped \cup {r.input : r \in late'}

\* A record of e comes again.
Redeliver(e) ==
    /\ e \notin edgeEnded
    /\ \E i \in WrittenBy(e) : Add(i)
    /\ UNCHANGED <<written, dropped>>

EndInput(e) ==
    /\ e \notin edgeEnded => MayEnd(e)
    /\ EndEdge(e)
    /\ UNCHANGED <<written, dropped>>

IngestNext ==
    \/ Start
    \/ \E e \in Edge : Deliver(e) \/ Redeliver(e) \/ EndInput(e)

IngestSpec == IngestInit /\ [][IngestNext]_ingestVars

\* Every Edge reaches the end of its replay and the worker keeps reading.
FairIngestSpec ==
    /\ IngestSpec
    /\ WF_ingestVars(Start)
    /\ \A e \in Edge :
          WF_ingestVars(Deliver(e) \/ (e \notin edgeEnded /\ EndInput(e)))

-----------------------------------------------------------------------------
(***************************************************************************)
(* The worker never stops on what the Edges of its partition write: none   *)
(* of Add's protocol errors (order, regressed progress, progress already   *)
(* certified, conflicting duplicate, record after the end) can be caused   *)
(* by interleaving, skew, late drops or redelivery.                        *)
(***************************************************************************)
NeverRejects == ~failed

(***************************************************************************)
(* What skew may cost: an aggregate is lost only when some Edge was        *)
(* MaxSkew past the end of its Cloud window.  An Edge within MaxSkew of    *)
(* the fastest one loses nothing.                                          *)
(***************************************************************************)
BoundedLoss ==
    \A i \in dropped :
        \E f \in Edge : CloudEnd(i) + MaxSkew <= edgeThrough[f]

(***************************************************************************)
(* Every record an Edge wrote is counted or lost, never both, and once the *)
(* partition ended the counted ones are all in partials.  The late reports *)
(* are the losses, as summarize-run.py takes them to be: the worker does   *)
(* report a counted record whose window it has forgotten, but only one     *)
(* that a retry repeats after its Edge wrote more.                         *)
(***************************************************************************)
EveryRecordAccounted ==
    /\ UNION {WrittenBy(e) : e \in Edge} = accepted \cup dropped
    /\ accepted \cap dropped = {}
    /\ \A r \in late : r.input \in accepted =>
          LET stream == written[r.input.edge] IN r.input # stream[Len(stream)]
    /\ ended => accepted = UNION {p.inputs : p \in partials}

(***************************************************************************)
(* What "conflicting Edge duplicate" (aggregator.go:103) says of two       *)
(* records with one id: they are the same aggregate, written differently.  *)
(* WINDOW_SIZE need only be positive (config.go:157).                      *)
(***************************************************************************)
IDsAreUnique ==
    \A e \in Edge : \A i, j \in WrittenBy(e) : SameID(i, j) => SameWindow(i, j)

(***************************************************************************)
(* The partition ends once its Edges do, however they interleave.          *)
(***************************************************************************)
PartitionEnds == <>ended
=============================================================================
