------------------------- MODULE PartitionAggregator -------------------------
(***************************************************************************)
(* The reduction a Cloud Worker runs for one source partition              *)
(* (internal/cloudworker/aggregator.go).  Every Edge of the partition's    *)
(* membership sends EdgeAggregates that carry the Edge's own progress; the *)
(* aggregator groups them in Cloud windows, keeps a watermark over the     *)
(* Edges that have not ended, and turns the windows the watermark passes   *)
(* into partials.  An Edge slower than the fastest one by more than        *)
(* MaxSkew no longer holds the watermark back, and what it sends for a     *)
(* window already emitted is dropped as late.                              *)
(*                                                                         *)
(* The log is arbitrary here: any record of Input may come at any time,    *)
(* any number of times.  PartitionIngest restricts it to what Edges write. *)
(*                                                                         *)
(* Times are naturals; 0 is Go's zero time.  A Cloud window lives in the   *)
(* code's map exactly as long as it holds an input, so the map is          *)
(* represented by the set of the inputs it holds, grouped by CloudStart.   *)
(***************************************************************************)
EXTENDS Integers, FiniteSets

CONSTANTS
    Edge,        \* the membership of this source partition
    Sender,      \* every id a record may name, members or not
    Input,       \* the EdgeAggregates the source partition may hold
    WindowSize,  \* length of a Cloud window
    MaxSkew,     \* maxEdgeWatermarkSkew
    Second       \* what an aggregate id resolves of a time

ASSUME ConstantsAssumption ==
    /\ Edge \subseteq Sender
    /\ WindowSize \in Nat \ {0}
    /\ MaxSkew \in Nat \ {0}
    /\ Second \in Nat \ {0}
    /\ \A i \in Input : /\ i.edge \in Sender
                        /\ i.start \in Nat /\ i.end \in Nat
                        /\ i.through \in Nat

VARIABLES
    edgeThrough,      \* edge.completeThrough, 0 before the first aggregate
    edgeEnded,        \* the Edges whose end-of-input was processed
    last,             \* edge.last: the empty set, or the aggregate it points to
    windows,          \* the inputs held by the open Cloud windows
    completeThrough,  \* the watermark of the partition
    ended,            \* the partition is over
    initialized,      \* Initialize was called
    failed,           \* a call returned an error; the worker stops
    partials,         \* history: the partials returned so far
    late,             \* Output.Late of the last call: empty, or one report
    accepted          \* history: the inputs added to a window

vars == <<edgeThrough, edgeEnded, last, windows, completeThrough, ended,
          initialized, failed, partials, late, accepted>>

(***************************************************************************)
(* The id of an aggregate is made of its Edge and its window, written in   *)
(* whole seconds (buildAggregateID), so windows of less than half a second *)
(* can share one.  Two records with one id and different contents are      *)
(* conflicting duplicates.                                                 *)
(***************************************************************************)
SameID(i, j) ==
    /\ i.edge = j.edge
    /\ i.start \div Second = j.start \div Second
    /\ i.end \div Second = j.end \div Second

SameWindow(i, j) == i.edge = j.edge /\ i.start = j.start /\ i.end = j.end

CloudStart(t) == t - (t % WindowSize)
CloudEnd(i) == CloudStart(i.start) + WindowSize

WellFormed(i) == i.start # 0 /\ i.end > i.start /\ i.through >= i.end

Aligned(i) ==
    LET size == i.end - i.start IN
    /\ WindowSize % size = 0
    /\ i.start % size = 0
    /\ i.through % size = 0
    /\ i.end <= CloudEnd(i)

LaterOf(s, t) == IF s >= t THEN s ELSE t

-----------------------------------------------------------------------------
Active(done) == Edge \ done

\* Mutant of Partials: every partial of a flush certifies the whole frontier.
PartialsCertifyAll(closing, frontier) ==
    {[start   |-> s,
      through |-> LaterOf(s + WindowSize, frontier),
      inputs  |-> {i \in closing : CloudStart(i.start) = s}] :
     s \in {CloudStart(i.start) : i \in closing}}

(***************************************************************************)
(* What flush builds out of the inputs of the windows it closes: one       *)
(* partial per window, and only the last one certifies the whole frontier. *)
(***************************************************************************)
Partials(closing, frontier) ==
    LET starts == {CloudStart(i.start) : i \in closing} IN
    {[start   |-> s,
      through |-> IF \A t \in starts : t <= s
                  THEN LaterOf(s + WindowSize, frontier)
                  ELSE s + WindowSize,
      inputs  |-> {i \in closing : CloudStart(i.start) = s}] : s \in starts}

\* The inputs of the windows that flush closes at a frontier.
Closing(held, frontier) == {i \in held : CloudEnd(i) <= frontier}

(***************************************************************************)
(* advance, given the Edges' progress, the ended Edges and the inputs held *)
(* as the call has left them.                                              *)
(***************************************************************************)
\* Mutant of AdvanceToEnd: the end does not flush.
AdvanceToEndUnflushed(held) ==
    /\ windows' = held
    /\ ended' = TRUE
    /\ UNCHANGED <<partials, completeThrough>>

AdvanceToEnd(held) ==
    /\ partials' = partials \cup Partials(held, 0)
    /\ windows' = {}
    /\ ended' = TRUE
    /\ UNCHANGED completeThrough

AdvanceBlocked(held) ==
    /\ windows' = held
    /\ UNCHANGED <<partials, completeThrough, ended>>

\* Mutant of AdvanceTo: the windows flushed are not deleted.
AdvanceToKeep(held, frontier) ==
    /\ partials' = partials \cup Partials(Closing(held, frontier), frontier)
    /\ windows' = held
    /\ completeThrough' = LaterOf(completeThrough, frontier)
    /\ UNCHANGED ended

AdvanceTo(held, frontier) ==
    /\ partials' = partials \cup Partials(Closing(held, frontier), frontier)
    /\ windows' = held \ Closing(held, frontier)
    /\ completeThrough' = LaterOf(completeThrough, frontier)
    /\ UNCHANGED ended

\* Mutant of Advance: an Edge not heard yet does not block the watermark.
AdvanceUnblocked(thr, done, held) ==
    LET heard == {e \in Active(done) : thr[e] # 0} IN
    \/ Active(done) = {} /\ AdvanceToEnd(held)
    \/ Active(done) # {} /\ heard = {} /\ AdvanceBlocked(held)
    \/ \E minimum, maximum \in {thr[e] : e \in heard} :
          /\ \A e \in heard : minimum <= thr[e] /\ thr[e] <= maximum
          /\ AdvanceTo(held, LaterOf(minimum, maximum - MaxSkew))

Advance(thr, done, held) ==
    \/ Active(done) = {} /\ AdvanceToEnd(held)
    \/ (\E e \in Active(done) : thr[e] = 0) /\ AdvanceBlocked(held)
    \/ /\ \A e \in Active(done) : thr[e] # 0
       /\ \E minimum, maximum \in {thr[e] : e \in Active(done)} :
             /\ \A e \in Active(done) : minimum <= thr[e] /\ thr[e] <= maximum
             /\ AdvanceTo(held, LaterOf(minimum, maximum - MaxSkew))

-----------------------------------------------------------------------------
(***************************************************************************)
(* Add, in the order of the code's checks.                                 *)
(***************************************************************************)
Running == initialized /\ ~failed

Fail ==
    /\ failed' = TRUE
    /\ late' = {}
    /\ UNCHANGED <<edgeThrough, edgeEnded, last, windows, completeThrough,
                   ended, initialized, partials, accepted>>

\* A call that changes nothing and returns an empty Output.
Ignore ==
    /\ late' = {}
    /\ UNCHANGED <<edgeThrough, edgeEnded, last, windows, completeThrough,
                   ended, initialized, failed, partials, accepted>>

Admissible(i) ==
    /\ WellFormed(i)
    /\ i.edge \in Edge \ edgeEnded
    /\ ~ended
    /\ Aligned(i)

\* Mutant of Known: the open windows are not searched.
KnownLast(i) == {j \in last[i.edge] : SameID(i, j)}

\* The records with the id of i that Add still remembers.
Known(i) == {j \in windows \cup last[i.edge] : SameID(i, j)}

\* i falls in a Cloud window the watermark has passed.
IsLate(i) == completeThrough # 0 /\ CloudEnd(i) <= completeThrough

\* i starts before the end of the last aggregate of its Edge.
BeforeLast(i) == \E l \in last[i.edge] : i.start < l.end

InOrder(i) ==
    /\ ~BeforeLast(i)
    /\ i.through >= edgeThrough[i.edge]
    /\ edgeThrough[i.edge] # 0 => i.end > edgeThrough[i.edge]

AddRejected(i) ==
    /\ Running
    /\ IF Admissible(i)
       THEN IF Known(i) = {} THEN ~IsLate(i) /\ ~InOrder(i)
                             ELSE Known(i) # {i}
       ELSE TRUE
    /\ Fail

AddDuplicate(i) ==
    /\ Running
    /\ Admissible(i)
    /\ Known(i) = {i}
    /\ Ignore

\* Mutant of AddLate: a late record does not advance the watermark.
AddLateUnadvanced(i) ==
    /\ Running
    /\ Admissible(i)
    /\ Known(i) = {}
    /\ IsLate(i)
    /\ edgeThrough' = [edgeThrough EXCEPT ![i.edge] = LaterOf(@, i.through)]
    /\ last' = IF BeforeLast(i) THEN last ELSE [last EXCEPT ![i.edge] = {i}]
    /\ late' = {[input |-> i, watermark |-> completeThrough]}
    /\ UNCHANGED <<edgeEnded, windows, completeThrough, ended, partials,
                   initialized, failed, accepted>>

AddLate(i) ==
    /\ Running
    /\ Admissible(i)
    /\ Known(i) = {}
    /\ IsLate(i)
    /\ edgeThrough' = [edgeThrough EXCEPT ![i.edge] = LaterOf(@, i.through)]
    /\ last' = IF BeforeLast(i) THEN last ELSE [last EXCEPT ![i.edge] = {i}]
    /\ Advance(edgeThrough', edgeEnded, windows)
    /\ late' = {[input |-> i, watermark |-> completeThrough']}
    /\ UNCHANGED <<edgeEnded, initialized, failed, accepted>>

AddOnTime(i) ==
    /\ Running
    /\ Admissible(i)
    /\ Known(i) = {}
    /\ ~IsLate(i)
    /\ InOrder(i)
    /\ edgeThrough' = [edgeThrough EXCEPT ![i.edge] = i.through]
    /\ last' = [last EXCEPT ![i.edge] = {i}]
    /\ accepted' = accepted \cup {i}
    /\ Advance(edgeThrough', edgeEnded, windows \cup {i})
    /\ late' = {}
    /\ UNCHANGED <<edgeEnded, initialized, failed>>

Add(i) == AddRejected(i) \/ AddDuplicate(i) \/ AddLate(i) \/ AddOnTime(i)

(***************************************************************************)
(* EndEdge.                                                                *)
(***************************************************************************)
EndEdgeRejected(e) ==
    /\ Running
    /\ e \notin edgeEnded
    /\ e \in Edge => ended
    /\ Fail

EndEdgeAgain(e) == Running /\ e \in edgeEnded /\ Ignore

\* Mutants of EndEdgeFirst: any sender may end, and the Edge is marked as
\* ended only after the watermark advanced.
EndEdgeOfAnyone(e) ==
    /\ Running
    /\ e \notin edgeEnded
    /\ ~ended
    /\ edgeEnded' = edgeEnded \cup {e}
    /\ Advance(edgeThrough, edgeEnded', windows)
    /\ late' = {}
    /\ UNCHANGED <<edgeThrough, last, initialized, failed, accepted>>

EndEdgeMarkedLast(e) ==
    /\ Running
    /\ e \in Edge \ edgeEnded
    /\ ~ended
    /\ Advance(edgeThrough, edgeEnded, windows)
    /\ edgeEnded' = edgeEnded \cup {e}
    /\ late' = {}
    /\ UNCHANGED <<edgeThrough, last, initialized, failed, accepted>>

EndEdgeFirst(e) ==
    /\ Running
    /\ e \in Edge \ edgeEnded
    /\ ~ended
    /\ edgeEnded' = edgeEnded \cup {e}
    /\ Advance(edgeThrough, edgeEnded', windows)
    /\ late' = {}
    /\ UNCHANGED <<edgeThrough, last, initialized, failed, accepted>>

EndEdge(e) == EndEdgeRejected(e) \/ EndEdgeAgain(e) \/ EndEdgeFirst(e)

-----------------------------------------------------------------------------
\* NewPartitionAggregator.
Init ==
    /\ edgeThrough = [e \in Edge |-> 0]
    /\ edgeEnded = {}
    /\ last = [e \in Edge |-> {}]
    /\ windows = {}
    /\ completeThrough = 0
    /\ ended = FALSE
    /\ initialized = FALSE
    /\ failed = FALSE
    /\ partials = {}
    /\ late = {}
    /\ accepted = {}

\* A partition without members ends at once.
Initialize ==
    /\ ~initialized
    /\ initialized' = TRUE
    /\ Advance(edgeThrough, edgeEnded, windows)
    /\ UNCHANGED <<edgeThrough, edgeEnded, last, failed, late, accepted>>

Next ==
    \/ Initialize
    \/ \E i \in Input : Add(i)
    \/ \E e \in Sender : EndEdge(e)

Spec == Init /\ [][Next]_vars

-----------------------------------------------------------------------------
Partial == [start : Int, through : Int, inputs : SUBSET Input]

(***************************************************************************)
(* Type invariant of the aggregator's state and of its history.            *)
(***************************************************************************)
TypeOK ==
    /\ edgeThrough \in [Edge -> Nat]
    /\ edgeEnded \subseteq Edge
    /\ last \in [Edge -> SUBSET Input]
    /\ windows \subseteq Input
    /\ completeThrough \in Nat
    /\ ended \in BOOLEAN /\ initialized \in BOOLEAN /\ failed \in BOOLEAN
    /\ \A p \in partials : p \in Partial
    /\ \A r \in late : r.input \in Input /\ r.watermark \in Nat
    /\ accepted \subseteq Input

(***************************************************************************)
(* The promise a partial carries in CompleteThrough, on which the Global   *)
(* Aggregator relies: once a partial is out, the partition never emits a   *)
(* window that ends at or before the progress it certified, whatever the   *)
(* Edges send, in whatever order; in particular no window is ever emitted  *)
(* twice, and partials leave in window order.                              *)
(***************************************************************************)
CertifiedIsFinal ==
    \A p \in partials :
       /\ \A i \in windows : CloudEnd(i) > p.through
       /\ \A q \in partials :
             /\ p.start < q.start => p.through < q.start + WindowSize
             /\ p.start = q.start => p = q

(***************************************************************************)
(* Conservation: every aggregate added to a window is either held by an    *)
(* open window or part of exactly one partial, never of both, and of two   *)
(* records of one Edge window at most one is ever counted; redelivery,     *)
(* late records and the final flush lose and double nothing.               *)
(***************************************************************************)
CountedOnce ==
    /\ accepted = windows \cup UNION {p.inputs : p \in partials}
    /\ \A p \in partials :
          /\ p.inputs \cap windows = {}
          /\ \A q \in partials : p # q => p.inputs \cap q.inputs = {}
    /\ \A i, j \in accepted : SameWindow(i, j) => i = j

(***************************************************************************)
(* While the partition runs and no active Edge is silent, the watermark    *)
(* has reached the slowest active Edge and trails the fastest one by at    *)
(* most MaxSkew: no call, whichever path it takes, leaves the watermark    *)
(* behind and windows waiting for a record that need not come.             *)
(***************************************************************************)
WatermarkKeepsUp ==
    (initialized /\ ~ended /\ \A e \in Active(edgeEnded) : edgeThrough[e] # 0)
    => /\ \E e \in Active(edgeEnded) : edgeThrough[e] <= completeThrough
       /\ \A e \in Active(edgeEnded) : edgeThrough[e] - MaxSkew <= completeThrough

(***************************************************************************)
(* The watermark never outruns what justifies it: it is not beyond the     *)
(* progress of an Edge still active unless some Edge reported progress     *)
(* MaxSkew past it.  This is what bounds the data a slow Edge can lose.    *)
(***************************************************************************)
WatermarkJustified ==
    ~ended => \A e \in Active(edgeEnded) :
                 \/ completeThrough <= edgeThrough[e]
                 \/ \E f \in Edge : completeThrough + MaxSkew <= edgeThrough[f]

(***************************************************************************)
(* The end of a partition is final and complete: it comes exactly when     *)
(* the last Edge of the membership ended, every window has been emitted,   *)
(* and nothing is accepted, emitted or reported late after it.             *)
(***************************************************************************)
EndStep ==
    /\ ended' <=> initialized' /\ edgeEnded' = Edge
    /\ ended' => windows' = {}
    /\ ended => late' = {} /\ UNCHANGED <<partials, accepted>>

EndIsFinal == [][EndStep]_vars

-----------------------------------------------------------------------------
(***************************************************************************)
(* The reduction of a source partition as a windowed reduction: Cloud      *)
(* windows are taken whole, once and in order, and none is held back at    *)
(* the end of the partition.                                               *)
(***************************************************************************)
Reduction == INSTANCE WindowedReduction WITH
    End     <- [i \in Input |-> CloudEnd(i)],
    held    <- windows,
    results <- {p.inputs : p \in partials},
    over    <- ended

ImplementsReduction == Reduction!Spec
=============================================================================
