--------------------------- MODULE GlobalAggregator ---------------------------
(***************************************************************************)
(* The reduction of the partials of all source partitions into global      *)
(* windows (internal/globalaggregator/aggregator.go).  A partial           *)
(* contributes to the window it names; a watermark over the partitions     *)
(* that have not ended advances as in the Cloud Worker; a window is        *)
(* written to the sink when every partition contributed to it, ended,      *)
(* certified progress past it, or was left behind by the watermark.  The   *)
(* call that finds a window ready writes it, so a failing sink fails the   *)
(* call, and the process with it.                                          *)
(*                                                                         *)
(* The log is arbitrary here: any partial of Input, any number of times.   *)
(* GlobalIngest restricts it to what the Cloud Workers write.              *)
(*                                                                         *)
(* Times are naturals; 0 is Go's zero time.  A window lives in the code's  *)
(* map exactly as long as it has a contributor, so the map is represented  *)
(* by the set of the partials it holds, grouped by window.                 *)
(***************************************************************************)
EXTENDS Integers, FiniteSets

CONSTANTS
    Partition,   \* the source partitions, 0 .. count - 1 in the code
    Sender,      \* every partition a record may name, in range or not
    Input,       \* the partials the log may hold
    MaxSkew      \* maxPartitionWatermarkSkew

ASSUME ConstantsAssumption ==
    /\ Partition # {} /\ Partition \subseteq Sender
    /\ MaxSkew \in Nat \ {0}
    /\ \A i \in Input : /\ i.partition \in Sender
                        /\ i.start \in Nat /\ i.end \in Nat
                        /\ i.through \in Nat

VARIABLES
    through,          \* partitionState.through, 0 before the first partial
    ended,            \* the partitions whose EOS was processed
    last,             \* partitionState.last: empty, or the partial it points to
    windows,          \* the partials held by the open windows
    completeThrough,  \* the global watermark
    complete,         \* every partition ended and every window was written
    rejected,         \* a call returned a protocol error; the process stops
    sinkFailed,       \* a call returned the sink's error; the process stops
    late,             \* the late report of the last call: empty, or one
    sunk,             \* the windows the sink holds
    accepted          \* history: the partials added to a window

vars == <<through, ended, last, windows, completeThrough, complete, rejected,
          sinkFailed, late, sunk, accepted>>

LaterOf(s, t) == IF s >= t THEN s ELSE t

WellFormed(i) == i.start # 0 /\ i.end > i.start /\ i.through >= i.end

\* makeWindowKey, and the order of sortedOpenWindowKeys.
Key(i) == <<i.start, i.end>>
Keys(held) == {Key(i) : i \in held}
Before(j, k) == j[1] < k[1] \/ (j[1] = k[1] /\ j[2] < k[2])

Contributors(held, k) == {i \in held : Key(i) = k}

\* The id of a partial is made of its partition and its window.
SameID(i, j) == i.partition = j.partition /\ Key(i) = Key(j)

-----------------------------------------------------------------------------
\* Mutant of AdvanceWatermark: a partition not heard yet does not block it.
AdvanceUnblocked(thr, done) ==
    LET heard == {p \in Partition \ done : thr[p] # 0} IN
    \/ heard = {} /\ UNCHANGED completeThrough
    \/ \E minimum, maximum \in {thr[p] : p \in heard} :
          /\ \A p \in heard : minimum <= thr[p] /\ thr[p] <= maximum
          /\ completeThrough' =
                LaterOf(completeThrough, LaterOf(minimum, maximum - MaxSkew))

(***************************************************************************)
(* advanceWatermark: the new watermark, given the partitions' progress.    *)
(***************************************************************************)
AdvanceWatermark(thr, done) ==
    LET active == Partition \ done IN
    \/ (active = {} \/ \E p \in active : thr[p] = 0) /\ UNCHANGED completeThrough
    \/ /\ \A p \in active : thr[p] # 0
       /\ \E minimum, maximum \in {thr[p] : p \in active} :
             /\ \A p \in active : minimum <= thr[p] /\ thr[p] <= maximum
             /\ completeThrough' =
                   LaterOf(completeThrough, LaterOf(minimum, maximum - MaxSkew))

\* Mutant of Ready: progress up to the window's start is enough.
ReadyAtStart(k, held, thr, done, watermark) ==
    \A p \in Partition :
        \/ \E i \in Contributors(held, k) : i.partition = p
        \/ p \in done
        \/ watermark # 0 /\ watermark >= k[2]
        \/ thr[p] # 0 /\ thr[p] >= k[1]

\* emitReady's test of one window.
Ready(k, held, thr, done, watermark) ==
    \A p \in Partition :
        \/ \E i \in Contributors(held, k) : i.partition = p
        \/ p \in done
        \/ watermark # 0 /\ watermark >= k[2]
        \/ thr[p] # 0 /\ thr[p] >= k[2]

Result(held, k) ==
    [start |-> k[1], end |-> k[2], contributors |-> Contributors(held, k)]

\* Mutant of Write: a window that was written stays open.
WriteKeep(held, written, removed) ==
    /\ sunk' = sunk \cup {Result(held, k) : k \in written}
    /\ windows' = held

(***************************************************************************)
(* emitReady: the ready windows go to the sink in order, and leave the map *)
(* one by one.  When the sink fails at one of them the rest stay, and that *)
(* one may have been written or not.                                       *)
(***************************************************************************)
Write(held, written, removed) ==
    /\ sunk' = sunk \cup {Result(held, k) : k \in written}
    /\ windows' = {i \in held : Key(i) \notin removed}

EmitReady(held, thr, done, watermark) ==
    LET ready == {k \in Keys(held) : Ready(k, held, thr, done, watermark)} IN
    \/ Write(held, ready, ready) /\ sinkFailed' = FALSE
    \/ /\ \E k \in ready :
            LET earlier == {j \in ready : Before(j, k)} IN
            \E written \in {earlier, earlier \cup {k}} :
                Write(held, written, earlier)
       /\ sinkFailed' = TRUE

-----------------------------------------------------------------------------
(***************************************************************************)
(* AddWithResult, in the order of the code's checks.  An error ends the    *)
(* process, and so does completion.                                        *)
(***************************************************************************)
Running == ~rejected /\ ~sinkFailed /\ ~complete

Reject ==
    /\ rejected' = TRUE
    /\ late' = {}
    /\ UNCHANGED <<through, ended, last, windows, completeThrough, complete,
                   sinkFailed, sunk, accepted>>

\* Mutant of Known: the partition's last partial is not compared.
KnownOpen(i) == {j \in windows : SameID(i, j)}

\* The records with the id of i that the aggregator still remembers.
Known(i) == {j \in windows \cup last[i.partition] : SameID(i, j)}

\* Mutant of IsLate: a window that ends at the watermark is still open.
IsLateAfter(i) == completeThrough # 0 /\ i.end < completeThrough

IsLate(i) == completeThrough # 0 /\ i.end <= completeThrough

BeforeLast(i) == \E l \in last[i.partition] : i.start < l.end

\* Mutant of Overlaps: adjacent windows overlap.
OverlapsOrTouches(i) ==
    \E j \in windows : Key(j) # Key(i) /\ i.start <= j.end /\ j.start <= i.end

Overlaps(i) ==
    \E j \in windows : Key(j) # Key(i) /\ i.start < j.end /\ j.start < i.end

InOrder(i) ==
    /\ through[i.partition] # 0 => i.end > through[i.partition]
    /\ i.through >= through[i.partition]
    /\ ~BeforeLast(i)
    /\ ~Overlaps(i)

Admissible(i) == WellFormed(i) /\ i.partition \in Partition

Open(i) == i.partition \notin ended

AddRejected(i) ==
    /\ Running
    /\ Admissible(i) =>
          IF Known(i) # {}
          THEN Known(i) # {i}
          ELSE Open(i) => IF IsLate(i) THEN i.through < through[i.partition]
                                       ELSE ~InOrder(i)
    /\ Reject

AddDuplicate(i) ==
    /\ Running
    /\ Admissible(i)
    /\ Known(i) = {i}
    /\ EmitReady(windows, through, ended, completeThrough)
    /\ late' = {}
    /\ UNCHANGED <<through, ended, last, completeThrough, complete, rejected,
                   accepted>>

\* Mutant of AddLate: the windows that became ready are not written.
AddLateUnemitted(i) ==
    /\ Running
    /\ Admissible(i)
    /\ Known(i) = {}
    /\ Open(i)
    /\ IsLate(i)
    /\ i.through >= through[i.partition]
    /\ through' = [through EXCEPT ![i.partition] = LaterOf(@, i.through)]
    /\ last' = IF BeforeLast(i) THEN last ELSE [last EXCEPT ![i.partition] = {i}]
    /\ AdvanceWatermark(through', ended)
    /\ late' = {[input |-> i, watermark |-> completeThrough']}
    /\ UNCHANGED <<ended, complete, rejected, sinkFailed, windows, sunk, accepted>>

AddLate(i) ==
    /\ Running
    /\ Admissible(i)
    /\ Known(i) = {}
    /\ Open(i)
    /\ IsLate(i)
    /\ i.through >= through[i.partition]
    /\ through' = [through EXCEPT ![i.partition] = LaterOf(@, i.through)]
    /\ last' = IF BeforeLast(i) THEN last ELSE [last EXCEPT ![i.partition] = {i}]
    /\ AdvanceWatermark(through', ended)
    /\ EmitReady(windows, through', ended, completeThrough')
    /\ late' = IF sinkFailed' THEN {}
               ELSE {[input |-> i, watermark |-> completeThrough']}
    /\ UNCHANGED <<ended, complete, rejected, accepted>>

AddOnTime(i) ==
    /\ Running
    /\ Admissible(i)
    /\ Known(i) = {}
    /\ Open(i)
    /\ ~IsLate(i)
    /\ InOrder(i)
    /\ through' = [through EXCEPT ![i.partition] = LaterOf(@, i.through)]
    /\ last' = [last EXCEPT ![i.partition] = {i}]
    /\ accepted' = accepted \cup {i}
    /\ AdvanceWatermark(through', ended)
    /\ EmitReady(windows \cup {i}, through', ended, completeThrough')
    /\ late' = {}
    /\ UNCHANGED <<ended, complete, rejected>>

Add(i) == AddRejected(i) \/ AddDuplicate(i) \/ AddLate(i) \/ AddOnTime(i)

\* Mutants of EndPartition: any number is accepted as a partition, and the
\* partition is marked as ended only after the windows were written.
EndAnyPartition(p) ==
    /\ Running
    /\ ended' = ended \cup {p}
    /\ AdvanceWatermark(through, ended')
    /\ late' = {}
    /\ EmitReady(windows, through, ended', completeThrough')
    /\ complete' = (~sinkFailed' /\ ended' = Partition /\ windows' = {})
    /\ rejected' = (~sinkFailed' /\ ended' = Partition /\ windows' # {})
    /\ UNCHANGED <<through, last, accepted>>

EndPartitionMarkedLast(p) ==
    /\ Running
    /\ p \in Partition
    /\ AdvanceWatermark(through, ended)
    /\ late' = {}
    /\ EmitReady(windows, through, ended, completeThrough')
    /\ ended' = ended \cup {p}
    /\ complete' = (~sinkFailed' /\ ended' = Partition /\ windows' = {})
    /\ rejected' = (~sinkFailed' /\ ended' = Partition /\ windows' # {})
    /\ UNCHANGED <<through, last, accepted>>

(***************************************************************************)
(* EndPartition: idempotent, and the last one completes the run.           *)
(***************************************************************************)
EndPartition(p) ==
    /\ Running
    /\ p \in Partition
    /\ ended' = ended \cup {p}
    /\ AdvanceWatermark(through, ended')
    /\ late' = {}
    /\ EmitReady(windows, through, ended', completeThrough')
    /\ complete' = (~sinkFailed' /\ ended' = Partition /\ windows' = {})
    /\ rejected' = (~sinkFailed' /\ ended' = Partition /\ windows' # {})
    /\ UNCHANGED <<through, last, accepted>>

EndRejected(p) == Running /\ p \notin Partition /\ Reject

-----------------------------------------------------------------------------
\* NewWithMaxPartitionWatermarkSkew.
Init ==
    /\ through = [p \in Partition |-> 0]
    /\ ended = {}
    /\ last = [p \in Partition |-> {}]
    /\ windows = {}
    /\ completeThrough = 0
    /\ complete = FALSE
    /\ rejected = FALSE
    /\ sinkFailed = FALSE
    /\ late = {}
    /\ sunk = {}
    /\ accepted = {}

Next ==
    \/ \E i \in Input : Add(i)
    \/ \E p \in Sender : EndPartition(p) \/ EndRejected(p)

Spec == Init /\ [][Next]_vars

-----------------------------------------------------------------------------
Active == Partition \ ended

(***************************************************************************)
(* Type invariant of the aggregator's state and of its history.            *)
(***************************************************************************)
TypeOK ==
    /\ through \in [Partition -> Nat]
    /\ ended \subseteq Partition
    /\ last \in [Partition -> SUBSET Input]
    /\ windows \subseteq Input
    /\ completeThrough \in Nat
    /\ complete \in BOOLEAN /\ rejected \in BOOLEAN /\ sinkFailed \in BOOLEAN
    /\ \A l \in late : l.input \in Input /\ l.watermark \in Nat
    /\ \A r \in sunk : r \in [start : Nat, end : Nat, contributors : SUBSET Input]
    /\ accepted \subseteq Input

(***************************************************************************)
(* emitReady writes the windows in order and each one once, although it    *)
(* skips the windows that are not ready: whatever the log holds, an open   *)
(* window ends after every window in the sink, and no end is written       *)
(* twice.  Only the window at which the sink failed may be both written    *)
(* and open.                                                               *)
(***************************************************************************)
EmittedIsFinal ==
    \A r \in sunk :
       /\ \A i \in windows :
             \/ i.end > r.end
             \/ sinkFailed /\ Key(i) = <<r.start, r.end>>
       /\ \A q \in sunk : q.end = r.end => q = r

(***************************************************************************)
(* Conservation: every accepted partial is held by an open window or is    *)
(* part of exactly one result, and a partition counts at most once per     *)
(* window, whatever is redelivered.  A failing sink loses nothing of it.   *)
(***************************************************************************)
CountedOnce ==
    /\ accepted = windows \cup UNION {r.contributors : r \in sunk}
    /\ \A r \in sunk :
          /\ r.contributors \cap windows # {} => sinkFailed
          /\ \A q \in sunk : q # r => q.contributors \cap r.contributors = {}
    /\ \A i, j \in accepted : SameID(i, j) => i = j

(***************************************************************************)
(* No lost wake-up: after every call of a running aggregator, an open      *)
(* window still waits for an active partition that has not reached its     *)
(* end, and no partition is MaxSkew past it unless another is silent.  No  *)
(* window waits for a record that need not come.                           *)
(***************************************************************************)
OpenWindowsAwaited ==
    ~sinkFailed => \A i \in windows :
       /\ \E p \in Active : through[p] < i.end
       /\ \/ \E p \in Active : through[p] = 0
          \/ \A p \in Active : through[p] < i.end + MaxSkew

(***************************************************************************)
(* What a result without the contribution of an active partition rests     *)
(* on: that partition certified progress past the window, or another one   *)
(* is MaxSkew past it.                                                     *)
(***************************************************************************)
EmissionJustified ==
    \A r \in sunk : \A p \in Active :
       \/ \E i \in r.contributors : i.partition = p
       \/ through[p] >= r.end
       \/ \E q \in Partition : through[q] >= r.end + MaxSkew

(***************************************************************************)
(* Once every partition ended the run is decided: it is complete, with     *)
(* every accepted partial in the sink, unless the sink failed.             *)
(* EndPartition's "unresolved windows after all partition EOS" cannot be.  *)
(***************************************************************************)
CompletionDecided ==
    /\ ended = Partition => complete \/ sinkFailed
    /\ complete => /\ ended = Partition
                   /\ accepted = UNION {r.contributors : r \in sunk}

-----------------------------------------------------------------------------
(***************************************************************************)
(* The global reduction as a windowed reduction: what leaves for the sink  *)
(* leaves whole, once and in order, and completion leaves nothing behind.  *)
(* The window at which the sink failed counts as given out when the sink   *)
(* has it.                                                                 *)
(***************************************************************************)
Reduction == INSTANCE WindowedReduction WITH
    End     <- [i \in Input |-> i.end],
    held    <- windows \ UNION {r.contributors : r \in sunk},
    results <- {r.contributors : r \in sunk},
    over    <- complete

ImplementsReduction == Reduction!Spec
=============================================================================
