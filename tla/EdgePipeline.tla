----------------------------- MODULE EdgePipeline -----------------------------
(***************************************************************************)
(* One Edge process (cmd/edge): the MQTT callback that fills the bounded   *)
(* ingress queue, the Edge loop that reduces telemetry to windows, the     *)
(* egress that batches aggregates for Kafka, and main, which waits for the *)
(* first of them to stop and drains the rest.                              *)
(*                                                                         *)
(* The output channel is unbuffered: the loop hands a record over only to  *)
(* an egress that is selecting.  A Kafka write that is retried may put its *)
(* batch twice in the log; one that fails may or may not have written it.  *)
(*                                                                         *)
(* The unit of time is the Edge window.  An event is its number and the    *)
(* start of its window; start 0 stands for telemetry that does not decode  *)
(* or validate.                                                            *)
(***************************************************************************)
EXTENDS Integers, Sequences, FiniteSets, SequencesExt

CONSTANTS
    Capacity,    \* IngressQueueCapacity
    BatchSize,   \* KafkaProducerBatchSize
    MaxEvents,   \* bound: telemetry messages received
    LastStart    \* bound: start of the last window

ASSUME ConstantsAssumption ==
    /\ Capacity \in Nat \ {0}
    /\ BatchSize \in Nat \ {0}
    /\ MaxEvents \in Nat /\ LastStart \in Nat

VARIABLES
    received,         \* telemetry messages the callback was called with
    accepted,         \* history: the events put in the ingress queue
    discarded,        \* history: the events found invalid or out of order
    records,          \* EdgeIngress.records, a channel of Capacity + 1 slots
    telemetryQueued,  \* EdgeIngress.telemetryQueued
    eosRegistered,    \* EdgeIngress.eosRegistered
    closed,           \* EdgeIngress.closed
    processor,        \* where the Edge loop is
    taken,            \* the event the loop received and has not yet processed
    current,          \* WindowAggregator.current: empty, or the open window
    outbox,           \* what the loop has still to hand to the egress
    eosProcessed,     \* stats.endOfReplayProcessed
    egress,           \* where KafkaEgress.Run is
    pending,          \* its batch
    log,              \* what the Edge wrote to its partition
    phase,            \* where main is
    startupFailed     \* connectEdgeMQTTClient returned an error

ingress == <<accepted, records, telemetryQueued, eosRegistered, closed>>
loop == <<processor, taken, current, outbox, eosProcessed, discarded>>
kafka == <<egress, pending, log>>
vars == <<received, ingress, loop, kafka, phase, startupFailed>>

EOS == [kind |-> "eos"]
EndOfInput == [kind |-> "endOfInput"]
Telemetry(n, s) == [kind |-> "telemetry", event |-> n, start |-> s]
Aggregate(s, through, events) ==
    [kind |-> "aggregate", start |-> s, end |-> s + 1, through |-> through,
     events |-> events]

ProcessorDone == processor \in {"returned", "failed"}
EgressDone == egress \in {"returned", "failed"}
Exited == phase \in {"exitedOK", "exitedWithError"}

-----------------------------------------------------------------------------
(***************************************************************************)
(* The MQTT callback.  It holds the ingress mutex while it sends.          *)
(***************************************************************************)
\* Mutant of HasRoom: the slot of the EOS is given to telemetry.
HasRoomNoReserve == telemetryQueued <= Capacity

HasRoom == telemetryQueued < Capacity

MaySend == Len(records) < Capacity + 1

Enqueue(s) ==
    /\ ~Exited /\ received < MaxEvents
    /\ ~closed /\ ~eosRegistered /\ HasRoom
    /\ MaySend
    /\ received' = received + 1
    /\ records' = Append(records, Telemetry(received', s))
    /\ telemetryQueued' = telemetryQueued + 1
    /\ accepted' = accepted \cup {received'}
    /\ UNCHANGED <<eosRegistered, closed, loop, kafka, phase, startupFailed>>

DropTelemetry ==
    /\ ~Exited /\ received < MaxEvents
    /\ closed \/ eosRegistered \/ ~HasRoom
    /\ received' = received + 1
    /\ UNCHANGED <<ingress, loop, kafka, phase, startupFailed>>

\* Mutant of RegisterEndOfReplay: the EOS takes a telemetry slot.
RegisterCounted ==
    /\ ~Exited /\ ~closed /\ ~eosRegistered
    /\ MaySend
    /\ records' = Append(records, EOS)
    /\ eosRegistered' = TRUE
    /\ telemetryQueued' = telemetryQueued + 1
    /\ UNCHANGED <<received, accepted, closed, loop, kafka, phase, startupFailed>>

\* A repeated EOS, or one after Close, changes nothing.
RegisterEndOfReplay ==
    /\ ~Exited /\ ~closed /\ ~eosRegistered
    /\ MaySend
    /\ records' = Append(records, EOS)
    /\ eosRegistered' = TRUE
    /\ UNCHANGED <<received, accepted, telemetryQueued, closed, loop, kafka,
                   phase, startupFailed>>

-----------------------------------------------------------------------------
(***************************************************************************)
(* The Edge loop.  Next receives without the mutex and gives the slot of a *)
(* telemetry record back afterwards.                                       *)
(***************************************************************************)
\* Flush: the aggregate of the open window, certified up to its own end.
Flushed(through) ==
    IF current = <<>> THEN <<>>
    ELSE <<Aggregate(Head(current).start, through, Head(current).events)>>

ReceiveTelemetry ==
    /\ processor = "next"
    /\ records # <<>> /\ Head(records) # EOS
    /\ taken' = <<Head(records)>>
    /\ records' = Tail(records)
    /\ processor' = "process"
    /\ UNCHANGED <<received, accepted, telemetryQueued, eosRegistered, closed,
                   current, outbox, eosProcessed, discarded, kafka, phase,
                   startupFailed>>

\* The payload does not decode or validate.
Invalid(s) == s = 0

\* The event belongs to a window that was already closed.
ClosedWindow(s) == current # <<>> /\ s < Head(current).start

Discard(n, s) ==
    /\ Invalid(s) \/ ClosedWindow(s)
    /\ discarded' = discarded \cup {n}
    /\ processor' = "next"
    /\ UNCHANGED <<current, outbox>>

\* addMeasurement: the event counts in its window, whatever its values are.
AddMeasurement(events, n) == events \cup {n}

SameWindow(n, s) ==
    /\ ~Invalid(s)
    /\ current # <<>> => s = Head(current).start
    /\ current' = <<[start |-> s,
                     events |-> AddMeasurement(UNION {w.events : w \in Range(current)}, n)]>>
    /\ processor' = "next"
    /\ UNCHANGED <<discarded, outbox>>

\* Mutant of LaterWindow: the aggregate certifies its own window only.
LaterWindowUncertified(n, s) ==
    /\ ~Invalid(s) /\ current # <<>>
    /\ ~ClosedWindow(s) /\ s # Head(current).start
    /\ outbox' = Flushed(Head(current).start + 1)
    /\ current' = <<[start |-> s, events |-> AddMeasurement({}, n)]>>
    /\ processor' = "emit"
    /\ UNCHANGED discarded

\* The event certifies the empty windows before its own.
LaterWindow(n, s) ==
    /\ ~Invalid(s) /\ current # <<>>
    /\ ~ClosedWindow(s) /\ s # Head(current).start
    /\ outbox' = Flushed(s)
    /\ current' = <<[start |-> s, events |-> AddMeasurement({}, n)]>>
    /\ processor' = "emit"
    /\ UNCHANGED discarded

ProcessTelemetry ==
    /\ processor = "process"
    /\ telemetryQueued' = telemetryQueued - 1
    /\ taken' = <<>>
    /\ LET n == Head(taken).event
           s == Head(taken).start IN
       Discard(n, s) \/ SameWindow(n, s) \/ LaterWindow(n, s)
    /\ UNCHANGED <<received, accepted, records, eosRegistered, closed,
                   eosProcessed, kafka, phase, startupFailed>>

LastOutput(rest) ==
    /\ outbox' = rest
    /\ current' = <<>>
    /\ processor' = IF rest = <<>> THEN "returned" ELSE "emitLast"

Own == IF current = <<>> THEN 0 ELSE Head(current).start + 1

ReceiveEndOfReplay ==
    /\ processor = "next"
    /\ records # <<>> /\ Head(records) = EOS
    /\ records' = Tail(records)
    /\ LastOutput(Append(Flushed(Own), EndOfInput))
    /\ UNCHANGED <<received, accepted, telemetryQueued, eosRegistered, closed,
                   taken, eosProcessed, discarded, kafka, phase, startupFailed>>

\* A closed channel still delivers what it holds.
ReceiveClosed ==
    /\ processor = "next"
    /\ records = <<>> /\ closed
    /\ LastOutput(Flushed(Own))
    /\ UNCHANGED <<received, ingress, taken, eosProcessed, discarded, kafka,
                   phase, startupFailed>>

AfterEmit ==
    IF Len(outbox) > 1 THEN processor
    ELSE IF processor = "emit" THEN "next" ELSE "returned"

\* Mutant of Emit: the end of input overtakes the pending batch.
EmitEndUnflushed ==
    /\ processor \in {"emit", "emitLast"}
    /\ egress = "select"
    /\ outbox' = Tail(outbox)
    /\ processor' = AfterEmit
    /\ IF Head(outbox) = EndOfInput
       THEN /\ egress' = "end"
            /\ eosProcessed' = TRUE
            /\ UNCHANGED pending
       ELSE /\ pending' = Append(pending, Head(outbox))
            /\ egress' = IF Len(pending') >= BatchSize THEN "flush" ELSE "select"
            /\ UNCHANGED eosProcessed
    /\ UNCHANGED <<received, ingress, taken, current, discarded, log, phase,
                   startupFailed>>

\* emitEdgeOutput: the egress takes the record ...
Emit ==
    /\ processor \in {"emit", "emitLast"}
    /\ egress = "select"
    /\ outbox' = Tail(outbox)
    /\ processor' = AfterEmit
    /\ IF Head(outbox) = EndOfInput
       THEN /\ egress' = "flushThenEnd"
            /\ eosProcessed' = TRUE
            /\ UNCHANGED pending
       ELSE /\ pending' = Append(pending, Head(outbox))
            /\ egress' = IF Len(pending') >= BatchSize THEN "flush" ELSE "select"
            /\ UNCHANGED eosProcessed
    /\ UNCHANGED <<received, ingress, taken, current, discarded, log, phase,
                   startupFailed>>

\* ... or has stopped, and the loop returns an error.
EmitFails ==
    /\ processor \in {"emit", "emitLast"}
    /\ EgressDone
    /\ processor' = "failed"
    /\ UNCHANGED <<received, ingress, taken, current, outbox, eosProcessed,
                   discarded, kafka, phase, startupFailed>>

-----------------------------------------------------------------------------
(***************************************************************************)
(* KafkaEgress.Run.                                                        *)
(***************************************************************************)
BatchTimeout ==
    /\ egress = "select"
    /\ BatchSize > 1 /\ pending # <<>>
    /\ egress' = "flush"
    /\ UNCHANGED <<received, ingress, loop, pending, log, phase, startupFailed>>

OutputClosed ==
    /\ egress = "select"
    /\ ProcessorDone
    /\ egress' = "flushThenReturn"
    /\ UNCHANGED <<received, ingress, loop, pending, log, phase, startupFailed>>

AfterFlush ==
    [flush |-> "select", flushThenEnd |-> "end", flushThenReturn |-> "returned"][egress]

\* WriteMessages: acknowledged, perhaps after a retry that repeated it ...
Written(batch) == log' \in {log \o batch, log \o batch \o batch}

\* ... or failed, written or not.
NotAcknowledged(batch) == log' \in {log, log \o batch}

FlushBatch ==
    /\ egress \in {"flush", "flushThenEnd", "flushThenReturn"}
    /\ IF pending = <<>> THEN UNCHANGED log ELSE Written(pending)
    /\ egress' = AfterFlush
    /\ pending' = <<>>
    /\ UNCHANGED <<received, ingress, loop, phase, startupFailed>>

FlushFails ==
    /\ egress \in {"flush", "flushThenEnd", "flushThenReturn"}
    /\ pending # <<>>
    /\ NotAcknowledged(pending)
    /\ egress' = "failed"
    /\ UNCHANGED <<received, ingress, loop, pending, phase, startupFailed>>

PublishEndOfInput ==
    /\ egress = "end"
    /\ \/ Written(<<EndOfInput>>) /\ egress' = "returned"
       \/ NotAcknowledged(<<EndOfInput>>) /\ egress' = "failed"
    /\ UNCHANGED <<received, ingress, loop, pending, phase, startupFailed>>

-----------------------------------------------------------------------------
(***************************************************************************)
(* main: waitForTermination wakes on a signal or on the first stage that   *)
(* ends; stopEdgeIngress closes the ingress; drain waits for both stages.  *)
(***************************************************************************)
StartupFails ==
    /\ phase = "starting"
    /\ phase' = "stopping"
    /\ startupFailed' = TRUE
    /\ UNCHANGED <<received, ingress, loop, kafka>>

Connected ==
    /\ phase = "starting"
    /\ phase' = "waiting"
    /\ UNCHANGED <<received, ingress, loop, kafka, startupFailed>>

Signal ==
    /\ phase = "waiting"
    /\ phase' = "stopping"
    /\ UNCHANGED <<received, ingress, loop, kafka, startupFailed>>

StageEnded ==
    /\ phase = "waiting"
    /\ ProcessorDone \/ EgressDone
    /\ phase' = "stopping"
    /\ UNCHANGED <<received, ingress, loop, kafka, startupFailed>>

\* Mutant of CloseIngress: main drains without closing the ingress.
LeaveIngressOpen ==
    /\ phase = "stopping"
    /\ phase' = "draining"
    /\ UNCHANGED <<received, ingress, loop, kafka, startupFailed>>

CloseIngress ==
    /\ phase = "stopping"
    /\ closed' = TRUE
    /\ phase' = "draining"
    /\ UNCHANGED <<received, accepted, records, telemetryQueued, eosRegistered,
                   loop, kafka, startupFailed>>

\* Mutant of ExitOK: that the EOS was processed is not checked.
ExitOKUnchecked == ~startupFailed /\ processor = "returned" /\ egress = "returned"

ExitOK ==
    /\ ~startupFailed
    /\ processor = "returned" /\ egress = "returned"
    /\ eosProcessed

Drained ==
    /\ phase = "draining"
    /\ ProcessorDone /\ EgressDone
    /\ phase' = IF ExitOK THEN "exitedOK" ELSE "exitedWithError"
    /\ UNCHANGED <<received, ingress, loop, kafka, startupFailed>>

\* The process is gone.
Terminated == Exited /\ UNCHANGED vars

-----------------------------------------------------------------------------
Init ==
    /\ received = 0 /\ accepted = {} /\ discarded = {}
    /\ records = <<>> /\ telemetryQueued = 0
    /\ eosRegistered = FALSE /\ closed = FALSE
    /\ processor = "next" /\ taken = <<>> /\ current = <<>> /\ outbox = <<>>
    /\ eosProcessed = FALSE
    /\ egress = "select" /\ pending = <<>> /\ log = <<>>
    /\ phase = "starting" /\ startupFailed = FALSE

Callback == RegisterEndOfReplay \/ DropTelemetry \/ \E s \in 0 .. LastStart : Enqueue(s)

EdgeLoop ==
    \/ ReceiveTelemetry \/ ProcessTelemetry
    \/ ReceiveEndOfReplay \/ ReceiveClosed
    \/ Emit \/ EmitFails

Egress == OutputClosed \/ FlushBatch \/ FlushFails \/ PublishEndOfInput

Main == Connected \/ StartupFails \/ StageEnded \/ CloseIngress \/ Drained

Next == Callback \/ EdgeLoop \/ Egress \/ BatchTimeout \/ Main \/ Signal \/ Terminated

Spec == Init /\ [][Next]_vars

\* The goroutines run; nothing forces telemetry, the EOS or a signal to come.
FairSpec == Spec /\ WF_vars(EdgeLoop) /\ WF_vars(Egress) /\ WF_vars(Main)

-----------------------------------------------------------------------------
IsOutput(r) ==
    \/ r = EndOfInput
    \/ r \in [kind : {"aggregate"}, start : Nat, end : Nat, through : Nat,
              events : SUBSET (1 .. MaxEvents)]

(***************************************************************************)
(* Type invariant; the ingress counter stays within the queue's capacity.  *)
(***************************************************************************)
TypeOK ==
    /\ received \in 0 .. MaxEvents
    /\ accepted \subseteq 1 .. MaxEvents /\ discarded \subseteq accepted
    /\ \A k \in DOMAIN records :
          records[k] = EOS \/ records[k] \in
             [kind : {"telemetry"}, event : 1 .. MaxEvents, start : 0 .. LastStart]
    /\ telemetryQueued \in 0 .. Capacity
    /\ {eosRegistered, closed, eosProcessed, startupFailed} \subseteq BOOLEAN
    /\ processor \in {"next", "process", "emit", "emitLast", "returned", "failed"}
    /\ egress \in {"select", "flush", "flushThenEnd", "flushThenReturn", "end",
                   "returned", "failed"}
    /\ phase \in {"starting", "waiting", "stopping", "draining", "exitedOK",
                  "exitedWithError"}
    /\ Len(taken) <= 1 /\ Len(current) <= 1 /\ Len(outbox) <= 2
    /\ Len(pending) <= BatchSize
    /\ \A r \in Range(outbox) \cup Range(pending) \cup Range(log) : IsOutput(r)

(***************************************************************************)
(* The callback sends while it holds the mutex that Next needs to give a   *)
(* slot back, so a send that blocked would stop the Edge for good.  The    *)
(* counter, given back only after the receive, never lets the channel      *)
(* fill: a send the checks allow finds a slot, and the EOS always has one. *)
(***************************************************************************)
SendNeverBlocks ==
    ~closed /\ ~eosRegistered =>
        /\ Len(records) <= Capacity
        /\ HasRoom => Len(records) < Capacity

(***************************************************************************)
(* What PartitionIngest assumes of an Edge: leaving repetitions aside, the *)
(* aggregates in the log follow each other without a gap between what one  *)
(* certifies and the start of the next, and the end of input comes after   *)
(* an aggregate certified up to its own end, and is last.                  *)
(***************************************************************************)
First(k) == \A j \in 1 .. k - 1 : log[j] # log[k]

StreamIsLegal ==
    \A j, k \in DOMAIN log :
        (/\ j < k /\ First(j) /\ First(k)
         /\ \A m \in j + 1 .. k - 1 : ~First(m))
        => /\ log[j] # EndOfInput
           /\ log[j].through = IF log[k] = EndOfInput THEN log[j].end
                                                      ELSE log[k].start

(***************************************************************************)
(* An event counts at most once, and once the end of input is in the log   *)
(* every event the ingress accepted is in an aggregate before it, unless   *)
(* it was invalid or out of order.                                         *)
(***************************************************************************)
Counted == UNION {log[k].events : k \in {j \in DOMAIN log : log[j] # EndOfInput}}

CompleteAtEnd ==
    /\ \A j, k \in DOMAIN log :
          (log[j] # EndOfInput /\ log[k] # EndOfInput /\ log[j] # log[k])
          => log[j].events \cap log[k].events = {}
    /\ Counted \cap discarded = {}
    /\ EndOfInput \in Range(log) => accepted = Counted \cup discarded

(***************************************************************************)
(* The Edge reports success only when its end of input is in the log.      *)
(***************************************************************************)
ExitIsHonest == phase = "exitedOK" => EndOfInput \in Range(log)

(***************************************************************************)
(* The EOS, a signal or the failure of a stage ends the process: no stage  *)
(* waits for ever for one that has stopped.                                *)
(***************************************************************************)
Terminates == (eosRegistered \/ phase = "stopping") ~> Exited
=============================================================================
