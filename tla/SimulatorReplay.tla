---------------------------- MODULE SimulatorReplay ----------------------------
(***************************************************************************)
(* The simulator of one site (cmd/simulator): the replay loop offers the   *)
(* rows of its shard to a bounded queue and drops those that do not fit;   *)
(* the end of replay goes through the same queue, and waits for room; the  *)
(* egress goroutine publishes what it receives, telemetry at QoS 0 and the *)
(* end at QoS 1, and is drained before the statistics are read.            *)
(*                                                                         *)
(* The MQTT client and broker are external: telemetry reaches the broker   *)
(* or is lost, with or without an error; the end of replay reaches it, and *)
(* may again, for as long as the client tries, which is longer than        *)
(* publishEndOfReplay waits for the acknowledgement.                       *)
(*                                                                         *)
(* A row is its number; End stands for the end of replay.                  *)
(***************************************************************************)
EXTENDS Integers, Sequences, FiniteSets, SequencesExt

CONSTANTS
    Rows,       \* bound: data rows of the shard
    Capacity,   \* TelemetryQueueCapacity
    MaxCopies   \* bound: how often the broker takes the end of replay

ASSUME ConstantsAssumption ==
    /\ Rows \in Nat /\ Capacity \in Nat \ {0} /\ MaxCopies \in Nat \ {0}

VARIABLES
    replay,       \* where replaySite is
    offered,      \* stats.OfferedEvents
    enqueued,     \* history: the rows the queue took
    replayErr,    \* runReplayLoop returned an error
    queue,        \* ReplayEgress.queue
    closed,       \* the queue was closed
    egress,       \* where ReplayEgress.run is
    attempts,     \* egress.publishAttempts
    eosSuccesses, \* egress.eosSuccesses
    eosErr,       \* egress.eosErr is set
    outstanding,  \* the client still tries to deliver the end of replay
    broker        \* history: what reached the broker

loop == <<replay, offered, enqueued, replayErr, closed>>
counters == <<attempts, eosSuccesses, eosErr>>
vars == <<loop, queue, egress, counters, outstanding, broker>>

End == 0
Exited == replay \in {"completed", "failed"}

-----------------------------------------------------------------------------
(***************************************************************************)
(* replaySite and runReplayLoop.                                           *)
(***************************************************************************)
\* A row is scheduled: TryEnqueueTelemetry takes it or drops it.
Offer ==
    /\ replay = "reading" /\ offered < Rows
    /\ offered' = offered + 1
    /\ IF Len(queue) < Capacity
       THEN queue' = Append(queue, offered') /\ enqueued' = enqueued \cup {offered'}
       ELSE UNCHANGED <<queue, enqueued>>
    /\ UNCHANGED <<replay, replayErr, closed, egress, counters, outstanding, broker>>

\* A row that cannot be read, or the first one comes too late: the deferred
\* closeEgress runs.
RowFails ==
    /\ replay = "reading"
    /\ replayErr' = TRUE
    /\ replay' = "closing"
    /\ UNCHANGED <<offered, enqueued, queue, closed, egress, counters, outstanding, broker>>

LastRow ==
    /\ replay = "reading" /\ offered = Rows
    /\ replay' = "ending"
    /\ UNCHANGED <<offered, enqueued, replayErr, queue, closed, egress, counters,
                   outstanding, broker>>

\* Mutant of EnqueueEndOfReplay: the end overtakes the queued telemetry.
EnqueueEndFirst ==
    /\ replay = "ending"
    /\ Len(queue) < Capacity
    /\ queue' = <<End>> \o queue
    /\ replay' = "closing"
    /\ UNCHANGED <<offered, enqueued, replayErr, closed, egress, counters,
                   outstanding, broker>>

\* A send on a full channel blocks.
EnqueueEndOfReplay ==
    /\ replay = "ending"
    /\ Len(queue) < Capacity
    /\ queue' = Append(queue, End)
    /\ replay' = "closing"
    /\ UNCHANGED <<offered, enqueued, replayErr, closed, egress, counters,
                   outstanding, broker>>

CloseQueue ==
    /\ replay = "closing"
    /\ closed' = TRUE
    /\ replay' = "waiting"
    /\ UNCHANGED <<offered, enqueued, replayErr, queue, egress, counters,
                   outstanding, broker>>

\* Mutant of Drained: the statistics are read without waiting for the egress.
Undrained ==
    /\ replay = "waiting"
    /\ replay' = IF replayErr \/ eosErr THEN "failed" ELSE "completed"
    /\ outstanding' = FALSE
    /\ UNCHANGED <<offered, enqueued, replayErr, queue, closed, egress, counters, broker>>

\* CloseAndWait returns, the statistics are printed and the client disconnects.
Drained ==
    /\ replay = "waiting" /\ egress = "done"
    /\ replay' = IF replayErr \/ eosErr THEN "failed" ELSE "completed"
    /\ outstanding' = FALSE
    /\ UNCHANGED <<offered, enqueued, replayErr, queue, closed, egress, counters, broker>>

-----------------------------------------------------------------------------
(***************************************************************************)
(* ReplayEgress.run.                                                       *)
(***************************************************************************)
\* publishSensorEvent: nothing tells whether a QoS 0 message arrives.
Publish(row) == broker' \in {broker, Append(broker, row)}

PublishTelemetry ==
    /\ egress = "receive"
    /\ queue # <<>> /\ Head(queue) # End
    /\ queue' = Tail(queue)
    /\ attempts' = attempts + 1
    /\ Publish(Head(queue))
    /\ UNCHANGED <<loop, egress, eosSuccesses, eosErr, outstanding>>

PublishEndOfReplay ==
    /\ egress = "receive"
    /\ queue # <<>> /\ Head(queue) = End
    /\ queue' = Tail(queue)
    /\ egress' = "awaitAck"
    /\ outstanding' = TRUE
    /\ UNCHANGED <<loop, counters, broker>>

\* PUBACK.
Acknowledged ==
    /\ egress = "awaitAck"
    /\ End \in Range(broker)
    /\ eosSuccesses' = eosSuccesses + 1
    /\ egress' = "receive"
    /\ outstanding' = FALSE
    /\ UNCHANGED <<loop, queue, attempts, eosErr, broker>>

\* Mutant of NotAcknowledged: the wait has no time-out.
WaitForever ==
    /\ egress = "awaitAck"
    /\ End \in Range(broker)
    /\ eosErr' = TRUE
    /\ egress' = "receive"
    /\ UNCHANGED <<loop, queue, attempts, eosSuccesses, outstanding, broker>>

\* The wait times out, or the publication fails.
NotAcknowledged ==
    /\ egress = "awaitAck"
    /\ eosErr' = TRUE
    /\ egress' = "receive"
    /\ UNCHANGED <<loop, queue, attempts, eosSuccesses, outstanding, broker>>

\* range over a closed channel ends once the channel is empty.
QueueClosed ==
    /\ egress = "receive"
    /\ queue = <<>> /\ closed
    /\ egress' = "done"
    /\ UNCHANGED <<loop, queue, counters, outstanding, broker>>

-----------------------------------------------------------------------------
\* The broker takes the end of replay, perhaps not for the first time.
TakeEnd ==
    /\ outstanding
    /\ Len(SelectSeq(broker, LAMBDA m : m = End)) < MaxCopies
    /\ broker' = Append(broker, End)
    /\ UNCHANGED <<loop, queue, egress, counters, outstanding>>

Terminated == Exited /\ UNCHANGED vars

-----------------------------------------------------------------------------
Init ==
    /\ replay = "reading" /\ offered = 0 /\ enqueued = {} /\ replayErr = FALSE
    /\ queue = <<>> /\ closed = FALSE
    /\ egress = "receive"
    /\ attempts = 0 /\ eosSuccesses = 0 /\ eosErr = FALSE
    /\ outstanding = FALSE /\ broker = <<>>

ReplayLoop ==
    Offer \/ RowFails \/ LastRow \/ EnqueueEndOfReplay \/ CloseQueue \/ Drained

Egress ==
    PublishTelemetry \/ PublishEndOfReplay \/ Acknowledged \/ NotAcknowledged \/ QueueClosed

Next == ReplayLoop \/ Egress \/ TakeEnd \/ Terminated

Spec == Init /\ [][Next]_vars

\* Both goroutines run; publishEndOfReplay waits a bounded time.
FairSpec == Spec /\ WF_vars(ReplayLoop) /\ WF_vars(Egress)

-----------------------------------------------------------------------------
(***************************************************************************)
(* Nothing overtakes: what reaches the broker is in the order of the       *)
(* shard, and no telemetry comes after the end of replay, which the Edge   *)
(* would drop.                                                             *)
(***************************************************************************)
EndComesLast ==
    \A j, k \in DOMAIN broker : j < k =>
        broker[k] = End \/ (broker[j] # End /\ broker[j] < broker[k])

(***************************************************************************)
(* What the evaluation of a run relies on (summarize-run.py): in the       *)
(* statistics a simulator prints, however it ends, every row that the      *)
(* queue took was tried; and it completed exactly when the end was         *)
(* acknowledged, which takes a whole shard and an end the broker has.      *)
(***************************************************************************)
ReportIsHonest ==
    Exited => /\ attempts = Cardinality(enqueued)
              /\ (replay = "completed") <=> (eosSuccesses = 1)
              /\ eosSuccesses = 1 => offered = Rows /\ End \in Range(broker)

(***************************************************************************)
(* The simulator ends, although the end of replay waits for room in a      *)
(* queue that is full and nobody may acknowledge it.                       *)
(***************************************************************************)
Terminates == <>Exited
=============================================================================
