------------------------ MODULE SimulatorReplayProofs ------------------------
(***************************************************************************)
(* Theorems about SimulatorReplay, for every shard and every capacity of   *)
(* the queue: nothing overtakes on the way to the broker, and the printed  *)
(* statistics account for every row the queue took and for the end.        *)
(***************************************************************************)
EXTENDS SimulatorReplay, FiniteSetTheorems, TLAPS

Message == {End} \cup 1 .. Rows

\* m may reach the broker before n.
Precedes(m, n) == n = End \/ (m # End /\ m < n)

\* What the queue took and the egress has received since.
Tried == enqueued \ Range(queue)

\* EnqueueEndOfReplay returned.
EndEnqueued == replay \notin {"reading", "ending"} /\ ~replayErr

-----------------------------------------------------------------------------
(***************************************************************************)
(* The inductive invariant.                                                *)
(***************************************************************************)
LoopTypes ==
    /\ replay \in {"reading", "ending", "closing", "waiting", "completed", "failed"}
    /\ offered \in 0 .. Rows
    /\ enqueued \subseteq 1 .. offered
    /\ replayErr \in BOOLEAN /\ closed \in BOOLEAN

EgressTypes ==
    /\ queue \in Seq(Message)
    /\ egress \in {"receive", "awaitAck", "done"}
    /\ attempts \in Nat /\ eosSuccesses \in {0, 1}
    /\ eosErr \in BOOLEAN /\ outstanding \in BOOLEAN
    /\ broker \in Seq(Message)

\* The queue holds rows it took, in order, and then perhaps the end.
QueueInOrder ==
    /\ \A k \in 1 .. Len(queue) : queue[k] # End => queue[k] \in enqueued
    /\ \A j, k \in 1 .. Len(queue) :
          j < k => queue[j] # End /\ Precedes(queue[j], queue[k])

BrokerInOrder ==
    /\ \A j, k \in 1 .. Len(broker) : j < k => Precedes(broker[j], broker[k])
    /\ \A j \in 1 .. Len(broker) : broker[j] # End => broker[j] <= offered

\* All that is queued may still follow what the broker has.
BrokerIsBehind ==
    \A j \in 1 .. Len(broker), k \in 1 .. Len(queue) : Precedes(broker[j], queue[k])

Accounted == attempts = Cardinality(Tried)

\* The egress has not received the end.
EndNotSent ==
    /\ egress # "awaitAck" /\ eosSuccesses = 0 /\ ~eosErr /\ ~outstanding
    /\ End \notin Range(broker)

\* The egress has received it: it waits for the answer, or has had one.
EndSent ==
    /\ queue = <<>>
    /\ \/ egress = "awaitAck" /\ eosSuccesses = 0 /\ ~eosErr
       \/ egress # "awaitAck" /\ eosSuccesses = 1 /\ ~eosErr /\ End \in Range(broker)
       \/ egress # "awaitAck" /\ eosSuccesses = 0 /\ eosErr

WhereTheEndIs ==
    IF EndEnqueued
    THEN /\ offered = Rows
         /\ EndSent \/ (EndNotSent /\ End \in Range(queue))
    ELSE EndNotSent /\ End \notin Range(queue)

\* The loop and the egress wait for one another.
Shutdown ==
    /\ replay \in {"reading", "ending"} => ~replayErr
    /\ replay = "ending" => offered = Rows
    /\ closed => replay \in {"waiting", "completed", "failed"}
    /\ egress = "done" => closed /\ queue = <<>>
    /\ Exited => egress = "done" /\ ~outstanding
    /\ Exited => (replay = "completed" <=> (~replayErr /\ ~eosErr))

IInv ==
    /\ LoopTypes /\ EgressTypes
    /\ QueueInOrder /\ BrokerInOrder /\ BrokerIsBehind
    /\ Accounted /\ WhereTheEndIs /\ Shutdown

-----------------------------------------------------------------------------
LEMMA EmptySequence ==
    ASSUME NEW S
    PROVE  <<>> \in Seq(S) /\ Len(<<>>) = 0 /\ Range(<<>>) = {}
BY DEF Range

LEMMA Appended ==
    ASSUME NEW S, NEW s \in Seq(S), NEW x \in S
    PROVE  /\ Append(s, x) \in Seq(S)
           /\ Len(s) \in Nat /\ Len(Append(s, x)) = Len(s) + 1
           /\ \A k \in 1 .. Len(s) : Append(s, x)[k] = s[k]
           /\ Append(s, x)[Len(s) + 1] = x
           /\ Range(Append(s, x)) = Range(s) \cup {x}
<1>1. /\ Append(s, x) \in Seq(S)
      /\ Len(s) \in Nat /\ Len(Append(s, x)) = Len(s) + 1
      /\ \A k \in 1 .. Len(s) : Append(s, x)[k] = s[k]
      /\ Append(s, x)[Len(s) + 1] = x
  OBVIOUS
<1>2. DOMAIN s = 1 .. Len(s) /\ DOMAIN Append(s, x) = 1 .. Len(s) + 1
  BY <1>1
<1>3. ASSUME NEW y \in Range(s) PROVE y \in Range(Append(s, x))
  BY <1>1, <1>2 DEF Range
<1>4. x \in Range(Append(s, x))
  BY <1>1, <1>2 DEF Range
<1>5. ASSUME NEW y \in Range(Append(s, x)) PROVE y \in Range(s) \cup {x}
  BY <1>1, <1>2 DEF Range
<1> QED
  BY <1>1, <1>3, <1>4, <1>5

LEMMA HeadAndTail ==
    ASSUME NEW S, NEW s \in Seq(S), s # <<>>
    PROVE  /\ Len(s) \in Nat \ {0}
           /\ Head(s) = s[1] /\ Head(s) \in S
           /\ Tail(s) \in Seq(S) /\ Len(Tail(s)) = Len(s) - 1
           /\ \A k \in 1 .. Len(s) - 1 : Tail(s)[k] = s[k + 1]
           /\ Range(s) = {Head(s)} \cup Range(Tail(s))
<1>1. Len(s) \in Nat \ {0}
  OBVIOUS
<1>2. /\ Head(s) = s[1] /\ Head(s) \in S
      /\ Tail(s) \in Seq(S) /\ Len(Tail(s)) = Len(s) - 1
      /\ \A k \in 1 .. Len(s) - 1 : Tail(s)[k] = s[k + 1]
  BY <1>1
<1>3. DOMAIN s = 1 .. Len(s) /\ DOMAIN Tail(s) = 1 .. Len(s) - 1
  BY <1>2
<1>4. ASSUME NEW x \in Range(s) PROVE x \in {Head(s)} \cup Range(Tail(s))
  <2>1. PICK k \in 1 .. Len(s) : x = s[k]
    BY <1>3 DEF Range
  <2>2. CASE k = 1
    BY <1>2, <2>1, <2>2
  <2>3. CASE k # 1
    <3>1. k - 1 \in 1 .. Len(s) - 1 /\ Tail(s)[k - 1] = s[k]
      BY <1>1, <1>2, <2>3
    <3> QED
      BY <1>3, <2>1, <3>1 DEF Range
  <2> QED
    BY <2>2, <2>3
<1>5. Head(s) \in Range(s)
  BY <1>1, <1>2, <1>3 DEF Range
<1>6. ASSUME NEW x \in Range(Tail(s)) PROVE x \in Range(s)
  <2>1. PICK k \in 1 .. Len(s) - 1 : x = Tail(s)[k]
    BY <1>3 DEF Range
  <2>2. k + 1 \in 1 .. Len(s) /\ x = s[k + 1]
    BY <1>1, <1>2, <2>1
  <2> QED
    BY <1>3, <2>2 DEF Range
<1> QED
  BY <1>1, <1>2, <1>4, <1>5, <1>6

LEMMA RangeMembers ==
    ASSUME NEW S, NEW s \in Seq(S)
    PROVE  /\ \A x \in Range(s) : x \in S /\ \E k \in 1 .. Len(s) : x = s[k]
           /\ \A k \in 1 .. Len(s) : s[k] \in Range(s) /\ s[k] \in S
BY DEF Range

\* End is not a row.
LEMMA Messages ==
    /\ Rows \in Nat /\ End = 0 /\ End \in Message /\ Message \subseteq 0 .. Rows
    /\ \A m \in Message : m # End => m \in 1 .. Rows
BY ConstantsAssumption DEF Message, End

\* A set of rows is finite, and a row added to it counts.
LEMMA OneMore ==
    ASSUME NEW S, S \subseteq 1 .. Rows, NEW r \in 1 .. Rows, r \notin S
    PROVE  Cardinality(S) \in Nat /\ Cardinality(S \cup {r}) = Cardinality(S) + 1
<1>1. IsFiniteSet(1 .. Rows)
  BY ConstantsAssumption, FS_Interval
<1>2. IsFiniteSet(S)
  BY <1>1, FS_Subset
<1> QED
  BY <1>2, FS_AddElement, FS_CardinalityType

LEMMA InitialState == Init => IInv
<1> SUFFICES ASSUME Init PROVE IInv
  OBVIOUS
<1>1. /\ replay = "reading" /\ offered = 0 /\ enqueued = {} /\ replayErr = FALSE
      /\ queue = <<>> /\ closed = FALSE /\ egress = "receive"
      /\ attempts = 0 /\ eosSuccesses = 0 /\ eosErr = FALSE
      /\ outstanding = FALSE /\ broker = <<>>
  BY DEF Init
<1>2. /\ queue \in Seq(Message) /\ Len(queue) = 0 /\ Range(queue) = {}
      /\ broker \in Seq(Message) /\ Len(broker) = 0 /\ Range(broker) = {}
  BY <1>1, EmptySequence
<1>3. LoopTypes
  BY <1>1, Messages DEF LoopTypes
<1>4. EgressTypes
  BY <1>1, <1>2 DEF EgressTypes
<1>5. QueueInOrder /\ BrokerInOrder /\ BrokerIsBehind
  BY <1>2 DEF QueueInOrder, BrokerInOrder, BrokerIsBehind
<1>6. Accounted
  <2>1. Tried = {}
    BY <1>1 DEF Tried
  <2> QED
    BY <1>1, <2>1, FS_EmptySet DEF Accounted
<1>7. WhereTheEndIs /\ Shutdown
  BY <1>1, <1>2 DEF WhereTheEndIs, EndEnqueued, EndNotSent, Shutdown, Exited
<1> QED
  BY <1>3, <1>4, <1>5, <1>6, <1>7 DEF IInv

-----------------------------------------------------------------------------
(***************************************************************************)
(* The replay loop.                                                        *)
(***************************************************************************)
LEMMA OfferKeeps ==
    ASSUME IInv, Offer
    PROVE  IInv'
<1> DEFINE row == offered + 1
<1>1. /\ replay = "reading" /\ offered < Rows /\ offered' = row
      /\ \/ queue' = Append(queue, row) /\ enqueued' = enqueued \cup {row}
         \/ queue' = queue /\ enqueued' = enqueued
      /\ UNCHANGED <<replay, replayErr, closed, egress, attempts, eosSuccesses, eosErr,
                     outstanding, broker>>
  BY DEF Offer, counters
<1>2. /\ offered \in 0 .. Rows /\ enqueued \subseteq 1 .. offered
      /\ queue \in Seq(Message) /\ broker \in Seq(Message)
  BY DEF IInv, LoopTypes, EgressTypes
<1>3. row \in 1 .. Rows /\ row \in Message /\ row # End /\ row \notin enqueued
      /\ offered < row /\ Rows \in Nat
  BY <1>1, <1>2, Messages DEF Message
<1>4. EndNotSent /\ End \notin Range(queue) /\ ~EndEnqueued
  BY <1>1 DEF IInv, WhereTheEndIs, EndEnqueued
<1>5. /\ \A k \in 1 .. Len(queue) : queue[k] \in enqueued /\ queue[k] # End
      /\ \A j \in 1 .. Len(broker) : broker[j] # End /\ broker[j] < row
                                     /\ broker[j] \in Nat
  <2>1. ASSUME NEW k \in 1 .. Len(queue) PROVE queue[k] \in enqueued /\ queue[k] # End
    BY <1>2, <1>4, RangeMembers DEF IInv, QueueInOrder
  <2>2. ASSUME NEW j \in 1 .. Len(broker)
        PROVE  broker[j] # End /\ broker[j] <= offered /\ broker[j] \in 0 .. Rows
    <3>1. broker[j] \in Range(broker) /\ broker[j] \in Message
      BY <1>2, RangeMembers
    <3>2. broker[j] # End
      BY <1>4, <3>1 DEF EndNotSent
    <3> QED
      BY <3>1, <3>2, Messages DEF IInv, BrokerInOrder
  <2> QED
    BY <1>2, <1>3, <2>1, <2>2
<1> HIDE DEF row
<1>6. ASSUME queue' = Append(queue, row), enqueued' = enqueued \cup {row}
      PROVE  /\ queue' \in Seq(Message) /\ End \notin Range(queue')
             /\ QueueInOrder' /\ BrokerIsBehind' /\ Tried' = Tried
  <2>1. /\ queue' \in Seq(Message) /\ Len(queue) \in Nat
        /\ Len(queue') = Len(queue) + 1
        /\ \A k \in 1 .. Len(queue) : queue'[k] = queue[k]
        /\ queue'[Len(queue) + 1] = row /\ Range(queue') = Range(queue) \cup {row}
    BY <1>2, <1>3, <1>6, Appended
  <2>2. \A k \in 1 .. Len(queue') : \/ k \in 1 .. Len(queue) /\ queue'[k] = queue[k]
                                    \/ k = Len(queue) + 1 /\ queue'[k] = row
    BY <2>1
  <2>3. QueueInOrder'
    <3>1. ASSUME NEW k \in 1 .. Len(queue') PROVE queue'[k] \in enqueued'
      BY <1>5, <1>6, <2>2
    <3>2. ASSUME NEW j \in 1 .. Len(queue'), NEW k \in 1 .. Len(queue'), j < k
          PROVE  queue'[j] # End /\ Precedes(queue'[j], queue'[k])
      <4>1. j \in 1 .. Len(queue) /\ queue'[j] = queue[j]
        BY <2>1, <2>2, <3>2
      <4>2. CASE k \in 1 .. Len(queue) /\ queue'[k] = queue[k]
        BY <3>2, <4>1, <4>2 DEF IInv, QueueInOrder
      <4>3. CASE queue'[k] = row
        <5>1. queue[j] \in 1 .. offered /\ queue[j] # End
          BY <1>2, <1>5, <4>1
        <5> QED
          BY <1>2, <1>3, <4>1, <4>3, <5>1 DEF Precedes
      <4> QED
        BY <2>2, <4>2, <4>3
    <3> QED
      BY <3>1, <3>2 DEF QueueInOrder
  <2>4. BrokerIsBehind'
    <3>1. ASSUME NEW j \in 1 .. Len(broker), NEW k \in 1 .. Len(queue')
          PROVE  Precedes(broker[j], queue'[k])
      BY <1>5, <2>2 DEF IInv, BrokerIsBehind, Precedes
    <3> QED
      BY <1>1, <3>1 DEF BrokerIsBehind
  <2>5. Tried' = Tried
    BY <1>3, <1>6, <2>1 DEF Tried
  <2> QED
    BY <1>3, <1>4, <2>1, <2>3, <2>4, <2>5
<1>7. /\ queue' \in Seq(Message) /\ End \notin Range(queue')
      /\ QueueInOrder' /\ BrokerIsBehind' /\ Tried' = Tried
  <2>1. ASSUME queue' = queue, enqueued' = enqueued
        PROVE  /\ queue' \in Seq(Message) /\ End \notin Range(queue')
               /\ QueueInOrder' /\ BrokerIsBehind' /\ Tried' = Tried
    BY <1>1, <1>2, <1>4, <2>1 DEF IInv, QueueInOrder, BrokerIsBehind, Tried
  <2> QED
    BY <1>1, <1>6, <2>1
<1>8. LoopTypes'
  <2>1. offered' \in 0 .. Rows
    BY <1>1, <1>3
  <2>2. 1 .. offered \subseteq 1 .. offered' /\ row \in 1 .. offered'
    BY <1>1, <1>2, <1>3
  <2>3. enqueued' \subseteq 1 .. offered'
    BY <1>1, <1>2, <2>2
  <2> QED
    BY <1>1, <2>1, <2>3 DEF IInv, LoopTypes
<1>9. EgressTypes'
  BY <1>1, <1>7 DEF IInv, EgressTypes
<1>10. BrokerInOrder'
  <2>1. \A j \in 1 .. Len(broker) : broker[j] <= offered'
    BY <1>1, <1>3, <1>5
  <2> QED
    BY <1>1, <2>1 DEF IInv, BrokerInOrder
<1>11. Accounted'
  BY <1>1, <1>7 DEF IInv, Accounted
<1>12. WhereTheEndIs'
  BY <1>1, <1>4, <1>7 DEF WhereTheEndIs, EndEnqueued, EndNotSent
<1>13. Shutdown'
  BY <1>1 DEF IInv, Shutdown, Exited
<1> QED
  BY <1>7, <1>8, <1>9, <1>10, <1>11, <1>12, <1>13 DEF IInv

\* The steps that move the loop on and leave queue and broker alone.
LEMMA LoopMovesKeeps ==
    ASSUME IInv, RowFails \/ LastRow \/ CloseQueue \/ Drained
    PROVE  IInv'
<1>1. /\ UNCHANGED <<offered, enqueued, queue, egress, attempts, eosSuccesses, eosErr,
                     broker>>
      /\ \/ replay = "reading" /\ replay' = "closing" /\ replayErr' = TRUE
            /\ UNCHANGED <<closed, outstanding>>
         \/ replay = "reading" /\ offered = Rows /\ replay' = "ending"
            /\ UNCHANGED <<replayErr, closed, outstanding>>
         \/ replay = "closing" /\ replay' = "waiting" /\ closed' = TRUE
            /\ UNCHANGED <<replayErr, outstanding>>
         \/ /\ replay = "waiting" /\ egress = "done" /\ outstanding' = FALSE
            /\ replay' = IF replayErr \/ eosErr THEN "failed" ELSE "completed"
            /\ UNCHANGED <<replayErr, closed>>
  BY DEF RowFails, LastRow, CloseQueue, Drained, counters
<1>2. /\ QueueInOrder' /\ BrokerInOrder' /\ BrokerIsBehind' /\ Accounted'
  BY <1>1 DEF IInv, QueueInOrder, BrokerInOrder, BrokerIsBehind, Accounted, Tried
<1>3. LoopTypes' /\ EgressTypes'
  BY <1>1 DEF IInv, LoopTypes, EgressTypes
<1>4. WhereTheEndIs'
  <2>1. CASE replay = "reading"
    BY <1>1, <2>1 DEF IInv, WhereTheEndIs, EndEnqueued, EndNotSent
  <2>2. CASE replay # "reading"
    <3>1. replay # "ending" /\ EndEnqueued' = EndEnqueued
      BY <1>1, <2>2 DEF EndEnqueued
    <3>2. (EndNotSent => EndNotSent') /\ (EndSent => EndSent')
      BY <1>1, <2>2 DEF EndNotSent, EndSent
    <3> QED
      BY <1>1, <3>1, <3>2 DEF IInv, WhereTheEndIs
  <2> QED
    BY <2>1, <2>2
<1>5. Shutdown'
  BY <1>1 DEF IInv, Shutdown, Exited
<1> QED
  BY <1>2, <1>3, <1>4, <1>5 DEF IInv

LEMMA EnqueueEndOfReplayKeeps ==
    ASSUME IInv, EnqueueEndOfReplay
    PROVE  IInv'
<1>1. /\ replay = "ending" /\ replay' = "closing" /\ queue' = Append(queue, End)
      /\ UNCHANGED <<offered, enqueued, replayErr, closed, egress, attempts,
                     eosSuccesses, eosErr, outstanding, broker>>
  BY DEF EnqueueEndOfReplay, counters
<1>2. /\ queue \in Seq(Message) /\ broker \in Seq(Message) /\ offered \in 0 .. Rows
      /\ enqueued \subseteq 1 .. offered
  BY DEF IInv, LoopTypes, EgressTypes
<1>3. EndNotSent /\ End \notin Range(queue) /\ ~replayErr /\ egress # "done"
  BY <1>1 DEF IInv, WhereTheEndIs, EndEnqueued, Shutdown
<1>4. /\ queue' \in Seq(Message) /\ Len(queue) \in Nat
      /\ Len(queue') = Len(queue) + 1
      /\ \A k \in 1 .. Len(queue) : queue'[k] = queue[k]
      /\ queue'[Len(queue) + 1] = End /\ Range(queue') = Range(queue) \cup {End}
  BY <1>1, <1>2, Appended, Messages
<1>5. \A k \in 1 .. Len(queue') :
         \/ k \in 1 .. Len(queue) /\ queue'[k] = queue[k] /\ queue[k] # End
         \/ k = Len(queue) + 1 /\ queue'[k] = End
  <2>1. \A k \in 1 .. Len(queue) : queue[k] # End
    BY <1>2, <1>3, RangeMembers
  <2> QED
    BY <1>4, <2>1
<1>6. QueueInOrder'
  <2>1. ASSUME NEW k \in 1 .. Len(queue'), queue'[k] # End PROVE queue'[k] \in enqueued'
    BY <1>1, <1>5, <2>1 DEF IInv, QueueInOrder
  <2>2. ASSUME NEW j \in 1 .. Len(queue'), NEW k \in 1 .. Len(queue'), j < k
        PROVE  queue'[j] # End /\ Precedes(queue'[j], queue'[k])
    <3>1. j \in 1 .. Len(queue) /\ queue'[j] = queue[j] /\ queue[j] # End
      BY <1>4, <1>5, <2>2
    <3>2. CASE k \in 1 .. Len(queue) /\ queue'[k] = queue[k]
      BY <2>2, <3>1, <3>2 DEF IInv, QueueInOrder
    <3> QED
      BY <1>5, <3>1, <3>2 DEF Precedes
  <2> QED
    BY <2>1, <2>2 DEF QueueInOrder
<1>7. BrokerIsBehind'
  <2>1. ASSUME NEW j \in 1 .. Len(broker), NEW k \in 1 .. Len(queue')
        PROVE  Precedes(broker[j], queue'[k])
    BY <1>5 DEF IInv, BrokerIsBehind, Precedes
  <2> QED
    BY <1>1, <2>1 DEF BrokerIsBehind
<1>8. Accounted'
  <2>1. End \notin enqueued
    BY <1>2, Messages
  <2>2. Tried' = Tried
    BY <1>1, <1>4, <2>1 DEF Tried
  <2> QED
    BY <1>1, <2>2 DEF IInv, Accounted
<1>9. WhereTheEndIs'
  <2>1. offered = Rows
    BY <1>1 DEF IInv, Shutdown
  <2> QED
    BY <1>1, <1>3, <1>4, <2>1 DEF WhereTheEndIs, EndEnqueued, EndNotSent
<1>10. LoopTypes' /\ EgressTypes' /\ BrokerInOrder' /\ Shutdown'
  BY <1>1, <1>3, <1>4
     DEF IInv, LoopTypes, EgressTypes, BrokerInOrder, Shutdown, Exited
<1> QED
  BY <1>6, <1>7, <1>8, <1>9, <1>10 DEF IInv

-----------------------------------------------------------------------------
(***************************************************************************)
(* The egress.                                                             *)
(***************************************************************************)
LEMMA PublishTelemetryKeeps ==
    ASSUME IInv, PublishTelemetry
    PROVE  IInv'
<1> DEFINE row == Head(queue)
<1>1. /\ egress = "receive" /\ queue # <<>> /\ row # End
      /\ queue' = Tail(queue) /\ attempts' = attempts + 1
      /\ broker' = broker \/ broker' = Append(broker, row)
      /\ UNCHANGED <<replay, offered, enqueued, replayErr, closed, egress,
                     eosSuccesses, eosErr, outstanding>>
  BY DEF PublishTelemetry, Publish, loop
<1>2. /\ queue \in Seq(Message) /\ broker \in Seq(Message) /\ offered \in 0 .. Rows
      /\ enqueued \subseteq 1 .. offered /\ Rows \in Nat
  BY Messages DEF IInv, LoopTypes, EgressTypes
<1>3. /\ Len(queue) \in Nat \ {0} /\ row = queue[1] /\ row \in Message
      /\ queue' \in Seq(Message) /\ Len(queue') = Len(queue) - 1
      /\ \A k \in 1 .. Len(queue) - 1 : queue'[k] = queue[k + 1]
      /\ Range(queue) = {row} \cup Range(queue')
  BY <1>1, <1>2, HeadAndTail
<1> HIDE DEF row
<1>4. ASSUME NEW k \in 1 .. Len(queue')
      PROVE  /\ k + 1 \in 1 .. Len(queue) /\ queue'[k] = queue[k + 1] /\ 1 < k + 1
             /\ Precedes(row, queue'[k])
  <2>1. k + 1 \in 1 .. Len(queue) /\ queue'[k] = queue[k + 1] /\ 1 < k + 1
        /\ 1 \in 1 .. Len(queue)
    BY <1>3
  <2> QED
    BY <1>3, <2>1 DEF IInv, QueueInOrder
<1>5. row \in enqueued /\ row \in 1 .. offered /\ row \in 1 .. Rows /\ row \in Range(queue)
  <2>1. row \in enqueued
    BY <1>1, <1>3 DEF IInv, QueueInOrder
  <2> QED
    BY <1>2, <1>3, <2>1
<1>6. row \notin Range(queue')
  <2>1. ASSUME NEW k \in 1 .. Len(queue') PROVE queue'[k] # row
    BY <1>1, <1>4, <1>5 DEF Precedes
  <2> QED
    BY <1>3, <2>1, RangeMembers
<1>7. QueueInOrder'
  <2>1. ASSUME NEW k \in 1 .. Len(queue'), queue'[k] # End PROVE queue'[k] \in enqueued'
    BY <1>1, <1>4, <2>1 DEF IInv, QueueInOrder
  <2>2. ASSUME NEW j \in 1 .. Len(queue'), NEW k \in 1 .. Len(queue'), j < k
        PROVE  queue'[j] # End /\ Precedes(queue'[j], queue'[k])
    <3>1. j + 1 < k + 1
      BY <2>2
    <3> QED
      BY <1>4, <3>1 DEF IInv, QueueInOrder
  <2> QED
    BY <2>1, <2>2 DEF QueueInOrder
<1>8. Accounted'
  <2>1. Tried \subseteq 1 .. Rows /\ row \notin Tried
    <3>1. 1 .. offered \subseteq 1 .. Rows
      BY <1>2
    <3> QED
      BY <1>2, <1>5, <3>1 DEF Tried
  <2>2. Tried' = Tried \cup {row}
    BY <1>1, <1>3, <1>5, <1>6 DEF Tried
  <2> QED
    BY <1>1, <1>5, <2>1, <2>2, OneMore DEF IInv, Accounted
<1>9. EndNotSent
  BY <1>1 DEF IInv, WhereTheEndIs, EndSent
<1>10. /\ broker' \in Seq(Message) /\ BrokerInOrder' /\ BrokerIsBehind'
       /\ End \notin Range(broker')
  <2>1. CASE broker' = broker
    <3>1. BrokerIsBehind'
      BY <1>4, <2>1 DEF IInv, BrokerIsBehind
    <3> QED
      BY <1>1, <1>2, <1>9, <2>1, <3>1 DEF IInv, BrokerInOrder, EndNotSent
  <2>2. CASE broker' = Append(broker, row)
    <3>1. /\ broker' \in Seq(Message) /\ Len(broker) \in Nat
          /\ Len(broker') = Len(broker) + 1
          /\ \A k \in 1 .. Len(broker) : broker'[k] = broker[k]
          /\ broker'[Len(broker) + 1] = row /\ Range(broker') = Range(broker) \cup {row}
      BY <1>2, <1>3, <2>2, Appended
    <3>2. \A k \in 1 .. Len(broker') :
             \/ k \in 1 .. Len(broker) /\ broker'[k] = broker[k]
             \/ k = Len(broker) + 1 /\ broker'[k] = row
      BY <3>1
    <3>3. ASSUME NEW j \in 1 .. Len(broker') PROVE broker'[j] # End => broker'[j] <= offered'
      BY <1>1, <1>2, <1>5, <3>2 DEF IInv, BrokerInOrder
    <3>4. ASSUME NEW j \in 1 .. Len(broker'), NEW k \in 1 .. Len(broker'), j < k
          PROVE  Precedes(broker'[j], broker'[k])
      <4>1. j \in 1 .. Len(broker) /\ broker'[j] = broker[j]
        BY <3>1, <3>2, <3>4
      <4>2. CASE k \in 1 .. Len(broker) /\ broker'[k] = broker[k]
        BY <3>4, <4>1, <4>2 DEF IInv, BrokerInOrder
      <4>3. CASE broker'[k] = row
        <5>1. 1 \in 1 .. Len(queue)
          BY <1>3
        <5> QED
          BY <1>3, <4>1, <4>3, <5>1 DEF IInv, BrokerIsBehind
      <4> QED
        BY <3>2, <4>2, <4>3
    <3>5. ASSUME NEW j \in 1 .. Len(broker'), NEW k \in 1 .. Len(queue')
          PROVE  Precedes(broker'[j], queue'[k])
      BY <1>4, <3>2 DEF IInv, BrokerIsBehind
    <3>6. BrokerInOrder'
      BY <3>3, <3>4 DEF BrokerInOrder
    <3>7. BrokerIsBehind'
      BY <3>5 DEF BrokerIsBehind
    <3>8. End \notin Range(broker')
      BY <1>1, <1>9, <3>1 DEF EndNotSent
    <3> QED
      BY <3>1, <3>6, <3>7, <3>8
  <2> QED
    BY <1>1, <2>1, <2>2
<1>11. WhereTheEndIs'
  <2>1. EndNotSent' /\ (End \in Range(queue') <=> End \in Range(queue))
    BY <1>1, <1>3, <1>9, <1>10 DEF EndNotSent
  <2>2. queue # <<>> /\ EndEnqueued' = EndEnqueued
    BY <1>1 DEF EndEnqueued
  <2> QED
    BY <1>1, <2>1, <2>2 DEF IInv, WhereTheEndIs, EndSent
<1>12. LoopTypes' /\ EgressTypes' /\ Shutdown'
  BY <1>1, <1>3, <1>10 DEF IInv, LoopTypes, EgressTypes, Shutdown, Exited
<1> QED
  BY <1>7, <1>8, <1>10, <1>11, <1>12 DEF IInv

\* The end is received only as the last of the queue.
LEMMA PublishEndOfReplayKeeps ==
    ASSUME IInv, PublishEndOfReplay
    PROVE  IInv'
<1>1. /\ egress = "receive" /\ queue # <<>> /\ Head(queue) = End
      /\ queue' = Tail(queue) /\ egress' = "awaitAck" /\ outstanding' = TRUE
      /\ UNCHANGED <<replay, offered, enqueued, replayErr, closed, attempts,
                     eosSuccesses, eosErr, broker>>
  BY DEF PublishEndOfReplay, loop, counters
<1>2. queue \in Seq(Message) /\ enqueued \subseteq 1 .. offered /\ offered \in 0 .. Rows
  BY DEF IInv, LoopTypes, EgressTypes
<1>3. /\ Len(queue) \in Nat \ {0} /\ End = queue[1]
      /\ queue' \in Seq(Message) /\ Len(queue') = Len(queue) - 1
      /\ Range(queue) = {End} \cup Range(queue')
  BY <1>1, <1>2, HeadAndTail
<1>4. Len(queue) = 1
  <2>1. SUFFICES ASSUME Len(queue) # 1 PROVE FALSE
    OBVIOUS
  <2>2. 1 \in 1 .. Len(queue) /\ 2 \in 1 .. Len(queue) /\ 1 < 2
    BY <1>3, <2>1
  <2> QED
    BY <1>3, <2>2 DEF IInv, QueueInOrder
<1>5. queue' = <<>> /\ Len(queue') = 0
  BY <1>3, <1>4
<1>6. Range(queue') = {}
  BY <1>5, EmptySequence
<1>7. QueueInOrder' /\ BrokerIsBehind' /\ BrokerInOrder'
  <2>1. QueueInOrder'
    BY <1>5 DEF QueueInOrder
  <2>2. BrokerIsBehind'
    BY <1>5 DEF BrokerIsBehind
  <2>3. BrokerInOrder'
    BY <1>1 DEF IInv, BrokerInOrder
  <2> QED
    BY <2>1, <2>2, <2>3
<1>8. Accounted'
  <2>1. End \notin enqueued
    BY <1>2, Messages
  <2>2. Tried' = Tried
    BY <1>1, <1>3, <1>6, <2>1 DEF Tried
  <2> QED
    BY <1>1, <2>2 DEF IInv, Accounted
<1>9. EndEnqueued /\ EndNotSent /\ offered = Rows
  BY <1>1, <1>3 DEF IInv, WhereTheEndIs, EndSent
<1>10. WhereTheEndIs'
  BY <1>1, <1>5, <1>9 DEF WhereTheEndIs, EndEnqueued, EndNotSent, EndSent
<1>11. LoopTypes' /\ EgressTypes' /\ Shutdown'
  BY <1>1, <1>3 DEF IInv, LoopTypes, EgressTypes, Shutdown, Exited
<1> QED
  BY <1>7, <1>8, <1>10, <1>11 DEF IInv

\* The steps of the egress that touch neither the queue nor the broker.
LEMMA AnswerKeeps ==
    ASSUME IInv, Acknowledged \/ NotAcknowledged \/ QueueClosed
    PROVE  IInv'
<1>1. /\ UNCHANGED <<replay, offered, enqueued, replayErr, closed, queue, attempts,
                     broker>>
      /\ \/ /\ egress = "awaitAck" /\ egress' = "receive" /\ End \in Range(broker)
            /\ eosSuccesses' = eosSuccesses + 1 /\ eosErr' = eosErr
            /\ outstanding' = FALSE
         \/ /\ egress = "awaitAck" /\ egress' = "receive" /\ eosErr' = TRUE
            /\ UNCHANGED <<eosSuccesses, outstanding>>
         \/ /\ egress = "receive" /\ egress' = "done" /\ closed /\ queue = <<>>
            /\ UNCHANGED <<eosSuccesses, eosErr, outstanding>>
  BY DEF Acknowledged, NotAcknowledged, QueueClosed, loop, counters
<1>2. egress = "awaitAck" => EndEnqueued /\ EndSent /\ eosSuccesses = 0 /\ ~eosErr
  BY DEF IInv, WhereTheEndIs, EndNotSent, EndSent
<1>3. QueueInOrder' /\ BrokerInOrder' /\ BrokerIsBehind' /\ Accounted' /\ LoopTypes'
  BY <1>1
     DEF IInv, QueueInOrder, BrokerInOrder, BrokerIsBehind, Accounted, Tried, LoopTypes
<1>4. EgressTypes'
  <2>1. eosSuccesses' \in {0, 1}
    BY <1>1, <1>2 DEF IInv, EgressTypes
  <2>2. eosErr' \in BOOLEAN /\ outstanding' \in BOOLEAN
    BY <1>1 DEF IInv, EgressTypes
  <2>3. egress' \in {"receive", "awaitAck", "done"}
    BY <1>1
  <2> QED
    BY <1>1, <2>1, <2>2, <2>3 DEF IInv, EgressTypes
<1>5. WhereTheEndIs'
  <2>1. EndEnqueued' = EndEnqueued
    BY <1>1 DEF EndEnqueued
  <2>2. EndNotSent => EndNotSent'
    BY <1>1 DEF EndNotSent
  <2>3. EndSent => EndSent'
    BY <1>1 DEF EndSent
  <2> QED
    BY <1>1, <2>1, <2>2, <2>3 DEF IInv, WhereTheEndIs
<1>6. Shutdown'
  BY <1>1 DEF IInv, Shutdown, Exited
<1> QED
  BY <1>3, <1>4, <1>5, <1>6 DEF IInv

\* The broker takes the end when nothing is queued any more.
LEMMA TakeEndKeeps ==
    ASSUME IInv, TakeEnd
    PROVE  IInv'
<1>1. /\ outstanding /\ broker' = Append(broker, End)
      /\ UNCHANGED <<replay, offered, enqueued, replayErr, closed, queue, egress,
                     attempts, eosSuccesses, eosErr, outstanding>>
  BY DEF TakeEnd, loop, counters
<1>2. queue \in Seq(Message) /\ broker \in Seq(Message)
  BY DEF IInv, EgressTypes
<1>3. EndEnqueued /\ EndSent /\ offered = Rows /\ queue = <<>>
  BY <1>1 DEF IInv, WhereTheEndIs, EndNotSent, EndSent
<1>4. /\ broker' \in Seq(Message) /\ Len(broker) \in Nat
      /\ Len(broker') = Len(broker) + 1
      /\ \A k \in 1 .. Len(broker) : broker'[k] = broker[k]
      /\ broker'[Len(broker) + 1] = End /\ Range(broker') = Range(broker) \cup {End}
  BY <1>1, <1>2, Appended, Messages
<1>5. BrokerInOrder'
  <2>1. \A k \in 1 .. Len(broker') : \/ k \in 1 .. Len(broker) /\ broker'[k] = broker[k]
                                     \/ k = Len(broker) + 1 /\ broker'[k] = End
    BY <1>4
  <2>2. ASSUME NEW j \in 1 .. Len(broker') PROVE broker'[j] # End => broker'[j] <= offered'
    BY <1>1, <2>1 DEF IInv, BrokerInOrder
  <2>3. ASSUME NEW j \in 1 .. Len(broker'), NEW k \in 1 .. Len(broker'), j < k
        PROVE  Precedes(broker'[j], broker'[k])
    <3>1. j \in 1 .. Len(broker) /\ broker'[j] = broker[j]
      BY <1>4, <2>1, <2>3
    <3>2. CASE k \in 1 .. Len(broker) /\ broker'[k] = broker[k]
      BY <2>3, <3>1, <3>2 DEF IInv, BrokerInOrder
    <3> QED
      BY <2>1, <3>2 DEF Precedes
  <2> QED
    BY <2>2, <2>3 DEF BrokerInOrder
<1>6. BrokerIsBehind'
  <2>1. Len(queue') = 0
    BY <1>1, <1>3, EmptySequence
  <2> QED
    BY <2>1 DEF BrokerIsBehind
<1>7. WhereTheEndIs'
  BY <1>1, <1>3, <1>4 DEF WhereTheEndIs, EndEnqueued, EndSent
<1>8. QueueInOrder' /\ Accounted' /\ LoopTypes' /\ EgressTypes' /\ Shutdown'
  BY <1>1, <1>4
     DEF IInv, QueueInOrder, Accounted, Tried, LoopTypes, EgressTypes, Shutdown, Exited
<1> QED
  BY <1>5, <1>6, <1>7, <1>8 DEF IInv

-----------------------------------------------------------------------------
LEMMA Inductive == IInv /\ [Next]_vars => IInv'
<1> SUFFICES ASSUME IInv, [Next]_vars PROVE IInv'
  OBVIOUS
<1>1. CASE ReplayLoop
  BY <1>1, OfferKeeps, LoopMovesKeeps, EnqueueEndOfReplayKeeps DEF ReplayLoop
<1>2. CASE Egress
  BY <1>2, PublishTelemetryKeeps, PublishEndOfReplayKeeps, AnswerKeeps DEF Egress
<1>3. CASE TakeEnd
  BY <1>3, TakeEndKeeps
<1>4. CASE UNCHANGED vars
  <2>1. UNCHANGED <<replay, offered, enqueued, replayErr, closed, queue, egress, attempts,
                    eosSuccesses, eosErr, outstanding, broker>>
    BY <1>4 DEF vars, loop, counters
  <2> QED
    BY <2>1 DEF IInv, LoopTypes, EgressTypes, QueueInOrder, BrokerInOrder,
                BrokerIsBehind, Accounted, Tried, WhereTheEndIs, EndEnqueued,
                EndNotSent, EndSent, Shutdown, Exited
<1> QED
  BY <1>1, <1>2, <1>3, <1>4 DEF Next, Terminated

LEMMA Invariance == Spec => []IInv
<1>1. Init => IInv
  BY InitialState
<1>2. IInv /\ [Next]_vars => IInv'
  BY Inductive
<1> QED
  BY <1>1, <1>2, PTL DEF Spec

-----------------------------------------------------------------------------
(***************************************************************************)
(* What reaches the broker is in the order of the shard, and nothing but   *)
(* the end again comes after the end (TryEnqueueTelemetry,                 *)
(* EnqueueEndOfReplay, ReplayEgress.run).                                  *)
(***************************************************************************)
THEOREM NothingOvertakes == Spec => []EndComesLast
<1>1. IInv => EndComesLast
  <2> SUFFICES ASSUME IInv PROVE EndComesLast
    OBVIOUS
  <2>1. DOMAIN broker = 1 .. Len(broker)
    BY DEF IInv, EgressTypes
  <2> QED
    BY <2>1 DEF IInv, BrokerInOrder, Precedes, EndComesLast
<1> QED
  BY <1>1, Invariance, PTL

(***************************************************************************)
(* However a simulator ends, every row its queue took was tried, and it    *)
(* reports a completed replay exactly when the end of a whole shard was    *)
(* acknowledged (replaySite, CloseAndWait).                                *)
(***************************************************************************)
THEOREM HonestReport == Spec => []ReportIsHonest
<1>1. IInv => ReportIsHonest
  <2> SUFFICES ASSUME IInv, Exited PROVE ReportIsHonest
    BY DEF ReportIsHonest
  <2>1. queue = <<>> /\ egress = "done" /\ (replay = "completed" <=> (~replayErr /\ ~eosErr))
    BY DEF IInv, Shutdown
  <2>2. Range(queue) = {}
    BY <2>1, EmptySequence
  <2>3. attempts = Cardinality(enqueued)
    <3>1. Tried = enqueued
      BY <2>2 DEF Tried
    <3> QED
      BY <3>1 DEF IInv, Accounted
  <2>4. CASE replayErr
    <3>1. eosSuccesses = 0
      BY <2>4 DEF IInv, WhereTheEndIs, EndEnqueued, EndNotSent
    <3> QED
      BY <2>1, <2>3, <2>4, <3>1 DEF ReportIsHonest
  <2>5. CASE ~replayErr
    <3>1. EndSent /\ offered = Rows
      BY <2>2, <2>5 DEF IInv, WhereTheEndIs, EndEnqueued, Exited
    <3> QED
      BY <2>1, <2>3, <2>5, <3>1 DEF ReportIsHonest, EndSent
  <2> QED
    BY <2>4, <2>5
<1> QED
  BY <1>1, Invariance, PTL
=============================================================================
