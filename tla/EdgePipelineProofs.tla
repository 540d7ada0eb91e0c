-------------------------- MODULE EdgePipelineProofs --------------------------
(***************************************************************************)
(* Theorems about EdgePipeline, for every capacity, batch size and number  *)
(* of events: type correctness, that the callback never blocks, that the   *)
(* Edge reports success only with its end of input in the log, that what   *)
(* it writes is a stream without gaps, whatever is repeated, and that no   *)
(* event is lost or counts twice.                                          *)
(***************************************************************************)
EXTENDS EdgePipeline, TLAPS

Event == [kind : {"telemetry"}, event : accepted, start : 0 .. LastStart]

Window == [start : 0 .. LastStart, events : SUBSET (1 .. MaxEvents)]

Output ==
    {EndOfInput}
      \cup [kind : {"aggregate"}, start : Nat, end : Nat, through : Nat,
            events : SUBSET (1 .. MaxEvents)]

\* The slot of the event the loop has received is not yet given back.
InHand == IF processor = "process" THEN 1 ELSE 0

\* The EOS is in the channel: it is last.
EOSInChannel == IF records # <<>> /\ records[Len(records)] = EOS THEN 1 ELSE 0

-----------------------------------------------------------------------------
(***************************************************************************)
(* The inductive invariant: types, slots and the end.  The stream has its  *)
(* own, StreamInv, below.                                                  *)
(***************************************************************************)
IngressTypes ==
    /\ received \in 0 .. MaxEvents
    /\ accepted \subseteq 1 .. received
    /\ records \in Seq({EOS} \cup Event)
    /\ telemetryQueued \in 0 .. Capacity
    /\ eosRegistered \in BOOLEAN /\ closed \in BOOLEAN

LoopTypes ==
    /\ processor \in {"next", "process", "emit", "emitLast", "returned", "failed"}
    /\ discarded \subseteq accepted
    /\ taken \in Seq(Event) /\ Len(taken) = InHand
    /\ current \in Seq(Window) /\ Len(current) <= 1
    /\ outbox \in Seq(Output) /\ Len(outbox) <= 2
    /\ processor = "emit" => Len(outbox) = 1
    /\ processor = "emitLast" => Len(outbox) >= 1
    /\ eosProcessed \in BOOLEAN

KafkaTypes ==
    /\ egress \in {"select", "flush", "flushThenEnd", "flushThenReturn", "end",
                   "returned", "failed"}
    /\ pending \in Seq(Output) /\ Len(pending) <= BatchSize
    /\ egress = "select" => Len(pending) < BatchSize
    /\ log \in Seq(Output)

MainTypes ==
    /\ phase \in {"starting", "waiting", "stopping", "draining", "exitedOK",
                  "exitedWithError"}
    /\ startupFailed \in BOOLEAN

\* The counter is what the channel and the loop hold, the EOS aside.
Balance ==
    /\ \A k \in 1 .. Len(records) :
          records[k] = EOS => k = Len(records) /\ eosRegistered
    /\ Len(records) + InHand = telemetryQueued + EOSInChannel

\* Where the egress is once the loop handed it the end of input.
EndWritten ==
    eosProcessed =>
        \/ egress \in {"flushThenEnd", "end", "failed"}
        \/ egress = "returned" /\ EndOfInput \in Range(log)

IInv ==
    /\ IngressTypes /\ LoopTypes /\ KafkaTypes /\ MainTypes
    /\ Balance /\ EndWritten /\ ExitIsHonest

-----------------------------------------------------------------------------
LEMMA SeqOfLarger ==
    ASSUME NEW S, NEW T, S \subseteq T, NEW s \in Seq(S)
    PROVE  s \in Seq(T)
OBVIOUS

LEMMA EmptySequence ==
    ASSUME NEW S
    PROVE  <<>> \in Seq(S) /\ Len(<<>>) = 0
OBVIOUS

LEMMA Singleton ==
    ASSUME NEW S, NEW x \in S
    PROVE  <<x>> \in Seq(S) /\ Len(<<x>>) = 1 /\ <<x>>[1] = x
OBVIOUS

LEMMA Appended ==
    ASSUME NEW S, NEW s \in Seq(S), NEW x \in S
    PROVE  Append(s, x) \in Seq(S) /\ Len(Append(s, x)) = Len(s) + 1 /\ Len(s) \in Nat
OBVIOUS

LEMMA NonEmpty ==
    ASSUME NEW S, NEW s \in Seq(S), Len(s) # 0
    PROVE  s # <<>>
OBVIOUS

LEMMA HeadAndTail ==
    ASSUME NEW S, NEW s \in Seq(S), s # <<>>
    PROVE  /\ Len(s) \in Nat \ {0}
           /\ Head(s) = s[1] /\ Head(s) \in S
           /\ Tail(s) \in Seq(S) /\ Len(Tail(s)) = Len(s) - 1
           /\ \A k \in 1 .. Len(s) - 1 : Tail(s)[k] = s[k + 1]
<1>1. Len(s) \in Nat \ {0}
  OBVIOUS
<1> QED
  BY <1>1

LEMMA RangeMembers ==
    ASSUME NEW S, NEW s \in Seq(S)
    PROVE  \A x \in Range(s) : x \in S
BY DEF Range

LEMMA ConcatRange ==
    ASSUME NEW S, NEW s \in Seq(S), NEW t \in Seq(S)
    PROVE  /\ s \o t \in Seq(S)
           /\ \A x \in Range(s) : x \in Range(s \o t)
           /\ \A x \in Range(t) : x \in Range(s \o t)
<1>1. s \o t \in Seq(S)
  OBVIOUS
<1>2. ASSUME NEW k \in 1 .. Len(s)
      PROVE  k \in 1 .. Len(s \o t) /\ (s \o t)[k] = s[k]
  OBVIOUS
<1>3. ASSUME NEW k \in 1 .. Len(t)
      PROVE  k + Len(s) \in 1 .. Len(s \o t) /\ (s \o t)[k + Len(s)] = t[k]
  OBVIOUS
<1>4. /\ DOMAIN s = 1 .. Len(s) /\ DOMAIN t = 1 .. Len(t)
      /\ DOMAIN (s \o t) = 1 .. Len(s \o t)
  BY <1>1
<1>5. ASSUME NEW x \in Range(s) PROVE x \in Range(s \o t)
  BY <1>2, <1>4 DEF Range
<1>6. ASSUME NEW x \in Range(t) PROVE x \in Range(s \o t)
  BY <1>3, <1>4 DEF Range
<1> QED
  BY <1>1, <1>5, <1>6

LEMMA InitialState == Init => IInv
<1> SUFFICES ASSUME Init PROVE IInv
  OBVIOUS
<1>1. /\ received = 0 /\ accepted = {} /\ discarded = {}
      /\ records = <<>> /\ telemetryQueued = 0
      /\ eosRegistered = FALSE /\ closed = FALSE
  BY DEF Init
<1>2. /\ processor = "next" /\ taken = <<>> /\ current = <<>> /\ outbox = <<>>
      /\ eosProcessed = FALSE
  BY DEF Init
<1>3. egress = "select" /\ pending = <<>> /\ log = <<>>
  BY DEF Init
<1>4. phase = "starting" /\ startupFailed = FALSE
  BY DEF Init
<1>5. InHand = 0 /\ EOSInChannel = 0
  BY <1>1, <1>2 DEF InHand, EOSInChannel
<1>6. IngressTypes
  <2>1. records \in Seq({EOS} \cup Event)
    BY <1>1, EmptySequence
  <2>2. received \in 0 .. MaxEvents /\ telemetryQueued \in 0 .. Capacity
    BY <1>1, ConstantsAssumption
  <2>3. accepted \subseteq 1 .. received
    BY <1>1
  <2>4. eosRegistered \in BOOLEAN /\ closed \in BOOLEAN
    BY <1>1
  <2> QED
    BY <2>1, <2>2, <2>3, <2>4 DEF IngressTypes
<1>7. LoopTypes
  <2>1. /\ taken \in Seq(Event) /\ current \in Seq(Window) /\ outbox \in Seq(Output)
        /\ Len(taken) = 0 /\ Len(current) = 0 /\ Len(outbox) = 0
    BY <1>2, EmptySequence
  <2>2. eosProcessed \in BOOLEAN /\ discarded \subseteq accepted
    BY <1>1, <1>2
  <2>3. processor = "next"
    BY <1>2
  <2> QED
    BY <1>5, <2>1, <2>2, <2>3 DEF LoopTypes
<1>8. KafkaTypes
  <2>1. pending \in Seq(Output) /\ log \in Seq(Output) /\ Len(pending) = 0
    BY <1>3, EmptySequence
  <2> QED
    BY <1>3, <2>1, ConstantsAssumption DEF KafkaTypes
<1>9. Balance
  <2>1. Len(records) = 0
    BY <1>1, EmptySequence
  <2> QED
    BY <1>1, <1>5, <2>1 DEF Balance
<1> QED
  BY <1>2, <1>4, <1>6, <1>7, <1>8, <1>9 DEF IInv, MainTypes, EndWritten, ExitIsHonest

-----------------------------------------------------------------------------
(***************************************************************************)
(* The callback.                                                           *)
(***************************************************************************)
LEMMA EnqueueKeeps ==
    ASSUME IInv, NEW s \in 0 .. LastStart, Enqueue(s)
    PROVE  IInv'
<1> USE DEF Enqueue, ingress, loop, kafka, HasRoom
<1> DEFINE r == Telemetry(received', s)
<1>1. /\ received \in 0 .. MaxEvents /\ received' = received + 1
      /\ received' \in 0 .. MaxEvents
      /\ accepted' = accepted \cup {received'}
      /\ accepted' \subseteq 1 .. received'
  BY ConstantsAssumption DEF IInv, IngressTypes
<1>2. r \in Event' /\ r # EOS
  BY <1>1 DEF Event, Telemetry, EOS
<1>3. Event \subseteq Event'
  BY <1>1 DEF Event
<1>4. records \in Seq(({EOS} \cup Event)') /\ records' = Append(records, r)
  BY <1>3, SeqOfLarger DEF IInv, IngressTypes
<1>5. IngressTypes'
  BY <1>1, <1>2, <1>4, ConstantsAssumption DEF IInv, IngressTypes
<1>6. LoopTypes'
  <2>1. taken' \in Seq(Event')
    BY <1>3, SeqOfLarger DEF IInv, LoopTypes
  <2> QED
    BY <1>1, <2>1 DEF IInv, LoopTypes, InHand, Window, Output
<1>7. Balance'
  <2>1. /\ Len(records') = Len(records) + 1
        /\ records'[Len(records')] = r
        /\ \A k \in 1 .. Len(records) : records'[k] = records[k]
    BY <1>4
  <2>2. \A k \in 1 .. Len(records) : records[k] # EOS
    BY DEF IInv, Balance
  <2>3. EOSInChannel = 0 /\ EOSInChannel' = 0
    BY <1>2, <1>4, <2>1, <2>2 DEF EOSInChannel
  <2> QED
    BY <1>2, <1>4, <2>1, <2>2, <2>3 DEF IInv, Balance, IngressTypes, InHand
<1> QED
  BY <1>5, <1>6, <1>7
     DEF IInv, KafkaTypes, MainTypes, EndWritten, ExitIsHonest, Output

LEMMA RegisterKeeps ==
    ASSUME IInv, RegisterEndOfReplay
    PROVE  IInv'
<1> USE DEF RegisterEndOfReplay, loop, kafka
<1>1. records' \in Seq({EOS} \cup Event) /\ records' = Append(records, EOS)
  BY DEF IInv, IngressTypes
<1>2. IngressTypes'
  BY <1>1 DEF IInv, IngressTypes, Event
<1>3. Balance'
  <2>1. /\ Len(records') = Len(records) + 1
        /\ records'[Len(records')] = EOS
        /\ \A k \in 1 .. Len(records) : records'[k] = records[k]
    BY <1>1 DEF IInv, IngressTypes
  <2>2. \A k \in 1 .. Len(records) : records[k] # EOS
    BY DEF IInv, Balance
  <2>3. EOSInChannel = 0 /\ EOSInChannel' = 1
    BY <1>1, <2>1, <2>2 DEF EOSInChannel, IInv, IngressTypes
  <2> QED
    BY <1>1, <2>1, <2>2, <2>3 DEF IInv, Balance, IngressTypes, InHand
<1> QED
  BY <1>2, <1>3
     DEF IInv, LoopTypes, KafkaTypes, MainTypes, EndWritten, ExitIsHonest,
         InHand, Event

-----------------------------------------------------------------------------
(***************************************************************************)
(* The Edge loop.                                                          *)
(***************************************************************************)
LEMMA ReceiveTelemetryKeeps ==
    ASSUME IInv, ReceiveTelemetry
    PROVE  IInv'
<1> USE DEF ReceiveTelemetry, kafka
<1>1. /\ records \in Seq({EOS} \cup Event) /\ records # <<>>
      /\ Head(records) \in Event
      /\ records' \in Seq({EOS} \cup Event)
  BY DEF IInv, IngressTypes
<1>2. /\ Len(records) \in Nat \ {0} /\ Len(records') = Len(records) - 1
      /\ \A k \in 1 .. Len(records') : records'[k] = records[k + 1]
      /\ records[1] # EOS
  BY <1>1
<1>3. IngressTypes'
  BY <1>1 DEF IInv, IngressTypes, Event
<1>4. LoopTypes'
  BY <1>1 DEF IInv, LoopTypes, InHand, Event
<1>5. Balance'
  <2>1. InHand = 0 /\ InHand' = 1
    BY DEF InHand
  <2>2. CASE Len(records) = 1
    <3>1. EOSInChannel = 0 /\ records' = <<>>
      BY <1>1, <1>2, <2>2 DEF EOSInChannel
    <3>2. EOSInChannel' = 0
      BY <3>1 DEF EOSInChannel
    <3>3. Len(records') = 0 /\ telemetryQueued' = telemetryQueued
      BY <1>2, <2>2
    <3>4. Len(records) + InHand = telemetryQueued + EOSInChannel
      BY DEF IInv, Balance
    <3>5. Len(records') + InHand' = telemetryQueued' + EOSInChannel'
      BY <2>1, <2>2, <3>1, <3>2, <3>3, <3>4
    <3>6. \A k \in 1 .. Len(records') : FALSE
      BY <3>3
    <3> QED
      BY <3>5, <3>6 DEF Balance
  <2>3. CASE Len(records) > 1
    <3>1. Len(records') >= 1 /\ records' # <<>> /\ Len(records') \in Nat
      <4>1. Len(records') >= 1 /\ Len(records') \in Nat
        BY <1>2, <2>3
      <4> QED
        BY <4>1, EmptySequence
    <3>2. records'[Len(records')] = records[Len(records)]
      BY <1>2, <3>1
    <3>3. EOSInChannel' = EOSInChannel
      BY <1>1, <3>1, <3>2 DEF EOSInChannel
    <3>4. ASSUME NEW k \in 1 .. Len(records'), records'[k] = EOS
          PROVE  k = Len(records') /\ eosRegistered'
      <4>1. k + 1 \in 1 .. Len(records) /\ records[k + 1] = EOS
        BY <1>2, <3>1, <3>4
      <4>2. k + 1 = Len(records) /\ eosRegistered
        BY <4>1 DEF IInv, Balance
      <4>3. eosRegistered' = eosRegistered
        OBVIOUS
      <4>4. Len(records) \in Nat /\ Len(records') = Len(records) - 1 /\ k \in Int
        BY <1>2
      <4> QED
        BY <4>2, <4>3, <4>4
    <3> QED
      BY <1>2, <2>1, <3>3, <3>4 DEF IInv, Balance, IngressTypes
  <2> QED
    BY <1>2, <2>2, <2>3
<1> QED
  BY <1>3, <1>4, <1>5
     DEF IInv, KafkaTypes, MainTypes, EndWritten, ExitIsHonest

LEMMA ProcessTelemetryKeeps ==
    ASSUME IInv, ProcessTelemetry
    PROVE  IInv'
<1> DEFINE n == Head(taken).event
           s == Head(taken).start
<1>0. /\ processor = "process"
      /\ telemetryQueued' = telemetryQueued - 1
      /\ taken' = <<>>
      /\ Discard(n, s) \/ SameWindow(n, s) \/ LaterWindow(n, s)
      /\ UNCHANGED <<received, accepted, records, eosRegistered, closed,
                     eosProcessed, egress, pending, log, phase, startupFailed>>
  BY DEF ProcessTelemetry, kafka
<1>1. /\ taken \in Seq(Event) /\ Len(taken) = 1 /\ InHand = 1
      /\ n \in accepted /\ s \in 0 .. LastStart
      /\ accepted \subseteq 1 .. MaxEvents
  <2>1. taken \in Seq(Event) /\ Len(taken) = 1 /\ InHand = 1
    BY <1>0 DEF IInv, LoopTypes, InHand
  <2>2. Head(taken) \in Event
    <3>1. Len(taken) # 0
      BY <2>1
    <3>2. taken \in Seq(Event)
      BY <2>1
    <3>3. taken # <<>>
      BY <3>1, <3>2, NonEmpty
    <3> QED
      BY <3>2, <3>3, HeadAndTail
  <2>3. accepted \subseteq 1 .. MaxEvents
    BY ConstantsAssumption DEF IInv, IngressTypes
  <2>4. n \in accepted /\ s \in 0 .. LastStart
    BY <2>2 DEF Event
  <2> QED
    BY <2>1, <2>3, <2>4
<1>2. /\ processor' \in {"next", "emit"}
      /\ discarded' \subseteq accepted
      /\ current' \in Seq(Window) /\ Len(current') <= 1
      /\ outbox' \in Seq(Output) /\ Len(outbox') <= 2
      /\ processor' = "emit" => Len(outbox') = 1
  <2>1. CASE Discard(n, s)
    BY <1>1, <2>1 DEF Discard, IInv, LoopTypes
  <2>2. CASE SameWindow(n, s)
    <3>1. (UNION {w.events : w \in Range(current)}) \cup {n} \in SUBSET (1 .. MaxEvents)
      <4>1. \A w \in Range(current) : w.events \in SUBSET (1 .. MaxEvents)
        <5>1. current \in Seq(Window)
          BY DEF IInv, LoopTypes
        <5>2. \A w \in Range(current) : w \in Window
          BY <5>1, RangeMembers
        <5> QED
          BY <5>2 DEF Window
      <4>2. UNION {w.events : w \in Range(current)} \subseteq 1 .. MaxEvents
        BY <4>1
      <4>3. n \in 1 .. MaxEvents
        BY <1>1
      <4> QED
        BY <4>2, <4>3
    <3>2. [start |-> s, events |-> (UNION {w.events : w \in Range(current)}) \cup {n}]
             \in Window
      BY <1>1, <3>1 DEF Window
    <3>3. current' = <<[start |-> s,
                        events |-> (UNION {w.events : w \in Range(current)}) \cup {n}]>>
      BY <2>2 DEF SameWindow, AddMeasurement
    <3>4. current' \in Seq(Window) /\ Len(current') = 1
      BY <3>2, <3>3, Singleton
    <3>5. processor' = "next" /\ outbox' = outbox /\ discarded' = discarded
      BY <2>2 DEF SameWindow
    <3> QED
      BY <3>4, <3>5 DEF IInv, LoopTypes
  <2>3. CASE LaterWindow(n, s)
    <3>1. [start |-> s, events |-> {} \cup {n}] \in Window
      BY <1>1 DEF Window
    <3>2. Head(current) \in Window /\ current # <<>>
      BY <2>3 DEF LaterWindow, IInv, LoopTypes
    <3>3. Aggregate(Head(current).start, s, Head(current).events) \in Output
      BY <1>1, <3>2, ConstantsAssumption DEF Aggregate, Window, Output
    <3> QED
      BY <2>3, <3>1, <3>2, <3>3
         DEF LaterWindow, Flushed, AddMeasurement, IInv, LoopTypes
  <2> QED
    BY <1>0, <2>1, <2>2, <2>3
<1>3. telemetryQueued >= 1
  <2>1. Len(records) \in Nat /\ telemetryQueued \in Nat
    BY ConstantsAssumption DEF IInv, IngressTypes
  <2>2. EOSInChannel = 1 => Len(records) >= 1
    BY <2>1 DEF EOSInChannel, IInv, IngressTypes
  <2>3. EOSInChannel \in {0, 1}
    BY DEF EOSInChannel
  <2> QED
    BY <1>1, <2>1, <2>2, <2>3 DEF IInv, Balance
<1>4. IngressTypes'
  <2>1. telemetryQueued' \in 0 .. Capacity
    BY <1>0, <1>3, ConstantsAssumption DEF IInv, IngressTypes
  <2>2. records' \in Seq({EOS} \cup Event')
    BY <1>0 DEF IInv, IngressTypes, Event
  <2>3. eosRegistered' \in BOOLEAN /\ closed' \in BOOLEAN
    BY <1>0 DEF IInv, IngressTypes
  <2> QED
    BY <1>0, <2>1, <2>2, <2>3 DEF IInv, IngressTypes, EOS
<1>5. LoopTypes'
  <2>1. taken' \in Seq(Event') /\ Len(taken') = 0 /\ InHand' = 0
    BY <1>0, <1>2, EmptySequence DEF InHand
  <2>2. eosProcessed' \in BOOLEAN
    BY <1>0 DEF IInv, LoopTypes
  <2> QED
    BY <1>0, <1>2, <2>1, <2>2 DEF LoopTypes, Window, Output
<1>6. Balance'
  <2>1. InHand' = 0 /\ EOSInChannel' = EOSInChannel
    BY <1>0, <1>2 DEF InHand, EOSInChannel
  <2> QED
    <3>1. /\ Len(records) + InHand = telemetryQueued + EOSInChannel
          /\ \A k \in 1 .. Len(records) :
                records[k] = EOS => k = Len(records) /\ eosRegistered
      BY DEF IInv, Balance
    <3>2. Len(records') + InHand' = telemetryQueued' + EOSInChannel'
      <4>1. Len(records) \in Nat /\ telemetryQueued \in Nat /\ EOSInChannel \in {0, 1}
        BY ConstantsAssumption DEF IInv, IngressTypes, EOSInChannel
      <4>2. records' = records /\ telemetryQueued' = telemetryQueued - 1
        BY <1>0
      <4> QED
        BY <1>1, <2>1, <3>1, <4>1, <4>2
    <3> QED
      BY <1>0, <3>1, <3>2 DEF Balance, EOS
<1> QED
  BY <1>0, <1>4, <1>5, <1>6
     DEF IInv, KafkaTypes, MainTypes, EndWritten, ExitIsHonest, Output

LEMMA OwnAggregate ==
    ASSUME IInv
    PROVE  Flushed(Own) \in Seq(Output) /\ Len(Flushed(Own)) <= 1
<1>1. CASE current = <<>>
  BY <1>1 DEF Flushed
<1>2. CASE current # <<>>
  <2>1. Head(current) \in Window
    BY <1>2 DEF IInv, LoopTypes
  <2>2. Aggregate(Head(current).start, Own, Head(current).events) \in Output
    BY <1>2, <2>1, ConstantsAssumption DEF Aggregate, Window, Output, Own
  <2> QED
    BY <1>2, <2>2 DEF Flushed
<1> QED
  BY <1>1, <1>2

LEMMA ReceiveEndOfReplayKeeps ==
    ASSUME IInv, ReceiveEndOfReplay
    PROVE  IInv'
<1> DEFINE rest == Append(Flushed(Own), EndOfInput)
<1>1. /\ processor = "next"
      /\ records # <<>> /\ Head(records) = EOS /\ records' = Tail(records)
      /\ LastOutput(rest)
      /\ UNCHANGED <<received, accepted, telemetryQueued, eosRegistered, closed,
                     taken, eosProcessed, discarded, egress, pending, log, phase,
                     startupFailed>>
  BY DEF ReceiveEndOfReplay, kafka
<1>2. /\ records \in Seq({EOS} \cup Event) /\ Len(records) \in Nat \ {0}
      /\ records[1] = EOS
      /\ records' \in Seq({EOS} \cup Event) /\ Len(records') = Len(records) - 1
  BY <1>1, HeadAndTail DEF IInv, IngressTypes
<1>3. Len(records) = 1 /\ EOSInChannel = 1
  <2>1. 1 \in 1 .. Len(records)
    BY <1>2
  <2>2. Len(records) = 1
    BY <1>2, <2>1 DEF IInv, Balance
  <2> QED
    BY <1>1, <1>2, <2>2 DEF EOSInChannel
<1>4. Len(records') = 0 /\ records' = <<>>
  BY <1>2, <1>3, NonEmpty
<1>5. rest \in Seq(Output) /\ Len(rest) \in 1 .. 2 /\ rest # <<>>
  <2>1. EndOfInput \in Output
    BY DEF Output
  <2>2. Flushed(Own) \in Seq(Output) /\ Len(Flushed(Own)) <= 1
    BY OwnAggregate
  <2>3. /\ rest \in Seq(Output) /\ Len(rest) = Len(Flushed(Own)) + 1
        /\ Len(Flushed(Own)) \in Nat
    BY <2>1, <2>2, Appended
  <2>4. Len(rest) \in 1 .. 2
    BY <2>2, <2>3
  <2> HIDE DEF rest
  <2>5. rest # <<>>
    BY <2>3, <2>4, NonEmpty
  <2> QED
    BY <2>3, <2>4, <2>5
<1>6. processor' = "emitLast" /\ outbox' = rest /\ current' = <<>>
  BY <1>1, <1>5 DEF LastOutput
<1> HIDE DEF rest
<1>7. LoopTypes'
  <2>1. current' \in Seq(Window) /\ Len(current') = 0
    BY <1>6, EmptySequence
  <2>2. eosProcessed' \in BOOLEAN
    BY <1>1 DEF IInv, LoopTypes
  <2>3. taken' \in Seq(Event') /\ Len(taken') = InHand'
    BY <1>1, <1>6 DEF IInv, LoopTypes, InHand, Event
  <2> QED
    <3>1. /\ processor' = "emitLast" /\ discarded' \subseteq accepted'
      BY <1>1, <1>6 DEF IInv, LoopTypes
    <3>2. outbox' \in Seq(Output) /\ Len(outbox') <= 2 /\ Len(outbox') >= 1
      <4>1. outbox' = rest /\ rest \in Seq(Output) /\ Len(rest) \in 1 .. 2
        BY <1>5, <1>6
      <4>2. outbox' \in Seq(Output)
        BY <4>1
      <4>3. ASSUME NEW l \in 1 .. 2 PROVE l <= 2 /\ l >= 1
        OBVIOUS
      <4>4. Len(outbox') <= 2 /\ Len(outbox') >= 1
        BY <4>1, <4>3
      <4> QED
        BY <4>2, <4>4
    <3> QED
      BY <2>1, <2>2, <2>3, <3>1, <3>2 DEF LoopTypes, Window, Output
<1>8. IngressTypes'
  BY <1>1, <1>2 DEF IInv, IngressTypes, Event
<1>9. Balance'
  <2>1. InHand = 0 /\ InHand' = 0 /\ EOSInChannel' = 0
    BY <1>1, <1>4, <1>6 DEF InHand, EOSInChannel
  <2> QED
    <3>1. Len(records) + InHand = telemetryQueued + EOSInChannel
      BY DEF IInv, Balance
    <3>2. telemetryQueued \in Nat /\ telemetryQueued' = telemetryQueued
      BY <1>1, ConstantsAssumption DEF IInv, IngressTypes
    <3>3. Len(records') + InHand' = telemetryQueued' + EOSInChannel'
      BY <1>3, <1>4, <2>1, <3>1, <3>2
    <3>4. \A k \in 1 .. Len(records') : FALSE
      BY <1>4
    <3> QED
      BY <3>3, <3>4 DEF Balance
<1> QED
  BY <1>1, <1>7, <1>8, <1>9
     DEF IInv, KafkaTypes, MainTypes, EndWritten, ExitIsHonest, Output

LEMMA ReceiveClosedKeeps ==
    ASSUME IInv, ReceiveClosed
    PROVE  IInv'
<1> USE DEF ReceiveClosed, ingress, kafka
<1>1. /\ processor = "next" /\ processor' \in {"returned", "emitLast"}
      /\ outbox' = Flushed(Own) /\ current' = <<>>
      /\ processor' = "emitLast" => outbox' # <<>>
  BY DEF LastOutput
<1>2. LoopTypes'
  BY <1>1, OwnAggregate DEF IInv, LoopTypes, InHand, Event
<1>3. IngressTypes' /\ Balance'
  BY <1>1 DEF IInv, IngressTypes, Balance, InHand, EOSInChannel, Event
<1> QED
  BY <1>2, <1>3 DEF IInv, KafkaTypes, MainTypes, EndWritten, ExitIsHonest

LEMMA EmitKeeps ==
    ASSUME IInv, Emit
    PROVE  IInv'
<1>1. /\ processor \in {"emit", "emitLast"} /\ egress = "select"
      /\ outbox' = Tail(outbox) /\ processor' = AfterEmit
      /\ UNCHANGED <<received, accepted, records, telemetryQueued, eosRegistered,
                     closed, taken, current, discarded, log, phase, startupFailed>>
  BY DEF Emit, ingress
<1>2. \/ /\ egress' = "flushThenEnd" /\ eosProcessed' = TRUE
         /\ pending' = pending
      \/ /\ pending' = Append(pending, Head(outbox))
         /\ egress' = IF Len(pending') >= BatchSize THEN "flush" ELSE "select"
         /\ eosProcessed' = eosProcessed
  BY DEF Emit
<1>3. /\ outbox \in Seq(Output) /\ Len(outbox) \in 1 .. 2
      /\ Head(outbox) \in Output
      /\ outbox' \in Seq(Output) /\ Len(outbox') = Len(outbox) - 1
  <2>1. /\ outbox \in Seq(Output) /\ Len(outbox) <= 2
        /\ processor = "emit" => Len(outbox) = 1
        /\ processor = "emitLast" => Len(outbox) >= 1
    BY DEF IInv, LoopTypes
  <2>2. Len(outbox) \in 1 .. 2
    <3>1. Len(outbox) \in Nat
      BY <2>1
    <3>2. Len(outbox) >= 1
      BY <1>1, <2>1
    <3> QED
      BY <2>1, <3>1, <3>2
  <2>3. outbox # <<>>
    BY <2>1, <2>2, NonEmpty
  <2> QED
    BY <1>1, <2>1, <2>2, <2>3, HeadAndTail
<1>4. /\ processor' \in {"next", "emitLast", "returned"}
      /\ processor' = "emitLast" => Len(outbox') >= 1
  <2>1. processor = "emit" => Len(outbox) = 1
    BY DEF IInv, LoopTypes
  <2> QED
    BY <1>1, <1>3, <2>1 DEF AfterEmit
<1>5. LoopTypes'
  <2>1. taken' \in Seq(Event') /\ Len(taken') = InHand'
    BY <1>1, <1>4 DEF IInv, LoopTypes, InHand, Event
  <2>2. eosProcessed' \in BOOLEAN
    BY <1>2 DEF IInv, LoopTypes
  <2> QED
    BY <1>1, <1>3, <1>4, <2>1, <2>2 DEF IInv, LoopTypes, Window, Output
<1>6. IngressTypes'
  BY <1>1 DEF IInv, IngressTypes, Event
<1>7. Balance'
  <2>1. InHand = 0 /\ InHand' = 0 /\ EOSInChannel' = EOSInChannel
    BY <1>1, <1>4 DEF InHand, EOSInChannel
  <2> QED
    BY <1>1, <2>1 DEF IInv, Balance
<1>8. KafkaTypes'
  <2>1. pending \in Seq(Output) /\ Len(pending) < BatchSize
    BY <1>1 DEF IInv, KafkaTypes
  <2>2. /\ Append(pending, Head(outbox)) \in Seq(Output)
        /\ Len(Append(pending, Head(outbox))) = Len(pending) + 1 /\ Len(pending) \in Nat
    BY <1>3, <2>1, Appended
  <2>3. pending' \in Seq(Output) /\ Len(pending') <= BatchSize
    BY <1>2, <2>1, <2>2, ConstantsAssumption
  <2>4. /\ egress' \in {"flushThenEnd", "flush", "select"}
        /\ egress' = "select" => Len(pending') < BatchSize
    BY <1>2, <2>1, <2>2, ConstantsAssumption
  <2> QED
    BY <1>1, <2>3, <2>4 DEF IInv, KafkaTypes, Output
<1>9. EndWritten'
  BY <1>1, <1>2 DEF IInv, EndWritten
<1> QED
  BY <1>1, <1>5, <1>6, <1>7, <1>8, <1>9 DEF IInv, MainTypes, ExitIsHonest

LEMMA EmitFailsKeeps ==
    ASSUME IInv, EmitFails
    PROVE  IInv'
BY DEF EmitFails, ingress, kafka, IInv, IngressTypes, LoopTypes, KafkaTypes,
       MainTypes, Balance, InHand, EOSInChannel, EndWritten, ExitIsHonest, Event

-----------------------------------------------------------------------------
(***************************************************************************)
(* The egress.                                                             *)
(***************************************************************************)
LEMMA LoopUnchanged ==
    ASSUME IInv, UNCHANGED <<received, ingress, loop>>
    PROVE  IngressTypes' /\ LoopTypes' /\ Balance'
BY DEF IInv, IngressTypes, LoopTypes, Balance, InHand, EOSInChannel, Event,
       ingress, loop

LEMMA EgressKeeps ==
    ASSUME IInv, Egress \/ BatchTimeout
    PROVE  IInv'
<1>1. UNCHANGED <<received, ingress, loop, phase, startupFailed>>
  BY DEF Egress, BatchTimeout, OutputClosed, FlushBatch, FlushFails,
         PublishEndOfInput
<1>2. IngressTypes' /\ LoopTypes' /\ Balance' /\ MainTypes'
  BY <1>1, LoopUnchanged DEF IInv, MainTypes
<1>3. /\ pending \in Seq(Output) /\ Len(pending) <= BatchSize /\ log \in Seq(Output)
      /\ <<EndOfInput>> \in Seq(Output)
      /\ EndOfInput \in Range(<<EndOfInput>>)
  BY DEF IInv, KafkaTypes, Output, Range
<1>4. /\ log' \in Seq(Output)
      /\ EndOfInput \in Range(log) => EndOfInput \in Range(log')
  <2>1. ASSUME NEW batch \in Seq(Output),
               Written(batch) \/ NotAcknowledged(batch)
        PROVE  /\ log' \in Seq(Output)
               /\ EndOfInput \in Range(log) => EndOfInput \in Range(log')
    <3>1. /\ log \o batch \in Seq(Output)
          /\ EndOfInput \in Range(log) => EndOfInput \in Range(log \o batch)
      BY <1>3, ConcatRange
    <3>2. /\ log \o batch \o batch \in Seq(Output)
          /\ EndOfInput \in Range(log)
                => EndOfInput \in Range(log \o batch \o batch)
      BY <3>1, ConcatRange
    <3> QED
      BY <1>3, <2>1, <3>1, <3>2 DEF Written, NotAcknowledged
  <2> QED
    BY <1>3, <2>1
       DEF Egress, BatchTimeout, OutputClosed, FlushBatch, FlushFails,
           PublishEndOfInput
<1>5. KafkaTypes'
  <2>1. CASE OutputClosed \/ BatchTimeout
    BY <1>3, <2>1 DEF IInv, KafkaTypes, OutputClosed, BatchTimeout
  <2>2. CASE FlushBatch
    BY <1>4, <2>2, ConstantsAssumption DEF KafkaTypes, FlushBatch, AfterFlush
  <2>3. CASE FlushFails \/ PublishEndOfInput
    BY <1>3, <1>4, <2>3 DEF KafkaTypes, FlushFails, PublishEndOfInput
  <2> QED
    BY <2>1, <2>2, <2>3 DEF Egress
<1>6. EndWritten'
  <2>1. CASE OutputClosed \/ BatchTimeout
    BY <1>1, <2>1 DEF IInv, EndWritten, OutputClosed, BatchTimeout, loop
  <2>2. CASE FlushBatch
    BY <1>1, <2>2 DEF IInv, EndWritten, FlushBatch, AfterFlush, loop
  <2>3. CASE FlushFails
    BY <2>3 DEF EndWritten, FlushFails
  <2>4. CASE PublishEndOfInput
    <3>1. ASSUME Written(<<EndOfInput>>) PROVE EndOfInput \in Range(log')
      <4>1. /\ log \o <<EndOfInput>> \in Seq(Output)
            /\ EndOfInput \in Range(log \o <<EndOfInput>>)
        BY <1>3, ConcatRange
      <4>2. EndOfInput \in Range(log \o <<EndOfInput>> \o <<EndOfInput>>)
        BY <1>3, <4>1, ConcatRange
      <4> QED
        BY <3>1, <4>1, <4>2 DEF Written
    <3> QED
      BY <2>4, <3>1 DEF EndWritten, PublishEndOfInput
  <2> QED
    BY <2>1, <2>2, <2>3, <2>4 DEF Egress
<1> QED
  BY <1>1, <1>2, <1>4, <1>5, <1>6 DEF IInv, ExitIsHonest

-----------------------------------------------------------------------------
(***************************************************************************)
(* main.                                                                   *)
(***************************************************************************)
LEMMA MainKeeps ==
    ASSUME IInv, Main \/ Signal
    PROVE  IInv'
<1> USE DEF Main, Signal, StartupFails, Connected, StageEnded, CloseIngress, Drained
<1>1. UNCHANGED <<received, accepted, records, telemetryQueued, eosRegistered,
                  loop, kafka>>
  BY DEF ingress
<1>2. closed' \in BOOLEAN
  BY DEF ingress, IInv, IngressTypes
<1>3. IngressTypes' /\ LoopTypes' /\ Balance'
  BY <1>1, <1>2
     DEF IInv, IngressTypes, LoopTypes, Balance, InHand, EOSInChannel, Event, loop
<1>4. KafkaTypes' /\ EndWritten'
  BY <1>1 DEF IInv, KafkaTypes, EndWritten, kafka, loop
<1>5. MainTypes'
  BY DEF IInv, MainTypes
<1>6. ExitIsHonest'
  BY <1>1 DEF IInv, EndWritten, ExitIsHonest, ExitOK, kafka, loop
<1> QED
  BY <1>3, <1>4, <1>5, <1>6 DEF IInv

LEMMA Inductive == IInv /\ [Next]_vars => IInv'
<1> SUFFICES ASSUME IInv, [Next]_vars PROVE IInv'
  OBVIOUS
<1>1. CASE Callback
  <2>1. CASE DropTelemetry
    <3>1. /\ UNCHANGED <<ingress, loop, kafka, phase, startupFailed>>
          /\ received' = received + 1 /\ received < MaxEvents
      BY <2>1 DEF DropTelemetry
    <3>2. IngressTypes'
      BY <3>1, ConstantsAssumption DEF IInv, IngressTypes, ingress, Event
    <3> QED
      BY <3>1, <3>2
         DEF IInv, LoopTypes, KafkaTypes, MainTypes, Balance, InHand,
             EOSInChannel, EndWritten, ExitIsHonest, Event, ingress, loop, kafka
  <2> QED
    BY <1>1, <2>1, RegisterKeeps, EnqueueKeeps DEF Callback
<1>2. CASE EdgeLoop
  BY <1>2, ReceiveTelemetryKeeps, ProcessTelemetryKeeps, ReceiveEndOfReplayKeeps,
     ReceiveClosedKeeps, EmitKeeps, EmitFailsKeeps DEF EdgeLoop
<1>3. CASE Egress \/ BatchTimeout
  BY <1>3, EgressKeeps
<1>4. CASE Main \/ Signal
  BY <1>4, MainKeeps
<1>5. CASE UNCHANGED vars
  <2>1. UNCHANGED <<received, ingress, loop>> /\ UNCHANGED <<kafka, phase, startupFailed>>
    BY <1>5 DEF vars
  <2> QED
    BY <2>1, LoopUnchanged
       DEF IInv, KafkaTypes, MainTypes, EndWritten, ExitIsHonest, kafka, loop
<1> QED
  BY <1>1, <1>2, <1>3, <1>4, <1>5 DEF Next, Terminated

LEMMA Invariance == Spec => []IInv
BY InitialState, Inductive, PTL DEF Spec

-----------------------------------------------------------------------------
(***************************************************************************)
(* Type correctness, for every capacity, batch size and number of events.  *)
(***************************************************************************)
THEOREM TypeCorrect == Spec => []TypeOK
<1>1. ASSUME IInv PROVE TypeOK
  <2>1. /\ received \in 0 .. MaxEvents
        /\ accepted \subseteq 1 .. MaxEvents /\ discarded \subseteq accepted
        /\ telemetryQueued \in 0 .. Capacity
        /\ {eosRegistered, closed, eosProcessed, startupFailed} \subseteq BOOLEAN
    <3>1. accepted \subseteq 1 .. MaxEvents
      BY <1>1, ConstantsAssumption DEF IInv, IngressTypes
    <3>2. /\ eosRegistered \in BOOLEAN /\ closed \in BOOLEAN
          /\ eosProcessed \in BOOLEAN /\ startupFailed \in BOOLEAN
      BY <1>1 DEF IInv, IngressTypes, LoopTypes, MainTypes
    <3> QED
      BY <1>1, <3>1, <3>2 DEF IInv, IngressTypes, LoopTypes
  <2>2. \A k \in DOMAIN records :
           records[k] = EOS \/ records[k] \in
              [kind : {"telemetry"}, event : 1 .. MaxEvents, start : 0 .. LastStart]
    <3>1. records \in Seq({EOS} \cup Event)
      BY <1>1 DEF IInv, IngressTypes
    <3>2. \A k \in DOMAIN records : records[k] = EOS \/ records[k] \in Event
      BY <3>1
    <3> QED
      BY <2>1, <3>2 DEF Event
  <2>3. \A r \in Range(outbox) \cup Range(pending) \cup Range(log) : IsOutput(r)
    <3>1. outbox \in Seq(Output) /\ pending \in Seq(Output) /\ log \in Seq(Output)
      BY <1>1 DEF IInv, LoopTypes, KafkaTypes
    <3>2. \A r \in Output : IsOutput(r)
      BY DEF Output, IsOutput
    <3>3. ASSUME NEW s \in Seq(Output) PROVE \A r \in Range(s) : r \in Output
      BY DEF Range
    <3> QED
      BY <3>1, <3>2, <3>3
  <2> QED
    BY <1>1, <2>1, <2>2, <2>3
       DEF IInv, LoopTypes, KafkaTypes, MainTypes, InHand, TypeOK
<1> QED
  BY <1>1, Invariance, PTL

(***************************************************************************)
(* The callback, which sends on the channel while it holds the mutex,      *)
(* finds a slot whenever its checks let it send, and the EOS always does.  *)
(***************************************************************************)
THEOREM NoBlockedSend == Spec => []SendNeverBlocks
<1>1. ASSUME IInv, ~eosRegistered
      PROVE  Len(records) <= Capacity /\ (HasRoom => Len(records) < Capacity)
  <2>1. EOSInChannel = 0
    BY <1>1 DEF IInv, IngressTypes, Balance, EOSInChannel
  <2>2. Len(records) \in Nat /\ InHand \in {0, 1}
    BY <1>1 DEF IInv, IngressTypes, InHand
  <2> QED
    BY <1>1, <2>1, <2>2, ConstantsAssumption
       DEF IInv, IngressTypes, Balance, HasRoom
<1>2. IInv => SendNeverBlocks
  BY <1>1 DEF SendNeverBlocks
<1> QED
  BY <1>2, Invariance, PTL

(***************************************************************************)
(* Success is reported only with the end of input in the log, whatever     *)
(* signal comes and whichever stage fails.                                 *)
(***************************************************************************)
THEOREM HonestExit == Spec => []ExitIsHonest
<1>1. IInv => ExitIsHonest
  BY DEF IInv
<1> QED
  BY <1>1, Invariance, PTL

-----------------------------------------------------------------------------
(***************************************************************************)
(* The stream.  What the log holds, and what is on its way to it, is one   *)
(* chain of aggregates, each of which holds events no other has, and the   *)
(* events that are in none of them are discarded or still wait.            *)
(***************************************************************************)
IsAggregate(r) == r # EndOfInput

\* The egress has the end of input, and writes it after its batch.
EndTaken == egress \in {"flushThenEnd", "end"}

Rest == IF EndTaken THEN <<EndOfInput>> ELSE outbox

\* What the egress writes next, in this order.
Upcoming == pending \o Rest

\* Only then what is upcoming still reaches the log.
Alive == egress \notin {"failed", "returned"}

Leads(r, s) == IsAggregate(r) /\ r.through = s

Links(r, next) == Leads(r, IF IsAggregate(next) THEN next.start ELSE r.end)

Chained(s) == \A k \in 1 .. Len(s) - 1 : Links(s[k], s[k + 1])

Injective(s) == \A j, k \in 1 .. Len(s) : j < k => s[j] # s[k]

FirstIn(l, k) == \A j \in 1 .. k - 1 : l[j] # l[k]

\* The last record of l that is not a repetition.
Latest(l, k) == FirstIn(l, k) /\ \A m \in k + 1 .. Len(l) : ~FirstIn(l, m)

Legal(l) ==
    \A j, k \in DOMAIN l :
        (/\ j < k /\ FirstIn(l, j) /\ FirstIn(l, k)
         /\ \A m \in j + 1 .. k - 1 : ~FirstIn(l, m))
        => Links(l[j], l[k])

\* The upcoming records are new, follow each other, and follow the log.
Continues ==
    Alive =>
        /\ Chained(Upcoming) /\ Injective(Upcoming)
        /\ \A j \in 1 .. Len(Upcoming), k \in 1 .. Len(log) : Upcoming[j] # log[k]
        /\ Upcoming # <<>> =>
              \A k \in 1 .. Len(log) : Latest(log, k) => Links(log[k], Upcoming[1])

\* The open window starts where the last aggregate leads.
OpenFollows ==
    /\ Alive /\ current # <<>> =>
          /\ Upcoming # <<>> =>
                Leads(Upcoming[Len(Upcoming)], Head(current).start)
          /\ Upcoming = <<>> =>
                \A k \in 1 .. Len(log) :
                   Latest(log, k) => Leads(log[k], Head(current).start)
    /\ current = <<>> /\ processor \in {"next", "process", "emit"} =>
          log = <<>> /\ pending = <<>> /\ outbox = <<>>

Aggregates == {r \in Range(log) \cup Range(pending) \cup Range(outbox) : IsAggregate(r)}

Open == UNION {w.events : w \in Range(current)}

Apart ==
    /\ \A r \in Aggregates :
          /\ r.events # {}
          /\ r.events \cap (Open \cup discarded) = {}
          /\ \A q \in Aggregates : q # r => q.events \cap r.events = {}
    /\ Open \cap discarded = {}
    /\ \A w \in Range(current) : w.events # {}

Settled == discarded \cup Open \cup UNION {r.events : r \in Aggregates}

Queued == {k \in 1 .. Len(records) : records[k] # EOS}

\* Events wait in the order they came, and after all those settled.
InOrder ==
    /\ \A j, k \in Queued : j < k => records[j].event < records[k].event
    /\ \A t \in Range(taken), k \in Queued : t.event < records[k].event
    /\ \A e \in Settled :
          /\ \A t \in Range(taken) : e < t.event
          /\ \A k \in Queued : e < records[k].event

AllThere ==
    accepted = Settled \cup {t.event : t \in Range(taken)}
                       \cup {records[k].event : k \in Queued}

\* The loop handed over the end of input, or is about to: nothing is left.
Over ==
    /\ eosRegistered /\ records = <<>> /\ taken = <<>> /\ current = <<>>
    /\ processor \in {"emitLast", "returned", "failed"}

EndIsLast ==
    /\ processor \in {"next", "process", "returned"} => outbox = <<>>
    /\ EndOfInput \notin Range(pending)
    /\ EndOfInput \in Range(outbox) => Over
    /\ EndTaken => Over /\ outbox = <<>>
    /\ egress \in {"end", "returned"} => pending = <<>>
    /\ EndOfInput \in Range(log) =>
          Over /\ outbox = <<>> /\ pending = <<>> /\ ~Alive

StreamInv ==
    /\ Legal(log) /\ Continues /\ OpenFollows /\ Apart /\ InOrder /\ AllThere
    /\ EndIsLast

-----------------------------------------------------------------------------
(***************************************************************************)
(* Sequences of outputs.                                                   *)
(***************************************************************************)
LEMMA ConcatFacts ==
    ASSUME NEW S, NEW s \in Seq(S), NEW t \in Seq(S)
    PROVE  /\ s \o t \in Seq(S)
           /\ Len(s) \in Nat /\ Len(t) \in Nat /\ Len(s \o t) = Len(s) + Len(t)
           /\ \A k \in 1 .. Len(s) : (s \o t)[k] = s[k] /\ s[k] \in S
           /\ \A k \in 1 .. Len(t) : (s \o t)[Len(s) + k] = t[k] /\ t[k] \in S
OBVIOUS

LEMMA EmptyParts ==
    ASSUME NEW S, NEW s \in Seq(S)
    PROVE  /\ s \o <<>> = s /\ <<>> \o s = s
           /\ s = <<>> <=> Len(s) = 0
           /\ s # <<>> <=> Len(s) >= 1
OBVIOUS

LEMMA Shifted ==
    ASSUME NEW S, NEW s \in Seq(S), NEW t \in Seq(S), t # <<>>
    PROVE  Append(s, Head(t)) \o Tail(t) = s \o t
<1> DEFINE a == Append(s, Head(t))
           u == Tail(t)
<1>1. /\ Len(t) \in Nat \ {0} /\ Head(t) = t[1] /\ Head(t) \in S
      /\ u \in Seq(S) /\ Len(u) = Len(t) - 1
      /\ \A k \in 1 .. Len(t) - 1 : u[k] = t[k + 1]
  BY HeadAndTail
<1>2. /\ a \in Seq(S) /\ Len(a) = Len(s) + 1 /\ Len(s) \in Nat
      /\ a[Len(s) + 1] = t[1]
      /\ \A k \in 1 .. Len(s) : a[k] = s[k]
  BY <1>1
<1> HIDE DEF a, u
<1>3. /\ a \o u \in Seq(S) /\ s \o t \in Seq(S)
      /\ Len(a \o u) = Len(s) + Len(t) /\ Len(s \o t) = Len(s) + Len(t)
  <2>1. a \o u \in Seq(S) /\ Len(a \o u) = Len(a) + Len(u)
    <3>1. a \in Seq(S) /\ u \in Seq(S)
      BY <1>1, <1>2
    <3> QED
      BY <3>1
  <2>2. s \o t \in Seq(S) /\ Len(s \o t) = Len(s) + Len(t)
    BY ConcatFacts
  <2> QED
    BY <1>1, <1>2, <2>1, <2>2
<1>4. ASSUME NEW k \in 1 .. Len(s) + Len(t)
      PROVE  (a \o u)[k] = (s \o t)[k]
  <2>1. CASE k <= Len(s)
    BY <1>1, <1>2, <2>1, ConcatFacts
  <2>2. CASE k = Len(s) + 1
    <3>1. (a \o u)[k] = a[k]
      BY <1>1, <1>2, <2>2, ConcatFacts
    <3>2. (s \o t)[Len(s) + 1] = t[1]
      BY <1>1, ConcatFacts
    <3> QED
      BY <1>2, <2>2, <3>1, <3>2
  <2>3. CASE k > Len(s) + 1
    <3> DEFINE i == k - (Len(s) + 1)
    <3>1. i \in 1 .. Len(u) /\ k = Len(a) + i
      BY <1>1, <1>2, <2>3
    <3>2. i + 1 \in 1 .. Len(t) /\ k = Len(s) + (i + 1)
      BY <1>1, <1>2, <2>3
    <3> HIDE DEF i
    <3>3. (a \o u)[k] = u[i]
      BY <1>1, <1>2, <3>1, ConcatFacts
    <3>4. (s \o t)[k] = t[i + 1]
      BY <3>2, ConcatFacts
    <3>5. u[i] = t[i + 1]
      BY <1>1, <3>1
    <3> QED
      BY <3>3, <3>4, <3>5
  <2> QED
    BY <1>1, <1>2, <2>1, <2>2, <2>3
<1>5. a \o u = s \o t
  BY <1>1, <1>2, <1>3, <1>4
<1> QED
  BY <1>5 DEF a, u

LEMMA ChainedParts ==
    ASSUME NEW s \in Seq(Output), NEW t \in Seq(Output), Chained(s \o t)
    PROVE  /\ Chained(s) /\ Chained(t)
           /\ s # <<>> /\ t # <<>> => Links(s[Len(s)], t[1])
<1>1. /\ Len(s) \in Nat /\ Len(t) \in Nat /\ Len(s \o t) = Len(s) + Len(t)
      /\ \A k \in 1 .. Len(s) : (s \o t)[k] = s[k]
      /\ \A k \in 1 .. Len(t) : (s \o t)[Len(s) + k] = t[k]
  BY ConcatFacts
<1>2. \A k \in 1 .. Len(s) + Len(t) - 1 : Links((s \o t)[k], (s \o t)[k + 1])
  BY <1>1 DEF Chained
<1>3. ASSUME NEW k \in 1 .. Len(s) - 1 PROVE Links(s[k], s[k + 1])
  <2>1. /\ k \in 1 .. Len(s) + Len(t) - 1
        /\ k \in 1 .. Len(s) /\ k + 1 \in 1 .. Len(s)
    BY <1>1
  <2> QED
    BY <1>1, <1>2, <2>1
<1>4. ASSUME NEW k \in 1 .. Len(t) - 1 PROVE Links(t[k], t[k + 1])
  <2>1. /\ Len(s) + k \in 1 .. Len(s) + Len(t) - 1
        /\ k \in 1 .. Len(t) /\ k + 1 \in 1 .. Len(t)
        /\ (Len(s) + k) + 1 = Len(s) + (k + 1)
    BY <1>1
  <2>2. Links((s \o t)[Len(s) + k], (s \o t)[Len(s) + (k + 1)])
    BY <1>2, <2>1
  <2> QED
    BY <1>1, <2>1, <2>2
<1>5. ASSUME s # <<>>, t # <<>> PROVE Links(s[Len(s)], t[1])
  <2>1. /\ Len(s) \in 1 .. Len(s) + Len(t) - 1 /\ Len(s) \in 1 .. Len(s)
        /\ 1 \in 1 .. Len(t)
    <3>1. Len(s) >= 1 /\ Len(t) >= 1
      BY <1>5, EmptyParts
    <3> QED
      BY <1>1, <3>1
  <2>2. Links((s \o t)[Len(s)], (s \o t)[Len(s) + 1])
    BY <1>2, <2>1
  <2> QED
    BY <1>1, <2>1, <2>2
<1> QED
  BY <1>3, <1>4, <1>5 DEF Chained

LEMMA ChainedConcat ==
    ASSUME NEW s \in Seq(Output), NEW t \in Seq(Output), Chained(s), Chained(t),
           s # <<>> /\ t # <<>> => Links(s[Len(s)], t[1])
    PROVE  Chained(s \o t)
<1>1. /\ Len(s) \in Nat /\ Len(t) \in Nat /\ Len(s \o t) = Len(s) + Len(t)
      /\ \A k \in 1 .. Len(s) : (s \o t)[k] = s[k]
      /\ \A k \in 1 .. Len(t) : (s \o t)[Len(s) + k] = t[k]
  BY ConcatFacts
<1>2. ASSUME NEW k \in 1 .. Len(s) + Len(t) - 1
      PROVE  Links((s \o t)[k], (s \o t)[k + 1])
  <2>1. CASE k < Len(s)
    <3>1. k \in 1 .. Len(s) - 1 /\ k \in 1 .. Len(s) /\ k + 1 \in 1 .. Len(s)
      BY <1>1, <2>1
    <3> QED
      BY <1>1, <3>1 DEF Chained
  <2>2. CASE k = Len(s)
    <3>1. s # <<>> /\ t # <<>>
      <4>1. Len(s) >= 1 /\ Len(t) >= 1
        BY <1>1, <2>2
      <4> QED
        BY <4>1, EmptyParts
    <3>2. k \in 1 .. Len(s) /\ 1 \in 1 .. Len(t)
      BY <1>1, <2>2
    <3> QED
      BY <1>1, <2>2, <3>1, <3>2
  <2>3. CASE k > Len(s)
    <3>1. PICK i \in 1 .. Len(t) - 1 : k = Len(s) + i
      <4>1. k - Len(s) \in 1 .. Len(t) - 1 /\ k = Len(s) + (k - Len(s))
        BY <1>1, <2>3
      <4> QED
        BY <4>1
    <3>2. i \in 1 .. Len(t) /\ i + 1 \in 1 .. Len(t) /\ k + 1 = Len(s) + (i + 1)
      BY <1>1, <3>1
    <3>3. (s \o t)[k] = t[i] /\ (s \o t)[k + 1] = t[i + 1]
      BY <1>1, <3>1, <3>2
    <3> QED
      BY <3>1, <3>3 DEF Chained
  <2> QED
    BY <1>1, <2>1, <2>2, <2>3
<1> QED
  BY <1>1, <1>2 DEF Chained

LEMMA InjectiveParts ==
    ASSUME NEW s \in Seq(Output), NEW t \in Seq(Output), Injective(s \o t)
    PROVE  /\ Injective(s) /\ Injective(t)
           /\ \A j \in 1 .. Len(s), k \in 1 .. Len(t) : s[j] # t[k]
<1>1. /\ Len(s) \in Nat /\ Len(t) \in Nat /\ Len(s \o t) = Len(s) + Len(t)
      /\ \A k \in 1 .. Len(s) : (s \o t)[k] = s[k]
      /\ \A k \in 1 .. Len(t) : (s \o t)[Len(s) + k] = t[k]
  BY ConcatFacts
<1>2. \A j, k \in 1 .. Len(s) + Len(t) : j < k => (s \o t)[j] # (s \o t)[k]
  BY <1>1 DEF Injective
<1>3. ASSUME NEW j \in 1 .. Len(s), NEW k \in 1 .. Len(s), j < k PROVE s[j] # s[k]
  BY <1>1, <1>2, <1>3
<1>4. ASSUME NEW j \in 1 .. Len(t), NEW k \in 1 .. Len(t), j < k PROVE t[j] # t[k]
  <2>1. /\ Len(s) + j \in 1 .. Len(s) + Len(t) /\ Len(s) + k \in 1 .. Len(s) + Len(t)
        /\ Len(s) + j < Len(s) + k
    BY <1>1, <1>4
  <2> QED
    BY <1>1, <1>2, <2>1
<1>5. ASSUME NEW j \in 1 .. Len(s), NEW k \in 1 .. Len(t) PROVE s[j] # t[k]
  <2>1. /\ j \in 1 .. Len(s) + Len(t) /\ Len(s) + k \in 1 .. Len(s) + Len(t)
        /\ j < Len(s) + k
    BY <1>1
  <2> QED
    BY <1>1, <1>2, <2>1
<1> QED
  BY <1>3, <1>4, <1>5 DEF Injective

LEMMA InjectiveConcat ==
    ASSUME NEW s \in Seq(Output), NEW t \in Seq(Output), Injective(s), Injective(t),
           \A j \in 1 .. Len(s), k \in 1 .. Len(t) : s[j] # t[k]
    PROVE  Injective(s \o t)
<1>1. /\ Len(s) \in Nat /\ Len(t) \in Nat /\ Len(s \o t) = Len(s) + Len(t)
      /\ \A k \in 1 .. Len(s) : (s \o t)[k] = s[k]
      /\ \A k \in 1 .. Len(t) : (s \o t)[Len(s) + k] = t[k]
  BY ConcatFacts
<1>2. ASSUME NEW j \in 1 .. Len(s) + Len(t), NEW k \in 1 .. Len(s) + Len(t), j < k
      PROVE  (s \o t)[j] # (s \o t)[k]
  <2>1. CASE k <= Len(s)
    <3>1. j \in 1 .. Len(s) /\ k \in 1 .. Len(s)
      BY <1>1, <1>2, <2>1
    <3> QED
      BY <1>1, <1>2, <3>1 DEF Injective
  <2>2. CASE j <= Len(s) /\ k > Len(s)
    <3>1. PICK i \in 1 .. Len(t) : k = Len(s) + i
      <4>1. k - Len(s) \in 1 .. Len(t) /\ k = Len(s) + (k - Len(s))
        BY <1>1, <2>2
      <4> QED
        BY <4>1
    <3>2. j \in 1 .. Len(s)
      BY <1>1, <2>2
    <3> QED
      BY <1>1, <3>1, <3>2
  <2>3. CASE j > Len(s)
    <3>1. PICK i \in 1 .. Len(t) : k = Len(s) + i
      <4>1. k - Len(s) \in 1 .. Len(t) /\ k = Len(s) + (k - Len(s))
        BY <1>1, <1>2, <2>3
      <4> QED
        BY <4>1
    <3>2. PICK h \in 1 .. Len(t) : j = Len(s) + h
      <4>1. j - Len(s) \in 1 .. Len(t) /\ j = Len(s) + (j - Len(s))
        BY <1>1, <1>2, <2>3
      <4> QED
        BY <4>1
    <3>3. h < i
      BY <1>1, <1>2, <3>1, <3>2
    <3> QED
      BY <1>1, <3>1, <3>2, <3>3 DEF Injective
  <2> QED
    BY <1>1, <1>2, <2>1, <2>2, <2>3
<1> QED
  BY <1>1, <1>2 DEF Injective

(***************************************************************************)
(* A batch of new records that follow a legal log and each other extends   *)
(* it, whether the write put it in the log once or twice.                  *)
(***************************************************************************)
Extends(l, b, m) ==
    /\ Len(m) >= Len(l) + Len(b)
    /\ \A k \in 1 .. Len(l) : m[k] = l[k]
    /\ \A k \in 1 .. Len(b) : m[Len(l) + k] = b[k]
    /\ \A k \in 1 .. Len(m) : k > Len(l) + Len(b) => \E i \in 1 .. Len(b) : m[k] = b[i]

LEMMA WriteExtends ==
    ASSUME NEW l \in Seq(Output), NEW b \in Seq(Output)
    PROVE  /\ l \o b \in Seq(Output) /\ Extends(l, b, l \o b)
           /\ l \o b \o b \in Seq(Output) /\ Extends(l, b, l \o b \o b)
<1>1. /\ l \o b \in Seq(Output)
      /\ Len(l) \in Nat /\ Len(b) \in Nat /\ Len(l \o b) = Len(l) + Len(b)
      /\ \A k \in 1 .. Len(l) : (l \o b)[k] = l[k]
      /\ \A k \in 1 .. Len(b) : (l \o b)[Len(l) + k] = b[k]
  BY ConcatFacts
<1>2. /\ l \o b \o b \in Seq(Output)
      /\ Len(l \o b \o b) = Len(l) + Len(b) + Len(b)
      /\ \A k \in 1 .. Len(l) + Len(b) : (l \o b \o b)[k] = (l \o b)[k]
      /\ \A k \in 1 .. Len(b) : (l \o b \o b)[Len(l) + Len(b) + k] = b[k]
  <2> DEFINE m == l \o b
  <2>1. m \in Seq(Output) /\ Len(m) = Len(l) + Len(b)
    BY <1>1
  <2> HIDE DEF m
  <2>2. /\ m \o b \in Seq(Output) /\ Len(m \o b) = Len(m) + Len(b)
        /\ \A k \in 1 .. Len(m) : (m \o b)[k] = m[k]
        /\ \A k \in 1 .. Len(b) : (m \o b)[Len(m) + k] = b[k]
    <3>1. m \in Seq(Output)
      BY <2>1
    <3> QED
      BY <3>1, ConcatFacts
  <2> QED
    BY <2>1, <2>2 DEF m
<1>3. Extends(l, b, l \o b)
  BY <1>1 DEF Extends
<1>4. ASSUME NEW k \in 1 .. Len(l \o b \o b), k > Len(l) + Len(b)
      PROVE  \E i \in 1 .. Len(b) : (l \o b \o b)[k] = b[i]
  <2>1. PICK i \in 1 .. Len(b) : k = Len(l) + Len(b) + i
    <3>1. /\ k - (Len(l) + Len(b)) \in 1 .. Len(b)
          /\ k = Len(l) + Len(b) + (k - (Len(l) + Len(b)))
      BY <1>1, <1>2, <1>4
    <3> QED
      BY <3>1
  <2> QED
    BY <1>2, <2>1
<1>5. ASSUME NEW k \in 1 .. Len(l) PROVE (l \o b \o b)[k] = l[k]
  <2>1. k \in 1 .. Len(l) + Len(b)
    BY <1>1
  <2> QED
    BY <1>1, <1>2, <2>1
<1>6. ASSUME NEW k \in 1 .. Len(b) PROVE (l \o b \o b)[Len(l) + k] = b[k]
  <2>1. Len(l) + k \in 1 .. Len(l) + Len(b)
    BY <1>1
  <2> QED
    BY <1>1, <1>2, <2>1
<1> QED
  BY <1>1, <1>2, <1>3, <1>4, <1>5, <1>6 DEF Extends

FitsAfter(l, b) ==
    /\ Legal(l) /\ Chained(b) /\ Injective(b)
    /\ \A j \in 1 .. Len(b), k \in 1 .. Len(l) : b[j] # l[k]
    /\ \A k \in 1 .. Len(l) : Latest(l, k) => Links(l[k], b[1])

LEMMA LegalExtension ==
    ASSUME NEW l \in Seq(Output), NEW b \in Seq(Output), NEW m \in Seq(Output),
           Extends(l, b, m), b # <<>>, FitsAfter(l, b)
    PROVE  /\ Legal(m)
           /\ \A k \in 1 .. Len(m) : Latest(m, k) => m[k] = b[Len(b)]
<1> DEFINE L == Len(l)
           B == Len(b)
<1>1. /\ L \in Nat /\ B \in Nat \ {0} /\ Len(m) \in Nat /\ Len(m) >= L + B
      /\ DOMAIN m = 1 .. Len(m) /\ DOMAIN l = 1 .. L
  <2>1. B >= 1
    BY EmptyParts
  <2> QED
    BY <2>1 DEF Extends
<1>2. /\ \A k \in 1 .. L : m[k] = l[k]
      /\ \A k \in 1 .. B : m[L + k] = b[k]
      /\ \A k \in 1 .. Len(m) : k > L + B => \E i \in 1 .. B : m[k] = b[i]
  BY DEF Extends
<1>3. /\ \A j \in 1 .. B, k \in 1 .. L : b[j] # l[k]
      /\ \A j, k \in 1 .. B : j < k => b[j] # b[k]
      /\ \A k \in 1 .. L : Latest(l, k) => Links(l[k], b[1])
      /\ \A k \in 1 .. B - 1 : Links(b[k], b[k + 1])
  BY DEF FitsAfter, Injective, Chained
<1> HIDE DEF L, B
<1>4. ASSUME NEW k \in 1 .. L PROVE FirstIn(m, k) <=> FirstIn(l, k)
  <2>1. ASSUME NEW j \in 1 .. k - 1 PROVE m[j] = l[j] /\ m[k] = l[k]
    <3>1. j \in 1 .. L
      BY <1>1, <2>1
    <3> QED
      BY <1>2, <3>1
  <2> QED
    BY <2>1 DEF FirstIn
<1>5. ASSUME NEW i \in 1 .. B PROVE FirstIn(m, L + i)
  <2>1. ASSUME NEW j \in 1 .. (L + i) - 1 PROVE m[j] # m[L + i]
    <3>1. CASE j <= L
      <4>1. j \in 1 .. L
        BY <1>1, <3>1
      <4> QED
        BY <1>2, <1>3, <4>1
    <3>2. CASE j > L
      <4>1. PICK h \in 1 .. B : j = L + h /\ h < i
        <5>1. j - L \in 1 .. B /\ j = L + (j - L) /\ j - L < i
          BY <1>1, <3>2
        <5> QED
          BY <5>1
      <4> QED
        BY <1>2, <1>3, <4>1
    <3> QED
      BY <1>1, <3>1, <3>2
  <2> QED
    BY <2>1 DEF FirstIn
<1>6. ASSUME NEW k \in 1 .. Len(m), k > L + B PROVE ~FirstIn(m, k)
  <2>1. PICK i \in 1 .. B : m[k] = b[i]
    BY <1>2, <1>6
  <2>2. L + i \in 1 .. k - 1 /\ m[L + i] = m[k]
    BY <1>1, <1>2, <1>6, <2>1
  <2> QED
    BY <2>2 DEF FirstIn
<1>7. ASSUME NEW j \in 1 .. Len(m), NEW k \in 1 .. Len(m), j < k,
             FirstIn(m, j), FirstIn(m, k),
             \A n \in j + 1 .. k - 1 : ~FirstIn(m, n)
      PROVE  Links(m[j], m[k])
  <2>1. k <= L + B
    BY <1>1, <1>6, <1>7
  <2>2. CASE k <= L
    <3>1. j \in 1 .. L /\ k \in 1 .. L
      BY <1>1, <1>7, <2>2
    <3>2. FirstIn(l, j) /\ FirstIn(l, k)
      BY <1>4, <1>7, <3>1
    <3>3. ASSUME NEW n \in j + 1 .. k - 1 PROVE ~FirstIn(l, n)
      <4>1. n \in 1 .. L
        BY <1>1, <3>1
      <4> QED
        BY <1>4, <1>7, <4>1
    <3>4. Links(l[j], l[k])
      BY <1>1, <1>7, <3>1, <3>2, <3>3 DEF FitsAfter, Legal
    <3> QED
      BY <1>2, <3>1, <3>4
  <2>3. CASE j <= L /\ k > L
    <3>1. j \in 1 .. L
      BY <1>1, <2>3
    <3>2. k = L + 1
      <4>1. CASE k > L + 1
        <5>1. L + 1 \in j + 1 .. k - 1
          BY <1>1, <2>3, <4>1
        <5>2. FirstIn(m, L + 1)
          BY <1>1, <1>5
        <5> QED
          BY <1>7, <5>1, <5>2
      <4> QED
        BY <1>1, <2>3, <4>1
    <3>3. Latest(l, j)
      <4>1. FirstIn(l, j)
        BY <1>4, <1>7, <3>1
      <4>2. ASSUME NEW n \in j + 1 .. L PROVE ~FirstIn(l, n)
        <5>1. n \in 1 .. L /\ n \in j + 1 .. k - 1
          BY <1>1, <3>1, <3>2
        <5> QED
          BY <1>4, <1>7, <5>1
      <4> QED
        BY <4>1, <4>2 DEF Latest, L
    <3>4. m[k] = b[1] /\ m[j] = l[j]
      BY <1>1, <1>2, <3>1, <3>2
    <3> QED
      BY <1>3, <3>1, <3>3, <3>4
  <2>4. CASE j > L
    <3>1. PICK i \in 1 .. B - 1 : j = L + i
      <4>1. j - L \in 1 .. B - 1 /\ j = L + (j - L)
        BY <1>1, <1>7, <2>1, <2>4
      <4> QED
        BY <4>1
    <3>2. k = L + (i + 1) /\ i + 1 \in 1 .. B /\ i \in 1 .. B
      <4>1. CASE k > L + (i + 1)
        <5>1. L + (i + 1) \in j + 1 .. k - 1 /\ i + 1 \in 1 .. B
          BY <1>1, <1>7, <3>1, <4>1
        <5>2. FirstIn(m, L + (i + 1))
          BY <1>5, <5>1
        <5> QED
          BY <1>7, <5>1, <5>2
      <4> QED
        BY <1>1, <1>7, <3>1, <4>1
    <3> QED
      BY <1>2, <1>3, <3>1, <3>2
  <2> QED
    BY <1>1, <2>1, <2>2, <2>3, <2>4
<1>8. ASSUME NEW k \in 1 .. Len(m), Latest(m, k) PROVE m[k] = b[B]
  <2>1. k <= L + B
    BY <1>1, <1>6, <1>8 DEF Latest
  <2>2. ~(k < L + B)
    <3>1. SUFFICES ASSUME k < L + B PROVE FALSE
      OBVIOUS
    <3>2. L + B \in k + 1 .. Len(m)
      BY <1>1, <3>1
    <3>3. FirstIn(m, L + B)
      BY <1>1, <1>5
    <3> QED
      BY <1>8, <3>2, <3>3 DEF Latest
  <2>3. k = L + B
    BY <1>1, <2>1, <2>2
  <2> QED
    BY <1>1, <1>2, <2>3
<1> QED
  BY <1>1, <1>7, <1>8 DEF Legal, B

-----------------------------------------------------------------------------
(***************************************************************************)
(* The events.                                                             *)
(***************************************************************************)
LEMMA RangeFacts ==
    ASSUME NEW S, NEW s \in Seq(S), NEW t \in Seq(S), NEW x \in S
    PROVE  /\ Range(s \o t) = Range(s) \cup Range(t)
           /\ Range(Append(s, x)) = Range(s) \cup {x}
           /\ s # <<>> => Range(s) = {Head(s)} \cup Range(Tail(s))
<1>1. Range(s \o t) = Range(s) \cup Range(t)
  <2>1. ASSUME NEW y \in Range(s \o t) PROVE y \in Range(s) \cup Range(t)
    <3>1. PICK k \in 1 .. Len(s) + Len(t) : (s \o t)[k] = y
      BY <2>1, ConcatFacts DEF Range
    <3>2. CASE k <= Len(s)
      <4>1. k \in 1 .. Len(s) /\ s[k] = y
        BY <3>1, <3>2, ConcatFacts
      <4> QED
        BY <4>1 DEF Range
    <3>3. CASE k > Len(s)
      <4>1. k - Len(s) \in 1 .. Len(t) /\ t[k - Len(s)] = y
        BY <3>1, <3>3
      <4> QED
        BY <4>1 DEF Range
    <3> QED
      BY <3>1, <3>2, <3>3
  <2> QED
    BY <2>1, ConcatRange
<1>2. Range(Append(s, x)) = Range(s) \cup {x}
  <2>1. /\ Append(s, x) \in Seq(S) /\ Len(Append(s, x)) = Len(s) + 1 /\ Len(s) \in Nat
        /\ \A k \in 1 .. Len(s) : Append(s, x)[k] = s[k]
        /\ Append(s, x)[Len(s) + 1] = x
    OBVIOUS
  <2>2. Range(Append(s, x)) = {Append(s, x)[k] : k \in 1 .. Len(s) + 1}
    BY <2>1 DEF Range
  <2>3. Range(s) = {s[k] : k \in 1 .. Len(s)}
    BY DEF Range
  <2>4. 1 .. Len(s) + 1 = 1 .. Len(s) \cup {Len(s) + 1}
    BY <2>1
  <2> QED
    BY <2>1, <2>2, <2>3, <2>4
<1>3. ASSUME s # <<>> PROVE Range(s) = {Head(s)} \cup Range(Tail(s))
  <2>1. /\ Len(s) \in Nat \ {0} /\ Head(s) = s[1]
        /\ Tail(s) \in Seq(S) /\ Len(Tail(s)) = Len(s) - 1
        /\ \A k \in 1 .. Len(s) - 1 : Tail(s)[k] = s[k + 1]
    BY <1>3, HeadAndTail
  <2>2. /\ Range(s) = {s[k] : k \in 1 .. Len(s)}
        /\ Range(Tail(s)) = {Tail(s)[k] : k \in 1 .. Len(s) - 1}
    <3>1. DOMAIN s = 1 .. Len(s) /\ DOMAIN Tail(s) = 1 .. Len(s) - 1
      <4>1. Tail(s) \in Seq(S) /\ Len(Tail(s)) = Len(s) - 1
        BY <2>1
      <4>2. DOMAIN Tail(s) = 1 .. Len(Tail(s))
        BY <4>1
      <4> QED
        BY <4>1, <4>2
    <3> QED
      BY <3>1 DEF Range
  <2>3. ASSUME NEW k \in 1 .. Len(s)
        PROVE  s[k] = s[1] \/ s[k] \in Range(Tail(s))
    <3>1. CASE k = 1
      BY <3>1
    <3>2. CASE k > 1
      <4>1. k - 1 \in 1 .. Len(s) - 1 /\ (k - 1) + 1 = k
        BY <2>1, <3>2
      <4>2. Tail(s)[k - 1] = s[k]
        BY <2>1, <4>1
      <4> QED
        BY <2>2, <4>1, <4>2
    <3> QED
      BY <2>1, <3>1, <3>2
  <2>4. ASSUME NEW k \in 1 .. Len(s) - 1 PROVE Tail(s)[k] \in Range(s)
    <3>1. k + 1 \in 1 .. Len(s) /\ Tail(s)[k] = s[k + 1]
      BY <2>1
    <3> QED
      BY <2>2, <3>1
  <2>5. s[1] \in Range(s)
    BY <2>1, <2>2
  <2> QED
    BY <2>1, <2>2, <2>3, <2>4, <2>5
<1> QED
  BY <1>1, <1>2, <1>3

LEMMA SmallRanges ==
    /\ Range(<<>>) = {}
    /\ \A x : Range(<<x>>) = {x}
BY DEF Range

\* A sequence of one element.
LEMMA OneElement ==
    ASSUME NEW S, NEW s \in Seq(S), Len(s) = 1
    PROVE  Head(s) \in S /\ s = <<Head(s)>> /\ Range(s) = {Head(s)} /\ Tail(s) = <<>>
<1>1. Head(s) = s[1] /\ s[1] \in S
  OBVIOUS
<1>2. s = <<s[1]>>
  OBVIOUS
<1>3. Tail(s) = <<>>
  <2>1. Tail(s) \in Seq(S) /\ Len(Tail(s)) = 0
    <3>1. Len(s) # 0
      OBVIOUS
    <3>2. s # <<>>
      BY <3>1, NonEmpty
    <3> QED
      BY <3>2, HeadAndTail
  <2> QED
    BY <2>1, EmptyParts
<1> QED
  BY <1>1, <1>2, <1>3, SmallRanges

LEMMA OpenWindow ==
    ASSUME IInv, current # <<>>
    PROVE  /\ Head(current) \in Window /\ current = <<Head(current)>>
           /\ Range(current) = {Head(current)}
           /\ Open = Head(current).events
<1>1. current \in Seq(Window) /\ Len(current) = 1
  <2>1. current \in Seq(Window) /\ Len(current) <= 1
    BY DEF IInv, LoopTypes
  <2>2. Len(current) >= 1 /\ Len(current) \in Nat
    BY <2>1, EmptyParts
  <2> QED
    BY <2>1, <2>2
<1>2. /\ Head(current) \in Window /\ current = <<Head(current)>>
      /\ Range(current) = {Head(current)}
  BY <1>1, OneElement
<1> QED
  BY <1>2 DEF Open

LEMMA NoOpenWindow ==
    ASSUME current = <<>>
    PROVE  Range(current) = {} /\ Open = {}
BY SmallRanges DEF Open

LEMMA EventsUnchanged ==
    ASSUME Apart, InOrder, AllThere, Aggregates' = Aggregates,
           UNCHANGED <<accepted, discarded, current, taken, records>>
    PROVE  Apart' /\ InOrder' /\ AllThere'
<1>1. Open' = Open /\ Queued' = Queued
  BY DEF Open, Queued
<1>2. Settled' = Settled
  BY <1>1 DEF Settled
<1>3. Apart'
  BY <1>1 DEF Apart
<1>4. InOrder'
  BY <1>1, <1>2 DEF InOrder
<1>5. AllThere'
  BY <1>1, <1>2 DEF AllThere
<1> QED
  BY <1>3, <1>4, <1>5

\* The open window becomes an aggregate.
LEMMA WindowCloses ==
    ASSUME Apart, NEW a, IsAggregate(a), a.events = Open, Open # {},
           Aggregates' = Aggregates \cup {a}, discarded' = discarded,
           Open' \cap Settled = {}, \A w \in Range(current') : w.events # {}
    PROVE  Apart'
<1>1. /\ Open' \cap discarded = {} /\ Open' \cap Open = {}
      /\ \A r \in Aggregates : Open' \cap r.events = {}
  BY DEF Settled
<1>2. ASSUME NEW r \in Aggregates'
      PROVE  /\ r.events # {}
             /\ r.events \cap (Open' \cup discarded') = {}
             /\ \A q \in Aggregates' : q # r => q.events \cap r.events = {}
  <2>1. CASE r \in Aggregates
    BY <1>1, <2>1 DEF Apart
  <2>2. CASE r = a
    BY <1>1, <2>2 DEF Apart
  <2> QED
    BY <2>1, <2>2
<1>3. Open' \cap discarded' = {}
  BY <1>1
<1> QED
  BY <1>2, <1>3 DEF Apart

\* The events that are settled or wait are those the ingress accepted.
LEMMA SettledAccepted ==
    ASSUME IInv, AllThere
    PROVE  /\ accepted \subseteq 1 .. received /\ received \in Nat
           /\ Settled \subseteq accepted
           /\ \A t \in Range(taken) : t.event \in accepted
           /\ \A k \in Queued : records[k].event \in accepted
<1>1. accepted \subseteq 1 .. received /\ received \in Nat
  BY ConstantsAssumption DEF IInv, IngressTypes
<1> QED
  BY <1>1 DEF AllThere

LEMMA EnqueueEvents ==
    ASSUME IInv, Apart, InOrder, AllThere, NEW s \in 0 .. LastStart, Enqueue(s)
    PROVE  Apart' /\ InOrder' /\ AllThere'
<1> DEFINE r == Telemetry(received', s)
<1>1. /\ received' = received + 1 /\ records' = Append(records, r)
      /\ accepted' = accepted \cup {received'}
      /\ UNCHANGED <<discarded, current, taken, outbox, pending, log>>
  BY DEF Enqueue, loop, kafka
<1>2. r # EOS /\ r.event = received' /\ EOS \in {EOS} \cup Event
  BY DEF Telemetry, EOS
<1> HIDE DEF r
<1>3. /\ records \in Seq({EOS} \cup Event) /\ Len(records) \in Nat
      /\ Len(records') = Len(records) + 1
      /\ records'[Len(records) + 1] = r
      /\ \A k \in 1 .. Len(records) : records'[k] = records[k]
  BY <1>1 DEF IInv, IngressTypes
<1>4. /\ Queued' = Queued \cup {Len(records) + 1}
      /\ \A k \in Queued : k \in 1 .. Len(records) /\ records'[k] = records[k]
  BY <1>2, <1>3 DEF Queued
<1>5. Aggregates' = Aggregates /\ Open' = Open
  BY <1>1 DEF Aggregates, Open
<1>6. Settled' = Settled /\ Apart'
  BY <1>1, <1>5 DEF Settled, Apart
<1>7. \A e \in accepted : e < received'
  BY <1>1, SettledAccepted
<1>8. InOrder'
  <2>1. \A j, k \in Queued' : j < k => records'[j].event < records'[k].event
    <3>1. ASSUME NEW j \in Queued', NEW k \in Queued', j < k
          PROVE  records'[j].event < records'[k].event
      <4>1. j \in Queued
        BY <1>3, <1>4, <3>1
      <4>2. CASE k \in Queued
        BY <1>4, <4>1, <4>2, <3>1 DEF InOrder
      <4>3. CASE k = Len(records) + 1
        BY <1>2, <1>3, <1>4, <1>7, <4>1, <4>3, SettledAccepted
      <4> QED
        BY <1>4, <4>2, <4>3
    <3> QED
      BY <3>1
  <2>2. \A t \in Range(taken'), k \in Queued' : t.event < records'[k].event
    <3>1. taken' = taken
      BY <1>1
    <3>2. ASSUME NEW t \in Range(taken), NEW k \in Queued'
          PROVE  t.event < records'[k].event
      <4>1. CASE k \in Queued
        BY <1>4, <4>1 DEF InOrder
      <4>2. CASE k = Len(records) + 1
        BY <1>2, <1>3, <1>7, <4>2, SettledAccepted
      <4> QED
        BY <1>4, <4>1, <4>2
    <3> QED
      BY <3>1, <3>2
  <2>3. \A e \in Settled' :
           /\ \A t \in Range(taken') : e < t.event
           /\ \A k \in Queued' : e < records'[k].event
    <3>1. ASSUME NEW e \in Settled, NEW k \in Queued' PROVE e < records'[k].event
      <4>1. CASE k \in Queued
        BY <1>4, <4>1 DEF InOrder
      <4>2. CASE k = Len(records) + 1
        BY <1>2, <1>3, <1>7, <4>2, SettledAccepted
      <4> QED
        BY <1>4, <4>1, <4>2
    <3>2. \A e \in Settled, t \in Range(taken) : e < t.event
      BY DEF InOrder
    <3> QED
      BY <1>1, <1>6, <3>1, <3>2
  <2> QED
    BY <2>1, <2>2, <2>3 DEF InOrder
<1>9. AllThere'
  <2>1. {records'[k].event : k \in Queued'}
           = {records[k].event : k \in Queued} \cup {received'}
    BY <1>2, <1>3, <1>4
  <2>2. {t.event : t \in Range(taken')} = {t.event : t \in Range(taken)}
    BY <1>1
  <2> QED
    BY <1>1, <1>6, <2>1, <2>2 DEF AllThere
<1> QED
  BY <1>6, <1>8, <1>9

LEMMA RegisterEvents ==
    ASSUME IInv, Apart, InOrder, AllThere, RegisterEndOfReplay
    PROVE  Apart' /\ InOrder' /\ AllThere'
<1>1. /\ records' = Append(records, EOS)
      /\ UNCHANGED <<accepted, discarded, current, taken, outbox, pending, log>>
  BY DEF RegisterEndOfReplay, loop, kafka
<1>2. /\ records \in Seq({EOS} \cup Event) /\ Len(records) \in Nat
      /\ Len(records') = Len(records) + 1
      /\ records'[Len(records) + 1] = EOS
      /\ \A k \in 1 .. Len(records) : records'[k] = records[k]
  BY <1>1 DEF IInv, IngressTypes
<1>3. Queued' = Queued /\ \A k \in Queued : records'[k] = records[k]
  BY <1>2 DEF Queued
<1>4. Aggregates' = Aggregates /\ Open' = Open
  BY <1>1 DEF Aggregates, Open
<1>5. Settled' = Settled /\ Apart'
  BY <1>1, <1>4 DEF Settled, Apart
<1>6. InOrder'
  BY <1>1, <1>3, <1>5 DEF InOrder
<1>7. AllThere'
  <2>1. {records'[k].event : k \in Queued'} = {records[k].event : k \in Queued}
    BY <1>3
  <2>2. {t.event : t \in Range(taken')} = {t.event : t \in Range(taken)}
    BY <1>1
  <2> QED
    BY <1>1, <1>5, <2>1, <2>2 DEF AllThere
<1> QED
  BY <1>5, <1>6, <1>7

LEMMA ReceiveTelemetryEvents ==
    ASSUME IInv, Apart, InOrder, AllThere, ReceiveTelemetry
    PROVE  Apart' /\ InOrder' /\ AllThere'
<1> DEFINE t == Head(records)
<1>1. /\ processor = "next" /\ records # <<>> /\ t # EOS
      /\ taken' = <<t>> /\ records' = Tail(records)
      /\ UNCHANGED <<accepted, discarded, current, outbox, pending, log>>
  BY DEF ReceiveTelemetry, kafka
<1>2. Range(taken) = {} /\ Range(taken') = {t}
  <2>1. taken \in Seq(Event) /\ Len(taken) = 0
    BY <1>1 DEF IInv, LoopTypes, InHand
  <2>2. taken = <<>>
    BY <2>1, EmptyParts
  <2> QED
    BY <1>1, <2>2, SmallRanges
<1>3. /\ Len(records) \in Nat \ {0} /\ Len(records') = Len(records) - 1
      /\ t = records[1]
      /\ \A k \in 1 .. Len(records) - 1 : records'[k] = records[k + 1]
  BY <1>1, HeadAndTail DEF IInv, IngressTypes
<1> HIDE DEF t
<1>4. 1 \in Queued /\ records[1] = t
  BY <1>1, <1>3 DEF Queued
<1>5. ASSUME NEW k \in Queued'
      PROVE  k + 1 \in Queued /\ records'[k] = records[k + 1] /\ k \in Nat \ {0}
  <2>1. k \in 1 .. Len(records) - 1 /\ records'[k] # EOS
    BY <1>3, <1>5 DEF Queued
  <2> QED
    BY <1>3, <2>1 DEF Queued
<1>6. ASSUME NEW k \in Queued
      PROVE  k = 1 \/ (k - 1 \in Queued' /\ records'[k - 1] = records[k])
  <2>1. k \in 1 .. Len(records) /\ records[k] # EOS
    BY <1>6 DEF Queued
  <2>2. CASE k > 1
    <3>1. k - 1 \in 1 .. Len(records) - 1 /\ (k - 1) + 1 = k
      BY <1>3, <2>1, <2>2
    <3>2. records'[k - 1] = records[k]
      BY <1>3, <3>1
    <3> QED
      BY <1>3, <2>1, <3>1, <3>2 DEF Queued
  <2> QED
    BY <1>3, <2>1, <2>2
<1>7. Aggregates' = Aggregates /\ Open' = Open
  BY <1>1 DEF Aggregates, Open
<1>8. Settled' = Settled /\ Apart'
  BY <1>1, <1>7 DEF Settled, Apart
<1>9. InOrder'
  <2>1. ASSUME NEW j \in Queued', NEW k \in Queued', j < k
        PROVE  records'[j].event < records'[k].event
    <3>1. j + 1 \in Queued /\ k + 1 \in Queued /\ j + 1 < k + 1
      BY <1>5, <2>1
    <3> QED
      BY <1>5, <3>1 DEF InOrder
  <2>2. ASSUME NEW k \in Queued' PROVE t.event < records'[k].event
    <3>1. k + 1 \in Queued /\ 1 < k + 1
      BY <1>5
    <3> QED
      BY <1>4, <1>5, <3>1 DEF InOrder
  <2>3. ASSUME NEW e \in Settled, NEW k \in Queued' PROVE e < records'[k].event
    BY <1>5 DEF InOrder
  <2>4. ASSUME NEW e \in Settled PROVE e < t.event
    BY <1>4 DEF InOrder
  <2> QED
    BY <1>2, <1>8, <2>1, <2>2, <2>3, <2>4 DEF InOrder
<1>10. AllThere'
  <2>1. {records[k].event : k \in Queued}
           = {t.event} \cup {records'[k].event : k \in Queued'}
    BY <1>4, <1>5, <1>6
  <2>2. /\ {u.event : u \in Range(taken)} = {}
        /\ {u.event : u \in Range(taken')} = {t.event}
    BY <1>2
  <2> QED
    BY <1>1, <1>8, <2>1, <2>2 DEF AllThere
<1> QED
  BY <1>8, <1>9, <1>10

\* The event the loop has in hand settles.
LEMMA EventSettles ==
    ASSUME IInv, InOrder, AllThere, NEW t, Range(taken) = {t}, Range(taken') = {},
           Settled' = Settled \cup {t.event}, UNCHANGED <<accepted, records>>
    PROVE  InOrder' /\ AllThere'
<1>1. Queued' = Queued /\ records' = records
  BY DEF Queued
<1>2. InOrder'
  BY <1>1 DEF InOrder
<1>3. AllThere'
  <2>1. /\ {u.event : u \in Range(taken)} = {t.event}
        /\ {u.event : u \in Range(taken')} = {}
    OBVIOUS
  <2> QED
    BY <1>1, <2>1 DEF AllThere
<1> QED
  BY <1>2, <1>3

LEMMA InHandIsNew ==
    ASSUME IInv, InOrder, AllThere, NEW t \in Range(taken)
    PROVE  t.event \notin Settled
<1>1. ASSUME t.event \in Settled PROVE FALSE
  <2>1. t.event < t.event
    BY <1>1 DEF InOrder
  <2>2. t.event \in Nat
    BY SettledAccepted
  <2> QED
    BY <2>1, <2>2
<1> QED
  BY <1>1

\* Between two events nothing waits to be handed over.
LEMMA NothingToEmit ==
    ASSUME EndIsLast, processor \in {"next", "process"}
    PROVE  /\ outbox = <<>> /\ ~Over /\ ~EndTaken
           /\ EndOfInput \notin Range(log) /\ EndOfInput \notin Range(outbox)
BY DEF EndIsLast, Over

LEMMA InHandEvent ==
    ASSUME IInv, processor = "process"
    PROVE  Head(taken) \in Event /\ Range(taken) = {Head(taken)}
<1>1. taken \in Seq(Event) /\ Len(taken) = 1
  BY DEF IInv, LoopTypes, InHand
<1> QED
  BY <1>1, OneElement

LEMMA ProcessEvents ==
    ASSUME IInv, Apart, InOrder, AllThere, EndIsLast, ProcessTelemetry
    PROVE  Apart' /\ InOrder' /\ AllThere'
<1>1. PICK t : /\ t \in Event /\ Range(taken) = {t} /\ t = Head(taken)
  BY InHandEvent DEF ProcessTelemetry
<1>2. PICK n : n = t.event
  OBVIOUS
<1>3. PICK s : s = t.start
  OBVIOUS
<1>4. /\ taken' = <<>>
      /\ UNCHANGED <<accepted, records, pending, log>>
      /\ Discard(n, s) \/ SameWindow(n, s) \/ LaterWindow(n, s)
  BY <1>1, <1>2, <1>3 DEF ProcessTelemetry, kafka
<1>5. /\ Range(taken') = {} /\ n \notin Settled
      /\ outbox = <<>>
  BY <1>1, <1>2, <1>4, SmallRanges, InHandIsNew, NothingToEmit DEF ProcessTelemetry
<1>6. Apart' /\ Settled' = Settled \cup {n}
  <2>1. CASE Discard(n, s)
    <3>1. discarded' = discarded \cup {n} /\ UNCHANGED <<current, outbox>>
      BY <2>1 DEF Discard
    <3>2. Aggregates' = Aggregates /\ Open' = Open
      BY <1>4, <3>1 DEF Aggregates, Open
    <3>3. Settled' = Settled \cup {n}
      BY <3>1, <3>2 DEF Settled
    <3>4. n \notin Open /\ \A r \in Aggregates : n \notin r.events
      BY <1>5 DEF Settled
    <3> QED
      BY <3>1, <3>2, <3>3, <3>4 DEF Apart
  <2>2. CASE SameWindow(n, s)
    <3>1. PICK w : /\ current' = <<w>> /\ w.events = Open \cup {n}
                   /\ UNCHANGED <<discarded, outbox>>
      BY <2>2 DEF SameWindow, AddMeasurement, Open
    <3>2. Range(current') = {w}
      BY <3>1, SmallRanges
    <3>3. Open' = Open \cup {n}
      BY <3>1, <3>2 DEF Open
    <3>4. Aggregates' = Aggregates
      BY <1>4, <3>1 DEF Aggregates
    <3>5. Settled' = Settled \cup {n}
      BY <3>1, <3>3, <3>4 DEF Settled
    <3>6. n \notin discarded /\ \A r \in Aggregates : n \notin r.events
      BY <1>5 DEF Settled
    <3> QED
      BY <3>1, <3>2, <3>3, <3>4, <3>5, <3>6 DEF Apart
  <2>3. CASE LaterWindow(n, s)
    <3>1. /\ current # <<>>
          /\ outbox' = <<Aggregate(Head(current).start, s, Head(current).events)>>
          /\ discarded' = discarded
      BY <2>3 DEF LaterWindow, Flushed
    <3>2. PICK a : /\ outbox' = <<a>> /\ a.events = Head(current).events
                   /\ IsAggregate(a)
      BY <3>1 DEF Aggregate, IsAggregate, EndOfInput
    <3>3. PICK w : current' = <<w>> /\ Range(current') = {w} /\ w.events = {n}
      <4>1. current' = <<[start |-> s, events |-> {n}]>>
        BY <2>3 DEF LaterWindow, AddMeasurement
      <4> QED
        BY <4>1, SmallRanges
    <3>4. Open' = {n}
      BY <3>3 DEF Open
    <3>5. Open = Head(current).events /\ Range(current) = {Head(current)}
      BY <3>1, OpenWindow
    <3>6. Aggregates' = Aggregates \cup {a}
      <4>1. Range(outbox') = {a} /\ Range(outbox) = {}
        BY <1>5, <3>2, SmallRanges
      <4> QED
        BY <1>4, <3>2, <4>1 DEF Aggregates
    <3>7. Open # {}
      BY <3>5 DEF Apart
    <3>8. Apart'
      <4>1. Open' \cap Settled = {} /\ \A v \in Range(current') : v.events # {}
        BY <1>5, <3>3, <3>4
      <4> QED
        BY <4>1, <3>1, <3>2, <3>5, <3>6, <3>7, WindowCloses
    <3>9. Settled' = Settled \cup {n}
      BY <3>1, <3>2, <3>4, <3>5, <3>6 DEF Settled
    <3> QED
      BY <3>8, <3>9
  <2> QED
    BY <1>4, <2>1, <2>2, <2>3
<1> QED
  BY <1>1, <1>2, <1>4, <1>5, <1>6, EventSettles

\* What the loop hands over last: the open window, and the end of input or not.
LEMMA LastOutputEvents ==
    ASSUME IInv, Apart, InOrder, AllThere, outbox = <<>>,
           NEW rest, rest \in {<<>>, <<EndOfInput>>},
           outbox' = Flushed(Own) \o rest, current' = <<>>,
           Queued = {}, Queued' = {},
           UNCHANGED <<accepted, discarded, taken, pending, log>>
    PROVE  Apart' /\ InOrder' /\ AllThere'
<1>1. Range(current') = {} /\ Open' = {} /\ Range(outbox) = {}
  <2>1. Range(current') = {} /\ Range(outbox) = {}
    BY SmallRanges
  <2> QED
    BY <2>1 DEF Open
<1>2. rest \in Seq(Output) /\ Range(rest) \subseteq {EndOfInput}
  <2>1. EndOfInput \in Output
    BY DEF Output
  <2>2. CASE rest = <<>>
    BY <2>2, SmallRanges, EmptySequence
  <2>3. CASE rest = <<EndOfInput>>
    BY <2>1, <2>3, SmallRanges, Singleton
  <2> QED
    BY <2>2, <2>3
<1>3. Range(outbox') = Range(Flushed(Own)) \cup Range(rest)
  <2>1. Flushed(Own) \in Seq(Output) /\ EndOfInput \in Output
    BY OwnAggregate DEF Output
  <2> QED
    BY <1>2, <2>1, RangeFacts
<1>4. Apart' /\ Settled' = Settled
  <2>1. CASE current = <<>>
    <3>1. Flushed(Own) = <<>> /\ Range(Flushed(Own)) = {}
      BY <2>1, SmallRanges DEF Flushed
    <3>2. Aggregates' = Aggregates
      BY <1>1, <1>2, <1>3, <3>1 DEF Aggregates, IsAggregate
    <3>3. Open' = Open
      BY <1>1, <2>1, NoOpenWindow
    <3>4. Settled' = Settled
      BY <3>2, <3>3 DEF Settled
    <3> QED
      BY <1>1, <3>2, <3>3, <3>4 DEF Apart
  <2>2. CASE current # <<>>
    <3>1. PICK a : /\ Flushed(Own) = <<a>> /\ a.events = Head(current).events
                   /\ IsAggregate(a)
      BY <2>2 DEF Flushed, Aggregate, IsAggregate, EndOfInput
    <3>2. Aggregates' = Aggregates \cup {a}
      <4>1. Range(Flushed(Own)) = {a}
        BY <3>1, SmallRanges
      <4> QED
        BY <1>1, <1>2, <1>3, <3>1, <4>1 DEF Aggregates, IsAggregate
    <3>3. /\ Open = Head(current).events /\ Range(current) = {Head(current)}
          /\ Open # {}
      BY <2>2, OpenWindow DEF Apart
    <3>4. Apart'
      BY <1>1, <3>1, <3>2, <3>3, WindowCloses
    <3>5. Settled' = Settled
      BY <1>1, <3>1, <3>2, <3>3 DEF Settled
    <3> QED
      BY <3>4, <3>5
  <2> QED
    BY <2>1, <2>2
<1>5. InOrder'
  BY <1>4 DEF InOrder
<1>6. AllThere'
  BY <1>4 DEF AllThere
<1> QED
  BY <1>4, <1>5, <1>6

\* The rest of the loop, the egress and main leave the events where they are.
LEMMA EmitEvents ==
    ASSUME IInv, Apart, InOrder, AllThere, Emit
    PROVE  Apart' /\ InOrder' /\ AllThere'
<1>1. /\ outbox' = Tail(outbox)
      /\ \/ Head(outbox) = EndOfInput /\ pending' = pending
         \/ pending' = Append(pending, Head(outbox))
      /\ UNCHANGED <<accepted, discarded, current, taken, records, log>>
  BY DEF Emit, ingress
<1>2. outbox \in Seq(Output) /\ outbox # <<>> /\ pending \in Seq(Output)
  <2>1. outbox \in Seq(Output) /\ Len(outbox) >= 1
    BY DEF IInv, LoopTypes, Emit
  <2> QED
    BY <2>1, EmptyParts DEF IInv, KafkaTypes
<1>3. /\ Head(outbox) \in Output
      /\ Range(outbox) = {Head(outbox)} \cup Range(outbox')
  BY <1>1, <1>2, HeadAndTail, RangeFacts
<1>4. Range(Append(pending, Head(outbox))) = Range(pending) \cup {Head(outbox)}
  BY <1>2, <1>3, RangeFacts
<1>5. Aggregates' = Aggregates
  BY <1>1, <1>3, <1>4 DEF Aggregates, IsAggregate
<1> QED
  BY <1>1, <1>5, EventsUnchanged

LEMMA WrittenRange ==
    ASSUME log \in Seq(Output), NEW b \in Seq(Output),
           Written(b) \/ NotAcknowledged(b)
    PROVE  /\ Range(log') \in {Range(log), Range(log) \cup Range(b)}
           /\ Written(b) => Range(log') = Range(log) \cup Range(b)
<1>1. EndOfInput \in Output
  BY DEF Output
<1>2. Range(log \o b) = Range(log) \cup Range(b) /\ log \o b \in Seq(Output)
  BY <1>1, RangeFacts, ConcatFacts
<1>3. Range(log \o b \o b) = Range(log) \cup Range(b)
  <2>1. PICK c \in Seq(Output) : c = log \o b
    BY <1>2
  <2>2. Range(c \o b) = Range(c) \cup Range(b)
    BY <1>1, RangeFacts
  <2> QED
    BY <1>2, <2>1, <2>2
<1> QED
  BY <1>2, <1>3 DEF Written, NotAcknowledged

LEMMA EgressEvents ==
    ASSUME IInv, Apart, InOrder, AllThere, Egress \/ BatchTimeout
    PROVE  Apart' /\ InOrder' /\ AllThere'
<1>1. UNCHANGED <<accepted, discarded, current, taken, records, outbox>>
  BY DEF Egress, BatchTimeout, OutputClosed, FlushBatch, FlushFails,
         PublishEndOfInput, ingress, loop
<1>2. /\ pending \in Seq(Output) /\ log \in Seq(Output)
      /\ <<EndOfInput>> \in Seq(Output) /\ Range(<<EndOfInput>>) = {EndOfInput}
  <2>1. EndOfInput \in Output
    BY DEF Output
  <2> QED
    BY <2>1, Singleton, SmallRanges DEF IInv, KafkaTypes
<1>3. Aggregates' = Aggregates
  <2>1. CASE OutputClosed \/ BatchTimeout
    BY <1>1, <2>1 DEF Aggregates, OutputClosed, BatchTimeout
  <2>2. CASE FlushBatch
    <3>1. pending' = <<>> /\ Range(pending') = {}
      BY <2>2, SmallRanges DEF FlushBatch
    <3>2. Range(log') = Range(log) \cup Range(pending)
      <4>1. CASE pending = <<>>
        BY <2>2, <4>1, SmallRanges DEF FlushBatch
      <4>2. CASE pending # <<>>
        BY <1>2, <2>2, <4>2, WrittenRange DEF FlushBatch
      <4> QED
        BY <4>1, <4>2
    <3> QED
      BY <1>1, <3>1, <3>2 DEF Aggregates
  <2>3. CASE FlushFails
    <3>1. pending' = pending /\ NotAcknowledged(pending)
      BY <2>3 DEF FlushFails
    <3>2. Range(log') \in {Range(log), Range(log) \cup Range(pending)}
      BY <1>2, <3>1, WrittenRange
    <3> QED
      BY <1>1, <3>1, <3>2 DEF Aggregates
  <2>4. CASE PublishEndOfInput
    <3>1. /\ pending' = pending
          /\ Written(<<EndOfInput>>) \/ NotAcknowledged(<<EndOfInput>>)
      BY <2>4 DEF PublishEndOfInput
    <3>2. Range(log') \in {Range(log), Range(log) \cup {EndOfInput}}
      BY <1>2, <3>1, WrittenRange
    <3> QED
      BY <1>1, <3>1, <3>2 DEF Aggregates, IsAggregate
  <2> QED
    BY <2>1, <2>2, <2>3, <2>4 DEF Egress
<1> QED
  BY <1>1, <1>3, EventsUnchanged

-----------------------------------------------------------------------------
(***************************************************************************)
(* The order.                                                              *)
(***************************************************************************)
LEMMA UpcomingFacts ==
    ASSUME IInv
    PROVE  /\ pending \in Seq(Output) /\ Rest \in Seq(Output) /\ outbox \in Seq(Output)
           /\ log \in Seq(Output)
           /\ Upcoming \in Seq(Output)
           /\ Range(Upcoming) = Range(pending) \cup Range(Rest)
<1>1. EndOfInput \in Output /\ <<EndOfInput>> \in Seq(Output)
  BY Singleton DEF Output
<1>2. /\ pending \in Seq(Output) /\ Rest \in Seq(Output) /\ outbox \in Seq(Output)
      /\ log \in Seq(Output)
  BY <1>1 DEF IInv, KafkaTypes, LoopTypes, Rest
<1> QED
  BY <1>1, <1>2, ConcatFacts, RangeFacts DEF Upcoming

LEMMA RangeMember ==
    ASSUME NEW S, NEW s \in Seq(S)
    PROVE  /\ \A k \in 1 .. Len(s) : s[k] \in Range(s)
           /\ \A x \in Range(s) : \E k \in 1 .. Len(s) : x = s[k]
BY DEF Range

\* Neither the log nor what is upcoming changes.
LEMMA SameLegal ==
    ASSUME Legal(log), log' = log
    PROVE  Legal(log)'
OBVIOUS

LEMMA SameContinues ==
    ASSUME Continues, Upcoming' = Upcoming, log' = log, Alive
    PROVE  Continues'
<1>1. /\ Chained(Upcoming) /\ Injective(Upcoming)
      /\ \A j \in 1 .. Len(Upcoming), k \in 1 .. Len(log) : Upcoming[j] # log[k]
      /\ Upcoming # <<>> =>
            \A k \in 1 .. Len(log) : Latest(log, k) => Links(log[k], Upcoming[1])
  BY DEF Continues
<1>2. Chained(Upcoming')
  BY <1>1
<1>3. Injective(Upcoming')
  BY <1>1
<1>4. Upcoming' # <<>> =>
        \A k \in 1 .. Len(log') : Latest(log', k) => Links(log'[k], Upcoming'[1])
  BY <1>1
<1> QED
  BY <1>1, <1>2, <1>3, <1>4 DEF Continues

LEMMA OrderUnchanged ==
    ASSUME Legal(log), Continues, OpenFollows,
           UNCHANGED <<egress, pending, outbox, log, current>>,
           processor' \in {"next", "process", "emit"}
              => processor \in {"next", "process", "emit"}
    PROVE  Legal(log)' /\ Continues' /\ OpenFollows'
<1>1. Upcoming' = Upcoming /\ Alive' = Alive /\ log' = log
  BY DEF Upcoming, Rest, EndTaken, Alive
<1>2. Legal(log)'
  BY <1>1, SameLegal
<1>3. Continues'
  BY <1>1, SameContinues DEF Continues, Alive
<1>4. OpenFollows'
  BY <1>1 DEF OpenFollows
<1> QED
  BY <1>2, <1>3, <1>4

\* New records at the end of what is upcoming.
LEMMA UpcomingGrows ==
    ASSUME IInv, Continues, Alive, Alive', log' = log,
           NEW t \in Seq(Output), t # <<>>, Upcoming' = Upcoming \o t,
           Chained(t), Injective(t),
           \A j \in 1 .. Len(t) : t[j] \notin Range(log) \cup Range(Upcoming),
           Upcoming # <<>> => Links(Upcoming[Len(Upcoming)], t[1]),
           Upcoming = <<>> =>
              \A k \in 1 .. Len(log) : Latest(log, k) => Links(log[k], t[1])
    PROVE  Continues'
<1> DEFINE u == Upcoming \o t
<1>1. u = Upcoming' /\ Upcoming \in Seq(Output) /\ log \in Seq(Output)
  BY UpcomingFacts
<1>2. /\ Chained(Upcoming) /\ Injective(Upcoming)
      /\ \A j \in 1 .. Len(Upcoming), k \in 1 .. Len(log) : Upcoming[j] # log[k]
      /\ Upcoming # <<>> =>
            \A k \in 1 .. Len(log) : Latest(log, k) => Links(log[k], Upcoming[1])
  BY DEF Continues
<1>3. Chained(u)
  BY <1>1, <1>2, ChainedConcat
<1>4. Injective(u)
  <2>1. \A j \in 1 .. Len(Upcoming), k \in 1 .. Len(t) : Upcoming[j] # t[k]
    BY <1>1, RangeMember
  <2> QED
    BY <1>1, <1>2, <2>1, InjectiveConcat
<1>5. /\ Len(u) = Len(Upcoming) + Len(t) /\ Len(Upcoming) \in Nat /\ Len(t) \in Nat
      /\ \A k \in 1 .. Len(Upcoming) : u[k] = Upcoming[k]
      /\ \A k \in 1 .. Len(t) : u[Len(Upcoming) + k] = t[k]
  BY <1>1, ConcatFacts
<1> HIDE DEF u
<1>6. ASSUME NEW j \in 1 .. Len(u), NEW k \in 1 .. Len(log) PROVE u[j] # log[k]
  <2>1. CASE j <= Len(Upcoming)
    <3>1. j \in 1 .. Len(Upcoming)
      BY <1>5, <2>1
    <3> QED
      BY <1>2, <1>5, <3>1
  <2>2. CASE j > Len(Upcoming)
    <3>1. PICK i \in 1 .. Len(t) : j = Len(Upcoming) + i
      <4>1. /\ j - Len(Upcoming) \in 1 .. Len(t)
            /\ j = Len(Upcoming) + (j - Len(Upcoming))
        BY <1>5, <2>2
      <4> QED
        BY <4>1
    <3>2. log[k] \in Range(log)
      BY <1>1, RangeMember
    <3> QED
      BY <1>5, <3>1, <3>2
  <2> QED
    BY <1>5, <2>1, <2>2
<1>7. ASSUME NEW k \in 1 .. Len(log), Latest(log, k) PROVE Links(log[k], u[1])
  <2>1. CASE Upcoming = <<>>
    <3>1. Len(Upcoming) = 0 /\ Len(t) >= 1
      BY <2>1, EmptyParts
    <3>2. 1 \in 1 .. Len(t) /\ Len(Upcoming) + 1 = 1
      BY <1>5, <3>1
    <3>3. u[1] = t[1]
      BY <1>5, <3>2
    <3> QED
      BY <1>7, <2>1, <3>3
  <2>2. CASE Upcoming # <<>>
    <3>1. Len(Upcoming) >= 1
      BY <1>1, <2>2, EmptyParts
    <3>2. 1 \in 1 .. Len(Upcoming)
      BY <1>5, <3>1
    <3>3. u[1] = Upcoming[1]
      BY <1>5, <3>2
    <3> QED
      BY <1>2, <1>7, <2>2, <3>3
  <2> QED
    BY <2>1, <2>2
<1>8. /\ Chained(Upcoming)' /\ Injective(Upcoming)'
      /\ \A j \in 1 .. Len(Upcoming'), k \in 1 .. Len(log') : Upcoming'[j] # log'[k]
      /\ \A k \in 1 .. Len(log') : Latest(log', k) => Links(log'[k], Upcoming'[1])
  BY <1>1, <1>3, <1>4, <1>6, <1>7 DEF Chained, Injective
<1> QED
  BY <1>8 DEF Continues

\* An aggregate of the events of the open window is new.
LEMMA NewAggregate ==
    ASSUME Apart, Open # {}, NEW a, IsAggregate(a), a.events = Open
    PROVE  a \notin Range(log) \cup Range(pending) \cup Range(outbox)
<1>1. ASSUME a \in Range(log) \cup Range(pending) \cup Range(outbox) PROVE FALSE
  <2>1. a \in Aggregates
    BY <1>1 DEF Aggregates
  <2>2. a.events # {} /\ a.events \cap (Open \cup discarded) = {}
    BY <2>1 DEF Apart
  <2> QED
    BY <2>2
<1> QED
  BY <1>1

\* The aggregate of the open window, certified up to through.
LEMMA FlushedWindow ==
    ASSUME IInv, Apart, OpenFollows, current # <<>>, NEW through \in Nat
    PROVE  \E a \in Output :
              /\ Flushed(through) = <<a>> /\ IsAggregate(a) /\ a.events = Open
              /\ a.start = Head(current).start /\ a.end = Head(current).start + 1
              /\ a.through = through
              /\ a \notin Range(log) \cup Range(pending) \cup Range(outbox)
              /\ Alive => /\ Upcoming # <<>> => Links(Upcoming[Len(Upcoming)], a)
                          /\ Upcoming = <<>> =>
                                \A k \in 1 .. Len(log) :
                                   Latest(log, k) => Links(log[k], a)
<1> DEFINE a == Aggregate(Head(current).start, through, Head(current).events)
<1>1. Head(current) \in Window /\ Range(current) = {Head(current)} /\ Open = Head(current).events
  BY OpenWindow
<1>2. a \in Output
  BY <1>1, ConstantsAssumption DEF Aggregate, Window, Output
<1>3. /\ Flushed(through) = <<a>> /\ IsAggregate(a) /\ a.events = Open
      /\ a.start = Head(current).start /\ a.end = Head(current).start + 1
      /\ a.through = through
  BY <1>1 DEF Flushed, Aggregate, IsAggregate, EndOfInput
<1> HIDE DEF a
<1>4. Open # {}
  BY <1>1 DEF Apart
<1>5. a \notin Range(log) \cup Range(pending) \cup Range(outbox)
  BY <1>3, <1>4, NewAggregate
<1>6. \A r : Leads(r, Head(current).start) => Links(r, a)
  BY <1>3 DEF Links
<1>7. Alive => /\ Upcoming # <<>> => Links(Upcoming[Len(Upcoming)], a)
               /\ Upcoming = <<>> =>
                     \A k \in 1 .. Len(log) : Latest(log, k) => Links(log[k], a)
  BY <1>6 DEF OpenFollows
<1> QED
  BY <1>2, <1>3, <1>5, <1>7

\* The loop hands over one more aggregate, or two records at the end.
LEMMA OneFollows ==
    ASSUME IInv, Continues, Alive, UNCHANGED <<egress, log, pending>>,
           ~EndTaken, outbox = <<>>, NEW a \in Output, outbox' = <<a>>,
           a \notin Range(log) \cup Range(pending),
           Upcoming # <<>> => Links(Upcoming[Len(Upcoming)], a),
           Upcoming = <<>> =>
              \A k \in 1 .. Len(log) : Latest(log, k) => Links(log[k], a)
    PROVE  /\ Continues'
           /\ Upcoming' # <<>> /\ Upcoming'[Len(Upcoming')] = a
<1>1. pending \in Seq(Output) /\ Upcoming \in Seq(Output)
  BY UpcomingFacts
<1>2. Upcoming = pending /\ Alive' /\ Upcoming' = Upcoming \o <<a>>
  BY <1>1, EmptyParts DEF Upcoming, Rest, EndTaken, Alive
<1>3. PICK t \in Seq(Output) : t = <<a>> /\ Len(t) = 1 /\ t[1] = a /\ t # <<>>
  BY Singleton
<1>4. Chained(t) /\ Injective(t)
  BY <1>3 DEF Chained, Injective
<1>5. \A j \in 1 .. Len(t) : t[j] \notin Range(log) \cup Range(Upcoming)
  BY <1>2, <1>3
<1>6. Continues'
  BY <1>2, <1>3, <1>4, <1>5, UpcomingGrows
<1>7. /\ Len(Upcoming') = Len(Upcoming) + 1 /\ Len(Upcoming) \in Nat
      /\ Upcoming'[Len(Upcoming) + 1] = a /\ Upcoming' \in Seq(Output)
  BY <1>1, <1>2, Appended
<1>8. Upcoming' # <<>>
  BY <1>7, EmptyParts
<1> QED
  BY <1>6, <1>7, <1>8

LEMMA ProcessOrder ==
    ASSUME IInv, StreamInv, ProcessTelemetry
    PROVE  Legal(log)' /\ Continues' /\ OpenFollows' /\ EndIsLast'
<1>1. PICK t : /\ t \in Event /\ Range(taken) = {t} /\ t = Head(taken)
  BY InHandEvent DEF ProcessTelemetry
<1>2. PICK n : n = t.event
  OBVIOUS
<1>3. PICK s : s = t.start /\ s \in Nat
  BY <1>1, ConstantsAssumption DEF Event
<1>4. /\ processor = "process"
      /\ UNCHANGED <<pending, log, egress, eosRegistered, records>>
      /\ Discard(n, s) \/ SameWindow(n, s) \/ LaterWindow(n, s)
  BY <1>1, <1>2, <1>3 DEF ProcessTelemetry, kafka
<1>5. /\ outbox = <<>> /\ ~Over /\ ~EndTaken
      /\ EndOfInput \notin Range(log) /\ EndOfInput \notin Range(outbox)
      /\ EndOfInput \notin Range(pending)
  BY <1>4, NothingToEmit DEF StreamInv, EndIsLast
<1>6. /\ processor' \in {"next", "emit"}
      /\ processor' = "emit" => ~UNCHANGED outbox
      /\ EndOfInput \notin Range(outbox')
      /\ processor' = "next" => outbox' = <<>>
  <2>1. CASE Discard(n, s) \/ SameWindow(n, s)
    BY <1>5, <2>1 DEF Discard, SameWindow
  <2>2. CASE LaterWindow(n, s)
    <3>1. processor' = "emit" /\ current # <<>> /\ outbox' = Flushed(s)
      BY <2>2 DEF LaterWindow
    <3>2. PICK a \in Output : Flushed(s) = <<a>> /\ IsAggregate(a)
      BY <1>3, <3>1, FlushedWindow DEF StreamInv
    <3> QED
      BY <1>5, <3>1, <3>2, SmallRanges DEF IsAggregate
  <2> QED
    BY <1>4, <2>1, <2>2
<1>7. EndIsLast'
  <2>1. EndTaken' = EndTaken
    BY <1>4 DEF EndTaken
  <2> QED
    BY <1>4, <1>5, <1>6, <2>1 DEF StreamInv, EndIsLast
<1>8. Legal(log)' /\ Continues' /\ OpenFollows'
  <2>1. CASE Discard(n, s)
    BY <1>4, <2>1, OrderUnchanged DEF Discard, StreamInv
  <2>2. CASE SameWindow(n, s)
    <3>1. /\ outbox' = outbox
          /\ current # <<>> => s = Head(current).start
          /\ current' # <<>> /\ Head(current').start = s
      BY <2>2 DEF SameWindow
    <3>2. Upcoming' = Upcoming /\ Alive' = Alive /\ log' = log
      BY <1>4, <3>1 DEF Upcoming, Rest, EndTaken, Alive
    <3>3. Legal(log)'
      BY <3>2, SameLegal DEF StreamInv
    <3>4. Continues'
      BY <3>2, SameContinues DEF StreamInv, Continues, Alive
    <3>5. ASSUME Alive
          PROVE  /\ Upcoming # <<>> => Leads(Upcoming[Len(Upcoming)], s)
                 /\ Upcoming = <<>> =>
                       \A k \in 1 .. Len(log) : Latest(log, k) => Leads(log[k], s)
      <4>1. CASE current # <<>>
        BY <3>1, <3>5, <4>1 DEF StreamInv, OpenFollows
      <4>2. CASE current = <<>>
        <5>1. log = <<>> /\ pending = <<>> /\ outbox = <<>>
          BY <1>4, <4>2 DEF StreamInv, OpenFollows
        <5>2. Upcoming = <<>> /\ Len(log) = 0
          BY <1>5, <5>1, EmptySequence DEF Upcoming, Rest
        <5> QED
          BY <5>2
      <4> QED
        BY <4>1, <4>2
    <3>6. OpenFollows'
      BY <3>1, <3>2, <3>5 DEF OpenFollows
    <3> QED
      BY <3>3, <3>4, <3>6
  <2>3. CASE LaterWindow(n, s)
    <3>1. /\ current # <<>> /\ outbox' = Flushed(s)
          /\ current' # <<>> /\ Head(current').start = s
      BY <2>3 DEF LaterWindow
    <3>2. PICK a \in Output :
             /\ Flushed(s) = <<a>> /\ IsAggregate(a) /\ a.through = s
             /\ a \notin Range(log) \cup Range(pending) \cup Range(outbox)
             /\ Alive => /\ Upcoming # <<>> => Links(Upcoming[Len(Upcoming)], a)
                         /\ Upcoming = <<>> =>
                               \A k \in 1 .. Len(log) :
                                  Latest(log, k) => Links(log[k], a)
      BY <1>3, <3>1, FlushedWindow DEF StreamInv
    <3>3. Legal(log)'
      BY <1>4, SameLegal DEF StreamInv
    <3>4. Alive' = Alive
      BY <1>4 DEF Alive
    <3>5. Continues' /\ OpenFollows'
      <4>1. CASE ~Alive
        BY <3>1, <3>4, <4>1 DEF Continues, OpenFollows
      <4>2. CASE Alive
        <5>1. /\ Continues'
              /\ Upcoming' # <<>> /\ Upcoming'[Len(Upcoming')] = a
          BY <1>4, <1>5, <3>1, <3>2, <4>2, OneFollows DEF StreamInv
        <5>2. Leads(a, s)
          BY <3>2 DEF Leads
        <5>3. Leads(Upcoming[Len(Upcoming)], s)'
          BY <1>4, <5>1, <5>2, <1>3, <3>2 DEF Leads, IsAggregate
        <5> QED
          BY <3>1, <5>1, <5>3, <3>2 DEF OpenFollows, Leads, IsAggregate
      <4> QED
        BY <4>1, <4>2
    <3> QED
      BY <3>3, <3>5
  <2> QED
    BY <1>4, <2>1, <2>2, <2>3
<1> QED
  BY <1>7, <1>8

LEMMA Pair ==
    ASSUME NEW S, NEW x \in S, NEW y \in S
    PROVE  /\ Append(<<x>>, y) \in Seq(S)
           /\ Len(Append(<<x>>, y)) = 2 /\ Append(<<x>>, y) # <<>>
           /\ Append(<<x>>, y)[1] = x /\ Append(<<x>>, y)[2] = y
<1>1. /\ Append(<<x>>, y) \in Seq(S) /\ Len(Append(<<x>>, y)) = 2
      /\ Append(<<x>>, y)[1] = x /\ Append(<<x>>, y)[2] = y
  OBVIOUS
<1>2. Append(<<x>>, y) # <<>>
  BY <1>1, NonEmpty
<1> QED
  BY <1>1, <1>2

LEMMA EndFollows ==
    ASSUME IInv, StreamInv, Alive, UNCHANGED <<egress, log, pending>>,
           processor = "next", current' = <<>>,
           outbox' = Append(Flushed(Own), EndOfInput)
    PROVE  Continues'
<1>1. /\ outbox = <<>> /\ ~EndTaken
      /\ EndOfInput \notin Range(log) /\ EndOfInput \notin Range(pending)
  BY NothingToEmit DEF StreamInv, EndIsLast
<1>2. /\ pending \in Seq(Output) /\ Upcoming \in Seq(Output)
      /\ EndOfInput \in Output
  BY UpcomingFacts DEF Output
<1>3. /\ Upcoming = pending /\ Alive' /\ Continues
      /\ \A t : outbox' = t => Upcoming' = Upcoming \o t
  BY <1>1, <1>2, EmptyParts DEF Upcoming, Rest, EndTaken, Alive, StreamInv
<1>4. CASE current = <<>>
  <2>1. log = <<>> /\ pending = <<>>
    BY <1>4 DEF StreamInv, OpenFollows
  <2>2. PICK t \in Seq(Output) :
           t = <<EndOfInput>> /\ Len(t) = 1 /\ t[1] = EndOfInput /\ t # <<>>
    BY <1>2, Singleton
  <2>3. outbox' = t
    BY <1>4, <2>2 DEF Flushed
  <2>4. Chained(t) /\ Injective(t)
    BY <2>2 DEF Chained, Injective
  <2>5. \A j \in 1 .. Len(t) : t[j] \notin Range(log) \cup Range(Upcoming)
    BY <1>1, <1>3, <2>2
  <2>6. Upcoming = <<>> /\ \A k \in 1 .. Len(log) : FALSE
    <3>1. Len(log) = 0
      BY <2>1, EmptySequence
    <3> QED
      BY <1>3, <2>1, <3>1
  <2>7. Upcoming' = Upcoming \o t
    BY <1>3, <2>3
  <2> QED
    BY <1>3, <2>2, <2>4, <2>5, <2>6, <2>7, UpcomingGrows
<1>5. CASE current # <<>>
  <2>1. Head(current) \in Window /\ Own \in Nat /\ Own = Head(current).start + 1
    BY <1>5, OpenWindow, ConstantsAssumption DEF Own, Window
  <2>2. PICK a \in Output :
           /\ Flushed(Own) = <<a>> /\ IsAggregate(a)
           /\ a.end = Head(current).start + 1 /\ a.through = Own
           /\ a \notin Range(log) \cup Range(pending) \cup Range(outbox)
           /\ Upcoming # <<>> => Links(Upcoming[Len(Upcoming)], a)
           /\ Upcoming = <<>> =>
                 \A k \in 1 .. Len(log) : Latest(log, k) => Links(log[k], a)
    BY <1>5, <2>1, FlushedWindow DEF StreamInv
  <2>3. PICK t \in Seq(Output) :
           /\ t = Append(<<a>>, EndOfInput) /\ Len(t) = 2 /\ t[1] = a /\ t[2] = EndOfInput
           /\ t # <<>>
    BY <1>2, Pair
  <2>4. outbox' = t
    BY <2>2, <2>3
  <2>5. Links(a, EndOfInput)
    BY <2>1, <2>2 DEF Links, Leads, IsAggregate
  <2>6. Chained(t) /\ Injective(t)
    <3>1. ASSUME NEW k \in 1 .. Len(t) - 1 PROVE Links(t[k], t[k + 1])
      <4>1. k = 1 /\ k + 1 = 2
        BY <2>3, <3>1
      <4> QED
        BY <2>3, <2>5, <4>1
    <3>2. ASSUME NEW j \in 1 .. Len(t), NEW k \in 1 .. Len(t), j < k
          PROVE  t[j] # t[k]
      <4>1. j = 1 /\ k = 2
        BY <2>3, <3>2
      <4> QED
        BY <2>2, <2>3, <4>1 DEF IsAggregate
    <3> QED
      BY <3>1, <3>2 DEF Chained, Injective
  <2>7. \A j \in 1 .. Len(t) : t[j] \notin Range(log) \cup Range(Upcoming)
    <3>1. \A j \in 1 .. Len(t) : t[j] = a \/ t[j] = EndOfInput
      BY <2>3
    <3> QED
      BY <1>1, <1>3, <2>2, <3>1
  <2> QED
    BY <1>3, <2>2, <2>3, <2>4, <2>6, <2>7, UpcomingGrows
<1> QED
  BY <1>4, <1>5

LEMMA ReceiveEndOfReplayStream ==
    ASSUME IInv, StreamInv, ReceiveEndOfReplay
    PROVE  StreamInv'
<1> DEFINE rest == Append(Flushed(Own), EndOfInput)
<1>1. /\ processor = "next" /\ records # <<>> /\ Head(records) = EOS
      /\ records' = Tail(records) /\ LastOutput(rest)
      /\ UNCHANGED <<accepted, eosRegistered, taken, discarded, egress, pending, log>>
  BY DEF ReceiveEndOfReplay, kafka
<1>2. /\ outbox = <<>> /\ ~EndTaken
      /\ EndOfInput \notin Range(log) /\ EndOfInput \notin Range(pending)
      /\ taken = <<>>
  <2>1. taken \in Seq(Event) /\ Len(taken) = 0
    BY <1>1 DEF IInv, LoopTypes, InHand
  <2> QED
    BY <1>1, <2>1, EmptyParts, NothingToEmit DEF StreamInv, EndIsLast
<1>3. /\ Flushed(Own) \in Seq(Output) /\ EndOfInput \in Output
      /\ rest \in Seq(Output) /\ rest # <<>>
      /\ rest = Flushed(Own) \o <<EndOfInput>>
  <2>1. Flushed(Own) \in Seq(Output) /\ EndOfInput \in Output
    BY OwnAggregate DEF Output
  <2>2. rest = Flushed(Own) \o <<EndOfInput>>
    BY <2>1
  <2>3. rest \in Seq(Output) /\ Len(rest) = Len(Flushed(Own)) + 1 /\ Len(Flushed(Own)) \in Nat
    BY <2>1, Appended
  <2> HIDE DEF rest
  <2> QED
    BY <2>1, <2>2, <2>3, EmptyParts
<1>4. /\ outbox' = rest /\ current' = <<>> /\ processor' = "emitLast"
  BY <1>1, <1>3 DEF LastOutput
<1>5. /\ records \in Seq({EOS} \cup Event) /\ Len(records) \in Nat \ {0}
      /\ records[1] = EOS
  BY <1>1, HeadAndTail DEF IInv, IngressTypes
<1>6. Len(records) = 1 /\ eosRegistered
  <2>1. 1 \in 1 .. Len(records)
    BY <1>5
  <2> QED
    BY <1>5, <2>1 DEF IInv, Balance
<1>7. records' = <<>> /\ Queued = {} /\ Queued' = {}
  <2>1. records' = <<>>
    BY <1>1, <1>5, <1>6, OneElement
  <2>2. Len(records') = 0
    BY <2>1, EmptySequence
  <2> QED
    BY <1>5, <1>6, <2>1, <2>2 DEF Queued
<1>8. Apart' /\ InOrder' /\ AllThere'
  <2>1. outbox' = Flushed(Own) \o <<EndOfInput>>
    BY <1>3, <1>4
  <2> QED
    BY <1>1, <1>2, <1>4, <1>7, <2>1, LastOutputEvents DEF StreamInv
<1>9. Legal(log)'
  BY <1>1, SameLegal DEF StreamInv
<1>10. Continues'
  <2>1. CASE ~Alive
    BY <1>1, <2>1 DEF Continues, Alive
  <2>2. CASE Alive
    BY <1>1, <1>4, <2>2, EndFollows
  <2> QED
    BY <2>1, <2>2
<1>11. OpenFollows'
  BY <1>4 DEF OpenFollows
<1>12. EndIsLast'
  <2>1. Over'
    BY <1>1, <1>2, <1>4, <1>6, <1>7 DEF Over
  <2>2. EndTaken' = EndTaken
    BY <1>1 DEF EndTaken
  <2> QED
    BY <1>1, <1>2, <1>4, <2>1, <2>2 DEF StreamInv, EndIsLast
<1> QED
  BY <1>8, <1>9, <1>10, <1>11, <1>12 DEF StreamInv

LEMMA ReceiveClosedStream ==
    ASSUME IInv, StreamInv, ReceiveClosed
    PROVE  StreamInv'
<1>1. /\ processor = "next" /\ records = <<>> /\ LastOutput(Flushed(Own))
      /\ UNCHANGED <<accepted, records, eosRegistered, taken, discarded,
                     egress, pending, log>>
  BY DEF ReceiveClosed, kafka, ingress
<1>2. /\ outbox = <<>> /\ ~EndTaken
      /\ EndOfInput \notin Range(log) /\ EndOfInput \notin Range(pending)
  BY <1>1, NothingToEmit DEF StreamInv, EndIsLast
<1>3. /\ outbox' = Flushed(Own) /\ current' = <<>>
      /\ processor' = IF Flushed(Own) = <<>> THEN "returned" ELSE "emitLast"
  BY <1>1 DEF LastOutput
<1>4. Queued = {} /\ Queued' = {}
  <2>1. Len(records) = 0
    BY <1>1, EmptySequence
  <2> QED
    BY <1>1, <2>1 DEF Queued
<1>5. Apart' /\ InOrder' /\ AllThere'
  <2>1. outbox' = Flushed(Own) \o <<>>
    BY <1>3, OwnAggregate, EmptyParts
  <2> QED
    BY <1>1, <1>2, <1>3, <1>4, <2>1, LastOutputEvents DEF StreamInv
<1>6. Legal(log)'
  BY <1>1, SameLegal DEF StreamInv
<1>7. OpenFollows'
  BY <1>3 DEF OpenFollows
<1>8. Continues' /\ EndIsLast'
  <2>1. CASE current = <<>>
    <3>1. Flushed(Own) = <<>>
      BY <2>1 DEF Flushed
    <3>2. outbox' = outbox
      BY <1>2, <1>3, <3>1
    <3>3. Upcoming' = Upcoming /\ Alive' = Alive /\ log' = log /\ EndTaken' = EndTaken
      BY <1>1, <3>2 DEF Upcoming, Rest, EndTaken, Alive
    <3>4. Continues'
      BY <3>3, SameContinues DEF StreamInv, Continues, Alive
    <3>5. Range(outbox') = {}
      BY <1>3, <3>1, SmallRanges
    <3>6. EndIsLast'
      BY <1>1, <1>2, <1>3, <3>1, <3>3, <3>5 DEF StreamInv, EndIsLast
    <3> QED
      BY <3>4, <3>6
  <2>2. CASE current # <<>>
    <3>1. Head(current) \in Window /\ Own \in Nat
      BY <2>2, OpenWindow, ConstantsAssumption DEF Own, Window
    <3>2. PICK a \in Output :
             /\ Flushed(Own) = <<a>> /\ IsAggregate(a)
             /\ a \notin Range(log) \cup Range(pending) \cup Range(outbox)
             /\ Alive => /\ Upcoming # <<>> => Links(Upcoming[Len(Upcoming)], a)
                         /\ Upcoming = <<>> =>
                               \A k \in 1 .. Len(log) :
                                  Latest(log, k) => Links(log[k], a)
      BY <2>2, <3>1, FlushedWindow DEF StreamInv
    <3>3. outbox' = <<a>> /\ Range(outbox') = {a} /\ processor' = "emitLast"
      <4>1. <<a>> # <<>>
        OBVIOUS
      <4> QED
        BY <1>3, <3>2, <4>1, SmallRanges
    <3>4. Alive' = Alive /\ EndTaken' = EndTaken
      BY <1>1 DEF Alive, EndTaken
    <3>5. Continues'
      <4>1. CASE ~Alive
        BY <3>4, <4>1 DEF Continues
      <4>2. CASE Alive
        BY <1>1, <1>2, <3>2, <3>3, <4>2, OneFollows DEF StreamInv
      <4> QED
        BY <4>1, <4>2
    <3>6. EndIsLast'
      BY <1>1, <1>2, <3>2, <3>3, <3>4 DEF StreamInv, EndIsLast, IsAggregate
    <3> QED
      BY <3>5, <3>6
  <2> QED
    BY <2>1, <2>2
<1> QED
  BY <1>5, <1>6, <1>7, <1>8 DEF StreamInv

LEMMA EmitStream ==
    ASSUME IInv, StreamInv, Emit
    PROVE  StreamInv'
<1>1. /\ processor \in {"emit", "emitLast"} /\ egress = "select"
      /\ outbox' = Tail(outbox) /\ processor' = AfterEmit
      /\ UNCHANGED <<records, eosRegistered, taken, current, log>>
  BY DEF Emit, ingress
<1>2. /\ Alive /\ ~EndTaken /\ EndOfInput \notin Range(log)
      /\ EndOfInput \notin Range(pending)
      /\ EndOfInput \in Range(outbox) => Over
  BY <1>1 DEF Alive, EndTaken, StreamInv, EndIsLast
<1>3. /\ pending \in Seq(Output) /\ outbox \in Seq(Output) /\ outbox # <<>>
      /\ Len(outbox) \in 1 .. 2
      /\ processor = "emit" => Len(outbox) = 1
  <2>1. /\ outbox \in Seq(Output) /\ Len(outbox) <= 2
        /\ processor = "emit" => Len(outbox) = 1
        /\ processor = "emitLast" => Len(outbox) >= 1
    BY DEF IInv, LoopTypes
  <2>2. Len(outbox) \in Nat
    BY <2>1
  <2>3. Len(outbox) >= 1
    BY <1>1, <2>1, <2>2
  <2>4. Len(outbox) \in 1 .. 2 /\ Len(outbox) # 0
    <3>1. ASSUME NEW l \in Nat, l <= 2, l >= 1 PROVE l \in 1 .. 2 /\ l # 0
      BY <3>1
    <3>2. Len(outbox) <= 2
      BY <2>1
    <3> QED
      BY <2>2, <2>3, <3>1, <3>2
  <2>5. outbox # <<>>
    BY <2>1, <2>4, NonEmpty
  <2> QED
    BY <2>1, <2>4, <2>5, UpcomingFacts
<1>4. /\ Head(outbox) = outbox[1] /\ Head(outbox) \in Output
      /\ Tail(outbox) \in Seq(Output) /\ Len(Tail(outbox)) = Len(outbox) - 1
      /\ Range(outbox) = {Head(outbox)} \cup Range(Tail(outbox))
  BY <1>3, HeadAndTail, RangeFacts
<1>5. Upcoming = pending \o outbox /\ Chained(pending \o outbox)
  BY <1>2 DEF Upcoming, Rest, StreamInv, Continues
<1>6. ASSUME Head(outbox) = EndOfInput PROVE outbox = <<EndOfInput>> /\ outbox' = <<>>
  <2>1. Chained(outbox)
    BY <1>3, <1>5, ChainedParts
  <2>2. Len(outbox) # 2
    <3>1. ASSUME Len(outbox) = 2 PROVE FALSE
      <4>1. 1 \in 1 .. Len(outbox) - 1
        BY <3>1
      <4>2. Links(outbox[1], outbox[1 + 1])
        BY <2>1, <4>1 DEF Chained
      <4> QED
        BY <1>4, <1>6, <4>2 DEF Links, Leads, IsAggregate
    <3> QED
      BY <3>1
  <2>3. Len(outbox) = 1
    BY <1>3, <2>2
  <2> QED
    BY <1>1, <1>3, <1>6, <2>3, OneElement
<1>7. /\ processor' \in {"next", "emitLast", "returned", "emit"}
      /\ processor' \in {"next", "process", "returned"} => outbox' = <<>>
      /\ processor' \in {"next", "process", "emit"} => processor = "emit"
      /\ processor = "emitLast" => processor' \in {"emitLast", "returned"}
  <2>1. Len(outbox) = 1 => Tail(outbox) = <<>>
    BY <1>3, OneElement
  <2>2. Len(outbox) > 1 \/ Len(outbox) = 1
    BY <1>3
  <2>3. ~(1 > 1)
    OBVIOUS
  <2> QED
    BY <1>1, <1>3, <2>1, <2>2, <2>3 DEF AfterEmit
<1>8. Over => Over'
  BY <1>1, <1>7 DEF Over
<1>9. Upcoming' = Upcoming /\ Alive' /\ EndIsLast'
  <2>1. CASE Head(outbox) = EndOfInput
    <3>1. egress' = "flushThenEnd" /\ pending' = pending
      BY <2>1 DEF Emit
    <3>2. EndTaken' /\ Rest' = <<EndOfInput>> /\ Alive'
      BY <3>1 DEF EndTaken, Rest, Alive
    <3>3. Upcoming' = Upcoming
      BY <1>5, <1>6, <2>1, <3>1, <3>2 DEF Upcoming
    <3>4. Over'
      BY <1>2, <1>4, <1>8, <2>1
    <3>5. outbox' = <<>>
      BY <1>6, <2>1
    <3>6. EndIsLast'
      BY <1>1, <1>2, <3>1, <3>4, <3>5 DEF EndIsLast
    <3> QED
      BY <3>2, <3>3, <3>6
  <2>2. CASE Head(outbox) # EndOfInput
    <3>1. /\ egress' \in {"flush", "select"}
          /\ pending' = Append(pending, Head(outbox))
      BY <2>2 DEF Emit
    <3>2. ~EndTaken' /\ Rest' = outbox' /\ Alive'
      BY <3>1 DEF EndTaken, Rest, Alive
    <3>3. Upcoming' = Upcoming
      BY <1>1, <1>3, <1>5, <3>1, <3>2, Shifted DEF Upcoming
    <3>4. EndOfInput \notin Range(pending')
      <4>1. Range(Append(pending, Head(outbox))) = Range(pending) \cup {Head(outbox)}
        BY <1>3, <1>4, RangeFacts
      <4> QED
        BY <1>2, <2>2, <3>1, <4>1
    <3>5. EndOfInput \in Range(outbox') => Over'
      BY <1>1, <1>2, <1>4, <1>8
    <3>6. egress' \notin {"end", "returned"} /\ EndOfInput \notin Range(log')
      BY <1>1, <1>2, <3>1
    <3> QED
      BY <1>7, <3>2, <3>3, <3>4, <3>5, <3>6 DEF EndIsLast
  <2> QED
    BY <2>1, <2>2
<1>10. Legal(log)' /\ Continues' /\ OpenFollows'
  <2>1. log' = log /\ current' = current /\ Alive
    BY <1>1, <1>2
  <2>2. Legal(log)'
    BY <2>1, SameLegal DEF StreamInv
  <2>3. Continues'
    BY <1>9, <2>1, SameContinues DEF StreamInv, Continues, Alive
  <2>4. current # <<>> \/ processor' \notin {"next", "process", "emit"}
    BY <1>3, <1>7 DEF StreamInv, OpenFollows
  <2>5. OpenFollows'
    BY <1>9, <2>1, <2>4 DEF StreamInv, OpenFollows
  <2> QED
    BY <2>2, <2>3, <2>5
<1> QED
  BY <1>9, <1>10, EmitEvents DEF StreamInv

\* A write of a batch that is upcoming leaves the log legal.
LEMMA WriteIsLegal ==
    ASSUME IInv, Legal(log), Continues, Alive, NEW b \in Seq(Output), b # <<>>,
           NEW rest \in Seq(Output), Upcoming = b \o rest,
           Written(b) \/ NotAcknowledged(b)
    PROVE  /\ Legal(log)' /\ log' \in Seq(Output)
           /\ Written(b) =>
                 /\ \A k \in 1 .. Len(log') : Latest(log', k) => log'[k] = b[Len(b)]
                 /\ \A j \in 1 .. Len(rest), k \in 1 .. Len(log') : rest[j] # log'[k]
<1>1. log \in Seq(Output)
  BY UpcomingFacts
<1>2. /\ Chained(b \o rest) /\ Injective(b \o rest)
      /\ \A j \in 1 .. Len(b \o rest), k \in 1 .. Len(log) : (b \o rest)[j] # log[k]
      /\ b \o rest # <<>> =>
            \A k \in 1 .. Len(log) : Latest(log, k) => Links(log[k], (b \o rest)[1])
  BY DEF Continues
<1>3. /\ b \o rest \in Seq(Output) /\ Len(b \o rest) = Len(b) + Len(rest)
      /\ Len(b) \in Nat \ {0} /\ Len(rest) \in Nat
      /\ \A k \in 1 .. Len(b) : (b \o rest)[k] = b[k]
      /\ \A k \in 1 .. Len(rest) : (b \o rest)[Len(b) + k] = rest[k]
  <2>1. Len(b) >= 1
    BY EmptyParts
  <2> QED
    BY <2>1, ConcatFacts
<1>4. /\ Chained(b) /\ Injective(b)
      /\ \A j \in 1 .. Len(b), k \in 1 .. Len(rest) : b[j] # rest[k]
  BY <1>2, ChainedParts, InjectiveParts
<1>5. \A j \in 1 .. Len(b), k \in 1 .. Len(log) : b[j] # log[k]
  <2>1. ASSUME NEW j \in 1 .. Len(b), NEW k \in 1 .. Len(log) PROVE b[j] # log[k]
    <3>1. j \in 1 .. Len(b \o rest)
      BY <1>3
    <3> QED
      BY <1>2, <1>3, <3>1
  <2> QED
    BY <2>1
<1>6. \A j \in 1 .. Len(rest), k \in 1 .. Len(log) : rest[j] # log[k]
  <2>1. ASSUME NEW j \in 1 .. Len(rest), NEW k \in 1 .. Len(log) PROVE rest[j] # log[k]
    <3>1. Len(b) + j \in 1 .. Len(b \o rest)
      BY <1>3
    <3> QED
      BY <1>2, <1>3, <3>1
  <2> QED
    BY <2>1
<1>7. \A k \in 1 .. Len(log) : Latest(log, k) => Links(log[k], b[1])
  <2>1. b \o rest # <<>> /\ (b \o rest)[1] = b[1]
    <3>1. Len(b \o rest) # 0 /\ 1 \in 1 .. Len(b)
      BY <1>3
    <3> QED
      BY <1>3, <3>1, NonEmpty
  <2> QED
    BY <1>2, <2>1
<1>8. /\ Written(b) =>
            log' \in Seq(Output) /\ Extends(log, b, log') /\ Range(log') = Range(log) \cup Range(b)
      /\ NotAcknowledged(b) =>
            log' = log \/ (log' \in Seq(Output) /\ Extends(log, b, log'))
  BY <1>1, WriteExtends, WrittenRange DEF Written, NotAcknowledged
<1>9. ASSUME NEW m \in Seq(Output), Extends(log, b, m)
      PROVE  /\ Legal(m)
             /\ \A k \in 1 .. Len(m) : Latest(m, k) => m[k] = b[Len(b)]
  <2>1. FitsAfter(log, b)
    BY <1>4, <1>5, <1>7 DEF FitsAfter
  <2> QED
    BY <1>1, <1>9, <2>1, LegalExtension
<1>10. Legal(log') /\ log' \in Seq(Output)
  BY <1>1, <1>8, <1>9
<1>11. Legal(log)'
  BY <1>10
<1>12. ASSUME Written(b)
       PROVE  \A j \in 1 .. Len(rest), k \in 1 .. Len(log') : rest[j] # log'[k]
  <2>1. ASSUME NEW j \in 1 .. Len(rest) PROVE rest[j] \notin Range(log) \cup Range(b)
    BY <1>1, <1>4, <1>6, RangeMember
  <2>2. \A k \in 1 .. Len(log') : log'[k] \in Range(log) \cup Range(b)
    BY <1>8, <1>12, RangeMember
  <2> QED
    BY <2>1, <2>2
<1> QED
  BY <1>8, <1>9, <1>10, <1>11, <1>12

LEMMA FlushBatchStream ==
    ASSUME IInv, StreamInv, FlushBatch
    PROVE  Legal(log)' /\ Continues' /\ OpenFollows' /\ EndIsLast'
<1>1. /\ egress \in {"flush", "flushThenEnd", "flushThenReturn"}
      /\ egress' = AfterFlush /\ pending' = <<>>
      /\ IF pending = <<>> THEN log' = log ELSE Written(pending)
      /\ UNCHANGED <<records, eosRegistered, taken, current, outbox, processor>>
  BY DEF FlushBatch, ingress, loop
<1>2. /\ Alive /\ EndOfInput \notin Range(log) /\ EndOfInput \notin Range(pending)
      /\ egress' \in {"select", "end", "returned"}
      /\ egress' = "select" <=> egress = "flush"
      /\ egress' = "end" <=> egress = "flushThenEnd"
  BY <1>1 DEF Alive, AfterFlush, StreamInv, EndIsLast
<1>3. EndTaken' = EndTaken /\ Rest' = Rest
  BY <1>1, <1>2 DEF EndTaken, Rest
<1>4. /\ pending \in Seq(Output) /\ Rest \in Seq(Output) /\ log \in Seq(Output)
      /\ Upcoming = pending \o Rest /\ Upcoming' = Rest /\ Upcoming \in Seq(Output)
  BY <1>1, <1>3, UpcomingFacts, EmptyParts DEF Upcoming
<1>5. Range(log') = Range(log) \cup Range(pending)
  <2>1. CASE pending = <<>>
    BY <1>1, <2>1, SmallRanges
  <2>2. CASE pending # <<>>
    BY <1>1, <1>4, <2>2, WrittenRange
  <2> QED
    BY <2>1, <2>2
<1>6. EndIsLast'
  <2>1. Over' = Over /\ Range(pending') = {}
    BY <1>1, SmallRanges DEF Over
  <2> QED
    BY <1>1, <1>2, <1>3, <1>5, <2>1 DEF StreamInv, EndIsLast
<1>7. ASSUME current' = <<>>, processor' \in {"next", "process", "emit"}
      PROVE  log' = <<>> /\ pending' = <<>> /\ outbox' = <<>>
  BY <1>1, <1>7 DEF StreamInv, OpenFollows
<1>8. CASE pending = <<>>
  <2>1. Upcoming' = Upcoming /\ log' = log /\ current' = current
    BY <1>1, <1>4, <1>8, EmptyParts
  <2>2. Legal(log)'
    BY <2>1, SameLegal DEF StreamInv
  <2>3. Continues'
    BY <1>2, <2>1, SameContinues DEF StreamInv, Continues, Alive
  <2>4. OpenFollows'
    BY <1>2, <1>7, <2>1 DEF StreamInv, OpenFollows
  <2> QED
    BY <1>6, <2>2, <2>3, <2>4
<1>9. CASE pending # <<>>
  <2>1. Written(pending)
    BY <1>1, <1>9
  <2>2. /\ Legal(log)' /\ log' \in Seq(Output)
        /\ \A k \in 1 .. Len(log') : Latest(log', k) => log'[k] = pending[Len(pending)]
        /\ \A j \in 1 .. Len(Rest), k \in 1 .. Len(log') : Rest[j] # log'[k]
    BY <1>2, <1>4, <1>9, <2>1, WriteIsLegal DEF StreamInv
  <2>3. Chained(pending \o Rest) /\ Injective(pending \o Rest)
    BY <1>2, <1>4 DEF StreamInv, Continues
  <2>4. /\ Chained(Rest) /\ Injective(Rest)
        /\ Rest # <<>> => Links(pending[Len(pending)], Rest[1])
    BY <1>4, <1>9, <2>3, ChainedParts, InjectiveParts
  <2>5. Rest # <<>> =>
           \A k \in 1 .. Len(log') : Latest(log', k) => Links(log'[k], Rest[1])
    BY <2>2, <2>4
  <2>6. Continues'
    BY <1>4, <2>2, <2>4, <2>5
       DEF Continues
  <2>7. ASSUME current # <<>>
        PROVE  /\ Rest # <<>> => Leads(Rest[Len(Rest)], Head(current).start)
               /\ Rest = <<>> => Leads(pending[Len(pending)], Head(current).start)
    <3>1. Upcoming # <<>> => Leads(Upcoming[Len(Upcoming)], Head(current).start)
      BY <1>2, <2>7 DEF StreamInv, OpenFollows
    <3>2. /\ Len(Upcoming) = Len(pending) + Len(Rest)
          /\ Len(pending) \in Nat \ {0} /\ Len(Rest) \in Nat
          /\ \A k \in 1 .. Len(pending) : Upcoming[k] = pending[k]
          /\ \A k \in 1 .. Len(Rest) : Upcoming[Len(pending) + k] = Rest[k]
      <4>1. Len(pending) >= 1
        BY <1>4, <1>9, EmptyParts
      <4> QED
        BY <1>4, <4>1, ConcatFacts
    <3>3. Upcoming # <<>>
      BY <1>4, <3>2, EmptySequence
    <3>4. CASE Rest # <<>>
      <4>1. Len(Rest) >= 1
        BY <1>4, <3>4, EmptyParts
      <4>2. Len(Rest) \in 1 .. Len(Rest)
        BY <3>2, <4>1
      <4>3. Upcoming[Len(Upcoming)] = Rest[Len(Rest)]
        BY <3>2, <4>2
      <4> QED
        BY <3>1, <3>3, <3>4, <4>3
    <3>5. CASE Rest = <<>>
      <4>1. Len(Rest) = 0 /\ Len(pending) \in 1 .. Len(pending)
        BY <1>4, <3>2, <3>5, EmptySequence
      <4>2. Upcoming[Len(Upcoming)] = pending[Len(pending)]
        BY <3>2, <4>1
      <4> QED
        BY <3>1, <3>3, <3>5, <4>2
    <3> QED
      BY <3>4, <3>5
  <2>8. ASSUME current # <<>>, Rest = <<>>, NEW k \in 1 .. Len(log'), Latest(log', k)
        PROVE  Leads(log'[k], Head(current).start)
    BY <2>2, <2>7, <2>8
  <2>9. OpenFollows'
    BY <1>1, <1>4, <1>7, <2>7, <2>8
       DEF OpenFollows
  <2> QED
    BY <1>6, <2>2, <2>6, <2>9
<1> QED
  BY <1>8, <1>9

LEMMA EgressStream ==
    ASSUME IInv, StreamInv, Egress \/ BatchTimeout
    PROVE  StreamInv'
<1>1. UNCHANGED <<records, eosRegistered, taken, current, outbox, processor>>
  BY DEF Egress, BatchTimeout, OutputClosed, FlushBatch, FlushFails,
         PublishEndOfInput, ingress, loop
<1>2. Over' = Over
  BY <1>1 DEF Over
<1>3. Legal(log)' /\ Continues' /\ OpenFollows' /\ EndIsLast'
  <2>1. CASE OutputClosed \/ BatchTimeout
    <3>1. /\ egress = "select" /\ egress' \in {"flush", "flushThenReturn"}
          /\ pending' = pending /\ log' = log
      BY <2>1 DEF OutputClosed, BatchTimeout
    <3>2. /\ EndTaken' = EndTaken /\ Rest' = Rest /\ Upcoming' = Upcoming
          /\ Alive' = Alive /\ log' = log
      BY <1>1, <3>1 DEF Upcoming, Rest, EndTaken, Alive
    <3>3. Legal(log)'
      BY <3>2, SameLegal DEF StreamInv
    <3>4. Continues'
      BY <3>2, SameContinues DEF StreamInv, Continues, Alive
    <3>5. OpenFollows'
      BY <1>1, <3>1, <3>2 DEF StreamInv, OpenFollows
    <3>6. EndIsLast'
      BY <1>1, <1>2, <3>1, <3>2 DEF StreamInv, EndIsLast
    <3> QED
      BY <3>3, <3>4, <3>5, <3>6
  <2>2. CASE FlushBatch
    BY <2>2, FlushBatchStream
  <2>3. CASE FlushFails
    <3>1. /\ egress \in {"flush", "flushThenEnd", "flushThenReturn"}
          /\ egress' = "failed" /\ pending # <<>> /\ pending' = pending
          /\ NotAcknowledged(pending)
      BY <2>3 DEF FlushFails
    <3>2. /\ Alive /\ ~Alive' /\ ~EndTaken'
          /\ EndOfInput \notin Range(log) /\ EndOfInput \notin Range(pending)
      BY <3>1 DEF Alive, EndTaken, StreamInv, EndIsLast
    <3>3. /\ pending \in Seq(Output) /\ Rest \in Seq(Output) /\ log \in Seq(Output)
          /\ Upcoming = pending \o Rest
      BY UpcomingFacts DEF Upcoming
    <3>4. Legal(log)'
      BY <3>1, <3>2, <3>3, WriteIsLegal DEF StreamInv
    <3>5. EndOfInput \notin Range(log')
      <4>1. Range(log') \in {Range(log), Range(log) \cup Range(pending)}
        BY <3>1, <3>3, WrittenRange
      <4> QED
        BY <3>2, <4>1
    <3>6. EndIsLast'
      BY <1>1, <1>2, <3>1, <3>2, <3>5 DEF StreamInv, EndIsLast
    <3>7. Continues' /\ OpenFollows'
      BY <1>1, <3>1, <3>2 DEF StreamInv, Continues, OpenFollows
    <3> QED
      BY <3>4, <3>6, <3>7
  <2>4. CASE PublishEndOfInput
    <3>1. /\ egress = "end" /\ egress' \in {"returned", "failed"} /\ pending' = pending
          /\ Written(<<EndOfInput>>) \/ NotAcknowledged(<<EndOfInput>>)
      BY <2>4 DEF PublishEndOfInput
    <3>2. Alive /\ ~Alive' /\ EndTaken /\ ~EndTaken'
      BY <3>1 DEF Alive, EndTaken
    <3>3. Over /\ outbox = <<>> /\ pending = <<>> /\ EndOfInput \notin Range(pending)
      BY <3>1, <3>2 DEF StreamInv, EndIsLast
    <3>4. PICK b \in Seq(Output) : b = <<EndOfInput>> /\ b # <<>> /\ Rest = b
      <4>1. EndOfInput \in Output
        BY DEF Output
      <4> QED
        BY <3>2, <4>1, Singleton DEF Rest
    <3>5. /\ Upcoming = b \o <<>> /\ <<>> \in Seq(Output)
          /\ Written(b) \/ NotAcknowledged(b)
      <4>1. Upcoming = <<>> \o Rest
        BY <3>3 DEF Upcoming
      <4> QED
        BY <3>1, <3>4, <4>1, EmptyParts, EmptySequence
    <3>6. Legal(log)'
      BY <3>2, <3>4, <3>5, WriteIsLegal DEF StreamInv
    <3>7. EndIsLast'
      <4>1. Range(outbox) = {}
        BY <3>3, SmallRanges
      <4> QED
        BY <1>1, <1>2, <3>1, <3>2, <3>3, <4>1 DEF EndIsLast
    <3>8. Continues' /\ OpenFollows'
      BY <1>1, <3>2, <3>3 DEF Over, Continues, OpenFollows
    <3> QED
      BY <3>6, <3>7, <3>8
  <2> QED
    BY <2>1, <2>2, <2>3, <2>4 DEF Egress
<1> QED
  BY <1>3, EgressEvents DEF StreamInv

LEMMA StreamInitially == Init => StreamInv
<1> SUFFICES ASSUME Init PROVE StreamInv
  OBVIOUS
<1>1. /\ accepted = {} /\ discarded = {} /\ records = <<>>
      /\ processor = "next" /\ taken = <<>> /\ current = <<>> /\ outbox = <<>>
      /\ egress = "select" /\ pending = <<>> /\ log = <<>>
  BY DEF Init
<1>2. /\ Range(log) = {} /\ Range(pending) = {} /\ Range(outbox) = {}
      /\ Range(current) = {} /\ Range(taken) = {} /\ Len(log) = 0 /\ Len(records) = 0
  <2>1. Len(<<>>) = 0
    OBVIOUS
  <2> QED
    BY <1>1, <2>1, SmallRanges
<1>3. ~EndTaken /\ Upcoming = <<>> /\ Len(Upcoming) = 0
  <2>1. ~EndTaken /\ Rest = <<>>
    BY <1>1 DEF EndTaken, Rest
  <2>2. Upcoming = <<>> \o <<>>
    BY <1>1, <2>1 DEF Upcoming
  <2>3. <<>> \o <<>> = <<>> /\ Len(<<>>) = 0
    OBVIOUS
  <2> QED
    BY <2>1, <2>2, <2>3
<1>4. Aggregates = {} /\ Open = {} /\ Queued = {}
  BY <1>2 DEF Aggregates, Open, Queued
<1>5. Settled = {}
  BY <1>1, <1>4 DEF Settled
<1>6. Legal(log)
  <2>1. DOMAIN log = {}
    BY <1>1
  <2> QED
    BY <2>1 DEF Legal
<1>7. Continues
  BY <1>2, <1>3 DEF Continues, Chained, Injective
<1>8. OpenFollows /\ EndIsLast
  BY <1>1, <1>2, <1>3 DEF OpenFollows, EndIsLast
<1>9. Apart /\ InOrder /\ AllThere
  BY <1>1, <1>2, <1>4, <1>5 DEF Apart, InOrder, AllThere
<1> QED
  BY <1>6, <1>7, <1>8, <1>9 DEF StreamInv

LEMMA IngressStream ==
    ASSUME IInv, StreamInv,
           \/ RegisterEndOfReplay
           \/ \E s \in 0 .. LastStart : Enqueue(s)
           \/ ReceiveTelemetry
    PROVE  StreamInv'
<1>1. UNCHANGED <<egress, pending, outbox, log, current>>
  BY DEF RegisterEndOfReplay, Enqueue, ReceiveTelemetry, loop, kafka
<1>2. /\ processor' = processor \/ (processor = "next" /\ processor' = "process")
      /\ ~Over
  BY DEF RegisterEndOfReplay, Enqueue, ReceiveTelemetry, loop, kafka, Over
<1>3. Legal(log)' /\ Continues' /\ OpenFollows'
  BY <1>1, <1>2, OrderUnchanged DEF StreamInv
<1>4. EndIsLast'
  <2>1. EndTaken' = EndTaken
    BY <1>1 DEF EndTaken
  <2> QED
    BY <1>1, <1>2, <2>1 DEF StreamInv, EndIsLast
<1>5. Apart' /\ InOrder' /\ AllThere'
  BY RegisterEvents, EnqueueEvents, ReceiveTelemetryEvents DEF StreamInv
<1> QED
  BY <1>3, <1>4, <1>5 DEF StreamInv

LEMMA StreamUntouched ==
    ASSUME IInv, StreamInv,
           UNCHANGED <<accepted, records, eosRegistered, taken, current, outbox,
                       discarded, kafka>>,
           processor' = processor
              \/ (processor \in {"emit", "emitLast"} /\ processor' = "failed")
    PROVE  StreamInv'
<1>1. UNCHANGED <<egress, pending, log>>
  BY DEF kafka
<1>2. Legal(log)' /\ Continues' /\ OpenFollows'
  BY <1>1, OrderUnchanged DEF StreamInv
<1>3. EndIsLast'
  <2>1. EndTaken' = EndTaken /\ (Over => Over') /\ Alive' = Alive
    BY <1>1 DEF EndTaken, Over, Alive
  <2> QED
    BY <1>1, <2>1 DEF StreamInv, EndIsLast
<1>4. Apart' /\ InOrder' /\ AllThere'
  <2>1. Aggregates' = Aggregates
    BY <1>1 DEF Aggregates
  <2> QED
    BY <2>1, EventsUnchanged DEF StreamInv
<1> QED
  BY <1>2, <1>3, <1>4 DEF StreamInv

LEMMA StreamInductive == IInv /\ StreamInv /\ [Next]_vars => StreamInv'
<1> SUFFICES ASSUME IInv, StreamInv, [Next]_vars PROVE StreamInv'
  OBVIOUS
<1>1. CASE Callback
  <2>1. CASE DropTelemetry
    BY <2>1, StreamUntouched DEF DropTelemetry, ingress, loop
  <2> QED
    BY <1>1, <2>1, IngressStream DEF Callback
<1>2. CASE EdgeLoop
  <2>1. CASE ProcessTelemetry
    BY <2>1, ProcessOrder, ProcessEvents DEF StreamInv
  <2>2. CASE EmitFails
    BY <2>2, StreamUntouched DEF EmitFails, ingress
  <2> QED
    BY <1>2, <2>1, <2>2, IngressStream, ReceiveEndOfReplayStream, ReceiveClosedStream,
       EmitStream DEF EdgeLoop
<1>3. CASE Egress \/ BatchTimeout
  BY <1>3, EgressStream
<1>4. CASE Main \/ Signal
  <2>1. UNCHANGED <<accepted, records, eosRegistered, loop, kafka>>
    BY <1>4 DEF Main, Signal, StartupFails, Connected, StageEnded, CloseIngress,
                Drained, ingress
  <2> QED
    BY <2>1, StreamUntouched DEF loop
<1>5. CASE UNCHANGED vars
  BY <1>5, StreamUntouched DEF vars, ingress, loop
<1> QED
  BY <1>1, <1>2, <1>3, <1>4, <1>5 DEF Next, Terminated

LEMMA StreamInvariance == Spec => []StreamInv
BY Invariance, StreamInitially, StreamInductive, PTL DEF Spec

(***************************************************************************)
(* What the next stage reads: repetitions aside, the aggregates in the log *)
(* follow each other without a gap, and the end of input is last.          *)
(***************************************************************************)
THEOREM LegalStream == Spec => []StreamIsLegal
<1>1. StreamInv => StreamIsLegal
  BY DEF StreamInv, Legal, FirstIn, Links, Leads, IsAggregate, StreamIsLegal, First
<1> QED
  BY <1>1, StreamInvariance, PTL

(***************************************************************************)
(* No event counts twice, and with the end of input in the log every event *)
(* the ingress accepted counts, unless it was discarded.                   *)
(***************************************************************************)
THEOREM CompleteStream == Spec => []CompleteAtEnd
<1>1. ASSUME IInv, StreamInv PROVE CompleteAtEnd
  <2>1. log \in Seq(Output)
    BY <1>1, UpcomingFacts
  <2>2. \A k \in DOMAIN log : log[k] # EndOfInput => log[k] \in Aggregates
    BY <2>1 DEF Aggregates, Range, IsAggregate
  <2>3. \A j, k \in DOMAIN log :
           (log[j] # EndOfInput /\ log[k] # EndOfInput /\ log[j] # log[k])
           => log[j].events \cap log[k].events = {}
    BY <1>1, <2>2 DEF StreamInv, Apart
  <2>4. Counted \cap discarded = {}
    BY <1>1, <2>2 DEF StreamInv, Apart, Counted
  <2>5. ASSUME EndOfInput \in Range(log) PROVE accepted = Counted \cup discarded
    <3>1. /\ records = <<>> /\ taken = <<>> /\ current = <<>>
          /\ outbox = <<>> /\ pending = <<>>
      BY <1>1, <2>5 DEF StreamInv, EndIsLast, Over
    <3>2. /\ Range(taken) = {} /\ Open = {} /\ Range(outbox) = {}
          /\ Range(pending) = {} /\ Len(records) = 0
      <4>1. Len(<<>>) = 0
        OBVIOUS
      <4> QED
        BY <3>1, <4>1, SmallRanges, NoOpenWindow
    <3>3. Queued = {}
      BY <3>2 DEF Queued
    <3>4. UNION {r.events : r \in Aggregates} = Counted
      <4>1. Aggregates = {log[k] : k \in {j \in DOMAIN log : log[j] # EndOfInput}}
        BY <3>2 DEF Aggregates, Range, IsAggregate
      <4> QED
        BY <4>1 DEF Counted
    <3> QED
      BY <1>1, <3>2, <3>3, <3>4 DEF StreamInv, AllThere, Settled
  <2> QED
    BY <2>3, <2>4, <2>5 DEF CompleteAtEnd
<1> QED
  BY <1>1, Invariance, StreamInvariance, PTL
==============================================================================
