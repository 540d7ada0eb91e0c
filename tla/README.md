# Continuum: specifications, model checks and proofs

Continuum replays a dataset of environmental sensors through an Edge-Cloud
pipeline.  One simulator per site publishes telemetry over MQTT; one Edge per
site reduces it to tumbling windows and writes `EdgeAggregate` records to the
Kafka topic `edge-aggregates`; Cloud Workers, members of one consumer group,
merge the Edges of each source partition into Cloud windows and write
`CloudPartitionAggregate` records to the single partition of
`cloud-partition-aggregates`; one Global Aggregator merges the partitions and
writes one result per window to a sink (a log line or a row of PostgreSQL).

    simulator --MQTT--> Edge --Kafka--> Cloud Worker --Kafka--> Global --> sink
     (site)            (site)          (partitions)             (one)

Everything is event-time driven and ends: an end-of-replay record follows the
data through every stage, and a stage is over when all its inputs are.  Window
state lives in memory only; nothing restarts by itself within a run.

This directory holds TLA+ specifications of the stages, the TLC
configurations that check them on small instances, and proofs, checked by
TLAPS, for every value of the constants.

    tlc -workers 2 -config MCPartitionAggregator.cfg MCPartitionAggregator
    tlapm PartitionProofs.tla


## 1. The system

### 1.1 Parts, their state and their operations

| part | state | operations |
| --- | --- | --- |
| Simulator (`cmd/simulator`) | rows offered, bounded FIFO `queue`, `closed`, the egress goroutine's counters | offer a row (dropped when the queue is full), enqueue the end of replay (blocks), close and wait; publish telemetry at QoS 0, the end at QoS 1 with a 5 s wait for the acknowledgement |
| Edge ingress (`cmd/edge/ingress.go`) | `records` (a channel of capacity + 1), `telemetryQueued`, `eosRegistered`, `closed`, one mutex | `TryEnqueueTelemetry`, `RegisterEndOfReplay`, `Next`, `Close` |
| Edge loop (`cmd/edge/processor.go`, `aggregation.go`) | the open window, or none | add an event (same window, later window, already closed window, invalid), flush at the end of replay or when the ingress closes |
| Edge egress (`cmd/edge/egress.go`) | the batch | take an output, flush on size, time-out, end of input or closed channel; publish the end of input |
| Edge main (`cmd/edge/main.go`, `pipeline.go`) | which stage stopped first | wait for a signal or a stage, close the ingress, drain, decide the exit status |
| Edge subscription (`cmd/edge/mqtt.go`, `readiness.go`) | subscription generation, readiness flag | connect handler, connection-lost handler, three attempts to subscribe |
| Cloud Worker consumer (`cmd/cloud-worker`) | group generation, aggregators of the assigned partitions, commit batch, `failures`, `processed` | join, start or refuse a generation, process a record and publish its outputs, register and commit offsets, end a generation, stop |
| Partition reduction (`internal/cloudworker`) | per Edge progress, last aggregate and end; open windows; watermark; end of the partition | `Initialize`, `Add`, `EndEdge`; each ends in `advance` and `flush` |
| Global reduction (`internal/globalaggregator`) | per partition progress and end; open windows; watermark; completion | `AddWithResult`, `EndPartition`; each path ends in `emitReady`, which writes to the sink |
| Global consumer and sinks (`cmd/global-aggregator`) | committed offset, rows of the table | fetch, process, commit; insert unless the id exists |
| Deployment planner (`cmd/deploygen/partition_plan.go`) | loads of the partitions | place the Edges, largest first |
| Configuration, codecs, statistics, lag collector, scripts | - | parsing, encoding, measuring |

### 1.2 How they interact

* Simulator to Edge: MQTT publish; QoS 0 telemetry may be lost, the QoS 1 end of
  replay may come twice.  The Edge's callback runs on the MQTT client's
  goroutine and shares the ingress, under a mutex, with the Edge loop.
* Edge loop to Edge egress: an unbuffered channel and a channel that is closed
  when the egress stops.  Edge to Cloud: a Kafka log per source partition, in
  which a retried batch may appear twice and a failed one may or may not
  appear.
* Cloud Worker to the group coordinator: generations, heartbeats, commits.
  Worker to Global: one Kafka message at a time, written by every worker to the
  same partition, each retried by the writer.
* Global to sink: a synchronous call in the middle of an emission.

### 1.3 What is hard, and what must hold

* **Watermarks** (partition and global reduction).  Progress is reported per
  Edge and per partition, bounded by a skew: whoever lags the fastest by more
  than the skew is no longer waited for.  Correct means: certified progress is
  final; no window leaves twice or out of order; every input is counted exactly
  once or reported late; a loss needs a skew; nothing waits for a record that
  need not come; the end comes exactly when all members ended.
* **Redelivery.**  Kafka writers retry; a record may come again after its
  window closed and after the aggregator forgot it.
* **Bounded queues and blocking.**  The ingress callback sends while it holds
  the mutex the loop needs after a receive; a send that could block would be a
  deadlock.  The end of replay must never be dropped.
* **Shutdown.**  Signals, failing stages and closing channels interleave; the
  process must exit, and exit with success only if all it accepted is in the log.
* **Group rebalances and crashes.**  Aggregator state is volatile, so a
  generation that continues another one must be refused, and a commit must
  follow the publication of what it covers.  The Global Aggregator commits every
  record but keeps its windows in memory: what a restart costs must be known, and
  nothing may disappear besides.
* **Partial publication.**  A record may give rise to several messages, written
  one at a time; a stream must not go on after a gap.
* **Readiness.**  The replay starts on one answer of `/readyz`, which a late
  callback of an earlier connection may change afterwards.

`PROJECT.json` lists these hazards one by one, at the line where each bites,
with the properties that cover it.


## 2. The modules

| module | models | built on |
| --- | --- | --- |
| `WindowedReduction` | what both reductions promise: every input taken at most once, every window given out whole, once and in order | |
| `PartitionAggregator` | the reduction of one source partition, on an arbitrary log | `WindowedReduction` (implements) |
| `PartitionIngest` | the same, fed with what Edges write | `PartitionAggregator` |
| `PartitionProofs` | the theorems of both, that the reduction implements `WindowedReduction` among them | `PartitionIngest`, TLAPS |
| `GlobalAggregator` | the reduction of all partitions, on an arbitrary log, with a sink that may fail | `WindowedReduction` (implements) |
| `GlobalAggregatorProofs` | its theorems, that it implements `WindowedReduction` among them | `GlobalAggregator`, TLAPS |
| `GlobalIngest` | the same, fed with what Cloud Workers write, a partition with two owners included | `GlobalAggregator` |
| `GlobalConsumer` | the Global Aggregator as a process: fetch, process, commit, the table, crashes and restarts | `GlobalIngest` |
| `GlobalConsumerProofs` | its theorems | `GlobalConsumer`, `GlobalAggregatorProofs` |
| `EdgePipeline` | one Edge process, from the MQTT callback to the log | |
| `EdgePipelineProofs` | its theorems | `EdgePipeline`, TLAPS |
| `CloudConsumer` | the workers of one consumer group and its coordinator | |
| `CloudConsumerProofs` | its theorems | `CloudConsumer`, TLAPS |
| `SimulatorReplay` | one simulator, from the shard to the broker | |
| `SimulatorReplayProofs` | its theorems | `SimulatorReplay`, TLAPS |
| `EdgeSubscription` | the connection of one Edge to its broker, and its readiness | |
| `SiteReplay` | the end of a simulator's replay on its way to that Edge | `EdgeSubscription` |
| `SiteReplayProofs` | theorems about both | `SiteReplay`, TLAPS |
| `PartitionPlan` | the placement of Edges on partitions | |
| `PartitionPlanProofs` | its theorems | `PartitionPlan`, TLAPS |
| `MC*` | values of the constants for TLC | |

The order of `Next` is the order of the code, and a definition has the name of
the function or field it models where TLA+ allows it.  A name that begins with
another definition's name and describes a defect (`AdvanceToKeep`, `HasRoomNoReserve`)
is a *mutant* of that definition: the defect a property is meant to catch.
`PROJECT.json` pairs each property with one; no specification uses them.

### 2.1 PartitionAggregator

State and code: `edgeThrough`, `edgeEnded` and `last` are the three fields of
`edgeState`; `completeThrough`, `ended` and `initialized` are the fields of
`PartitionAggregator`; the map of open windows is the set `windows` of the
inputs the windows hold, since a window exists in the map exactly while it
holds an input.  `failed` records that a call returned an error, after which
the worker makes no other.  `partials`, `accepted` and `late` are history: what
the calls returned and what they added to a window.

An input is the triple of times the code decides by (start, end,
completeThrough) and its Edge.  Sums, counts, minima and maxima are represented
by the set of inputs of a window, which determines them; two aggregates of one
window with equal times are the same record.  `SameID` is the id of an
aggregate as `buildAggregateID` builds it, with times in whole seconds.

The actions are `Initialize`, `Add` and `EndEdge`, and each includes the
`advance` and `flush` it ends with.  `Add` is the disjunction of its four
outcomes, in the order of the code's checks: rejected, exact duplicate, late,
on time.  The log is any sequence of records of `Input`, from members and
strangers, well formed or not.

### 2.2 PartitionIngest

Adds `written`, what each Edge has put in the log, and lets an Edge write what
`cmd/edge/aggregation.go` can produce: consecutive windows whose start is the
previous record's `CompleteThrough`, the last one certified up to its own end,
then the end of input.  A record already written may come again at any time
until the Edge's end of input.  Here, and only here, `NeverRejects` can hold.

`EveryRecordAccounted` also says what a late report means to
`summarize-run.py`, which counts reports as losses: a record that was counted is
reported late only as a repeat of one that is no longer its Edge's last.

### 2.3 GlobalAggregator, GlobalIngest and GlobalConsumer

`through` and `ended` are the fields of `partitionState`, `windows` the
partials held, `watermark` and `complete` the fields of `Aggregator`; `sunk` is
what the sink took.  `AddWithResult` has the same four outcomes;
`advanceWatermark` and `emitReady` are part of each.  The sink may fail at
any write: the contribution is then recorded, the windows before the failing
one are written, the failing one stays open, and the process stops.
`GlobalIngest` restricts the log to what one worker per partition writes: at
each flush consecutive or later windows, each certified at least to its end and
at most to where its successor ends (that is `CertifiedIsFinal` of
`PartitionAggregator`), the last message repeated by a retry, then the EOS.  A
partition of `Unstable` may get a second owner before an offset of it was
committed (the finding `cloud_takeover`): the two write the same stream from its
beginning, and `Copy` is the slower one, whose records interleave with those of
the faster one and of everybody else.

`GlobalConsumer` puts this reduction in its process.  `uncommitted` is the record
fetched last, from `FetchMessage` to `CommitMessages`; `rows` is the table of
PostgreSQL, to which a result is added unless it has a row of the same window
(`ON CONFLICT (aggregate_id) DO NOTHING`).  A crash, an error of the sink or of
the commit takes the process down, between any two of these steps; a `Restart`
keeps the offset and the table and loses everything else.  `forgotten` and
`uncounted` are history, and say what a restart may cost: the ends of replay
and the open windows that were committed, and results that meet an older row of
their window.

### 2.4 WindowedReduction

The state is the inputs held, the results, each a set of inputs, and whether the
reduction is over.  A step, `Reduce`, takes at most one new input, never one that
was held or given out nor one of a window as early as any given out, and
gives out the earliest windows it then holds.  It does not say *when* a window
is given out: that is what the watermark properties of the two modules are
about.  `Reduction`, at the end of each of the two, is the refinement mapping:

| | partition | global |
| --- | --- | --- |
| `held` | `windows` | `windows` without what the sink has: the window at which the sink failed stays in the map |
| `results` | the inputs of each partial | the contributors of each result the sink took |
| `over` | `ended` | `complete` |

### 2.5 EdgePipeline

Four processes: `Callback` (one action per call: the mutex makes it atomic),
`EdgeLoop`, `Egress` and `Main`.  `Next` of the ingress is two actions, the
receive and the slot given back, because the code takes the mutex only for the
second.  Handing a record to the egress is one action (`Emit`), as on an
unbuffered channel.  A write may be acknowledged, with its batch in the log once
or twice, or fail, with its batch in the log or not.  Time is in Edge windows.

### 2.6 CloudConsumer

A record is its offset and the number of messages it makes a worker publish:
none for one that only moves progress, one per window it flushes, and one for the
end of the partition (`Outputs`).  They are published one at a time, and the
rebalance, a crash or an error may come between any two; a generation first
publishes the end of each assigned partition without Edges.  `gen` is what one
generation keeps; `first` is the offset its aggregators were created at, so that
an output whose `first` is not 0 was computed from half the data.  The coordinator is `member`, `rejoined`,
`rebalancing` and `committed`: a rebalance ends when all members wait for it
and assigns each partition to some member.  A worker may crash, its session may
expire while it runs, a commit may be refused or stored with its answer lost, a
publication may fail with its output written or not.

### 2.7 SimulatorReplay

Two goroutines: the replay loop, which offers a row or drops it, waits for room
for the end of replay, closes the queue and waits; and the egress, which
publishes rows without an acknowledgement and the end with one.  The broker is
the sequence of what reached it.  The MQTT client may deliver the end more than
once, and after the simulator gave up waiting.

### 2.8 EdgeSubscription and SiteReplay

A connection is its number; each has a connect handler and a connection-lost
handler, and these run at their own pace.  `onConnect` and `onLost` say where,
one step per read or write of the shared generation and flag, because the code
shares them as atomics without a lock.  A request to subscribe goes out on the
connection of the moment, and a broker forgets subscriptions with the connection.
`IsConnected` may answer either way while the client restores a connection, as
the client counts one it is restoring as connected.  `overtaken` and `orderly`
are history, and name the two races the code does not exclude:

* a handler passes its last check, the connection is lost and noticed, and the
  handler marks the Edge ready: nothing takes the flag down again;
* a callback of an earlier connection runs after the next one subscribed, and
  takes the flag down, or outdates the handler that would raise it: nothing
  raises it again.

`SiteReplay` adds what the flag is for.  `Probe` is the health check that lets the
replay start, and is never repeated after it succeeded; `PublishEndOfReplay` is
the broker's part of the QoS 1 publication, which reaches the Edge only over a
subscription of the connection it has at that moment; `Hear` is the Edge's
message handler.  `EndIsHeard`: one probe is enough as long as the connection it
vouched for stays, even if a late callback took the flag down afterwards.

`ReadyIsSubscribed` says the first is the only way to be ready without a
subscription, `BecomesReady` that the second is, besides three failed attempts,
the only way to stay unready with a connection.  Both exceptions are needed: TLC
finds a counterexample without either.

### 2.9 PartitionPlan

One action per turn of the placement loop, for every assignment of weights.
`Heavier` is the order of the sort, `LeastLoaded` the scan for the first minimum,
`Fits` the test before the addition; loads wrap around at `MaxLoad`.  A weight is
the number of events of an Edge's shard (`replay_event_count`), so the total of some
Edges is the number of their events, the cardinality of a set: sums can be compared
by comparing sets, which is what the proofs do.


## 3. The runs

| run | question | bounds |
| --- | --- | --- |
| `partition_aggregator` | type invariant; `CertifiedIsFinal`, `CountedOnce`, `WatermarkKeepsUp`, `WatermarkJustified`, `EndIsFinal`, `ImplementsReduction` on an arbitrary log | two Edges and a stranger, Cloud windows of two units, Edge windows of one unit and of two, times to 6, skew 1 |
| `partition_ingest` | on what Edges write: `NeverRejects`, `BoundedLoss`, `EveryRecordAccounted`, `PartitionEnds` | two Edges, three Cloud windows of two Edge windows each, skew 1 |
| `aggregate_ids` | finding: two windows, one id | Edge windows of a quarter of a second |
| `global_aggregator` | type invariant; `EmittedIsFinal`, `CountedOnce`, `OpenWindowsAwaited`, `EmissionJustified`, `CompletionDecided`, `ImplementsReduction` on an arbitrary log | two partitions and one out of range, four windows, an overlapping and a malformed partial, skew 1 |
| `global_ingest` | the process on what workers write: `NeverRejects`, `BoundedLoss`, `EveryPartialAccounted`, `ReplayCompletes` | two partitions, one of which may have two owners, three windows, skew 1, one restart |
| `certified_contributions` | finding: a result without a partition that certified nothing | two partitions, one owner each, five windows, skew 1 |
| `edge_pipeline` | deadlock; type invariant; `SendNeverBlocks`, `StreamIsLegal`, `CompleteAtEnd`, `ExitIsHonest`, `Terminates` | queue of two and its reserved slot, batches of two, five events in three windows, a late or an invalid one among them |
| `cloud_consumer` | deadlock; `WholeState`, `CommittedWasPublished`, `NoContinuation`, `RebalanceStops` | two workers; a partition of two records, of one and of two messages, one of a silent record, and one without Edges; batches of two |
| `cloud_takeover` | finding: a partition handled by two workers | as above |
| `simulator_replay` | deadlock; `EndComesLast`, `ReportIsHonest`, `Terminates` | five rows, queue of two, the end delivered up to twice |
| `edge_subscription` | deadlock; `ReadyIsSubscribed`, `BecomesReady`, `EndIsHeard` | two connections, three attempts each |
| `partition_plan` | deadlock; type invariant; `NearOptimal` | all weights 1 to 3 of five Edges on two partitions, loads to 7, the best plan by enumeration |

Why the bounds are enough.  A skew of one unit is passed by the second window,
so late drops, the blocked watermark and the skew-bounded one all occur with
two members; a third member adds no case, because `advance` reads only the
minimum and the maximum.  Two Edge windows per Cloud window are needed for a
Cloud window to hold several inputs of one Edge, and three Cloud windows for a
flush that closes several, of which only the last certifies the frontier.  The
Edge's queue of two with five events fills, drops, drains and fills again.
In the consumer group a partition of two records makes a batch full, half full and
cut short, and two messages are the fewest of which the first can be written
alone.  In the process two partitions and three windows are enough for a restart
to find rows of windows its predecessor wrote, windows it lost and a partition
that had ended; a second restart repeats the first from one more state.  Two connections suffice for callbacks of one to overtake those of the
other; a third only repeats the pair.  Five Edges on two partitions include the
weights 3, 3, 2, 2, 2, where largest-first is not optimal, and weights
whose sum does not fit.  The safety properties are in addition proved for all
values (section 5).

Deadlock is not checked for the runs of the aggregators: their logs are finite and
the aggregator stops on an error or when everything was read.

### Fairness

* `PartitionIngest`: each Edge goes on to write or end, and the consumer reads
  what is in the log.  That is the replay the simulators drive; no order between
  Edges is assumed.
* `GlobalConsumer`: a process that is up goes on reading and committing.  A
  partition's own stream (`Advance`) is strongly fair, as reading it is enabled
  only between two commits: the log is read in order, and holds finitely many
  repeats and copies before the next record of the partition.  Nothing is
  assumed of crashes, and nothing makes a restart happen, since the containers
  have `restart: "no"`.
* `EdgePipeline`: the Edge loop, the egress and main are goroutines that run
  when they can.  Nothing is assumed of the callback, of the batch timer or of
  signals, so `Terminates` speaks only of processes whose replay ended, that got
  a signal or in which a stage failed.
* `CloudConsumer`: workers' goroutines run, a consuming worker's heartbeat
  learns of a rebalance, and the coordinator drops a dead member and ends a
  rebalance once all members wait for it.
* `SimulatorReplay`: both goroutines run; the wait for the acknowledgement is
  bounded by a time-out, so it ends whatever the broker does.
* `EdgeSubscription`: callbacks run and wait a bounded time for the broker.
  Nothing is assumed of connections: `BecomesReady` speaks of those that stay.
* `SiteReplay`: the health check is repeated until it succeeds, the replay is
  finite, and a message in flight is handled unless its connection goes first.


## 4. Disagreements between the code and what is said of it

* `ContributionsCertified` (`certified_contributions`).  A result counts every
  partition as contributing, null contributions being "certified"; a partition
  the skew has overtaken certified nothing, and its partial is dropped later.
* `IDsAreUnique` (`aggregate_ids`).  Ids have whole seconds, windows need only be
  positive: windows shorter than half a second share ids, and the worker stops
  with "conflicting Edge duplicate".
* `NoTakeover` (`cloud_takeover`).  A partition some worker has published
  outputs for can be taken over by a worker that has handled nothing, as long as
  no offset of it was committed.  `WholeState` still holds: the second worker
  starts from the first record.  The Global Aggregator then receives the partition
  twice, and may stop with a protocol error of that partition; `NeverRejects` and
  `EveryPartialAccounted` of `GlobalConsumer` show that it is the worst that
  happens: nothing is counted twice.


## 5. The proofs

    tlapm PartitionProofs.tla      (and the seven other modules)

Every safety property of the runs is proved, except those that state a finding,
which do not hold.  The theorems hold for every membership, log, window size, skew,
queue, batch size, number of connections, number of restarts, number of Edges to
place and assignment of weights the named assumptions (`ConstantsAssumption`: sizes are positive,
times are naturals, members are senders) allow, so the bounds of section 3 do not
matter to them.  One theorem group has a hypothesis of its own, `IDsResolve`, below.
No property is inductive by itself; each module states the invariant that is, as a
conjunction of named parts, and TLC checked each of these invariants on the
instance of the module's run before it was proved.

| module | theorems | property of a run |
| --- | --- | --- |
| `PartitionProofs` | `TypeCorrect`, `CertifiedFinality`, `Conservation`, `WatermarkProgress`, `WatermarkJustification`, `EndFinality`, `ReductionImplemented` | `TypeOK`, `CertifiedIsFinal`, `CountedOnce`, `WatermarkKeepsUp`, `WatermarkJustified`, `EndIsFinal`, `ImplementsReduction` |
| | `NoRejection`, `LossIsBounded`, `Accounting` | `NeverRejects`, `BoundedLoss`, `EveryRecordAccounted` |
| | `PartialsFollowInOrder`, `IngestIsALog` | |
| `GlobalAggregatorProofs` | `TypeCorrect`, `EmissionFinality`, `Conservation`, `NoLostWakeup`, `EmissionJustification`, `CompletionDecision`, `ReductionImplemented` | `TypeOK`, `EmittedIsFinal`, `CountedOnce`, `OpenWindowsAwaited`, `EmissionJustified`, `CompletionDecided`, `ImplementsReduction` |
| `GlobalConsumerProofs` | `NoRejection`, `LossIsBounded`, `Accounting` | `NeverRejects`, `BoundedLoss`, `EveryPartialAccounted` |
| `EdgePipelineProofs` | `TypeCorrect`, `NoBlockedSend`, `HonestExit`, `LegalStream`, `CompleteStream` | `TypeOK`, `SendNeverBlocks`, `ExitIsHonest`, `StreamIsLegal`, `CompleteAtEnd` |
| `CloudConsumerProofs` | `StateIsWhole`, `PublishedBeforeCommitted`, `GenerationsAreSeparate` | `WholeState`, `CommittedWasPublished`, `NoContinuation` |
| `SimulatorReplayProofs` | `NothingOvertakes`, `HonestReport` | `EndComesLast`, `ReportIsHonest` |
| `SiteReplayProofs` | `ReadinessIsTrue`, `SiteReadinessIsTrue`, `ProbeVouches` | `ReadyIsSubscribed` (of both specifications) |
| `PartitionPlanProofs` | `TypeCorrect`, `NearOptimality` | `TypeOK`, `NearOptimal` |

**Partition reduction.**  The inductive invariant `IInv` adds to the properties

* `EndExact`: `ended` holds exactly when the aggregator is initialized and every
  member ended, and then nothing is open;
* `OpenPastWatermark`: every open window ends after the watermark;
* `PartialsCoherent`: a partial's inputs are those of its window, it certifies
  at least its own end, and a partition that runs certified no more than the watermark.

The heart is one lemma on `advance`: for any progress, any set of ended Edges
and any inputs held past the old watermark, the step it makes keeps the windows
past the new watermark, makes the new partials final, and justifies the new
watermark.  `Initialize`, `AddLate`, `AddOnTime` and `EndEdgeFirst` are four uses
of it; the remaining actions change nothing the invariant reads.

**On what Edges write.**  `IngestIInv` adds to `IInv`: what an Edge wrote is well
formed and each record starts where the ones before it certify (`Stream`); the
aggregator's view of an Edge is exactly the Edge's last record (`Tracked`); a
record it no longer holds lies behind the watermark (`Remembered`), so that a
repeated one is either recognised or late and never counted again.  The three
theorems assume `IDsResolve`: a window of an Edge is at least half as long as what an
id resolves, half a second.  With shorter windows `NeverRejects` is false, as the
finding `aggregate_ids` shows; `IDsDistinguish` proves that with it no two windows of an
Edge share an id, and that is the only use of the hypothesis.

**Global reduction.**  `IInv` adds: held partials are legitimate and, per window,
disjoint; the watermark is sound (below the progress of all active partitions, or
a skew below the fastest); no open window is ready between calls unless the sink
failed; and the watermark, or every active partition, is past whatever was sunk.  The lemma on
`emitReady` says that an emission, complete or cut short by the sink, takes an
initial segment of the ready windows and nothing an open window precedes.

**Global process.**  `ConsumerIInv` adds to `IInv` what a process knows of the log.
After a restart that is less than everything: the process goes on from the committed
offset with an empty state, and may see an old copy by a second owner before the
owner's own records.  `Tracked` therefore only says that the state of a partition is
that of *some* record of its stream, or of none.  It is still enough: all that
the owner writes next lies past every record of its stream, so it is never
rejected, while a copy that lies behind may be.  `Uncommitted` says that one record
at most is not committed, that a process finds it only in its initial state, and that
before the commit its partial is in a window, in a row, dropped or uncounted;
`FirstProcess` that without a restart the table is what the sink took, so nothing
is uncounted.

**Refinement.**  `ReductionImplemented` of the two reductions is
`Spec => ImplementsReduction`, from the two inductive invariants.  For a partition
every call that advances is a `Reduce`: the lemma on `advance` gives the windows
closed and the frontier, `FlushGroups` says that the partials of a flush are those
windows, and `PartialsCoherent` that whatever was given out before is at or below
the old watermark, past which the new input lies.  Globally the step is an
emission: the lemma on `emitReady` gives the initial segment the sink took, and
`EmittedIsFinal` that the windows left come after it.  A rejected, repeated or
ignored record stutters.

**Edge: slots and exit.**  `IInv` adds

* `Balance`: the counter is what the channel holds plus the event the loop has in
  hand, the EOS aside, and an EOS in the channel is last and registered.  So a
  counter below the capacity, or an EOS not yet registered, leaves a free slot;
* `EndWritten`: once the loop handed over the end of input, the egress has still
  to write it, has failed, or has returned with it in the log.  So an exit that
  found both stages returned and `eosProcessed` set is honest.

**Edge: the stream.**  `StreamInv` is a second invariant, over the first.  What the
egress has still to write, its batch and what the loop hands over next, is one
sequence, `Upcoming`, which `Emit` does not change: it only moves the boundary.
`Continues` says that this sequence is a chain of new records whose first follows the
latest record of the log, that is, the last one that is not a repetition;
`OpenFollows` that the open window starts where the chain leads.  `LegalExtension`
is the lemma on logs: a chain of new records that follows a legal log extends it to a
legal log, written once or twice.  After a failed write the batch may be in the
log and in `pending`, and nothing follows it; both parts are therefore stated of an
egress that is alive.  For the events `Apart`, `InOrder` and `AllThere` say that every
accepted event is in one place: in an aggregate, in the open window, discarded, in
hand or in the channel, and those that wait come after all that are settled, so the
event in hand is new.  `EndIsLast` says that with the end of input on its way nothing
else is left.

**Cloud Workers.**  `IInv` of `CloudConsumerProofs` adds what a generation in progress
is built on: it started each partition at its first record, has published every
message of the records before its position, and the first messages of the record it
is handling; only the records counted since the last commit are uncommitted; a
worker that is not consuming has no generation; and a published message marks its
worker as one that processed a record (`Traced`), which is what the guard against a
second generation reads.

**Simulator.**  What the broker has, then what the queue holds, then the rows not
yet offered are in order (`BrokerIsBehind`), and `WhereTheEndIs` says that the end is
in exactly one place: not enqueued, last in the queue, or taken by the egress with an
answer or without.  `Accounted` counts the attempts as the cardinality of what left
the queue.

**Readiness.**  `Handler` is the invariant of one connect handler, step by step: as long
as its generation is the current one, the connection it subscribed on is up or
its loss is not yet noticed (`Unrefuted`).  A handler that is about to raise the flag
with an outdated generation is one that was overtaken, the race `ReadyIsSubscribed`
excepts.  `ProbeVouches` is the safety half of `EndIsHeard`: while the connection the
probe vouched for stays, a published end of replay was heard or is in flight on it.

**Interfaces.**  What one stage may write to a log is proved where it is written and
assumed where it is read.  `LegalStream` of the Edge states, repetitions aside, the
chain that `PartitionIngest!Follows` and `MayEnd` assume.  `PartialsFollowInOrder`
states the guard of `GlobalIngest!Follows`: the partials a call returns are aligned,
start after all that were returned before, and each ends past what those before it
certify.  (That no window starts at Go's zero time, the year 1, is all it leaves out.)
It is an action property of the aggregator on an arbitrary log; `IngestIsALog` says that what
Edges write is one, so it holds without the hypothesis on ids.

**Partition plan.**  `NearOptimal` is the bound of Graham for placing the heaviest
first.  The inductive invariant states it of every prefix of the placement: `Balanced`
compares the load of each partition with the heaviest partition of *any* plan of *all*
Edges, and `HeaviestFirst` says that what is left weighs no more than what was placed.
A step can only disturb the partition it places on, and there are two cases, for an
Edge of weight w and another plan whose heaviest partition weighs o:

* 3w <= o.  The partition chosen was the least loaded, so PartitionCount times its
  load is at most what is placed so far, and with the new Edge that is at most
  PartitionCount times o (`TogetherAtMost`).
* 3w > o.  Every Edge placed so far weighs at least w, so the other plan has at most
  two of them on a partition, and only one if that one is big, that is, cannot share a
  partition with the new Edge.  Were the least load more than o - w, every partition
  here would hold two Edges or a big one: the Edges placed would take both halves of
  every partition, a big one two and another one half, and in the other plan
  the new Edge would find no half left (`CrowdedPartitions`).

All of it is counting: a comparison of sums is an injection from one set of events, or
of halves of partitions, into another, and `FS_Injection` of the library compares their
cardinalities.  That the greatest of a set of totals exists (`Greatest`), which
`Heaviest` chooses, is a minimum under a well-founded relation, the one form of
induction that needs no operator parameter.

**Model-checked only.**

* Liveness: `PartitionEnds`, `ReplayCompletes`, `Terminates`, `BecomesReady`,
  `EndIsHeard`, `RebalanceStops`.  TLAPS has no support for ENABLED, so fairness and
  what follows from it stay with TLC; so does the absence of deadlock.
* What a recursive definition computes: none of the installed provers can instantiate
  an induction theorem.  No property needs it: a sum is a number of events, a
  window is the set of its inputs, and what holds of a log is said of all its positions.
* The three findings, which are violations.

No module with a theorem reaches a RECURSIVE operator.


## 6. Plan

Done, in this order, the most important behaviour first:

1. `PartitionAggregator`, its proofs, `PartitionIngest`;
2. `GlobalAggregator`, its proofs, `GlobalIngest`;
3. `EdgePipeline`;
4. `CloudConsumer`;
5. `SimulatorReplay` and `EdgeSubscription`;
6. `PartitionPlan`;
7. `WindowedReduction`, and the proofs that both reductions implement it;
8. `GlobalConsumer`, with two owners of one partition;
9. several messages per record, partial publication and partitions without Edges
   in `CloudConsumer`;
10. `SiteReplay`, and the first proofs about the Edge;
11. proofs of the ingest modules, the Global Aggregator's process, the consumer group,
    the simulator, the subscription, and the Edge's stream;
12. the proof of the plan's balance, and of the interface between a partition and the
    Global Aggregator.

To do:

13. The stop of a running Edge in `EdgeSubscription`: `stopEdgeIngress` takes the
    flag down before it outdates the handlers, so one of them may raise it again
    until the process is gone.

The whole pipeline in one module was considered and left: the interface between
two stages is a log, what one stage may write there is what the ingest module of
the next one reads (`PartialsFollow` of a partition is the guard of
`GlobalIngest.Follows`, `StreamIsLegal` of an Edge that of
`PartitionIngest.Follows`), and the composition would only multiply the states.

## 7. What is not modelled

* Metric values, sums and floating point: represented by sets of inputs.
* Avro, headers, topic names, YAML, environment variables, templates: conversions
  and validation without behaviour over time.
* Statistics and logs, except the counter main decides the exit status by.
* The lag collector: it samples committed and end offsets, reading the commits
  first so that a lag is never negative, and changes nothing of the system.
* The JSON log sink, which keeps all it is given; the startup and the HTTP server
  of the readiness probe; a first MQTT connection that fails, beyond the exit it
  leads to (`EdgePipeline`).
* The encodings of the plan as Compose files and environment variables.
* The Kafka and MQTT brokers, PostgreSQL, Docker and the scripts, beyond what the
  code relies on.
