---------------------------- MODULE CloudConsumer ----------------------------
(***************************************************************************)
(* The Cloud Workers as a Kafka consumer group (cmd/cloud-worker).  A      *)
(* worker handles one record at a time: it reduces it, publishes the       *)
(* partials that come out one message at a time, and only then registers   *)
(* the offset in a batch, committed when it is full, when the record is an *)
(* Edge's end of input, and when the generation ends.  Its state is        *)
(* volatile: a worker that has handled a record stops at the next          *)
(* rebalance, and one that is assigned a partition with a committed offset *)
(* refuses it.  A partition without Edges has no records: its end is       *)
(* published at the start of every generation that assigns it.             *)
(*                                                                         *)
(* The broker is external: it keeps the committed offsets, waits for every *)
(* member to rejoin before it hands out partitions, drops a member whose   *)
(* session expires, and takes commits from members only.  Containers are   *)
(* not restarted, so a worker joins once.  The log of a partition is given *)
(* by the number of messages each of its records makes a worker publish;   *)
(* which ones is PartitionAggregator's business.                           *)
(***************************************************************************)
EXTENDS Integers, FiniteSets, Sequences

CONSTANTS
    Worker,
    Partition,
    Outputs,      \* the messages each record of a partition gives rise to
    EndOffsets,   \* the offsets that hold an Edge's end of input
    BatchSize     \* ConsumerCommitBatchSize

ASSUME ConstantsAssumption ==
    /\ IsFiniteSet(Worker) /\ IsFiniteSet(Partition)
    /\ Outputs \in [Partition -> Seq(Nat)] /\ EndOffsets \subseteq Nat
    /\ BatchSize \in Nat \ {0}

VARIABLES
    status,       \* where a worker's consume loop is
    failure,      \* the failures channel holds an error
    processed,    \* the worker has received a record
    assigned,     \* gen.Assignments of the current or next generation
    gen,          \* the state of the current generation
    member,       \* broker: the members of the group
    rejoined,     \* broker: the members waiting for the next generation
    rebalancing,  \* broker: a rebalance is under way
    committed,    \* broker: the committed offset of each partition
    published     \* history: the messages published

vars == <<status, failure, processed, assigned, gen, member, rejoined,
          rebalancing, committed, published>>

group == <<assigned, member, rejoined, rebalancing>>

None == [p \in Partition |-> 0]

LogLength(p) == Len(Outputs[p])
Empty == {p \in Partition : LogLength(p) = 0}

(***************************************************************************)
(* What a generation keeps: the assigned partitions whose end is still to  *)
(* be published, the offset its aggregators started from, the next one,    *)
(* the commit batch, the partition of the record being handled, and how    *)
(* many of its messages were published.                                    *)
(***************************************************************************)
Generation(offsets, ends) ==
    [ends |-> ends, first |-> offsets, next |-> offsets, pending |-> None,
     count |-> 0, handling |-> {}, sent |-> 0]

NoGeneration == Generation(None, {})

Message(w, p, offset, part) ==
    [worker |-> w, partition |-> p, first |-> gen[w].first[p],
     offset |-> offset, part |-> part]

\* The messages w still has to publish before it takes the next record.
Unsent(w) ==
    {Message(w, p, 0, 1) : p \in gen[w].ends}
      \cup UNION {{Message(w, p, gen[w].next[p], part) :
                    part \in gen[w].sent + 1 .. Outputs[p][gen[w].next[p] + 1]} :
                  p \in gen[w].handling}

\* publishOutput goes through a record's messages in order.
NextMessages(w) ==
    {m \in Unsent(w) : m.partition \in gen[w].handling => m.part = gen[w].sent + 1}

-----------------------------------------------------------------------------
\* The generation of w is over, and kafka-go joins the group again.
Rejoin(w) ==
    /\ gen' = [gen EXCEPT ![w] = NoGeneration]
    /\ \/ /\ w \in member
          /\ status' = [status EXCEPT ![w] = "joining"]
          /\ rejoined' = rejoined \cup {w}
          /\ rebalancing' = TRUE
          /\ assigned' = [assigned EXCEPT ![w] = {}]
       \/ /\ w \in member /\ ~rebalancing
          /\ status' = [status EXCEPT ![w] = "assigned"]
          /\ UNCHANGED <<rejoined, rebalancing, assigned>>
       \/ /\ w \notin member
          /\ status' = [status EXCEPT ![w] = "joining"]
          /\ assigned' = [assigned EXCEPT ![w] = {}]
          /\ UNCHANGED <<rejoined, rebalancing>>
    /\ UNCHANGED member

\* consume returns, and group.Close leaves the group.
Exit(w) ==
    /\ status' = [status EXCEPT ![w] = "exited"]
    /\ gen' = [gen EXCEPT ![w] = NoGeneration]
    /\ member' = member \ {w}
    /\ rejoined' = rejoined \ {w}
    /\ rebalancing' = (rebalancing \/ w \in member)
    /\ assigned' = [assigned EXCEPT ![w] = {}]

CommitOf(pending) ==
    [p \in Partition |-> IF pending[p] = 0 THEN committed[p] ELSE pending[p]]

FlushSucceeds(w, pending) ==
    /\ pending # None => w \in member
    /\ committed' = CommitOf(pending)

\* The broker refused the offsets, or took them and the answer was lost.
FlushFails(w, pending) ==
    /\ pending # None
    /\ \/ UNCHANGED committed
       \/ w \in member /\ committed' = CommitOf(pending)

-----------------------------------------------------------------------------
(***************************************************************************)
(* consume.                                                                *)
(***************************************************************************)
Join(w) ==
    /\ status[w] = "out"
    /\ status' = [status EXCEPT ![w] = "joining"]
    /\ member' = member \cup {w}
    /\ rejoined' = rejoined \cup {w}
    /\ rebalancing' = TRUE
    /\ UNCHANGED <<failure, processed, assigned, gen, committed, published>>

\* Mutants of MustRefuse: a worker that handled records goes on; committed
\* offsets are not looked at.
MustRefuseCommitted(w) ==
    failure[w] \/ \E p \in assigned[w] : committed[p] > 0

MustRefuseProcessed(w) == failure[w] \/ processed[w]

MustRefuse(w) ==
    \/ failure[w]
    \/ processed[w]
    \/ \E p \in assigned[w] : committed[p] > 0

StartGeneration(w) ==
    /\ status[w] = "assigned"
    /\ ~MustRefuse(w)
    /\ status' = [status EXCEPT ![w] = "consuming"]
    /\ gen' = [gen EXCEPT ![w] = Generation(committed, assigned[w] \cap Empty)]
    /\ UNCHANGED <<failure, processed, group, committed, published>>

\* consume returns an error: it must refuse the generation, or the broker no
\* longer knows the worker.
RefuseGeneration(w) ==
    /\ \/ status[w] = "assigned" /\ MustRefuse(w)
       \/ status[w] = "joining" /\ w \notin member
    /\ Exit(w)
    /\ UNCHANGED <<failure, processed, committed, published>>

\* group.Next or the check of the topology returns an error.
NextFails(w) ==
    /\ status[w] \in {"joining", "assigned"}
    /\ Exit(w)
    /\ UNCHANGED <<failure, processed, committed, published>>

-----------------------------------------------------------------------------
(***************************************************************************)
(* consumeGeneration.                                                      *)
(***************************************************************************)
Idle(w) == status[w] = "consuming" /\ gen[w].ends = {} /\ gen[w].handling = {}

Readable(w) == {p \in assigned[w] : gen[w].next[p] < LogLength(p)}

\* A reader hands over a record, and the aggregator takes it.
Receive(w, p) ==
    /\ Idle(w)
    /\ p \in Readable(w)
    /\ processed' = [processed EXCEPT ![w] = TRUE]
    /\ gen' = [gen EXCEPT ![w].handling = {p}, ![w].sent = 0]
    /\ UNCHANGED <<status, failure, group, committed, published>>

\* Initialize's end of a partition without Edges, before any record is read.
PublishEmptyEnd(w, m) ==
    /\ m.partition \in gen[w].ends
    /\ published' = published \cup {m}
    /\ gen' = [gen EXCEPT ![w].ends = @ \ {m.partition}]
    /\ UNCHANGED <<status, failure, processed, group, committed>>

PublishPart(w, m) ==
    /\ m.partition \in gen[w].handling
    /\ published' = published \cup {m}
    /\ gen' = [gen EXCEPT ![w].sent = @ + 1]
    /\ UNCHANGED <<status, failure, processed, group, committed>>

Publish(w) ==
    \E m \in NextMessages(w) : PublishEmptyEnd(w, m) \/ PublishPart(w, m)

\* Mutants of HandlingFails: the rest of the record is given up and the worker
\* goes on; the offset was registered before the messages were published, and
\* is committed on the way out.
HandlingSkipped(w) ==
    /\ status[w] = "consuming" /\ ~Idle(w)
    /\ gen' = [gen EXCEPT ![w].ends = {}, ![w].handling = {}, ![w].sent = 0,
                          ![w].next = [p \in Partition |->
                              IF p \in gen[w].handling THEN @[p] + 1 ELSE @[p]]]
    /\ UNCHANGED <<status, failure, processed, group, committed, published>>

HandlingFailsCommitted(w) ==
    /\ status[w] = "consuming" /\ ~Idle(w)
    /\ failure' = [failure EXCEPT ![w] = TRUE]
    /\ FlushSucceeds(w, [p \in Partition |->
                            IF p \in gen[w].handling THEN gen[w].next[p] + 1
                                                     ELSE gen[w].pending[p]])
    /\ Rejoin(w)
    /\ UNCHANGED <<processed, published>>

\* Reducing the record or publishing a message fails; the message may have been
\* written, those before it were.  The error is dropped when the end of the
\* generation may have caused it.  The offsets still pending are not committed.
HandlingFails(w) ==
    /\ status[w] = "consuming" /\ ~Idle(w)
    /\ \/ UNCHANGED published
       \/ \E m \in NextMessages(w) : published' = published \cup {m}
    /\ \/ failure' = [failure EXCEPT ![w] = TRUE]
       \/ (rebalancing \/ w \notin member) /\ UNCHANGED failure
    /\ Rejoin(w)
    /\ UNCHANGED <<processed, committed>>

ReadFails(w) ==
    /\ Idle(w)
    /\ failure' = [failure EXCEPT ![w] = TRUE]
    /\ Rejoin(w)
    /\ UNCHANGED <<processed, committed, published>>

\* The record is published, and its offset goes to the commit batch.
Handled(w) == gen[w].handling # {} /\ Unsent(w) = {}

Following(w) ==
    [p \in Partition |-> IF p \in gen[w].handling THEN gen[w].next[p] + 1
                                                  ELSE gen[w].next[p]]

Registered(w) ==
    [p \in Partition |-> IF p \in gen[w].handling THEN gen[w].next[p] + 1
                                                  ELSE gen[w].pending[p]]

BatchIsFull(w) ==
    \/ gen[w].count + 1 >= BatchSize
    \/ \E p \in gen[w].handling : gen[w].next[p] \in EndOffsets

Register(w) ==
    /\ Handled(w)
    /\ ~BatchIsFull(w)
    /\ gen' = [gen EXCEPT ![w].next = Following(w), ![w].pending = Registered(w),
                          ![w].count = @ + 1, ![w].handling = {}, ![w].sent = 0]
    /\ UNCHANGED <<status, failure, processed, group, committed, published>>

Commit(w) ==
    /\ Handled(w)
    /\ BatchIsFull(w)
    /\ FlushSucceeds(w, Registered(w))
    /\ gen' = [gen EXCEPT ![w].next = Following(w), ![w].pending = None,
                          ![w].count = 0, ![w].handling = {}, ![w].sent = 0]
    /\ UNCHANGED <<status, failure, processed, group, published>>

CommitFails(w) ==
    /\ Handled(w)
    /\ BatchIsFull(w)
    /\ FlushFails(w, Registered(w))
    /\ failure' = [failure EXCEPT ![w] = TRUE]
    /\ Rejoin(w)
    /\ UNCHANGED <<processed, published>>

\* The heartbeat fails or reports a rebalance; the pending offsets are flushed.
EndGeneration(w) ==
    /\ Idle(w)
    /\ \/ FlushSucceeds(w, gen[w].pending) /\ UNCHANGED failure
       \/ /\ FlushFails(w, gen[w].pending)
          /\ failure' = [failure EXCEPT ![w] = TRUE]
    /\ Rejoin(w)
    /\ UNCHANGED <<processed, published>>

-----------------------------------------------------------------------------
\* SIGTERM.  It cuts a publication short, and then nothing is flushed.
Stop(w) ==
    /\ status[w] \in {"joining", "assigned", "consuming"}
    /\ \/ /\ gen[w].ends = {} /\ gen[w].handling = {}
          /\ FlushSucceeds(w, gen[w].pending) \/ FlushFails(w, gen[w].pending)
          /\ UNCHANGED published
       \/ \E m \in NextMessages(w) : /\ published' \in {published, published \cup {m}}
                                    /\ UNCHANGED committed
    /\ Exit(w)
    /\ UNCHANGED <<failure, processed>>

Crash(w) ==
    /\ status[w] \in {"joining", "assigned", "consuming"}
    /\ status' = [status EXCEPT ![w] = "exited"]
    /\ gen' = [gen EXCEPT ![w] = NoGeneration]
    /\ assigned' = [assigned EXCEPT ![w] = {}]
    /\ UNCHANGED <<failure, processed, member, rejoined, rebalancing, committed,
                   published>>

\* The broker has not heard of w for a session timeout.
Expire(w) ==
    /\ w \in member /\ status[w] # "joining"
    /\ member' = member \ {w}
    /\ rejoined' = rejoined \ {w}
    /\ rebalancing' = TRUE
    /\ UNCHANGED <<status, failure, processed, assigned, gen, committed, published>>

\* The broker starts a generation once all its members wait for it.
Rebalance ==
    /\ rebalancing
    /\ member \subseteq rejoined
    /\ \E owner \in [Partition -> member] :
          assigned' = [w \in Worker |-> IF w \in member /\ status[w] = "joining"
                                        THEN {p \in Partition : owner[p] = w}
                                        ELSE assigned[w]]
    /\ status' = [w \in Worker |-> IF w \in member /\ status[w] = "joining"
                                   THEN "assigned" ELSE status[w]]
    /\ rejoined' = {}
    /\ rebalancing' = FALSE
    /\ UNCHANGED <<failure, processed, gen, member, committed, published>>

Terminated == (\A w \in Worker : status[w] = "exited") /\ UNCHANGED vars

-----------------------------------------------------------------------------
Init ==
    /\ status = [w \in Worker |-> "out"]
    /\ failure = [w \in Worker |-> FALSE]
    /\ processed = [w \in Worker |-> FALSE]
    /\ assigned = [w \in Worker |-> {}]
    /\ gen = [w \in Worker |-> NoGeneration]
    /\ member = {} /\ rejoined = {} /\ rebalancing = FALSE
    /\ committed = None
    /\ published = {}

Handle(w) ==
    \/ \E p \in Partition : Receive(w, p)
    \/ Publish(w) \/ HandlingFails(w) \/ ReadFails(w)
    \/ Register(w) \/ Commit(w) \/ CommitFails(w)

Next ==
    \/ \E w \in Worker :
          \/ Join(w) \/ StartGeneration(w) \/ RefuseGeneration(w) \/ NextFails(w)
          \/ Handle(w) \/ EndGeneration(w)
          \/ Stop(w) \/ Crash(w) \/ Expire(w)
    \/ Rebalance
    \/ Terminated

Spec == Init /\ [][Next]_vars

(***************************************************************************)
(* A worker's goroutines run, a heartbeat learns of a rebalance, and the   *)
(* broker drops a member that is gone and ends its rebalances.  Nothing    *)
(* makes a worker join, fail or be stopped.                                *)
(***************************************************************************)
FairSpec ==
    /\ Spec
    /\ WF_vars(Rebalance)
    /\ \A w \in Worker :
          /\ WF_vars(StartGeneration(w)) /\ WF_vars(RefuseGeneration(w))
          /\ WF_vars(Publish(w)) /\ WF_vars(Register(w) \/ Commit(w) \/ CommitFails(w))
          /\ WF_vars((rebalancing \/ w \notin member) /\ EndGeneration(w))
          /\ WF_vars(status[w] = "exited" /\ Expire(w))

-----------------------------------------------------------------------------
(***************************************************************************)
(* What any worker published of a partition is, without a gap, the head of *)
(* the stream that all its records from the first on give rise to: no      *)
(* worker reduces the tail of a partition whose head another one reduced,  *)
(* and none goes on after a flush it published in part.                    *)
(***************************************************************************)
WholeState ==
    \A m \in published :
        /\ m.first = 0
        /\ \A k \in 0 .. LogLength(m.partition) - 1 :
              \A j \in 1 .. Outputs[m.partition][k + 1] :
                  k < m.offset \/ (k = m.offset /\ j < m.part) =>
                      [m EXCEPT !.offset = k, !.part = j] \in published

(***************************************************************************)
(* At least once: whatever crashes, fails or is rebalanced, one worker     *)
(* published all the messages of a record before its offset is committed.  *)
(***************************************************************************)
CommittedWasPublished ==
    \A p \in Partition : \A k \in 0 .. committed[p] - 1 :
        \E w \in Worker : \A j \in 1 .. Outputs[p][k + 1] :
            [worker |-> w, partition |-> p, first |-> 0, offset |-> k, part |-> j]
                \in published

(***************************************************************************)
(* A worker never handles records in two generations: what a consuming     *)
(* worker has ever published is in the state of its current aggregators.   *)
(* Only the end of a partition without Edges may be published again.       *)
(***************************************************************************)
NoContinuation ==
    \A m \in published :
        status[m.worker] = "consuming" /\ m.partition \notin Empty =>
            LET g == gen[m.worker] IN
            /\ m.partition \in assigned[m.worker]
            /\ \/ m.offset < g.next[m.partition]
               \/ /\ m.partition \in g.handling
                  /\ m.offset = g.next[m.partition] /\ m.part <= g.sent

(***************************************************************************)
(* The failure of one worker is not outlived by those that share its run:  *)
(* a rebalance stops every worker that has handled a record.               *)
(***************************************************************************)
RebalanceStops ==
    \A w \in Worker : rebalancing /\ processed[w] ~> status[w] = "exited"

(***************************************************************************)
(* What consumer.go:63 ("consumer group rebalance after processing:        *)
(* volatile state cannot migrate; restart the entire run") says of a run   *)
(* that goes on: the records of no partition are handled by two workers.   *)
(***************************************************************************)
NoTakeover ==
    \A m, n \in published :
        m.partition = n.partition /\ m.partition \notin Empty => m.worker = n.worker
=============================================================================
