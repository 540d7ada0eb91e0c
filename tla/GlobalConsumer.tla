---------------------------- MODULE GlobalConsumer ----------------------------
(***************************************************************************)
(* The Global Aggregator as a process: its consumer loop (global-          *)
(* aggregator/consumer.go), which commits every record after processing    *)
(* it, the PostgreSQL sink (postgres.go), and crashes and restarts.        *)
(*                                                                         *)
(* Only the committed offset and the table survive the process: the open   *)
(* windows, the watermark and the partitions' progress do not.  The next   *)
(* process resumes at the committed offset with an empty aggregator.  The  *)
(* container is never restarted on its own (restart: "no"), so a restart   *)
(* is an operator's, and nothing makes it happen.                          *)
(*                                                                         *)
(* `sunk' and `accepted' of GlobalAggregator are those of one process.     *)
(* The JSON log sink keeps every result written and needs no model.        *)
(***************************************************************************)
EXTENDS GlobalIngest

CONSTANT MaxRestarts    \* bound of the model

ASSUME MaxRestartsAssumption == MaxRestarts \in Nat

VARIABLES
    phase,        \* "fetch", "commit", "done" or "down"
    uncommitted,  \* the record fetched last, as long as it is not committed
    rows,         \* the table global_aggregates
    restarts,
    forgotten,    \* history: partitions whose EOS was committed by a process
                  \* that died
    uncounted     \* history: partials lost with a process that died, or in a
                  \* result the table refused

processVars == <<phase, uncommitted, rows, restarts, forgotten, uncounted>>
consumerVars == <<ingestVars, processVars>>

PartialRecord(i) == [partition |-> i.partition, partial |-> {i}]
EndRecord(p) == [partition |-> p, partial |-> {}]

\* The table has a row of the window of r.
HasRow(r) == \E q \in rows : q.start = r.start /\ q.end = r.end

Contributions(results) == UNION {r.contributors : r \in results}

-----------------------------------------------------------------------------
ConsumerInit ==
    /\ IngestInit
    /\ phase = "fetch"
    /\ uncommitted = {}
    /\ rows = {}
    /\ restarts = 0
    /\ forgotten = {}
    /\ uncounted = {}

(***************************************************************************)
(* The sink's INSERT ... ON CONFLICT (aggregate_id) DO NOTHING, for the    *)
(* results of one call.  The id of a result is made of its window.         *)
(***************************************************************************)
Insert ==
    LET new == sunk' \ sunk IN
    /\ rows' = rows \cup {r \in new : ~HasRow(r)}
    /\ uncounted' =
          uncounted \cup (Contributions({r \in new : HasRow(r)})
                            \ Contributions(rows))

\* Mutant of Processed: the record is committed before it is processed.
ProcessedAfterCommit(record) ==
    /\ uncommitted' = {}
    /\ Insert
    /\ phase' = IF rejected' \/ sinkFailed' THEN "down" ELSE "commit"
    /\ UNCHANGED <<restarts, forgotten>>

(***************************************************************************)
(* What Process leaves, whatever the record: an error ends the process     *)
(* before the commit.                                                      *)
(***************************************************************************)
Processed(record) ==
    /\ uncommitted' = {record}
    /\ Insert
    /\ phase' = IF rejected' \/ sinkFailed' THEN "down" ELSE "commit"
    /\ UNCHANGED <<restarts, forgotten>>

\* FetchMessage returns a record no process has fetched.
Reading == phase = "fetch" /\ uncommitted = {}

ReadPartial(i) ==
    /\ Reading
    /\ Deliver(i) \/ Redeliver(i) \/ Copy(i)
    /\ Processed(PartialRecord(i))

ReadEnd(p) ==
    /\ Reading
    /\ EndOfReplay(p)
    /\ Processed(EndRecord(p))

\* FetchMessage returns the record the last process did not commit.
Reread ==
    /\ phase = "fetch"
    /\ \E record \in uncommitted :
          /\ \/ /\ record.partial # {}
                /\ \A i \in record.partial : Receive(i)
                /\ UNCHANGED <<written, closed, copied>>
             \/ record.partial = {} /\ EndOfReplay(record.partition)
          /\ Processed(record)

\* Mutant of Commit: the record that completes the run does not end the loop.
CommitAndGoOn ==
    /\ phase = "commit"
    /\ uncommitted' = {}
    /\ phase' = "fetch"
    /\ UNCHANGED <<ingestVars, rows, restarts, forgotten, uncounted>>

Commit ==
    /\ phase = "commit"
    /\ uncommitted' = {}
    /\ phase' = IF complete THEN "done" ELSE "fetch"
    /\ UNCHANGED <<ingestVars, rows, restarts, forgotten, uncounted>>

\* The commit's error ends the process; the broker may have stored it.
CommitFails ==
    /\ phase = "commit"
    /\ uncommitted' \in {{}, uncommitted}
    /\ phase' = "down"
    /\ UNCHANGED <<ingestVars, rows, restarts, forgotten, uncounted>>

\* A crash, a failed fetch or SIGTERM while no call is in progress.
Crash ==
    /\ phase = "fetch"
    /\ phase' = "down"
    /\ UNCHANGED <<ingestVars, uncommitted, rows, restarts, forgotten, uncounted>>

\* An operator starts the process again.
Restart ==
    /\ phase = "down" /\ restarts < MaxRestarts
    /\ phase' = "fetch"
    /\ restarts' = restarts + 1
    /\ through' = [p \in Partition |-> 0]
    /\ ended' = {}
    /\ last' = [p \in Partition |-> {}]
    /\ windows' = {} /\ completeThrough' = 0
    /\ complete' = FALSE /\ rejected' = FALSE /\ sinkFailed' = FALSE
    /\ late' = {} /\ sunk' = {} /\ accepted' = {}
    /\ forgotten' =
          forgotten \cup {p \in ended : EndRecord(p) \notin uncommitted}
    /\ uncounted' =
          uncounted \cup (windows \ (Contributions(rows)
                                       \cup UNION {r.partial : r \in uncommitted}))
    /\ UNCHANGED <<written, closed, copied, dropped, uncommitted, rows>>

ConsumerNext ==
    \/ \E i \in Input : ReadPartial(i)
    \/ \E p \in Partition : ReadEnd(p)
    \/ Reread \/ Commit \/ CommitFails \/ Crash \/ Restart

ConsumerSpec == ConsumerInit /\ [][ConsumerNext]_consumerVars

\* The next record of p's own stream is read.
Advance(p) ==
    \/ \E i \in Input : i.partition = p /\ Reading /\ Deliver(i)
                        /\ Processed(PartialRecord(i))
    \/ p \notin closed /\ ReadEnd(p)

(***************************************************************************)
(* Every partition's stream reaches its EOS, and the log holds only        *)
(* finitely many records before it; a process that is up keeps reading and *)
(* committing.  Nothing is assumed of crashes and restarts.                *)
(***************************************************************************)
FairConsumerSpec ==
    /\ ConsumerSpec
    /\ WF_consumerVars(Reread) /\ WF_consumerVars(Commit)
    /\ \A p \in Partition : SF_consumerVars(Advance(p))

-----------------------------------------------------------------------------
(***************************************************************************)
(* No interleaving of partitions, skew, late drop, retry or restart makes  *)
(* the Global Aggregator stop with one of AddWithResult's or               *)
(* EndPartition's protocol errors: only a partition written by two owners  *)
(* does.                                                                   *)
(***************************************************************************)
NeverRejects == rejected => \E p \in Partition : copied[p] > 0

(***************************************************************************)
(* What skew may cost: a partial is dropped as late only when some other   *)
(* partition certified progress MaxSkew past the end of its window, and a  *)
(* restart does not widen this.                                            *)
(***************************************************************************)
BoundedLoss ==
    \A i \in dropped : \E q \in Partition \ {i.partition} :
       i.end + MaxSkew <= Certified(q)

(***************************************************************************)
(* Nothing disappears silently: a partial in the log is in a row of the    *)
(* table, in an open window, reported late, still to be committed, or one  *)
(* of those a restart cost.  A window has one row, without a partial that  *)
(* no worker wrote.  Without a restart nothing is uncounted, although a    *)
(* result may meet a row, and no partial is both counted and reported      *)
(* late, even if a partition has two owners.                               *)
(***************************************************************************)
EveryPartialAccounted ==
    LET all == UNION {{written[p][k] : k \in DOMAIN written[p]} : p \in Partition}
        counted == Contributions(rows) \cup windows
    IN
    /\ all = counted \cup dropped \cup uncounted
               \cup UNION {r.partial : r \in uncommitted}
    /\ \A q, r \in rows : q.end = r.end => q = r
    /\ restarts = 0 => uncounted = {} /\ counted \cap dropped = {}

(***************************************************************************)
(* A process that stays up completes the run, however many of its          *)
(* predecessors died and wherever: unless one of them took with it an EOS  *)
(* it had committed, which no later process hears again.                   *)
(***************************************************************************)
ReplayCompletes ==
    <>[](phase # "down") => <>(phase = "done" \/ forgotten # {})
=============================================================================
