------------------------- MODULE CloudConsumerProofs -------------------------
(***************************************************************************)
(* Theorems about CloudConsumer, for every set of workers and partitions,  *)
(* every log and every batch size: what workers publish is the head of a   *)
(* partition's stream, what they commit was published, and no worker       *)
(* handles records in two generations.                                     *)
(***************************************************************************)
EXTENDS CloudConsumer, TLAPS

Status == {"out", "joining", "assigned", "consuming", "exited"}

GenerationState ==
    [ends : SUBSET Partition, first : [Partition -> Nat],
     next : [Partition -> Nat], pending : [Partition -> Nat], count : Nat,
     handling : SUBSET Partition, sent : Nat]

Messages ==
    [worker : Worker, partition : Partition, first : Nat, offset : Nat, part : Nat]

\* The message that w publishes when it started p at its beginning.
FromStart(w, p, k, j) ==
    [worker |-> w, partition |-> p, first |-> 0, offset |-> k, part |-> j]

\* w published all messages of the first n records of p.
HeadPublished(w, p, n) ==
    \A k \in 0 .. n - 1 : \A j \in 1 .. Outputs[p][k + 1] :
        FromStart(w, p, k, j) \in published

-----------------------------------------------------------------------------
(***************************************************************************)
(* The inductive invariant.                                                *)
(***************************************************************************)
Types ==
    /\ status \in [Worker -> Status]
    /\ failure \in [Worker -> BOOLEAN]
    /\ processed \in [Worker -> BOOLEAN]
    /\ assigned \in [Worker -> SUBSET Partition]
    /\ gen \in [Worker -> GenerationState]
    /\ member \subseteq Worker /\ rejoined \subseteq Worker
    /\ rebalancing \in BOOLEAN
    /\ committed \in [Partition -> Nat]
    /\ published \subseteq Messages

\* What the generation of a consuming worker is built on.
Progress(w, p) ==
    /\ gen[w].first[p] = 0
    /\ HeadPublished(w, p, gen[w].next[p])

Pending(w, p) ==
    gen[w].pending[p] # 0 => p \in assigned[w] /\ gen[w].pending[p] <= gen[w].next[p]

Handling(w, p) ==
    /\ p \in assigned[w] /\ processed[w]
    /\ gen[w].next[p] < LogLength(p)
    /\ \A q \in gen[w].handling : q = p
    /\ \A j \in 1 .. gen[w].sent : FromStart(w, p, gen[w].next[p], j) \in published

AtWork(w) ==
    /\ gen[w].ends \subseteq assigned[w] \cap Empty
    /\ \A p \in assigned[w] : Progress(w, p)
    /\ \A p \in Partition : Pending(w, p)
    /\ \A p \in gen[w].handling : Handling(w, p)

Workers ==
    \A w \in Worker : IF status[w] = "consuming" THEN AtWork(w)
                                                ELSE gen[w] = NoGeneration

\* Records leave a trace in the worker that handled one.
Traced == \A m \in published : m.partition \notin Empty => processed[m.worker]

IInv == Types /\ Workers /\ Traced /\ WholeState /\ CommittedWasPublished /\ NoContinuation

-----------------------------------------------------------------------------
(***************************************************************************)
(* The parts of the invariant that speak of one message.                   *)
(***************************************************************************)
Whole(m) ==
    /\ m.first = 0
    /\ \A k \in 0 .. LogLength(m.partition) - 1 :
          \A j \in 1 .. Outputs[m.partition][k + 1] :
              k < m.offset \/ (k = m.offset /\ j < m.part) =>
                  [m EXCEPT !.offset = k, !.part = j] \in published

Covered(m) ==
    /\ m.partition \in assigned[m.worker]
    /\ \/ m.offset < gen[m.worker].next[m.partition]
       \/ /\ m.partition \in gen[m.worker].handling
          /\ m.offset = gen[m.worker].next[m.partition]
          /\ m.part <= gen[m.worker].sent

LEMMA Constants ==
    /\ Outputs \in [Partition -> Seq(Nat)]
    /\ None \in [Partition -> Nat] /\ NoGeneration \in GenerationState
    /\ NoGeneration.ends = {} /\ NoGeneration.handling = {}
    /\ NoGeneration.pending = None /\ \A p \in Partition : None[p] = 0
<1>1. None \in [Partition -> Nat] /\ \A p \in Partition : None[p] = 0
  BY DEF None
<1>2. NoGeneration = [ends |-> {}, first |-> None, next |-> None, pending |-> None,
                      count |-> 0, handling |-> {}, sent |-> 0]
  BY DEF NoGeneration, Generation
<1>3. NoGeneration \in GenerationState
  BY <1>1, <1>2 DEF GenerationState
<1> QED
  BY <1>1, <1>2, <1>3, ConstantsAssumption

LEMMA HeadGrows ==
    ASSUME published \subseteq published', NEW v, NEW p, NEW n, HeadPublished(v, p, n)
    PROVE  HeadPublished(v, p, n)'
BY DEF HeadPublished, FromStart

(***************************************************************************)
(* A step of w leaves what the invariant says of the other workers.        *)
(***************************************************************************)
LEMMA StepOfWorker ==
    ASSUME IInv, Types', NEW w \in Worker,
           \A v \in Worker \ {w} :
               /\ status'[v] = status[v] /\ assigned'[v] = assigned[v]
               /\ gen'[v] = gen[v] /\ processed'[v] = processed[v],
           processed[w] => processed'[w],
           published \subseteq published',
           IF status'[w] = "consuming" THEN AtWork(w)' ELSE gen'[w] = NoGeneration,
           \A m \in published' \ published :
               /\ m.worker = w /\ Whole(m)'
               /\ m.partition \notin Empty => processed'[w],
           \A m \in published' :
               m.worker = w /\ status'[w] = "consuming" /\ m.partition \notin Empty
               => Covered(m)',
           \A p \in Partition :
               \/ committed'[p] = committed[p]
               \/ \E v \in Worker : HeadPublished(v, p, committed'[p])
    PROVE  IInv'
<1>1. Workers'
  <2> SUFFICES ASSUME NEW v \in Worker
               PROVE  IF status'[v] = "consuming" THEN AtWork(v)'
                                                  ELSE gen'[v] = NoGeneration
    BY DEF Workers, NoGeneration, Generation, None
  <2>1. CASE v = w
    BY <2>1
  <2>2. CASE v # w
    <3>1. /\ status'[v] = status[v] /\ assigned'[v] = assigned[v]
          /\ gen'[v] = gen[v] /\ processed'[v] = processed[v]
      BY <2>2
    <3>2. IF status[v] = "consuming" THEN AtWork(v) ELSE gen[v] = NoGeneration
      BY DEF IInv, Workers
    <3>3. ASSUME AtWork(v) PROVE AtWork(v)'
      <4>1. gen[v].ends \subseteq assigned[v] \cap Empty
        BY <3>3 DEF AtWork
      <4>2. ASSUME NEW p \in assigned[v], Progress(v, p) PROVE Progress(v, p)'
        BY <3>1, <4>2, HeadGrows DEF Progress
      <4>3. ASSUME NEW p \in Partition, Pending(v, p) PROVE Pending(v, p)'
        BY <3>1, <4>3 DEF Pending
      <4>4. ASSUME NEW p \in gen[v].handling, Handling(v, p) PROVE Handling(v, p)'
        BY <3>1, <4>4 DEF Handling, FromStart, LogLength
      <4> QED
        BY <3>1, <3>3, <4>1, <4>2, <4>3, <4>4 DEF AtWork, Empty, LogLength
    <3> QED
      BY <3>1, <3>2, <3>3
  <2> QED
    BY <2>1, <2>2
<1>2. \A m \in published : m \in Messages /\ m.worker \in Worker
  BY DEF IInv, Types, Messages
<1>3. Traced'
  <2>1. ASSUME NEW m \in published, m.partition \notin Empty PROVE processed'[m.worker]
    BY <1>2, <2>1 DEF IInv, Traced
  <2> QED
    BY <2>1 DEF Traced, Empty, LogLength
<1>4. WholeState'
  <2>1. ASSUME NEW m \in published PROVE Whole(m)'
    BY <2>1 DEF IInv, WholeState, Whole, LogLength
  <2> QED
    BY <2>1 DEF WholeState, Whole, LogLength
<1>5. CommittedWasPublished'
  <2> SUFFICES ASSUME NEW p \in Partition, NEW k \in 0 .. committed'[p] - 1
               PROVE  \E v \in Worker : \A j \in 1 .. Outputs[p][k + 1] :
                          FromStart(v, p, k, j) \in published'
    BY DEF CommittedWasPublished, FromStart
  <2>1. CASE committed'[p] = committed[p]
    <3>1. PICK v \in Worker : \A j \in 1 .. Outputs[p][k + 1] :
              FromStart(v, p, k, j) \in published
      BY <2>1 DEF IInv, CommittedWasPublished, FromStart
    <3> QED
      BY <3>1
  <2>2. CASE \E v \in Worker : HeadPublished(v, p, committed'[p])
    BY <2>2 DEF HeadPublished
  <2> QED
    BY <2>1, <2>2
<1>6. NoContinuation'
  <2> SUFFICES ASSUME NEW m \in published', status'[m.worker] = "consuming",
                      m.partition \notin Empty
               PROVE  Covered(m)'
    BY DEF NoContinuation, Covered, Empty, LogLength
  <2>1. CASE m.worker = w
    BY <2>1
  <2>2. CASE m.worker # w
    <3>1. m \in published /\ m.worker \in Worker
      BY <1>2, <2>2
    <3>2. Covered(m)
      BY <2>2, <3>1 DEF IInv, NoContinuation, Covered
    <3> QED
      BY <2>2, <3>1, <3>2 DEF Covered
  <2> QED
    BY <2>1, <2>2
<1> QED
  BY <1>1, <1>3, <1>4, <1>5, <1>6 DEF IInv

(***************************************************************************)
(* What a worker is about to publish follows what it published.            *)
(***************************************************************************)
LEMMA GenerationTypes ==
    ASSUME Types, NEW w \in Worker
    PROVE  /\ gen[w].ends \subseteq Partition /\ gen[w].first \in [Partition -> Nat]
           /\ gen[w].next \in [Partition -> Nat] /\ gen[w].pending \in [Partition -> Nat]
           /\ gen[w].count \in Nat /\ gen[w].handling \subseteq Partition
           /\ gen[w].sent \in Nat
           /\ gen[w] \in GenerationState
BY DEF Types, GenerationState

LEMMA OutputsOf ==
    ASSUME NEW p \in Partition
    PROVE  /\ LogLength(p) \in Nat
           /\ \A k \in 0 .. LogLength(p) - 1 : Outputs[p][k + 1] \in Nat
BY Constants DEF LogLength

LEMMA NextIsWhole ==
    ASSUME IInv, NEW w \in Worker, NEW m \in NextMessages(w)
    PROVE  /\ m \in Messages /\ m.worker = w /\ status[w] = "consuming"
           /\ Whole(m)
           /\ m.partition \in gen[w].handling =>
                 /\ m = FromStart(w, m.partition, gen[w].next[m.partition],
                                  gen[w].sent + 1)
                 /\ processed[w]
           /\ m.partition \in gen[w].ends \cap Empty \/ m.partition \in gen[w].handling
<1>1. m \in Unsent(w) /\ (m.partition \in gen[w].handling => m.part = gen[w].sent + 1)
  BY DEF NextMessages
<1>2. gen[w].ends # {} \/ gen[w].handling # {}
  BY <1>1 DEF Unsent
<1>3. status[w] = "consuming" /\ AtWork(w)
  BY <1>2, Constants DEF IInv, Workers
<1>t. /\ gen[w].ends \subseteq Partition /\ gen[w].next \in [Partition -> Nat]
      /\ gen[w].handling \subseteq Partition /\ gen[w].sent \in Nat
      /\ assigned[w] \subseteq Partition
  BY GenerationTypes DEF IInv, Types
<1>4. CASE \E p \in gen[w].ends : m = Message(w, p, 0, 1)
  <2>1. PICK p \in gen[w].ends : m = Message(w, p, 0, 1)
    BY <1>4
  <2>2. p \in assigned[w] /\ p \in Empty /\ gen[w].first[p] = 0
    BY <1>3 DEF AtWork, Progress
  <2>3. m = FromStart(w, p, 0, 1)
    BY <2>1, <2>2 DEF Message, FromStart
  <2>4. m.partition = p /\ m.worker = w /\ m.first = 0 /\ m \in Messages
    BY <1>t, <2>3 DEF FromStart, Messages
  <2>5. Whole(m)
    <3>1. LogLength(m.partition) = 0
      BY <2>2, <2>4 DEF Empty
    <3>2. \A k \in 0 .. LogLength(m.partition) - 1 : FALSE
      BY <3>1
    <3> QED
      BY <2>4, <3>2 DEF Whole
  <2>6. p \notin gen[w].handling
    <3> SUFFICES ASSUME p \in gen[w].handling PROVE FALSE
      OBVIOUS
    <3>1. gen[w].next[p] < LogLength(p) /\ LogLength(p) = 0
      BY <1>3, <2>2 DEF AtWork, Handling, Empty
    <3> QED
      BY <1>t, <3>1
  <2> QED
    BY <1>3, <2>2, <2>4, <2>5, <2>6
<1>5. CASE \E p \in gen[w].handling :
              \E part \in gen[w].sent + 1 .. Outputs[p][gen[w].next[p] + 1] :
                  m = Message(w, p, gen[w].next[p], part)
  <2>1. PICK p \in gen[w].handling :
            \E part \in gen[w].sent + 1 .. Outputs[p][gen[w].next[p] + 1] :
                m = Message(w, p, gen[w].next[p], part)
    BY <1>5
  <2>2. PICK part \in gen[w].sent + 1 .. Outputs[p][gen[w].next[p] + 1] :
            m = Message(w, p, gen[w].next[p], part)
    BY <2>1
  <2>3. Handling(w, p) /\ p \in assigned[w] /\ Progress(w, p) /\ processed[w]
    BY <1>3 DEF AtWork, Handling
  <2>4. m = FromStart(w, p, gen[w].next[p], part)
    BY <2>2, <2>3 DEF Message, FromStart, Progress
  <2>5. m.partition = p /\ m.worker = w /\ m.first = 0 /\ m.offset = gen[w].next[p]
        /\ m.part = part
    BY <2>4 DEF FromStart
  <2>6. part = gen[w].sent + 1
    BY <1>1, <2>5
  <2>7. m \in Messages
    BY <1>t, <2>4, <2>6 DEF FromStart, Messages
  <2>8. Whole(m)
    <3> SUFFICES ASSUME NEW k \in 0 .. LogLength(p) - 1, NEW j \in 1 .. Outputs[p][k + 1],
                        k < m.offset \/ (k = m.offset /\ j < m.part)
                 PROVE  [m EXCEPT !.offset = k, !.part = j] \in published
      BY <2>5 DEF Whole
    <3>1. [m EXCEPT !.offset = k, !.part = j] = FromStart(w, p, k, j)
      <4>1. [m EXCEPT !.offset = k] = FromStart(w, p, k, part)
        BY <2>4 DEF FromStart
      <4>2. [FromStart(w, p, k, part) EXCEPT !.part = j] = FromStart(w, p, k, j)
        BY DEF FromStart
      <4>3. [m EXCEPT !.offset = k, !.part = j]
              = [[m EXCEPT !.offset = k] EXCEPT !.part = j]
        OBVIOUS
      <4> QED
        BY <4>1, <4>2, <4>3
    <3>2. CASE k < m.offset
      <4>1. k \in 0 .. gen[w].next[p] - 1
        BY <1>t, <2>5, <3>2
      <4> QED
        BY <2>3, <3>1, <4>1 DEF Progress, HeadPublished
    <3>3. CASE k = m.offset /\ j < m.part
      <4>1. k = gen[w].next[p] /\ j \in 1 .. gen[w].sent
        BY <1>t, <2>5, <2>6, <3>3, OutputsOf
      <4> QED
        BY <2>3, <3>1, <4>1 DEF Handling
    <3> QED
      BY <3>2, <3>3
  <2> QED
    BY <1>3, <2>3, <2>4, <2>5, <2>6, <2>7, <2>8
<1> QED
  BY <1>1, <1>4, <1>5 DEF Unsent

(***************************************************************************)
(* The next message may be published.                                      *)
(***************************************************************************)
LEMMA PublishedNext ==
    ASSUME IInv, NEW w \in Worker, processed' = processed,
           \/ published' = published
           \/ \E m \in NextMessages(w) : published' = published \cup {m}
    PROVE  /\ published \subseteq published' /\ published' \subseteq Messages
           /\ \A m \in published' \ published :
                 /\ m.worker = w /\ Whole(m)'
                 /\ m.partition \notin Empty => processed'[w]
<1>1. CASE published' = published
  BY <1>1 DEF IInv, Types
<1>2. CASE \E m \in NextMessages(w) : published' = published \cup {m}
  <2>1. PICK m \in NextMessages(w) : published' = published \cup {m}
    BY <1>2
  <2>2. /\ m \in Messages /\ m.worker = w /\ Whole(m)
        /\ m.partition \notin Empty => processed[w]
    BY NextIsWhole
  <2>3. Whole(m)'
    BY <2>1, <2>2 DEF Whole, LogLength
  <2> QED
    BY <2>1, <2>2, <2>3 DEF IInv, Types
<1> QED
  BY <1>1, <1>2

-----------------------------------------------------------------------------
(***************************************************************************)
(* What a worker commits.                                                  *)
(***************************************************************************)
LEMMA FlushPublished ==
    ASSUME IInv, NEW w \in Worker, NEW pending \in [Partition -> Nat],
           \A p \in Partition : pending[p] # 0 => HeadPublished(w, p, pending[p]),
           committed' = committed \/ committed' = CommitOf(pending)
    PROVE  /\ committed' \in [Partition -> Nat]
           /\ \A p \in Partition :
                 \/ committed'[p] = committed[p]
                 \/ \E v \in Worker : HeadPublished(v, p, committed'[p])
<1>1. committed \in [Partition -> Nat]
  BY DEF IInv, Types
<1>2. CASE committed' = committed
  BY <1>1, <1>2
<1>3. CASE committed' = CommitOf(pending)
  <2>1. committed' \in [Partition -> Nat]
    BY <1>1, <1>3 DEF CommitOf
  <2>2. ASSUME NEW p \in Partition, committed'[p] # committed[p]
        PROVE  HeadPublished(w, p, committed'[p])
    <3>1. pending[p] # 0 /\ committed'[p] = pending[p]
      BY <1>3, <2>2 DEF CommitOf
    <3> QED
      BY <3>1
  <2> QED
    BY <2>1, <2>2
<1> QED
  BY <1>2, <1>3

LEMMA PendingPublished ==
    ASSUME IInv, NEW w \in Worker
    PROVE  /\ gen[w].pending \in [Partition -> Nat]
           /\ \A p \in Partition :
                 gen[w].pending[p] # 0 => HeadPublished(w, p, gen[w].pending[p])
<1>1. gen[w].pending \in [Partition -> Nat] /\ gen[w].next \in [Partition -> Nat]
  BY GenerationTypes DEF IInv
<1>2. ASSUME NEW p \in Partition, gen[w].pending[p] # 0
      PROVE  HeadPublished(w, p, gen[w].pending[p])
  <2>1. AtWork(w)
    BY <1>2, Constants DEF IInv, Workers
  <2>2. p \in assigned[w] /\ gen[w].pending[p] <= gen[w].next[p]
    BY <1>2, <2>1 DEF AtWork, Pending
  <2>3. HeadPublished(w, p, gen[w].next[p])
    BY <2>1, <2>2 DEF AtWork, Progress
  <2>4. \A k \in 0 .. gen[w].pending[p] - 1 : k \in 0 .. gen[w].next[p] - 1
    BY <1>1, <2>2
  <2> QED
    BY <2>3, <2>4 DEF HeadPublished
<1> QED
  BY <1>1, <1>2

\* The record being handled is published whole.
LEMMA HandledPublished ==
    ASSUME IInv, NEW w \in Worker, Handled(w)
    PROVE  /\ status[w] = "consuming" /\ AtWork(w) /\ gen[w].ends = {}
           /\ \A p \in gen[w].handling :
                 /\ p \in assigned[w] /\ gen[w].first[p] = 0
                 /\ HeadPublished(w, p, gen[w].next[p] + 1)
                 /\ \A q \in gen[w].handling : q = p
<1>1. status[w] = "consuming" /\ AtWork(w)
  BY Constants DEF IInv, Workers, Handled
<1>2. gen[w].ends = {}
  BY DEF Handled, Unsent
<1>3. ASSUME NEW p \in gen[w].handling
      PROVE  /\ p \in assigned[w] /\ gen[w].first[p] = 0
             /\ HeadPublished(w, p, gen[w].next[p] + 1)
             /\ \A q \in gen[w].handling : q = p
  <2>1. Handling(w, p) /\ p \in assigned[w] /\ Progress(w, p) /\ p \in Partition
    BY <1>1, GenerationTypes DEF AtWork, Handling, IInv
  <2>2. gen[w].next[p] \in 0 .. LogLength(p) - 1 /\ gen[w].sent \in Nat
    BY <2>1, GenerationTypes, OutputsOf DEF Handling, IInv
  <2> DEFINE last == Outputs[p][gen[w].next[p] + 1]
  <2>3. last \in Nat
    BY <2>1, <2>2, OutputsOf
  <2>4. \A part \in gen[w].sent + 1 .. last : FALSE
    BY DEF Handled, Unsent
  <2>5. last <= gen[w].sent
    <3> HIDE DEF last
    <3>1. last >= gen[w].sent + 1 => last \in gen[w].sent + 1 .. last
      BY <2>2, <2>3
    <3> QED
      BY <2>2, <2>3, <2>4, <3>1
  <2>6. \A j \in 1 .. last : FromStart(w, p, gen[w].next[p], j) \in published
    <3> HIDE DEF last
    <3> QED
      BY <2>1, <2>2, <2>3, <2>5 DEF Handling
  <2>7. HeadPublished(w, p, gen[w].next[p] + 1)
    <3> SUFFICES ASSUME NEW k \in 0 .. (gen[w].next[p] + 1) - 1,
                        NEW j \in 1 .. Outputs[p][k + 1]
                 PROVE  FromStart(w, p, k, j) \in published
      BY DEF HeadPublished
    <3>1. k = gen[w].next[p] \/ k \in 0 .. gen[w].next[p] - 1
      BY <2>2
    <3> QED
      BY <2>1, <2>6, <3>1 DEF Progress, HeadPublished
  <2> QED
    BY <2>1, <2>7 DEF Progress, Handling
<1> QED
  BY <1>1, <1>2, <1>3

LEMMA RegisteredPublished ==
    ASSUME IInv, NEW w \in Worker, Handled(w)
    PROVE  /\ Registered(w) \in [Partition -> Nat]
           /\ \A p \in Partition :
                 Registered(w)[p] # 0 => HeadPublished(w, p, Registered(w)[p])
<1>1. /\ gen[w].pending \in [Partition -> Nat] /\ gen[w].next \in [Partition -> Nat]
      /\ gen[w].handling \subseteq Partition
  BY GenerationTypes DEF IInv
<1>2. Registered(w) \in [Partition -> Nat]
  BY <1>1 DEF Registered
<1>3. ASSUME NEW p \in Partition, Registered(w)[p] # 0
      PROVE  HeadPublished(w, p, Registered(w)[p])
  <2>1. CASE p \in gen[w].handling
    <3>1. Registered(w)[p] = gen[w].next[p] + 1
      BY <2>1 DEF Registered
    <3> QED
      BY <2>1, <3>1, HandledPublished
  <2>2. CASE p \notin gen[w].handling
    <3>1. Registered(w)[p] = gen[w].pending[p]
      BY <2>2 DEF Registered
    <3> QED
      BY <1>3, <3>1, PendingPublished
  <2> QED
    BY <2>1, <2>2
<1> QED
  BY <1>2, <1>3

-----------------------------------------------------------------------------
(***************************************************************************)
(* A generation that ends leaves nothing of its state behind.              *)
(***************************************************************************)
Leaves(w) ==
    /\ status' \in [Worker -> Status] /\ status'[w] # "consuming"
    /\ \A v \in Worker \ {w} : status'[v] = status[v] /\ assigned'[v] = assigned[v]
    /\ gen' = [gen EXCEPT ![w] = NoGeneration]
    /\ assigned' \in [Worker -> SUBSET Partition]
    /\ member' \subseteq Worker /\ rejoined' \subseteq Worker /\ rebalancing' \in BOOLEAN

LEMMA RejoinLeaves ==
    ASSUME IInv, NEW w \in Worker, Rejoin(w) PROVE Leaves(w)
<1>1. /\ status \in [Worker -> Status] /\ assigned \in [Worker -> SUBSET Partition]
      /\ member \subseteq Worker /\ rejoined \subseteq Worker /\ rebalancing \in BOOLEAN
  BY DEF IInv, Types
<1> QED
  BY <1>1 DEF Rejoin, Leaves, Status

LEMMA ExitLeaves ==
    ASSUME IInv, NEW w \in Worker, Exit(w) PROVE Leaves(w)
<1>1. /\ status \in [Worker -> Status] /\ assigned \in [Worker -> SUBSET Partition]
      /\ member \subseteq Worker /\ rejoined \subseteq Worker /\ rebalancing \in BOOLEAN
  BY DEF IInv, Types
<1>2. rebalancing' \in BOOLEAN
  BY <1>1 DEF Exit
<1> QED
  BY <1>1, <1>2 DEF Exit, Leaves, Status

LEMMA LeavingKeeps ==
    ASSUME IInv, NEW w \in Worker, Leaves(w), processed' = processed,
           failure' \in [Worker -> BOOLEAN],
           \/ published' = published
           \/ \E m \in NextMessages(w) : published' = published \cup {m},
           committed' \in [Partition -> Nat],
           \A p \in Partition :
               \/ committed'[p] = committed[p]
               \/ \E v \in Worker : HeadPublished(v, p, committed'[p])
    PROVE  IInv'
<1>1. gen' \in [Worker -> GenerationState] /\ gen'[w] = NoGeneration
      /\ \A v \in Worker \ {w} : gen'[v] = gen[v]
  BY Constants DEF IInv, Types, Leaves
<1>2. Types'
  BY <1>1, PublishedNext DEF IInv, Types, Leaves, Messages
<1>3. status'[w] # "consuming"
  BY DEF Leaves
<1>4. \A v \in Worker \ {w} :
          /\ status'[v] = status[v] /\ assigned'[v] = assigned[v]
          /\ gen'[v] = gen[v] /\ processed'[v] = processed[v]
  BY <1>1 DEF Leaves
<1> QED
  BY <1>1, <1>2, <1>3, <1>4, PublishedNext, StepOfWorker

-----------------------------------------------------------------------------
(***************************************************************************)
(* The actions that end a generation.                                      *)
(***************************************************************************)
LEMMA LeavingActions ==
    ASSUME IInv, NEW w \in Worker,
           \/ RefuseGeneration(w) \/ NextFails(w) \/ HandlingFails(w) \/ ReadFails(w)
           \/ CommitFails(w) \/ EndGeneration(w) \/ Stop(w) \/ Crash(w)
    PROVE  IInv'
<1>1. failure \in [Worker -> BOOLEAN] /\ committed \in [Partition -> Nat]
  BY DEF IInv, Types
<1>2. \A p \in Partition : committed' = committed => committed'[p] = committed[p]
  OBVIOUS
<1>3. CASE RefuseGeneration(w) \/ NextFails(w)
  <2>1. Exit(w) /\ UNCHANGED <<failure, processed, committed, published>>
    BY <1>3 DEF RefuseGeneration, NextFails
  <2> QED
    BY <1>1, <2>1, ExitLeaves, LeavingKeeps
<1>4. CASE HandlingFails(w) \/ ReadFails(w)
  <2>1. /\ Rejoin(w) /\ processed' = processed /\ committed' = committed
        /\ failure' \in [Worker -> BOOLEAN]
        /\ \/ published' = published
           \/ \E m \in NextMessages(w) : published' = published \cup {m}
    BY <1>1, <1>4 DEF HandlingFails, ReadFails
  <2> QED
    BY <1>1, <2>1, RejoinLeaves, LeavingKeeps
<1>5. CASE CommitFails(w)
  <2>1. /\ Rejoin(w) /\ processed' = processed /\ published' = published
        /\ failure' \in [Worker -> BOOLEAN]
        /\ committed' = committed \/ committed' = CommitOf(Registered(w))
        /\ Handled(w)
    BY <1>1, <1>5 DEF CommitFails, FlushFails
  <2>2. /\ committed' \in [Partition -> Nat]
        /\ \A p \in Partition :
              \/ committed'[p] = committed[p]
              \/ \E v \in Worker : HeadPublished(v, p, committed'[p])
    BY <2>1, RegisteredPublished, FlushPublished
  <2> QED
    BY <2>1, <2>2, RejoinLeaves, LeavingKeeps
<1>6. CASE EndGeneration(w)
  <2>1. /\ Rejoin(w) /\ processed' = processed /\ published' = published
        /\ failure' \in [Worker -> BOOLEAN]
        /\ committed' = committed \/ committed' = CommitOf(gen[w].pending)
    BY <1>1, <1>6 DEF EndGeneration, FlushFails, FlushSucceeds
  <2>2. /\ committed' \in [Partition -> Nat]
        /\ \A p \in Partition :
              \/ committed'[p] = committed[p]
              \/ \E v \in Worker : HeadPublished(v, p, committed'[p])
    BY <2>1, PendingPublished, FlushPublished
  <2> QED
    BY <2>1, <2>2, RejoinLeaves, LeavingKeeps
<1>7. CASE Stop(w)
  <2>1. /\ Exit(w) /\ processed' = processed /\ failure' = failure
        /\ committed' = committed \/ committed' = CommitOf(gen[w].pending)
        /\ \/ published' = published
           \/ \E m \in NextMessages(w) : published' = published \cup {m}
    BY <1>7 DEF Stop, FlushFails, FlushSucceeds
  <2>2. /\ committed' \in [Partition -> Nat]
        /\ \A p \in Partition :
              \/ committed'[p] = committed[p]
              \/ \E v \in Worker : HeadPublished(v, p, committed'[p])
    BY <2>1, PendingPublished, FlushPublished
  <2> QED
    BY <1>1, <2>1, <2>2, ExitLeaves, LeavingKeeps
<1>8. CASE Crash(w)
  <2>1. Leaves(w)
    BY <1>8 DEF Crash, Leaves, IInv, Types, Status
  <2> QED
    BY <1>1, <1>8, <2>1, LeavingKeeps DEF Crash
<1> QED
  BY <1>3, <1>4, <1>5, <1>6, <1>7, <1>8

-----------------------------------------------------------------------------
(***************************************************************************)
(* The actions of the group and the broker.                                *)
(***************************************************************************)
LEMMA GroupActions ==
    ASSUME IInv, NEW w \in Worker, Join(w) \/ Expire(w)
    PROVE  IInv'
<1>1. Types'
  BY DEF IInv, Types, Join, Expire, Status, Messages, group
<1>2. /\ \A v \in Worker \ {w} : status'[v] = status[v]
      /\ UNCHANGED <<assigned, gen, processed, committed, published>>
      /\ status'[w] = "consuming" => status[w] = "consuming"
      /\ status'[w] # "consuming" => status[w] # "consuming"
  BY DEF Join, Expire, IInv, Types
<1>3. IF status'[w] = "consuming" THEN AtWork(w)' ELSE gen'[w] = NoGeneration
  <2>1. AtWork(w) => AtWork(w)'
    BY <1>2 DEF AtWork, Progress, Pending, Handling, HeadPublished, FromStart, Empty,
                LogLength
  <2> QED
    BY <1>2, <2>1 DEF IInv, Workers
<1>4. \A m \in published' :
          m.worker = w /\ status'[w] = "consuming" /\ m.partition \notin Empty
          => Covered(m)'
  BY <1>2 DEF IInv, NoContinuation, Covered
<1> QED
  BY <1>1, <1>2, <1>3, <1>4, StepOfWorker

\* The generation of a worker that is assigned partitions has not begun.
LEMMA RebalanceKeeps ==
    ASSUME IInv, Rebalance
    PROVE  IInv'
<1>1. /\ status' \in [Worker -> Status] /\ assigned' \in [Worker -> SUBSET Partition]
      /\ UNCHANGED <<failure, processed, gen, member, committed, published>>
      /\ rejoined' = {} /\ rebalancing' = FALSE
  BY DEF IInv, Types, Rebalance, Status
<1>2. Types'
  BY <1>1 DEF IInv, Types, Messages
<1>3. ASSUME NEW w \in Worker
      PROVE  /\ status'[w] = "consuming" <=> status[w] = "consuming"
             /\ status'[w] = "consuming" => assigned'[w] = assigned[w]
  BY DEF Rebalance
<1>4. Workers'
  <2> SUFFICES ASSUME NEW w \in Worker
               PROVE  IF status'[w] = "consuming" THEN AtWork(w)'
                                                  ELSE gen'[w] = NoGeneration
    BY DEF Workers, NoGeneration, Generation, None
  <2>1. IF status[w] = "consuming" THEN AtWork(w) ELSE gen[w] = NoGeneration
    BY DEF IInv, Workers
  <2>2. ASSUME status'[w] = "consuming", AtWork(w) PROVE AtWork(w)'
    BY <1>1, <1>3, <2>2
       DEF AtWork, Progress, Pending, Handling, HeadPublished, FromStart, Empty, LogLength
  <2> QED
    BY <1>1, <1>3, <2>1, <2>2
<1>5. NoContinuation'
  <2> SUFFICES ASSUME NEW m \in published', status'[m.worker] = "consuming",
                      m.partition \notin Empty
               PROVE  Covered(m)'
    BY DEF NoContinuation, Covered, Empty, LogLength
  <2>1. m \in published /\ m.worker \in Worker
    BY <1>1 DEF IInv, Types, Messages
  <2>2. status[m.worker] = "consuming" /\ assigned'[m.worker] = assigned[m.worker]
    BY <1>3, <2>1
  <2>3. Covered(m)
    BY <2>1, <2>2 DEF IInv, NoContinuation, Covered
  <2> QED
    BY <1>1, <2>2, <2>3 DEF Covered
<1>6. Traced' /\ WholeState' /\ CommittedWasPublished'
  BY <1>1 DEF IInv, Traced, WholeState, CommittedWasPublished, Empty, LogLength
<1> QED
  BY <1>2, <1>4, <1>5, <1>6 DEF IInv

-----------------------------------------------------------------------------
(***************************************************************************)
(* The actions of a worker that consumes.                                  *)
(***************************************************************************)
LEMMA StartKeeps ==
    ASSUME IInv, NEW w \in Worker, StartGeneration(w)
    PROVE  IInv'
<1> DEFINE g == Generation(committed, assigned[w] \cap Empty)
<1>1. /\ status' = [status EXCEPT ![w] = "consuming"] /\ gen' = [gen EXCEPT ![w] = g]
      /\ UNCHANGED <<failure, processed, assigned, member, rejoined, rebalancing,
                     committed, published>>
      /\ ~processed[w] /\ \A p \in assigned[w] : ~(committed[p] > 0)
  BY DEF StartGeneration, MustRefuse, group
<1>2. /\ assigned[w] \subseteq Partition /\ committed \in [Partition -> Nat]
      /\ gen \in [Worker -> GenerationState] /\ status \in [Worker -> Status]
  BY DEF IInv, Types
<1>3. /\ g \in GenerationState /\ g.ends = assigned[w] \cap Empty /\ g.first = committed
      /\ g.next = committed /\ g.pending = None /\ g.handling = {}
  BY <1>2, Constants DEF Generation, GenerationState
<1> HIDE DEF g
<1>4. /\ gen' \in [Worker -> GenerationState] /\ gen'[w] = g /\ status'[w] = "consuming"
      /\ status' \in [Worker -> Status]
      /\ \A v \in Worker \ {w} : gen'[v] = gen[v] /\ status'[v] = status[v]
  BY <1>1, <1>2, <1>3 DEF Status
<1>5. Types'
  BY <1>1, <1>4 DEF IInv, Types, Messages
<1>6. AtWork(w)'
  <2>1. ASSUME NEW p \in assigned[w] PROVE Progress(w, p)'
    <3>1. gen'[w].first[p] = 0 /\ gen'[w].next[p] = 0
      BY <1>1, <1>2, <1>3, <1>4
    <3> QED
      BY <3>1 DEF Progress, HeadPublished
  <2>2. ASSUME NEW p \in Partition PROVE Pending(w, p)'
    BY <1>3, <1>4, Constants DEF Pending
  <2> QED
    BY <1>1, <1>3, <1>4, <2>1, <2>2 DEF AtWork, Empty, LogLength
<1>7. \A m \in published : m.worker = w => m.partition \in Empty
  BY <1>1 DEF IInv, Traced
<1> QED
  BY <1>1, <1>4, <1>5, <1>6, <1>7, StepOfWorker

\* A step of a consuming worker that keeps its assignment.
LEMMA WorkKeeps ==
    ASSUME IInv, NEW w \in Worker, status[w] = "consuming",
           UNCHANGED <<status, failure, assigned, member, rejoined, rebalancing>>,
           gen' \in [Worker -> GenerationState],
           \A v \in Worker \ {w} : gen'[v] = gen[v] /\ processed'[v] = processed[v],
           processed' \in [Worker -> BOOLEAN], processed[w] => processed'[w],
           published' \subseteq Messages, published \subseteq published',
           \A m \in published' \ published :
               /\ m.worker = w /\ Whole(m)'
               /\ m.partition \notin Empty => processed'[w],
           AtWork(w)',
           \A m \in published' :
               m.worker = w /\ m.partition \notin Empty => Covered(m)',
           committed' \in [Partition -> Nat],
           \A p \in Partition :
               \/ committed'[p] = committed[p]
               \/ \E v \in Worker : HeadPublished(v, p, committed'[p])
    PROVE  IInv'
<1>1. Types'
  BY DEF IInv, Types, Messages
<1>2. status'[w] = "consuming"
  OBVIOUS
<1> QED
  BY <1>1, <1>2, StepOfWorker

LEMMA ReceiveKeeps ==
    ASSUME IInv, NEW w \in Worker, NEW p \in Partition, Receive(w, p)
    PROVE  IInv'
<1>1. /\ status[w] = "consuming" /\ gen[w].ends = {} /\ gen[w].handling = {}
      /\ p \in assigned[w] /\ gen[w].next[p] < LogLength(p)
      /\ processed' = [processed EXCEPT ![w] = TRUE]
      /\ gen' = [gen EXCEPT ![w].handling = {p}, ![w].sent = 0]
      /\ UNCHANGED <<status, failure, assigned, member, rejoined, rebalancing,
                     committed, published>>
  BY DEF Receive, Idle, Readable, group
<1>2. /\ gen \in [Worker -> GenerationState] /\ processed \in [Worker -> BOOLEAN]
      /\ committed \in [Partition -> Nat] /\ published \subseteq Messages
  BY DEF IInv, Types
<1>3. AtWork(w)
  BY <1>1 DEF IInv, Workers
<1>4. /\ gen' \in [Worker -> GenerationState]
      /\ \A v \in Worker \ {w} : gen'[v] = gen[v]
      /\ gen'[w].ends = {} /\ gen'[w].first = gen[w].first /\ gen'[w].next = gen[w].next
      /\ gen'[w].pending = gen[w].pending
      /\ gen'[w].handling = {p} /\ gen'[w].sent = 0
  BY <1>1, <1>2 DEF GenerationState
<1>5. /\ processed' \in [Worker -> BOOLEAN] /\ processed'[w]
      /\ \A v \in Worker \ {w} : processed'[v] = processed[v]
  BY <1>1, <1>2
<1>6. AtWork(w)'
  <2>1. ASSUME NEW q \in assigned[w] PROVE Progress(w, q)'
    BY <1>1, <1>3, <1>4 DEF AtWork, Progress, HeadPublished, FromStart
  <2>2. ASSUME NEW q \in Partition PROVE Pending(w, q)'
    BY <1>1, <1>3, <1>4 DEF AtWork, Pending
  <2>3. ASSUME NEW q \in gen'[w].handling PROVE Handling(w, q)'
    <3>1. q = p
      BY <1>4
    <3>2. \A j \in 1 .. gen'[w].sent : FALSE
      BY <1>4
    <3> QED
      BY <1>1, <1>4, <1>5, <3>1, <3>2 DEF Handling, LogLength
  <2> QED
    BY <1>1, <1>4, <2>1, <2>2, <2>3 DEF AtWork
<1>7. ASSUME NEW m \in published, m.worker = w, m.partition \notin Empty
      PROVE  Covered(m)'
  <2>1. Covered(m)
    BY <1>1, <1>7 DEF IInv, NoContinuation, Covered
  <2> QED
    BY <1>1, <1>4, <1>7, <2>1 DEF Covered
<1> QED
  BY <1>1, <1>2, <1>4, <1>5, <1>6, <1>7, WorkKeeps

LEMMA PublishKeeps ==
    ASSUME IInv, NEW w \in Worker, Publish(w)
    PROVE  IInv'
<1>1. PICK m \in NextMessages(w) : PublishEmptyEnd(w, m) \/ PublishPart(w, m)
  BY DEF Publish
<1>2. /\ UNCHANGED <<status, failure, processed, assigned, member, rejoined, rebalancing,
                     committed>>
      /\ published' = published \cup {m}
  BY <1>1 DEF PublishEmptyEnd, PublishPart, group
<1>3. /\ m \in Messages /\ m.worker = w /\ status[w] = "consuming"
      /\ m.partition \in gen[w].handling =>
            m = FromStart(w, m.partition, gen[w].next[m.partition], gen[w].sent + 1)
      /\ m.partition \in gen[w].ends \cap Empty \/ m.partition \in gen[w].handling
  BY NextIsWhole
<1>4. /\ gen \in [Worker -> GenerationState] /\ processed \in [Worker -> BOOLEAN]
      /\ committed \in [Partition -> Nat] /\ published \subseteq Messages
  BY DEF IInv, Types
<1>5. AtWork(w) /\ gen[w].sent \in Nat /\ gen[w].next \in [Partition -> Nat]
  BY <1>3, GenerationTypes DEF IInv, Workers
<1>6. /\ published \subseteq published' /\ published' \subseteq Messages
      /\ \A n \in published' \ published :
            /\ n.worker = w /\ Whole(n)'
            /\ n.partition \notin Empty => processed'[w]
  BY <1>2, PublishedNext
<1>7. ASSUME NEW p \in assigned[w], NEW k \in 0 .. gen[w].next[p] - 1,
             NEW j \in 1 .. Outputs[p][k + 1]
      PROVE  FromStart(w, p, k, j) \in published'
  BY <1>5, <1>6 DEF AtWork, Progress, HeadPublished
<1>8. CASE PublishEmptyEnd(w, m)
  <2>1. /\ gen' = [gen EXCEPT ![w].ends = @ \ {m.partition}]
        /\ m.partition \in gen[w].ends /\ m.partition \in Empty
    BY <1>5, <1>8 DEF PublishEmptyEnd, AtWork
  <2>2. /\ gen' \in [Worker -> GenerationState]
        /\ \A v \in Worker \ {w} : gen'[v] = gen[v]
        /\ gen'[w].ends \subseteq gen[w].ends /\ gen'[w].first = gen[w].first
        /\ gen'[w].next = gen[w].next /\ gen'[w].pending = gen[w].pending
        /\ gen'[w].handling = gen[w].handling /\ gen'[w].sent = gen[w].sent
    BY <1>4, <2>1 DEF GenerationState
  <2>3. AtWork(w)'
    <3>1. ASSUME NEW q \in assigned[w] PROVE Progress(w, q)'
      BY <1>5, <1>7, <2>2 DEF AtWork, Progress, HeadPublished
    <3>2. ASSUME NEW q \in Partition PROVE Pending(w, q)'
      BY <1>2, <1>5, <2>2 DEF AtWork, Pending
    <3>3. ASSUME NEW q \in gen'[w].handling PROVE Handling(w, q)'
      BY <1>2, <1>5, <2>2 DEF AtWork, Handling, LogLength, FromStart
    <3> QED
      BY <1>2, <1>5, <2>2, <3>1, <3>2, <3>3 DEF AtWork, Empty, LogLength
  <2>4. ASSUME NEW n \in published', n.worker = w, n.partition \notin Empty
        PROVE  Covered(n)'
    <3>1. n \in published
      BY <1>2, <2>1, <2>4
    <3>2. Covered(n)
      BY <1>3, <2>4, <3>1 DEF IInv, NoContinuation, Covered
    <3> QED
      BY <1>2, <2>2, <2>4, <3>2 DEF Covered
  <2> QED
    BY <1>2, <1>3, <1>4, <1>6, <2>2, <2>3, <2>4, WorkKeeps
<1>9. CASE PublishPart(w, m)
  <2> DEFINE p == m.partition
  <2>1. gen' = [gen EXCEPT ![w].sent = @ + 1] /\ p \in gen[w].handling
    BY <1>9 DEF PublishPart
  <2>2. /\ gen' \in [Worker -> GenerationState]
        /\ \A v \in Worker \ {w} : gen'[v] = gen[v]
        /\ gen'[w].ends = gen[w].ends /\ gen'[w].first = gen[w].first
        /\ gen'[w].next = gen[w].next /\ gen'[w].pending = gen[w].pending
        /\ gen'[w].handling = gen[w].handling /\ gen'[w].sent = gen[w].sent + 1
    <3>1. gen'[w] = [gen[w] EXCEPT !.sent = gen[w].sent + 1]
      BY <1>4, <2>1
    <3>2. gen[w].sent + 1 \in Nat
      BY <1>5
    <3>3. gen'[w] \in GenerationState /\ gen' \in [Worker -> GenerationState]
      <4>1. gen[w] \in GenerationState
        BY <1>4
      <4>2. [gen[w] EXCEPT !.sent = gen[w].sent + 1] \in GenerationState
        BY <3>2, <4>1 DEF GenerationState
      <4> QED
        BY <1>4, <2>1, <3>1, <4>2
    <3> QED
      BY <1>4, <2>1, <3>1, <3>3 DEF GenerationState
  <2>3. Handling(w, p) /\ m = FromStart(w, p, gen[w].next[p], gen[w].sent + 1)
    BY <1>3, <1>5, <2>1 DEF AtWork
  <2>4. AtWork(w)'
    <3>1. ASSUME NEW q \in assigned[w] PROVE Progress(w, q)'
      BY <1>5, <1>7, <2>2 DEF AtWork, Progress, HeadPublished
    <3>2. ASSUME NEW q \in Partition PROVE Pending(w, q)'
      BY <1>2, <1>5, <2>2 DEF AtWork, Pending
    <3>3. ASSUME NEW q \in gen'[w].handling PROVE Handling(w, q)'
      <4>1. q = p /\ q \in assigned[w] /\ processed[w] /\ gen[w].next[p] < LogLength(p)
        BY <2>2, <2>3 DEF Handling
      <4>2. \A r \in gen[w].handling : r = q
        BY <2>3, <4>1 DEF Handling
      <4>3. ASSUME NEW j \in 1 .. gen[w].sent + 1
            PROVE  FromStart(w, p, gen[w].next[p], j) \in published'
        <5>1. j = gen[w].sent + 1 \/ j \in 1 .. gen[w].sent
          BY <1>5
        <5> QED
          BY <1>2, <2>3, <5>1 DEF Handling
      <4> QED
        BY <1>2, <2>2, <4>1, <4>2, <4>3 DEF Handling, LogLength, FromStart
    <3> QED
      BY <1>2, <1>5, <2>2, <3>1, <3>2, <3>3 DEF AtWork, Empty, LogLength
  <2>5. ASSUME NEW n \in published', n.worker = w, n.partition \notin Empty
        PROVE  Covered(n)'
    <3>1. CASE n \in published
      <4>1. Covered(n)
        BY <1>3, <2>5, <3>1 DEF IInv, NoContinuation, Covered
      <4>2. n.part \in Nat
        BY <1>4, <3>1 DEF Messages
      <4> QED
        BY <1>2, <1>5, <2>2, <2>5, <4>1, <4>2 DEF Covered
    <3>2. CASE n = m
      <4>1. /\ m.offset = gen[w].next[p] /\ m.part = gen[w].sent + 1
            /\ p \in assigned[w]
        BY <2>3 DEF FromStart, Handling
      <4> QED
        BY <1>2, <1>3, <1>5, <2>1, <2>2, <3>2, <4>1 DEF Covered
    <3> QED
      BY <1>2, <3>1, <3>2
  <2> QED
    BY <1>2, <1>3, <1>4, <1>6, <2>2, <2>4, <2>5, WorkKeeps
<1> QED
  BY <1>1, <1>8, <1>9

\* The record is done: its offset is registered, or committed.
LEMMA RegisterKeeps ==
    ASSUME IInv, NEW w \in Worker, Register(w) \/ Commit(w)
    PROVE  IInv'
<1>1. /\ Handled(w)
      /\ UNCHANGED <<status, failure, processed, assigned, member, rejoined, rebalancing,
                     published>>
      /\ committed' = committed \/ committed' = CommitOf(Registered(w))
  BY DEF Register, Commit, FlushSucceeds, group
<1>2. /\ status[w] = "consuming" /\ AtWork(w) /\ gen[w].ends = {}
      /\ \A p \in gen[w].handling :
            /\ p \in assigned[w] /\ gen[w].first[p] = 0
            /\ HeadPublished(w, p, gen[w].next[p] + 1)
            /\ \A q \in gen[w].handling : q = p
  BY <1>1, HandledPublished
<1>3. /\ gen \in [Worker -> GenerationState] /\ processed \in [Worker -> BOOLEAN]
      /\ published \subseteq Messages /\ assigned[w] \subseteq Partition
  BY DEF IInv, Types
<1>4. /\ gen[w] \in GenerationState /\ gen[w].next \in [Partition -> Nat]
      /\ gen[w].count \in Nat /\ gen[w].handling \subseteq Partition
  BY GenerationTypes DEF IInv
<1>5. Following(w) \in [Partition -> Nat] /\ Registered(w) \in [Partition -> Nat]
  BY <1>1, <1>4, RegisteredPublished DEF Following
<1>6. /\ gen' \in [Worker -> GenerationState]
      /\ \A v \in Worker \ {w} : gen'[v] = gen[v]
      /\ gen'[w].ends = {} /\ gen'[w].first = gen[w].first
      /\ gen'[w].next = Following(w)
      /\ gen'[w].pending \in {None, Registered(w)} /\ gen'[w].handling = {}
  <2>1. CASE Register(w)
    <3>1. gen[w].count + 1 \in Nat
      BY <1>4
    <3>2. gen' = [gen EXCEPT ![w].next = Following(w), ![w].pending = Registered(w),
                             ![w].count = gen[w].count + 1, ![w].handling = {},
                             ![w].sent = 0]
      BY <1>3, <2>1 DEF Register
    <3> QED
      BY <1>2, <1>3, <1>5, <3>1, <3>2 DEF GenerationState
  <2>2. CASE Commit(w)
    <3>1. PICK c \in Nat : c = 0
      OBVIOUS
    <3>2. gen' = [gen EXCEPT ![w].next = Following(w), ![w].pending = None,
                             ![w].count = c, ![w].handling = {}, ![w].sent = 0]
      BY <2>2, <3>1 DEF Commit
    <3>3. None \in [Partition -> Nat]
      BY Constants
    <3>4. gen' \in [Worker -> GenerationState]
      <4>1. [gen[w] EXCEPT !.next = Following(w), !.pending = None, !.count = c,
                           !.handling = {}, !.sent = 0] \in GenerationState
        BY <1>4, <1>5, <3>3 DEF GenerationState
      <4> DEFINE g == [gen[w] EXCEPT !.next = Following(w), !.pending = None,
                                     !.count = c, !.handling = {}, !.sent = 0]
      <4>2. gen' = [gen EXCEPT ![w] = g]
        BY <1>3, <3>2 DEF GenerationState
      <4>3. g \in GenerationState
        BY <4>1
      <4> HIDE DEF g
      <4> QED
        BY <1>3, <4>2, <4>3
    <3>5. /\ \A v \in Worker \ {w} : gen'[v] = gen[v]
          /\ gen'[w].ends = gen[w].ends /\ gen'[w].first = gen[w].first
          /\ gen'[w].next = Following(w)
          /\ gen'[w].pending = None /\ gen'[w].handling = {}
      BY <1>3, <3>2 DEF GenerationState
    <3> QED
      BY <1>2, <3>4, <3>5
  <2> QED
    BY <2>1, <2>2
<1>7. ASSUME NEW p \in Partition
      PROVE  /\ gen'[w].next[p] \in {gen[w].next[p], gen[w].next[p] + 1}
             /\ p \in gen[w].handling => gen'[w].next[p] = gen[w].next[p] + 1
             /\ p \notin gen[w].handling => gen'[w].next[p] = gen[w].next[p]
             /\ gen[w].next[p] \in Nat
  BY <1>4, <1>6 DEF Following
<1>8. AtWork(w)'
  <2>1. ASSUME NEW p \in assigned[w] PROVE Progress(w, p)'
    <3>1. HeadPublished(w, p, gen'[w].next[p]) /\ gen[w].first[p] = 0
      BY <1>2, <1>3, <1>7 DEF AtWork, Progress
    <3> QED
      BY <1>1, <1>6, <3>1 DEF Progress, HeadPublished, FromStart
  <2>2. ASSUME NEW p \in Partition, gen'[w].pending[p] # 0
        PROVE  p \in assigned[w] /\ gen'[w].pending[p] <= gen'[w].next[p]
    <3>1. gen'[w].pending = Registered(w)
      BY <1>6, <2>2, Constants
    <3>2. CASE p \in gen[w].handling
      BY <1>2, <1>7, <3>1, <3>2 DEF Registered
    <3>3. CASE p \notin gen[w].handling
      <4>1. gen'[w].pending[p] = gen[w].pending[p]
        BY <3>1, <3>3 DEF Registered
      <4> QED
        BY <1>2, <1>7, <2>2, <3>3, <4>1 DEF AtWork, Pending
    <3> QED
      BY <3>2, <3>3
  <2>3. \A p \in Partition : Pending(w, p)'
    BY <1>1, <2>2 DEF Pending
  <2> QED
    BY <1>1, <1>6, <2>1, <2>3 DEF AtWork
<1>9. ASSUME NEW m \in published, m.worker = w, m.partition \notin Empty
      PROVE  Covered(m)'
  <2>1. Covered(m) /\ m.partition \in Partition /\ m.offset \in Nat
    BY <1>2, <1>3, <1>9 DEF IInv, NoContinuation, Covered, Messages
  <2>2. m.offset < gen'[w].next[m.partition]
    BY <1>7, <1>9, <2>1 DEF Covered
  <2> QED
    BY <1>1, <1>9, <2>1, <2>2 DEF Covered
<1>10. /\ committed' \in [Partition -> Nat]
       /\ \A p \in Partition :
             \/ committed'[p] = committed[p]
             \/ \E v \in Worker : HeadPublished(v, p, committed'[p])
  BY <1>1, RegisteredPublished, FlushPublished
<1> QED
  BY <1>1, <1>2, <1>3, <1>6, <1>8, <1>9, <1>10, WorkKeeps

-----------------------------------------------------------------------------
LEMMA InitialState == Init => IInv
<1> SUFFICES ASSUME Init PROVE IInv
  OBVIOUS
<1>1. Types
  BY Constants DEF Init, Types, Status
<1>2. Workers
  BY DEF Init, Workers
<1>3. \A p \in Partition : \A k \in 0 .. committed[p] - 1 : FALSE
  BY Constants DEF Init
<1> QED
  BY <1>1, <1>2, <1>3
     DEF Init, IInv, Traced, WholeState, CommittedWasPublished, NoContinuation

LEMMA Inductive == IInv /\ [Next]_vars => IInv'
<1> SUFFICES ASSUME IInv, [Next]_vars PROVE IInv'
  OBVIOUS
<1>1. ASSUME NEW w \in Worker,
             \/ Join(w) \/ StartGeneration(w) \/ RefuseGeneration(w) \/ NextFails(w)
             \/ Handle(w) \/ EndGeneration(w) \/ Stop(w) \/ Crash(w) \/ Expire(w)
      PROVE  IInv'
  <2>1. CASE Handle(w)
    BY <2>1, ReceiveKeeps, PublishKeeps, RegisterKeeps, LeavingActions DEF Handle
  <2> QED
    BY <1>1, <2>1, StartKeeps, GroupActions, LeavingActions
<1>2. CASE Rebalance
  BY <1>2, RebalanceKeeps
<1>3. CASE UNCHANGED vars
  <2>1. Types' /\ Traced' /\ WholeState' /\ CommittedWasPublished' /\ NoContinuation'
    BY <1>3 DEF IInv, vars, Types, Traced, WholeState, CommittedWasPublished,
                NoContinuation, Messages, Empty, LogLength
  <2>2. Workers'
    BY <1>3 DEF IInv, vars, Workers, AtWork, Progress, Pending, Handling, HeadPublished,
                FromStart, Empty, LogLength, NoGeneration, Generation, None
  <2> QED
    BY <2>1, <2>2 DEF IInv
<1> QED
  BY <1>1, <1>2, <1>3 DEF Next, Terminated

LEMMA Invariance == Spec => []IInv
BY InitialState, Inductive, PTL DEF Spec

-----------------------------------------------------------------------------
(***************************************************************************)
(* No worker reduces the tail of a partition whose head another one        *)
(* reduced, nor goes on after it published a flush in part, whoever        *)
(* crashes, is stopped or loses its session.                               *)
(***************************************************************************)
THEOREM StateIsWhole == Spec => []WholeState
<1>1. IInv => WholeState
  BY DEF IInv
<1> QED
  BY <1>1, Invariance, PTL

(***************************************************************************)
(* At least once: a committed offset is past records that one worker       *)
(* published whole, although commits are batched and may fail.             *)
(***************************************************************************)
THEOREM PublishedBeforeCommitted == Spec => []CommittedWasPublished
<1>1. IInv => CommittedWasPublished
  BY DEF IInv
<1> QED
  BY <1>1, Invariance, PTL

(***************************************************************************)
(* A worker does not carry what it handled in one generation into another. *)
(***************************************************************************)
THEOREM GenerationsAreSeparate == Spec => []NoContinuation
<1>1. IInv => NoContinuation
  BY DEF IInv
<1> QED
  BY <1>1, Invariance, PTL
=============================================================================
