------------------------- MODULE GlobalConsumerProofs -------------------------
(***************************************************************************)
(* Theorems about GlobalConsumer, for every set of partitions, window      *)
(* size, skew, second owner and number of restarts: the Global Aggregator  *)
(* rejects only what a second owner wrote, loses a partial only to skew,   *)
(* and accounts for each one.                                              *)
(***************************************************************************)
EXTENDS GlobalConsumer, GlobalAggregatorProofs

\* The partials of p in the log.
InLog(p) == {written[p][k] : k \in DOMAIN written[p]}

Logged(i) == i.partition \in Partition /\ i \in InLog(i.partition)

\* The partials of the record that is not committed, and those that are in
\* a row or in an open window.
Pending == UNION {r.partial : r \in uncommitted}
Counted == Contributions(rows) \cup windows

-----------------------------------------------------------------------------
(***************************************************************************)
(* The inductive invariant, beyond that of the aggregator.                 *)
(***************************************************************************)
\* A partial of p is an aligned window.
Proper(p, i) ==
    /\ i.partition = p /\ WellFormed(i)
    /\ i.end = i.start + WindowSize /\ i.start % WindowSize = 0

\* What the owners of p write first: aligned windows, one after the other,
\* each past the progress certified before it.
Stream(p) ==
    /\ written[p] \in Seq(Input)
    /\ \A k \in 1 .. Len(written[p]) : Proper(p, written[p][k])
    /\ \A j, k \in 1 .. Len(written[p]) :
          j < k => /\ written[p][j].through < written[p][k].end
                   /\ written[p][j].end <= written[p][k].start

\* The aggregator's view of p is some partial of p: the last one written, or
\* after a restart the last one this process has seen, perhaps an old copy.
Tracked(p) ==
    \/ last[p] = {} /\ through[p] = 0
    \/ \E l \in InLog(p) : last[p] = {l} /\ through[p] = l.through

\* A window holds what was written, up to the progress of its partition.
Held == \A i \in accepted : Logged(i) /\ i.through <= through[i.partition]

RowShape == \A r \in rows : r.start \in Nat /\ r.end = r.start + WindowSize

\* At most one record is not committed; a process finds one only when it
\* starts, and commits it only when it is accounted for.
Uncommitted ==
    /\ \/ uncommitted = {}
       \/ \E i \in Input : uncommitted = {PartialRecord(i)} /\ Logged(i)
       \/ \E p \in Partition : uncommitted = {EndRecord(p)}
    /\ phase = "fetch" /\ uncommitted # {} => Init
    /\ phase = "commit" => Pending \subseteq Counted \cup dropped \cup uncounted

\* The table of the first process is its own, and what it dropped lies behind
\* the progress of its partition.
FirstProcess ==
    restarts = 0 => /\ rows = sunk
                    /\ \A i \in dropped : /\ i.partition \in Partition
                                          /\ i.through <= through[i.partition]

ConsumerIInv ==
    /\ IInv
    /\ written \in [Partition -> Seq(Input)]
    /\ copied \in [Partition -> Nat] /\ restarts \in Nat /\ ended \subseteq closed
    /\ \A p \in Partition : Stream(p) /\ Tracked(p)
    /\ Held /\ RowShape /\ Uncommitted /\ FirstProcess
    /\ NeverRejects /\ BoundedLoss /\ EveryPartialAccounted

-----------------------------------------------------------------------------
(***************************************************************************)
(* What the owners of a partition write.                                   *)
(***************************************************************************)
LEMMA Quotient ==
    ASSUME NEW w \in Nat \ {0}, NEW s \in Nat, s % w = 0
    PROVE  s \div w \in Int /\ s = w * (s \div w)
OBVIOUS

LEMMA AlignedApart ==
    ASSUME NEW w \in Nat \ {0}, NEW s \in Nat, NEW t \in Nat,
           s % w = 0, t % w = 0, s < t
    PROVE  s + w <= t
<1> DEFINE p == s \div w
           q == t \div w
<1>1. p \in Int /\ q \in Int /\ s = w * p /\ t = w * q
  BY Quotient
<1> HIDE DEF p, q
<1>2. w * p \in Int /\ w * q \in Int
  BY <1>1
<1>3. p < q
  <2>1. SUFFICES ASSUME q <= p PROVE FALSE
    BY <1>1
  <2>2. w * (p - q) >= 0
    BY <1>1, <2>1
  <2> QED
    BY <1>1, <1>2, <2>2
<1>4. w * (q - p - 1) >= 0
  BY <1>1, <1>3
<1> QED
  BY <1>1, <1>2, <1>4

\* The partials of p in the log, one by one and in pairs.
LEMMA StreamFacts ==
    ASSUME NEW p \in Partition, Stream(p)
    PROVE  /\ \A i \in InLog(p) :
                 /\ i \in Input /\ i.partition = p /\ Logged(i)
                 /\ WellFormed(i) /\ i.end = i.start + WindowSize
                 /\ i.start % WindowSize = 0
                 /\ i.start \in Nat /\ i.end \in Nat /\ i.through \in Nat
                 /\ 0 < i.start /\ i.start < i.end /\ i.end <= i.through
                 /\ i.through <= Certified(p)
           /\ \A i, j \in InLog(p) :
                 \/ i = j
                 \/ i.through < j.end /\ i.end <= j.start
                 \/ j.through < i.end /\ j.end <= i.start
           /\ Certified(p) \in Nat
           /\ written[p] # <<>> => LastWritten(p) \in InLog(p)
<1> DEFINE s == written[p]
<1>1. s \in Seq(Input) /\ Len(s) \in Nat /\ DOMAIN s = 1 .. Len(s)
  BY DEF Stream
<1>2. ASSUME NEW k \in 1 .. Len(s)
      PROVE  /\ s[k] \in Input /\ s[k].partition = p
             /\ WellFormed(s[k]) /\ s[k].end = s[k].start + WindowSize
             /\ s[k].start % WindowSize = 0
             /\ s[k].start \in Nat /\ s[k].end \in Nat /\ s[k].through \in Nat
             /\ 0 < s[k].start /\ s[k].start < s[k].end /\ s[k].end <= s[k].through
  <2>1. s[k] \in Input
    BY <1>1
  <2>2. /\ s[k].partition = p /\ WellFormed(s[k])
        /\ s[k].end = s[k].start + WindowSize /\ s[k].start % WindowSize = 0
    BY DEF Stream, Proper
  <2> QED
    BY <2>1, <2>2, ConstantsAssumption DEF WellFormed
<1>3. InLog(p) = {s[k] : k \in 1 .. Len(s)}
  BY <1>1 DEF InLog
<1>4. \A j, k \in 1 .. Len(s) : j < k => /\ s[j].through < s[k].end
                                         /\ s[j].end <= s[k].start
  BY DEF Stream
<1>5. \A i, j \in InLog(p) :
         \/ i = j
         \/ i.through < j.end /\ i.end <= j.start
         \/ j.through < i.end /\ j.end <= i.start
  <2>1. ASSUME NEW j \in 1 .. Len(s), NEW k \in 1 .. Len(s)
        PROVE  \/ s[j] = s[k]
               \/ s[j].through < s[k].end /\ s[j].end <= s[k].start
               \/ s[k].through < s[j].end /\ s[k].end <= s[j].start
    <3>1. j = k \/ j < k \/ k < j
      OBVIOUS
    <3> QED
      BY <1>4, <3>1
  <2> HIDE DEF s
  <2> QED
    BY <1>3, <2>1
<1>6. \A i \in InLog(p) : Logged(i)
  BY <1>2, <1>3 DEF Logged
<1>7. CASE s = <<>>
  <2>1. Len(s) = 0 /\ Certified(p) = 0
    BY <1>7 DEF Certified
  <2>2. InLog(p) = {}
    BY <1>3, <2>1
  <2> QED
    BY <1>7, <2>1, <2>2
<1>8. CASE s # <<>>
  <2>1. Len(s) \in 1 .. Len(s)
    BY <1>1, <1>8
  <2>2. LastWritten(p) = s[Len(s)] /\ Certified(p) = s[Len(s)].through
    BY <1>8 DEF LastWritten, Certified
  <2>3. ASSUME NEW k \in 1 .. Len(s) PROVE s[k].through <= s[Len(s)].through
    <3>1. k = Len(s) \/ k < Len(s)
      BY <1>1
    <3>2. CASE k = Len(s)
      BY <1>2, <3>2
    <3>3. CASE k < Len(s)
      <4>1. s[k].through < s[Len(s)].end
        BY <1>4, <2>1, <3>3
      <4> QED
        BY <1>2, <2>1, <4>1
    <3> QED
      BY <3>1, <3>2, <3>3
  <2> HIDE DEF s
  <2> QED
    BY <1>2, <1>3, <1>5, <1>6, <2>1, <2>2, <2>3
<1> QED
  BY <1>7, <1>8

LEMMA StreamIs ==
    ASSUME NEW p, NEW t \in Seq(Input), written'[p] = t,
           \A k \in 1 .. Len(t) : Proper(p, t[k]),
           \A j, k \in 1 .. Len(t) :
              j < k => t[j].through < t[k].end /\ t[j].end <= t[k].start
    PROVE  Stream(p)'
<1>1. Stream(p)' = (/\ written'[p] \in Seq(Input)
                    /\ \A k \in 1 .. Len(written'[p]) : Proper(p, written'[p][k])
                    /\ \A j, k \in 1 .. Len(written'[p]) :
                          j < k => /\ written'[p][j].through < written'[p][k].end
                                   /\ written'[p][j].end <= written'[p][k].start)
  BY Zenon DEF Stream, Proper, WellFormed
<1> QED
  BY <1>1

\* The stream after one more partial.
LEMMA StreamGrows ==
    ASSUME written \in [Partition -> Seq(Input)],
           NEW p \in Partition, NEW i \in Input, i.partition = p,
           Stream(p), Follows(i),
           written' = [written EXCEPT ![p] = Append(@, i)]
    PROVE  /\ written' \in [Partition -> Seq(Input)]
           /\ Stream(p)'
           /\ InLog(p)' = InLog(p) \cup {i}
           /\ Certified(p) <= Certified(p)'
           /\ \A q \in Partition : q # p => written'[q] = written[q]
<1> DEFINE s == written[p]
           t == Append(s, i)
<1>1. s \in Seq(Input) /\ Len(s) \in Nat /\ DOMAIN s = 1 .. Len(s)
  BY DEF Stream
<1>2. /\ t \in Seq(Input) /\ Len(t) = Len(s) + 1 /\ t # <<>>
      /\ t[Len(s) + 1] = i /\ \A k \in 1 .. Len(s) : t[k] = s[k]
      /\ DOMAIN t = 1 .. Len(t)
  BY <1>1
<1>3. /\ written' \in [Partition -> Seq(Input)] /\ written'[p] = t
      /\ \A q \in Partition : q # p => written'[q] = written[q]
  BY <1>2
<1>4. /\ WellFormed(i) /\ i.end = i.start + WindowSize /\ i.start % WindowSize = 0
      /\ i.end > Certified(p) /\ Certified(p) \in Nat
      /\ i.start \in Nat /\ i.end \in Nat /\ i.through \in Nat /\ i.end <= i.through
  BY StreamFacts, ConstantsAssumption DEF Follows, WellFormed
<1>5. ASSUME NEW k \in 1 .. Len(s)
      PROVE  s[k].through < i.end /\ s[k].end <= i.start
  <2>1. s[k] \in InLog(p)
    BY <1>1 DEF InLog
  <2>2. /\ s[k].through <= Certified(p) /\ s[k].through \in Nat
        /\ s[k].end <= s[k].through /\ s[k].end \in Nat /\ s[k].start \in Nat
        /\ s[k].end = s[k].start + WindowSize /\ s[k].start % WindowSize = 0
    BY <2>1, StreamFacts
  <2> HIDE DEF s
  <2>3. s[k].through < i.end /\ s[k].start < i.start
    BY <1>4, <2>2, IngestAssumption
  <2> QED
    BY <1>4, <2>2, <2>3, AlignedApart, IngestAssumption
<1>6. Certified(p)' = i.through
  BY <1>2, <1>3 DEF Certified, LastWritten
<1>7. Proper(p, i) /\ \A k \in 1 .. Len(s) : Proper(p, s[k])
  BY <1>4 DEF Stream, Proper
<1>8. \A j, k \in 1 .. Len(s) : j < k => /\ s[j].through < s[k].end
                                         /\ s[j].end <= s[k].start
  BY DEF Stream
<1>9. InLog(p) = {s[k] : k \in 1 .. Len(s)}
  BY <1>1 DEF InLog
<1> HIDE DEF s, t
<1>11. \A k \in 1 .. Len(t) : \/ k \in 1 .. Len(s) /\ t[k] = s[k]
                              \/ k = Len(s) + 1 /\ t[k] = i
  BY <1>1, <1>2
<1>12. InLog(p)' = InLog(p) \cup {i}
  <2>1. InLog(p)' = {t[k] : k \in 1 .. Len(t)}
    <3>1. InLog(p)' = {written'[p][k] : k \in DOMAIN written'[p]}
      BY DEF InLog
    <3>2. written'[p] = t /\ DOMAIN t = 1 .. Len(t)
      BY <1>2, <1>3
    <3> QED
      BY <3>1, <3>2
  <2>2. \A x \in InLog(p)' : x \in InLog(p) \cup {i}
    BY <1>9, <1>11, <2>1
  <2>3. \A k \in 1 .. Len(s) : k \in 1 .. Len(t)
    BY <1>1, <1>2
  <2>4. Len(s) + 1 \in 1 .. Len(t)
    BY <1>1, <1>2
  <2> QED
    BY <1>2, <1>9, <2>1, <2>2, <2>3, <2>4
<1>13. Stream(p)'
  <2>1. \A k \in 1 .. Len(t) : Proper(p, t[k])
    BY <1>7, <1>11
  <2>2. ASSUME NEW j \in 1 .. Len(t), NEW k \in 1 .. Len(t), j < k
        PROVE  t[j].through < t[k].end /\ t[j].end <= t[k].start
    <3>1. j \in 1 .. Len(s) /\ t[j] = s[j]
      BY <1>1, <1>2, <1>11, <2>2
    <3>2. CASE k \in 1 .. Len(s) /\ t[k] = s[k]
      BY <1>8, <2>2, <3>1, <3>2
    <3>3. CASE t[k] = i
      BY <1>5, <3>1, <3>3
    <3> QED
      BY <1>11, <3>2, <3>3
  <2>3. written'[p] = t /\ t \in Seq(Input)
    BY <1>2, <1>3
  <2>4. \A j, k \in 1 .. Len(t) : j < k => /\ t[j].through < t[k].end
                                          /\ t[j].end <= t[k].start
    BY <2>2
  <2> QED
    BY <2>1, <2>3, <2>4, StreamIs
<1> QED
  BY <1>3, <1>4, <1>6, <1>12, <1>13

-----------------------------------------------------------------------------
(***************************************************************************)
(* What the aggregator makes of a partial.                                 *)
(***************************************************************************)
\* i stands in the log of its partition, or may be written to it.
Candidate(i) ==
    /\ i.partition \in Partition /\ Proper(i.partition, i)
    /\ \A l \in InLog(i.partition) :
          \/ i = l
          \/ l.through < i.end /\ l.end <= i.start
          \/ i.through < l.end /\ i.end <= l.start

LEMMA PartialTypes ==
    ASSUME NEW i \in Input, NEW p, Proper(p, i)
    PROVE  /\ i.start \in Nat /\ i.end \in Nat /\ i.through \in Nat
           /\ 0 < i.start /\ i.start < i.end /\ i.end <= i.through /\ 0 < i.end
BY ConstantsAssumption DEF Proper, WellFormed

LEMMA StateFacts ==
    ASSUME ConsumerIInv
    PROVE  /\ through \in [Partition -> Nat] /\ last \in [Partition -> SUBSET Input]
           /\ windows \subseteq Input /\ completeThrough \in Nat
           /\ ended \subseteq Partition /\ accepted \subseteq Input
           /\ windows \subseteq accepted
           /\ \A p \in Partition : Stream(p) /\ Tracked(p)
BY DEF ConsumerIInv, IInv, TypeOK, CountedOnce

LEMMA LoggedFacts ==
    ASSUME ConsumerIInv, NEW i, Logged(i)
    PROVE  i \in Input /\ Candidate(i)
<1>1. /\ i.partition \in Partition /\ i \in InLog(i.partition)
      /\ Stream(i.partition)
  BY StateFacts DEF Logged
<1>2. /\ i \in Input /\ Proper(i.partition, i)
  BY <1>1, StreamFacts DEF Proper
<1>3. \A l \in InLog(i.partition) :
         \/ i = l
         \/ l.through < i.end /\ l.end <= i.start
         \/ i.through < l.end /\ i.end <= l.start
  BY <1>1, StreamFacts
<1> QED
  BY <1>1, <1>2, <1>3 DEF Candidate

LEMMA FollowsFacts ==
    ASSUME ConsumerIInv, NEW i \in Input, i.partition \in Partition, Follows(i)
    PROVE  /\ Candidate(i) /\ i \notin InLog(i.partition)
           /\ \A l \in InLog(i.partition) : l.through < i.end /\ l.end <= i.start
<1>1. Proper(i.partition, i) /\ i.end > Certified(i.partition)
  BY DEF Follows, Proper
<1>2. Stream(i.partition)
  BY StateFacts
<1>3. ASSUME NEW l \in InLog(i.partition)
      PROVE  l.through < i.end /\ l.end <= i.start /\ l # i
  <2>1. /\ l.through <= Certified(i.partition) /\ Certified(i.partition) \in Nat
        /\ l.start \in Nat /\ l.end \in Nat /\ l.through \in Nat
        /\ l.end = l.start + WindowSize /\ l.start % WindowSize = 0
        /\ l.end <= l.through
    BY <1>2, StreamFacts
  <2>2. /\ i.start \in Nat /\ i.end \in Nat /\ i.through \in Nat /\ i.end <= i.through
        /\ i.end = i.start + WindowSize /\ i.start % WindowSize = 0
    BY <1>1, PartialTypes DEF Proper
  <2>3. l.through < i.end /\ l.start < i.start
    BY <1>1, <2>1, <2>2, IngestAssumption
  <2>4. l.end <= i.start
    BY <2>1, <2>2, <2>3, AlignedApart, IngestAssumption
  <2> QED
    BY <2>1, <2>2, <2>3, <2>4
<1> QED
  BY <1>1, <1>3 DEF Candidate

\* An open window holds aligned partials of the log.
LEMMA OpenLogged ==
    ASSUME ConsumerIInv, NEW j \in windows
    PROVE  /\ Logged(j) /\ j \in Input /\ Proper(j.partition, j)
           /\ j.through <= through[j.partition]
<1>1. Logged(j) /\ j.through <= through[j.partition]
  BY StateFacts DEF ConsumerIInv, Held
<1> QED
  BY <1>1, LoggedFacts DEF Candidate

(***************************************************************************)
(* A partial later than everything else written by its partition is not    *)
(* refused, whatever part of the log this process has seen.                *)
(***************************************************************************)
LEMMA Acceptable ==
    ASSUME ConsumerIInv, NEW i \in Input, Candidate(i), i.partition \notin ended,
           \A l \in InLog(i.partition) :
              i = l \/ (l.through < i.end /\ l.end <= i.start)
    PROVE  ~AddRejected(i)
<1> DEFINE p == i.partition
<1>1. /\ p \in Partition /\ Proper(p, i)
      /\ i.start \in Nat /\ i.end \in Nat /\ i.through \in Nat
      /\ i.start < i.end /\ i.end <= i.through /\ 0 < i.end
      /\ i.end = i.start + WindowSize /\ i.start % WindowSize = 0
  BY PartialTypes DEF Candidate, Proper
<1>2. Admissible(i) /\ Open(i)
  BY <1>1 DEF Admissible, Open, Proper
<1>3. Tracked(p) /\ through[p] \in Nat /\ Stream(p)
  BY <1>1, StateFacts
<1>4. last[p] \subseteq InLog(p)
  BY <1>3 DEF Tracked
<1>5. Known(i) \subseteq {i}
  <2>1. SUFFICES ASSUME NEW j \in windows \cup last[p], SameID(i, j) PROVE j = i
    BY DEF Known
  <2>2. j \in InLog(p)
    BY <1>4, <2>1, OpenLogged DEF SameID, Logged
  <2>3. j.start = i.start
    BY <2>1 DEF SameID, Key
  <2>4. j.start \in Nat /\ j.end \in Nat /\ j.start < j.end
    BY <1>1, <1>3, <2>2, StreamFacts
  <2> QED
    BY <1>1, <2>2, <2>3, <2>4
<1>6. CASE Known(i) = {i}
  BY <1>2, <1>6 DEF AddRejected
<1>7. CASE Known(i) = {}
  <2>1. i \notin last[p]
    BY <1>7 DEF Known, SameID
  <2>2. through[p] < i.end /\ ~BeforeLast(i)
    <3>1. CASE last[p] = {} /\ through[p] = 0
      BY <1>1, <3>1 DEF BeforeLast
    <3>2. ASSUME NEW l \in InLog(p), last[p] = {l}, through[p] = l.through
          PROVE  through[p] < i.end /\ ~BeforeLast(i)
      <4>1. l.through < i.end /\ l.end <= i.start /\ l.end \in Nat
        BY <1>1, <1>3, <2>1, <3>2, StreamFacts
      <4> QED
        BY <1>1, <3>2, <4>1 DEF BeforeLast
    <3> QED
      BY <1>3, <3>1, <3>2 DEF Tracked
  <2>3. i.through >= through[p] /\ i.end > through[p]
    BY <1>1, <1>3, <2>2
  <2>4. ~Overlaps(i)
    <3>1. SUFFICES ASSUME NEW j \in windows, Key(j) # Key(i),
                          i.start < j.end, j.start < i.end
                   PROVE  FALSE
      BY DEF Overlaps
    <3>2. /\ j.start \in Nat /\ j.end \in Nat
          /\ j.end = j.start + WindowSize /\ j.start % WindowSize = 0
      BY OpenLogged, PartialTypes DEF Proper
    <3>3. j.start # i.start
      BY <1>1, <3>1, <3>2 DEF Key
    <3>4. i.start < j.start => i.start + WindowSize <= j.start
      BY <1>1, <3>2, AlignedApart, IngestAssumption
    <3>5. j.start < i.start => j.start + WindowSize <= i.start
      BY <1>1, <3>2, AlignedApart, IngestAssumption
    <3> QED
      BY <1>1, <3>1, <3>2, <3>3, <3>4, <3>5
  <2>5. InOrder(i)
    BY <2>2, <2>3, <2>4 DEF InOrder
  <2>6. ~(i.through < through[p])
    BY <1>1, <1>3, <2>3
  <2> QED
    BY <1>2, <1>7, <2>5, <2>6 DEF AddRejected
<1> QED
  BY <1>5, <1>6, <1>7

\* A process that has just started refuses nothing.
LEMMA FreshAcceptable ==
    ASSUME Init, NEW i \in Input, Candidate(i)
    PROVE  ~AddRejected(i)
<1>1. /\ i.partition \in Partition /\ Admissible(i) /\ i.through \in Nat
  BY PartialTypes DEF Candidate, Proper, Admissible
<1>2. /\ Known(i) = {} /\ Open(i) /\ ~IsLate(i)
  BY <1>1 DEF Init, Known, Open, IsLate
<1>3. InOrder(i)
  BY <1>1 DEF Init, InOrder, BeforeLast, Overlaps
<1> QED
  BY <1>1, <1>2, <1>3 DEF AddRejected

(***************************************************************************)
(* A partial that moves the progress of its partition is later than what   *)
(* was seen of it, and seen for the first time by this process.            *)
(***************************************************************************)
LEMMA Moves ==
    ASSUME ConsumerIInv, NEW i \in Input, Candidate(i), AddLate(i) \/ AddOnTime(i)
    PROVE  /\ through[i.partition] < i.end /\ i.partition \notin ended
           /\ through' = [through EXCEPT ![i.partition] = i.through]
           /\ last' = [last EXCEPT ![i.partition] = {i}]
           /\ i \notin accepted
           /\ restarts = 0 => i \notin dropped
<1> DEFINE p == i.partition
<1>1. /\ p \in Partition /\ i.start \in Nat /\ i.end \in Nat /\ i.through \in Nat
      /\ i.end <= i.through /\ 0 < i.end
  BY PartialTypes DEF Candidate
<1>2. /\ Known(i) = {} /\ Open(i) /\ i.through >= through[p]
      /\ through' = [through EXCEPT ![p] = LaterOf(@, i.through)]
      /\ last' = [last EXCEPT ![p] = {i}] \/ (BeforeLast(i) /\ AddLate(i))
      /\ AddOnTime(i) => ~BeforeLast(i)
  BY DEF AddLate, AddOnTime, InOrder
<1>3. Tracked(p) /\ through[p] \in Nat /\ Stream(p)
  BY <1>1, StateFacts
<1>4. i \notin last[p]
  BY <1>2 DEF Known, SameID
<1>5. through[p] < i.end /\ ~BeforeLast(i)
  <2>1. CASE last[p] = {} /\ through[p] = 0
    BY <1>1, <2>1 DEF BeforeLast
  <2>2. ASSUME NEW l \in InLog(p), last[p] = {l}, through[p] = l.through
        PROVE  through[p] < i.end /\ ~BeforeLast(i)
    <3>1. l.end <= l.through /\ l.end \in Nat /\ l.through \in Nat
      BY <1>1, <1>3, StreamFacts
    <3>2. i # l /\ ~(i.through < l.end)
      BY <1>1, <1>2, <1>4, <2>2, <3>1
    <3>3. l.through < i.end /\ l.end <= i.start
      BY <3>2 DEF Candidate
    <3> QED
      BY <1>1, <2>2, <3>1, <3>3 DEF BeforeLast
  <2> QED
    BY <1>3, <2>1, <2>2 DEF Tracked
<1>6. LaterOf(through[p], i.through) = i.through
  BY <1>1, <1>2, <1>3 DEF LaterOf
<1>7. i \notin accepted
  BY <1>1, <1>3, <1>5 DEF ConsumerIInv, Held
<1>8. restarts = 0 => i \notin dropped
  BY <1>1, <1>3, <1>5 DEF ConsumerIInv, FirstProcess
<1> QED
  BY <1>2, <1>5, <1>6, <1>7, <1>8 DEF Open

-----------------------------------------------------------------------------
(***************************************************************************)
(* What the table makes of the results of a call: every partial that left  *)
(* the open windows is in a row, or in a result the table refused.         *)
(***************************************************************************)
UniqueRows == \A q, r \in rows : q.end = r.end => q = r

Inserted(held) ==
    /\ Counted' \cup uncounted' = Contributions(rows) \cup uncounted \cup held
    /\ RowShape' /\ UniqueRows'
    /\ rows = sunk => rows' = sunk' /\ uncounted' = uncounted

\* The results a call adds to the sink.
LEMMA NewResults ==
    ASSUME IInv, NEW held, Call(held)
    PROVE  /\ sunk \subseteq sunk' /\ windows' \subseteq held /\ held \subseteq Input
           /\ \A r \in sunk' \ sunk :
                 /\ r.contributors \subseteq held
                 /\ \E i \in held : r.start = i.start /\ r.end = i.end
                 /\ \A q \in sunk : q.end # r.end
           /\ \A i \in held : \/ i \in windows'
                              \/ \E r \in sunk' \ sunk : i \in r.contributors
<1>1. /\ held \subseteq Input
      /\ \A r \in sunk : \A i \in held : i.end > r.end
      /\ EmitOutcome(held, through', ended', completeThrough')
  BY EmitEffect DEF Call, Admitted
<1>2. PICK wr, rm \in SUBSET Keys(held) :
         /\ rm \subseteq wr
         /\ sunk' = sunk \cup {Result(held, k) : k \in wr}
         /\ windows' = {i \in held : Key(i) \notin rm}
  BY <1>1 DEF EmitOutcome, Write
<1>3. \A k \in wr : /\ Result(held, k).start = k[1] /\ Result(held, k).end = k[2]
                    /\ Result(held, k).contributors = {i \in held : Key(i) = k}
  BY DEF Result, Contributors
<1>4. \A k \in Keys(held) : \E i \in held : k = Key(i) /\ k[1] = i.start /\ k[2] = i.end
  BY DEF Keys, Key
<1>5. ASSUME NEW k \in wr
      PROVE  /\ Result(held, k).contributors \subseteq held
             /\ \E i \in held : Result(held, k).start = i.start /\ Result(held, k).end = i.end
             /\ \A q \in sunk : q.end # Result(held, k).end
  <2>1. PICK i \in held : k[1] = i.start /\ k[2] = i.end
    BY <1>2, <1>4
  <2>2. ASSUME NEW q \in sunk PROVE q.end # k[2]
    <3>1. i.end > q.end /\ i.end \in Nat /\ q.end \in Nat
      BY <1>1, <2>1, ConstantsAssumption DEF IInv, TypeOK
    <3> QED
      BY <2>1, <3>1
  <2> QED
    BY <1>3, <2>1, <2>2
<1>6. ASSUME NEW i \in held, i \notin windows'
      PROVE  \E r \in sunk' \ sunk : i \in r.contributors
  <2>1. Key(i) \in wr
    BY <1>2, <1>6
  <2>2. i \in Result(held, Key(i)).contributors
    BY <1>3, <2>1
  <2>3. Result(held, Key(i)) \in sunk' \ sunk
    BY <1>2, <1>5, <2>1
  <2> QED
    BY <2>2, <2>3
<1> QED
  BY <1>1, <1>2, <1>5, <1>6

LEMMA EmitInserts ==
    ASSUME IInv, IInv', NEW held, Call(held), Insert, RowShape, UniqueRows,
           \A i \in held : i.end = i.start + WindowSize
    PROVE  Inserted(held)
<1> DEFINE new == sunk' \ sunk
           kept == {r \in new : ~HasRow(r)}
           refused == {r \in new : HasRow(r)}
<1>1. /\ rows' = rows \cup kept
      /\ uncounted' = uncounted \cup (Contributions(refused) \ Contributions(rows))
  BY DEF Insert
<1>2. /\ sunk \subseteq sunk' /\ windows' \subseteq held /\ held \subseteq Input
      /\ \A r \in new : /\ r.contributors \subseteq held
                        /\ \E i \in held : r.start = i.start /\ r.end = i.end
                        /\ \A q \in sunk : q.end # r.end
      /\ \A i \in held : i \in windows' \/ \E r \in new : i \in r.contributors
  BY NewResults
<1>3. \A q, r \in new : q.end = r.end => q = r
  BY DEF IInv, EmittedIsFinal
<1>4. \A r \in new : r.start \in Nat /\ r.end = r.start + WindowSize
  BY <1>2, ConstantsAssumption
<1>5. new = kept \cup refused /\ sunk' = sunk \cup new
  BY <1>2
<1>6. \A r \in new : HasRow(r) <=> \E q \in rows : q.start = r.start /\ q.end = r.end
  BY DEF HasRow
<1>7. \A r \in kept : r \in new /\ ~HasRow(r)
  OBVIOUS
<1>8. \A r \in refused : r \in new /\ HasRow(r)
  OBVIOUS
<1> HIDE DEF new, kept, refused
<1>9. Counted' \cup uncounted' = Contributions(rows) \cup uncounted \cup held
  <2>1. \A x : x \in Counted' <=> \/ \E r \in rows \cup kept : x \in r.contributors
                                  \/ x \in windows'
    BY <1>1 DEF Counted, Contributions
  <2>2. \A x : x \in uncounted' <=>
           \/ x \in uncounted
           \/ (\E r \in refused : x \in r.contributors) /\ x \notin Contributions(rows)
    BY <1>1 DEF Contributions
  <2>3. \A x : x \in Contributions(rows) <=> \E r \in rows : x \in r.contributors
    BY DEF Contributions
  <2>4. ASSUME NEW x \in held PROVE x \in Counted' \/ x \in uncounted'
    BY <1>2, <1>5, <2>1, <2>2, <2>3
  <2>5. ASSUME NEW x \in Counted' \cup uncounted'
        PROVE  x \in Contributions(rows) \cup uncounted \cup held
    BY <1>2, <1>7, <1>8, <2>1, <2>2, <2>3
  <2> QED
    BY <2>1, <2>2, <2>3, <2>4, <2>5
<1>10. RowShape'
  BY <1>1, <1>4, <1>7 DEF RowShape
<1>11. UniqueRows'
  <2>1. ASSUME NEW q \in rows, NEW r \in kept PROVE q.end # r.end
    <3>1. SUFFICES ASSUME q.end = r.end PROVE FALSE
      OBVIOUS
    <3>2. /\ q.start \in Nat /\ q.end = q.start + WindowSize
          /\ r.start \in Nat /\ r.end = r.start + WindowSize
      BY <1>4, <1>7 DEF RowShape
    <3>3. q.start + WindowSize = r.start + WindowSize /\ WindowSize \in Nat
      BY <3>1, <3>2, IngestAssumption
    <3>4. q.start = r.start
      BY <3>2, <3>3
    <3> QED
      BY <1>6, <1>7, <3>1, <3>4
  <2> QED
    BY <1>1, <1>3, <1>7, <2>1 DEF UniqueRows
<1>12. ASSUME rows = sunk PROVE rows' = sunk' /\ uncounted' = uncounted
  <2>1. \A r \in new : ~HasRow(r)
    BY <1>2, <1>6, <1>12
  <2>2. refused = {} /\ kept = new
    BY <1>5, <1>7, <1>8, <2>1
  <2>3. Contributions(refused) = {}
    BY <2>2 DEF Contributions
  <2> QED
    BY <1>1, <1>5, <1>12, <2>2, <2>3
<1> QED
  BY <1>9, <1>10, <1>11, <1>12 DEF Inserted

LEMMA QuietInserts ==
    ASSUME RowShape, UniqueRows, Insert, UNCHANGED <<sunk, windows>>
    PROVE  Inserted(windows)
<1>1. rows' = rows /\ uncounted' = uncounted
  BY DEF Insert, Contributions
<1>2. Counted' = Counted
  BY <1>1 DEF Counted, Contributions
<1> QED
  BY <1>1, <1>2 DEF Inserted, Counted, RowShape, UniqueRows

-----------------------------------------------------------------------------
(***************************************************************************)
(* The bookkeeping of a partial, whatever the aggregator made of it.       *)
(***************************************************************************)
Everything == UNION {InLog(p) : p \in Partition}

LEMMA AccountedAs ==
    EveryPartialAccounted
       = (/\ Everything = Counted \cup dropped \cup uncounted \cup Pending
          /\ UniqueRows
          /\ restarts = 0 => uncounted = {} /\ Counted \cap dropped = {})
BY DEF EveryPartialAccounted, Everything, InLog, Counted, Pending, UniqueRows,
       Contributions

LEMMA AccountedAsPrime ==
    EveryPartialAccounted'
       = (/\ Everything' = Counted' \cup dropped' \cup uncounted' \cup Pending'
          /\ UniqueRows'
          /\ restarts' = 0 => uncounted' = {} /\ Counted' \cap dropped' = {})
BY DEF EveryPartialAccounted, Everything, InLog, Counted, Pending, UniqueRows,
       Contributions

\* The log when i has been read.
LogHas(i) ==
    /\ written' \in [Partition -> Seq(Input)] /\ copied' \in [Partition -> Nat]
    /\ closed' = closed
    /\ \A q \in Partition : /\ Stream(q)' /\ InLog(q) \subseteq InLog(q)'
                            /\ Certified(q)' \in Nat /\ Certified(q) <= Certified(q)'
    /\ Everything' = Everything \cup {i} /\ Logged(i)'

\* The progress of the partition stays where it was, or reaches i, which is
\* then counted or lost.
Stays ==
    /\ through' = through /\ last' = last /\ accepted' = accepted
    /\ dropped' = dropped /\ Inserted(windows)

Takes(i) ==
    accepted' = accepted \cup {i} /\ dropped' = dropped /\ Inserted(windows \cup {i})

Loses(i) ==
    /\ accepted' = accepted /\ Inserted(windows)
    /\ dropped \subseteq dropped' /\ dropped' \subseteq dropped \cup {i}
    /\ \E q \in Partition \ {i.partition} : i.end + MaxSkew <= through[q]

Reaches(i) ==
    /\ through[i.partition] < i.end
    /\ through' = [through EXCEPT ![i.partition] = i.through]
    /\ last' = [last EXCEPT ![i.partition] = {i}]
    /\ i \notin accepted
    /\ restarts = 0 => i \notin dropped
    /\ Takes(i) \/ Loses(i)

\* The aggregator's progress is never past what its partition certified.
LEMMA ThroughCertified ==
    ASSUME ConsumerIInv, NEW q \in Partition
    PROVE  /\ through[q] \in Nat /\ Certified(q) \in Nat /\ through[q] <= Certified(q)
           /\ Tracked(q)
<1>1. Stream(q) /\ Tracked(q) /\ through[q] \in Nat
  BY StateFacts
<1>2. Certified(q) \in Nat /\ \A l \in InLog(q) : l.through <= Certified(q)
  BY <1>1, StreamFacts
<1> QED
  BY <1>1, <1>2 DEF Tracked

LEMMA ReadKeeps ==
    ASSUME ConsumerIInv, IInv', NEW i \in Input, Candidate(i), LogHas(i),
           Stays \/ Reaches(i),
           ended' = ended, restarts' = restarts,
           Pending \subseteq {i}, uncommitted' = {PartialRecord(i)},
           phase' # "fetch",
           phase' = "commit" => i \in Counted' \cup dropped' \cup uncounted',
           NeverRejects'
    PROVE  ConsumerIInv'
<1> DEFINE p == i.partition
<1>1. /\ p \in Partition /\ i.start \in Nat /\ i.end \in Nat /\ i.through \in Nat
      /\ i.end <= i.through /\ Proper(p, i)
  BY PartialTypes DEF Candidate
<1>2. /\ through \in [Partition -> Nat] /\ last \in [Partition -> SUBSET Input]
      /\ \A q \in Partition : Tracked(q) /\ Certified(q) \in Nat
                              /\ through[q] <= Certified(q)
      /\ MaxSkew \in Nat
  BY StateFacts, ThroughCertified, ConstantsAssumption
<1>3. /\ Everything = Counted \cup dropped \cup uncounted \cup Pending
      /\ UniqueRows
      /\ restarts = 0 => uncounted = {} /\ Counted \cap dropped = {}
  BY AccountedAs DEF ConsumerIInv
<1>4. \A q \in Partition : through'[q] \in Nat /\ through[q] <= through'[q]
  BY <1>1, <1>2 DEF Stays, Reaches
<1>5. \A q \in Partition : Stream(q)' /\ Tracked(q)'
  <2>1. SUFFICES ASSUME NEW q \in Partition
                 PROVE  \/ last'[q] = {} /\ through'[q] = 0
                        \/ \E l \in InLog(q)' : last'[q] = {l} /\ through'[q] = l.through
    BY DEF Tracked, LogHas
  <2>2. CASE last'[q] = last[q] /\ through'[q] = through[q]
    BY <1>2, <2>2 DEF Tracked, LogHas
  <2>3. CASE q = p /\ Reaches(i)
    <3>1. i \in InLog(p)'
      BY DEF LogHas, Logged
    <3> QED
      BY <1>1, <1>2, <2>3, <3>1 DEF Reaches
  <2>4. \/ last'[q] = last[q] /\ through'[q] = through[q]
        \/ q = p /\ Reaches(i)
    BY <1>2 DEF Stays, Reaches
  <2> QED
    BY <2>2, <2>3, <2>4
<1>6. Held'
  <2>1. ASSUME NEW j \in accepted PROVE Logged(j)' /\ j.through <= through'[j.partition]
    <3>1. Logged(j) /\ j.through <= through[j.partition] /\ j.partition \in Partition
      BY DEF ConsumerIInv, Held, Logged
    <3>2. j.through \in Nat
      BY <3>1, LoggedFacts, ConstantsAssumption
    <3>3. Logged(j)'
      BY <3>1 DEF LogHas, Logged
    <3> QED
      BY <1>2, <1>4, <3>1, <3>2, <3>3
  <2>2. Reaches(i) => Logged(i)' /\ i.through <= through'[p]
    BY <1>1, <1>2 DEF Reaches, LogHas
  <2>3. accepted' = accepted \/ (Reaches(i) /\ accepted' = accepted \cup {i})
    BY DEF Stays, Reaches, Takes, Loses
  <2> QED
    BY <2>1, <2>2, <2>3 DEF Held
<1>7. /\ RowShape' /\ UniqueRows'
      /\ rows = sunk => rows' = sunk' /\ uncounted' = uncounted
  BY DEF Stays, Reaches, Takes, Loses, Inserted
<1>8. Pending' = {i}
  BY DEF Pending, PartialRecord
<1>9. /\ Uncommitted'
  <2>1. Logged(i)' /\ uncommitted' = {PartialRecord(i)} /\ PartialRecord(i)' = PartialRecord(i)
    BY DEF LogHas, PartialRecord
  <2>2. phase' = "commit" => Pending' \subseteq Counted' \cup dropped' \cup uncounted'
    BY <1>8
  <2> QED
    BY <2>1, <2>2 DEF Uncommitted, PartialRecord
<1>10. dropped' = dropped \/ (Reaches(i) /\ dropped \subseteq dropped'
                                         /\ dropped' \subseteq dropped \cup {i})
  BY DEF Stays, Reaches, Takes, Loses
<1>11. FirstProcess'
  <2>1. SUFFICES ASSUME restarts = 0, NEW j \in dropped'
                 PROVE  j.partition \in Partition /\ j.through <= through'[j.partition]
    BY <1>7 DEF ConsumerIInv, FirstProcess
  <2>2. CASE j \in dropped
    <3>1. j.partition \in Partition /\ j.through <= through[j.partition]
      BY <2>1, <2>2 DEF ConsumerIInv, FirstProcess
    <3>2. j \in Input
      <4>1. PICK q \in Partition : j \in InLog(q)
        BY <1>3, <2>2 DEF Everything
      <4> QED
        BY <4>1, StateFacts, StreamFacts
    <3> QED
      BY <1>2, <1>4, <3>1, <3>2, ConstantsAssumption
  <2>3. CASE j = i /\ Reaches(i)
    BY <1>1, <1>2, <2>3 DEF Reaches
  <2> QED
    BY <1>10, <2>2, <2>3
<1>12. BoundedLoss'
  <2>1. SUFFICES ASSUME NEW j \in dropped'
                 PROVE  \E q \in Partition \ {j.partition} : j.end + MaxSkew <= Certified(q)'
    BY DEF BoundedLoss
  <2>2. CASE j \in dropped
    <3>1. PICK q \in Partition \ {j.partition} : j.end + MaxSkew <= Certified(q)
      BY <2>2 DEF ConsumerIInv, BoundedLoss
    <3>2. j.end \in Nat
      <4>1. PICK r \in Partition : j \in InLog(r)
        BY <1>3, <2>2 DEF Everything
      <4> QED
        BY <4>1, StateFacts, StreamFacts
    <3>3. Certified(q) \in Nat /\ Certified(q)' \in Nat /\ Certified(q) <= Certified(q)'
      BY <1>2 DEF LogHas
    <3>4. j.end + MaxSkew <= Certified(q)'
      BY <1>2, <3>1, <3>2, <3>3
    <3> QED
      BY <3>1, <3>4
  <2>3. CASE j = i /\ Loses(i)
    <3>1. PICK q \in Partition \ {p} : i.end + MaxSkew <= through[q]
      BY <2>3 DEF Loses
    <3>2. /\ Certified(q) \in Nat /\ Certified(q)' \in Nat /\ Certified(q) <= Certified(q)'
          /\ through[q] \in Nat /\ through[q] <= Certified(q)
      BY <1>2 DEF LogHas
    <3>3. i.end + MaxSkew <= Certified(q)'
      BY <1>1, <1>2, <3>1, <3>2
    <3> QED
      BY <2>3, <3>1, <3>3
  <2> QED
    BY <1>10, <2>2, <2>3 DEF Reaches, Takes
<1>13. EveryPartialAccounted'
  <2>1. Everything' = Everything \cup {i}
    BY DEF LogHas
  <2>2. \/ /\ dropped' = dropped \/ (dropped \subseteq dropped' /\ dropped' \subseteq dropped \cup {i})
           /\ Counted' \cup uncounted' = Contributions(rows) \cup uncounted \cup windows
        \/ /\ dropped' = dropped
           /\ Counted' \cup uncounted'
                 = Contributions(rows) \cup uncounted \cup (windows \cup {i})
    BY DEF Stays, Reaches, Takes, Loses, Inserted
  <2>3. Everything' = Counted' \cup dropped' \cup uncounted' \cup Pending'
    <3>1. \A x : x \in Counted' \cup uncounted' \/ x = i
                   <=> x \in Contributions(rows) \cup uncounted \cup windows \/ x = i
      BY <2>2
    <3>2. \A x : x \in dropped' \/ x = i <=> x \in dropped \/ x = i
      BY <2>2
    <3>3. \A x : x \in Everything \/ x = i
                   <=> x \in Contributions(rows) \cup uncounted \cup windows
                       \/ x \in dropped \/ x = i
      BY <1>3 DEF Counted
    <3> QED
      BY <1>8, <2>1, <3>1, <3>2, <3>3
  <2>4. ASSUME restarts = 0 PROVE uncounted' = {} /\ Counted' \cap dropped' = {}
    <3>1. rows = sunk /\ rows' = sunk' /\ uncounted' = {} /\ Counted \cap dropped = {}
      BY <1>3, <1>7, <2>4 DEF ConsumerIInv, FirstProcess
    <3>2. accepted = Counted
      BY <3>1 DEF ConsumerIInv, IInv, CountedOnce, Counted, Contributions
    <3>3. accepted' = Counted'
      BY <3>1 DEF IInv, CountedOnce, Counted, Contributions
    <3>4. accepted' \cap dropped' = {}
      BY <2>4, <3>1, <3>2 DEF Stays, Reaches, Takes, Loses
    <3> QED
      BY <3>1, <3>3, <3>4
  <2> QED
    BY <1>7, <2>3, <2>4, AccountedAsPrime
<1>14. /\ written' \in [Partition -> Seq(Input)] /\ copied' \in [Partition -> Nat]
       /\ restarts' \in Nat /\ ended' \subseteq closed'
  BY DEF LogHas, ConsumerIInv
<1> QED
  BY <1>5, <1>6, <1>7, <1>9, <1>11, <1>12, <1>13, <1>14 DEF ConsumerIInv

-----------------------------------------------------------------------------
(***************************************************************************)
(* A partial is dropped as late only behind a watermark that another       *)
(* partition is MaxSkew past.                                              *)
(***************************************************************************)
LEMMA LateIsBehind ==
    ASSUME ConsumerIInv, NEW i \in Input, i.partition \in Partition,
           i.partition \notin ended, IsLate(i), through[i.partition] < i.end
    PROVE  \E q \in Partition \ {i.partition} : i.end + MaxSkew <= through[q]
<1> DEFINE p == i.partition
<1>1. /\ completeThrough \in Nat /\ \A q \in Partition : through[q] \in Nat
      /\ i.end \in Nat /\ MaxSkew \in Nat /\ i.end <= completeThrough
      /\ through[p] < i.end
  BY StateFacts, ConstantsAssumption DEF IsLate
<1>2. ~(completeThrough <= through[p])
  BY <1>1
<1>3. PICK q \in Partition : completeThrough + MaxSkew <= through[q]
  BY <1>2 DEF ConsumerIInv, IInv, WatermarkSound
<1>4. i.end + MaxSkew <= through[q] /\ q # p
  BY <1>1, <1>2, <1>3
<1> QED
  BY <1>4

(***************************************************************************)
(* What AddWithResult and the sink make of a partial.                      *)
(***************************************************************************)
LEMMA Received ==
    ASSUME ConsumerIInv, NEW i \in Input, Candidate(i), Receive(i), Insert,
           Pending = {} \/ Init
    PROVE  /\ IInv' /\ ended' = ended /\ (Stays \/ Reaches(i))
           /\ rejected' => AddRejected(i)
           /\ ~rejected' /\ ~sinkFailed' => i \in Counted' \cup dropped' \cup uncounted'
<1> DEFINE p == i.partition
<1>1. /\ IInv /\ RowShape /\ UniqueRows
      /\ Everything = Counted \cup dropped \cup uncounted \cup Pending
      /\ p \in Partition /\ i.end = i.start + WindowSize
  BY AccountedAs DEF ConsumerIInv, Candidate, Proper
<1>2. /\ Add(i) /\ dropped' = dropped \cup {l.input : l \in late'}
  BY DEF Receive
<1>3. IInv'
  <2>1. [Next]_vars
    BY <1>2 DEF Next
  <2> QED
    BY <1>1, <2>1, NextPreserves
<1>4. \A j \in windows : j.end = j.start + WindowSize
  BY OpenLogged DEF Proper
<1>5. CASE AddRejected(i)
  <2>1. /\ rejected' = TRUE /\ late' = {}
        /\ UNCHANGED <<through, ended, last, windows, sunk, accepted>>
    BY <1>5 DEF AddRejected, Reject
  <2>2. Inserted(windows)
    BY <1>1, <2>1, QuietInserts
  <2>3. dropped' = dropped
    BY <1>2, <2>1
  <2>4. Stays
    BY <2>1, <2>2, <2>3 DEF Stays
  <2> QED
    BY <1>3, <1>5, <2>1, <2>4
<1>6. CASE AddDuplicate(i)
  <2>1. /\ Known(i) = {i} /\ late' = {} /\ ~rejected'
        /\ UNCHANGED <<through, ended, last, accepted>>
    BY <1>6 DEF AddDuplicate, Running
  <2>2. Call(windows)
    BY <1>1, <1>6, AddDuplicateCalls
  <2>3. Inserted(windows)
    BY <1>1, <1>3, <1>4, <2>2, EmitInserts
  <2>4. dropped' = dropped
    BY <1>2, <2>1
  <2>5. Stays
    BY <2>1, <2>3, <2>4 DEF Stays
  <2>6. i \in windows \cup last[p]
    BY <2>1 DEF Known
  <2>7. i \in InLog(p)
    <3>1. CASE i \in windows
      BY <3>1, OpenLogged DEF Logged
    <3>2. CASE i \in last[p]
      BY <1>1, <3>2, StateFacts DEF Tracked
    <3> QED
      BY <2>6, <3>1, <3>2
  <2>8. Pending = {}
    <3>1. ASSUME Init PROVE FALSE
      BY <1>1, <2>6, <3>1 DEF Init
    <3> QED
      BY <3>1
  <2>9. i \in Counted \cup dropped \cup uncounted
    BY <1>1, <2>7, <2>8 DEF Everything
  <2>10. i \in Counted' \cup dropped' \cup uncounted'
    BY <2>3, <2>4, <2>9 DEF Inserted, Counted
  <2> QED
    BY <1>3, <2>1, <2>5, <2>10
<1>7. CASE AddLate(i)
  <2>1. /\ through[p] < i.end /\ p \notin ended
        /\ through' = [through EXCEPT ![p] = i.through]
        /\ last' = [last EXCEPT ![p] = {i}]
        /\ i \notin accepted /\ (restarts = 0 => i \notin dropped)
    BY <1>7, Moves
  <2>2. /\ IsLate(i) /\ ~rejected' /\ ended' = ended /\ accepted' = accepted
        /\ late' = IF sinkFailed' THEN {}
                   ELSE {[input |-> i, watermark |-> completeThrough']}
    BY <1>7 DEF AddLate, Running
  <2>3. Call(windows)
    BY <1>1, <1>7, AddLateCalls
  <2>4. Inserted(windows)
    BY <1>1, <1>3, <1>4, <2>3, EmitInserts
  <2>5. \E q \in Partition \ {p} : i.end + MaxSkew <= through[q]
    BY <1>1, <2>1, <2>2, LateIsBehind
  <2>6. /\ dropped \subseteq dropped' /\ dropped' \subseteq dropped \cup {i}
        /\ ~sinkFailed' => i \in dropped'
    <3>1. {l.input : l \in late'} = IF sinkFailed' THEN {} ELSE {i}
      <4>1. CASE sinkFailed'
        BY <2>2, <4>1
      <4>2. CASE ~sinkFailed'
        BY <2>2, <4>2
      <4> QED
        BY <4>1, <4>2
    <3>2. CASE sinkFailed'
      BY <1>2, <3>1, <3>2
    <3>3. CASE ~sinkFailed'
      BY <1>2, <3>1, <3>3
    <3> QED
      BY <3>2, <3>3
  <2>7. Reaches(i)
    BY <2>1, <2>2, <2>4, <2>5, <2>6 DEF Reaches, Loses
  <2> QED
    BY <1>3, <2>2, <2>6, <2>7
<1>8. CASE AddOnTime(i)
  <2>1. /\ through[p] < i.end /\ p \notin ended
        /\ through' = [through EXCEPT ![p] = i.through]
        /\ last' = [last EXCEPT ![p] = {i}]
        /\ i \notin accepted /\ (restarts = 0 => i \notin dropped)
    BY <1>8, Moves
  <2>2. /\ ~rejected' /\ ended' = ended /\ accepted' = accepted \cup {i} /\ late' = {}
    BY <1>8 DEF AddOnTime, Running
  <2>3. Call(windows \cup {i})
    BY <1>1, <1>8, AddOnTimeCalls
  <2>4. Inserted(windows \cup {i})
    <3>1. \A j \in windows \cup {i} : j.end = j.start + WindowSize
      BY <1>1, <1>4
    <3> QED
      BY <1>1, <1>3, <2>3, <3>1, EmitInserts
  <2>5. dropped' = dropped
    BY <1>2, <2>2
  <2>6. Reaches(i)
    BY <2>1, <2>2, <2>4, <2>5 DEF Reaches, Takes
  <2>7. i \in Counted' \cup uncounted'
    BY <2>4 DEF Inserted
  <2> QED
    BY <1>3, <2>2, <2>6, <2>7
<1> QED
  BY <1>2, <1>5, <1>6, <1>7, <1>8 DEF Add

-----------------------------------------------------------------------------
(***************************************************************************)
(* One lemma per action of the consumer.                                   *)
(***************************************************************************)
\* The log after a new partial.
LEMMA LogGrows ==
    ASSUME ConsumerIInv, NEW i \in Input, i.partition \in Partition, Follows(i),
           written' = [written EXCEPT ![i.partition] = Append(@, i)],
           UNCHANGED <<closed, copied>>
    PROVE  LogHas(i)
<1> DEFINE p == i.partition
<1>1. written \in [Partition -> Seq(Input)] /\ copied \in [Partition -> Nat]
  BY DEF ConsumerIInv
<1>2. \A q \in Partition : Stream(q) /\ Certified(q) \in Nat
  BY StateFacts, StreamFacts
<1>3. PICK r \in Partition : r = p
  OBVIOUS
<1>4. /\ written' \in [Partition -> Seq(Input)]
      /\ Stream(r)' /\ InLog(r)' = InLog(r) \cup {i}
      /\ Certified(r) <= Certified(r)'
      /\ \A q \in Partition : q # r => written'[q] = written[q]
  <2>1. i.partition = r /\ written' = [written EXCEPT ![r] = Append(@, i)]
    BY <1>3
  <2> QED
    BY <1>1, <1>2, <2>1, StreamGrows
<1>5. \A q \in Partition : q # r => /\ InLog(q)' = InLog(q)
                                    /\ Certified(q)' = Certified(q)
  BY <1>4 DEF InLog, Certified, LastWritten
<1>6. \A q \in Partition : q # r => Stream(q)'
  <2>1. SUFFICES ASSUME NEW q \in Partition, q # r PROVE Stream(q)'
    OBVIOUS
  <2>2. Stream(q) /\ written'[q] = written[q]
    BY <1>2, <1>4, <2>1
  <2> QED
    BY <2>2 DEF Stream, Proper, WellFormed
<1>7. Certified(r)' \in Nat
  <2>1. i.through \in Nat
    BY ConstantsAssumption
  <2>2. written'[r] = Append(written[r], i) /\ written[r] \in Seq(Input)
    BY <1>1, <1>3
  <2>3. /\ Append(written[r], i) # <<>>
        /\ Append(written[r], i)[Len(Append(written[r], i))] = i
    BY <2>2
  <2>4. Certified(r)' = i.through
    BY <2>2, <2>3 DEF Certified, LastWritten
  <2> QED
    BY <2>1, <2>4
<1>8. \A q \in Partition : /\ Stream(q)' /\ InLog(q) \subseteq InLog(q)'
                           /\ Certified(q)' \in Nat /\ Certified(q) <= Certified(q)'
  BY <1>2, <1>4, <1>5, <1>6, <1>7
<1>9. Everything' = Everything \cup {i}
  <2>1. \A q \in Partition : InLog(q)' = IF q = r THEN InLog(q) \cup {i} ELSE InLog(q)
    BY <1>4, <1>5
  <2>2. Everything' = UNION {InLog(q)' : q \in Partition}
    BY DEF Everything
  <2>3. \A x : x \in Everything' <=> \E q \in Partition : x \in InLog(q)'
    BY <2>2
  <2>4. \A x : x \in Everything <=> \E q \in Partition : x \in InLog(q)
    BY DEF Everything
  <2> QED
    BY <2>1, <2>3, <2>4
<1>10. Logged(i)'
  BY <1>3, <1>4 DEF Logged
<1> QED
  BY <1>1, <1>4, <1>8, <1>9, <1>10 DEF LogHas

\* The log after a partial that was in it.
LEMMA LogStays ==
    ASSUME ConsumerIInv, NEW i \in Input, Logged(i), copied' \in [Partition -> Nat],
           UNCHANGED <<written, closed>>
    PROVE  LogHas(i)
<1>1. \A q \in Partition : Stream(q) /\ Certified(q) \in Nat
  BY StateFacts, StreamFacts
<1>2. \A q \in Partition : /\ InLog(q)' = InLog(q) /\ Certified(q)' = Certified(q)
  BY DEF InLog, Certified, LastWritten
<1>3. \A q \in Partition : Stream(q)'
  <2>1. SUFFICES ASSUME NEW q \in Partition PROVE Stream(q)'
    OBVIOUS
  <2>2. Stream(q) /\ written'[q] = written[q]
    BY <1>1
  <2> QED
    BY <2>2 DEF Stream, Proper, WellFormed
<1>4. Logged(i)' /\ Everything' = Everything
  BY <1>2 DEF Logged, Everything, InLog
<1>5. i \in Everything
  BY DEF Logged, Everything
<1> QED
  BY <1>1, <1>2, <1>3, <1>4, <1>5 DEF LogHas, ConsumerIInv

\* What Process does to the loop.
LEMMA ProcessedFacts ==
    ASSUME NEW record, Processed(record)
    PROVE  /\ uncommitted' = {record} /\ Insert /\ restarts' = restarts
           /\ phase' # "fetch" /\ (phase' = "commit" => ~rejected' /\ ~sinkFailed')
BY DEF Processed

LEMMA ReadPartialKeeps ==
    ASSUME ConsumerIInv, NEW i \in Input, ReadPartial(i)
    PROVE  ConsumerIInv'
<1>1. /\ Pending = {} /\ uncommitted' = {PartialRecord(i)} /\ Insert
      /\ restarts' = restarts /\ phase' # "fetch"
      /\ phase' = "commit" => ~rejected' /\ ~sinkFailed'
  BY ProcessedFacts DEF ReadPartial, Reading, Pending
<1>2. Deliver(i) \/ Redeliver(i) \/ Copy(i)
  BY DEF ReadPartial
<1>3. /\ Receive(i) /\ Candidate(i) /\ LogHas(i)
      /\ rejected' => \E q \in Partition : copied'[q] > 0
  <2>1. ASSUME Candidate(i), Receive(i), ~AddRejected(i)
        PROVE  ~rejected'
    BY <1>1, <2>1, Received
  <2>2. CASE Deliver(i)
    <3>1. /\ i.partition \in Partition /\ i.partition \notin ended
          /\ Follows(i) /\ Receive(i)
      BY <2>2 DEF Deliver, ConsumerIInv
    <3>2. LogHas(i)
      BY <2>2, <3>1, LogGrows DEF Deliver
    <3>3. Candidate(i) /\ ~AddRejected(i)
      BY <3>1, FollowsFacts, Acceptable
    <3> QED
      BY <2>1, <3>1, <3>2, <3>3
  <2>3. CASE Redeliver(i)
    <3>1. /\ i.partition \in Partition /\ i.partition \notin ended /\ Receive(i)
          /\ written[i.partition] # <<>> /\ i = LastWritten(i.partition)
      BY <2>3 DEF Redeliver, ConsumerIInv
    <3>2. Stream(i.partition)
      BY <3>1, StateFacts
    <3>3. Logged(i) /\ i.through = Certified(i.partition)
      BY <3>1, <3>2, StreamFacts DEF Certified
    <3>4. LogHas(i)
      BY <2>3, <3>3, LogStays DEF Redeliver, ConsumerIInv
    <3>5. Candidate(i)
      BY <3>3, LoggedFacts
    <3>6. \A l \in InLog(i.partition) : i = l \/ (l.through < i.end /\ l.end <= i.start)
      <4>1. SUFFICES ASSUME NEW l \in InLog(i.partition), i.through < l.end PROVE FALSE
        BY <3>5 DEF Candidate
      <4>2. /\ l.end <= l.through /\ l.through <= i.through
            /\ l.end \in Nat /\ l.through \in Nat /\ i.through \in Nat
        BY <3>1, <3>2, <3>3, StreamFacts
      <4> QED
        BY <4>1, <4>2
    <3>7. ~AddRejected(i)
      BY <3>1, <3>5, <3>6, Acceptable
    <3> QED
      BY <2>1, <3>1, <3>4, <3>5, <3>7
  <2>4. CASE Copy(i)
    <3> DEFINE p == i.partition
    <3>1. /\ p \in Partition /\ Receive(i) /\ copied[p] < Len(written[p])
          /\ i = written[p][copied[p] + 1]
          /\ copied' = [copied EXCEPT ![p] = @ + 1]
          /\ UNCHANGED <<written, closed>>
      BY <2>4, IngestAssumption DEF Copy
    <3>2. /\ copied \in [Partition -> Nat] /\ copied[p] \in Nat
          /\ written[p] \in Seq(Input)
      BY <3>1, StateFacts DEF ConsumerIInv
    <3> HIDE DEF p
    <3>3. copied[p] + 1 \in DOMAIN written[p]
      BY <3>1, <3>2
    <3>4. Logged(i)
      BY <3>1, <3>3 DEF InLog, Logged, p
    <3>5. copied' \in [Partition -> Nat] /\ copied'[p] > 0
      BY <3>1, <3>2
    <3> QED
      BY <3>1, <3>4, <3>5, LoggedFacts, LogStays
  <2> QED
    BY <1>2, <2>2, <2>3, <2>4
<1>4. /\ IInv' /\ ended' = ended /\ (Stays \/ Reaches(i))
      /\ ~rejected' /\ ~sinkFailed' => i \in Counted' \cup dropped' \cup uncounted'
  BY <1>1, <1>3, Received
<1>5. NeverRejects'
  BY <1>3 DEF NeverRejects
<1>6. Pending \subseteq {i}
  BY <1>1
<1> QED
  BY <1>1, <1>3, <1>4, <1>5, <1>6, ReadKeeps

\* What stays as it is when the log and the progress do.
LEMMA SameLog ==
    ASSUME ConsumerIInv, UNCHANGED <<written, dropped>>
    PROVE  /\ written' \in [Partition -> Seq(Input)] /\ Everything' = Everything
           /\ \A q \in Partition : Stream(q)' /\ InLog(q)' = InLog(q)
           /\ \A i : Logged(i)' = Logged(i)
           /\ BoundedLoss'
<1>1. \A q \in Partition : /\ InLog(q)' = InLog(q) /\ Certified(q)' = Certified(q)
  BY DEF InLog, Certified, LastWritten
<1>2. \A q \in Partition : Stream(q)'
  <2>1. SUFFICES ASSUME NEW q \in Partition PROVE Stream(q)'
    OBVIOUS
  <2>2. Stream(q) /\ written'[q] = written[q]
    BY StateFacts
  <2> QED
    BY <2>2 DEF Stream, Proper, WellFormed
<1>3. BoundedLoss'
  BY <1>1 DEF ConsumerIInv, BoundedLoss
<1>4. Everything' = Everything /\ \A i : Logged(i)' = Logged(i)
  BY <1>1 DEF Everything, Logged, InLog
<1> QED
  BY <1>1, <1>2, <1>3, <1>4 DEF ConsumerIInv

\* A step that moves no partial but into the table.
LEMMA QuietKeeps ==
    ASSUME ConsumerIInv, IInv',
           UNCHANGED <<through, last, accepted, written, copied, dropped, restarts>>,
           ended' \subseteq closed', Inserted(windows), Uncommitted', NeverRejects',
           Counted \cup dropped \cup uncounted \cup Pending'
              = Counted \cup dropped \cup uncounted \cup Pending
    PROVE  ConsumerIInv'
<1>1. /\ written' \in [Partition -> Seq(Input)] /\ Everything' = Everything
      /\ \A q \in Partition : Stream(q)' /\ InLog(q)' = InLog(q)
      /\ \A i : Logged(i)' = Logged(i)
      /\ BoundedLoss'
  BY SameLog
<1>2. /\ Everything = Counted \cup dropped \cup uncounted \cup Pending
      /\ restarts = 0 => uncounted = {} /\ Counted \cap dropped = {}
  BY AccountedAs DEF ConsumerIInv
<1>3. \A q \in Partition : Tracked(q)'
  <2>1. SUFFICES ASSUME NEW q \in Partition PROVE Tracked(q)'
    OBVIOUS
  <2>2. /\ Tracked(q) /\ last'[q] = last[q] /\ through'[q] = through[q]
        /\ InLog(q)' = InLog(q)
    BY <1>1, StateFacts
  <2> QED
    BY <2>2 DEF Tracked
<1>4. Held'
  BY <1>1 DEF ConsumerIInv, Held
<1>5. FirstProcess'
  BY DEF ConsumerIInv, FirstProcess, Inserted
<1>6. EveryPartialAccounted'
  <2>1. /\ Counted' \cup uncounted' = Counted \cup uncounted
        /\ UniqueRows'
    BY DEF Inserted, Counted
  <2>2. Everything' = Counted' \cup dropped' \cup uncounted' \cup Pending'
    BY <1>1, <1>2, <2>1
  <2>3. ASSUME restarts' = 0 PROVE uncounted' = {} /\ Counted' \cap dropped' = {}
    <3>1. rows = sunk /\ rows' = sunk' /\ uncounted' = uncounted
      BY <2>3 DEF ConsumerIInv, FirstProcess, Inserted
    <3>2. accepted = Counted
      BY <3>1 DEF ConsumerIInv, IInv, CountedOnce, Counted, Contributions
    <3>3. accepted' = Counted'
      BY <3>1 DEF IInv, CountedOnce, Counted, Contributions
    <3> QED
      BY <1>2, <2>3, <3>1, <3>2, <3>3
  <2> QED
    BY <2>1, <2>2, <2>3, AccountedAsPrime
<1>7. RowShape' /\ copied' \in [Partition -> Nat] /\ restarts' \in Nat
  BY DEF Inserted, ConsumerIInv
<1> QED
  BY <1>1, <1>3, <1>4, <1>5, <1>6, <1>7 DEF ConsumerIInv

(***************************************************************************)
(* The EOS of a partition: EndPartition's error over windows that are left *)
(* open cannot happen.                                                     *)
(***************************************************************************)
LEMMA EndKeeps ==
    ASSUME ConsumerIInv, NEW p \in Partition, EndOfReplay(p), Processed(EndRecord(p)),
           Pending = {}
    PROVE  ConsumerIInv'
<1>1. /\ uncommitted' = {EndRecord(p)} /\ Insert /\ restarts' = restarts
      /\ phase' # "fetch"
  BY ProcessedFacts
<1>2. /\ EndPartition(p) /\ closed' = closed \cup {p}
      /\ UNCHANGED <<written, copied, dropped>>
  BY DEF EndOfReplay
<1>3. /\ UNCHANGED <<through, last, accepted>> /\ ended' = ended \cup {p}
      /\ complete' = (~sinkFailed' /\ ended' = Partition /\ windows' = {})
      /\ rejected' = (~sinkFailed' /\ ended' = Partition /\ windows' # {})
  BY <1>2 DEF EndPartition
<1>4. p \in Sender /\ IInv /\ RowShape /\ UniqueRows /\ ended \subseteq closed
  BY AccountedAs, ConstantsAssumption DEF ConsumerIInv
<1>5. IInv'
  <2>1. [Next]_vars
    BY <1>2, <1>4 DEF Next
  <2> QED
    BY <1>4, <2>1, NextPreserves
<1>6. Inserted(windows)
  <2>1. \A j \in windows : j.end = j.start + WindowSize
    BY OpenLogged DEF Proper
  <2>2. Call(windows)
    BY <1>2, <1>4, EndPartitionCalls
  <2> QED
    BY <1>1, <1>4, <1>5, <2>1, <2>2, EmitInserts
<1>7. ~rejected'
  <2>1. ended' = Partition => complete' \/ sinkFailed'
    BY <1>5 DEF IInv, CompletionDecided
  <2> QED
    BY <1>3, <2>1
<1>8. NeverRejects'
  BY <1>7 DEF NeverRejects
<1>9. Pending' = {}
  BY <1>1 DEF Pending, EndRecord
<1>10. Uncommitted'
  BY <1>1, <1>9 DEF Uncommitted, EndRecord
<1>11. ended' \subseteq closed'
  BY <1>2, <1>3, <1>4
<1> QED
  BY <1>1, <1>2, <1>3, <1>5, <1>6, <1>8, <1>9, <1>10, <1>11, QuietKeeps

LEMMA ReadEndKeeps ==
    ASSUME ConsumerIInv, NEW p \in Partition, ReadEnd(p)
    PROVE  ConsumerIInv'
<1>1. EndOfReplay(p) /\ Processed(EndRecord(p)) /\ Pending = {}
  BY DEF ReadEnd, Reading, Pending
<1> QED
  BY <1>1, EndKeeps

\* A new process finds the record its predecessor did not commit.
LEMMA RereadKeeps ==
    ASSUME ConsumerIInv, Reread
    PROVE  ConsumerIInv'
<1>1. PICK record \in uncommitted :
        /\ \/ /\ record.partial # {}
              /\ \A i \in record.partial : Receive(i)
              /\ UNCHANGED <<written, closed, copied>>
           \/ record.partial = {} /\ EndOfReplay(record.partition)
        /\ Processed(record)
  BY DEF Reread
<1>2. Init
  BY DEF Reread, ConsumerIInv, Uncommitted
<1>3. CASE \E p \in Partition : uncommitted = {EndRecord(p)}
  <2>1. PICK p \in Partition : uncommitted = {EndRecord(p)}
    BY <1>3
  <2>2. record = EndRecord(p) /\ record.partial = {} /\ record.partition = p
    BY <1>1, <2>1 DEF EndRecord
  <2>3. Pending = {}
    BY <2>1 DEF Pending, EndRecord
  <2> QED
    BY <1>1, <2>2, <2>3, EndKeeps
<1>4. CASE \E i \in Input : uncommitted = {PartialRecord(i)} /\ Logged(i)
  <2>1. PICK i \in Input : uncommitted = {PartialRecord(i)} /\ Logged(i)
    BY <1>4
  <2>2. record = PartialRecord(i) /\ record.partial = {i}
    BY <1>1, <2>1 DEF PartialRecord
  <2>3. /\ Receive(i) /\ UNCHANGED <<written, closed, copied>>
        /\ Processed(PartialRecord(i))
    BY <1>1, <2>2
  <2>4. Pending \subseteq {i}
    BY <2>1 DEF Pending, PartialRecord
  <2>5. /\ uncommitted' = {PartialRecord(i)} /\ Insert
        /\ restarts' = restarts /\ phase' # "fetch"
        /\ phase' = "commit" => ~rejected' /\ ~sinkFailed'
    BY <2>3, ProcessedFacts
  <2>6. Candidate(i) /\ LogHas(i) /\ ~AddRejected(i)
    BY <1>2, <2>1, <2>3, LoggedFacts, LogStays, FreshAcceptable DEF ConsumerIInv
  <2>7. /\ IInv' /\ ended' = ended /\ (Stays \/ Reaches(i)) /\ ~rejected'
        /\ ~sinkFailed' => i \in Counted' \cup dropped' \cup uncounted'
    BY <1>2, <2>3, <2>5, <2>6, Received
  <2>8. NeverRejects'
    BY <2>7 DEF NeverRejects
  <2> QED
    BY <2>4, <2>5, <2>6, <2>7, <2>8, ReadKeeps
<1> QED
  BY <1>1, <1>3, <1>4 DEF ConsumerIInv, Uncommitted

\* The aggregator, the log and the table stay; the loop goes on or ends.
LEMMA LoopKeeps ==
    ASSUME ConsumerIInv,
           \/ UNCHANGED consumerVars
           \/ Commit \/ CommitFails \/ Crash
    PROVE  ConsumerIInv'
<1>1. UNCHANGED <<ingestVars, rows, restarts, uncounted>>
  BY DEF Commit, CommitFails, Crash, consumerVars, processVars
<1>2. UNCHANGED <<through, ended, last, windows, completeThrough, complete, rejected,
                  sinkFailed, late, sunk, accepted, written, closed, copied, dropped,
                  rows, restarts, uncounted>>
  BY <1>1 DEF ingestVars, vars
<1>3. IInv'
  BY <1>2, UnchangedPreserves DEF ConsumerIInv, IInv, TypeOK
<1>4. Inserted(windows)
  <2>1. RowShape /\ UniqueRows
    BY AccountedAs DEF ConsumerIInv
  <2> QED
    BY <1>2, <2>1 DEF Inserted, Counted, Contributions, RowShape, UniqueRows
<1>5. NeverRejects' /\ ended' \subseteq closed'
  BY <1>2 DEF ConsumerIInv, NeverRejects
<1>6. /\ \A i : Logged(i)' = Logged(i)
      /\ Counted' = Counted
  BY <1>2, SameLog DEF Counted, Contributions
<1>7. Init' <=> Init
  BY <1>2 DEF Init
<1>8. \/ uncommitted' = uncommitted
      \/ uncommitted' = {} /\ phase = "commit"
  BY DEF Commit, CommitFails, Crash, consumerVars, processVars
<1>9. \/ phase' = phase /\ uncommitted' = uncommitted
      \/ phase' = "fetch" /\ uncommitted' = {}
      \/ phase' \in {"down", "done"}
  BY DEF Commit, CommitFails, Crash, consumerVars, processVars
<1>10. Counted \cup dropped \cup uncounted \cup Pending'
          = Counted \cup dropped \cup uncounted \cup Pending
  BY <1>8 DEF ConsumerIInv, Uncommitted, Pending
<1>11. Uncommitted'
  <2>1. \/ uncommitted' = {}
        \/ \E i \in Input : uncommitted' = {PartialRecord(i)} /\ Logged(i)'
        \/ \E p \in Partition : uncommitted' = {EndRecord(p)}
    BY <1>6, <1>8 DEF ConsumerIInv, Uncommitted
  <2>2. phase' = "fetch" /\ uncommitted' # {} => Init'
    BY <1>7, <1>9 DEF ConsumerIInv, Uncommitted
  <2>3. phase' = "commit" => Pending' \subseteq Counted' \cup dropped' \cup uncounted'
    BY <1>2, <1>6, <1>9 DEF ConsumerIInv, Uncommitted, Pending
  <2> QED
    BY <2>1, <2>2, <2>3 DEF Uncommitted, PartialRecord, EndRecord
<1> QED
  BY <1>2, <1>3, <1>4, <1>5, <1>10, <1>11, QuietKeeps

LEMMA InitNext == Init' => IInv'
BY InitInvariant, PTL

(***************************************************************************)
(* A restart loses the open windows, and knows which partials were there.  *)
(***************************************************************************)
LEMMA RestartKeeps ==
    ASSUME ConsumerIInv, Restart
    PROVE  ConsumerIInv'
<1>1. /\ restarts' = restarts + 1
      /\ through' = [p \in Partition |-> 0] /\ last' = [p \in Partition |-> {}]
      /\ ended' = {} /\ windows' = {} /\ completeThrough' = 0
      /\ complete' = FALSE /\ rejected' = FALSE /\ sinkFailed' = FALSE
      /\ late' = {} /\ sunk' = {} /\ accepted' = {}
      /\ uncounted' = uncounted \cup (windows \ (Contributions(rows) \cup Pending))
      /\ UNCHANGED <<written, closed, copied, dropped, uncommitted, rows>>
      /\ phase' = "fetch"
  BY DEF Restart, Pending
<1>2. Init'
  BY <1>1 DEF Init
<1>3. IInv'
  BY <1>2, InitNext
<1>4. /\ written' \in [Partition -> Seq(Input)] /\ Everything' = Everything
      /\ \A q \in Partition : Stream(q)' /\ InLog(q)' = InLog(q)
      /\ \A i : Logged(i)' = Logged(i)
      /\ BoundedLoss'
  BY <1>1, SameLog
<1>5. /\ Everything = Counted \cup dropped \cup uncounted \cup Pending
      /\ UniqueRows /\ restarts \in Nat /\ copied \in [Partition -> Nat]
  BY AccountedAs DEF ConsumerIInv
<1>6. \A q \in Partition : Tracked(q)'
  BY <1>1 DEF Tracked
<1>7. Held' /\ RowShape' /\ NeverRejects'
  BY <1>1 DEF ConsumerIInv, Held, RowShape, NeverRejects
<1>8. FirstProcess' /\ restarts' \in Nat /\ restarts' # 0
  BY <1>1, <1>5 DEF FirstProcess
<1>9. Uncommitted'
  <2>1. \/ uncommitted' = {}
        \/ \E i \in Input : uncommitted' = {PartialRecord(i)} /\ Logged(i)'
        \/ \E p \in Partition : uncommitted' = {EndRecord(p)}
    BY <1>1, <1>4 DEF ConsumerIInv, Uncommitted
  <2> QED
    BY <1>1, <1>2, <2>1 DEF Uncommitted, PartialRecord, EndRecord
<1>10. EveryPartialAccounted'
  <2>1. Pending' = Pending /\ Counted' = Contributions(rows) /\ UniqueRows'
    BY <1>1, <1>5 DEF Pending, Counted, Contributions, UniqueRows
  <2>2. Everything' = Counted' \cup dropped' \cup uncounted' \cup Pending'
    BY <1>1, <1>4, <1>5, <2>1 DEF Counted
  <2> QED
    BY <1>8, <2>1, <2>2, AccountedAsPrime
<1> QED
  BY <1>1, <1>3, <1>4, <1>5, <1>6, <1>7, <1>8, <1>9, <1>10 DEF ConsumerIInv

-----------------------------------------------------------------------------
LEMMA ConsumerInvariance == ConsumerSpec => []ConsumerIInv
<1>1. ConsumerInit => ConsumerIInv
  <2> SUFFICES ASSUME ConsumerInit PROVE ConsumerIInv
    OBVIOUS
  <2>1. /\ Init /\ written = [p \in Partition |-> <<>>] /\ closed = {}
        /\ copied = [p \in Partition |-> 0] /\ dropped = {}
        /\ phase = "fetch" /\ uncommitted = {} /\ rows = {} /\ restarts = 0
        /\ uncounted = {}
    BY DEF ConsumerInit, IngestInit
  <2>2. IInv
    BY <2>1, InitInvariant
  <2>3. /\ through = [p \in Partition |-> 0] /\ last = [p \in Partition |-> {}]
        /\ ended = {} /\ windows = {} /\ rejected = FALSE /\ sunk = {} /\ accepted = {}
    BY <2>1 DEF Init
  <2>4. written \in [Partition -> Seq(Input)] /\ copied \in [Partition -> Nat]
    <3>1. <<>> \in Seq(Input)
      OBVIOUS
    <3> QED
      BY <2>1, <3>1
  <2>5. ASSUME NEW p \in Partition PROVE Stream(p) /\ Tracked(p) /\ InLog(p) = {}
    <3>1. written[p] = <<>> /\ Len(written[p]) = 0 /\ written[p] \in Seq(Input)
      BY <2>1, <2>4
    <3>2. Stream(p)
      BY <3>1 DEF Stream
    <3>3. Tracked(p)
      BY <2>3 DEF Tracked
    <3>4. InLog(p) = {}
      BY <2>1 DEF InLog
    <3> QED
      BY <3>2, <3>3, <3>4
  <2>6. Held /\ RowShape /\ Uncommitted /\ FirstProcess
    BY <2>1, <2>3 DEF Held, RowShape, Uncommitted, FirstProcess
  <2>7. NeverRejects /\ BoundedLoss
    BY <2>1, <2>3 DEF NeverRejects, BoundedLoss
  <2>8. EveryPartialAccounted
    <3>1. Everything = {} /\ Counted = {} /\ Pending = {}
      BY <2>1, <2>3, <2>5 DEF Everything, Counted, Contributions, Pending
    <3> QED
      BY <2>1, <3>1, AccountedAs DEF UniqueRows
  <2> QED
    BY <2>1, <2>2, <2>3, <2>4, <2>5, <2>6, <2>7, <2>8 DEF ConsumerIInv
<1>2. ConsumerIInv /\ [ConsumerNext]_consumerVars => ConsumerIInv'
  BY ReadPartialKeeps, ReadEndKeeps, RereadKeeps, LoopKeeps, RestartKeeps
     DEF ConsumerNext
<1> QED
  BY <1>1, <1>2, PTL DEF ConsumerSpec

(***************************************************************************)
(* AddWithResult and EndPartition return no protocol error on what the     *)
(* Cloud Workers write, through skew, loss, retries, commit failures and   *)
(* restarts, unless a partition had two owners.                            *)
(***************************************************************************)
THEOREM NoRejection == ConsumerSpec => []NeverRejects
<1>1. ConsumerIInv => NeverRejects
  BY DEF ConsumerIInv
<1> QED
  BY <1>1, ConsumerInvariance, PTL

(***************************************************************************)
(* A partial is dropped as late only when another partition certified      *)
(* MaxSkew past its window (advanceWatermark), restarts or not.            *)
(***************************************************************************)
THEOREM LossIsBounded == ConsumerSpec => []BoundedLoss
<1>1. ConsumerIInv => BoundedLoss
  BY DEF ConsumerIInv
<1> QED
  BY <1>1, ConsumerInvariance, PTL

(***************************************************************************)
(* Every partial of the log is in the table, open, late, uncommitted or    *)
(* known to be lost with a process; a window has one row; and without a    *)
(* restart nothing is lost so, nor both counted and dropped.               *)
(***************************************************************************)
THEOREM Accounting == ConsumerSpec => []EveryPartialAccounted
<1>1. ConsumerIInv => EveryPartialAccounted
  BY DEF ConsumerIInv
<1> QED
  BY <1>1, ConsumerInvariance, PTL
=============================================================================
