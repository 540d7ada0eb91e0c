------------------------ MODULE GlobalAggregatorProofs ------------------------
(***************************************************************************)
(* Theorems about GlobalAggregator, for every set of partitions, skew and  *)
(* log, and whenever the sink fails.                                       *)
(***************************************************************************)
EXTENDS GlobalAggregator, TLAPS

-----------------------------------------------------------------------------
(***************************************************************************)
(* The inductive invariant.  EmittedIsFinal is not inductive alone: an     *)
(* open window ends after the written ones because its partials were       *)
(* admitted while SunkPast held, and the ready windows form a prefix of    *)
(* the open ones because those are disjoint and a contributor's progress   *)
(* reaches the end of what it contributed to.                              *)
(***************************************************************************)
Legit(held, thr) ==
    \A i \in held : /\ i.partition \in Partition
                    /\ i.start < i.end /\ i.end <= i.through
                    /\ i.through <= thr[i.partition]

Disjoint(held) ==
    \A i, j \in held : Key(i) = Key(j) \/ i.end <= j.start \/ j.end <= i.start

WatermarkSound(thr, done, watermark) ==
    /\ (done # Partition /\ \A p \in Partition \ done : thr[p] # 0)
       => /\ \E p \in Partition \ done : thr[p] <= watermark
          /\ \A p \in Partition \ done : thr[p] - MaxSkew <= watermark
    /\ \A p \in Partition \ done :
          \/ watermark <= thr[p]
          \/ \E q \in Partition : watermark + MaxSkew <= thr[q]

NoneReady ==
    \A k \in Keys(windows) : ~Ready(k, windows, through, ended, completeThrough)

SunkPast ==
    \A r \in sunk :
        /\ \A i \in r.contributors : Key(i) = <<r.start, r.end>>
        /\ \A p \in Partition \ ended : through[p] >= r.end \/ completeThrough >= r.end

IInv ==
    /\ TypeOK
    /\ Legit(windows, through)
    /\ Disjoint(windows)
    /\ WatermarkSound(through, ended, completeThrough)
    /\ sinkFailed \/ NoneReady
    /\ SunkPast
    /\ EmittedIsFinal
    /\ CountedOnce
    /\ EmissionJustified
    /\ CompletionDecided
    /\ complete => windows = {}

-----------------------------------------------------------------------------
(***************************************************************************)
(* The effect of advanceWatermark, whichever of its exits is taken.        *)
(***************************************************************************)
LEMMA WatermarkEffect ==
    ASSUME TypeOK, WatermarkSound(through, ended, completeThrough),
           NEW thr \in [Partition -> Nat],
           \A p \in Partition : through[p] <= thr[p],
           NEW done \in SUBSET Partition, ended \subseteq done,
           AdvanceWatermark(thr, done)
    PROVE  /\ completeThrough' \in Nat
           /\ completeThrough <= completeThrough'
           /\ WatermarkSound(thr, done, completeThrough')
<1> DEFINE active == Partition \ done
<1>0. /\ completeThrough \in Nat
      /\ \A p \in Partition : through[p] \in Nat /\ thr[p] \in Nat
      /\ MaxSkew \in Nat
  BY ConstantsAssumption DEF TypeOK
<1>1. \A p \in active : \/ completeThrough <= thr[p]
                        \/ \E q \in Partition : completeThrough + MaxSkew <= thr[q]
  <2> SUFFICES ASSUME NEW p \in active
               PROVE  \/ completeThrough <= thr[p]
                      \/ \E q \in Partition : completeThrough + MaxSkew <= thr[q]
    OBVIOUS
  <2>1. \/ completeThrough <= through[p]
        \/ \E q \in Partition : completeThrough + MaxSkew <= through[q]
    BY DEF WatermarkSound
  <2>2. CASE completeThrough <= through[p]
    BY <1>0, <2>2
  <2>3. CASE \E q \in Partition : completeThrough + MaxSkew <= through[q]
    <3>1. PICK q \in Partition : completeThrough + MaxSkew <= through[q]
      BY <2>3
    <3>2. completeThrough + MaxSkew <= thr[q]
      BY <1>0, <3>1
    <3> QED
      BY <3>2
  <2> QED
    BY <2>1, <2>2, <2>3
<1>2. CASE active = {} \/ \E p \in active : thr[p] = 0
  <2>1. \/ UNCHANGED completeThrough
        \/ active # {} /\ ~\E p \in active : thr[p] = 0
    BY <1>2 DEF AdvanceWatermark
  <2>2. completeThrough' = completeThrough
    BY <1>2, <2>1
  <2>3. done = Partition \/ \E p \in active : thr[p] = 0
    BY <1>2
  <2>4. WatermarkSound(thr, done, completeThrough')
    BY <1>1, <2>2, <2>3 DEF WatermarkSound
  <2> QED
    BY <1>0, <2>2, <2>4
<1>3. CASE active # {} /\ \A p \in active : thr[p] # 0
  <2>1. PICK m, n \in active :
           /\ \A p \in active : thr[m] <= thr[p] /\ thr[p] <= thr[n]
           /\ completeThrough' =
                 LaterOf(completeThrough, LaterOf(thr[m], thr[n] - MaxSkew))
    BY <1>3 DEF AdvanceWatermark
  <2>2. /\ thr[m] \in Nat /\ thr[n] \in Nat /\ m \in Partition /\ n \in Partition
        /\ \A p \in active : thr[p] \in Nat
    BY <1>0
  <2>3. /\ completeThrough' \in Nat
        /\ completeThrough <= completeThrough'
        /\ thr[m] <= completeThrough'
        /\ \A p \in active : thr[p] - MaxSkew <= completeThrough'
    BY <1>0, <2>1, <2>2 DEF LaterOf
  <2>4. \/ completeThrough' = completeThrough
        \/ completeThrough' = thr[m]
        \/ completeThrough' + MaxSkew = thr[n]
    BY <1>0, <2>1, <2>2 DEF LaterOf
  <2>5. \A p \in active : \/ completeThrough' <= thr[p]
                          \/ \E q \in Partition : completeThrough' + MaxSkew <= thr[q]
    <3>1. CASE completeThrough' = completeThrough
      BY <1>1, <3>1
    <3>2. CASE completeThrough' = thr[m]
      BY <2>1, <3>2
    <3>3. CASE completeThrough' + MaxSkew = thr[n]
      BY <2>2, <3>3
    <3> QED
      BY <2>4, <3>1, <3>2, <3>3
  <2> QED
    BY <2>3, <2>5 DEF WatermarkSound
<1> QED
  BY <1>2, <1>3

-----------------------------------------------------------------------------
(***************************************************************************)
(* The effect of emitReady on disjoint windows: what is written is ready,  *)
(* and ends before whatever stays open, but for the window at which the    *)
(* sink failed.                                                            *)
(***************************************************************************)
EmitOutcome(held, thr, done, watermark) ==
    \E written, removed \in SUBSET Keys(held) :
        /\ Write(held, written, removed)
        /\ sinkFailed' \in BOOLEAN
        /\ removed \subseteq written
        /\ \A k \in written : Ready(k, held, thr, done, watermark)
        /\ ~sinkFailed' =>
              /\ written = removed
              /\ \A k \in Keys(held) \ removed :
                    ~Ready(k, held, thr, done, watermark)
        /\ \A k \in written : \A j \in Keys(held) \ removed :
              k[2] < j[2] \/ (sinkFailed' /\ j = k)

LEMMA KeysFacts ==
    ASSUME NEW held \in SUBSET Input, NEW thr, Legit(held, thr), Disjoint(held)
    PROVE  /\ \A k \in Keys(held) : k[1] \in Nat /\ k[2] \in Nat /\ k[1] < k[2]
           /\ \A j, k \in Keys(held) : j = k \/ j[2] <= k[1] \/ k[2] <= j[1]
<1>1. \A i \in held : i.start \in Nat /\ i.end \in Nat /\ i.start < i.end
  BY ConstantsAssumption DEF Legit
<1>2. \A k \in Keys(held) : \E i \in held : k = Key(i) /\ k[1] = i.start /\ k[2] = i.end
  BY DEF Keys, Key
<1>3. ASSUME NEW j \in Keys(held), NEW k \in Keys(held)
      PROVE  j = k \/ j[2] <= k[1] \/ k[2] <= j[1]
  <2>1. PICK x \in held : j = Key(x) /\ j[1] = x.start /\ j[2] = x.end
    BY <1>2
  <2>2. PICK y \in held : k = Key(y) /\ k[1] = y.start /\ k[2] = y.end
    BY <1>2
  <2>3. Key(x) = Key(y) \/ x.end <= y.start \/ y.end <= x.start
    BY DEF Disjoint
  <2> QED
    BY <2>1, <2>2, <2>3
<1> QED
  BY <1>1, <1>2, <1>3

(***************************************************************************)
(* The ready windows are a prefix of the open ones.                        *)
(***************************************************************************)
LEMMA ReadyPrefix ==
    ASSUME NEW held \in SUBSET Input, NEW thr \in [Partition -> Nat],
           NEW done, NEW watermark \in Nat,
           Legit(held, thr), Disjoint(held),
           NEW j \in Keys(held), NEW k \in Keys(held),
           Ready(k, held, thr, done, watermark), j[2] <= k[2]
    PROVE  Ready(j, held, thr, done, watermark)
<1>1. j[2] \in Nat /\ k[2] \in Nat /\ j[1] < j[2] /\ j[1] \in Nat
  BY KeysFacts
<1> SUFFICES ASSUME NEW p \in Partition
             PROVE  \/ \E i \in Contributors(held, j) : i.partition = p
                    \/ p \in done
                    \/ watermark # 0 /\ watermark >= j[2]
                    \/ thr[p] # 0 /\ thr[p] >= j[2]
  BY DEF Ready
<1>2. thr[p] \in Nat
  OBVIOUS
<1>3. ASSUME NEW i \in Contributors(held, k), i.partition = p
      PROVE  thr[p] >= k[2]
  <2>1. i \in held /\ i.end = k[2] /\ i.end <= i.through /\ i.through <= thr[p]
    BY <1>3 DEF Contributors, Key, Legit
  <2>2. i.end \in Nat /\ i.through \in Nat
    BY <2>1, ConstantsAssumption
  <2> QED
    BY <1>2, <2>1, <2>2
<1>4. \/ thr[p] >= k[2]
      \/ p \in done
      \/ watermark >= k[2]
  BY <1>3 DEF Ready
<1> QED
  BY <1>1, <1>2, <1>4

LEMMA EmitEffect ==
    ASSUME NEW held \in SUBSET Input, NEW thr \in [Partition -> Nat],
           NEW done, NEW watermark \in Nat,
           Legit(held, thr), Disjoint(held),
           EmitReady(held, thr, done, watermark)
    PROVE  EmitOutcome(held, thr, done, watermark)
<1> DEFINE R(k) == Ready(k, held, thr, done, watermark)
           ready == {k \in Keys(held) : R(k)}
<1>1. /\ \A k \in Keys(held) : k[1] \in Nat /\ k[2] \in Nat /\ k[1] < k[2]
      /\ \A j, k \in Keys(held) : j = k \/ j[2] <= k[1] \/ k[2] <= j[1]
  BY KeysFacts
<1>2. \A k \in ready : \A j \in Keys(held) \ ready : k[2] < j[2]
  <2> SUFFICES ASSUME NEW k \in ready, NEW j \in Keys(held), ~R(j)
               PROVE  k[2] < j[2]
    OBVIOUS
  <2>1. ~(j[2] <= k[2])
    BY ReadyPrefix
  <2> QED
    BY <1>1, <2>1
<1>3. CASE Write(held, ready, ready) /\ sinkFailed' = FALSE
  <2>1. ready \in SUBSET Keys(held)
    OBVIOUS
  <2>2. /\ \A k \in ready : R(k)
        /\ \A k \in Keys(held) \ ready : ~R(k)
    OBVIOUS
  <2> HIDE DEF ready, R
  <2> QED
    BY <1>2, <1>3, <2>1, <2>2 DEF EmitOutcome, R
<1>4. ASSUME NEW k \in ready, NEW written,
             written \in {{j \in ready : Before(j, k)},
                          {j \in ready : Before(j, k)} \cup {k}},
             Write(held, written, {j \in ready : Before(j, k)}),
             sinkFailed' = TRUE
      PROVE  EmitOutcome(held, thr, done, watermark)
  <2> DEFINE earlier == {j \in ready : Before(j, k)}
  <2>1. /\ earlier \in SUBSET Keys(held)
        /\ written \in SUBSET Keys(held)
        /\ earlier \subseteq written
        /\ written \subseteq earlier \cup {k}
    BY <1>4
  <2>2. \A j \in written : R(j)
    BY <1>4
  <2>3. ASSUME NEW w \in written, NEW j \in Keys(held) \ earlier
        PROVE  w[2] < j[2] \/ (sinkFailed' /\ j = w)
    <3>1. CASE j \notin ready
      <4>1. w \in ready
        BY <2>1
      <4> QED
        BY <3>1, <4>1, <1>2
    <3>2. CASE j \in ready
      <4>1. ~Before(j, k)
        BY <3>2
      <4>2. /\ w \in Keys(held) /\ k \in Keys(held)
            /\ w = k \/ Before(w, k)
        BY <2>1
      <4>3. k = j \/ k[2] < j[2]
        BY <1>1, <4>1, <4>2 DEF Before
      <4>4. w = k \/ w[2] < k[2]
        BY <1>1, <4>2 DEF Before
      <4> QED
        BY <1>1, <1>4, <4>2, <4>3, <4>4
    <3> QED
      BY <3>1, <3>2
  <2> HIDE DEF ready, R, earlier
  <2>4. Write(held, written, earlier)
    BY <1>4 DEF earlier
  <2> QED
    BY <1>4, <2>1, <2>2, <2>3, <2>4 DEF EmitOutcome, R
<1> QED
  BY <1>3, <1>4 DEF EmitReady

(***************************************************************************)
(* What a call that reaches emitReady has done to the progress of the      *)
(* partitions, and what it knows of the windows it holds by then; every    *)
(* such call preserves the invariant.                                      *)
(***************************************************************************)
Admitted(held) ==
    /\ held \subseteq Input
    /\ Disjoint(held)
    /\ \A r \in sunk : \A i \in held : i.end > r.end

Call(held) ==
    /\ ~sinkFailed
    /\ through' \in [Partition -> Nat]
    /\ \A p \in Partition : through[p] <= through'[p]
    /\ ended' \in SUBSET Partition /\ ended \subseteq ended'
    /\ completeThrough' \in Nat /\ completeThrough <= completeThrough'
    /\ WatermarkSound(through', ended', completeThrough')
    /\ last' \in [Partition -> SUBSET Input]
    /\ complete' \in BOOLEAN /\ rejected' \in BOOLEAN
    /\ \A l \in late' : l.input \in Input /\ l.watermark \in Nat
    /\ Admitted(held) /\ Legit(held, through')
    /\ accepted' = held \cup UNION {r.contributors : r \in sunk}
    /\ \A i, j \in accepted' : SameID(i, j) => i = j
    /\ EmitReady(held, through', ended', completeThrough')
    /\ complete' => ended' = Partition /\ windows' = {}
    /\ (ended' = Partition /\ windows' = {}) => complete' \/ sinkFailed'

LEMMA CallPreserves ==
    ASSUME IInv, ~sinkFailed,
           through' \in [Partition -> Nat],
           \A p \in Partition : through[p] <= through'[p],
           ended' \in SUBSET Partition, ended \subseteq ended',
           completeThrough' \in Nat, completeThrough <= completeThrough',
           WatermarkSound(through', ended', completeThrough'),
           last' \in [Partition -> SUBSET Input],
           complete' \in BOOLEAN, rejected' \in BOOLEAN,
           \A l \in late' : l.input \in Input /\ l.watermark \in Nat,
           NEW held, Admitted(held), Legit(held, through'),
           accepted' = held \cup UNION {r.contributors : r \in sunk},
           \A i, j \in accepted' : SameID(i, j) => i = j,
           EmitReady(held, through', ended', completeThrough'),
           complete' => ended' = Partition /\ windows' = {},
           (ended' = Partition /\ windows' = {}) => complete' \/ sinkFailed'
    PROVE  IInv'
<1> DEFINE keys == Keys(held)
           R(k) == Ready(k, held, through', ended', completeThrough')
<1>1. EmitOutcome(held, through', ended', completeThrough')
  BY EmitEffect DEF Admitted
<1>2. PICK written, removed \in SUBSET keys :
        /\ Write(held, written, removed)
        /\ sinkFailed' \in BOOLEAN
        /\ removed \subseteq written
        /\ \A k \in written : R(k)
        /\ ~sinkFailed' => /\ written = removed
                           /\ \A k \in keys \ removed : ~R(k)
        /\ \A k \in written : \A j \in keys \ removed :
              k[2] < j[2] \/ (sinkFailed' /\ j = k)
  BY <1>1 DEF EmitOutcome
<1>3. /\ sunk' = sunk \cup {Result(held, k) : k \in written}
      /\ windows' = {i \in held : Key(i) \notin removed}
  BY <1>2 DEF Write
<1>4. /\ \A i \in held : Key(i) \in keys
      /\ \A k \in keys : \E i \in held : k = Key(i) /\ k[1] = i.start /\ k[2] = i.end
      /\ \A k \in keys : k[1] \in Nat /\ k[2] \in Nat /\ k[1] < k[2]
      /\ \A j, k \in keys : j = k \/ j[2] <= k[1] \/ k[2] <= j[1]
  <2>1. \A i \in held : Key(i) \in keys
    BY DEF Keys
  <2>2. \A k \in keys : \E i \in held : k = Key(i) /\ k[1] = i.start /\ k[2] = i.end
    BY DEF Keys, Key
  <2> QED
    BY <2>1, <2>2, KeysFacts DEF Admitted
<1>5. \A k \in written : LET r == Result(held, k) IN
         /\ r.start = k[1] /\ r.end = k[2]
         /\ r.contributors = {i \in held : Key(i) = k}
         /\ r \in [start : Nat, end : Nat, contributors : SUBSET Input]
         /\ k = <<k[1], k[2]>>
  <2> SUFFICES ASSUME NEW k \in written
               PROVE  LET r == Result(held, k) IN
                         /\ r.start = k[1] /\ r.end = k[2]
                         /\ r.contributors = {i \in held : Key(i) = k}
                         /\ r \in [start : Nat, end : Nat, contributors : SUBSET Input]
                         /\ k = <<k[1], k[2]>>
    OBVIOUS
  <2>1. k[1] \in Nat /\ k[2] \in Nat /\ {i \in held : Key(i) = k} \in SUBSET Input
    BY <1>2, <1>4 DEF Admitted
  <2>2. k = <<k[1], k[2]>>
    BY <1>2, <1>4 DEF Key
  <2> QED
    BY <2>1, <2>2 DEF Result, Contributors
<1>6. \A r \in sunk' : r \in sunk \/ \E k \in written : r = Result(held, k)
  BY <1>3
<1> HIDE DEF keys, R
<1>7. /\ windows' \subseteq held
      /\ held \subseteq Input
      /\ \A i \in held : i.start \in Nat /\ i.end \in Nat /\ i.through \in Nat
  BY <1>3, ConstantsAssumption DEF Admitted
<1>8. TypeOK'
  <2>1. \A r \in sunk' : r \in [start : Nat, end : Nat, contributors : SUBSET Input]
    BY <1>5, <1>6 DEF IInv, TypeOK
  <2>2. accepted' \subseteq Input
    <3>1. \A r \in sunk : r.contributors \subseteq Input
      BY DEF IInv, TypeOK
    <3> QED
      BY <3>1, <1>7
  <2> QED
    BY <1>2, <1>7, <2>1, <2>2 DEF TypeOK
<1>9. Legit(windows, through)' /\ Disjoint(windows)'
  BY <1>7 DEF Legit, Disjoint, Admitted, Key
<1>10. WatermarkSound(through, ended, completeThrough)'
  BY DEF WatermarkSound
<1>11. (sinkFailed \/ NoneReady)'
  <2> SUFFICES ASSUME ~sinkFailed', NEW k \in Keys(windows')
               PROVE  ~Ready(k, windows', through', ended', completeThrough')
    BY DEF NoneReady, Ready, Keys, Key, Contributors
  <2>1. PICK i \in held : k = Key(i) /\ Key(i) \notin removed
    BY <1>3 DEF Keys
  <2>2. k \in keys \ removed
    BY <1>4, <2>1
  <2>3. ~R(k)
    BY <1>2, <2>2
  <2>4. Contributors(windows', k) = Contributors(held, k)
    BY <1>3, <2>2 DEF Contributors
  <2> QED
    BY <2>3, <2>4 DEF R, Ready
<1>12. SunkPast'
  <2> SUFFICES ASSUME NEW r \in sunk'
               PROVE  /\ \A i \in r.contributors : Key(i) = <<r.start, r.end>>
                      /\ \A p \in Partition \ ended' :
                            through'[p] >= r.end \/ completeThrough' >= r.end
    BY DEF SunkPast, Key
  <2>1. CASE r \in sunk
    <3>1. /\ \A i \in r.contributors : Key(i) = <<r.start, r.end>>
          /\ \A p \in Partition \ ended : through[p] >= r.end \/ completeThrough >= r.end
          /\ r.end \in Nat
      BY <2>1 DEF IInv, SunkPast, TypeOK
    <3>2. completeThrough \in Nat /\ \A p \in Partition : through[p] \in Nat
      BY DEF IInv, TypeOK
    <3> QED
      BY <3>1, <3>2
  <2>2. ASSUME NEW k \in written, r = Result(held, k)
        PROVE  /\ \A i \in r.contributors : Key(i) = <<r.start, r.end>>
               /\ \A p \in Partition \ ended' :
                     through'[p] >= r.end \/ completeThrough' >= r.end
    <3>1. /\ r.start = k[1] /\ r.end = k[2] /\ k = <<k[1], k[2]>>
          /\ r.contributors = {i \in held : Key(i) = k}
          /\ k[2] \in Nat
      BY <1>2, <1>4, <1>5, <2>2
    <3>2. \A i \in r.contributors : Key(i) = <<r.start, r.end>>
      BY <3>1
    <3>3. ASSUME NEW p \in Partition \ ended'
          PROVE  through'[p] >= r.end \/ completeThrough' >= r.end
      <4>1. ASSUME NEW i \in Contributors(held, k), i.partition = p
            PROVE  through'[p] >= k[2]
        <5>1. i \in held /\ i.end = k[2] /\ i.end <= i.through /\ i.through <= through'[p]
          BY <3>1, <4>1 DEF Contributors, Legit, Key
        <5> QED
          BY <1>7, <5>1
      <4>2. R(k)
        BY <1>2
      <4> QED
        BY <3>1, <4>1, <4>2 DEF R, Ready
    <3> QED
      BY <3>2, <3>3
  <2> QED
    BY <1>6, <2>1, <2>2
<1>13. EmittedIsFinal'
  <2> SUFFICES ASSUME NEW r \in sunk'
               PROVE  /\ \A i \in windows' : \/ i.end > r.end
                                             \/ sinkFailed' /\ Key(i) = <<r.start, r.end>>
                      /\ \A q \in sunk' : q.end = r.end => q = r
    BY DEF EmittedIsFinal, Key
  <2>1. ASSUME NEW i \in windows'
        PROVE  i.end > r.end \/ (sinkFailed' /\ Key(i) = <<r.start, r.end>>)
    <3>1. CASE r \in sunk
      BY <1>7, <3>1 DEF Admitted
    <3>2. ASSUME NEW k \in written, r = Result(held, k)
          PROVE  i.end > r.end \/ (sinkFailed' /\ Key(i) = <<r.start, r.end>>)
      <4>1. r.end = k[2] /\ r.start = k[1] /\ k = <<k[1], k[2]>> /\ k[2] \in Nat
        BY <1>2, <1>4, <1>5, <3>2
      <4>2. Key(i) \in keys \ removed /\ Key(i)[2] = i.end /\ i.end \in Nat
        BY <1>3, <1>4, <1>7 DEF Key
      <4>3. k[2] < Key(i)[2] \/ (sinkFailed' /\ Key(i) = k)
        BY <1>2, <4>2
      <4> QED
        BY <4>1, <4>2, <4>3
    <3> QED
      BY <1>6, <3>1, <3>2
  <2>2. ASSUME NEW old \in sunk, NEW k \in written
        PROVE  old.end < k[2] /\ old.end \in Nat
    <3>1. PICK i \in held : k = Key(i) /\ k[2] = i.end
      BY <1>2, <1>4
    <3> QED
      BY <1>7, <3>1 DEF Admitted, IInv, TypeOK
  <2>3. ASSUME NEW q \in sunk', q.end = r.end
        PROVE  q = r
    <3>1. CASE q \in sunk /\ r \in sunk
      BY <2>3, <3>1 DEF IInv, EmittedIsFinal
    <3>2. ASSUME NEW k \in written, r = Result(held, k)
          PROVE  q = r
      <4>1. r.end = k[2]
        BY <1>5, <3>2
      <4>2. q \notin sunk
        BY <2>2, <2>3, <4>1
      <4>3. PICK j \in written : q = Result(held, j)
        BY <1>6, <4>2
      <4>4. q.end = j[2]
        BY <1>5, <4>3
      <4>5. j \in keys /\ k \in keys
        BY <1>2
      <4>6. j = k
        BY <1>4, <2>3, <4>1, <4>4, <4>5
      <4> QED
        BY <3>2, <4>3, <4>6
    <3>3. ASSUME NEW k \in written, q = Result(held, k), r \in sunk
          PROVE  FALSE
      <4>1. q.end = k[2]
        BY <1>5, <3>3
      <4> QED
        BY <2>2, <2>3, <3>3, <4>1
    <3> QED
      BY <1>6, <3>1, <3>2, <3>3
  <2> QED
    BY <2>1, <2>3
<1>14. CountedOnce'
  <2>1. \A r \in sunk : r.contributors \cap held = {}
    <3> SUFFICES ASSUME NEW r \in sunk, NEW i \in r.contributors, i \in held
                 PROVE  FALSE
      OBVIOUS
    <3>1. Key(i) = <<r.start, r.end>>
      BY DEF IInv, SunkPast
    <3>2. i.end = r.end
      BY <3>1 DEF Key
    <3> QED
      BY <1>7, <3>2 DEF Admitted
  <2>2. \A k \in written : /\ Result(held, k).contributors = {i \in held : Key(i) = k}
                           /\ Result(held, k) \in sunk'
    BY <1>3, <1>5
  <2>3. accepted' = windows' \cup UNION {r.contributors : r \in sunk'}
    <3>1. \A x : x \in accepted' <=> x \in held \/ \E r \in sunk : x \in r.contributors
      OBVIOUS
    <3>2. ASSUME NEW x \in held
          PROVE  x \in windows' \/ \E r \in sunk' : x \in r.contributors
      <4>1. CASE Key(x) \notin removed
        BY <1>3, <4>1
      <4>2. CASE Key(x) \in removed
        <5>1. Key(x) \in written
          BY <1>2, <4>2
        <5>2. x \in Result(held, Key(x)).contributors
          BY <2>2, <5>1
        <5> QED
          BY <2>2, <5>1, <5>2
      <4> QED
        BY <4>1, <4>2
    <3>3. \A r \in sunk : r \in sunk'
      BY <1>3
    <3>4. ASSUME NEW r \in sunk', NEW x \in r.contributors
          PROVE  x \in accepted'
      BY <1>6, <2>2, <3>1
    <3> QED
      BY <1>7, <3>1, <3>2, <3>3, <3>4
  <2>4. ASSUME NEW r \in sunk'
        PROVE  r.contributors \cap windows' # {} => sinkFailed'
    <3>1. CASE r \in sunk
      BY <1>7, <2>1, <3>1
    <3>2. ASSUME NEW k \in written, r = Result(held, k), ~sinkFailed'
          PROVE  r.contributors \cap windows' = {}
      BY <1>2, <1>3, <2>2, <3>2
    <3> QED
      BY <1>6, <3>1, <3>2
  <2>5. ASSUME NEW r \in sunk', NEW q \in sunk', q # r
        PROVE  q.contributors \cap r.contributors = {}
    <3>1. CASE q \in sunk /\ r \in sunk
      BY <2>5, <3>1 DEF IInv, CountedOnce
    <3>2. ASSUME NEW k \in written, r = Result(held, k), q \in sunk
          PROVE  q.contributors \cap r.contributors = {}
      BY <2>1, <2>2, <3>2
    <3>3. ASSUME NEW k \in written, q = Result(held, k), r \in sunk
          PROVE  q.contributors \cap r.contributors = {}
      BY <2>1, <2>2, <3>3
    <3>4. ASSUME NEW j \in written, NEW k \in written,
                 r = Result(held, j), q = Result(held, k)
          PROVE  q.contributors \cap r.contributors = {}
      BY <2>2, <2>5, <3>4
    <3> QED
      BY <1>6, <3>1, <3>2, <3>3, <3>4
  <2> QED
    BY <2>3, <2>4, <2>5 DEF CountedOnce, SameID, Key
<1>15. EmissionJustified'
  <2> SUFFICES ASSUME NEW r \in sunk', NEW p \in Partition \ ended'
               PROVE  \/ \E i \in r.contributors : i.partition = p
                      \/ through'[p] >= r.end
                      \/ \E q \in Partition : through'[q] >= r.end + MaxSkew
    BY DEF EmissionJustified, Active
  <2>0. /\ \A q \in Partition : through[q] \in Nat /\ through'[q] \in Nat
        /\ MaxSkew \in Nat
        /\ r.end \in Nat
    BY <1>8, ConstantsAssumption DEF IInv, TypeOK
  <2>1. CASE r \in sunk
    <3>1. \/ \E i \in r.contributors : i.partition = p
          \/ through[p] >= r.end
          \/ \E q \in Partition : through[q] >= r.end + MaxSkew
      BY <2>1 DEF IInv, EmissionJustified, Active
    <3>2. ASSUME NEW q \in Partition, through[q] >= r.end + MaxSkew
          PROVE  through'[q] >= r.end + MaxSkew
      BY <2>0, <3>2
    <3>3. through[p] >= r.end => through'[p] >= r.end
      BY <2>0
    <3> QED
      BY <3>1, <3>2, <3>3
  <2>2. ASSUME NEW k \in written, r = Result(held, k)
        PROVE  \/ \E i \in r.contributors : i.partition = p
               \/ through'[p] >= r.end
               \/ \E q \in Partition : through'[q] >= r.end + MaxSkew
    <3>1. r.end = k[2] /\ r.contributors = {i \in held : Key(i) = k}
      BY <1>5, <2>2
    <3>2. R(k)
      BY <1>2
    <3>3. \/ \E i \in r.contributors : i.partition = p
          \/ completeThrough' >= r.end
          \/ through'[p] >= r.end
      BY <3>1, <3>2 DEF R, Ready, Contributors
    <3>4. ASSUME completeThrough' >= r.end
          PROVE  \/ through'[p] >= r.end
                 \/ \E q \in Partition : through'[q] >= r.end + MaxSkew
      <4>1. CASE completeThrough' <= through'[p]
        BY <2>0, <3>4, <4>1
      <4>2. ASSUME NEW q \in Partition, completeThrough' + MaxSkew <= through'[q]
            PROVE  through'[q] >= r.end + MaxSkew
        BY <2>0, <3>4, <4>2
      <4> QED
        BY <4>1, <4>2 DEF WatermarkSound
    <3> QED
      BY <3>3, <3>4
  <2> QED
    BY <1>6, <2>1, <2>2
<1>16. ended' = Partition => complete' \/ sinkFailed'
  <2> SUFFICES ASSUME ended' = Partition, ~sinkFailed' PROVE windows' = {}
    OBVIOUS
  <2>1. \A k : R(k)
    BY DEF R, Ready
  <2>2. keys \ removed = {}
    BY <1>2, <2>1
  <2> QED
    BY <1>3, <1>4, <2>2
<1>17. CompletionDecided' /\ (complete => windows = {})'
  <2>1. complete' => accepted' = UNION {r.contributors : r \in sunk'}
    BY <1>14 DEF CountedOnce
  <2> QED
    BY <1>16, <2>1 DEF CompletionDecided
<1> QED
  BY <1>8, <1>9, <1>10, <1>11, <1>12, <1>13, <1>14, <1>15, <1>17 DEF IInv

-----------------------------------------------------------------------------
LEMMA InitInvariant == Init => IInv
<1> SUFFICES ASSUME Init PROVE IInv
  OBVIOUS
<1>1. TypeOK
  BY DEF Init, TypeOK
<1>2. Legit(windows, through) /\ Disjoint(windows) /\ NoneReady /\ SunkPast
  BY DEF Init, Legit, Disjoint, NoneReady, Keys, SunkPast
<1>3. WatermarkSound(through, ended, completeThrough)
  BY ConstantsAssumption DEF Init, WatermarkSound
<1>4. EmittedIsFinal /\ EmissionJustified
  BY DEF Init, EmittedIsFinal, EmissionJustified
<1>5. CountedOnce
  BY DEF Init, CountedOnce
<1>6. CompletionDecided /\ (complete => windows = {})
  BY ConstantsAssumption DEF Init, CompletionDecided
<1> QED
  BY <1>1, <1>2, <1>3, <1>4, <1>5, <1>6 DEF IInv

\* A call that returns an error before it changes anything, or a stutter.
LEMMA UnchangedPreserves ==
    ASSUME IInv, rejected' \in BOOLEAN,
           \A l \in late' : l.input \in Input /\ l.watermark \in Nat,
           UNCHANGED <<through, ended, last, windows, completeThrough, complete,
                       sinkFailed, sunk, accepted>>
    PROVE  IInv'
<1>1. TypeOK'
  BY DEF IInv, TypeOK
<1>2. /\ Legit(windows, through)' /\ Disjoint(windows)'
      /\ WatermarkSound(through, ended, completeThrough)'
  BY DEF IInv, Legit, Disjoint, WatermarkSound, Key
<1>3. (sinkFailed \/ NoneReady)'
  BY DEF IInv, NoneReady, Keys, Key, Ready, Contributors
<1>4. SunkPast' /\ EmittedIsFinal'
  BY DEF IInv, SunkPast, EmittedIsFinal, Key
<1>5. CountedOnce' /\ EmissionJustified' /\ CompletionDecided'
  BY DEF IInv, CountedOnce, EmissionJustified, CompletionDecided, Active,
         SameID, Key
<1>6. (complete => windows = {})'
  BY DEF IInv
<1> QED
  BY <1>1, <1>2, <1>3, <1>4, <1>5, <1>6 DEF IInv

\* What every call that reaches emitReady knows of the open windows.
LEMMA OpenAdmitted ==
    ASSUME IInv, ~sinkFailed PROVE Admitted(windows)
BY DEF IInv, TypeOK, Admitted, EmittedIsFinal

LEMMA NotAllEnded ==
    ASSUME IInv, Running PROVE ended # Partition /\ complete = FALSE
BY DEF IInv, TypeOK, CompletionDecided, Running

LEMMA AddDuplicateCalls ==
    ASSUME IInv, NEW i \in Input, AddDuplicate(i) PROVE Call(windows)
<1>1. /\ ~sinkFailed /\ ended # Partition /\ complete = FALSE
      /\ Admitted(windows)
  BY OpenAdmitted, NotAllEnded DEF AddDuplicate, Running
<1>2. /\ through' = through /\ ended' = ended /\ last' = last
      /\ completeThrough' = completeThrough /\ complete' = complete
      /\ rejected' = rejected /\ accepted' = accepted /\ late' = {}
      /\ EmitReady(windows, through', ended', completeThrough')
  BY DEF AddDuplicate
<1>3. /\ TypeOK /\ Legit(windows, through) /\ CountedOnce
      /\ WatermarkSound(through, ended, completeThrough)
  BY DEF IInv
<1>4. /\ through' \in [Partition -> Nat]
      /\ \A p \in Partition : through[p] <= through'[p]
      /\ ended' \in SUBSET Partition /\ ended \subseteq ended'
      /\ completeThrough' \in Nat /\ completeThrough <= completeThrough'
      /\ last' \in [Partition -> SUBSET Input]
      /\ complete' \in BOOLEAN /\ rejected' \in BOOLEAN
      /\ \A l \in late' : l.input \in Input /\ l.watermark \in Nat
  BY <1>2, <1>3 DEF TypeOK
<1>5. /\ WatermarkSound(through', ended', completeThrough')
      /\ Legit(windows, through')
  BY <1>2, <1>3
<1>6. accepted' = windows \cup UNION {r.contributors : r \in sunk}
  BY <1>2, <1>3 DEF CountedOnce
<1>7. \A j, k \in accepted' : SameID(j, k) => j = k
  BY <1>2, <1>3 DEF CountedOnce
<1> QED
  BY <1>1, <1>2, <1>4, <1>5, <1>6, <1>7
  DEF Call

(***************************************************************************)
(* A late partial moves only the progress of its partition.                *)
(***************************************************************************)
LEMMA AddLateCalls ==
    ASSUME IInv, NEW i \in Input, AddLate(i) PROVE Call(windows)
<1>1. /\ ~sinkFailed /\ ended # Partition /\ complete = FALSE
      /\ Admitted(windows)
  BY OpenAdmitted, NotAllEnded DEF AddLate, Running
<1>2. /\ TypeOK /\ Legit(windows, through) /\ CountedOnce
      /\ WatermarkSound(through, ended, completeThrough)
  BY DEF IInv
<1>3. i.partition \in Partition /\ i.through \in Nat
  BY ConstantsAssumption DEF AddLate, Admissible
<1>4. /\ through' \in [Partition -> Nat]
      /\ \A p \in Partition : through[p] <= through'[p]
      /\ last' \in [Partition -> SUBSET Input]
  BY <1>2, <1>3 DEF AddLate, TypeOK, LaterOf
<1>5. /\ ended' = ended /\ complete' = complete /\ rejected' = rejected
      /\ accepted' = accepted
      /\ late' = IF sinkFailed' THEN {}
                 ELSE {[input |-> i, watermark |-> completeThrough']}
      /\ AdvanceWatermark(through', ended')
      /\ EmitReady(windows, through', ended', completeThrough')
  BY DEF AddLate
<1>6. ended' \in SUBSET Partition /\ ended \subseteq ended'
  BY <1>2, <1>5 DEF TypeOK
<1>7. /\ completeThrough' \in Nat /\ completeThrough <= completeThrough'
      /\ WatermarkSound(through', ended', completeThrough')
  BY <1>2, <1>4, <1>5, <1>6, WatermarkEffect
<1>8. /\ complete' \in BOOLEAN /\ rejected' \in BOOLEAN
      /\ \A l \in late' : l.input \in Input /\ l.watermark \in Nat
  BY <1>2, <1>5, <1>7 DEF TypeOK
<1>9. Legit(windows, through')
  <2> SUFFICES ASSUME NEW j \in windows
               PROVE  /\ j.partition \in Partition
                      /\ j.start < j.end /\ j.end <= j.through
                      /\ j.through <= through'[j.partition]
    BY DEF Legit
  <2>1. /\ j.partition \in Partition
        /\ j.start < j.end /\ j.end <= j.through
        /\ j.through <= through[j.partition]
        /\ j.through \in Nat
    BY <1>2, ConstantsAssumption DEF Legit, TypeOK
  <2>2. through[j.partition] \in Nat /\ through'[j.partition] \in Nat
    BY <1>2, <1>4, <2>1 DEF TypeOK
  <2> QED
    BY <1>4, <2>1, <2>2
<1>10. /\ accepted' = windows \cup UNION {r.contributors : r \in sunk}
       /\ \A j, k \in accepted' : SameID(j, k) => j = k
  BY <1>2, <1>5 DEF CountedOnce
<1>11. /\ complete' => ended' = Partition /\ windows' = {}
       /\ ended' # Partition
  BY <1>1, <1>5
<1> QED
  BY <1>1, <1>4, <1>5, <1>6, <1>7, <1>8, <1>9, <1>10, <1>11
  DEF Call

(***************************************************************************)
(* An accepted partial ends after every written window: its partition has  *)
(* not certified its end, so what the sink holds lies before its progress  *)
(* or before the watermark.                                                *)
(***************************************************************************)
LEMMA AddOnTimeCalls ==
    ASSUME IInv, NEW i \in Input, AddOnTime(i) PROVE Call(windows \cup {i})
<1> DEFINE held == windows \cup {i}
<1>1. /\ ~sinkFailed /\ ended # Partition /\ complete = FALSE
      /\ Admitted(windows)
  BY OpenAdmitted, NotAllEnded DEF AddOnTime, Running
<1>2. /\ TypeOK /\ Legit(windows, through) /\ CountedOnce /\ SunkPast
      /\ WatermarkSound(through, ended, completeThrough)
  BY DEF IInv
<1>3. /\ i.partition \in Partition \ ended
      /\ i.start \in Nat /\ i.end \in Nat /\ i.through \in Nat
      /\ i.start < i.end /\ i.end <= i.through
      /\ ~IsLate(i) /\ InOrder(i) /\ Known(i) = {}
  BY ConstantsAssumption DEF AddOnTime, Admissible, WellFormed, Open
<1>4. /\ through' \in [Partition -> Nat]
      /\ \A p \in Partition : through[p] <= through'[p]
      /\ last' \in [Partition -> SUBSET Input]
      /\ i.through <= through'[i.partition]
  BY <1>2, <1>3 DEF AddOnTime, TypeOK, LaterOf
<1>5. /\ ended' = ended /\ complete' = complete /\ rejected' = rejected
      /\ accepted' = accepted \cup {i}
      /\ late' = {}
      /\ AdvanceWatermark(through', ended')
      /\ EmitReady(held, through', ended', completeThrough')
  BY DEF AddOnTime
<1>6. ended' \in SUBSET Partition /\ ended \subseteq ended'
  BY <1>2, <1>5 DEF TypeOK
<1>7. /\ completeThrough' \in Nat /\ completeThrough <= completeThrough'
      /\ WatermarkSound(through', ended', completeThrough')
  BY <1>2, <1>4, <1>5, <1>6, WatermarkEffect
<1>8. /\ complete' \in BOOLEAN /\ rejected' \in BOOLEAN
      /\ \A l \in late' : l.input \in Input /\ l.watermark \in Nat
  BY <1>2, <1>5 DEF TypeOK
<1>9. Legit(held, through')
  <2> SUFFICES ASSUME NEW j \in windows
               PROVE  /\ j.partition \in Partition
                      /\ j.start < j.end /\ j.end <= j.through
                      /\ j.through <= through'[j.partition]
    BY <1>3, <1>4 DEF Legit
  <2>1. /\ j.partition \in Partition
        /\ j.start < j.end /\ j.end <= j.through
        /\ j.through <= through[j.partition]
        /\ j.through \in Nat
    BY <1>2, ConstantsAssumption DEF Legit, TypeOK
  <2>2. through[j.partition] \in Nat /\ through'[j.partition] \in Nat
    BY <1>2, <1>4, <2>1 DEF TypeOK
  <2> QED
    BY <1>4, <2>1, <2>2
<1>10. \A r \in sunk : i.end > r.end
  <2> SUFFICES ASSUME NEW r \in sunk PROVE i.end > r.end
    OBVIOUS
  <2>1. /\ through[i.partition] >= r.end \/ completeThrough >= r.end
        /\ r.end \in Nat /\ through[i.partition] \in Nat /\ completeThrough \in Nat
    BY <1>2, <1>3 DEF SunkPast, TypeOK
  <2>2. completeThrough # 0 => i.end > completeThrough
    BY <1>3, <2>1 DEF IsLate
  <2>3. through[i.partition] # 0 => i.end > through[i.partition]
    BY <1>3 DEF InOrder
  <2> QED
    BY <1>3, <2>1, <2>2, <2>3
<1>11. Admitted(held)
  <2>1. \A j \in windows : Key(j) = Key(i) \/ i.end <= j.start \/ j.end <= i.start
    <3> SUFFICES ASSUME NEW j \in windows, Key(j) # Key(i)
                 PROVE  i.end <= j.start \/ j.end <= i.start
      OBVIOUS
    <3>1. ~(i.start < j.end /\ j.start < i.end)
      BY <1>3 DEF InOrder, Overlaps
    <3>2. j.start \in Nat /\ j.end \in Nat
      BY <1>2, ConstantsAssumption DEF TypeOK
    <3> QED
      BY <1>3, <3>1, <3>2
  <2>2. Disjoint(held)
    BY <1>1, <2>1 DEF Admitted, Disjoint
  <2> QED
    BY <1>1, <1>10, <2>2 DEF Admitted
<1>12. accepted' = held \cup UNION {r.contributors : r \in sunk}
  BY <1>2, <1>5 DEF CountedOnce
<1>13. \A j, k \in accepted' : SameID(j, k) => j = k
  <2>1. ASSUME NEW j \in accepted, SameID(i, j) PROVE FALSE
    <3>1. CASE j \in windows
      BY <1>3, <2>1, <3>1 DEF Known
    <3>2. ASSUME NEW r \in sunk, j \in r.contributors PROVE FALSE
      <4>1. Key(i) = <<r.start, r.end>>
        BY <1>2, <2>1, <3>2 DEF SunkPast, SameID
      <4>2. i.end = r.end
        BY <4>1 DEF Key
      <4> QED
        BY <1>3, <1>10, <4>2
    <3> QED
      BY <1>2, <3>1, <3>2 DEF CountedOnce
  <2>2. \A j, k \in accepted : SameID(j, k) => j = k
    BY <1>2 DEF CountedOnce
  <2>3. \A j \in accepted : ~SameID(j, i)
    BY <2>1 DEF SameID
  <2> QED
    BY <1>5, <2>1, <2>2, <2>3
<1>14. /\ complete' => ended' = Partition /\ windows' = {}
       /\ ended' # Partition
  BY <1>1, <1>5
<1> HIDE DEF held
<1>15. Call(held)
  BY <1>1, <1>4, <1>5, <1>6, <1>7, <1>8, <1>9, <1>11, <1>12, <1>13, <1>14
  DEF Call
<1> QED
  BY <1>15 DEF held

LEMMA EndPartitionCalls ==
    ASSUME IInv, NEW p \in Sender, EndPartition(p) PROVE Call(windows)
<1>1. /\ ~sinkFailed /\ Admitted(windows)
  BY OpenAdmitted DEF EndPartition, Running
<1>2. /\ TypeOK /\ Legit(windows, through) /\ CountedOnce
      /\ WatermarkSound(through, ended, completeThrough)
  BY DEF IInv
<1>3. /\ through' = through /\ last' = last /\ accepted' = accepted
      /\ ended' = ended \cup {p} /\ p \in Partition /\ late' = {}
      /\ AdvanceWatermark(through, ended')
      /\ EmitReady(windows, through, ended', completeThrough')
      /\ complete' = (~sinkFailed' /\ ended' = Partition /\ windows' = {})
      /\ rejected' = (~sinkFailed' /\ ended' = Partition /\ windows' # {})
  BY DEF EndPartition
<1>4. /\ through \in [Partition -> Nat]
      /\ \A q \in Partition : through[q] <= through[q]
      /\ ended' \in SUBSET Partition /\ ended \subseteq ended'
      /\ last' \in [Partition -> SUBSET Input]
      /\ \A l \in late' : l.input \in Input /\ l.watermark \in Nat
  BY <1>2, <1>3 DEF TypeOK
<1>5. /\ completeThrough' \in Nat /\ completeThrough <= completeThrough'
      /\ WatermarkSound(through, ended', completeThrough')
  BY <1>2, <1>3, <1>4, WatermarkEffect
<1>6. /\ complete' \in BOOLEAN /\ rejected' \in BOOLEAN
      /\ complete' => ended' = Partition /\ windows' = {}
      /\ (ended' = Partition /\ windows' = {}) => complete' \/ sinkFailed'
  BY <1>3
<1>7. /\ accepted' = windows \cup UNION {r.contributors : r \in sunk}
      /\ \A j, k \in accepted' : SameID(j, k) => j = k
  BY <1>2, <1>3 DEF CountedOnce
<1> QED
  BY <1>1, <1>2, <1>3, <1>4, <1>5, <1>6, <1>7
  DEF Call

LEMMA CallInvariant ==
    ASSUME IInv, NEW held, Call(held) PROVE IInv'
BY CallPreserves DEF Call

LEMMA NextPreserves == IInv /\ [Next]_vars => IInv'
<1> SUFFICES ASSUME IInv, [Next]_vars PROVE IInv'
  OBVIOUS
<1>1. ASSUME NEW i \in Input, AddRejected(i) PROVE IInv'
  BY <1>1, UnchangedPreserves DEF AddRejected, Reject
<1>2. ASSUME NEW i \in Input, AddDuplicate(i) PROVE IInv'
  BY <1>2, AddDuplicateCalls, CallInvariant
<1>3. ASSUME NEW i \in Input, AddLate(i) PROVE IInv'
  BY <1>3, AddLateCalls, CallInvariant
<1>4. ASSUME NEW i \in Input, AddOnTime(i) PROVE IInv'
  BY <1>4, AddOnTimeCalls, CallInvariant
<1>5. ASSUME NEW p \in Sender, EndPartition(p) PROVE IInv'
  BY <1>5, EndPartitionCalls, CallInvariant
<1>6. ASSUME NEW p \in Sender, EndRejected(p) PROVE IInv'
  BY <1>6, UnchangedPreserves DEF EndRejected, Reject
<1>7. CASE UNCHANGED vars
  BY <1>7, UnchangedPreserves DEF vars, IInv, TypeOK
<1> QED
  BY <1>1, <1>2, <1>3, <1>4, <1>5, <1>6, <1>7 DEF Next, Add

-----------------------------------------------------------------------------
(***************************************************************************)
(* The aggregator never leaves its inductive invariant.                    *)
(***************************************************************************)
THEOREM Invariance == Spec => []IInv
<1> QED
  BY InitInvariant, NextPreserves, PTL DEF Spec

(***************************************************************************)
(* Type correctness of the aggregator's state and history.                 *)
(***************************************************************************)
THEOREM TypeCorrect == Spec => []TypeOK
<1>1. IInv => TypeOK
  BY DEF IInv
<1> QED
  BY <1>1, Invariance, PTL

(***************************************************************************)
(* Results leave in window order, each window once, on every log.          *)
(***************************************************************************)
THEOREM EmissionFinality == Spec => []EmittedIsFinal
<1>1. IInv => EmittedIsFinal
  BY DEF IInv
<1> QED
  BY <1>1, Invariance, PTL

(***************************************************************************)
(* Every accepted partial is in exactly one result, or still held.         *)
(***************************************************************************)
THEOREM Conservation == Spec => []CountedOnce
<1>1. IInv => CountedOnce
  BY DEF IInv
<1> QED
  BY <1>1, Invariance, PTL

(***************************************************************************)
(* No call leaves a window open that nobody can still contribute to.       *)
(***************************************************************************)
THEOREM NoLostWakeup == Spec => []OpenWindowsAwaited
<1>1. IInv => OpenWindowsAwaited
  <2> SUFFICES ASSUME IInv, ~sinkFailed, NEW i \in windows
               PROVE  /\ \E p \in Active : through[p] < i.end
                      /\ \/ \E p \in Active : through[p] = 0
                         \/ \A p \in Active : through[p] < i.end + MaxSkew
    BY DEF OpenWindowsAwaited
  <2>1. /\ completeThrough \in Nat /\ MaxSkew \in Nat \ {0}
        /\ i.start \in Nat /\ i.end \in Nat /\ i.start < i.end
        /\ \A p \in Active : through[p] \in Nat
    BY ConstantsAssumption DEF IInv, TypeOK, Legit, Active
  <2>2. ~Ready(Key(i), windows, through, ended, completeThrough)
    BY DEF IInv, NoneReady, Keys
  <2>3. Key(i)[2] = i.end
    BY DEF Key
  <2>4. PICK p \in Partition :
           /\ p \notin ended
           /\ ~(completeThrough # 0 /\ completeThrough >= i.end)
           /\ ~(through[p] # 0 /\ through[p] >= i.end)
    BY <2>2, <2>3 DEF Ready
  <2>5. p \in Active /\ through[p] < i.end
    BY <2>1, <2>4 DEF Active
  <2>6. completeThrough < i.end
    BY <2>1, <2>4
  <2>7. ASSUME \A q \in Active : through[q] # 0, NEW q \in Active
        PROVE  through[q] < i.end + MaxSkew
    <3>1. ended # Partition
      BY <2>5 DEF Active
    <3>2. through[q] - MaxSkew <= completeThrough
      BY <2>7, <3>1 DEF IInv, WatermarkSound, Active
    <3> QED
      BY <2>1, <2>6, <3>2
  <2> QED
    BY <2>5, <2>7
<1> QED
  BY <1>1, Invariance, PTL

(***************************************************************************)
(* A result leaves out an active partition only when it certified progress *)
(* past the window or another one is MaxSkew past it.                      *)
(***************************************************************************)
THEOREM EmissionJustification == Spec => []EmissionJustified
<1>1. IInv => EmissionJustified
  BY DEF IInv
<1> QED
  BY <1>1, Invariance, PTL

(***************************************************************************)
(* After the last EOS the run is complete, or the sink has failed.         *)
(***************************************************************************)
THEOREM CompletionDecision == Spec => []CompletionDecided
<1>1. IInv => CompletionDecided
  BY DEF IInv
<1> QED
  BY <1>1, Invariance, PTL

-----------------------------------------------------------------------------
(***************************************************************************)
(* The refinement.                                                         *)
(***************************************************************************)
Sunk == UNION {r.contributors : r \in sunk}

(***************************************************************************)
(* Every call that reaches emitReady, with at most one new partial among   *)
(* those it holds, is a step of the reduction.                             *)
(***************************************************************************)
LEMMA CallReduces ==
    ASSUME IInv, complete = FALSE, NEW new \in SUBSET Input,
           new \cap (windows \cup Sunk) = {},
           Call(windows \cup new)
    PROVE  Reduction!Reduce(new)
<1> DEFINE held == windows \cup new
           End == [i \in Input |-> i.end]
<1>1. /\ held \in SUBSET Input /\ Disjoint(held) /\ Legit(held, through')
      /\ \A r \in sunk : \A i \in held : i.end > r.end
      /\ through' \in [Partition -> Nat] /\ completeThrough' \in Nat
      /\ ~sinkFailed /\ complete' \in BOOLEAN
      /\ complete' => windows' = {}
      /\ EmitReady(held, through', ended', completeThrough')
  BY DEF Call, Admitted
<1>0. EmitOutcome(held, through', ended', completeThrough')
  <2> HIDE DEF held
  <2> QED
    BY <1>1, EmitEffect
<1>2. PICK written, removed \in SUBSET Keys(held) :
         /\ Write(held, written, removed)
         /\ removed \subseteq written
         /\ \A k \in written : \A j \in Keys(held) \ removed :
               k[2] < j[2] \/ (sinkFailed' /\ j = k)
  BY <1>0 DEF EmitOutcome
<1> DEFINE out == {i \in held : Key(i) \in written}
<1>3. /\ sunk' = sunk \cup {Result(held, k) : k \in written}
      /\ windows' = {i \in held : Key(i) \notin removed}
  BY <1>2 DEF Write
<1>4. Sunk \cap held = {}
  BY <1>1 DEF Sunk, IInv, CountedOnce
<1>5. {r.contributors : r \in sunk'}
         = {r.contributors : r \in sunk} \cup {Contributors(held, k) : k \in written}
  <2>1. \A k : Result(held, k).contributors = Contributors(held, k)
    BY DEF Result
  <2> QED
    BY <1>3, <2>1
<1>6. UNION {Contributors(held, k) : k \in written} = out
  BY DEF Contributors
<1>7. Sunk' = Sunk \cup out
  <2>1. UNION {r.contributors : r \in sunk'}
           = (UNION {r.contributors : r \in sunk})
             \cup (UNION {Contributors(held, k) : k \in written})
    BY <1>5
  <2> QED
    BY <1>6, <2>1 DEF Sunk
<1>8. windows \ Sunk = windows /\ windows' \ Sunk' = held \ out
  <2>1. \A i \in held : i \in out <=> Key(i) \in written
    OBVIOUS
  <2>2. \A i : i \in windows' <=> i \in held /\ Key(i) \notin removed
    BY <1>3
  <2> HIDE DEF out, held
  <2>3. \A i : i \in windows' \ Sunk' <=> i \in held \ out
    BY <1>2, <1>4, <1>7, <2>1, <2>2
  <2>4. windows' \ Sunk' = held \ out
    BY <2>3
  <2>5. windows \ Sunk = windows
    BY <1>4 DEF held
  <2> QED
    BY <2>4, <2>5
<1>9. /\ \A i \in held : /\ Key(i) \in Keys(held) /\ Key(i)[2] = i.end
                         /\ End[i] = i.end /\ i.end \in Nat
      /\ \A k \in Keys(held) : \E i \in held : k = Key(i)
      /\ \A i, j \in held : Key(i) = Key(j) <=> i.end = j.end
  <2>1. /\ \A i \in held : Key(i) \in Keys(held) /\ Key(i)[2] = i.end
        /\ \A k \in Keys(held) : \E i \in held : k = Key(i)
    BY DEF Keys, Key
  <2>2. \A i \in held : /\ End[i] = i.end
                        /\ i.start \in Nat /\ i.end \in Nat /\ i.start < i.end
    BY <1>1, ConstantsAssumption DEF Legit
  <2>3. ASSUME NEW i \in held, NEW j \in held
        PROVE  Key(i) = Key(j) <=> i.end = j.end
    <3>1. Key(i) = Key(j) \/ i.end <= j.start \/ j.end <= i.start
      BY <1>1 DEF Disjoint
    <3>2. Key(i) = Key(j) => i.end = j.end
      BY DEF Key
    <3>3. /\ i.start \in Nat /\ i.end \in Nat /\ i.start < i.end
          /\ j.start \in Nat /\ j.end \in Nat /\ j.start < j.end
      BY <2>2
    <3>4. i.end = j.end => ~(i.end <= j.start) /\ ~(j.end <= i.start)
      BY <3>3
    <3> QED
      BY <3>1, <3>2, <3>4
  <2> QED
    BY <2>1, <2>2, <2>3
<1>10. {Contributors(held, k) : k \in written}
          = {Reduction!Window(out, i) : i \in out}
  <2>1. ASSUME NEW i \in out
        PROVE  Reduction!Window(out, i) = Contributors(held, Key(i))
    <3>1. \A j \in held : Key(j) = Key(i) <=> End[j] = End[i]
      BY <1>9
    <3>2. {j \in out : End[j] = End[i]} = {j \in held : Key(j) = Key(i)}
      BY <3>1
    <3> QED
      BY <3>2 DEF Reduction!Window, Contributors
  <2>2. \A k \in written : \E i \in out : k = Key(i)
    BY <1>9
  <2>3. \A i \in out : Key(i) \in written
    OBVIOUS
  <2> HIDE DEF out, held
  <2> QED
    BY <2>1, <2>2, <2>3
<1>11. \A i \in held \ out, j \in out : End[j] < End[i]
  <2> SUFFICES ASSUME NEW i \in held \ out, NEW j \in out PROVE End[j] < End[i]
    OBVIOUS
  <2>1. /\ Key(j) \in written /\ Key(i) \in Keys(held) \ removed
        /\ Key(i) # Key(j)
    BY <1>2, <1>9
  <2>2. Key(j)[2] < Key(i)[2]
    BY <1>2, <2>1
  <2> QED
    BY <1>9, <2>2
<1>12. \A i \in new : \A s \in {r.contributors : r \in sunk} : \A j \in s :
           End[j] < End[i]
  <2> SUFFICES ASSUME NEW i \in new, NEW r \in sunk, NEW j \in r.contributors
               PROVE  End[j] < End[i]
    OBVIOUS
  <2>1. j.end = r.end /\ j \in Input
    BY DEF IInv, SunkPast, Key, TypeOK
  <2>2. i.end > r.end /\ i.end \in Nat /\ r.end \in Nat /\ End[i] = i.end
    BY <1>1, <1>9 DEF IInv, TypeOK
  <2> QED
    BY <2>1, <2>2
<1>13. held \ (held \ out) = out
  OBVIOUS
<1> HIDE DEF out, End
<1>14. /\ windows \ Sunk = windows
       /\ windows' \ Sunk' = held \ out
       /\ {r.contributors : r \in sunk'}
             = {r.contributors : r \in sunk}
               \cup {Reduction!Window(out, i) : i \in out}
       /\ complete' => held \ out = {}
  <2>1. windows' = {} => held \ out = {}
    BY <1>8
  <2> QED
    BY <1>1, <1>5, <1>8, <1>10, <2>1
<1>15. /\ new \cap (windows \cup Sunk) = {}
       /\ held \ out \subseteq held
       /\ complete' \in BOOLEAN /\ ~complete
  BY <1>1
<1> HIDE DEF held
<1>16. held = windows \cup new
  BY DEF held
<1> DEFINE open == windows \ UNION {r.contributors : r \in sunk}
           inputs == open \cup new
           gone == inputs \ open'
<1>17. open = windows /\ open' = held \ out /\ inputs = held /\ gone = out
  <2>1. open = windows /\ open' = held \ out
    BY <1>14 DEF Sunk
  <2> QED
    BY <2>1, <1>13, <1>16
<1>18. new \cap (open \cup UNION {r.contributors : r \in sunk}) = {}
  BY <1>15, <1>17 DEF Sunk
<1>19. \A i \in open', j \in gone : End[j] < End[i]
  BY <1>11, <1>17
<1>20. {r.contributors : r \in sunk'}
             = {r.contributors : r \in sunk}
               \cup {Reduction!Window(gone, i) : i \in gone}
  <2>1. gone = out
    BY <1>17
  <2> HIDE DEF gone
  <2> QED
    BY <1>14, <2>1, Zenon
<1>21. open' \subseteq inputs /\ (complete' => open' = {})
  BY <1>14, <1>17
<1> HIDE DEF open, inputs, gone
<1> QED
  BY <1>12, <1>15, <1>18, <1>19, <1>20, <1>21
     DEF Reduction!Reduce, open, inputs, gone, End

(***************************************************************************)
(* Every step of the aggregator is a call of the reduction or leaves it    *)
(* alone: only a partial on time is taken, and it ends past the sink.      *)
(***************************************************************************)
LEMMA StepReduces ==
    IInv /\ [Next]_vars => [Reduction!Next]_(Reduction!vars)
<1> SUFFICES ASSUME IInv, [Next]_vars PROVE [Reduction!Next]_(Reduction!vars)
  OBVIOUS
<1>1. ASSUME UNCHANGED <<windows, sunk, complete>>
      PROVE  UNCHANGED Reduction!vars
  BY <1>1 DEF Reduction!vars
<1>2. ASSUME Running, Call(windows) PROVE Reduction!Next
  <2>1. windows \cup {} = windows /\ complete = FALSE
    BY <1>2, NotAllEnded
  <2>2. Reduction!Reduce({})
    BY <1>2, <2>1, CallReduces
  <2> QED
    BY <2>2 DEF Reduction!Next
<1>3. ASSUME NEW i \in Input, Add(i)
      PROVE  [Reduction!Next]_(Reduction!vars)
  <2>1. CASE AddRejected(i)
    BY <1>1, <2>1 DEF AddRejected, Reject
  <2>2. CASE AddDuplicate(i)
    BY <1>2, <2>2, AddDuplicateCalls DEF AddDuplicate
  <2>3. CASE AddLate(i)
    BY <1>2, <2>3, AddLateCalls DEF AddLate
  <2>4. CASE AddOnTime(i)
    <3>1. Call(windows \cup {i}) /\ complete = FALSE
      BY <2>4, AddOnTimeCalls, NotAllEnded DEF AddOnTime
    <3>2. i \notin windows
      BY <2>4 DEF AddOnTime, Known, SameID
    <3>3. i \notin Sunk
      <4> SUFFICES ASSUME NEW r \in sunk, i \in r.contributors PROVE FALSE
        BY DEF Sunk
      <4>1. i.end > r.end
        BY <3>1 DEF Call, Admitted
      <4>2. i.end = r.end /\ i.end \in Nat
        BY ConstantsAssumption DEF IInv, SunkPast, Key
      <4> QED
        BY <4>1, <4>2
    <3>4. Reduction!Reduce({i})
      BY <3>1, <3>2, <3>3, CallReduces
    <3> QED
      BY <3>4 DEF Reduction!Next
  <2> QED
    BY <1>3, <2>1, <2>2, <2>3, <2>4 DEF Add
<1>4. ASSUME NEW p \in Sender, EndPartition(p)
      PROVE  [Reduction!Next]_(Reduction!vars)
  BY <1>2, <1>4, EndPartitionCalls DEF EndPartition
<1>5. ASSUME NEW p \in Sender, EndRejected(p)
      PROVE  [Reduction!Next]_(Reduction!vars)
  BY <1>1, <1>5 DEF EndRejected, Reject
<1>6. CASE UNCHANGED vars
  BY <1>1, <1>6 DEF vars
<1> QED
  BY <1>3, <1>4, <1>5, <1>6 DEF Next

(***************************************************************************)
(* The Global Aggregator implements the windowed reduction: whatever the   *)
(* log holds and whenever the sink fails, a partial is taken at most once  *)
(* and leaves for the sink once, with its whole window, in order, and a    *)
(* complete run holds nothing back.                                        *)
(***************************************************************************)
THEOREM ReductionImplemented == Spec => ImplementsReduction
<1>1. Init => Reduction!Init
  BY DEF Init, Reduction!Init
<1>2. IInv /\ [Next]_vars => [Reduction!Next]_(Reduction!vars)
  BY StepReduces
<1> QED
  BY <1>1, <1>2, Invariance, PTL DEF Spec, ImplementsReduction, Reduction!Spec
=============================================================================
