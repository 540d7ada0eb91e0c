--------------------------- MODULE PartitionProofs ---------------------------
(***************************************************************************)
(* Theorems about the reduction of a source partition, for every           *)
(* membership, window size and skew.  First PartitionAggregator, on an     *)
(* arbitrary log; then PartitionIngest, on every interleaving of what the  *)
(* Edges write: a worker never rejects it, loses a record only to skew,    *)
(* and accounts for each one.                                              *)
(***************************************************************************)
EXTENDS PartitionIngest, TLAPS

-----------------------------------------------------------------------------
(***************************************************************************)
(* Facts about the operators.                                              *)
(***************************************************************************)
LEMMA CloudStartType ==
    ASSUME NEW t \in Nat PROVE CloudStart(t) \in Int
BY ConstantsAssumption, SMT DEF CloudStart

LEMMA CloudEndType ==
    ASSUME NEW i \in Input PROVE CloudEnd(i) \in Int
BY CloudStartType, ConstantsAssumption, SMT DEF CloudEnd

(***************************************************************************)
(* What flush returns: each partial belongs to the window of one of the    *)
(* inputs it closes and holds all of them, certifies at least its own      *)
(* window, and only what the frontier or its window end allow; partials of *)
(* one flush certify nothing about each other, and miss no input.          *)
(***************************************************************************)
LEMMA PartialsFacts ==
    ASSUME NEW closing \in SUBSET Input, NEW frontier \in Int,
           NEW Q, Q = Partials(closing, frontier)
    PROVE  /\ \A q \in Q :
                /\ q \in Partial
                /\ \E i \in closing : q.start = CloudStart(i.start)
                /\ \A i : i \in q.inputs
                          <=> i \in closing /\ CloudStart(i.start) = q.start
                /\ q.start + WindowSize <= q.through
                /\ q.through <= frontier \/ q.through = q.start + WindowSize
                /\ \A r \in Q : /\ q.start < r.start
                                      => q.through < r.start + WindowSize
                                /\ q.start = r.start => q = r
           /\ \A i \in closing : \E q \in Q : i \in q.inputs
<1> DEFINE starts == {CloudStart(i.start) : i \in closing}
           Thr(s) == IF \A t \in starts : t <= s
                     THEN LaterOf(s + WindowSize, frontier)
                     ELSE s + WindowSize
           Ins(s) == {i \in closing : CloudStart(i.start) = s}
           Part(s) == [start |-> s, through |-> Thr(s), inputs |-> Ins(s)]
<1>1. Q = {Part(s) : s \in starts}
  BY DEF Partials
<1>2. \A s \in starts : s \in Int
  BY CloudStartType, ConstantsAssumption
<1>3. ASSUME NEW s \in starts
      PROVE  /\ Thr(s) \in Int
             /\ s + WindowSize <= Thr(s)
             /\ Thr(s) <= frontier \/ Thr(s) = s + WindowSize
             /\ \A t \in starts : s < t => Thr(s) < t + WindowSize
  <2>1. s \in Int
    BY <1>2
  <2>2. \A t \in starts : t \in Int
    BY <1>2
  <2> HIDE DEF starts
  <2> QED
    BY <2>1, <2>2, ConstantsAssumption DEF LaterOf
<1>4. ASSUME NEW q \in Q
      PROVE  \E s \in starts : /\ q = Part(s)
                               /\ q.start = s
                               /\ q.through = Thr(s)
                               /\ q.inputs = Ins(s)
  BY <1>1
<1>5. ASSUME NEW q \in Q
      PROVE  /\ q \in Partial
             /\ \E i \in closing : q.start = CloudStart(i.start)
             /\ \A i : i \in q.inputs
                       <=> i \in closing /\ CloudStart(i.start) = q.start
             /\ q.start + WindowSize <= q.through
             /\ q.through <= frontier \/ q.through = q.start + WindowSize
             /\ \A r \in Q : /\ q.start < r.start
                                   => q.through < r.start + WindowSize
                             /\ q.start = r.start => q = r
  <2>1. PICK s \in starts : /\ q = Part(s)
                            /\ q.start = s
                            /\ q.through = Thr(s)
                            /\ q.inputs = Ins(s)
    BY <1>4
  <2>2. q \in Partial
    <3>1. s \in Int /\ Thr(s) \in Int /\ Ins(s) \in SUBSET Input
      BY <1>2, <1>3
    <3> HIDE DEF starts, Thr, Ins
    <3> QED
      BY <2>1, <3>1 DEF Partial
  <2>3. \E i \in closing : q.start = CloudStart(i.start)
    BY <2>1
  <2>4. \A i : i \in q.inputs
               <=> i \in closing /\ CloudStart(i.start) = q.start
    BY <2>1
  <2>5. /\ q.start + WindowSize <= q.through
        /\ q.through <= frontier \/ q.through = q.start + WindowSize
    BY <2>1, <1>3
  <2>6. ASSUME NEW r \in Q
        PROVE  /\ q.start < r.start => q.through < r.start + WindowSize
               /\ q.start = r.start => q = r
    <3>1. PICK t \in starts : r = Part(t) /\ r.start = t
      BY <1>4
    <3>2. s < t => Thr(s) < t + WindowSize
      BY <1>3
    <3> HIDE DEF starts, Thr, Ins
    <3> QED
      BY <2>1, <3>1, <3>2
  <2> QED
    BY <2>2, <2>3, <2>4, <2>5, <2>6
<1>6. ASSUME NEW i \in closing
      PROVE  \E q \in Q : i \in q.inputs
  <2>1. CloudStart(i.start) \in starts /\ i \in Ins(CloudStart(i.start))
    OBVIOUS
  <2>2. Part(CloudStart(i.start)) \in Q
    BY <1>1, <2>1
  <2> QED
    BY <2>1, <2>2
<1> QED
  BY <1>5, <1>6

LEMMA NoPartials ==
    ASSUME NEW frontier PROVE Partials({}, frontier) = {}
BY DEF Partials

-----------------------------------------------------------------------------
(***************************************************************************)
(* The inductive invariant.  CertifiedIsFinal alone is not inductive: that *)
(* the open windows end after the watermark, and that no partial certifies *)
(* more than the watermark while the partition runs, is what makes a       *)
(* window opened later end after everything certified.                     *)
(***************************************************************************)
OpenPastWatermark == \A i \in windows : CloudEnd(i) > completeThrough

PartialsCoherent ==
    \A p \in partials :
        /\ p.start + WindowSize <= p.through
        /\ \A i \in p.inputs : CloudStart(i.start) = p.start
        /\ ended \/ p.through <= completeThrough

EndExact ==
    /\ ended <=> initialized /\ edgeEnded = Edge
    /\ ended => windows = {}

IInv ==
    /\ TypeOK
    /\ EndExact
    /\ OpenPastWatermark
    /\ PartialsCoherent
    /\ CertifiedIsFinal
    /\ CountedOnce
    /\ WatermarkKeepsUp
    /\ WatermarkJustified

(***************************************************************************)
(* The effect of advance, whichever of its exits is taken.                 *)
(***************************************************************************)
AdvanceOutcome(thr, done, held) ==
    /\ completeThrough' \in Nat
    /\ completeThrough <= completeThrough'
    /\ ended' \in BOOLEAN
    /\ ended' <=> done = Edge
    /\ ended' => windows' = {}
    /\ ~ended' => \A i \in windows' : CloudEnd(i) > completeThrough'
    /\ (~ended' /\ \A e \in Active(done) : thr[e] # 0)
       => /\ \E e \in Active(done) : thr[e] <= completeThrough'
          /\ \A e \in Active(done) : thr[e] - MaxSkew <= completeThrough'
    /\ \/ completeThrough' = completeThrough
       \/ \A e \in Active(done) : completeThrough' <= thr[e]
       \/ \E f \in Edge : completeThrough' + MaxSkew <= thr[f]
    /\ \E closing \in SUBSET held, frontier \in Int :
          /\ windows' = held \ closing
          /\ partials' = partials \cup Partials(closing, frontier)
          /\ ~ended' => /\ frontier <= completeThrough'
                        /\ \A i \in closing : CloudEnd(i) <= frontier

LEMMA AdvanceEffect ==
    ASSUME completeThrough \in Nat, ended = FALSE,
           NEW thr \in [Edge -> Nat], NEW done \in SUBSET Edge,
           NEW held \in SUBSET Input,
           \A i \in held : CloudEnd(i) > completeThrough,
           Advance(thr, done, held)
    PROVE  AdvanceOutcome(thr, done, held)
<1>1. CASE Active(done) = {} /\ AdvanceToEnd(held)
  <2>1. /\ windows' = held \ held
        /\ partials' = partials \cup Partials(held, 0)
        /\ ended' = TRUE
    BY <1>1 DEF AdvanceToEnd
  <2>2. done = Edge /\ completeThrough' = completeThrough /\ windows' = {}
    BY <1>1 DEF AdvanceToEnd, Active
  <2> QED
    BY <2>1, <2>2 DEF AdvanceOutcome
<1>2. CASE (\E e \in Active(done) : thr[e] = 0) /\ AdvanceBlocked(held)
  <2>1. /\ windows' = held \ {}
        /\ partials' = partials \cup Partials({}, 0)
        /\ UNCHANGED <<completeThrough, ended>>
    BY <1>2, NoPartials DEF AdvanceBlocked
  <2>2. done # Edge
    BY <1>2 DEF Active
  <2>3. \E closing \in SUBSET held, frontier \in Int :
           /\ windows' = held \ closing
           /\ partials' = partials \cup Partials(closing, frontier)
           /\ ~ended' => /\ frontier <= completeThrough'
                         /\ \A i \in closing : CloudEnd(i) <= frontier
    BY <2>1
  <2>4. /\ windows' = held /\ ended' = FALSE
        /\ completeThrough' = completeThrough
    BY <2>1
  <2>5. completeThrough <= completeThrough
    OBVIOUS
  <2>6. ~\A e \in Active(done) : thr[e] # 0
    BY <1>2
  <2> QED
    BY <2>2, <2>3, <2>4, <2>5, <2>6 DEF AdvanceOutcome
<1>3. CASE /\ \A e \in Active(done) : thr[e] # 0
           /\ \E minimum, maximum \in {thr[e] : e \in Active(done)} :
                 /\ \A e \in Active(done) : minimum <= thr[e] /\ thr[e] <= maximum
                 /\ AdvanceTo(held, LaterOf(minimum, maximum - MaxSkew))
  <2>1. PICK m, n \in Active(done) :
               /\ \A e \in Active(done) : thr[m] <= thr[e] /\ thr[e] <= thr[n]
               /\ AdvanceTo(held, LaterOf(thr[m], thr[n] - MaxSkew))
    BY <1>3
  <2> DEFINE frontier == LaterOf(thr[m], thr[n] - MaxSkew)
             closing == Closing(held, frontier)
  <2>2. /\ m \in Edge /\ n \in Edge
        /\ thr[m] \in Nat /\ thr[n] \in Nat
        /\ \A e \in Active(done) : thr[e] \in Nat
        /\ done # Edge
    BY DEF Active
  <2>3. /\ frontier \in Nat
        /\ thr[m] <= frontier
        /\ \A e \in Active(done) : thr[e] - MaxSkew <= frontier
    BY <2>1, <2>2, ConstantsAssumption DEF LaterOf
  <2>4. /\ windows' = held \ closing
        /\ partials' = partials \cup Partials(closing, frontier)
        /\ completeThrough' = LaterOf(completeThrough, frontier)
        /\ ended' = FALSE
        /\ closing \in SUBSET held
        /\ \A i \in closing : CloudEnd(i) <= frontier
        /\ \A i \in held \ closing : ~(CloudEnd(i) <= frontier)
    BY <2>1 DEF AdvanceTo, Closing
  <2> HIDE DEF frontier, closing
  <2>5. /\ completeThrough' \in Nat
        /\ completeThrough <= completeThrough'
        /\ frontier <= completeThrough'
        /\ thr[m] <= completeThrough'
        /\ \A e \in Active(done) : thr[e] - MaxSkew <= completeThrough'
    BY <2>2, <2>3, <2>4, ConstantsAssumption DEF LaterOf
  <2>6. \A i \in windows' : CloudEnd(i) > completeThrough'
    <3> SUFFICES ASSUME NEW i \in windows' PROVE CloudEnd(i) > completeThrough'
      OBVIOUS
    <3>1. CloudEnd(i) \in Int /\ CloudEnd(i) > completeThrough
          /\ ~(CloudEnd(i) <= frontier)
      BY <2>4, CloudEndType
    <3> QED
      BY <3>1, <2>3, <2>4 DEF LaterOf
  <2>9. \/ completeThrough' = completeThrough
        \/ \A e \in Active(done) : completeThrough' <= thr[e]
        \/ \E f \in Edge : completeThrough' + MaxSkew <= thr[f]
    <3>1. frontier = thr[m] \/ frontier + MaxSkew = thr[n]
      BY <2>2, ConstantsAssumption DEF frontier, LaterOf
    <3>2. completeThrough' = completeThrough \/ completeThrough' = frontier
      BY <2>4 DEF LaterOf
    <3>3. CASE completeThrough' = frontier /\ frontier = thr[m]
      BY <2>1, <3>3
    <3>4. CASE completeThrough' = frontier /\ frontier + MaxSkew = thr[n]
      BY <2>2, <3>4
    <3> QED
      BY <3>1, <3>2, <3>3, <3>4
  <2>7. \E c \in SUBSET held, f \in Int :
           /\ windows' = held \ c
           /\ partials' = partials \cup Partials(c, f)
           /\ ~ended' => /\ f <= completeThrough'
                         /\ \A i \in c : CloudEnd(i) <= f
    <3>1. frontier \in Int
      BY <2>3
    <3> QED
      BY <2>4, <2>5, <3>1
  <2>8. ended' = FALSE /\ done # Edge
    BY <2>2, <2>4
  <2> QED
    BY <2>5, <2>6, <2>7, <2>8, <2>9 DEF AdvanceOutcome
<1> QED
  BY <1>1, <1>2, <1>3 DEF Advance

(***************************************************************************)
(* Every call that advances preserves the invariant, given what it has     *)
(* done to the progress of the Edges and to the inputs held.               *)
(***************************************************************************)
LEMMA AdvancePreserves ==
    ASSUME IInv, ended = FALSE, initialized' = TRUE,
           edgeThrough' \in [Edge -> Nat],
           \A e \in Edge : edgeThrough[e] <= edgeThrough'[e],
           edgeEnded' \in SUBSET Edge,
           edgeEnded \subseteq edgeEnded',
           last' \in [Edge -> SUBSET Input],
           failed' \in BOOLEAN,
           \A r \in late' : r.input \in Input /\ r.watermark \in Nat,
           NEW held \in SUBSET Input,
           \A i \in held : CloudEnd(i) > completeThrough,
           \A p \in partials : p.inputs \cap held = {},
           accepted' = held \cup UNION {p.inputs : p \in partials},
           \A i, j \in accepted' : SameWindow(i, j) => i = j,
           Advance(edgeThrough', edgeEnded', held)
    PROVE  IInv'
<1>1. AdvanceOutcome(edgeThrough', edgeEnded', held)
  <2>1. completeThrough \in Nat
    BY DEF IInv, TypeOK
  <2> QED
    BY <2>1, AdvanceEffect
<1>2. PICK closing \in SUBSET held, frontier \in Int :
            /\ windows' = held \ closing
            /\ partials' = partials \cup Partials(closing, frontier)
            /\ ~ended' => /\ frontier <= completeThrough'
                          /\ \A i \in closing : CloudEnd(i) <= frontier
  BY <1>1 DEF AdvanceOutcome
<1> DEFINE Q == Partials(closing, frontier)
<1> HIDE DEF Q
<1>3. /\ \A q \in Q :
           /\ q \in Partial
           /\ \E i \in closing : q.start = CloudStart(i.start)
           /\ \A i : i \in q.inputs
                     <=> i \in closing /\ CloudStart(i.start) = q.start
           /\ q.start + WindowSize <= q.through
           /\ q.through <= frontier \/ q.through = q.start + WindowSize
           /\ \A r \in Q : /\ q.start < r.start
                                 => q.through < r.start + WindowSize
                           /\ q.start = r.start => q = r
      /\ \A i \in closing : \E q \in Q : i \in q.inputs
  <2>1. closing \in SUBSET Input
    OBVIOUS
  <2> QED
    BY <2>1, PartialsFacts DEF Q
<1>4. partials' = partials \cup Q
  BY <1>2 DEF Q
<1>5. TypeOK'
  <2>1. windows' \subseteq Input
    BY <1>2
  <2>2. \A p \in partials' : p \in Partial
    BY <1>3, <1>4 DEF IInv, TypeOK
  <2>3. accepted' \subseteq Input
    <3>1. \A p \in partials : p.inputs \subseteq Input
      BY DEF IInv, TypeOK, Partial
    <3> QED
      BY <3>1
  <2> QED
    BY <1>1, <2>1, <2>2, <2>3 DEF TypeOK, AdvanceOutcome
<1>6. EndExact'
  BY <1>1 DEF EndExact, AdvanceOutcome
<1>7. OpenPastWatermark'
  BY <1>1, <1>2 DEF OpenPastWatermark, CloudEnd, CloudStart, AdvanceOutcome
<1>8. PartialsCoherent'
  <2> SUFFICES ASSUME NEW p \in partials'
               PROVE  /\ p.start + WindowSize <= p.through
                      /\ \A i \in p.inputs : CloudStart(i.start) = p.start
                      /\ ended' \/ p.through <= completeThrough'
    BY DEF PartialsCoherent, CloudStart
  <2>1. CASE p \in partials
    <3>1. /\ p.start + WindowSize <= p.through
          /\ \A i \in p.inputs : CloudStart(i.start) = p.start
          /\ p.through <= completeThrough
          /\ p.through \in Int
      BY <2>1 DEF IInv, PartialsCoherent, TypeOK, Partial
    <3> QED
      BY <3>1, <1>1 DEF IInv, TypeOK, AdvanceOutcome
  <2>2. CASE p \in Q
    <3>1. /\ p.start + WindowSize <= p.through
          /\ \A i \in p.inputs : CloudStart(i.start) = p.start
          /\ p.through <= frontier \/ p.through = p.start + WindowSize
      BY <2>2, <1>3
    <3>2. PICK i \in closing : p.start = CloudStart(i.start)
      BY <2>2, <1>3
    <3>3. CloudEnd(i) = p.start + WindowSize
      BY <3>2 DEF CloudEnd
    <3>4. p.through \in Int
      BY <2>2, <1>3 DEF Partial
    <3> QED
      BY <3>1, <3>2, <3>3, <3>4, <1>1, <1>2 DEF AdvanceOutcome
  <2> QED
    BY <2>1, <2>2, <1>4
<1>9. CertifiedIsFinal'
  <2>0. \A p, q \in partials :
           /\ p.start < q.start => p.through < q.start + WindowSize
           /\ p.start = q.start => p = q
    BY DEF IInv, CertifiedIsFinal
  <2>1. \A q \in Q : \E i \in closing : q.start + WindowSize = CloudEnd(i)
    BY <1>3 DEF CloudEnd
  <2>2. ASSUME NEW p \in partials, NEW i \in held
        PROVE  /\ CloudEnd(i) > p.through
               /\ p.start \in Int /\ p.start + WindowSize < CloudEnd(i)
    <3>1. /\ p.through <= completeThrough
          /\ p.start + WindowSize <= p.through
          /\ p.through \in Int /\ p.start \in Int
      BY DEF IInv, PartialsCoherent, TypeOK, Partial
    <3>2. CloudEnd(i) > completeThrough /\ CloudEnd(i) \in Int
      BY CloudEndType
    <3> QED
      BY <3>1, <3>2, ConstantsAssumption DEF IInv, TypeOK
  <2>3. ASSUME NEW p \in partials', NEW i \in windows'
        PROVE  CloudEnd(i) > p.through
    <3>1. CASE p \in partials
      BY <3>1, <1>2, <2>2
    <3>2. CASE p \in Q
      <4>1. ~ended'
        BY <1>1 DEF AdvanceOutcome
      <4>2. CloudEnd(i) \in Int /\ CloudEnd(i) > completeThrough'
        BY <1>1, <1>2, <4>1, CloudEndType DEF AdvanceOutcome
      <4>3. p.through <= completeThrough' /\ p.through \in Int
        BY <1>8, <1>4, <3>2, <4>1, <1>3 DEF PartialsCoherent, Partial
      <4> QED
        BY <4>2, <4>3, <1>1 DEF AdvanceOutcome
    <3> QED
      BY <3>1, <3>2, <1>4
  <2>4. ASSUME NEW p \in partials', NEW q \in partials'
        PROVE  /\ p.start < q.start => p.through < q.start + WindowSize
               /\ p.start = q.start => p = q
    <3>1. CASE p \in partials /\ q \in partials
      BY <2>0, <3>1
    <3>2. CASE p \in Q /\ q \in Q
      BY <3>2, <1>3
    <3>3. CASE p \in partials /\ q \in Q
      <4>1. PICK i \in closing : q.start + WindowSize = CloudEnd(i)
        BY <3>3, <2>1
      <4>2. /\ CloudEnd(i) > p.through
            /\ p.start \in Int /\ p.start + WindowSize < CloudEnd(i)
        BY <3>3, <2>2
      <4>3. q.start \in Int /\ CloudEnd(i) \in Int /\ p.through \in Int
        BY <3>3, <1>3, CloudEndType DEF Partial, IInv, TypeOK
      <4> QED
        BY <4>1, <4>2, <4>3, ConstantsAssumption
    <3>4. CASE p \in Q /\ q \in partials
      <4>1. PICK i \in closing : p.start + WindowSize = CloudEnd(i)
        BY <3>4, <2>1
      <4>2. q.start \in Int /\ q.start + WindowSize < CloudEnd(i)
        BY <3>4, <2>2
      <4>3. p.start \in Int
        BY <3>4, <1>3 DEF Partial
      <4> QED
        BY <4>1, <4>2, <4>3, ConstantsAssumption
    <3> QED
      BY <3>1, <3>2, <3>3, <3>4, <1>4
  <2> QED
    BY <2>3, <2>4 DEF CertifiedIsFinal, CloudEnd, CloudStart
<1>10. CountedOnce'
  <2>1. UNION {p.inputs : p \in partials'}
           = closing \cup UNION {p.inputs : p \in partials}
    <3>1. \A x : x \in closing <=> \E q \in Q : x \in q.inputs
      BY <1>3
    <3>2. \A x : x \in UNION {p.inputs : p \in partials'}
                 <=> \E p \in partials' : x \in p.inputs
      OBVIOUS
    <3>3. \A x : x \in UNION {p.inputs : p \in partials}
                 <=> \E p \in partials : x \in p.inputs
      OBVIOUS
    <3> QED
      BY <1>4, <3>1, <3>2, <3>3
  <2>2. accepted' = windows' \cup UNION {p.inputs : p \in partials'}
    BY <1>2, <2>1
  <2>3. ASSUME NEW p \in partials'
        PROVE  /\ p.inputs \cap windows' = {}
               /\ \A q \in partials' : p # q => p.inputs \cap q.inputs = {}
    <3>1. CASE p \in partials
      <4>1. ASSUME NEW q \in Q PROVE p.inputs \cap q.inputs = {}
        <5>1. q.inputs \subseteq held
          BY <1>3
        <5> QED
          BY <3>1, <5>1
      <4>2. \A q \in partials : p # q => p.inputs \cap q.inputs = {}
        BY <3>1 DEF IInv, CountedOnce
      <4> QED
        BY <3>1, <4>1, <4>2, <1>2, <1>4
    <3>2. CASE p \in Q
      <4>1. p.inputs \subseteq closing
        BY <3>2, <1>3
      <4>2. \A q \in Q : p # q => p.inputs \cap q.inputs = {}
        BY <3>2, <1>3
      <4>3. \A q \in partials : p.inputs \cap q.inputs = {}
        BY <4>1
      <4> QED
        BY <4>1, <4>2, <4>3, <1>2, <1>4
    <3> QED
      BY <3>1, <3>2, <1>4
  <2> QED
    BY <2>2, <2>3 DEF CountedOnce, SameWindow
<1>12. WatermarkJustified'
  <2> SUFFICES ASSUME NEW e \in Active(edgeEnded')
               PROVE  \/ completeThrough' <= edgeThrough'[e]
                      \/ \E f \in Edge :
                            completeThrough' + MaxSkew <= edgeThrough'[f]
    BY DEF WatermarkJustified
  <2>1. /\ e \in Active(edgeEnded)
        /\ \A f \in Edge : edgeThrough[f] \in Nat /\ edgeThrough'[f] \in Nat
        /\ e \in Edge
    BY DEF Active, IInv, TypeOK
  <2>2. CASE completeThrough' = completeThrough
    <3>1. CASE completeThrough <= edgeThrough[e]
      BY <2>1, <2>2, <3>1 DEF IInv, TypeOK
    <3>2. CASE \E f \in Edge : completeThrough + MaxSkew <= edgeThrough[f]
      <4>1. PICK f \in Edge : completeThrough + MaxSkew <= edgeThrough[f]
        BY <3>2
      <4>2. completeThrough' + MaxSkew <= edgeThrough'[f]
        BY <2>1, <2>2, <4>1, ConstantsAssumption DEF IInv, TypeOK
      <4> QED
        BY <4>2
    <3> QED
      BY <2>1, <3>1, <3>2 DEF IInv, WatermarkJustified
  <2> QED
    BY <1>1, <2>2 DEF AdvanceOutcome
<1>11. WatermarkKeepsUp'
  BY <1>1 DEF WatermarkKeepsUp, AdvanceOutcome
<1> QED
  BY <1>5, <1>6, <1>7, <1>8, <1>9, <1>10, <1>11, <1>12 DEF IInv

-----------------------------------------------------------------------------
LEMMA InitInvariant == Init => IInv
<1> SUFFICES ASSUME Init PROVE IInv
  OBVIOUS
<1>1. TypeOK
  BY DEF Init, TypeOK
<1>2. EndExact /\ OpenPastWatermark /\ PartialsCoherent
  BY DEF Init, EndExact, OpenPastWatermark, PartialsCoherent
<1>3. CertifiedIsFinal /\ WatermarkKeepsUp
  BY DEF Init, CertifiedIsFinal, WatermarkKeepsUp
<1>5. WatermarkJustified
  BY DEF Init, WatermarkJustified, Active
<1>4. CountedOnce
  BY DEF Init, CountedOnce
<1> QED
  BY <1>1, <1>2, <1>3, <1>4, <1>5 DEF IInv

\* A call that leaves the aggregator alone: an error, or a no-op.
LEMMA UnchangedPreserves ==
    ASSUME IInv, failed' \in BOOLEAN,
           \A r \in late' : r.input \in Input /\ r.watermark \in Nat,
           UNCHANGED <<edgeThrough, edgeEnded, last, windows, completeThrough,
                       ended, initialized, partials, accepted>>
    PROVE  IInv'
<1>1. TypeOK'
  BY DEF IInv, TypeOK
<1>2. EndExact' /\ OpenPastWatermark' /\ PartialsCoherent'
  BY DEF IInv, EndExact, OpenPastWatermark, PartialsCoherent, CloudEnd,
         CloudStart
<1>3. CertifiedIsFinal' /\ CountedOnce'
  BY DEF IInv, CertifiedIsFinal, CountedOnce, CloudEnd, CloudStart, SameWindow
<1>4. WatermarkKeepsUp' /\ WatermarkJustified'
  BY DEF IInv, WatermarkKeepsUp, WatermarkJustified, Active
<1> QED
  BY <1>1, <1>2, <1>3, <1>4 DEF IInv

LEMMA InitializePreserves == IInv /\ Initialize => IInv'
<1> SUFFICES ASSUME IInv, Initialize PROVE IInv'
  OBVIOUS
<1>1. /\ ended = FALSE
      /\ edgeThrough' \in [Edge -> Nat] /\ edgeEnded' \in SUBSET Edge
      /\ \A e1 \in Edge : edgeThrough[e1] <= edgeThrough'[e1]
      /\ edgeEnded \subseteq edgeEnded'
      /\ last' \in [Edge -> SUBSET Input]
      /\ failed' \in BOOLEAN
      /\ \A r \in late' : r.input \in Input /\ r.watermark \in Nat
      /\ initialized' = TRUE
  BY DEF IInv, TypeOK, EndExact, Initialize
<1>2. /\ \A i \in windows : CloudEnd(i) > completeThrough
      /\ \A p \in partials : p.inputs \cap windows = {}
      /\ accepted' = windows \cup UNION {p.inputs : p \in partials}
      /\ \A i, j \in accepted' : SameWindow(i, j) => i = j
      /\ windows \in SUBSET Input
  BY DEF IInv, TypeOK, OpenPastWatermark, CountedOnce, Initialize
<1>3. Advance(edgeThrough', edgeEnded', windows)
  BY DEF Initialize
<1> QED
  BY <1>1, <1>2, <1>3, AdvancePreserves

LEMMA EndEdgePreserves ==
    ASSUME IInv, NEW e \in Sender, EndEdgeFirst(e) PROVE IInv'
<1>1. /\ ended = FALSE
      /\ edgeThrough' \in [Edge -> Nat] /\ edgeEnded' \in SUBSET Edge
      /\ \A e1 \in Edge : edgeThrough[e1] <= edgeThrough'[e1]
      /\ edgeEnded \subseteq edgeEnded'
      /\ last' \in [Edge -> SUBSET Input]
      /\ failed' \in BOOLEAN
      /\ \A r \in late' : r.input \in Input /\ r.watermark \in Nat
      /\ initialized' = TRUE
  BY DEF IInv, TypeOK, EndEdgeFirst, Running
<1>2. /\ \A i \in windows : CloudEnd(i) > completeThrough
      /\ \A p \in partials : p.inputs \cap windows = {}
      /\ accepted' = windows \cup UNION {p.inputs : p \in partials}
      /\ \A i, j \in accepted' : SameWindow(i, j) => i = j
      /\ windows \in SUBSET Input
  BY DEF IInv, TypeOK, OpenPastWatermark, CountedOnce, EndEdgeFirst
<1>3. Advance(edgeThrough', edgeEnded', windows)
  BY DEF EndEdgeFirst
<1> QED
  BY <1>1, <1>2, <1>3, AdvancePreserves

(***************************************************************************)
(* A late record moves only the progress of its Edge.                      *)
(***************************************************************************)
LEMMA AddLatePreserves ==
    ASSUME IInv, NEW i \in Input, AddLate(i) PROVE IInv'
<1>0. i.edge \in Edge /\ i.through \in Nat
  BY ConstantsAssumption DEF AddLate, Admissible
<1>1. /\ edgeThrough' \in [Edge -> Nat]
      /\ \A e \in Edge : edgeThrough[e] <= edgeThrough'[e]
  BY <1>0 DEF IInv, TypeOK, AddLate, LaterOf
<1>2. last' \in [Edge -> SUBSET Input]
  BY <1>0 DEF IInv, TypeOK, AddLate
<1>3. Advance(edgeThrough', edgeEnded', windows)
  BY DEF AddLate
<1>4. /\ ended = FALSE
      /\ edgeEnded' \in SUBSET Edge /\ edgeEnded \subseteq edgeEnded'
      /\ failed' \in BOOLEAN
      /\ initialized' = TRUE
      /\ accepted' = accepted
      /\ late' = {[input |-> i, watermark |-> completeThrough']}
  BY DEF IInv, TypeOK, AddLate, Admissible, Running
<1>5. completeThrough' \in Nat
  <2>1. completeThrough \in Nat /\ windows \in SUBSET Input
    BY DEF IInv, TypeOK
  <2>2. AdvanceOutcome(edgeThrough', edgeEnded', windows)
    BY <1>1, <1>3, <1>4, <2>1, AdvanceEffect DEF IInv, OpenPastWatermark
  <2> QED
    BY <2>2 DEF AdvanceOutcome
<1>6. \A r \in late' : r.input \in Input /\ r.watermark \in Nat
  BY <1>4, <1>5
<1>7. /\ \A j \in windows : CloudEnd(j) > completeThrough
      /\ \A p \in partials : p.inputs \cap windows = {}
      /\ accepted' = windows \cup UNION {p.inputs : p \in partials}
      /\ \A j, k \in accepted' : SameWindow(j, k) => j = k
      /\ windows \in SUBSET Input
  BY <1>4 DEF IInv, TypeOK, OpenPastWatermark, CountedOnce
<1> QED
  BY <1>1, <1>2, <1>3, <1>4, <1>6, <1>7, AdvancePreserves

(***************************************************************************)
(* An input on time: its window ends after the watermark, so no partial    *)
(* holds an input of that window, and Add has just looked for its id in    *)
(* the open ones.                                                          *)
(***************************************************************************)
LEMMA AddOnTimePreserves ==
    ASSUME IInv, NEW i \in Input, AddOnTime(i) PROVE IInv'
<1>0. i.edge \in Edge /\ i.through \in Nat
  BY ConstantsAssumption DEF AddOnTime, Admissible
<1>1. /\ edgeThrough' \in [Edge -> Nat]
      /\ \A e \in Edge : edgeThrough[e] <= edgeThrough'[e]
      /\ last' \in [Edge -> SUBSET Input]
  BY <1>0 DEF IInv, TypeOK, AddOnTime, InOrder
<1>2. /\ ended = FALSE
      /\ edgeEnded' \in SUBSET Edge /\ edgeEnded \subseteq edgeEnded'
      /\ failed' \in BOOLEAN
      /\ initialized' = TRUE
      /\ accepted' = accepted \cup {i}
      /\ late' = {}
      /\ completeThrough \in Nat
  BY DEF IInv, TypeOK, AddOnTime, Admissible, Running
<1>3. Advance(edgeThrough', edgeEnded', windows \cup {i})
  BY DEF AddOnTime
<1>4. CloudEnd(i) > completeThrough
  <2>1. CloudEnd(i) \in Int /\ i.start \in Nat /\ CloudStart(i.start) \in Int
    BY CloudEndType, CloudStartType, ConstantsAssumption
  <2>2. CASE completeThrough # 0
    BY <2>1, <2>2, <1>2 DEF AddOnTime, IsLate
  <2>3. CASE completeThrough = 0
    <3>1. i.start < CloudEnd(i)
      BY <2>1, ConstantsAssumption DEF CloudEnd, CloudStart
    <3> QED
      BY <2>1, <2>3, <3>1
  <2> QED
    BY <2>2, <2>3
<1>5. \A p \in partials : \A j \in p.inputs : CloudStart(j.start) # CloudStart(i.start)
  <2> SUFFICES ASSUME NEW p \in partials, NEW j \in p.inputs,
                      CloudStart(j.start) = CloudStart(i.start)
               PROVE  FALSE
    OBVIOUS
  <2>1. /\ p.start + WindowSize <= p.through
        /\ p.through <= completeThrough
        /\ p.start = CloudStart(j.start)
        /\ p.start \in Int /\ p.through \in Int
    BY <1>2 DEF IInv, PartialsCoherent, TypeOK, Partial
  <2> QED
    BY <2>1, <1>2, <1>4, ConstantsAssumption DEF CloudEnd
<1>6. \A p \in partials : p.inputs \cap (windows \cup {i}) = {}
  BY <1>5 DEF IInv, CountedOnce
<1>7. \A j \in accepted : SameWindow(i, j) => i = j
  <2> SUFFICES ASSUME NEW j \in accepted, SameWindow(i, j) PROVE i = j
    OBVIOUS
  <2>1. j \in windows \/ \E p \in partials : j \in p.inputs
    BY DEF IInv, CountedOnce
  <2>2. ~\E p \in partials : j \in p.inputs
    BY <1>5 DEF SameWindow
  <2>3. SameID(i, j)
    BY DEF SameWindow, SameID
  <2>4. j \in Known(i)
    BY <2>1, <2>2, <2>3 DEF Known
  <2> QED
    BY <2>4 DEF AddOnTime
<1>8. \A j, k \in accepted' : SameWindow(j, k) => j = k
  <2>1. \A j, k \in accepted : SameWindow(j, k) => j = k
    BY DEF IInv, CountedOnce
  <2>2. \A j \in accepted : SameWindow(j, i) => j = i
    BY <1>7 DEF SameWindow
  <2> QED
    BY <1>2, <1>7, <2>1, <2>2
<1>9. accepted' = (windows \cup {i}) \cup UNION {p.inputs : p \in partials}
  BY <1>2 DEF IInv, CountedOnce
<1>10. /\ windows \cup {i} \in SUBSET Input
       /\ \A j \in windows \cup {i} : CloudEnd(j) > completeThrough
       /\ \A r \in late' : r.input \in Input /\ r.watermark \in Nat
  BY <1>2, <1>4 DEF IInv, TypeOK, OpenPastWatermark
<1> QED
  BY <1>1, <1>2, <1>3, <1>6, <1>8, <1>9, <1>10, AdvancePreserves

LEMMA NextPreserves == IInv /\ [Next]_vars => IInv'
<1> SUFFICES ASSUME IInv, [Next]_vars PROVE IInv'
  OBVIOUS
<1>1. CASE Initialize
  BY <1>1, InitializePreserves
<1>2. ASSUME NEW i \in Input, AddRejected(i) PROVE IInv'
  BY <1>2, UnchangedPreserves DEF AddRejected, Fail
<1>3. ASSUME NEW i \in Input, AddDuplicate(i) PROVE IInv'
  BY <1>3, UnchangedPreserves DEF AddDuplicate, Ignore, IInv, TypeOK
<1>4. ASSUME NEW i \in Input, AddLate(i) PROVE IInv'
  BY <1>4, AddLatePreserves
<1>5. ASSUME NEW i \in Input, AddOnTime(i) PROVE IInv'
  BY <1>5, AddOnTimePreserves
<1>6. ASSUME NEW e \in Sender, EndEdgeRejected(e) PROVE IInv'
  BY <1>6, UnchangedPreserves DEF EndEdgeRejected, Fail
<1>7. ASSUME NEW e \in Sender, EndEdgeAgain(e) PROVE IInv'
  BY <1>7, UnchangedPreserves DEF EndEdgeAgain, Ignore, IInv, TypeOK
<1>8. ASSUME NEW e \in Sender, EndEdgeFirst(e) PROVE IInv'
  BY <1>8, EndEdgePreserves
<1>9. CASE UNCHANGED vars
  BY <1>9, UnchangedPreserves DEF vars, IInv, TypeOK
<1> QED
  BY <1>1, <1>2, <1>3, <1>4, <1>5, <1>6, <1>7, <1>8, <1>9
     DEF Next, Add, EndEdge

-----------------------------------------------------------------------------
(***************************************************************************)
(* The aggregator never leaves its inductive invariant.                    *)
(***************************************************************************)
THEOREM Invariance == Spec => []IInv
<1>1. Init => IInv
  BY InitInvariant
<1>2. IInv /\ [Next]_vars => IInv'
  BY NextPreserves
<1> QED
  BY <1>1, <1>2, PTL DEF Spec

(***************************************************************************)
(* Type correctness of the aggregator's state and history.                 *)
(***************************************************************************)
THEOREM TypeCorrect == Spec => []TypeOK
<1>1. IInv => TypeOK
  BY DEF IInv
<1> QED
  BY <1>1, Invariance, PTL

(***************************************************************************)
(* What a partial certifies stays final, on every log: no window is        *)
(* emitted twice, and partials leave in window order.                      *)
(***************************************************************************)
THEOREM CertifiedFinality == Spec => []CertifiedIsFinal
<1>1. IInv => CertifiedIsFinal
  BY DEF IInv
<1> QED
  BY <1>1, Invariance, PTL

(***************************************************************************)
(* Every aggregate added to a window is counted by exactly one partial, or *)
(* still held.                                                             *)
(***************************************************************************)
THEOREM Conservation == Spec => []CountedOnce
<1>1. IInv => CountedOnce
  BY DEF IInv
<1> QED
  BY <1>1, Invariance, PTL

(***************************************************************************)
(* The watermark never trails the fastest active Edge by more than MaxSkew *)
(* once every active Edge was heard.                                       *)
(***************************************************************************)
THEOREM WatermarkProgress == Spec => []WatermarkKeepsUp
<1>1. IInv => WatermarkKeepsUp
  BY DEF IInv
<1> QED
  BY <1>1, Invariance, PTL

(***************************************************************************)
(* The watermark passes an active Edge only when some Edge is MaxSkew      *)
(* ahead of it.                                                            *)
(***************************************************************************)
THEOREM WatermarkJustification == Spec => []WatermarkJustified
<1>1. IInv => WatermarkJustified
  BY DEF IInv
<1> QED
  BY <1>1, Invariance, PTL

(***************************************************************************)
(* A partition ends exactly when its last member does, with nothing open,  *)
(* and nothing follows its end.                                            *)
(***************************************************************************)
THEOREM EndFinality == Spec => EndIsFinal
<1>1. IInv /\ IInv' /\ [Next]_vars => [EndStep]_vars
  <2> SUFFICES ASSUME IInv, IInv', Next PROVE EndStep
    OBVIOUS
  <2>1. /\ ended' <=> initialized' /\ edgeEnded' = Edge
        /\ ended' => windows' = {}
    BY DEF IInv, EndExact
  <2>2. ASSUME ended PROVE late' = {} /\ UNCHANGED <<partials, accepted>>
    <3>1. initialized /\ edgeEnded = Edge
      BY <2>2 DEF IInv, EndExact
    <3>2. /\ ~Initialize
          /\ \A i \in Input : ~AddLate(i) /\ ~AddOnTime(i)
          /\ \A e \in Sender : ~EndEdgeFirst(e)
      BY <2>2, <3>1 DEF Initialize, AddLate, AddOnTime, Admissible, EndEdgeFirst
    <3> QED
      BY <3>2 DEF Next, Add, AddRejected, AddDuplicate, EndEdge,
                  EndEdgeRejected, EndEdgeAgain, Fail, Ignore
  <2> QED
    BY <2>1, <2>2 DEF EndStep
<1> QED
  BY <1>1, Invariance, PTL DEF Spec, EndIsFinal

-----------------------------------------------------------------------------
(***************************************************************************)
(* The refinement.                                                         *)
(***************************************************************************)
(***************************************************************************)
(* The partials of one flush hold its inputs grouped by the ends of their  *)
(* windows.                                                                *)
(***************************************************************************)
LEMMA FlushGroups ==
    ASSUME NEW closing \in SUBSET Input, NEW frontier \in Int
    PROVE  {q.inputs : q \in Partials(closing, frontier)}
              = {{j \in closing : CloudEnd(j) = CloudEnd(i)} : i \in closing}
<1> DEFINE Ins(s) == {j \in closing : CloudStart(j.start) = s}
           Group(i) == {j \in closing : CloudEnd(j) = CloudEnd(i)}
           Starts == {CloudStart(i.start) : i \in closing}
           Q == Partials(closing, frontier)
<1>1. ASSUME NEW i \in closing PROVE Ins(CloudStart(i.start)) = Group(i)
  <2>1. ASSUME NEW j \in closing
        PROVE  CloudEnd(j) = CloudEnd(i)
                  <=> CloudStart(j.start) = CloudStart(i.start)
    <3>1. CloudStart(i.start) \in Int /\ CloudStart(j.start) \in Int
      BY CloudStartType, ConstantsAssumption
    <3> QED
      BY <3>1, ConstantsAssumption DEF CloudEnd
  <2> QED
    BY <2>1
<1>2. /\ \A q \in Q : \E s \in Starts : q.inputs = Ins(s)
      /\ \A s \in Starts : \E q \in Q : q.inputs = Ins(s)
  <2> DEFINE Thr(s) == IF \A t \in Starts : t <= s
                       THEN LaterOf(s + WindowSize, frontier)
                       ELSE s + WindowSize
             Part(s) == [start |-> s, through |-> Thr(s), inputs |-> Ins(s)]
  <2>1. Q = {Part(s) : s \in Starts}
    BY DEF Partials
  <2>2. \A s : Part(s).inputs = Ins(s)
    OBVIOUS
  <2> HIDE DEF Q, Part, Ins, Starts
  <2> QED
    BY <2>1, <2>2
<1>3. \A q \in Q : \E i \in closing : q.inputs = Group(i)
  BY <1>1, <1>2
<1>4. \A i \in closing : \E q \in Q : q.inputs = Group(i)
  BY <1>1, <1>2
<1> HIDE DEF Q, Group
<1>5. {q.inputs : q \in Q} = {Group(i) : i \in closing}
  BY <1>3, <1>4
<1> QED
  BY <1>5 DEF Q, Group

(***************************************************************************)
(* The Cloud window of an input on time ends past the watermark.           *)
(***************************************************************************)
LEMMA OnTimeIsOpen ==
    ASSUME IInv, NEW i \in Input, AddOnTime(i)
    PROVE  CloudEnd(i) > completeThrough
<1>1. /\ CloudEnd(i) \in Int /\ i.start \in Nat /\ CloudStart(i.start) \in Int
      /\ completeThrough \in Nat
  BY CloudEndType, CloudStartType, ConstantsAssumption DEF IInv, TypeOK
<1>2. CASE completeThrough # 0
  BY <1>1, <1>2 DEF AddOnTime, IsLate
<1>3. CASE completeThrough = 0
  <2>1. i.start < CloudEnd(i)
    BY <1>1, ConstantsAssumption DEF CloudEnd, CloudStart
  <2> QED
    BY <1>1, <1>3, <2>1
<1> QED
  BY <1>2, <1>3

(***************************************************************************)
(* A call that advances with the inputs new, which are past the watermark, *)
(* besides those it held.                                                  *)
(***************************************************************************)
Advances(new) ==
    /\ ended = FALSE
    /\ edgeThrough' \in [Edge -> Nat] /\ edgeEnded' \in SUBSET Edge
    /\ new \cap (windows \cup UNION {p.inputs : p \in partials}) = {}
    /\ \A i \in new : CloudEnd(i) > completeThrough
    /\ Advance(edgeThrough', edgeEnded', windows \cup new)

(***************************************************************************)
(* Every step of the aggregator leaves windows and partials alone or       *)
(* advances, with an input on time or with none.                           *)
(***************************************************************************)
LEMMA StepAdvances ==
    ASSUME IInv, [Next]_vars
    PROVE  \/ UNCHANGED <<windows, partials, ended>>
           \/ Advances({})
           \/ \E i \in Input : Advances({i})
<1> DEFINE Quiet == UNCHANGED <<windows, partials, ended>>
<1>1. ASSUME ended = FALSE,
             edgeThrough' \in [Edge -> Nat], edgeEnded' \in SUBSET Edge,
             Advance(edgeThrough', edgeEnded', windows)
      PROVE  Advances({})
  <2>1. windows \cup {} = windows
    OBVIOUS
  <2> QED
    BY <1>1, <2>1 DEF Advances
<1>2. CASE Initialize
  BY <1>1, <1>2 DEF Initialize, IInv, TypeOK, EndExact
<1>3. ASSUME NEW i \in Input, Add(i)
      PROVE  Quiet \/ Advances({}) \/ \E j \in Input : Advances({j})
  <2>1. CASE AddRejected(i) \/ AddDuplicate(i)
    BY <2>1 DEF AddRejected, AddDuplicate, Fail, Ignore
  <2>2. CASE AddLate(i)
    <3>1. i.edge \in Edge /\ i.through \in Nat /\ ended = FALSE
      BY <2>2, ConstantsAssumption DEF AddLate, Admissible, IInv, TypeOK
    <3>2. edgeThrough' \in [Edge -> Nat] /\ edgeEnded' \in SUBSET Edge
      BY <2>2, <3>1 DEF AddLate, LaterOf, IInv, TypeOK
    <3> QED
      BY <1>1, <2>2, <3>1, <3>2 DEF AddLate
  <2>3. CASE AddOnTime(i)
    <3>1. i.edge \in Edge /\ i.through \in Nat /\ ended = FALSE
      BY <2>3, ConstantsAssumption DEF AddOnTime, Admissible, IInv, TypeOK
    <3>2. edgeThrough' \in [Edge -> Nat] /\ edgeEnded' \in SUBSET Edge
      BY <2>3, <3>1 DEF AddOnTime, IInv, TypeOK
    <3>3. CloudEnd(i) > completeThrough
      BY <2>3, OnTimeIsOpen
    <3>4. i \notin windows \cup UNION {p.inputs : p \in partials}
      <4>1. i \notin windows
        BY <2>3 DEF AddOnTime, Known, SameID
      <4>2. ASSUME NEW p \in partials PROVE i \notin p.inputs
        <5>1. /\ p.start + WindowSize <= p.through
              /\ p.through <= completeThrough
              /\ i \in p.inputs => CloudStart(i.start) = p.start
              /\ p.start \in Int /\ p.through \in Int
              /\ completeThrough \in Nat
          BY <3>1 DEF IInv, PartialsCoherent, TypeOK, Partial
        <5> QED
          BY <3>3, <5>1, ConstantsAssumption DEF CloudEnd
      <4> QED
        BY <4>1, <4>2
    <3>5. Advance(edgeThrough', edgeEnded', windows \cup {i})
      BY <2>3 DEF AddOnTime
    <3> QED
      BY <3>1, <3>2, <3>3, <3>4, <3>5 DEF Advances
  <2> QED
    BY <1>3, <2>1, <2>2, <2>3 DEF Add
<1>4. ASSUME NEW e \in Sender, EndEdge(e)
      PROVE  Quiet \/ Advances({}) \/ \E j \in Input : Advances({j})
  <2>1. CASE EndEdgeRejected(e) \/ EndEdgeAgain(e)
    BY <2>1 DEF EndEdgeRejected, EndEdgeAgain, Fail, Ignore
  <2>2. CASE EndEdgeFirst(e)
    BY <1>1, <2>2 DEF EndEdgeFirst, IInv, TypeOK
  <2> QED
    BY <1>4, <2>1, <2>2 DEF EndEdge
<1>5. CASE UNCHANGED vars
  BY <1>5 DEF vars
<1> QED
  BY <1>2, <1>3, <1>4, <1>5 DEF Next

(***************************************************************************)
(* A call that advances, with at most one new input past the watermark     *)
(* among those it holds, is a step of the reduction.                       *)
(***************************************************************************)
LEMMA AdvanceReduces ==
    ASSUME IInv, NEW new \in SUBSET Input, Advances(new)
    PROVE  Reduction!Reduce(new)
<1> USE DEF Advances
<1> DEFINE held == windows \cup new
<1>1. /\ completeThrough \in Nat /\ held \in SUBSET Input
      /\ \A i \in held : CloudEnd(i) > completeThrough
  BY DEF IInv, TypeOK, OpenPastWatermark
<1>2. AdvanceOutcome(edgeThrough', edgeEnded', held)
  BY <1>1, AdvanceEffect
<1>3. PICK closing \in SUBSET held, frontier \in Int :
         /\ windows' = held \ closing
         /\ partials' = partials \cup Partials(closing, frontier)
         /\ ~ended' => /\ frontier <= completeThrough'
                       /\ \A i \in closing : CloudEnd(i) <= frontier
  BY <1>2 DEF AdvanceOutcome
<1>4. held \ windows' = closing
  BY <1>3
<1>5. {p.inputs : p \in partials'}
         = {p.inputs : p \in partials}
           \cup {{j \in closing : CloudEnd(j) = CloudEnd(i)} : i \in closing}
  <2>1. closing \in SUBSET Input
    BY <1>1
  <2> DEFINE Q == Partials(closing, frontier)
  <2>2. {p.inputs : p \in partials'}
           = {p.inputs : p \in partials} \cup {p.inputs : p \in Q}
    BY <1>3
  <2> QED
    BY <2>1, <2>2, FlushGroups
<1>6. ASSUME NEW i \in new, NEW p \in partials, NEW j \in p.inputs
      PROVE  CloudEnd(j) < CloudEnd(i)
  <2>1. /\ p.start + WindowSize <= p.through
        /\ p.through <= completeThrough
        /\ CloudStart(j.start) = p.start
        /\ p.start \in Int /\ p.through \in Int
    BY DEF IInv, PartialsCoherent, TypeOK, Partial
  <2>2. CloudEnd(i) \in Int /\ CloudEnd(i) > completeThrough
    BY CloudEndType
  <2> QED
    BY <2>1, <2>2, <1>1, ConstantsAssumption DEF CloudEnd
<1>7. ASSUME NEW i \in windows', NEW j \in closing
      PROVE  CloudEnd(j) < CloudEnd(i)
  <2>1. ended' = FALSE
    BY <1>2 DEF AdvanceOutcome
  <2>2. CloudEnd(j) <= completeThrough' /\ CloudEnd(i) > completeThrough'
    <3>1. CloudEnd(j) \in Int /\ completeThrough' \in Nat
      BY <1>1, <1>2, CloudEndType DEF AdvanceOutcome
    <3> QED
      BY <1>2, <1>3, <2>1, <3>1 DEF AdvanceOutcome
  <2>3. CloudEnd(j) \in Int /\ CloudEnd(i) \in Int /\ completeThrough' \in Nat
    BY <1>1, <1>2, <1>3, CloudEndType DEF AdvanceOutcome
  <2> QED
    BY <2>2, <2>3
<1>8. ended' \in BOOLEAN /\ (ended' => windows' = {})
  BY <1>2 DEF AdvanceOutcome
<1> DEFINE End == [i \in Input |-> CloudEnd(i)]
           Group(i) == {j \in closing : CloudEnd(j) = CloudEnd(i)}
<1>9. /\ \A i \in held : End[i] = CloudEnd(i)
      /\ \A p \in partials : \A j \in p.inputs : End[j] = CloudEnd(j)
      /\ windows' \subseteq held
  BY <1>1, <1>3 DEF IInv, TypeOK, Partial
<1>10. ASSUME NEW i \in closing
       PROVE  Reduction!Window(held \ windows', i) = Group(i)
  <2>1. {j \in closing : End[j] = End[i]} = Group(i)
    BY <1>9
  <2> QED
    BY <2>1, <1>4 DEF Reduction!Window
<1>11. \A i \in new : \A r \in {p.inputs : p \in partials} : \A j \in r :
           End[j] < End[i]
  BY <1>6, <1>9
<1>12. \A i \in windows', j \in held \ windows' : End[j] < End[i]
  BY <1>4, <1>7, <1>9
<1>13. {p.inputs : p \in partials'}
          = {p.inputs : p \in partials}
            \cup {Reduction!Window(held \ windows', i) : i \in held \ windows'}
  <2> HIDE DEF Group
  <2>1. {Reduction!Window(held \ windows', i) : i \in held \ windows'}
           = {Group(i) : i \in closing}
    BY <1>4, <1>10
  <2> QED
    BY <2>1, <1>5 DEF Group
<1> QED
  BY <1>8, <1>9, <1>11, <1>12, <1>13 DEF Reduction!Reduce

(***************************************************************************)
(* Every step of the aggregator is a call of the reduction or leaves it    *)
(* alone.                                                                  *)
(***************************************************************************)
LEMMA StepReduces ==
    IInv /\ [Next]_vars => [Reduction!Next]_(Reduction!vars)
<1> SUFFICES ASSUME IInv, [Next]_vars PROVE [Reduction!Next]_(Reduction!vars)
  OBVIOUS
<1>1. CASE UNCHANGED <<windows, partials, ended>>
  BY <1>1 DEF Reduction!vars
<1>2. CASE Advances({})
  BY <1>2, AdvanceReduces DEF Reduction!Next
<1>3. ASSUME NEW i \in Input, Advances({i}) PROVE Reduction!Next
  BY <1>3, AdvanceReduces DEF Reduction!Next
<1> QED
  BY <1>1, <1>2, <1>3, StepAdvances

(***************************************************************************)
(* The partition aggregator implements the windowed reduction: whatever    *)
(* the log holds, an Edge aggregate is taken at most once and given out    *)
(* once with its whole Cloud window, in order, and the end of the          *)
(* partition holds nothing back.                                           *)
(***************************************************************************)
THEOREM ReductionImplemented == Spec => ImplementsReduction
<1>1. Init => Reduction!Init
  BY DEF Init, Reduction!Init
<1>2. IInv /\ [Next]_vars => [Reduction!Next]_(Reduction!vars)
  BY StepReduces
<1> QED
  BY <1>1, <1>2, Invariance, PTL DEF Spec, ImplementsReduction, Reduction!Spec

-----------------------------------------------------------------------------
(***************************************************************************)
(* The interface to the Global Aggregator.                                 *)
(*                                                                         *)
(* The partials a call returns are aligned, start after all that were      *)
(* returned before and, in the order of their windows, in which flush      *)
(* returns them, each ends past what those before it certify: what         *)
(* GlobalIngest!Follows lets a partition write.                            *)
(***************************************************************************)
Returned == partials' \ partials

PartialsFollow ==
    \A q \in Returned :
        /\ q.start % WindowSize = 0
        /\ q.through >= q.start + WindowSize
        /\ \A p \in partials : p.start < q.start
        /\ \A p \in partials' :
               p.start < q.start => p.through < q.start + WindowSize

LEMMA CloudStartAligned ==
    ASSUME NEW t \in Nat PROVE CloudStart(t) % WindowSize = 0
<1>1. WindowSize \in Nat \ {0} /\ t \div WindowSize \in Nat
  BY ConstantsAssumption
<1>2. CloudStart(t) = WindowSize * (t \div WindowSize)
  BY <1>1 DEF CloudStart
<1>3. (WindowSize * (t \div WindowSize)) % WindowSize = 0
  BY <1>1
<1> QED
  BY <1>2, <1>3

LEMMA AdvanceFollows ==
    ASSUME IInv, IInv', NEW new \in SUBSET Input, Advances(new)
    PROVE  PartialsFollow
<1> DEFINE held == windows \cup new
<1>1. /\ completeThrough \in Nat /\ held \in SUBSET Input
      /\ \A i \in held : CloudEnd(i) > completeThrough
  BY DEF Advances, IInv, TypeOK, OpenPastWatermark
<1>2. AdvanceOutcome(edgeThrough', edgeEnded', held)
  BY <1>1, AdvanceEffect DEF Advances
<1>3. PICK closing \in SUBSET held, frontier \in Int :
         partials' = partials \cup Partials(closing, frontier)
  BY <1>2 DEF AdvanceOutcome
<1>4. SUFFICES ASSUME NEW q \in Partials(closing, frontier), q \in partials'
               PROVE  /\ q.start % WindowSize = 0
                      /\ q.through >= q.start + WindowSize
                      /\ \A p \in partials : p.start < q.start
                      /\ \A p \in partials' :
                             p.start < q.start => p.through < q.start + WindowSize
  BY <1>3 DEF PartialsFollow, Returned
<1>5. PICK i \in closing : q.start = CloudStart(i.start)
  <2>1. closing \in SUBSET Input
    BY <1>1
  <2> QED
    BY <2>1, PartialsFacts
<1>6. i \in Input /\ i.start \in Nat /\ CloudEnd(i) > completeThrough
  BY <1>1, ConstantsAssumption
<1>7. q.start % WindowSize = 0
  BY <1>5, <1>6, CloudStartAligned
<1>8. q.through >= q.start + WindowSize
  BY <1>4, ConstantsAssumption DEF IInv, PartialsCoherent, TypeOK, Partial
<1>9. ASSUME NEW p \in partials PROVE p.start < q.start
  <2>1. /\ p.start + WindowSize <= p.through /\ p.through <= completeThrough
        /\ p.start \in Int /\ p.through \in Int
    BY DEF Advances, IInv, PartialsCoherent, TypeOK, Partial
  <2>2. CloudEnd(i) = q.start + WindowSize /\ q.start \in Int
    BY <1>5, <1>6, CloudStartType DEF CloudEnd
  <2> QED
    BY <1>1, <1>6, <2>1, <2>2, ConstantsAssumption
<1>10. ASSUME NEW p \in partials', p.start < q.start
       PROVE  p.through < q.start + WindowSize
  BY <1>4, <1>10 DEF IInv, CertifiedIsFinal
<1> QED
  BY <1>7, <1>8, <1>9, <1>10

(***************************************************************************)
(* Whatever the Edges write, a partition's partials are a stream the       *)
(* Global Aggregator's model of a worker allows.                           *)
(***************************************************************************)
THEOREM PartialsFollowInOrder == Spec => [][PartialsFollow]_vars
<1>1. IInv /\ IInv' /\ [Next]_vars => [PartialsFollow]_vars
  <2> SUFFICES ASSUME IInv, IInv', [Next]_vars PROVE PartialsFollow
    OBVIOUS
  <2>1. CASE UNCHANGED <<windows, partials, ended>>
    BY <2>1 DEF PartialsFollow, Returned
  <2>2. CASE Advances({})
    BY <2>2, AdvanceFollows
  <2>3. ASSUME NEW i \in Input, Advances({i}) PROVE PartialsFollow
    BY <2>3, AdvanceFollows
  <2> QED
    BY <2>1, <2>2, <2>3, StepAdvances
<1> QED
  BY <1>1, Invariance, PTL DEF Spec

-----------------------------------------------------------------------------
\* The windows of the Edges are long enough for their ids: at least half of
\* what an id resolves.  Shorter ones can share an id (IDsAreUnique).
IDsResolve == \A i \in Input : Second <= 2 * (i.end - i.start)

\* The record an Edge wrote last.
LastOf(e) == IF written[e] = <<>> THEN {} ELSE {written[e][Len(written[e])]}

-----------------------------------------------------------------------------
(***************************************************************************)
(* The inductive invariant, beyond that of the aggregator.                 *)
(***************************************************************************)
\* What an Edge wrote is well formed, and every record starts at or after
\* what the records before it certify.
Stream(e) ==
    /\ written[e] \in Seq(Input)
    /\ \A k \in 1 .. Len(written[e]) :
          LET i == written[e][k] IN i.edge = e /\ WellFormed(i) /\ Aligned(i)
    /\ \A j, k \in 1 .. Len(written[e]) :
          j < k => written[e][j].through <= written[e][k].start

\* The aggregator's view of an Edge is what the Edge wrote last.
Tracked(e) == edgeThrough[e] = Certified(e) /\ last[e] = LastOf(e)

\* What the aggregator no longer holds lies behind the watermark: a repeated
\* record is either recognised or late.
Remembered ==
    ~ended => \A e \in Edge : \A i \in WrittenBy(e) :
                 i \in windows \/ CloudEnd(i) <= completeThrough

IngestIInv ==
    /\ IInv
    /\ written \in [Edge -> Seq(Input)]
    /\ \A e \in Edge : Stream(e) /\ Tracked(e)
    /\ Remembered
    /\ NeverRejects /\ BoundedLoss /\ EveryRecordAccounted

-----------------------------------------------------------------------------
(***************************************************************************)
(* Ids.                                                                    *)
(***************************************************************************)
LEMMA Quotient ==
    ASSUME NEW t \in Nat, NEW s \in Nat \ {0}
    PROVE  t \div s \in Int /\ s * (t \div s) <= t /\ t < s * (t \div s) + s
OBVIOUS

LEMMA Multiples ==
    ASSUME NEW s \in Nat \ {0}, NEW p \in Int, NEW q \in Int, s * p < s * q + s
    PROVE  p <= q
<1>1. SUFFICES ASSUME q + 1 <= p PROVE FALSE
  OBVIOUS
<1>2. s * (p - (q + 1)) >= 0
  BY <1>1
<1> QED
  BY <1>2

\* Two windows one after the other never share an id.
LEMMA IDsDistinguish ==
    ASSUME IDsResolve, NEW i \in Input, NEW j \in Input,
           WellFormed(i), WellFormed(j), i.end <= j.start
    PROVE  ~SameID(i, j) /\ ~SameID(j, i)
<1>1. SUFFICES ASSUME i.start \div Second = j.start \div Second,
                      i.end \div Second = j.end \div Second
               PROVE  FALSE
  BY DEF SameID
<1>2. /\ i.start \in Nat /\ i.end \in Nat /\ j.start \in Nat /\ j.end \in Nat
      /\ Second \in Nat \ {0} /\ i.start < i.end
      /\ Second <= 2 * (i.end - i.start) /\ Second <= 2 * (j.end - j.start)
  BY ConstantsAssumption DEF IDsResolve, WellFormed
<1> DEFINE p == i.start \div Second
           q == i.end \div Second
<1>3. /\ p \in Int /\ q \in Int
      /\ Second * p <= i.start /\ j.start < Second * p + Second
      /\ Second * q <= i.end /\ j.end < Second * q + Second
      /\ i.end < Second * q + Second
  BY <1>1, <1>2, Quotient
<1> HIDE DEF p, q
<1>4. Second * p \in Int /\ Second * q \in Int
  BY <1>2, <1>3
<1>5. q <= p
  <2>1. Second * q < Second * p + Second
    BY <1>2, <1>3, <1>4
  <2> QED
    BY <1>2, <1>3, <2>1, Multiples
<1>6. p <= q
  <2>1. Second * p < Second * q + Second
    BY <1>2, <1>3, <1>4
  <2> QED
    BY <1>2, <1>3, <2>1, Multiples
<1>7. p = q
  BY <1>3, <1>5, <1>6
<1> QED
  BY <1>2, <1>3, <1>4, <1>7

-----------------------------------------------------------------------------
(***************************************************************************)
(* What an Edge wrote.                                                     *)
(***************************************************************************)
LEMMA StreamFacts ==
    ASSUME NEW e \in Edge, Stream(e)
    PROVE  /\ \A i \in WrittenBy(e) :
                 /\ i \in Input /\ i.edge = e /\ WellFormed(i) /\ Aligned(i)
                 /\ i.through <= Certified(e)
           /\ \A i \in WrittenBy(e) : \A l \in LastOf(e) :
                 i = l \/ i.through <= l.start
           /\ \A i, j \in WrittenBy(e) :
                 i = j \/ i.through <= j.start \/ j.through <= i.start
           /\ LastOf(e) \subseteq WrittenBy(e)
           /\ \A l \in LastOf(e) : l.through = Certified(e)
           /\ LastOf(e) = {} => WrittenBy(e) = {} /\ Certified(e) = 0
           /\ Certified(e) \in Nat
<1> DEFINE s == written[e]
<1>1. s \in Seq(Input) /\ Len(s) \in Nat /\ DOMAIN s = 1 .. Len(s)
  BY DEF Stream
<1>2. ASSUME NEW k \in 1 .. Len(s)
      PROVE  /\ s[k] \in Input /\ s[k].edge = e /\ WellFormed(s[k]) /\ Aligned(s[k])
             /\ s[k].start \in Nat /\ s[k].end \in Nat /\ s[k].through \in Nat
             /\ s[k].start < s[k].end /\ s[k].end <= s[k].through
  BY <1>1, ConstantsAssumption DEF Stream, WellFormed
<1>3. WrittenBy(e) = {s[k] : k \in 1 .. Len(s)}
  BY <1>1 DEF WrittenBy
<1>4. \A j, k \in 1 .. Len(s) : j < k => s[j].through <= s[k].start
  BY DEF Stream
<1>5. CASE s = <<>>
  <2>1. Len(s) = 0
    BY <1>5
  <2>2. WrittenBy(e) = {} /\ LastOf(e) = {} /\ Certified(e) = 0
    BY <1>3, <1>5, <2>1 DEF LastOf, Certified
  <2> QED
    BY <2>2
<1>6. CASE s # <<>>
  <2>1. Len(s) \in 1 .. Len(s) /\ Len(s) \in Nat
    BY <1>1, <1>6
  <2>2. LastOf(e) = {s[Len(s)]} /\ Certified(e) = s[Len(s)].through
    BY <1>6 DEF LastOf, Certified
  <2> HIDE DEF s
  <2>3. LastOf(e) \subseteq WrittenBy(e) /\ Certified(e) \in Nat
    BY <1>2, <1>3, <2>1, <2>2
  <2>4. ASSUME NEW k \in 1 .. Len(s)
        PROVE  /\ k = Len(s) \/ s[k].through <= s[Len(s)].start
               /\ s[k].through <= s[Len(s)].through
    <3>1. k = Len(s) \/ k < Len(s)
      BY <2>1
    <3>2. k < Len(s) => s[k].through <= s[Len(s)].start
      BY <1>4, <2>1
    <3>3. s[Len(s)].start <= s[Len(s)].through
      BY <1>2, <2>1
    <3> QED
      BY <1>2, <2>1, <3>1, <3>2, <3>3
  <2>5. ASSUME NEW j \in 1 .. Len(s), NEW k \in 1 .. Len(s)
        PROVE  s[j] = s[k] \/ s[j].through <= s[k].start \/ s[k].through <= s[j].start
    <3>1. j = k \/ j < k \/ k < j
      OBVIOUS
    <3> QED
      BY <1>4, <3>1
  <2> QED
    BY <1>2, <1>3, <2>2, <2>3, <2>4, <2>5
<1> QED
  BY <1>5, <1>6

\* The stream after one more record.
LEMMA StreamGrows ==
    ASSUME written \in [Edge -> Seq(Input)], NEW e \in Edge, NEW i \in Input, Stream(e),
           Follows(e, i), written' = [written EXCEPT ![e] = Append(@, i)]
    PROVE  /\ written' \in [Edge -> Seq(Input)]
           /\ Stream(e)' /\ LastOf(e)' = {i} /\ Certified(e)' = i.through
           /\ WrittenBy(e)' = WrittenBy(e) \cup {i}
           /\ \A f \in Edge : f # e => written'[f] = written[f]
<1> DEFINE s == written[e]
           t == Append(s, i)
<1>1. s \in Seq(Input) /\ Len(s) \in Nat /\ DOMAIN s = 1 .. Len(s)
  BY DEF Stream
<1>2. /\ t \in Seq(Input) /\ Len(t) = Len(s) + 1 /\ t # <<>>
      /\ t[Len(s) + 1] = i /\ \A k \in 1 .. Len(s) : t[k] = s[k]
      /\ DOMAIN t = 1 .. Len(t)
  BY <1>1
<1>3. /\ written' \in [Edge -> Seq(Input)] /\ written'[e] = t
      /\ \A f \in Edge : f # e => written'[f] = written[f]
  BY <1>2
<1>4. ASSUME NEW k \in 1 .. Len(s) PROVE s[k].through <= i.start
  <2>1. s[k] \in WrittenBy(e)
    BY <1>1 DEF WrittenBy
  <2>2. s[k] \in Input /\ WellFormed(s[k]) /\ s[k].through <= Certified(e)
        /\ Certified(e) \in Nat
    BY <2>1, StreamFacts
  <2>3. Certified(e) # 0
    BY <2>2, ConstantsAssumption DEF WellFormed
  <2> QED
    BY <2>2, <2>3 DEF Follows
<1> HIDE DEF s, t
<1>5. \A k \in 1 .. Len(t) : \/ k \in 1 .. Len(s) /\ t[k] = s[k]
                             \/ k = Len(s) + 1 /\ t[k] = i
  BY <1>1, <1>2
<1>6. WrittenBy(e)' = WrittenBy(e) \cup {i}
  <2>1. WrittenBy(e)' = {t[k] : k \in 1 .. Len(t)}
    BY <1>2, <1>3 DEF WrittenBy
  <2>2. WrittenBy(e) = {s[k] : k \in 1 .. Len(s)}
    BY <1>1 DEF WrittenBy, s
  <2>3. \A x \in WrittenBy(e)' : x \in WrittenBy(e) \cup {i}
    BY <1>5, <2>1, <2>2
  <2>4. \A k \in 1 .. Len(s) : k \in 1 .. Len(t)
    BY <1>1, <1>2
  <2>5. Len(s) + 1 \in 1 .. Len(t)
    BY <1>1, <1>2
  <2> QED
    BY <1>2, <2>1, <2>2, <2>3, <2>4, <2>5
<1>7. Stream(e)'
  <2>1. \A k \in 1 .. Len(s) : s[k].edge = e /\ WellFormed(s[k]) /\ Aligned(s[k])
    BY DEF Stream, s
  <2>2. i.edge = e /\ WellFormed(i) /\ Aligned(i)
    BY DEF Follows
  <2>3. \A k \in 1 .. Len(t) : t[k].edge = e /\ WellFormed(t[k]) /\ Aligned(t[k])
    BY <1>5, <2>1, <2>2
  <2>4. ASSUME NEW j \in 1 .. Len(t), NEW k \in 1 .. Len(t), j < k
        PROVE  t[j].through <= t[k].start
    <3>1. j \in 1 .. Len(s) /\ t[j] = s[j]
      BY <1>1, <1>2, <1>5, <2>4
    <3>2. CASE k \in 1 .. Len(s) /\ t[k] = s[k]
      BY <2>4, <3>1, <3>2 DEF Stream, s
    <3>3. CASE t[k] = i
      BY <1>4, <3>1, <3>3
    <3> QED
      BY <1>5, <3>2, <3>3
  <2> QED
    BY <1>2, <1>3, <2>3, <2>4 DEF Stream, WellFormed, Aligned, CloudEnd, CloudStart
<1>8. LastOf(e)' = {i} /\ Certified(e)' = i.through
  BY <1>2, <1>3 DEF LastOf, Certified
<1> QED
  BY <1>3, <1>6, <1>7, <1>8

-----------------------------------------------------------------------------
(***************************************************************************)
(* What the aggregator makes of a record.                                  *)
(***************************************************************************)
LEMMA CloudEndPast ==
    ASSUME NEW i \in Input
    PROVE  CloudEnd(i) \in Int /\ i.start < CloudEnd(i) /\ 0 < CloudEnd(i)
<1>1. CloudEnd(i) \in Int /\ i.start \in Nat /\ CloudStart(i.start) \in Int
  BY CloudEndType, CloudStartType, ConstantsAssumption
<1>2. i.start < CloudEnd(i)
  BY <1>1, ConstantsAssumption DEF CloudEnd, CloudStart
<1> QED
  BY <1>1, <1>2

\* What the aggregator remembers of an Edge, the Edge wrote.
LEMMA KnownWritten ==
    ASSUME IngestIInv, NEW i \in Input, i.edge \in Edge
    PROVE  \A j \in Known(i) : j \in WrittenBy(i.edge) /\ SameID(i, j)
<1>1. SUFFICES ASSUME NEW j \in windows \cup last[i.edge], SameID(i, j)
               PROVE  j \in WrittenBy(i.edge)
  BY DEF Known
<1>2. CASE j \in last[i.edge]
  BY <1>2, StreamFacts DEF IngestIInv, Tracked
<1>3. CASE j \in windows
  <2>1. j \in UNION {WrittenBy(e) : e \in Edge}
    BY <1>3 DEF IngestIInv, IInv, CountedOnce, EveryRecordAccounted
  <2>2. PICK e \in Edge : j \in WrittenBy(e)
    BY <2>1
  <2>3. j.edge = e
    BY <2>2, StreamFacts DEF IngestIInv
  <2> QED
    BY <1>1, <2>2, <2>3 DEF SameID
<1> QED
  BY <1>1, <1>2, <1>3

\* A record that is new is neither known nor out of order.
LEMMA NewRecord ==
    ASSUME IDsResolve, IngestIInv, NEW e \in Edge \ edgeEnded, NEW i \in Input,
           Follows(e, i)
    PROVE  /\ i \notin WrittenBy(e) /\ Known(i) = {}
           /\ Admissible(i) /\ InOrder(i) /\ ~BeforeLast(i)
           /\ edgeThrough[e] <= i.start /\ edgeThrough[e] <= i.through
<1>1. /\ i.edge = e /\ WellFormed(i) /\ Aligned(i)
      /\ Certified(e) # 0 => i.start = Certified(e)
  BY DEF Follows
<1>2. /\ i.start \in Nat \ {0} /\ i.end \in Nat /\ i.through \in Nat
      /\ i.start < i.end /\ i.end <= i.through
  BY <1>1, ConstantsAssumption DEF WellFormed
<1>3. /\ Stream(e) /\ edgeThrough[e] = Certified(e) /\ last[e] = LastOf(e)
      /\ Certified(e) \in Nat
  BY StreamFacts DEF IngestIInv, Tracked
<1>4. ASSUME NEW j \in WrittenBy(e)
      PROVE  /\ j \in Input /\ WellFormed(j) /\ j.end <= i.start /\ j.start \in Nat
             /\ j.start < j.end
  <2>1. j \in Input /\ WellFormed(j) /\ j.through <= Certified(e)
    BY <1>3, StreamFacts
  <2>2. /\ j.start \in Nat /\ j.end \in Nat /\ j.through \in Nat
        /\ j.start < j.end /\ j.end <= j.through
    BY <2>1, ConstantsAssumption DEF WellFormed
  <2> QED
    BY <1>1, <1>3, <2>1, <2>2
<1>5. i \notin WrittenBy(e)
  BY <1>2, <1>4
<1>6. Known(i) = {}
  <2>1. ASSUME NEW j \in Known(i) PROVE FALSE
    <3>1. j \in WrittenBy(e) /\ SameID(i, j)
      BY <1>1, KnownWritten
    <3> QED
      BY <1>1, <1>4, <3>1, IDsDistinguish
  <2> QED
    BY <2>1
<1>7. Admissible(i)
  <2>1. ~ended
    BY DEF IngestIInv, IInv, EndExact
  <2> QED
    BY <1>1, <2>1 DEF Admissible
<1>8. ~BeforeLast(i)
  <2>1. ASSUME NEW l \in last[e] PROVE ~(i.start < l.end)
    <3>1. l \in WrittenBy(e)
      BY <1>3, StreamFacts
    <3>2. l.end <= i.start /\ l.end \in Nat
      BY <1>4, <3>1, ConstantsAssumption
    <3> QED
      BY <1>2, <3>2
  <2> QED
    BY <1>1, <2>1 DEF BeforeLast
<1>9. /\ edgeThrough[e] <= i.start /\ edgeThrough[e] <= i.through
      /\ edgeThrough[e] < i.end
  BY <1>1, <1>2, <1>3
<1>10. InOrder(i)
  BY <1>1, <1>2, <1>3, <1>8, <1>9 DEF InOrder
<1> QED
  BY <1>5, <1>6, <1>7, <1>8, <1>9, <1>10

\* A record that comes again is known, or late; a later one of its Edge is last.
LEMMA OldRecord ==
    ASSUME IDsResolve, IngestIInv, NEW e \in Edge \ edgeEnded, NEW i \in WrittenBy(e)
    PROVE  /\ i \in Input /\ i.edge = e /\ i.through \in Nat /\ i.through <= edgeThrough[e]
           /\ Admissible(i)
           /\ Known(i) = {i} \/ (Known(i) = {} /\ i \notin last[e] /\ IsLate(i))
           /\ i \notin last[e] => BeforeLast(i)
<1>1. /\ i \in Input /\ i.edge = e /\ WellFormed(i) /\ Aligned(i)
      /\ i.through <= Certified(e) /\ Stream(e)
      /\ edgeThrough[e] = Certified(e) /\ last[e] = LastOf(e)
  BY StreamFacts DEF IngestIInv, Tracked
<1>2. /\ i.start \in Nat \ {0} /\ i.end \in Nat /\ i.through \in Nat
      /\ i.start < i.end /\ i.end <= i.through
  BY <1>1, ConstantsAssumption DEF WellFormed
<1>3. ~ended
  BY DEF IngestIInv, IInv, EndExact
<1>4. Admissible(i)
  BY <1>1, <1>3 DEF Admissible
<1>5. Known(i) \subseteq {i}
  <2>1. ASSUME NEW j \in Known(i), j # i PROVE FALSE
    <3>1. j \in WrittenBy(e) /\ SameID(i, j)
      BY <1>1, KnownWritten
    <3>2. j \in Input /\ WellFormed(j) /\ (i.through <= j.start \/ j.through <= i.start)
      BY <1>1, <2>1, <3>1, StreamFacts
    <3>3. /\ j.start \in Nat /\ j.end \in Nat /\ j.through \in Nat /\ j.end <= j.through
      BY <3>2, ConstantsAssumption DEF WellFormed
    <3>4. i.end <= j.start \/ j.end <= i.start
      BY <1>2, <3>2, <3>3
    <3> QED
      BY <1>1, <3>1, <3>2, <3>4, IDsDistinguish
  <2> QED
    BY <2>1
<1>6. i \in windows \cup last[e] => i \in Known(i)
  BY <1>1 DEF Known, SameID
<1>7. i \notin windows => IsLate(i)
  <2>1. SUFFICES ASSUME i \notin windows PROVE IsLate(i)
    OBVIOUS
  <2>2. CloudEnd(i) <= completeThrough
    BY <1>3, <2>1 DEF IngestIInv, Remembered
  <2>3. CloudEnd(i) \in Int /\ 0 < CloudEnd(i)
    BY <1>1, CloudEndPast
  <2> QED
    BY <2>2, <2>3 DEF IsLate
<1>8. i \notin last[e] => BeforeLast(i)
  <2>1. SUFFICES ASSUME i \notin LastOf(e) PROVE \E l \in LastOf(e) : i.start < l.end
    BY <1>1 DEF BeforeLast
  <2>2. PICK l \in LastOf(e) : i.through <= l.start
    BY <1>1, <2>1, StreamFacts
  <2>3. l \in Input /\ WellFormed(l)
    BY <1>1, StreamFacts
  <2>4. l.start \in Nat /\ l.end \in Nat /\ l.start < l.end
    BY <2>3, ConstantsAssumption DEF WellFormed
  <2> QED
    BY <1>2, <2>2, <2>4
<1> QED
  BY <1>1, <1>2, <1>4, <1>5, <1>6, <1>7, <1>8

\* What a call of advance does not hold any more lies behind the watermark.
LEMMA AdvanceRemembers ==
    ASSUME NEW thr, NEW done, NEW held \in SUBSET Input, AdvanceOutcome(thr, done, held),
           completeThrough \in Nat
    PROVE  /\ completeThrough' \in Nat /\ completeThrough <= completeThrough'
           /\ ~ended' => \A i \in held : i \in windows' \/ CloudEnd(i) <= completeThrough'
<1>1. completeThrough' \in Nat /\ completeThrough <= completeThrough'
  BY DEF AdvanceOutcome
<1>2. ASSUME ~ended', NEW i \in held, i \notin windows'
      PROVE  CloudEnd(i) <= completeThrough'
  <2>1. PICK closing \in SUBSET held, frontier \in Int :
           /\ windows' = held \ closing
           /\ ~ended' => /\ frontier <= completeThrough'
                         /\ \A j \in closing : CloudEnd(j) <= frontier
    BY DEF AdvanceOutcome
  <2>2. CloudEnd(i) <= frontier /\ frontier <= completeThrough' /\ CloudEnd(i) \in Int
    BY <1>2, <2>1, CloudEndType
  <2> QED
    BY <1>1, <2>1, <2>2
<1> QED
  BY <1>1, <1>2

-----------------------------------------------------------------------------
(***************************************************************************)
(* The steps.                                                              *)
(***************************************************************************)
LEMMA RememberedKeeps ==
    ASSUME IngestIInv, ended = FALSE, NEW thr \in [Edge -> Nat],
           NEW done \in SUBSET Edge, NEW held \in SUBSET Input, windows \subseteq held,
           \A i \in held : CloudEnd(i) > completeThrough,
           Advance(thr, done, held)
    PROVE  /\ completeThrough \in Nat /\ completeThrough' \in Nat
           /\ completeThrough <= completeThrough'
           /\ ~ended' =>
                 /\ \A i \in held : i \in windows' \/ CloudEnd(i) <= completeThrough'
                 /\ \A e \in Edge : \A i \in WrittenBy(e) :
                       i \in windows' \/ CloudEnd(i) <= completeThrough'
<1>1. completeThrough \in Nat
  BY DEF IngestIInv, IInv, TypeOK
<1>2. AdvanceOutcome(thr, done, held)
  BY <1>1, AdvanceEffect
<1>3. /\ completeThrough' \in Nat /\ completeThrough <= completeThrough'
      /\ ~ended' => \A i \in held : i \in windows' \/ CloudEnd(i) <= completeThrough'
  BY <1>1, <1>2, AdvanceRemembers
<1>4. ASSUME ~ended', NEW e \in Edge, NEW i \in WrittenBy(e)
      PROVE  i \in windows' \/ CloudEnd(i) <= completeThrough'
  <2>1. CASE i \in windows
    BY <1>3, <1>4, <2>1
  <2>2. CASE CloudEnd(i) <= completeThrough
    <3>1. CloudEnd(i) \in Int
      BY StreamFacts, CloudEndType DEF IngestIInv
    <3> QED
      BY <1>1, <1>3, <2>2, <3>1
  <2> QED
    BY <2>1, <2>2 DEF IngestIInv, Remembered
<1> QED
  BY <1>1, <1>3, <1>4

\* The progress of the Edges only grows, and with it what explains a loss.
LEMMA LossKeeps ==
    ASSUME IngestIInv, edgeThrough' \in [Edge -> Nat],
           \A e \in Edge : edgeThrough[e] <= edgeThrough'[e]
    PROVE  \A i \in dropped : \E f \in Edge : CloudEnd(i) + MaxSkew <= edgeThrough'[f]
<1> SUFFICES ASSUME NEW i \in dropped
             PROVE  \E f \in Edge : CloudEnd(i) + MaxSkew <= edgeThrough'[f]
  OBVIOUS
<1>1. PICK f \in Edge : CloudEnd(i) + MaxSkew <= edgeThrough[f]
  BY DEF IngestIInv, BoundedLoss
<1>2. i \in Input
  <2>1. PICK e \in Edge : i \in WrittenBy(e)
    BY DEF IngestIInv, EveryRecordAccounted
  <2> QED
    BY <2>1, StreamFacts DEF IngestIInv
<1>3. CloudEnd(i) \in Int /\ MaxSkew \in Nat /\ edgeThrough[f] \in Nat /\ edgeThrough'[f] \in Nat
  BY <1>2, CloudEndType, ConstantsAssumption DEF IngestIInv, IInv, TypeOK
<1> QED
  BY <1>1, <1>3

\* Once over, a partition holds nothing back.
LEMMA EndEmpties ==
    ASSUME IInv, ended
    PROVE  accepted = UNION {p.inputs : p \in partials}
BY DEF IInv, EndExact, CountedOnce

\* The steps that write and lose nothing.
LEMMA QuietStep ==
    ASSUME IngestIInv, IInv', Remembered',
           UNCHANGED <<edgeThrough, last, failed, accepted, written, dropped>>,
           \A r \in late' : r.input \in accepted =>
              r.input # written[r.input.edge][Len(written[r.input.edge])]
    PROVE  IngestIInv'
<1>1. ASSUME NEW e \in Edge PROVE Stream(e)' /\ Tracked(e)'
  <2>1. Stream(e) /\ Tracked(e) /\ written'[e] = written[e]
        /\ edgeThrough'[e] = edgeThrough[e] /\ last'[e] = last[e]
    BY DEF IngestIInv
  <2>2. Stream(e)'
    BY <2>1 DEF Stream
  <2>3. Tracked(e)'
    BY <2>1 DEF Tracked, Certified, LastOf
  <2> QED
    BY <2>2, <2>3
<1>2. BoundedLoss' /\ NeverRejects'
  BY DEF IngestIInv, BoundedLoss, NeverRejects, CloudEnd, CloudStart
<1>3. EveryRecordAccounted'
  <2>1. \A e \in Edge : WrittenBy(e)' = WrittenBy(e)
    BY DEF WrittenBy
  <2>2. UNION {WrittenBy(e) : e \in Edge} = accepted \cup dropped
        /\ accepted \cap dropped = {}
    BY DEF IngestIInv, EveryRecordAccounted
  <2>3. (UNION {WrittenBy(e) : e \in Edge})' = accepted' \cup dropped'
    BY <2>1, <2>2
  <2>4. (ended => accepted = UNION {p.inputs : p \in partials})'
    BY DEF IInv, EndExact, CountedOnce
  <2> QED
    BY <2>2, <2>3, <2>4 DEF EveryRecordAccounted
<1> QED
  BY <1>1, <1>2, <1>3 DEF IngestIInv

LEMMA StartKeeps ==
    ASSUME IngestIInv, Start
    PROVE  IngestIInv'
<1>1. /\ ~initialized /\ initialized' = TRUE /\ Advance(edgeThrough, edgeEnded, windows)
      /\ UNCHANGED <<edgeThrough, edgeEnded, last, failed, late, accepted, written,
                     dropped>>
  BY DEF Start, Initialize
<1>2. IInv'
  BY InitializePreserves DEF IngestIInv, Start
<1>3. /\ ended = FALSE /\ windows \in SUBSET Input
      /\ edgeThrough \in [Edge -> Nat] /\ edgeEnded \in SUBSET Edge
      /\ \A i \in windows : CloudEnd(i) > completeThrough
  BY <1>1 DEF IngestIInv, IInv, TypeOK, EndExact, OpenPastWatermark
<1>4. Remembered'
  <2>1. ~ended' => \A e \in Edge : \A i \in WrittenBy(e) :
                      i \in windows' \/ CloudEnd(i) <= completeThrough'
    BY <1>1, <1>3, RememberedKeeps
  <2> QED
    BY <1>1, <2>1 DEF Remembered, WrittenBy, CloudEnd, CloudStart
<1>5. \A r \in late' : r.input \in accepted =>
         r.input # written[r.input.edge][Len(written[r.input.edge])]
  BY <1>1 DEF IngestIInv, EveryRecordAccounted
<1> QED
  BY <1>1, <1>2, <1>4, <1>5, QuietStep

\* The end of an Edge is never an error.
LEMMA EndInputKeeps ==
    ASSUME IngestIInv, NEW e \in Edge, EndInput(e)
    PROVE  IngestIInv'
<1>1. UNCHANGED <<written, dropped>> /\ e \in Sender
  BY ConstantsAssumption DEF EndInput
<1>2. CASE EndEdgeRejected(e)
  BY <1>2 DEF EndEdgeRejected, IngestIInv, IInv, EndExact
<1>3. CASE EndEdgeAgain(e)
  <2>1. /\ late' = {}
        /\ UNCHANGED <<edgeThrough, edgeEnded, last, windows, completeThrough, ended,
                       initialized, failed, partials, accepted>>
    BY <1>3 DEF EndEdgeAgain, Ignore
  <2>2. IInv'
    BY <2>1, UnchangedPreserves DEF IngestIInv, IInv, TypeOK
  <2>3. Remembered'
    BY <1>1, <2>1 DEF IngestIInv, Remembered, WrittenBy, CloudEnd, CloudStart
  <2> QED
    BY <1>1, <2>1, <2>2, <2>3, QuietStep
<1>4. CASE EndEdgeFirst(e)
  <2>1. /\ ended = FALSE /\ late' = {} /\ edgeEnded' = edgeEnded \cup {e}
        /\ Advance(edgeThrough, edgeEnded', windows)
        /\ UNCHANGED <<edgeThrough, last, failed, accepted>>
    BY <1>4 DEF EndEdgeFirst, IngestIInv, IInv, TypeOK
  <2>2. IInv'
    BY <1>1, <1>4, EndEdgePreserves DEF IngestIInv
  <2>3. /\ windows \in SUBSET Input
        /\ edgeThrough \in [Edge -> Nat] /\ edgeEnded' \in SUBSET Edge
        /\ \A i \in windows : CloudEnd(i) > completeThrough
    BY <2>1 DEF IngestIInv, IInv, TypeOK, OpenPastWatermark
  <2>4. Remembered'
    <3>1. ~ended' => \A f \in Edge : \A i \in WrittenBy(f) :
                        i \in windows' \/ CloudEnd(i) <= completeThrough'
      BY <2>1, <2>3, RememberedKeeps
    <3> QED
      BY <1>1, <3>1 DEF Remembered, WrittenBy, CloudEnd, CloudStart
  <2> QED
    BY <1>1, <2>1, <2>2, <2>4, QuietStep
<1> QED
  BY <1>2, <1>3, <1>4 DEF EndInput, EndEdge

\* A repeated record changes nothing, or is reported late once more.
LEMMA RedeliverKeeps ==
    ASSUME IDsResolve, IngestIInv, NEW e \in Edge, Redeliver(e)
    PROVE  IngestIInv'
<1>1. PICK i \in WrittenBy(e) : Add(i)
  BY DEF Redeliver
<1>2. UNCHANGED <<written, dropped>> /\ e \in Edge \ edgeEnded
  BY DEF Redeliver
<1>3. /\ i \in Input /\ i.edge = e /\ i.through \in Nat /\ i.through <= edgeThrough[e]
      /\ Admissible(i)
      /\ Known(i) = {i} \/ (Known(i) = {} /\ i \notin last[e] /\ IsLate(i))
      /\ i \notin last[e] => BeforeLast(i)
  BY <1>2, OldRecord
<1>4. ~AddRejected(i)
  BY <1>3 DEF AddRejected
<1>5. ~AddOnTime(i)
  BY <1>3 DEF AddOnTime
<1>6. CASE AddDuplicate(i)
  <2>1. /\ late' = {}
        /\ UNCHANGED <<edgeThrough, edgeEnded, last, windows, completeThrough, ended,
                       initialized, failed, partials, accepted>>
    BY <1>6 DEF AddDuplicate, Ignore
  <2>2. IInv'
    BY <2>1, UnchangedPreserves DEF IngestIInv, IInv, TypeOK
  <2>3. Remembered'
    BY <1>2, <2>1 DEF IngestIInv, Remembered, WrittenBy, CloudEnd, CloudStart
  <2> QED
    BY <1>2, <2>1, <2>2, <2>3, QuietStep
<1>7. CASE AddLate(i)
  <2>1. Known(i) = {} /\ i \notin last[e] /\ BeforeLast(i)
    BY <1>3, <1>7 DEF AddLate
  <2>2. /\ edgeThrough' = [edgeThrough EXCEPT ![e] = LaterOf(@, i.through)]
        /\ last' = last /\ Advance(edgeThrough', edgeEnded, windows)
        /\ late' = {[input |-> i, watermark |-> completeThrough']}
        /\ UNCHANGED <<edgeEnded, failed, accepted>>
    BY <1>3, <1>7, <2>1 DEF AddLate
  <2>3. edgeThrough \in [Edge -> Nat]
    BY DEF IngestIInv, IInv, TypeOK
  <2>4. LaterOf(edgeThrough[e], i.through) = edgeThrough[e]
    BY <1>3, <2>3 DEF LaterOf
  <2>5. edgeThrough' = edgeThrough
    BY <2>2, <2>3, <2>4
  <2>6. IInv'
    BY <1>3, <1>7, AddLatePreserves DEF IngestIInv
  <2>7. /\ ended = FALSE /\ windows \in SUBSET Input /\ edgeEnded \in SUBSET Edge
        /\ \A j \in windows : CloudEnd(j) > completeThrough
    BY <1>3 DEF IngestIInv, IInv, TypeOK, OpenPastWatermark, Admissible
  <2>8. Remembered'
    <3>1. ~ended' => \A f \in Edge : \A j \in WrittenBy(f) :
                        j \in windows' \/ CloudEnd(j) <= completeThrough'
      BY <2>2, <2>3, <2>5, <2>7, RememberedKeeps
    <3> QED
      BY <1>2, <3>1 DEF Remembered, WrittenBy, CloudEnd, CloudStart
  <2>9. ASSUME NEW r \in late'
        PROVE  r.input # written[r.input.edge][Len(written[r.input.edge])]
    <3>1. r.input = i
      BY <2>2
    <3>2. i \notin LastOf(e) /\ written[e] # <<>>
      BY <1>3, <2>1 DEF IngestIInv, Tracked, BeforeLast, LastOf
    <3> QED
      BY <1>3, <3>1, <3>2 DEF LastOf
  <2> QED
    BY <1>2, <2>2, <2>5, <2>6, <2>8, <2>9, QuietStep
<1> QED
  BY <1>1, <1>4, <1>5, <1>6, <1>7 DEF Add

\* A new record is counted, or lost for reasons of skew.
LEMMA DeliverKeeps ==
    ASSUME IDsResolve, IngestIInv, NEW e \in Edge, Deliver(e)
    PROVE  IngestIInv'
<1>1. PICK i \in Input :
         /\ Follows(e, i) /\ Add(i)
         /\ written' = [written EXCEPT ![e] = Append(@, i)]
         /\ dropped' = dropped \cup {r.input : r \in late'}
  BY DEF Deliver
<1>2. e \in Edge \ edgeEnded /\ i.edge = e
  BY <1>1 DEF Deliver, Follows
<1>3. /\ i \notin WrittenBy(e) /\ Known(i) = {}
      /\ Admissible(i) /\ InOrder(i) /\ ~BeforeLast(i)
      /\ edgeThrough[e] <= i.start /\ edgeThrough[e] <= i.through
  BY <1>1, <1>2, NewRecord
<1>4. /\ written' \in [Edge -> Seq(Input)]
      /\ Stream(e)' /\ LastOf(e)' = {i} /\ Certified(e)' = i.through
      /\ WrittenBy(e)' = WrittenBy(e) \cup {i}
      /\ \A f \in Edge : f # e => written'[f] = written[f]
  BY <1>1, StreamGrows DEF IngestIInv
<1>5. AddLate(i) \/ AddOnTime(i)
  BY <1>1, <1>3 DEF Add, AddRejected, AddDuplicate
<1>6. IInv'
  BY <1>5, AddLatePreserves, AddOnTimePreserves DEF IngestIInv
<1>7. /\ edgeThrough \in [Edge -> Nat] /\ last \in [Edge -> SUBSET Input]
      /\ i.through \in Nat /\ i.start \in Nat /\ edgeEnded \in SUBSET Edge
      /\ ended = FALSE /\ windows \in SUBSET Input /\ completeThrough \in Nat
      /\ \A j \in windows : CloudEnd(j) > completeThrough
  BY <1>3, ConstantsAssumption
     DEF IngestIInv, IInv, TypeOK, OpenPastWatermark, Admissible
<1>8. /\ edgeThrough' = [edgeThrough EXCEPT ![e] = i.through]
      /\ last' = [last EXCEPT ![e] = {i}]
      /\ failed' = failed
  <2>1. CASE AddOnTime(i)
    BY <1>2, <2>1 DEF AddOnTime
  <2>2. CASE AddLate(i)
    <3>1. LaterOf(edgeThrough[e], i.through) = i.through
      BY <1>3, <1>7 DEF LaterOf
    <3> QED
      BY <1>2, <1>3, <2>2, <3>1 DEF AddLate
  <2> QED
    BY <1>5, <2>1, <2>2
<1>9. /\ edgeThrough' \in [Edge -> Nat]
      /\ \A f \in Edge : edgeThrough[f] <= edgeThrough'[f]
  BY <1>3, <1>7, <1>8
<1>10. ASSUME NEW f \in Edge PROVE Stream(f)' /\ Tracked(f)'
  <2>1. CASE f = e
    BY <1>4, <1>7, <1>8, <2>1 DEF Tracked
  <2>2. CASE f # e
    <3>1. Stream(f) /\ Tracked(f) /\ written'[f] = written[f]
          /\ edgeThrough'[f] = edgeThrough[f] /\ last'[f] = last[f]
      BY <1>4, <1>7, <1>8, <2>2 DEF IngestIInv
    <3>2. Stream(f)'
      BY <3>1 DEF Stream
    <3>3. Tracked(f)'
      BY <3>1 DEF Tracked, Certified, LastOf
    <3> QED
      BY <3>2, <3>3
  <2> QED
    BY <2>1, <2>2
<1>11. \A f \in Edge : f # e => WrittenBy(f)' = WrittenBy(f)
  BY <1>4 DEF WrittenBy
<1>12. (UNION {WrittenBy(f) : f \in Edge})' = (UNION {WrittenBy(f) : f \in Edge}) \cup {i}
  BY <1>2, <1>4, <1>11
<1>13. i \notin accepted /\ i \notin dropped
  <2>1. ASSUME NEW f \in Edge, i \in WrittenBy(f) PROVE FALSE
    <3>1. i.edge = f
      BY <2>1, StreamFacts DEF IngestIInv
    <3> QED
      BY <1>2, <1>3, <2>1, <3>1
  <2> QED
    BY <2>1 DEF IngestIInv, EveryRecordAccounted
<1>14. /\ UNION {WrittenBy(f) : f \in Edge} = accepted \cup dropped
       /\ accepted \cap dropped = {}
  BY DEF IngestIInv, EveryRecordAccounted
<1>15. (ended => accepted = UNION {p.inputs : p \in partials})'
  BY <1>6 DEF IInv, EndExact, CountedOnce
<1>16. \A j \in dropped : \E f \in Edge : CloudEnd(j) + MaxSkew <= edgeThrough'[f]
  BY <1>9, LossKeeps
<1>17. NeverRejects'
  BY <1>8 DEF IngestIInv, NeverRejects
<1>18. CASE AddOnTime(i)
  <2>1. /\ accepted' = accepted \cup {i} /\ late' = {}
        /\ Advance(edgeThrough', edgeEnded, windows \cup {i})
    BY <1>18 DEF AddOnTime
  <2>2. dropped' = dropped
    BY <1>1, <2>1
  <2>3. CloudEnd(i) > completeThrough
    BY <1>7, <1>18, CloudEndPast DEF AddOnTime, IsLate
  <2>4. Remembered'
    <3>1. ASSUME ~ended'
          PROVE  /\ \A j \in windows \cup {i} :
                       j \in windows' \/ CloudEnd(j) <= completeThrough'
                 /\ \A f \in Edge : \A j \in WrittenBy(f) :
                       j \in windows' \/ CloudEnd(j) <= completeThrough'
      BY <1>7, <1>9, <2>1, <2>3, <3>1, RememberedKeeps
    <3>2. ASSUME ~ended', NEW f \in Edge, NEW j \in WrittenBy(f)'
          PROVE  j \in windows' \/ CloudEnd(j) <= completeThrough'
      <4>1. j \in WrittenBy(f) \/ j = i
        BY <1>4, <1>11, <3>2
      <4> QED
        BY <3>1, <3>2, <4>1
    <3> QED
      BY <3>2 DEF Remembered, CloudEnd, CloudStart
  <2>5. BoundedLoss'
    BY <1>16, <2>2 DEF BoundedLoss, CloudEnd, CloudStart
  <2>6. EveryRecordAccounted'
    <3>1. (UNION {WrittenBy(f) : f \in Edge})' = accepted' \cup dropped'
      BY <1>12, <1>14, <2>1, <2>2
    <3>2. accepted' \cap dropped' = {}
      BY <1>13, <1>14, <2>1, <2>2
    <3> QED
      BY <1>15, <2>1, <3>1, <3>2 DEF EveryRecordAccounted
  <2> QED
    BY <1>4, <1>6, <1>10, <1>17, <2>4, <2>5, <2>6 DEF IngestIInv
<1>19. CASE AddLate(i)
  <2>1. /\ accepted' = accepted /\ IsLate(i)
        /\ late' = {[input |-> i, watermark |-> completeThrough']}
        /\ Advance(edgeThrough', edgeEnded, windows)
    BY <1>19 DEF AddLate
  <2>2. dropped' = dropped \cup {i}
    BY <1>1, <2>1
  <2>3. CloudEnd(i) <= completeThrough /\ completeThrough # 0 /\ CloudEnd(i) \in Int
        /\ i.start < CloudEnd(i)
    BY <2>1, CloudEndPast DEF IsLate
  <2>4. Remembered'
    <3>1. completeThrough <= completeThrough' /\ completeThrough' \in Nat
      BY <1>7, <1>9, <2>1, RememberedKeeps
    <3>2. ASSUME ~ended', NEW f \in Edge, NEW j \in WrittenBy(f)
          PROVE  j \in windows' \/ CloudEnd(j) <= completeThrough'
      BY <1>7, <1>9, <2>1, <3>2, RememberedKeeps
    <3>3. CloudEnd(i) <= completeThrough'
      BY <1>7, <2>3, <3>1
    <3>4. ASSUME ~ended', NEW f \in Edge, NEW j \in WrittenBy(f)'
          PROVE  j \in windows' \/ CloudEnd(j) <= completeThrough'
      <4>1. j \in WrittenBy(f) \/ j = i
        BY <1>4, <1>11, <3>4
      <4> QED
        BY <3>2, <3>3, <3>4, <4>1
    <3> QED
      BY <3>4 DEF Remembered, CloudEnd, CloudStart
  <2>5. \E f \in Edge : CloudEnd(i) + MaxSkew <= edgeThrough'[f]
    <3>1. ~(completeThrough <= edgeThrough[e])
      BY <1>3, <1>7, <2>3
    <3>2. PICK f \in Edge : completeThrough + MaxSkew <= edgeThrough[f]
      BY <1>2, <1>7, <3>1 DEF IngestIInv, IInv, WatermarkJustified, Active
    <3>3. /\ edgeThrough[f] <= edgeThrough'[f] /\ edgeThrough[f] \in Nat
          /\ edgeThrough'[f] \in Nat /\ MaxSkew \in Nat
      BY <1>7, <1>9, ConstantsAssumption
    <3> QED
      BY <1>7, <2>3, <3>2, <3>3
  <2>6. BoundedLoss'
    BY <1>16, <2>2, <2>5 DEF BoundedLoss, CloudEnd, CloudStart
  <2>7. EveryRecordAccounted'
    <3>1. (UNION {WrittenBy(f) : f \in Edge})' = accepted' \cup dropped'
      BY <1>12, <1>14, <2>1, <2>2
    <3>2. accepted' \cap dropped' = {}
      BY <1>13, <1>14, <2>1, <2>2
    <3>3. \A r \in late' : r.input \notin accepted'
      BY <1>13, <2>1
    <3> QED
      BY <1>15, <3>1, <3>2, <3>3 DEF EveryRecordAccounted
  <2> QED
    BY <1>4, <1>6, <1>10, <1>17, <2>4, <2>6, <2>7 DEF IngestIInv
<1> QED
  BY <1>5, <1>18, <1>19

-----------------------------------------------------------------------------
LEMMA IngestInvariance ==
    ASSUME IDsResolve
    PROVE  IngestSpec => []IngestIInv
<1>1. IngestInit => IngestIInv
  <2> SUFFICES ASSUME IngestInit PROVE IngestIInv
    OBVIOUS
  <2>1. /\ Init /\ written = [e \in Edge |-> <<>>] /\ dropped = {}
    BY DEF IngestInit
  <2>2. IInv
    BY <2>1, InitInvariant
  <2>3. /\ edgeThrough = [e \in Edge |-> 0] /\ last = [e \in Edge |-> {}]
        /\ windows = {} /\ failed = FALSE /\ partials = {} /\ late = {} /\ accepted = {}
        /\ ended = FALSE
    BY <2>1 DEF Init
  <2>4. written \in [Edge -> Seq(Input)]
    <3>1. <<>> \in Seq(Input)
      OBVIOUS
    <3> QED
      BY <2>1, <3>1
  <2>5. \A e \in Edge : written[e] = <<>> /\ WrittenBy(e) = {}
    BY <2>1 DEF WrittenBy
  <2>6. ASSUME NEW e \in Edge PROVE Stream(e) /\ Tracked(e)
    <3>1. written[e] = <<>> /\ Len(written[e]) = 0 /\ written[e] \in Seq(Input)
      BY <2>4, <2>5
    <3>2. Stream(e)
      BY <3>1 DEF Stream
    <3>3. Tracked(e)
      BY <2>3, <3>1 DEF Tracked, Certified, LastOf
    <3> QED
      BY <3>2, <3>3
  <2>7. EveryRecordAccounted /\ BoundedLoss /\ NeverRejects /\ Remembered
    BY <2>1, <2>3, <2>5 DEF EveryRecordAccounted, BoundedLoss, NeverRejects, Remembered
  <2> QED
    BY <2>2, <2>4, <2>6, <2>7 DEF IngestIInv
<1>2. IngestIInv /\ [IngestNext]_ingestVars => IngestIInv'
  <2> SUFFICES ASSUME IngestIInv, [IngestNext]_ingestVars PROVE IngestIInv'
    OBVIOUS
  <2>1. CASE UNCHANGED ingestVars
    <3>1. UNCHANGED <<edgeThrough, edgeEnded, last, windows, completeThrough, ended,
                      initialized, failed, partials, late, accepted, written, dropped>>
      BY <2>1 DEF ingestVars, vars
    <3>2. IInv'
      BY <3>1, UnchangedPreserves DEF IngestIInv, IInv, TypeOK
    <3>3. Remembered'
      BY <3>1 DEF IngestIInv, Remembered, WrittenBy, CloudEnd, CloudStart
    <3>4. \A r \in late' : r.input \in accepted =>
             r.input # written[r.input.edge][Len(written[r.input.edge])]
      BY <3>1 DEF IngestIInv, EveryRecordAccounted
    <3> QED
      BY <3>1, <3>2, <3>3, <3>4, QuietStep
  <2> QED
    BY <2>1, StartKeeps, DeliverKeeps, RedeliverKeeps, EndInputKeeps DEF IngestNext
<1> QED
  BY <1>1, <1>2, PTL DEF IngestSpec

(***************************************************************************)
(* Add and EndEdge return no error on what the Edges of the partition      *)
(* write, however it is interleaved and repeated.                          *)
(***************************************************************************)
THEOREM NoRejection ==
    ASSUME IDsResolve
    PROVE  IngestSpec => []NeverRejects
<1>1. IngestIInv => NeverRejects
  BY DEF IngestIInv
<1> QED
  BY <1>1, IngestInvariance, PTL

(***************************************************************************)
(* An aggregate is lost only when an Edge of the partition was MaxSkew     *)
(* past the end of its window (advance, Output.Late).                      *)
(***************************************************************************)
THEOREM LossIsBounded ==
    ASSUME IDsResolve
    PROVE  IngestSpec => []BoundedLoss
<1>1. IngestIInv => BoundedLoss
  BY DEF IngestIInv
<1> QED
  BY <1>1, IngestInvariance, PTL

(***************************************************************************)
(* Every record written is counted once or reported late, and a partition  *)
(* that ended has put every counted one in a partial (Add, advance).       *)
(***************************************************************************)
THEOREM Accounting ==
    ASSUME IDsResolve
    PROVE  IngestSpec => []EveryRecordAccounted
<1>1. IngestIInv => EveryRecordAccounted
  BY DEF IngestIInv
<1> QED
  BY <1>1, IngestInvariance, PTL

-----------------------------------------------------------------------------
(***************************************************************************)
(* What the Edges write is a log: the aggregator fed by them does what the *)
(* aggregator does on some log, so the theorems about Spec hold of it,     *)
(* windows too short for their ids included.                               *)
(***************************************************************************)
LEMMA WrittenType ==
    ASSUME written \in [Edge -> Seq(Input)], [IngestNext]_ingestVars
    PROVE  written' \in [Edge -> Seq(Input)]
<1>1. CASE UNCHANGED written
  BY <1>1
<1>2. ASSUME NEW e \in Edge, Deliver(e) PROVE written' \in [Edge -> Seq(Input)]
  <2>1. PICK i \in Input : written' = [written EXCEPT ![e] = Append(@, i)]
    BY <1>2 DEF Deliver
  <2>2. Append(written[e], i) \in Seq(Input)
    OBVIOUS
  <2> QED
    BY <2>1, <2>2
<1> QED
  BY <1>1, <1>2 DEF IngestNext, ingestVars, Start, Redeliver, EndInput

LEMMA IngestStep ==
    ASSUME written \in [Edge -> Seq(Input)], [IngestNext]_ingestVars
    PROVE  [Next]_vars
<1>1. CASE UNCHANGED ingestVars
  BY <1>1 DEF ingestVars
<1>2. CASE Start
  BY <1>2 DEF Start, Next
<1>3. ASSUME NEW e \in Edge, Deliver(e) PROVE Next
  BY <1>3 DEF Deliver, Next
<1>4. ASSUME NEW e \in Edge, Redeliver(e) PROVE Next
  <2>1. PICK i \in WrittenBy(e) : Add(i)
    BY <1>4 DEF Redeliver
  <2>2. i \in Input
    <3>1. written[e] \in Seq(Input)
      OBVIOUS
    <3> QED
      BY <3>1 DEF WrittenBy
  <2> QED
    BY <2>1, <2>2 DEF Next
<1>5. ASSUME NEW e \in Edge, EndInput(e) PROVE Next
  <2>1. e \in Sender
    BY ConstantsAssumption
  <2> QED
    BY <1>5, <2>1 DEF EndInput, Next
<1> QED
  BY <1>1, <1>2, <1>3, <1>4, <1>5 DEF IngestNext

(***************************************************************************)
(* The partition fed by its Edges is a partition on an arbitrary log.      *)
(***************************************************************************)
THEOREM IngestIsALog == IngestSpec => Spec
<1>1. IngestInit => Init /\ written \in [Edge -> Seq(Input)]
  <2>1. <<>> \in Seq(Input)
    OBVIOUS
  <2> QED
    BY <2>1 DEF IngestInit
<1>2. written \in [Edge -> Seq(Input)] /\ [IngestNext]_ingestVars
      => (written \in [Edge -> Seq(Input)])' /\ [Next]_vars
  BY WrittenType, IngestStep
<1> QED
  BY <1>1, <1>2, PTL DEF IngestSpec, Spec
=============================================================================
