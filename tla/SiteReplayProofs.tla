--------------------------- MODULE SiteReplayProofs ---------------------------
(***************************************************************************)
(* Theorems about EdgeSubscription and SiteReplay, for every number of     *)
(* connections and attempts: an Edge that announces itself is subscribed,  *)
(* and the end of replay is not dropped on the connection the probe saw.   *)
(***************************************************************************)
EXTENDS SiteReplay, TLAPS

Stage == Returned \cup Entering
           \cup {"check", "subscribe", "wait", "recheck", "mark", "failed"}

\* The request of the handler is out, and what became of it.
Requested == {"wait", "recheck", "mark", "announced"}
Answered == {"recheck", "mark", "announced"}
Undecided == {"wait", "recheck", "mark"}

\* Connection s is up, or it is lost and no handler has said so yet.
Unrefuted(s) == (connected /\ session = s) \/ onLost[s] = "start"

-----------------------------------------------------------------------------
(***************************************************************************)
(* The inductive invariant.                                                *)
(***************************************************************************)
Types ==
    /\ session \in 0 .. MaxConnections /\ connected \in BOOLEAN
    /\ connected => session # 0
    /\ generation \in Nat
    /\ onConnect \in [Connection -> Stage]
    /\ own \in [Connection -> Nat]
    /\ sentOn \in [Connection -> 0 .. MaxConnections]
    /\ onLost \in [Connection -> {"none", "start", "invalidated", "returned"}]

\* A handler whose generation is still the current one has seen no connection
\* go since it began, or the loss is not yet counted.
Handler(c) ==
    /\ onConnect[c] # "none" => c <= session
    /\ own[c] <= generation
    /\ onConnect[c] \in Requested => c <= sentOn[c] /\ sentOn[c] <= session
    /\ onConnect[c] \in Answered => sentOn[c] \in subscribed
    /\ onConnect[c] \in Undecided /\ own[c] = generation => Unrefuted(sentOn[c])
    /\ onConnect[c] = "mark" /\ c \notin overtaken => own[c] = generation

Flag ==
    /\ ready # 0 => ready \in Connection /\ onConnect[ready] = "announced"
    /\ ReadyIsSubscribed

IInv == Types /\ (\A c \in Connection : Handler(c)) /\ Flag

(***************************************************************************)
(* While the connection that the probe's announcement vouched for is up,   *)
(* the end of replay is heard or on its way over it                        *)
(* (publishEndOfReplay, the Edge's message handler).                       *)
(***************************************************************************)
EndIsNotDropped ==
    ended /\ connected /\ session = probed => heard \/ inFlight = session

SiteIInv ==
    /\ IInv
    /\ probed # 0 => probed \in 1 .. session
                     /\ (session = probed => probed \in subscribed)
    /\ ended \in BOOLEAN /\ (ended => probed # 0)
    /\ heard \in BOOLEAN
    /\ EndIsNotDropped

-----------------------------------------------------------------------------
LEMMA InitialState == Init => IInv
<1> SUFFICES ASSUME Init PROVE IInv
  OBVIOUS
<1>1. Types
  <2>1. /\ session = 0 /\ connected = FALSE /\ generation = 0
        /\ onConnect = [c \in Connection |-> "none"] /\ own = [c \in Connection |-> 0]
        /\ sentOn = [c \in Connection |-> 0] /\ onLost = [c \in Connection |-> "none"]
    BY DEF Init
  <2>2. 0 \in 0 .. MaxConnections /\ "none" \in Stage
    BY ConstantsAssumption DEF Stage, Returned
  <2> QED
    BY <2>1, <2>2 DEF Types
<1>2. ASSUME NEW c \in Connection PROVE Handler(c)
  BY DEF Init, Handler, Requested, Answered, Undecided
<1>3. Flag
  BY DEF Init, Flag, ReadyIsSubscribed, Announced
<1> QED
  BY <1>1, <1>2, <1>3 DEF IInv

-----------------------------------------------------------------------------
(***************************************************************************)
(* The client and the connection-lost handler.                             *)
(***************************************************************************)
LEMMA ConnectKeeps ==
    ASSUME IInv, Connect
    PROVE  IInv'
<1>1. /\ ~connected /\ session < MaxConnections
      /\ session' = session + 1 /\ connected' = TRUE
      /\ onConnect' = [onConnect EXCEPT ![session + 1] = "start"]
      /\ UNCHANGED <<subscribed, generation, ready, own, sentOn, onLost, overtaken>>
  BY DEF Connect
<1>2. Types
  BY DEF IInv
<1>3. session + 1 \in Connection /\ session \in Nat
  BY <1>1, <1>2, ConstantsAssumption DEF Types, Connection
<1>4. Types'
  <2>1. session' \in 0 .. MaxConnections /\ session' # 0 /\ connected' \in BOOLEAN
    BY <1>1, <1>3 DEF Connection
  <2>2. onConnect' \in [Connection -> Stage]
    BY <1>1, <1>2 DEF Types, Stage, Entering
  <2> QED
    BY <1>1, <1>2, <2>1, <2>2 DEF Types
<1>5. ASSUME NEW c \in Connection PROVE Handler(c)'
  <2>1. Handler(c) /\ c \in Nat /\ sentOn[c] \in Nat
    BY <1>2 DEF IInv, Connection, Types
  <2>2. CASE c = session + 1
    BY <1>1, <1>2, <1>3, <2>1, <2>2
       DEF Handler, Types, Requested, Answered, Undecided
  <2>3. CASE c # session + 1
    <3>1. onConnect'[c] = onConnect[c]
      BY <1>1, <1>2, <2>3 DEF Types
    <3> QED
      BY <1>1, <1>3, <2>1, <3>1 DEF Handler, Unrefuted
  <2> QED
    BY <2>2, <2>3
<1>6. Flag'
  <2>1. ready # 0 => onConnect'[ready] = "announced"
    <3>1. SUFFICES ASSUME ready # 0 PROVE onConnect'[ready] = "announced"
      OBVIOUS
    <3>2. ready \in Connection /\ onConnect[ready] = "announced" /\ ready <= session
      BY <3>1 DEF IInv, Flag, Handler
    <3>3. ready # session + 1
      BY <1>3, <3>2 DEF Connection
    <3> QED
      BY <1>1, <1>2, <3>2, <3>3 DEF Types
  <2>2. ReadyIsSubscribed'
    BY <1>1 DEF IInv, Flag, ReadyIsSubscribed, Announced
  <2> QED
    BY <1>1, <2>1, <2>2 DEF IInv, Flag
<1> QED
  BY <1>4, <1>5, <1>6 DEF IInv

LEMMA LoseKeeps ==
    ASSUME IInv, Lose
    PROVE  IInv'
<1>1. /\ connected /\ connected' = FALSE
      /\ onLost' = [onLost EXCEPT ![session] = "start"]
      /\ UNCHANGED <<session, subscribed, generation, ready, onConnect, own, sentOn,
                     overtaken>>
  BY DEF Lose, handlers
<1>2. Types /\ session \in Connection
  BY <1>1 DEF IInv, Types, Connection
<1>3. onLost'[session] = "start" /\ \A c \in Connection : c # session => onLost'[c] = onLost[c]
  BY <1>1, <1>2 DEF Types
<1>4. Types'
  <2>1. onLost' \in [Connection -> {"none", "start", "invalidated", "returned"}]
    BY <1>1, <1>2 DEF Types
  <2> QED
    BY <1>1, <1>2, <2>1 DEF Types
<1>5. ASSUME NEW c \in Connection PROVE Handler(c)'
  <2>1. Handler(c) /\ c \in 1 .. MaxConnections /\ sentOn[c] \in 0 .. MaxConnections
    BY <1>2 DEF IInv, Types, Connection
  <2>2. onConnect[c] \in Undecided /\ own[c] = generation => Unrefuted(sentOn[c])'
    <3>1. SUFFICES ASSUME onConnect[c] \in Undecided, own[c] = generation
                   PROVE  onLost'[sentOn[c]] = "start"
      BY <1>1 DEF Unrefuted
    <3>2. sentOn[c] \in Connection
      BY <2>1, <3>1 DEF Handler, Undecided, Requested, Connection
    <3> QED
      BY <1>3, <2>1, <3>1, <3>2 DEF Handler, Unrefuted
  <2> QED
    BY <1>1, <2>1, <2>2 DEF Handler
<1>6. Flag'
  BY <1>1, <1>2, <1>3 DEF IInv, Flag, ReadyIsSubscribed, Announced
<1> QED
  BY <1>4, <1>5, <1>6 DEF IInv

\* The counter moves on: no handler that began before is current any more.
LEMMA AdvanceOutdates ==
    ASSUME IInv, Advance, NEW c \in Connection
    PROVE  /\ generation \in Nat /\ generation' = generation + 1 /\ own[c] < generation'
           /\ onConnect[c] = "mark" => c \in overtaken'
           /\ overtaken \subseteq overtaken'
BY DEF IInv, Types, Handler, Advance

LEMMA InvalidateKeeps ==
    ASSUME IInv, NEW x \in Connection, Invalidate(x)
    PROVE  IInv'
<1>1. /\ onLost' = [onLost EXCEPT ![x] = "invalidated"] /\ Advance
      /\ UNCHANGED <<session, connected, subscribed, ready, onConnect, own, sentOn>>
  BY DEF Invalidate, network, handlers
<1>2. Types
  BY DEF IInv
<1>3. Types'
  <2>1. onLost' \in [Connection -> {"none", "start", "invalidated", "returned"}]
    BY <1>1, <1>2 DEF Types
  <2>2. generation' \in Nat
    BY <1>1, <1>2 DEF Types, Advance
  <2> QED
    BY <1>1, <1>2, <2>1, <2>2 DEF Types
<1>4. ASSUME NEW c \in Connection PROVE Handler(c)'
  <2>1. Handler(c) /\ own[c] \in Nat
    BY <1>2 DEF IInv, Types
  <2>2. own[c] < generation' /\ generation' \in Nat
        /\ (onConnect[c] = "mark" => c \in overtaken')
    BY <1>1, <1>2, AdvanceOutdates DEF Types
  <2> QED
    BY <1>1, <2>1, <2>2 DEF Handler
<1>5. Flag'
  <2>1. onLost'[x] = "invalidated"
    BY <1>1, <1>2 DEF Types
  <2> QED
    BY <1>1, <2>1 DEF IInv, Flag, ReadyIsSubscribed
<1> QED
  BY <1>3, <1>4, <1>5 DEF IInv

\* The flag goes down: so much for what it says.
LEMMA LostNotReadyKeeps ==
    ASSUME IInv, NEW x \in Connection, LostNotReady(x)
    PROVE  IInv'
<1>1. /\ onLost[x] = "invalidated" /\ onLost' = [onLost EXCEPT ![x] = "returned"]
      /\ ready' = 0
      /\ UNCHANGED <<session, connected, subscribed, generation, onConnect, own, sentOn,
                     overtaken>>
  BY DEF LostNotReady, network, handlers
<1>2. Types
  BY DEF IInv
<1>3. Types'
  <2>1. onLost' \in [Connection -> {"none", "start", "invalidated", "returned"}]
    BY <1>1, <1>2 DEF Types
  <2> QED
    BY <1>1, <1>2, <2>1 DEF Types
<1>4. ASSUME NEW c \in Connection PROVE Handler(c)'
  <2>1. Handler(c) /\ sentOn[c] \in 0 .. MaxConnections
    BY <1>2 DEF IInv, Types
  <2>2. onLost[sentOn[c]] = "start" => onLost'[sentOn[c]] = "start"
    BY <1>1, <1>2 DEF Types
  <2> QED
    BY <1>1, <2>1, <2>2 DEF Handler, Unrefuted
<1>5. Flag'
  BY <1>1 DEF Flag, ReadyIsSubscribed, Announced
<1> QED
  BY <1>3, <1>4, <1>5 DEF IInv

-----------------------------------------------------------------------------
(***************************************************************************)
(* The connect handler.                                                    *)
(***************************************************************************)
\* A step of c's handler that announces nothing.
LEMMA HandlerStep ==
    ASSUME IInv, NEW c \in Connection, Same, NEW to \in Stage,
           onConnect[c] \notin {"none", "announced"},
           onConnect' = [onConnect EXCEPT ![c] = to],
           sentOn' \in [Connection -> 0 .. MaxConnections],
           \A d \in Connection : d # c => sentOn'[d] = sentOn[d],
           subscribed \subseteq subscribed', ready' \in {0, ready},
           to \in Requested => c <= sentOn'[c] /\ sentOn'[c] <= session,
           to \in Answered => sentOn'[c] \in subscribed',
           to \in Undecided /\ own[c] = generation => Unrefuted(sentOn'[c]),
           to = "mark" /\ c \notin overtaken => own[c] = generation
    PROVE  IInv'
<1>1. UNCHANGED <<session, connected, generation, own, onLost, overtaken>>
  BY DEF Same, network
<1>2. Types
  BY DEF IInv
<1>3. /\ onConnect' \in [Connection -> Stage] /\ onConnect'[c] = to
      /\ \A d \in Connection : d # c => onConnect'[d] = onConnect[d]
  BY <1>2 DEF Types
<1>4. Types'
  BY <1>1, <1>2, <1>3 DEF Types
<1>5. ASSUME NEW d \in Connection PROVE Handler(d)'
  <2>1. Handler(d)
    BY DEF IInv
  <2>2. CASE d = c
    BY <1>1, <1>3, <2>1, <2>2 DEF Handler, Unrefuted
  <2>3. CASE d # c
    BY <1>1, <1>3, <2>1, <2>3 DEF Handler, Unrefuted
  <2> QED
    BY <2>2, <2>3
<1>6. Flag'
  <2>1. ready # 0 => ready # c
    BY DEF IInv, Flag
  <2>2. ready' # 0 => ready' = ready /\ onConnect'[ready] = "announced" /\ ready \in Connection
    BY <1>3, <2>1 DEF IInv, Flag
  <2>3. ReadyIsSubscribed'
    BY <1>1 DEF IInv, Flag, ReadyIsSubscribed, Announced
  <2> QED
    BY <2>2, <2>3 DEF Flag
<1> QED
  BY <1>4, <1>5, <1>6 DEF IInv

LEMMA Stages ==
    /\ "begin" \in Stage /\ "enter" \in Stage /\ "check" \in Stage
    /\ "subscribe" \in Stage /\ "wait" \in Stage /\ "recheck" \in Stage
    /\ "mark" \in Stage /\ "announced" \in Stage /\ "failed" \in Stage
    /\ "outdated" \in Stage /\ "gaveUp" \in Stage
BY DEF Stage, Returned, Entering

LEMMA BeginKeeps ==
    ASSUME IInv, NEW c \in Connection, Begin(c)
    PROVE  IInv'
<1>1. /\ onConnect[c] = "begin" /\ onConnect' = [onConnect EXCEPT ![c] = "enter"]
      /\ Advance /\ own' = [own EXCEPT ![c] = generation']
      /\ UNCHANGED <<session, connected, subscribed, ready, sentOn, onLost>>
  BY DEF Begin, network
<1>2. Types
  BY DEF IInv
<1>3. /\ onConnect' \in [Connection -> Stage] /\ onConnect'[c] = "enter"
      /\ \A d \in Connection : d # c => onConnect'[d] = onConnect[d]
  BY <1>1, <1>2, Stages DEF Types
<1>4. /\ generation' \in Nat /\ own' \in [Connection -> Nat] /\ own'[c] = generation'
      /\ \A d \in Connection : d # c => own'[d] = own[d]
  BY <1>1, <1>2 DEF Types, Advance
<1>5. Types'
  BY <1>1, <1>2, <1>3, <1>4 DEF Types
<1>6. ASSUME NEW d \in Connection PROVE Handler(d)'
  <2>1. Handler(d) /\ own[d] \in Nat
    BY <1>2 DEF IInv, Types
  <2>2. own[d] < generation' /\ (onConnect[d] = "mark" => d \in overtaken')
    BY <1>1, AdvanceOutdates
  <2>3. CASE d = c
    BY <1>1, <1>3, <1>4, <2>1, <2>3 DEF Handler, Requested, Answered, Undecided
  <2>4. CASE d # c
    BY <1>1, <1>3, <1>4, <2>1, <2>2, <2>4 DEF Handler
  <2> QED
    BY <2>3, <2>4
<1>7. Flag'
  <2>1. ready # 0 => ready \in Connection /\ onConnect'[ready] = "announced"
    BY <1>1, <1>3 DEF IInv, Flag
  <2>2. overtaken \subseteq overtaken'
    BY <1>1, AdvanceOutdates
  <2>3. ReadyIsSubscribed'
    BY <1>1, <2>2 DEF IInv, Flag, ReadyIsSubscribed, Announced
  <2> QED
    BY <1>1, <2>1, <2>3 DEF Flag
<1> QED
  BY <1>5, <1>6, <1>7 DEF IInv

\* The steps that neither send nor answer a request.
LEMMA ProceedKeeps ==
    ASSUME IInv, NEW c \in Connection, MarkNotReady(c) \/ Check(c) \/ Retry(c)
    PROVE  IInv'
<1>1. PICK to \in {"begin", "check", "subscribe", "outdated", "gaveUp"} :
         /\ onConnect[c] \in {"start", "enter", "check", "failed"}
         /\ onConnect' = [onConnect EXCEPT ![c] = to]
         /\ Same /\ UNCHANGED <<subscribed, sentOn>> /\ ready' \in {0, ready}
  BY DEF MarkNotReady, Check, Retry, Goto
<1>2. sentOn \in [Connection -> 0 .. MaxConnections]
  BY DEF IInv, Types
<1>3. /\ to \in Stage
      /\ to \notin Requested /\ to \notin Answered /\ to \notin Undecided /\ to # "mark"
  BY Stages DEF Requested, Answered, Undecided
<1> QED
  BY <1>1, <1>2, <1>3, HandlerStep

\* The request goes out on the connection of the moment.
LEMMA SubscribeKeeps ==
    ASSUME IInv, NEW c \in Connection, Subscribe(c)
    PROVE  IInv'
<1>1. /\ Same /\ UNCHANGED <<subscribed, ready>> /\ onConnect[c] = "subscribe"
      /\ \/ /\ connected /\ onConnect' = [onConnect EXCEPT ![c] = "wait"]
            /\ sentOn' = [sentOn EXCEPT ![c] = session]
         \/ onConnect' = [onConnect EXCEPT ![c] = "failed"] /\ sentOn' = sentOn
  BY DEF Subscribe, Goto
<1>2. /\ sentOn \in [Connection -> 0 .. MaxConnections] /\ session \in 0 .. MaxConnections
      /\ Handler(c)
  BY DEF IInv, Types
<1>3. CASE connected /\ onConnect' = [onConnect EXCEPT ![c] = "wait"]
           /\ sentOn' = [sentOn EXCEPT ![c] = session]
  <2>1. /\ sentOn' \in [Connection -> 0 .. MaxConnections] /\ sentOn'[c] = session
        /\ \A d \in Connection : d # c => sentOn'[d] = sentOn[d]
    BY <1>2, <1>3
  <2>2. c <= session /\ session <= session /\ Unrefuted(session)
    BY <1>1, <1>2, <1>3 DEF Handler, Unrefuted
  <2>3. "wait" \notin Answered /\ "wait" # "mark" /\ "wait" \in Stage
    BY Stages DEF Answered
  <2> QED
    BY <1>1, <1>3, <2>1, <2>2, <2>3, HandlerStep
<1>4. CASE onConnect' = [onConnect EXCEPT ![c] = "failed"] /\ sentOn' = sentOn
  <2>1. /\ "failed" \notin Requested /\ "failed" \notin Answered
        /\ "failed" \notin Undecided /\ "failed" # "mark" /\ "failed" \in Stage
    BY Stages DEF Requested, Answered, Undecided
  <2> QED
    BY <1>1, <1>2, <1>4, <2>1, HandlerStep
<1> QED
  BY <1>1, <1>3, <1>4

LEMMA AnswerKeeps ==
    ASSUME IInv, NEW c \in Connection, Acknowledged(c) \/ NotAcknowledged(c)
    PROVE  IInv'
<1>1. /\ Same /\ UNCHANGED <<ready, sentOn>> /\ onConnect[c] = "wait"
      /\ subscribed \subseteq subscribed'
      /\ \/ /\ onConnect' = [onConnect EXCEPT ![c] = "recheck"]
            /\ sentOn[c] \in subscribed'
         \/ onConnect' = [onConnect EXCEPT ![c] = "failed"]
  BY DEF Acknowledged, NotAcknowledged, Goto, Reached
<1>2. sentOn \in [Connection -> 0 .. MaxConnections] /\ Handler(c)
  BY DEF IInv, Types
<1>3. CASE onConnect' = [onConnect EXCEPT ![c] = "recheck"] /\ sentOn[c] \in subscribed'
  <2>1. /\ c <= sentOn[c] /\ sentOn[c] <= session
        /\ own[c] = generation => Unrefuted(sentOn[c])
    BY <1>1, <1>2 DEF Handler, Requested, Undecided
  <2> QED
    BY <1>1, <1>2, <1>3, <2>1, Stages, HandlerStep
<1>4. CASE onConnect' = [onConnect EXCEPT ![c] = "failed"]
  <2>1. /\ "failed" \notin Requested /\ "failed" \notin Answered
        /\ "failed" \notin Undecided /\ "failed" # "mark" /\ "failed" \in Stage
    BY Stages DEF Requested, Answered, Undecided
  <2> QED
    BY <1>1, <1>2, <1>4, <2>1, HandlerStep
<1> QED
  BY <1>1, <1>3, <1>4

LEMMA RecheckKeeps ==
    ASSUME IInv, NEW c \in Connection, Recheck(c)
    PROVE  IInv'
<1>1. /\ Same /\ UNCHANGED <<ready, sentOn, subscribed>> /\ onConnect[c] = "recheck"
      /\ \/ own[c] = generation /\ onConnect' = [onConnect EXCEPT ![c] = "mark"]
         \/ onConnect' = [onConnect EXCEPT ![c] = "outdated"]
  BY DEF Recheck, Goto, IsCurrent
<1>2. sentOn \in [Connection -> 0 .. MaxConnections] /\ Handler(c)
  BY DEF IInv, Types
<1>3. CASE own[c] = generation /\ onConnect' = [onConnect EXCEPT ![c] = "mark"]
  <2>1. /\ c <= sentOn[c] /\ sentOn[c] <= session /\ sentOn[c] \in subscribed
        /\ Unrefuted(sentOn[c])
    BY <1>1, <1>2, <1>3 DEF Handler, Requested, Answered, Undecided
  <2> QED
    BY <1>1, <1>2, <1>3, <2>1, Stages, HandlerStep
<1>4. CASE onConnect' = [onConnect EXCEPT ![c] = "outdated"]
  <2>1. /\ "outdated" \notin Requested /\ "outdated" \notin Answered
        /\ "outdated" \notin Undecided /\ "outdated" # "mark" /\ "outdated" \in Stage
    BY Stages DEF Requested, Answered, Undecided
  <2> QED
    BY <1>1, <1>2, <1>4, <2>1, HandlerStep
<1> QED
  BY <1>1, <1>3, <1>4

\* The announcement: a handler that nothing has overtaken is current, and the
\* connection it is subscribed on is up, or its loss is about to be handled.
LEMMA MarkReadyKeeps ==
    ASSUME IInv, NEW c \in Connection, MarkReady(c)
    PROVE  IInv'
<1>1. /\ onConnect[c] = "mark" /\ onConnect' = [onConnect EXCEPT ![c] = "announced"]
      /\ ready' = c
      /\ UNCHANGED <<session, connected, subscribed, generation, own, sentOn, onLost,
                     overtaken>>
  BY DEF MarkReady, Goto, Same, network
<1>2. Types
  BY DEF IInv
<1>3. /\ onConnect' \in [Connection -> Stage] /\ onConnect'[c] = "announced"
      /\ \A d \in Connection : d # c => onConnect'[d] = onConnect[d]
  BY <1>1, <1>2, Stages DEF Types
<1>4. Types'
  BY <1>1, <1>2, <1>3 DEF Types
<1>5. ASSUME NEW d \in Connection PROVE Handler(d)'
  <2>1. Handler(d)
    BY DEF IInv
  <2>2. CASE d = c
    BY <1>1, <1>3, <2>1, <2>2 DEF Handler, Requested, Answered, Undecided
  <2>3. CASE d # c
    BY <1>1, <1>3, <2>1, <2>3 DEF Handler, Unrefuted
  <2> QED
    BY <2>2, <2>3
<1>6. ReadyIsSubscribed'
  <2>1. SUFFICES ASSUME c \notin overtaken
                 PROVE  \/ connected /\ session \in subscribed
                        \/ \E d \in Connection : onLost[d] \in {"start", "invalidated"}
    BY <1>1 DEF ReadyIsSubscribed
  <2>2. /\ own[c] = generation /\ sentOn[c] \in subscribed /\ Unrefuted(sentOn[c])
        /\ c <= sentOn[c]
    BY <1>1, <2>1 DEF IInv, Handler, Requested, Answered, Undecided
  <2>3. sentOn[c] \in Connection
    BY <1>2, <2>2 DEF Types, Connection
  <2> QED
    BY <2>2, <2>3 DEF Unrefuted
<1>7. Flag'
  BY <1>1, <1>3, <1>6 DEF Flag
<1> QED
  BY <1>4, <1>5, <1>7 DEF IInv

-----------------------------------------------------------------------------
LEMMA Inductive == IInv /\ [Next]_vars => IInv'
<1> SUFFICES ASSUME IInv, [Next]_vars PROVE IInv'
  OBVIOUS
<1>1. CASE Connect \/ Lose
  BY <1>1, ConnectKeeps, LoseKeeps
<1>2. ASSUME NEW c \in Connection, OnConnect(c) PROVE IInv'
  BY <1>2, ProceedKeeps, BeginKeeps, SubscribeKeeps, AnswerKeeps, RecheckKeeps,
     MarkReadyKeeps DEF OnConnect
<1>3. ASSUME NEW c \in Connection, OnConnectionLost(c) PROVE IInv'
  BY <1>3, InvalidateKeeps, LostNotReadyKeeps DEF OnConnectionLost
<1>4. CASE UNCHANGED vars
  <2>1. UNCHANGED <<session, connected, subscribed, generation, ready, onConnect, own,
                    sentOn, onLost, overtaken>>
    BY <1>4 DEF vars, network, handlers
  <2>2. Types' /\ Flag'
    BY <2>1 DEF IInv, Types, Flag, ReadyIsSubscribed, Announced
  <2>3. ASSUME NEW c \in Connection PROVE Handler(c)'
    BY <2>1 DEF IInv, Handler, Unrefuted
  <2> QED
    BY <2>2, <2>3 DEF IInv
<1> QED
  BY <1>1, <1>2, <1>3, <1>4 DEF Next, Settled

(***************************************************************************)
(* A flag that no outdated handler set says the truth: the Edge is         *)
(* subscribed on the connection it has, or a connection-lost handler that  *)
(* takes the flag down is on its way (subscribeToEdgeTopics, MarkReady).   *)
(***************************************************************************)
THEOREM ReadinessIsTrue == Spec => []ReadyIsSubscribed
<1>1. Init => IInv
  BY InitialState
<1>2. IInv /\ [Next]_vars => IInv'
  BY Inductive
<1>3. IInv => ReadyIsSubscribed
  BY DEF IInv, Flag
<1> QED
  BY <1>1, <1>2, <1>3, PTL DEF Spec

-----------------------------------------------------------------------------
(***************************************************************************)
(* The site: a connection that is gone does not come back, and nothing is  *)
(* unsubscribed.                                                           *)
(***************************************************************************)
LEMMA NetworkSteps ==
    ASSUME IInv, Next
    PROVE  /\ session <= session' /\ subscribed \subseteq subscribed'
           /\ session' = session /\ connected' => connected
<1>1. session \in Nat
  BY DEF IInv, Types
<1>2. CASE Connect
  BY <1>1, <1>2 DEF Connect
<1>3. CASE Lose
  BY <1>1, <1>3 DEF Lose
<1>4. ASSUME NEW c \in Connection, OnConnect(c) \/ OnConnectionLost(c)
      PROVE  session' = session /\ connected' = connected /\ subscribed \subseteq subscribed'
  BY <1>4 DEF OnConnect, OnConnectionLost, MarkNotReady, Begin, Check, Subscribe,
              Acknowledged, NotAcknowledged, Recheck, MarkReady, Retry, Invalidate,
              LostNotReady, Same, network
<1>5. CASE Settled
  BY <1>1, <1>5 DEF Settled, vars, network
<1> QED
  BY <1>1, <1>2, <1>3, <1>4, <1>5 DEF Next

LEMMA SiteInductive == SiteIInv /\ [SiteNext]_siteVars => SiteIInv'
<1> SUFFICES ASSUME SiteIInv, [SiteNext]_siteVars PROVE SiteIInv'
  OBVIOUS
<1> USE DEF replayVars
<1>1. IInv /\ session \in Nat
  BY DEF SiteIInv, IInv, Types
<1>2. IInv'
  <2>1. [Next]_vars
    BY DEF SiteNext, Subscription, Probe, PublishEndOfReplay, Hear, siteVars
  <2> QED
    BY <1>1, <2>1, Inductive
<1>3. session' \in Nat
  BY <1>2 DEF IInv, Types
<1>4. CASE Subscription
  <2>1. UNCHANGED <<probed, ended, inFlight, heard>> /\ Next
    BY <1>4 DEF Subscription
  <2>2. /\ session <= session' /\ subscribed \subseteq subscribed'
        /\ session' = session /\ connected' => connected
    BY <1>1, <2>1, NetworkSteps
  <2>3. probed # 0 => probed \in 1 .. session'
                      /\ (session' = probed => probed \in subscribed')
    BY <1>1, <1>3, <2>2 DEF SiteIInv
  <2>4. EndIsNotDropped'
    <3>1. SUFFICES ASSUME ended, connected', session' = probed
                   PROVE  heard \/ inFlight = session'
      BY <2>1 DEF EndIsNotDropped
    <3>2. session' = session
      BY <1>1, <1>3, <2>2, <3>1 DEF SiteIInv
    <3> QED
      BY <2>2, <3>1, <3>2 DEF SiteIInv, EndIsNotDropped
  <2> QED
    BY <1>2, <2>1, <2>3, <2>4 DEF SiteIInv
<1>5. CASE Probe
  <2>1. /\ ready # 0 /\ probed = 0 /\ probed' = ready
        /\ UNCHANGED <<session, connected, subscribed, ended, inFlight, heard>>
    BY <1>5 DEF Probe, Announced, vars, network
  <2>2. /\ ready \in Connection /\ ready <= sentOn[ready] /\ sentOn[ready] <= session
        /\ sentOn[ready] \in subscribed
    BY <1>1, <2>1 DEF IInv, Flag, Handler, Requested, Answered
  <2>3. ready \in 1 .. session /\ (session = ready => ready \in subscribed)
    <3>1. sentOn[ready] \in Nat /\ ready \in Nat \ {0}
      BY <1>1, <2>2 DEF IInv, Types, Connection
    <3> QED
      BY <1>1, <2>2, <3>1
  <2>4. ~ended
    BY <2>1 DEF SiteIInv
  <2> QED
    BY <1>2, <2>1, <2>3, <2>4 DEF SiteIInv, EndIsNotDropped
<1>6. CASE PublishEndOfReplay
  <2>1. /\ probed # 0 /\ ended' = TRUE
        /\ inFlight' = IF connected /\ session \in subscribed THEN session ELSE 0
        /\ UNCHANGED <<session, connected, subscribed, probed, heard>>
    BY <1>6 DEF PublishEndOfReplay, vars, network
  <2> QED
    BY <1>2, <2>1 DEF SiteIInv, EndIsNotDropped
<1>7. CASE Hear
  <2>1. /\ heard' = TRUE
        /\ UNCHANGED <<session, connected, subscribed, probed, ended>>
    BY <1>7 DEF Hear, vars, network
  <2> QED
    BY <1>2, <2>1 DEF SiteIInv, EndIsNotDropped
<1>8. CASE UNCHANGED siteVars
  <2>1. UNCHANGED <<session, connected, subscribed, probed, ended, inFlight, heard>>
    BY <1>8 DEF siteVars, vars, network
  <2> QED
    BY <1>2, <2>1 DEF SiteIInv, EndIsNotDropped
<1> QED
  BY <1>4, <1>5, <1>6, <1>7, <1>8 DEF SiteNext

LEMMA SiteInvariance == SiteSpec => []SiteIInv
<1>1. SiteInit => SiteIInv
  BY InitialState DEF SiteInit, SiteIInv, EndIsNotDropped
<1>2. SiteIInv /\ [SiteNext]_siteVars => SiteIInv'
  BY SiteInductive
<1> QED
  BY <1>1, <1>2, PTL DEF SiteSpec

(***************************************************************************)
(* The same of a site whose replay runs against the Edge, which is what    *)
(* the model checker runs.                                                 *)
(***************************************************************************)
THEOREM SiteReadinessIsTrue == SiteSpec => []ReadyIsSubscribed
<1>1. SiteIInv => ReadyIsSubscribed
  BY DEF SiteIInv, IInv, Flag
<1> QED
  BY <1>1, SiteInvariance, PTL

(***************************************************************************)
(* The safety half of EndIsHeard, of which the rest needs fairness: the    *)
(* announcement a probe saw vouches for a subscription of its connection,  *)
(* over which the broker forwards the end (subscribeToEdgeTopics,          *)
(* publishEndOfReplay).                                                    *)
(***************************************************************************)
THEOREM ProbeVouches == SiteSpec => []EndIsNotDropped
<1>1. SiteIInv => EndIsNotDropped
  BY DEF SiteIInv
<1> QED
  BY <1>1, SiteInvariance, PTL
=============================================================================
