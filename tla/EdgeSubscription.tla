--------------------------- MODULE EdgeSubscription ---------------------------
(***************************************************************************)
(* The subscription of an Edge to its MQTT topics and the readiness it     *)
(* announces at /readyz (cmd/edge/mqtt.go and readiness.go); the           *)
(* experiment starts its simulators when every Edge is ready.              *)
(*                                                                         *)
(* The MQTT client reconnects by itself and runs each callback on a        *)
(* goroutine of its own, so callbacks of several connections can overlap.  *)
(* A generation counter tells a callback that it is outdated.  Every read  *)
(* or write of the counter or of the flag is a step.  A subscription       *)
(* belongs to the connection it was made on, which need not be the one     *)
(* whose callback asked for it.                                            *)
(***************************************************************************)
EXTENDS Integers

CONSTANTS
    Attempts,        \* mqttSubscriptionAttempts
    MaxConnections   \* bound: connections made

ASSUME ConstantsAssumption ==
    Attempts \in Nat \ {0} /\ MaxConnections \in Nat \ {0}

VARIABLES
    session,       \* the number of the last connection, 0 before the first
    connected,     \* that connection is up
    subscribed,    \* the connections the broker holds a subscription for
    generation,    \* SubscriptionCoordinator.generation
    ready,         \* ReadinessState.ready: 0, or the connection whose callback set it
    onConnect,     \* where the connect handler of each connection is
    own,           \* the generation it was given
    attempt,       \* its attempt
    sentOn,        \* the connection its request went out on
    onLost,        \* where the connection-lost handler of each connection is
    overtaken,     \* history: handlers outdated between their last check and MarkReady
    orderly        \* history: no connection was made before the callbacks of the
                   \* one before it had taken the flag down

network == <<session, connected>>
handlers == <<onConnect, own, attempt, sentOn>>
vars == <<network, subscribed, generation, ready, handlers, onLost, overtaken, orderly>>

Connection == 1 .. MaxConnections

Entering == {"start", "begin", "enter"}
Returned == {"none", "announced", "outdated", "gaveUp"}
Quiet == \A c \in Connection :
            onConnect[c] \in Returned /\ onLost[c] \in {"none", "returned"}

-----------------------------------------------------------------------------
(***************************************************************************)
(* The client.                                                             *)
(***************************************************************************)
Connect ==
    /\ ~connected /\ session < MaxConnections
    /\ session' = session + 1 /\ connected' = TRUE
    /\ onConnect' = [onConnect EXCEPT ![session'] = "start"]
    /\ orderly' = (orderly /\ (session # 0 => /\ onLost[session] = "returned"
                                              /\ onConnect[session] \notin Entering))
    /\ UNCHANGED <<subscribed, generation, ready, own, attempt, sentOn, onLost,
                   overtaken>>

Lose ==
    /\ connected
    /\ connected' = FALSE
    /\ onLost' = [onLost EXCEPT ![session] = "start"]
    /\ UNCHANGED <<session, subscribed, generation, ready, handlers, overtaken, orderly>>

-----------------------------------------------------------------------------
(***************************************************************************)
(* SubscriptionCoordinator.                                                *)
(***************************************************************************)
Advance ==
    /\ generation' = generation + 1
    /\ overtaken' = overtaken \cup {c \in Connection : onConnect[c] = "mark"}

IsCurrent(c) == generation = own[c]

\* IsConnected also holds, or not, of a connection the client is restoring.
MayStop(c) == ~IsCurrent(c) \/ ~connected

\* Mutant of Begin: the handler keeps the value from before the addition.
BeginBefore(c) ==
    /\ onConnect[c] = "begin"
    /\ Advance
    /\ own' = [own EXCEPT ![c] = generation]
    /\ onConnect' = [onConnect EXCEPT ![c] = "enter"]
    /\ UNCHANGED <<network, subscribed, ready, attempt, sentOn, onLost, orderly>>

Begin(c) ==
    /\ onConnect[c] = "begin"
    /\ Advance
    /\ own' = [own EXCEPT ![c] = generation']
    /\ onConnect' = [onConnect EXCEPT ![c] = "enter"]
    /\ UNCHANGED <<network, subscribed, ready, attempt, sentOn, onLost, orderly>>

\* The connection-lost handler.
Invalidate(c) ==
    /\ onLost[c] = "start"
    /\ Advance
    /\ onLost' = [onLost EXCEPT ![c] = "invalidated"]
    /\ UNCHANGED <<network, subscribed, ready, handlers, orderly>>

LostNotReady(c) ==
    /\ onLost[c] = "invalidated"
    /\ ready' = 0
    /\ onLost' = [onLost EXCEPT ![c] = "returned"]
    /\ UNCHANGED <<network, subscribed, generation, handlers, overtaken, orderly>>

-----------------------------------------------------------------------------
(***************************************************************************)
(* The connect handler and subscribeToEdgeTopics.                          *)
(***************************************************************************)
Goto(c, from, to) == onConnect[c] = from /\ onConnect' = [onConnect EXCEPT ![c] = to]

Same == UNCHANGED <<network, generation, own, onLost, overtaken, orderly>>

\* Once by the handler, and once more by subscribeToEdgeTopics.
MarkNotReady(c) ==
    /\ Goto(c, "start", "begin") \/ Goto(c, "enter", "check")
    /\ ready' = 0
    /\ Same /\ UNCHANGED <<subscribed, attempt, sentOn>>

Check(c) ==
    /\ \/ IsCurrent(c) /\ Goto(c, "check", "subscribe")
       \/ MayStop(c) /\ Goto(c, "check", "outdated")
    /\ Same /\ UNCHANGED <<subscribed, ready, attempt, sentOn>>

\* SubscribeMultiple: on the connection of the moment, if there is one.
Subscribe(c) ==
    /\ \/ /\ connected /\ Goto(c, "subscribe", "wait")
          /\ sentOn' = [sentOn EXCEPT ![c] = session]
       \/ /\ ~connected /\ Goto(c, "subscribe", "failed")
          /\ UNCHANGED sentOn
    /\ Same /\ UNCHANGED <<subscribed, ready, attempt>>

Reached(c) == connected /\ sentOn[c] = session

\* SUBACK.
Acknowledged(c) ==
    /\ Reached(c)
    /\ Goto(c, "wait", "recheck")
    /\ subscribed' = subscribed \cup {session}
    /\ Same /\ UNCHANGED <<ready, attempt, sentOn>>

\* Mutant of NotAcknowledged: a time-out is taken for an answer.
TimeoutIgnored(c) ==
    /\ Goto(c, "wait", "recheck")
    /\ \/ Reached(c) /\ subscribed' = subscribed \cup {session}
       \/ UNCHANGED subscribed
    /\ Same /\ UNCHANGED <<ready, attempt, sentOn>>

\* A time-out or an error; the broker may have taken the request.
NotAcknowledged(c) ==
    /\ Goto(c, "wait", "failed")
    /\ \/ Reached(c) /\ subscribed' = subscribed \cup {session}
       \/ UNCHANGED subscribed
    /\ Same /\ UNCHANGED <<ready, attempt, sentOn>>

\* Mutant of Recheck: the answer is announced whatever happened meanwhile.
NoRecheck(c) ==
    /\ Goto(c, "recheck", "mark")
    /\ Same /\ UNCHANGED <<subscribed, ready, attempt, sentOn>>

Recheck(c) ==
    /\ \/ IsCurrent(c) /\ Goto(c, "recheck", "mark")
       \/ MayStop(c) /\ Goto(c, "recheck", "outdated")
    /\ Same /\ UNCHANGED <<subscribed, ready, attempt, sentOn>>

MarkReady(c) ==
    /\ Goto(c, "mark", "announced")
    /\ ready' = c
    /\ Same /\ UNCHANGED <<subscribed, attempt, sentOn>>

\* A bounded number of attempts, each checked.
Retry(c) ==
    /\ \/ /\ attempt[c] = Attempts /\ Goto(c, "failed", "gaveUp")
          /\ UNCHANGED attempt
       \/ /\ attempt[c] < Attempts /\ IsCurrent(c)
          /\ Goto(c, "failed", "check")
          /\ attempt' = [attempt EXCEPT ![c] = @ + 1]
       \/ /\ attempt[c] < Attempts /\ MayStop(c)
          /\ Goto(c, "failed", "outdated")
          /\ UNCHANGED attempt
    /\ Same /\ UNCHANGED <<subscribed, ready, sentOn>>

\* What /readyz answers.
Announced == ready # 0

-----------------------------------------------------------------------------
Init ==
    /\ session = 0 /\ connected = FALSE /\ subscribed = {}
    /\ generation = 0 /\ ready = 0
    /\ onConnect = [c \in Connection |-> "none"]
    /\ own = [c \in Connection |-> 0]
    /\ attempt = [c \in Connection |-> 1]
    /\ sentOn = [c \in Connection |-> 0]
    /\ onLost = [c \in Connection |-> "none"]
    /\ overtaken = {} /\ orderly = TRUE

OnConnect(c) ==
    \/ MarkNotReady(c) \/ Begin(c) \/ Check(c) \/ Subscribe(c)
    \/ Acknowledged(c) \/ NotAcknowledged(c) \/ Recheck(c) \/ MarkReady(c)
    \/ Retry(c)

OnConnectionLost(c) == Invalidate(c) \/ LostNotReady(c)

Settled == Quiet /\ UNCHANGED vars

Next ==
    \/ Connect \/ Lose
    \/ \E c \in Connection : OnConnect(c) \/ OnConnectionLost(c)
    \/ Settled

Spec == Init /\ [][Next]_vars

\* Callbacks run, and wait a bounded time for the broker.
FairSpec ==
    /\ Spec
    /\ \A c \in Connection : WF_vars(OnConnect(c)) /\ WF_vars(OnConnectionLost(c))

-----------------------------------------------------------------------------
(***************************************************************************)
(* An Edge that answers "ready" is subscribed on the connection it has, or *)
(* a callback that will take the flag down is on its way.  The exception   *)
(* is a handler that was outdated after its last check and before its      *)
(* MarkReady, which nothing corrects.                                      *)
(***************************************************************************)
ReadyIsSubscribed ==
    Announced /\ ready \notin overtaken =>
        \/ connected /\ session \in subscribed
        \/ \E c \in Connection : onLost[c] \in {"start", "invalidated"}

(***************************************************************************)
(* An Edge whose last connection stays becomes ready and stays so, unless  *)
(* its three attempts failed.  It takes callbacks in order: the            *)
(* unconditional MarkNotReady or Invalidate of an earlier connection, run  *)
(* late, takes the flag of the current one down for good.                  *)
(***************************************************************************)
BecomesReady ==
    <>[](connected /\ orderly /\ onConnect[session] # "gaveUp") => <>[]Announced
=============================================================================
