------------------------------ MODULE SiteReplay ------------------------------
(***************************************************************************)
(* One site: the end of the simulator's replay on its way to the Edge.     *)
(*                                                                         *)
(* The experiment probes /readyz once, and starts the simulators when      *)
(* every Edge was found ready (the compose files' healthcheck,             *)
(* run-experiment.sh); nothing looks at the flag again.  The broker keeps  *)
(* nothing for a client that is gone (clean sessions, persistence false),  *)
(* so the end reaches the Edge only over a subscription of the connection  *)
(* it has at that moment, and an Edge that does not hear it never ends its *)
(* input (EdgePipeline).  The simulator's acknowledgement says only that   *)
(* the broker has the message.                                             *)
(***************************************************************************)
EXTENDS EdgeSubscription

VARIABLES
    probed,    \* 0, or the connection whose announcement the probe saw
    ended,     \* the broker acknowledged the end of replay
    inFlight,  \* 0, or the connection the broker forwarded it on
    heard      \* the Edge's message handler was called with it

replayVars == <<probed, ended, inFlight, heard>>
siteVars == <<vars, replayVars>>

SiteInit ==
    /\ Init
    /\ probed = 0 /\ ended = FALSE /\ inFlight = 0 /\ heard = FALSE

Subscription == Next /\ UNCHANGED replayVars

\* The healthcheck gets a 200 from /readyz, and the replay may start.
Probe ==
    /\ probed = 0
    /\ Announced
    /\ probed' = ready
    /\ UNCHANGED <<vars, ended, inFlight, heard>>

\* publishEndOfReplay: the broker takes the message and forwards it.
PublishEndOfReplay ==
    /\ probed # 0
    /\ ~ended
    /\ ended' = TRUE
    /\ inFlight' = IF connected /\ session \in subscribed THEN session ELSE 0
    /\ UNCHANGED <<vars, probed, heard>>

\* The Edge's client calls the handler, unless the connection went first.
Hear ==
    /\ inFlight # 0 /\ connected /\ inFlight = session
    /\ heard' = TRUE
    /\ inFlight' = 0
    /\ UNCHANGED <<vars, probed, ended>>

SiteNext == Subscription \/ Probe \/ PublishEndOfReplay \/ Hear

SiteSpec == SiteInit /\ [][SiteNext]_siteVars

\* As EdgeSubscription; the probe is repeated, and the replay is finite.
FairSiteSpec ==
    /\ SiteSpec
    /\ WF_siteVars(Probe) /\ WF_siteVars(PublishEndOfReplay) /\ WF_siteVars(Hear)
    /\ \A c \in Connection :
          /\ WF_siteVars(OnConnect(c) /\ UNCHANGED replayVars)
          /\ WF_siteVars(OnConnectionLost(c) /\ UNCHANGED replayVars)

-----------------------------------------------------------------------------
(***************************************************************************)
(* One probe is enough as long as the connection it vouched for lasts: the *)
(* Edge then hears the end of the replay, whatever callbacks of earlier    *)
(* connections are still running, and even if a late one has taken the     *)
(* flag down meanwhile.                                                    *)
(***************************************************************************)
EndIsHeard ==
    probed # 0 ~> heard \/ session # probed \/ ~connected
=============================================================================
