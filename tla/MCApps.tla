------------------------------- MODULE MCApps -------------------------------
(* What surrounds the engine: the bridge, what its WebSocket reads, the page *)
(* that is its client, and the kit that sounds.                              *)
(* They share no state and are checked side by side: a behaviour is one of   *)
(* one of them, chosen at the start, and the others rest in an initial state.*)
(* The bridge is in two of them: with connections and few observations, and  *)
(* its clock alone, without connections and with more.                       *)
EXTENDS Bridge, WebSocket, BridgeClient, Kit

CONSTANT Patterns

VARIABLES part,    \* the part that moves
          played   \* the slots of the kit that are played: one voice, or the two hats

appVars == <<bridgeVars, webVars, clientVars, kitVars, part, played>>

MCTexts == {<<>>, <<"a">>, <<"lead">>, <<"trail">>, <<"lead", "trail">>,
            <<"a", "a", "a", "a">>}

AppInit ==
    /\ \/ part \in {"bridge", "clock", "web", "client"} /\ played = {}
       \/ part = "kit" /\ played \in Patterns
    /\ BridgeInit /\ (part # "clock" => booth.needed = 1)
    /\ WebInit /\ ClientInit /\ KitInit
    /\ bridge.master = 1 /\ (part # "client" => bridge.up) /\ (kept.closed <=> part # "client")

\* Only the slots played are hit and have their controls moved.
KitStep == \/ \E slot \in played : \/ \E v \in Velocities : Trigger(slot, v)
                                   \/ \E c \in Controls : SetParam(slot, c)
           \/ SetSampleRate
           \/ Process

\* Bound: among connections the source is soon quiet and reports phase and tempo.
ReportsAll ==
    /\ inputs' <= MaxInputs
    /\ \A i \in DOMAIN booth'.events :
          booth'.events[i].kind = "observation" => booth'.events[i].phase /\ booth'.events[i].tempo

\* Bound: the clock is heard without connections, messages or a stop, and the hub
\* is at most two observations behind.
OnlyObserves ==
    /\ UNCHANGED <<conn, server>>
    /\ Len(booth'.events) <= 2
    /\ \A i \in DOMAIN booth'.events : booth'.events[i].kind = "observation"

AppNext ==
    /\ UNCHANGED <<part, played>>
    /\ \/ /\ part = "bridge" /\ BridgeNext /\ ReportsAll
          /\ UNCHANGED <<webVars, clientVars, kitVars>>
       \/ /\ part = "clock" /\ BridgeNext /\ OnlyObserves
          /\ UNCHANGED <<webVars, clientVars, kitVars>>
       \/ part = "web" /\ WebNext /\ UNCHANGED <<bridgeVars, clientVars, kitVars>>
       \/ part = "client" /\ ClientNext /\ UNCHANGED <<bridgeVars, webVars, kitVars>>
       \/ part = "kit" /\ KitStep /\ UNCHANGED <<bridgeVars, webVars, clientVars>>

\* Each part's own fairness, asked of the part that moves.
Of(p, Step) == part = p /\ Step

AppFairness ==
    /\ WF_kitVars(Of("kit", Process))
    /\ WF_bridgeVars(Of("bridge", HubNext))
    /\ WF_bridgeVars(Of("bridge", AcceptorEnds \/ Stopped))
    /\ WF_bridgeVars(Of("bridge", SourceEnds))
    /\ \A c \in Connections : WF_bridgeVars(Of("bridge", Proceeds(c)))
    /\ WF_clientVars(Of("client", Connect \/ OnOpen \/ OnClose))
    /\ WF_clientVars(Of("client", SendPing))
    /\ WF_clientVars(Of("client", OnHello \/ OnPong \/ OnTimeline))
    /\ WF_clientVars(Of("client", BridgeReads))
    /\ WF_clientVars(Of("client", BridgeStarts))
    /\ WF_clientVars(Of("client", BridgeTells))

AppSpec == AppInit /\ [][AppNext]_appVars /\ AppFairness
=============================================================================
