-------------------------- MODULE MCRoutingClients --------------------------
(***************************************************************************)
(* Instances of the two plugins for routing clients, of their handshake    *)
(* with the daemon, of the plugins for user applications, and of the       *)
(* messages of the D-Bus plugins.  The parts share no step: a behaviour is *)
(* one of one part, the others stay in their initial states.               *)
(***************************************************************************)
EXTENDS CapiRouting, DbusRouting, RoutingHandshake, CommandClients, DbusMessages, TLC

CONSTANTS d1, d2, e1, e2, x1, c1, a1, a2, Parts

VARIABLE part

MCHomeOf == e1 :> d1 @@ e2 :> d2 @@ x1 :> d1
MCSourceOf == x1 :> e1
MCVolumeLists == {<<>>, <<e1>>, <<e2>>}

\* The crossfader is known to the Common-API plugin alone.
ClientsInit ==
    /\ part \in Parts
    /\ CapiInit /\ DbusInit /\ HandshakeInit /\ CommandInit /\ MessagesInit
    /\ part # "handshake" => plugin = "capi"
    /\ part # "command" => commandPlugin = "capi"

routingVars == <<daemonVars, capiVars, dbusVars, handshakeVars>>

RoutingNext ==
    \/ part = "capi" /\ CapiNext /\ UNCHANGED <<dbusVars, handshakeVars>>
    \/ part = "dbus" /\ DbusNext /\ UNCHANGED <<capiVars, handshakeVars>>
    \/ part = "handshake" /\ HandshakeNext /\ UNCHANGED <<daemonVars, capiVars, dbusVars>>

ClientsNext ==
    /\ UNCHANGED part
    /\ \/ RoutingNext /\ UNCHANGED <<commandVars, messageVars>>
       \/ part = "command" /\ CommandNext /\ UNCHANGED <<routingVars, messageVars>>
       \/ part = "messages" /\ MessagesNext /\ UNCHANGED <<routingVars, commandVars>>

ClientsSpec ==
    ClientsInit /\ [][ClientsNext]_<<routingVars, commandVars, messageVars, part>>
=============================================================================
