---------------------------- MODULE MCControllers ----------------------------
(***************************************************************************)
(* Instances of the controller plugins' services.  The parts share no step:*)
(* a behaviour is one of one part, the others stay in their initial        *)
(* states.                                                                 *)
(***************************************************************************)
EXTENDS SimpleController, Rundown, VolumeControl, Persistence, Registry,
    PolicyEngine, PolicyConfigurations, SoundProperties

CONSTANT Parts

VARIABLE part

\* SimpleController: two sources of the player class, one over a gateway, and one of
\* the navigation class.
MCClassOf == <<1, 1, 2>>
MCSegmentsOf == <<2, 1, 1>>

\* Rundown: two domains can take over, two connections are to be transferred.
MCRundownDomains == <<"d1", "d2">>
MCRundownConnections == <<"c1", "c2">>

\* VolumeControl: a sink (1) and three connections to it, the first with one element of its
\* own, the second with two, the third with none and of the second's class.  Element 2 starts
\* at -1 dB, all else at 0; the elements can be turned down further than any limit asks for; main volumes
\* 0 .. 3 stand for -3 .. 0 dB.
MCElementsOf == <<<<1, 2>>, <<1, 3, 4>>, <<1>>>>
MCVClassOf == <<11, 12, 12>>
MCLimitPatterns == {{1}, {1, 2}}
MCLevels == [absolute |-> {-2}, relative |-> {-1}]
MCStartVolumes == {0, -1}
MCMinVolume == -8
MCVolumeOfMain == [m \in 0 .. 3 |-> m - 3]

\* Persistence: two classes, two sources and a sink in two domains; the volume of one
\* class is kept per sink, one connection comes back after a restart.
MCPClasses == <<"BASE", "PHONE">>
MCEnds == {"s1", "s2", "k1"}
MCLinks == {<<"s1", "k1">>, <<"s2", "k1">>}
MCClassOfLink == <<"s1", "k1">> :> "BASE" @@ <<"s2", "k1">> :> "PHONE"
MCClassOfEnd == "s1" :> "BASE" @@ "s2" :> "PHONE" @@ "k1" :> "BASE"
MCKeepsLinks == {<<"s1", "k1">>}
MCDomainOfEnd == "s1" :> "d1" @@ "s2" :> "d2" @@ "k1" :> "d1"

\* Registry: a gateway from domain d1 (source a, sink b) to d2 (source x, sink k); a
\* connection over it and one within d1.
MCHomeOf == "a" :> "d1" @@ "b" :> "d1" @@ "x" :> "d2" @@ "k" :> "d2"
MCGatewayOrder == <<"g1">>
MCGatewayEnds == "g1" :> {"b", "x"}
MCGatewaySink == "g1" :> "b"
MCGatewayHome == "g1" :> "d1"
InD1 == [ends |-> {"a", "b"}, home |-> "d1"]
InD2 == [ends |-> {"x", "k"}, home |-> "d2"]
MCRouteOf == "c1" :> <<InD1, InD2>> @@ "c2" :> <<InD1>>

\* SoundProperties: the policy passes on what is asked of the sink to the source.
MCPolicyTargets == "k" :> <<"k", "s">> @@ "s" :> <<"s">>

-----------------------------------------------------------------------------
ControllersInit ==
    /\ part \in Parts
    /\ SimpleInit /\ RundownInit /\ VolumeInit /\ PersistenceInit /\ RegistryInit /\ PolicyInit /\ SoundInit
    /\ \A e \in VolumeElements : volumes[e].volume = IF e = 2 THEN -1 ELSE 0
    /\ part # "policy" => chosen = "call"

ControllersNext ==
    \/ /\ part = "simple" /\ SimpleNext
       /\ UNCHANGED <<rundownVars, volumeVars, persistenceVars, registryVars, policyVars, soundVars, part>>
    \/ /\ part = "rundown" /\ RundownNext
       /\ UNCHANGED <<sc, volumeVars, persistenceVars, registryVars, policyVars, soundVars, part>>
    \/ /\ part = "volume" /\ VolumeNext
       /\ UNCHANGED <<sc, rundownVars, persistenceVars, registryVars, policyVars, soundVars, part>>
    \/ /\ part = "persistence" /\ PersistenceNext
       /\ UNCHANGED <<sc, rundownVars, volumeVars, registryVars, policyVars, soundVars, part>>
    \/ /\ part = "registry" /\ RegistryNext
       /\ UNCHANGED <<sc, rundownVars, volumeVars, persistenceVars, policyVars, soundVars, part>>
    \/ /\ part = "policy" /\ PolicyNext
       /\ UNCHANGED <<sc, rundownVars, volumeVars, persistenceVars, registryVars, soundVars, part>>
    \/ /\ part = "properties" /\ SoundNext
       /\ UNCHANGED <<sc, rundownVars, volumeVars, persistenceVars, registryVars, policyVars, part>>

ControllersSpec ==
    /\ ControllersInit
    /\ [][ControllersNext]_<<sc, rundownVars, volumeVars, persistenceVars, registryVars, policyVars, soundVars, part>>
=============================================================================
