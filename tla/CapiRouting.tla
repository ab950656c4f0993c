----------------------------- MODULE CapiRouting -----------------------------
(***************************************************************************)
(* The Common-API routing plugin: CAmLookupData finds the client of a      *)
(* domain, an element, a connection or a handle, CAmRoutingSenderCAPI      *)
(* hands the daemon's requests to it and answers those that do not reach   *)
(* it, CAmRoutingService takes registrations and answers.                  *)
(*                                                                         *)
(* Everything runs on the daemon's thread; the client processes come and   *)
(* go, and their status is known to the plugin only from the event the     *)
(* Common API sends later.  An entry of a map is a pointer to the          *)
(* RSLookupData of one domain, so it is modelled as that domain.           *)
(***************************************************************************)
EXTENDS RoutingDaemon, Sequences

CONSTANTS
    Crossfaders,    \* subset of Elements
    SourceOf,       \* [Crossfaders -> Elements]
    VolumeLists     \* lists of elements, the argument of asyncSetVolumes()

ASSUME CapiAssumption ==
    /\ Crossfaders \subseteq Elements
    /\ SourceOf \in [Crossfaders -> Elements \ Crossfaders]
    /\ VolumeLists \subseteq Seq(Elements)

VARIABLES
    connected,      \* domains whose RSLookupData::mIsConnected (and mIsSubcribed) is true
    domainMap,      \* keys of mMapDomains
    elementMap,     \* mMapSinks, mMapSources and mMapCrossfaders: element -> domain
    connectionMap,  \* mMapConnections
    handleMap,      \* mMapHandles
    late            \* handles of requests answered by the plugin that the client has all the same

capiVars == <<connected, domainMap, elementMap, connectionMap, handleMap, late>>
lookups == <<domainMap, elementMap, connectionMap, handleMap>>

CapiInit ==
    /\ DaemonInit
    /\ connected = {} /\ domainMap = {} /\ late = {}
    /\ elementMap = [e \in Elements |-> NONE]
    /\ connectionMap = [c \in Connections |-> NONE]
    /\ handleMap = [h \in Handles |-> NONE]

\* Faulty variants of the definitions below, which the properties must tell apart.
MutWithoutValueCleared(map, d) == [key \in DOMAIN map |-> NONE]

\* std::map::insert() keeps the entry it finds.
Inserted(map, key, d) == [map EXCEPT ![key] = IF @ = NONE THEN d ELSE @]

\* removeEntriesForValue()
WithoutValue(map, d) == [key \in DOMAIN map |-> IF map[key] = d THEN NONE ELSE map[key]]

-----------------------------------------------------------------------------
(* Registration, called by the clients *)

\* The constructor of RSLookupData asks whether the proxy is available.
ProxyBuilt(d) == connected' = IF d \in running THEN connected \cup {d} ELSE connected \ {d}

CapiRegisterDomain(d) ==
    /\ RegisterDomain(d)
    /\ ProxyBuilt(d)
    /\ domainMap' = domainMap \cup {d}
    /\ UNCHANGED <<elementMap, connectionMap, handleMap, late>>

CapiDeregisterDomain(d) ==
    /\ DeregisterDomain(d)
    /\ IF d \in domainMap
       THEN /\ elementMap' = WithoutValue(elementMap, d)
            /\ handleMap' = WithoutValue(handleMap, d)
            /\ connectionMap' = WithoutValue(connectionMap, d)
            /\ domainMap' = domainMap \ {d}
       ELSE UNCHANGED lookups
    /\ UNCHANGED <<connected, late>>

\* The element's entry is a copy of the domain's, the crossfader's one of its source's.
WithLookup(map, e) ==
    IF e \in Crossfaders
    THEN IF map[SourceOf[e]] # NONE THEN Inserted(map, e, map[SourceOf[e]]) ELSE map
    ELSE IF HomeOf[e] \in domainMap THEN Inserted(map, e, HomeOf[e]) ELSE map

CapiRegisterElement(e) ==
    /\ RegisterElement(e)
    /\ elementMap' = WithLookup(elementMap, e)
    /\ UNCHANGED <<connected, domainMap, connectionMap, handleMap, late>>

CapiDeregisterElement(e) ==
    /\ DeregisterElement(e)
    /\ elementMap' = [elementMap EXCEPT ![e] = NONE]
    /\ UNCHANGED <<connected, domainMap, connectionMap, handleMap, late>>

\* onServiceStatusEvent(): the plugin learns that the client has come or gone.
StatusEvent(d) ==
    /\ d \in domainMap /\ (d \in connected) # (d \in running)
    /\ connected' = IF d \in running THEN connected \cup {d} ELSE connected \ {d}
    /\ UNCHANGED <<daemonVars, lookups, late>>

-----------------------------------------------------------------------------
(* Requests of the daemon *)

\* RSLookupData::do*(): without a connection the call is refused, with the entries left in.
Do(h, kind, keys, d) ==
    IF d \in connected THEN Accepted(h, kind, keys, d) ELSE Refused(h, keys)

\* checkSourceLookup(), checkSinkLookup(): enter an element the daemon knows.
Checked(map, es) ==
    [e \in Elements |-> IF e \in es \cap registered THEN WithLookup(map, e)[e] ELSE map[e]]

\* asyncConnect(); only the source's client is asked.
CapiConnect(h, c, source, sink) ==
    /\ c \notin usedConnections /\ {source, sink} \subseteq registered \ Crossfaders
    /\ elementMap' = Checked(elementMap, {source, sink})
    /\ LET d == elementMap'[source] IN
        IF d = NONE
        THEN Refused(h, {c}) /\ UNCHANGED <<connectionMap, handleMap>>
        ELSE /\ connectionMap' = Inserted(connectionMap, c, d)
             /\ handleMap' = Inserted(handleMap, h, d)
             /\ Do(h, "connect", {c}, d)
    /\ UNCHANGED <<connected, domainMap, late>>

CapiDisconnect(h, c) ==
    /\ connection[c] # NONE
    /\ IF connectionMap[c] = NONE
       THEN Refused(h, {}) /\ UNCHANGED handleMap
       ELSE /\ handleMap' = Inserted(handleMap, h, connectionMap[c])
            /\ Do(h, "disconnect", {c}, connectionMap[c])
    /\ UNCHANGED <<connected, domainMap, elementMap, connectionMap, late>>

\* Volumes, source states, sound properties, notification configurations: one element each.
CapiSetElement(h, e) ==
    /\ e \in registered \ Crossfaders
    /\ elementMap' = Checked(elementMap, {e})
    /\ LET d == elementMap'[e] IN
        IF d = NONE
        THEN Refused(h, {}) /\ UNCHANGED handleMap
        ELSE handleMap' = Inserted(handleMap, h, d) /\ Do(h, "element", {e}, d)
    /\ UNCHANGED <<connected, domainMap, connectionMap, late>>

\* asyncCrossFade() and asyncSetVolumes() do not check the lookup; a list of volumes
\* goes to the client of its first element as a whole, an empty one to nobody.
CapiForward(h, e, keys) ==
    /\ IF elementMap[e] = NONE
       THEN Refused(h, {}) /\ UNCHANGED handleMap
       ELSE /\ handleMap' = Inserted(handleMap, h, elementMap[e])
            /\ Do(h, "element", keys, elementMap[e])
    /\ UNCHANGED <<connected, domainMap, elementMap, connectionMap, late>>

CapiCrossFade(h, x) == x \in registered \cap Crossfaders /\ CapiForward(h, x, {x})

CapiSetVolumes(h, list) ==
    LET keys == {list[i] : i \in DOMAIN list} IN
    /\ keys \subseteq registered \ Crossfaders
    /\ IF list = <<>> THEN Refused(h, {}) /\ UNCHANGED capiVars ELSE CapiForward(h, list[1], keys)

-----------------------------------------------------------------------------
(* What becomes of a request *)

\* The Common API reports that the call succeeded.
CapiDelivered(h) == Delivered(h) /\ UNCHANGED capiVars

\* ack*(): the answer is passed on, then the handle, and after a disconnect the connection
\* too, is taken out of the maps.
CapiAck(h, ok) ==
    /\ Answered(h, ok)
    /\ handleMap' = [handleMap EXCEPT ![h] = NONE]
    /\ connectionMap' =
        IF Waiting(h) /\ request[h].kind = "disconnect"
        THEN [c \in Connections |-> IF c \in request[h].keys THEN NONE ELSE connectionMap[c]]
        ELSE connectionMap
    /\ UNCHANGED <<connected, domainMap, elementMap>>

\* The client answers; the plugin gets the event when it has subscribed.
ClientAnswers(h, ok) ==
    /\ Waiting(h) /\ request[h].stage = "served" /\ request[h].to \in connected
    /\ CapiAck(h, ok)
    /\ UNCHANGED late

\* The service's ack*(), called by the plugin with E_NON_EXISTENT.
AnswersItself(h) == CapiAck(h, FALSE)

\* The call fails or times out (callStatus # SUCCESS): the plugin answers for the
\* client.  After a timeout the client may have the request all the same.
CallFails(h) ==
    /\ Waiting(h) /\ request[h].stage = "sent"
    /\ AnswersItself(h)
    /\ \/ late' = late
       \/ request[h].to \in running /\ late' = late \cup {h}

\* and answers it once more.
LateAnswer(h, ok) ==
    /\ h \in late
    /\ CapiAck(h, ok)
    /\ late' = late \ {h}

CapiClientStarts(d) == ClientStarts(d) /\ UNCHANGED capiVars
CapiClientStops(d) == ClientStops(d) /\ UNCHANGED capiVars

-----------------------------------------------------------------------------
CapiRequest(h) ==
    \/ \E c \in Connections, source, sink \in Elements : CapiConnect(h, c, source, sink)
    \/ \E c \in Connections : CapiDisconnect(h, c)
    \/ \E e \in Elements : CapiSetElement(h, e) \/ CapiCrossFade(h, e)
    \/ \E list \in VolumeLists : CapiSetVolumes(h, list)

CapiNext ==
    \/ \E d \in Domains : \/ CapiRegisterDomain(d) \/ CapiDeregisterDomain(d) \/ StatusEvent(d)
                          \/ CapiClientStarts(d) \/ CapiClientStops(d)
    \/ \E e \in Elements : CapiRegisterElement(e) \/ CapiDeregisterElement(e)
    \/ \E h \in Handles : \/ CapiRequest(h) \/ CapiDelivered(h) \/ CallFails(h)
                          \/ \E ok \in BOOLEAN : ClientAnswers(h, ok) \/ LateAnswer(h, ok)

CapiSpec == CapiInit /\ [][CapiNext]_<<daemonVars, capiVars>>

-----------------------------------------------------------------------------
(* Properties *)

\* A request goes to the client that owns what it is about: for the elements the domain
\* they are registered with, for a connection the one that was asked to connect it.  (Violated:
\* a list of volumes goes to the owner of its first entry.)
CapiReachesOwner ==
    \A h \in Handles : Waiting(h) =>
        \A key \in request[h].keys :
            IF key \in Elements THEN request[h].to = HomeOf[key]
            ELSE connection[key] # NONE => request[h].to = connection[key]

\* As long as a domain is registered, the plugin can abort what its client is working on
\* and disconnect what it has connected: the lookup leads to this client.
CapiStaysInReach ==
    /\ \A h \in Handles : Waiting(h) /\ request[h].to \in domainMap => handleMap[h] = request[h].to
    /\ \A c \in Connections : connection[c] \in domainMap => connectionMap[c] = connection[c]
=============================================================================
