------------------------ MODULE RoutingClients_proofs ------------------------
(***************************************************************************)
(* Theorems about the two plugins for routing clients, their handshake     *)
(* with the daemon and the clients of the command plugins, for every set   *)
(* of domains, elements, connections and handles.                          *)
(***************************************************************************)
EXTENDS CapiRouting, DbusRouting, RoutingHandshake, CommandClients, FiniteSetTheorems, TLAPS

-----------------------------------------------------------------------------
(* The daemon *)

DaemonShape ==
    /\ domain \in [Domains -> {"new", "known", "gone"}]
    /\ registered \subseteq Elements
    /\ request \in [Handles -> Requests \cup {NONE}]
    /\ connection \in [Connections -> Domains \cup {NONE}]

\* Nothing has been asked of a domain that is still to come.
Asked ==
    /\ \A h \in Handles : Waiting(h) => domain[request[h].to] # "new"
    /\ \A c \in Connections : connection[c] # NONE => domain[connection[c]] # "new"

\* Handles and connections get their meaning when they are used for the first time.
Unused ==
    /\ \A h \in Handles \ usedHandles : request[h] = NONE
    /\ \A c \in Connections \ usedConnections : connection[c] = NONE

DaemonInv == DaemonShape /\ Asked /\ Unused

\* What no step of the daemon or of a client does: a domain is not forgotten, a number not
\* given back.
Onwards ==
    /\ \A d \in Domains : domain[d] # "new" => domain'[d] # "new"
    /\ usedHandles \subseteq usedHandles' /\ usedConnections \subseteq usedConnections'

\* Registrations change no request, and take connections away only with their domain.
LEMMA RegistrationInv ==
    ASSUME DaemonInv,
           \/ \E d \in Domains : RegisterDomain(d) \/ DeregisterDomain(d)
           \/ \E e \in Elements : RegisterElement(e) \/ DeregisterElement(e)
    PROVE  DaemonInv' /\ Onwards
<1>1. ASSUME NEW d \in Domains, RegisterDomain(d) PROVE DaemonInv' /\ Onwards
  <2>1. /\ domain' = [domain EXCEPT ![d] = "known"]
        /\ UNCHANGED <<registered, connection, usedConnections, request, usedHandles>>
    BY <1>1 DEF RegisterDomain
  <2>2. \A x \in Domains : domain[x] # "new" => domain'[x] # "new"
    BY <2>1 DEF DaemonInv, DaemonShape
  <2>3. \A h \in Handles : request[h] # NONE => request[h].to \in Domains
    BY DEF DaemonInv, DaemonShape, Requests
  <2>4. QED
    BY <2>1, <2>2, <2>3 DEF DaemonInv, DaemonShape, Asked, Unused, Onwards, Waiting
<1>2. ASSUME NEW d \in Domains, DeregisterDomain(d) PROVE DaemonInv' /\ Onwards
  <2>1. /\ domain' = [domain EXCEPT ![d] = "gone"]
        /\ registered' \subseteq registered
        /\ connection' = [c \in Connections |-> IF connection[c] = d THEN NONE ELSE connection[c]]
        /\ UNCHANGED <<usedConnections, request, usedHandles>>
    BY <1>2 DEF DeregisterDomain
  <2>2. \A x \in Domains : domain[x] # "new" => domain'[x] # "new"
    BY <2>1 DEF DaemonInv, DaemonShape
  <2>3. \A h \in Handles : request[h] # NONE => request[h].to \in Domains
    BY DEF DaemonInv, DaemonShape, Requests
  <2>4. DaemonShape'
    BY <2>1 DEF DaemonInv, DaemonShape
  <2>5. Asked'
    BY <2>1, <2>2, <2>3 DEF DaemonInv, DaemonShape, Asked, Waiting
  <2>6. QED
    BY <2>1, <2>2, <2>4, <2>5 DEF DaemonInv, Unused, Onwards
<1>3. ASSUME NEW e \in Elements, RegisterElement(e) \/ DeregisterElement(e) PROVE DaemonInv' /\ Onwards
  <2>1. /\ registered' \subseteq Elements
        /\ UNCHANGED <<domain, connection, usedConnections, request, usedHandles>>
    BY <1>3 DEF RegisterElement, DeregisterElement, DaemonInv, DaemonShape
  <2>2. QED
    BY <2>1 DEF DaemonInv, DaemonShape, Asked, Unused, Onwards, Waiting
<1>4. QED
  BY <1>1, <1>2, <1>3

LEMMA AcceptedInv ==
    ASSUME DaemonInv, NEW h \in Handles, NEW kind \in {"connect", "disconnect", "element", "transfer"},
           NEW keys \in SUBSET (Elements \cup Connections \cup Domains), NEW d \in Domains,
           domain[d] # "new", Accepted(h, kind, keys, d)
    PROVE  /\ DaemonInv' /\ Onwards /\ UNCHANGED domain
           /\ \A g \in Handles : request'[g] =
                 IF g = h THEN [kind |-> kind, keys |-> keys, to |-> d, stage |-> "sent"] ELSE request[g]
           /\ usedHandles' = usedHandles \cup {h}
           /\ \A c \in Connections : connection'[c] =
                 IF kind = "connect" /\ c \in keys THEN d ELSE connection[c]
<1> DEFINE r == [kind |-> kind, keys |-> keys, to |-> d, stage |-> "sent"]
<1>1. /\ request' = [request EXCEPT ![h] = r] /\ usedHandles' = usedHandles \cup {h}
      /\ usedConnections' = usedConnections \cup (keys \cap Connections)
      /\ UNCHANGED <<domain, registered>>
  BY DEF Accepted
<1>2. r \in Requests /\ r.to = d
  BY DEF Requests
<1>3. /\ request' \in [Handles -> Requests \cup {NONE}]
      /\ \A g \in Handles : request'[g] = IF g = h THEN r ELSE request[g]
  BY <1>1, <1>2 DEF DaemonInv, DaemonShape
<1>4. /\ connection' \in [Connections -> Domains \cup {NONE}]
      /\ \A c \in Connections : connection'[c] =
            IF kind = "connect" /\ c \in keys THEN d ELSE connection[c]
  BY DEF Accepted, DaemonInv, DaemonShape
<1>5. DaemonShape'
  BY <1>1, <1>3, <1>4 DEF DaemonInv, DaemonShape
<1>6. Asked'
  <2>1. \A g \in Handles : Waiting(g)' => domain[request'[g].to] # "new"
    BY <1>2, <1>3 DEF DaemonInv, Asked, Waiting
  <2>2. \A c \in Connections : connection'[c] # NONE => domain[connection'[c]] # "new"
    BY <1>4 DEF DaemonInv, Asked
  <2>3. QED
    BY <1>1, <2>1, <2>2 DEF Asked
<1>7. Unused'
  BY <1>1, <1>3, <1>4 DEF DaemonInv, Unused
<1>8. Onwards
  BY <1>1 DEF Onwards
<1>9. QED
  BY <1>1, <1>3, <1>4, <1>5, <1>6, <1>7, <1>8 DEF DaemonInv

LEMMA RefusedInv ==
    ASSUME DaemonInv, NEW h, NEW keys, Refused(h, keys)
    PROVE  DaemonInv' /\ Onwards
BY DEF Refused, DaemonInv, DaemonShape, Asked, Unused, Onwards, Waiting

\* A request is answered, or gets further on its way.
LEMMA AnsweredInv ==
    ASSUME DaemonInv, NEW h \in Handles, NEW ok \in BOOLEAN, Answered(h, ok)
    PROVE  /\ DaemonInv' /\ Onwards /\ UNCHANGED <<domain, usedHandles>>
           /\ \A g \in Handles : request'[g] = IF g = h THEN NONE ELSE request[g]
           /\ \A c \in Connections : connection'[c] \in {NONE, connection[c]}
           /\ \A c \in Connections :
                 Waiting(h) /\ request[h].kind = "disconnect" /\ c \in request[h].keys => connection'[c] = NONE
<1>1. /\ request' = [request EXCEPT ![h] = NONE]
      /\ UNCHANGED <<domain, registered, usedConnections, usedHandles>>
  BY DEF Answered
<1>2. /\ connection' \in [Connections -> Domains \cup {NONE}]
      /\ \A c \in Connections : connection'[c] \in {NONE, connection[c]}
      /\ \A c \in Connections :
            Waiting(h) /\ request[h].kind = "disconnect" /\ c \in request[h].keys => connection'[c] = NONE
  BY DEF Answered, DaemonInv, DaemonShape, Waiting
<1>3. /\ \A g \in Handles : request'[g] = IF g = h THEN NONE ELSE request[g]
      /\ request' \in [Handles -> Requests \cup {NONE}]
  BY <1>1 DEF DaemonInv, DaemonShape
<1>4. DaemonShape'
  BY <1>1, <1>2, <1>3 DEF DaemonInv, DaemonShape
<1>5. Asked'
  BY <1>1, <1>2, <1>3 DEF DaemonInv, Asked, Waiting
<1>6. Unused'
  BY <1>1, <1>2, <1>3 DEF DaemonInv, Unused
<1>7. Onwards
  BY <1>1 DEF Onwards
<1>8. QED
  BY <1>1, <1>2, <1>3, <1>4, <1>5, <1>6, <1>7 DEF DaemonInv

\* A request gets further on its way, or is lost with its client; the client stays the same.
SameClients ==
    /\ UNCHANGED <<domain, registered, connection, usedConnections, usedHandles>>
    /\ request' \in [Handles -> Requests \cup {NONE}]
    /\ \A h \in Handles : request'[h] # NONE =>
          /\ Waiting(h) /\ request'[h].to = request[h].to
          /\ request[h].stage = "ignored" => request'[h].stage = "ignored"

LEMMA StageMoves ==
    ASSUME DaemonInv, NEW h \in Handles, Waiting(h), NEW next \in {"served", "lost", "ignored"},
           request[h].stage # "ignored", request' = [request EXCEPT ![h].stage = next],
           UNCHANGED <<domain, registered, connection, usedConnections, usedHandles>>
    PROVE  SameClients
<1>1. request[h] \in Requests
  BY DEF DaemonInv, DaemonShape, Waiting
<1>2. [request[h] EXCEPT !.stage = next] \in Requests
      /\ [request[h] EXCEPT !.stage = next].to = request[h].to
  BY <1>1 DEF Requests
<1>3. \A g \in Handles : request'[g] = IF g = h THEN [request[h] EXCEPT !.stage = next] ELSE request[g]
  BY DEF DaemonInv, DaemonShape
<1>4. request' \in [Handles -> Requests \cup {NONE}]
  BY <1>2 DEF DaemonInv, DaemonShape
<1>5. QED
  BY <1>2, <1>3, <1>4 DEF SameClients, Waiting

LEMMA ClientsInv ==
    ASSUME DaemonInv,
           \/ \E h \in Handles : Delivered(h)
           \/ \E d \in Domains : ClientStarts(d) \/ ClientStops(d)
    PROVE  SameClients
<1>1. ASSUME NEW h \in Handles, Delivered(h) PROVE SameClients
  BY <1>1, StageMoves DEF Delivered, Waiting
<1>2. ASSUME NEW d \in Domains, ClientStarts(d) PROVE SameClients
  BY <1>2 DEF ClientStarts, SameClients, DaemonInv, DaemonShape, Waiting
<1>3. ASSUME NEW d \in Domains, ClientStops(d) PROVE SameClients
  <2> DEFINE Lost(h) == request[h] # NONE /\ request[h].to = d /\ request[h].stage = "served"
             Now(h) == IF Lost(h) THEN [request[h] EXCEPT !.stage = "lost"] ELSE request[h]
  <2>1. request' = [h \in Handles |-> Now(h)]
        /\ UNCHANGED <<domain, registered, connection, usedConnections, usedHandles>>
    BY <1>3 DEF ClientStops
  <2>2. ASSUME NEW h \in Handles
        PROVE  /\ Now(h) \in Requests \cup {NONE}
               /\ Now(h) # NONE => /\ Waiting(h) /\ Now(h).to = request[h].to
                                   /\ request[h].stage = "ignored" => Now(h).stage = "ignored"
    <3>1. request[h] \in Requests \cup {NONE}
      BY DEF DaemonInv, DaemonShape
    <3>2. CASE Lost(h)
      BY <3>1, <3>2 DEF Requests, Waiting
    <3>3. CASE ~Lost(h)
      BY <3>1, <3>3 DEF Waiting
    <3>4. QED
      BY <3>2, <3>3
  <2>3. QED
    BY <2>1, <2>2 DEF SameClients
<1>4. QED
  BY <1>1, <1>2, <1>3

LEMMA SameClientsInv ==
    ASSUME DaemonInv, SameClients
    PROVE  DaemonInv' /\ Onwards
BY DEF SameClients, DaemonInv, DaemonShape, Asked, Unused, Onwards, Waiting

-----------------------------------------------------------------------------
(* The Common-API plugin *)

LookupShape ==
    /\ domainMap \subseteq Domains
    /\ elementMap \in [Elements -> Domains \cup {NONE}]
    /\ connectionMap \in [Connections -> Domains \cup {NONE}]
    /\ handleMap \in [Handles -> Domains \cup {NONE}]

\* Only domains that have registered are looked up.
LookupsKnown ==
    /\ \A d \in domainMap : domain[d] # "new"
    /\ \A e \in Elements : elementMap[e] # NONE => domain[elementMap[e]] # "new"
    /\ \A c \in Connections : connectionMap[c] # NONE => domain[connectionMap[c]] # "new"

LookupsUnused ==
    /\ \A h \in Handles \ usedHandles : handleMap[h] = NONE
    /\ \A c \in Connections \ usedConnections : connectionMap[c] = NONE

CapiInv == DaemonInv /\ LookupShape /\ LookupsKnown /\ LookupsUnused /\ CapiStaysInReach

\* A step that leaves requests and connections, or takes some away, and the entries that lead
\* to registered domains.
LEMMA LookupsStay ==
    ASSUME CapiInv, DaemonInv', Onwards, LookupShape', domainMap' \subseteq domainMap,
           \A h \in Handles : request'[h] # NONE => Waiting(h) /\ request'[h].to = request[h].to,
           \A c \in Connections : connection'[c] \in {NONE, connection[c]},
           \A e \in Elements : elementMap'[e] # NONE => domain[elementMap'[e]] # "new",
           \A h \in Handles : \/ handleMap'[h] = handleMap[h]
                              \/ handleMap'[h] = NONE /\ (request'[h] = NONE \/ handleMap[h] \notin domainMap')
                              \/ request'[h] = NONE /\ h \in usedHandles',
           \A c \in Connections : \/ connectionMap'[c] = connectionMap[c]
                                  \/ /\ connectionMap'[c] = NONE
                                     /\ connection'[c] = NONE \/ connectionMap[c] \notin domainMap'
    PROVE  CapiInv'
<1>1. LookupsKnown'
  <2>1. \A d \in domainMap : d \in Domains /\ domain[d] # "new" /\ domain'[d] # "new"
    BY DEF CapiInv, LookupShape, LookupsKnown, Onwards
  <2>2. \A e \in Elements : elementMap'[e] # NONE => domain'[elementMap'[e]] # "new"
    BY DEF LookupShape, Onwards
  <2>3. \A c \in Connections : connectionMap'[c] # NONE => domain'[connectionMap'[c]] # "new"
    BY DEF CapiInv, LookupShape, LookupsKnown, Onwards
  <2>4. QED
    BY <2>1, <2>2, <2>3 DEF LookupsKnown
<1>2. LookupsUnused'
  BY DEF CapiInv, LookupsUnused, Onwards
<1>3. CapiStaysInReach'
  <2>1. ASSUME NEW h \in Handles, request'[h] # NONE, request'[h].to \in domainMap'
        PROVE  handleMap'[h] = request'[h].to
    <3>1. Waiting(h) /\ request[h].to \in domainMap /\ handleMap[h] = request[h].to
      BY <2>1 DEF CapiInv, CapiStaysInReach
    <3>2. QED
      BY <2>1, <3>1
  <2>2. ASSUME NEW c \in Connections, connection'[c] \in domainMap'
        PROVE  connectionMap'[c] = connection'[c]
    <3>1. connection'[c] # NONE
      BY <2>2, RoutingAssumption DEF CapiInv, LookupShape
    <3>2. connection'[c] = connection[c] /\ connectionMap[c] = connection[c]
      BY <2>2, <3>1 DEF CapiInv, CapiStaysInReach
    <3>3. QED
      BY <2>2, <3>1, <3>2
  <2>3. QED
    BY <2>1, <2>2 DEF CapiStaysInReach, Waiting
<1>4. QED
  BY <1>1, <1>2, <1>3 DEF CapiInv

\* A lookup that is entered is one of a registered domain.
LEMMA LookupsEntered ==
    ASSUME LookupShape, LookupsKnown, NEW e \in Elements
    PROVE  /\ WithLookup(elementMap, e) \in [Elements -> Domains \cup {NONE}]
           /\ \A x \in Elements : WithLookup(elementMap, e)[x] # NONE =>
                 domain[WithLookup(elementMap, e)[x]] # "new"
<1>1. ASSUME NEW d \in Domains, domain[d] # "new"
      PROVE  /\ Inserted(elementMap, e, d) \in [Elements -> Domains \cup {NONE}]
             /\ \A x \in Elements : Inserted(elementMap, e, d)[x] # NONE =>
                   domain[Inserted(elementMap, e, d)[x]] # "new"
  BY <1>1 DEF LookupShape, LookupsKnown, Inserted
<1>2. CASE e \in Crossfaders
  <2>1. SourceOf[e] \in Elements
    BY <1>2, CapiAssumption
  <2>2. CASE elementMap[SourceOf[e]] # NONE
    BY <1>1, <1>2, <2>1, <2>2 DEF LookupShape, LookupsKnown, WithLookup
  <2>3. CASE elementMap[SourceOf[e]] = NONE
    BY <1>2, <2>3 DEF LookupShape, LookupsKnown, WithLookup
  <2>4. QED
    BY <2>2, <2>3
<1>3. CASE e \notin Crossfaders
  <2>1. CASE HomeOf[e] \in domainMap
    BY <1>1, <1>3, <2>1 DEF LookupShape, LookupsKnown, WithLookup
  <2>2. CASE HomeOf[e] \notin domainMap
    BY <1>3, <2>2 DEF LookupShape, LookupsKnown, WithLookup
  <2>3. QED
    BY <2>1, <2>2
<1>4. QED
  BY <1>2, <1>3

LEMMA CapiRegistrationInv ==
    ASSUME CapiInv,
           \/ \E d \in Domains : CapiRegisterDomain(d) \/ CapiDeregisterDomain(d) \/ StatusEvent(d)
           \/ \E e \in Elements : CapiRegisterElement(e) \/ CapiDeregisterElement(e)
    PROVE  CapiInv'
<1>1. ASSUME NEW d \in Domains, CapiRegisterDomain(d) PROVE CapiInv'
  <2>1. /\ domain[d] = "new" /\ domain' = [domain EXCEPT ![d] = "known"]
        /\ domainMap' = domainMap \cup {d}
        /\ UNCHANGED <<connection, usedConnections, request, usedHandles, elementMap, connectionMap, handleMap>>
    BY <1>1 DEF CapiRegisterDomain, RegisterDomain
  <2>2. DaemonInv' /\ Onwards
    BY <1>1, RegistrationInv DEF CapiRegisterDomain, CapiInv
  <2>3. LookupShape' /\ LookupsUnused'
    BY <2>1 DEF CapiInv, LookupShape, LookupsUnused
  <2>4. LookupsKnown'
    BY <2>1, <2>2 DEF CapiInv, DaemonInv, DaemonShape, LookupShape, LookupsKnown, Onwards
  <2>5. CapiStaysInReach'
    BY <2>1, RoutingAssumption DEF CapiInv, DaemonInv, Asked, CapiStaysInReach, Waiting
  <2>6. QED
    BY <2>2, <2>3, <2>4, <2>5 DEF CapiInv
<1>2. ASSUME NEW d \in Domains, CapiDeregisterDomain(d) PROVE CapiInv'
  <2>1. /\ connection' = [c \in Connections |-> IF connection[c] = d THEN NONE ELSE connection[c]]
        /\ UNCHANGED <<usedConnections, request, usedHandles>>
    BY <1>2 DEF CapiDeregisterDomain, DeregisterDomain
  <2>2. DaemonInv' /\ Onwards
    BY <1>2, RegistrationInv DEF CapiDeregisterDomain, CapiInv
  <2>3. \A c \in Connections : connection'[c] \in {NONE, connection[c]}
    BY <2>1
  <2>4. CASE d \in domainMap
    <3>1. /\ domainMap' = domainMap \ {d}
          /\ elementMap' = [e1 \in Elements |-> IF elementMap[e1] = d THEN NONE ELSE elementMap[e1]]
          /\ handleMap' = [h \in Handles |-> IF handleMap[h] = d THEN NONE ELSE handleMap[h]]
          /\ connectionMap' = [c \in Connections |-> IF connectionMap[c] = d THEN NONE ELSE connectionMap[c]]
      BY <1>2, <2>4 DEF CapiDeregisterDomain, WithoutValue, CapiInv, LookupShape
    <3>2. LookupShape'
      BY <3>1 DEF CapiInv, LookupShape
    <3>3. \A x \in Elements : elementMap'[x] # NONE => domain[elementMap'[x]] # "new"
      BY <3>1 DEF CapiInv, LookupsKnown
    <3>4. QED
      BY <2>1, <2>2, <2>3, <3>1, <3>2, <3>3, LookupsStay DEF Waiting
  <2>5. CASE d \notin domainMap
    <3>1. UNCHANGED <<domainMap, elementMap, connectionMap, handleMap>>
      BY <1>2, <2>5 DEF CapiDeregisterDomain, lookups
    <3>2. LookupShape'
      BY <3>1 DEF CapiInv, LookupShape
    <3>3. \A x \in Elements : elementMap'[x] # NONE => domain[elementMap'[x]] # "new"
      BY <3>1 DEF CapiInv, LookupsKnown
    <3>4. QED
      BY <2>1, <2>2, <2>3, <3>1, <3>2, <3>3, LookupsStay DEF Waiting
  <2>6. QED
    BY <2>4, <2>5
<1>3. ASSUME NEW e \in Elements, CapiRegisterElement(e) \/ CapiDeregisterElement(e) PROVE CapiInv'
  <2>1. /\ UNCHANGED <<connection, usedConnections, request, usedHandles, domainMap, connectionMap, handleMap>>
        /\ elementMap' = WithLookup(elementMap, e) \/ elementMap' = [elementMap EXCEPT ![e] = NONE]
    BY <1>3 DEF CapiRegisterElement, CapiDeregisterElement, RegisterElement, DeregisterElement
  <2>2. DaemonInv' /\ Onwards
    BY <1>3, RegistrationInv DEF CapiRegisterElement, CapiDeregisterElement, CapiInv
  <2>3. /\ elementMap' \in [Elements -> Domains \cup {NONE}]
        /\ \A x \in Elements : elementMap'[x] # NONE => domain[elementMap'[x]] # "new"
    BY <2>1, LookupsEntered DEF CapiInv, LookupShape, LookupsKnown
  <2>4. LookupShape'
    BY <2>1, <2>3 DEF CapiInv, LookupShape
  <2>5. QED
    BY <2>1, <2>2, <2>3, <2>4, LookupsStay DEF Waiting
<1>4. ASSUME NEW d \in Domains, StatusEvent(d) PROVE CapiInv'
  <2>1. UNCHANGED <<domain, registered, connection, usedConnections, request, usedHandles,
                    domainMap, elementMap, connectionMap, handleMap>>
    BY <1>4 DEF StatusEvent, daemonVars, lookups
  <2>2. QED
    BY <2>1 DEF CapiInv, DaemonInv, DaemonShape, Asked, Unused, LookupShape, LookupsKnown, LookupsUnused,
                CapiStaysInReach, Waiting
<1>5. QED
  BY <1>1, <1>2, <1>3, <1>4

\* A request the plugin refuses changes no lookup but those of elements.
LEMMA NotForwarded ==
    ASSUME CapiInv, NEW h \in Handles, NEW keys, Refused(h, keys),
           UNCHANGED <<domainMap, connectionMap, handleMap>>,
           elementMap' \in [Elements -> Domains \cup {NONE}],
           \A e \in Elements : elementMap'[e] # NONE => domain[elementMap'[e]] # "new"
    PROVE  CapiInv'
<1>1. DaemonInv' /\ Onwards
  BY RefusedInv DEF CapiInv
<1>2. UNCHANGED <<connection, request>>
  BY DEF Refused
<1>3. LookupShape'
  BY DEF CapiInv, LookupShape
<1>4. QED
  BY <1>1, <1>2, <1>3, LookupsStay DEF Waiting

\* A request that is forwarded to the client of d, or refused because the client is away.
LEMMA Forwarded ==
    ASSUME CapiInv, ~HandlesWrap, NEW h \in Handles,
           NEW kind \in {"connect", "disconnect", "element"},
           NEW keys \in SUBSET (Elements \cup Connections), NEW d \in Domains, domain[d] # "new",
           Do(h, kind, keys, d), handleMap' = Inserted(handleMap, h, d), UNCHANGED domainMap,
           \/ kind # "connect" /\ connectionMap' = connectionMap
           \/ \E c \in Connections \ usedConnections : /\ keys = {c} /\ kind = "connect"
                                                     /\ connectionMap' = Inserted(connectionMap, c, d),
           elementMap' \in [Elements -> Domains \cup {NONE}],
           \A e \in Elements : elementMap'[e] # NONE => domain[elementMap'[e]] # "new"
    PROVE  CapiInv'
<1>1. h \notin usedHandles /\ request[h] = NONE
  BY DEF Do, Accepted, Refused, FreeHandle
<1>2. handleMap[h] = NONE
  BY <1>1 DEF CapiInv, LookupsUnused
<1>3. /\ handleMap' \in [Handles -> Domains \cup {NONE}]
      /\ \A g \in Handles : handleMap'[g] = IF g = h THEN d ELSE handleMap[g]
  BY <1>2 DEF CapiInv, LookupShape, Inserted
<1>4. ASSUME NEW c \in Connections \ usedConnections, connectionMap' = Inserted(connectionMap, c, d)
      PROVE  /\ connectionMap' \in [Connections -> Domains \cup {NONE}]
             /\ \A b \in Connections : connectionMap'[b] = IF b = c THEN d ELSE connectionMap[b]
  <2>1. connectionMap[c] = NONE
    BY DEF CapiInv, LookupsUnused
  <2>2. QED
    BY <1>4, <2>1 DEF CapiInv, LookupShape, Inserted
<1>5. \/ Accepted(h, kind, keys, d)
      \/ Refused(h, keys)
  BY DEF Do
<1>6. DaemonInv' /\ Onwards /\ UNCHANGED domain /\ usedHandles' = usedHandles \cup {h}
      /\ usedConnections' = usedConnections \cup (keys \cap Connections)
  <2>1. CASE Accepted(h, kind, keys, d)
    BY <2>1, AcceptedInv DEF CapiInv, Accepted
  <2>2. CASE Refused(h, keys)
    BY <2>2, RefusedInv DEF CapiInv, Refused
  <2>3. QED
    BY <1>5, <2>1, <2>2
<1>7. LookupShape'
  BY <1>3, <1>4 DEF CapiInv, LookupShape
<1>8. LookupsKnown'
  <2>1. \A c \in Connections : connectionMap'[c] # NONE => domain[connectionMap'[c]] # "new"
    BY <1>4 DEF CapiInv, LookupsKnown
  <2>2. QED
    BY <1>6, <2>1 DEF CapiInv, LookupsKnown
<1>9. LookupsUnused'
  <2>1. \A g \in Handles \ usedHandles' : handleMap'[g] = NONE
    BY <1>3, <1>6 DEF CapiInv, LookupsUnused
  <2>2. \A c \in Connections \ usedConnections' : connectionMap'[c] = NONE
    BY <1>4, <1>6 DEF CapiInv, LookupsUnused
  <2>3. QED
    BY <2>1, <2>2 DEF LookupsUnused
<1>10. CapiStaysInReach'
  <2> DEFINE r == [kind |-> kind, keys |-> keys, to |-> d, stage |-> "sent"]
  <2>0. ASSUME Accepted(h, kind, keys, d)
        PROVE  /\ \A g \in Handles : request'[g] = IF g = h THEN r ELSE request[g]
               /\ \A c \in Connections : connection'[c] =
                     IF kind = "connect" /\ c \in keys THEN d ELSE connection[c]
    <3>1. kind \in {"connect", "disconnect", "element", "transfer"}
          /\ keys \in SUBSET (Elements \cup Connections \cup Domains) /\ DaemonInv
      BY DEF CapiInv
    <3>2. QED
      BY <2>0, <3>1, AcceptedInv
  <2>1. \A g \in Handles : request'[g] # NONE =>
           \/ g = h /\ request'[g].to = d
           \/ g # h /\ request'[g] = request[g]
    <3>1. CASE Accepted(h, kind, keys, d)
      BY <2>0, <3>1
    <3>2. CASE Refused(h, keys)
      BY <1>1, <3>2 DEF Refused
    <3>3. QED
      BY <1>5, <3>1, <3>2
  <2>2. \A g \in Handles : request'[g] # NONE /\ request'[g].to \in domainMap => handleMap'[g] = request'[g].to
    BY <1>3, <2>1 DEF CapiInv, CapiStaysInReach, Waiting
  <2>3. \A c \in Connections : connection'[c] \in domainMap => connectionMap'[c] = connection'[c]
    <3>1. ASSUME NEW c \in Connections
          PROVE  \/ connection'[c] = connection[c]
                 \/ kind = "connect" /\ c \in keys /\ connection'[c] = d
      <4>1. CASE Accepted(h, kind, keys, d)
        BY <2>0, <4>1
      <4>2. CASE Refused(h, keys)
        BY <4>2 DEF Refused
      <4>3. QED
        BY <1>5, <4>1, <4>2
    <3>2. CASE kind # "connect"
      BY <3>1, <3>2 DEF CapiInv, CapiStaysInReach
    <3>3. ASSUME NEW c \in Connections \ usedConnections, keys = {c}, kind = "connect",
                 connectionMap' = Inserted(connectionMap, c, d)
          PROVE  \A b \in Connections : connection'[b] \in domainMap => connectionMap'[b] = connection'[b]
      <4>1. connection[c] = NONE /\ NONE \notin domainMap
        BY RoutingAssumption DEF CapiInv, DaemonInv, Unused, LookupShape
      <4>2. QED
        BY <1>4, <3>1, <3>3, <4>1 DEF CapiInv, CapiStaysInReach
    <3>4. QED
      BY <3>2, <3>3
  <2>4. QED
    BY <2>2, <2>3 DEF CapiStaysInReach, Waiting
<1>11. QED
  BY <1>6, <1>7, <1>8, <1>9, <1>10 DEF CapiInv

LEMMA LookupsChecked ==
    ASSUME LookupShape, LookupsKnown, NEW es
    PROVE  /\ Checked(elementMap, es) \in [Elements -> Domains \cup {NONE}]
           /\ \A x \in Elements : Checked(elementMap, es)[x] # NONE =>
                 domain[Checked(elementMap, es)[x]] # "new"
<1>1. ASSUME NEW x \in Elements
      PROVE  /\ Checked(elementMap, es)[x] \in Domains \cup {NONE}
             /\ Checked(elementMap, es)[x] # NONE => domain[Checked(elementMap, es)[x]] # "new"
  <2>1. Checked(elementMap, es)[x] \in {elementMap[x], WithLookup(elementMap, x)[x]}
    BY DEF Checked
  <2>2. /\ WithLookup(elementMap, x)[x] \in Domains \cup {NONE}
        /\ WithLookup(elementMap, x)[x] # NONE => domain[WithLookup(elementMap, x)[x]] # "new"
    BY LookupsEntered
  <2>3. QED
    BY <2>1, <2>2 DEF LookupShape, LookupsKnown
<1>2. QED
  BY <1>1 DEF Checked

LEMMA CapiRequestInv ==
    ASSUME CapiInv, ~HandlesWrap, NEW h \in Handles, CapiRequest(h)
    PROVE  CapiInv'
<1>1. registered \subseteq Elements /\ LookupShape /\ LookupsKnown
  BY DEF CapiInv, DaemonInv, DaemonShape
<1>2. ASSUME NEW c \in Connections, NEW source \in Elements, NEW sink \in Elements,
             CapiConnect(h, c, source, sink)
      PROVE  CapiInv'
  <2> DEFINE d == elementMap'[source]
  <2>1. /\ c \notin usedConnections /\ UNCHANGED domainMap
        /\ elementMap' = Checked(elementMap, {source, sink})
    BY <1>2 DEF CapiConnect
  <2>2. /\ elementMap' \in [Elements -> Domains \cup {NONE}]
        /\ \A e \in Elements : elementMap'[e] # NONE => domain[elementMap'[e]] # "new"
    BY <1>1, <2>1, LookupsChecked
  <2>3. CASE d = NONE
    BY <1>2, <2>1, <2>2, <2>3, NotForwarded DEF CapiConnect
  <2>4. CASE d # NONE
    <3>1. /\ connectionMap' = Inserted(connectionMap, c, d) /\ handleMap' = Inserted(handleMap, h, d)
          /\ Do(h, "connect", {c}, d)
      BY <1>2, <2>4 DEF CapiConnect
    <3>2. d \in Domains /\ domain[d] # "new"
      BY <2>2, <2>4
    <3>3. QED
      BY <2>1, <2>2, <3>1, <3>2, Forwarded
  <2>5. QED
    BY <2>3, <2>4
<1>3. ASSUME NEW c \in Connections, CapiDisconnect(h, c) PROVE CapiInv'
  <2>1. /\ UNCHANGED <<domainMap, connectionMap>> /\ elementMap' \in [Elements -> Domains \cup {NONE}]
        /\ \A e \in Elements : elementMap'[e] # NONE => domain[elementMap'[e]] # "new"
    BY <1>1, <1>3 DEF CapiDisconnect, LookupShape, LookupsKnown
  <2>2. CASE connectionMap[c] = NONE
    BY <1>3, <2>1, <2>2, NotForwarded DEF CapiDisconnect
  <2>3. CASE connectionMap[c] # NONE
    <3>1. connectionMap[c] \in Domains /\ domain[connectionMap[c]] # "new"
      BY <1>1, <2>3 DEF LookupShape, LookupsKnown
    <3>2. Do(h, "disconnect", {c}, connectionMap[c]) /\ handleMap' = Inserted(handleMap, h, connectionMap[c])
      BY <1>3, <2>3 DEF CapiDisconnect
    <3>3. QED
      BY <2>1, <3>1, <3>2, Forwarded
  <2>4. QED
    BY <2>2, <2>3
<1>4. ASSUME NEW e \in Elements, CapiSetElement(h, e) PROVE CapiInv'
  <2> DEFINE d == elementMap'[e]
  <2>1. UNCHANGED <<domainMap, connectionMap>> /\ elementMap' = Checked(elementMap, {e})
    BY <1>4 DEF CapiSetElement
  <2>2. /\ elementMap' \in [Elements -> Domains \cup {NONE}]
        /\ \A x \in Elements : elementMap'[x] # NONE => domain[elementMap'[x]] # "new"
    BY <1>1, <2>1, LookupsChecked
  <2>3. CASE d = NONE
    BY <1>4, <2>1, <2>2, <2>3, NotForwarded DEF CapiSetElement
  <2>4. CASE d # NONE
    <3>1. d \in Domains /\ domain[d] # "new"
      BY <2>2, <2>4
    <3>2. Do(h, "element", {e}, d) /\ handleMap' = Inserted(handleMap, h, d)
      BY <1>4, <2>4 DEF CapiSetElement
    <3>3. QED
      BY <2>1, <2>2, <3>1, <3>2, Forwarded
  <2>5. QED
    BY <2>3, <2>4
<1>5. ASSUME NEW e \in Elements, NEW keys \in SUBSET Elements, CapiForward(h, e, keys) PROVE CapiInv'
  <2>1. /\ UNCHANGED <<domainMap, connectionMap>> /\ elementMap' \in [Elements -> Domains \cup {NONE}]
        /\ \A x \in Elements : elementMap'[x] # NONE => domain[elementMap'[x]] # "new"
    BY <1>1, <1>5 DEF CapiForward, LookupShape, LookupsKnown
  <2>2. CASE elementMap[e] = NONE
    BY <1>5, <2>1, <2>2, NotForwarded DEF CapiForward
  <2>3. CASE elementMap[e] # NONE
    <3>1. elementMap[e] \in Domains /\ domain[elementMap[e]] # "new"
      BY <1>1, <2>3 DEF LookupShape, LookupsKnown
    <3>2. Do(h, "element", keys, elementMap[e]) /\ handleMap' = Inserted(handleMap, h, elementMap[e])
      BY <1>5, <2>3 DEF CapiForward
    <3>3. QED
      BY <2>1, <3>1, <3>2, Forwarded
  <2>4. QED
    BY <2>2, <2>3
<1>6. ASSUME NEW list \in VolumeLists, CapiSetVolumes(h, list) PROVE CapiInv'
  <2>1. list \in Seq(Elements)
    BY CapiAssumption
  <2>2. CASE list = <<>>
    <3>1. Refused(h, {}) /\ UNCHANGED <<domainMap, elementMap, connectionMap, handleMap>>
      BY <1>6, <2>2 DEF CapiSetVolumes, capiVars
    <3>2. QED
      BY <1>1, <3>1, NotForwarded DEF LookupShape, LookupsKnown
  <2>3. CASE list # <<>>
    <3>1. list[1] \in Elements /\ {list[i] : i \in DOMAIN list} \subseteq Elements
      BY <2>1, <2>3
    <3>2. CapiForward(h, list[1], {list[i] : i \in DOMAIN list})
      BY <1>6, <2>3 DEF CapiSetVolumes
    <3>3. QED
      BY <1>5, <3>1, <3>2
  <2>4. QED
    BY <2>2, <2>3
<1>7. QED
  BY <1>2, <1>3, <1>4, <1>5, <1>6 DEF CapiRequest, CapiCrossFade

LEMMA CapiAckInv ==
    ASSUME CapiInv, NEW h \in Handles, NEW ok \in BOOLEAN, CapiAck(h, ok)
    PROVE  CapiInv'
<1>1. /\ Answered(h, ok) /\ UNCHANGED <<domainMap, elementMap>>
      /\ handleMap' = [handleMap EXCEPT ![h] = NONE]
  BY DEF CapiAck
<1>2. /\ DaemonInv' /\ Onwards
      /\ \A g \in Handles : request'[g] = IF g = h THEN NONE ELSE request[g]
      /\ \A c \in Connections : connection'[c] \in {NONE, connection[c]}
      /\ \A c \in Connections :
            Waiting(h) /\ request[h].kind = "disconnect" /\ c \in request[h].keys => connection'[c] = NONE
  BY <1>1, AnsweredInv DEF CapiInv
<1>3. /\ connectionMap' \in [Connections -> Domains \cup {NONE}]
      /\ \A c \in Connections : \/ connectionMap'[c] = connectionMap[c]
                                \/ connectionMap'[c] = NONE /\ connection'[c] = NONE
  BY <1>2 DEF CapiAck, CapiInv, LookupShape
<1>4. LookupShape'
  BY <1>1, <1>3 DEF CapiInv, LookupShape
<1>5. \A g \in Handles : handleMap'[g] = handleMap[g] \/ (handleMap'[g] = NONE /\ request'[g] = NONE)
  BY <1>1, <1>2 DEF CapiInv, LookupShape
<1>6. \A x \in Elements : elementMap'[x] # NONE => domain[elementMap'[x]] # "new"
  BY <1>1 DEF CapiInv, LookupsKnown
<1>7. QED
  BY <1>1, <1>2, <1>3, <1>4, <1>5, <1>6, LookupsStay DEF Waiting

LEMMA CapiStepInv ==
    ASSUME CapiInv, ~HandlesWrap, [CapiNext]_<<daemonVars, capiVars>>
    PROVE  CapiInv'
<1>1. ASSUME SameClients, UNCHANGED capiVars PROVE CapiInv'
  <2>1. DaemonInv' /\ Onwards
    BY <1>1, SameClientsInv DEF CapiInv
  <2>2. UNCHANGED <<connection, domainMap, elementMap, connectionMap, handleMap>>
    BY <1>1 DEF SameClients, capiVars
  <2>3. LookupShape' /\ \A x \in Elements : elementMap'[x] # NONE => domain[elementMap'[x]] # "new"
    BY <2>2 DEF CapiInv, LookupShape, LookupsKnown
  <2>4. QED
    BY <1>1, <2>1, <2>2, <2>3, LookupsStay DEF SameClients
<1>2. ASSUME NEW d \in Domains, CapiClientStarts(d) \/ CapiClientStops(d) PROVE CapiInv'
  BY <1>1, <1>2, ClientsInv DEF CapiClientStarts, CapiClientStops, CapiInv
<1>3. ASSUME NEW h \in Handles, CapiDelivered(h) PROVE CapiInv'
  BY <1>1, <1>3, ClientsInv DEF CapiDelivered, CapiInv
<1>4. ASSUME NEW h \in Handles,
             CallFails(h) \/ \E ok \in BOOLEAN : ClientAnswers(h, ok) \/ LateAnswer(h, ok)
      PROVE  CapiInv'
  BY <1>4, CapiAckInv DEF CallFails, AnswersItself, ClientAnswers, LateAnswer
<1>5. CASE UNCHANGED <<daemonVars, capiVars>>
  BY <1>5 DEF daemonVars, capiVars, CapiInv, DaemonInv, DaemonShape, Asked, Unused, LookupShape, LookupsKnown,
              LookupsUnused, CapiStaysInReach, Waiting
<1>6. QED
  BY <1>2, <1>3, <1>4, <1>5, CapiRegistrationInv, CapiRequestInv DEF CapiNext

\* As long as a domain is registered and no handle number is used twice, the plugin can abort
\* what its client is working on and disconnect what it has connected, whatever comes between
\* the request and the answer: clients that come and go, calls that fail or are answered late,
\* other domains that leave.
THEOREM CapiKeepsReach == ~HandlesWrap => (CapiSpec => []CapiStaysInReach)
<1> SUFFICES ASSUME ~HandlesWrap PROVE CapiSpec => []CapiStaysInReach
  OBVIOUS
<1>1. CapiInit => CapiInv
  BY DEF CapiInit, DaemonInit, CapiInv, DaemonInv, DaemonShape, Asked, Unused, LookupShape, LookupsKnown,
         LookupsUnused, CapiStaysInReach, Waiting
<1>2. CapiInv /\ [CapiNext]_<<daemonVars, capiVars>> => CapiInv'
  BY CapiStepInv
<1>3. CapiInv => CapiStaysInReach
  BY DEF CapiInv
<1>4. QED
  BY <1>1, <1>2, <1>3, PTL DEF CapiSpec

-----------------------------------------------------------------------------
(* The D-Bus plugin *)

Entries == Addresses \cup {NONE}

AddressShape ==
    /\ addresses \in [Domains -> Entries]
    /\ connectionTo \in [Connections -> Entries]
    /\ handleTo \in [Handles -> Entries]
    /\ orphaned \in [handles : SUBSET usedHandles, connections : SUBSET usedConnections]

AddressesKnown == \A d \in Domains : addresses[d] # NONE => domain[d] # "new"

AddressesUnused ==
    /\ \A h \in Handles \ usedHandles : handleTo[h] = NONE
    /\ \A c \in Connections \ usedConnections : connectionTo[c] = NONE

DbusInv == DaemonInv /\ AddressShape /\ AddressesKnown /\ AddressesUnused /\ DbusStaysInReach

\* A request or a connection of a domain that is left has the client it had.
FewerRequests ==
    /\ \A h \in Handles : request'[h] # NONE =>
          /\ Waiting(h) /\ request'[h].to = request[h].to
          /\ request[h].stage = "ignored" => request'[h].stage = "ignored"
    /\ \A c \in Connections : connection'[c] \in {NONE, connection[c]}

LEMMA AddressesStay ==
    ASSUME DbusInv, DaemonInv', Onwards, FewerRequests, UNCHANGED <<addresses, connectionTo, orphaned>>,
           handleTo' \in [Handles -> Entries],
           \A h \in Handles : handleTo'[h] = handleTo[h] \/ (handleTo'[h] = NONE /\ request'[h] = NONE)
    PROVE  DbusInv'
<1>1. AddressShape'
  BY DEF DbusInv, AddressShape, Onwards
<1>2. AddressesKnown' /\ AddressesUnused'
  BY DEF DbusInv, AddressesKnown, AddressesUnused, Onwards
<1>3. DbusStaysInReach'
  <2>1. ASSUME NEW h \in Handles, request'[h] # NONE, request'[h].stage # "ignored",
               addresses[request'[h].to] # NONE
        PROVE  handleTo'[h] = IF h \in orphaned.handles THEN NONE ELSE addresses[request'[h].to]
    BY <2>1 DEF DbusInv, DbusStaysInReach, FewerRequests
  <2>2. ASSUME NEW c \in Connections, connection'[c] # NONE, addresses[connection'[c]] # NONE
        PROVE  connectionTo[c] = IF c \in orphaned.connections THEN NONE ELSE addresses[connection'[c]]
    BY <2>2 DEF DbusInv, DbusStaysInReach, FewerRequests
  <2>3. QED
    BY <2>1, <2>2 DEF DbusStaysInReach, Waiting
<1>4. QED
  BY <1>1, <1>2, <1>3 DEF DbusInv

LEMMA DbusRegistrationInv ==
    ASSUME DbusInv,
           \/ \E d \in Domains : (\E a \in Addresses : DbusRegisterDomain(d, a)) \/ DbusDeregisterDomain(d)
           \/ \E e \in Elements : DbusRegisterElement(e) \/ DbusDeregisterElement(e)
    PROVE  DbusInv'
<1>1. ASSUME NEW d \in Domains, NEW a \in Addresses, DbusRegisterDomain(d, a) PROVE DbusInv'
  <2>1. /\ domain[d] = "new" /\ domain' = [domain EXCEPT ![d] = "known"]
        /\ addresses' = Entered(addresses, d, a)
        /\ UNCHANGED <<connection, usedConnections, request, usedHandles, connectionTo, handleTo,
                     orphaned>>
    BY <1>1 DEF DbusRegisterDomain, RegisterDomain
  <2>2. DaemonInv' /\ Onwards
    BY <1>1, RegistrationInv DEF DbusRegisterDomain, DbusInv
  <2>3. addresses[d] = NONE
    BY <2>1 DEF DbusInv, AddressesKnown
  <2>4. /\ \A x \in Domains : addresses'[x] = IF x = d THEN a ELSE addresses[x]
        /\ AddressShape'
    BY <2>1, <2>3 DEF DbusInv, AddressShape, Entries, Entered
  <2>5. AddressesKnown'
    BY <2>1, <2>4 DEF DbusInv, DaemonInv, DaemonShape, AddressesKnown
  <2>6. AddressesUnused'
    BY <2>1 DEF DbusInv, AddressesUnused
  <2>7. DbusStaysInReach'
    <3>1. \A h \in Handles : Waiting(h) => request[h].to \in Domains /\ request[h].to # d
      BY <2>1 DEF DbusInv, DaemonInv, DaemonShape, Asked, Requests, Waiting
    <3>2. \A c \in Connections : connection[c] # NONE => connection[c] \in Domains /\ connection[c] # d
      BY <2>1 DEF DbusInv, DaemonInv, DaemonShape, Asked
    <3>3. \A h \in Handles : Waiting(h)' <=> Waiting(h)
      BY <2>1 DEF Waiting
    <3>4. QED
      BY <2>1, <2>4, <3>1, <3>2, <3>3 DEF DbusInv, DbusStaysInReach
  <2>8. QED
    BY <2>2, <2>4, <2>5, <2>6, <2>7 DEF DbusInv
<1>2. ASSUME NEW d \in Domains, DbusDeregisterDomain(d) PROVE DbusInv'
  <2>1. DeregisterDomain(d) \/ UNCHANGED daemonVars
    BY <1>2 DEF DbusDeregisterDomain
  <2>2. DaemonInv' /\ Onwards
    <3>1. CASE UNCHANGED daemonVars
      BY <3>1 DEF DbusInv, DaemonInv, DaemonShape, Asked, Unused, Onwards, Waiting, daemonVars
    <3>2. QED
      BY <2>1, <3>1, RegistrationInv DEF DbusInv
  <2>3. /\ UNCHANGED <<request, usedHandles, usedConnections>>
        /\ \A c \in Connections : connection'[c] \in {NONE, connection[c]}
    BY <2>1 DEF DeregisterDomain, daemonVars
  <2>4. FewerRequests
    BY <2>3 DEF FewerRequests, Waiting
  <2>5. CASE addresses[d] = NONE
    <3>1. UNCHANGED <<addresses, connectionTo, handleTo, orphaned>>
      BY <1>2, <2>5 DEF DbusDeregisterDomain, dbusVars
    <3>2. QED
      BY <2>2, <2>4, <3>1, AddressesStay DEF DbusInv, AddressShape
  <2>6. CASE addresses[d] # NONE
    <3> DEFINE a == addresses[d]
               left == {h \in Handles : Waiting(h) /\ request[h].to \in SameAddress(d)}
               cut == {c \in Connections : connection[c] \in SameAddress(d)}
    <3>1. /\ handleTo' = [h \in Handles |-> IF handleTo[h] = a THEN NONE ELSE handleTo[h]]
          /\ connectionTo' = [c \in Connections |-> IF connectionTo[c] = a THEN NONE ELSE connectionTo[c]]
          /\ addresses' = [addresses EXCEPT ![d] = NONE]
      BY <1>2, <2>6 DEF DbusDeregisterDomain, WithoutAddress, DbusInv, AddressShape, AddressesKnown
    <3>2. orphaned' = [handles |-> orphaned.handles \cup left, connections |-> orphaned.connections \cup cut]
      BY <1>2, <2>6 DEF DbusDeregisterDomain
    <3>3. left \subseteq usedHandles /\ cut \subseteq usedConnections
      BY RoutingAssumption DEF DbusInv, DaemonInv, Unused, Waiting, SameAddress
    <3>4. AddressShape'
      <4>1. orphaned' \in [handles : SUBSET usedHandles, connections : SUBSET usedConnections]
        BY <3>2, <3>3 DEF DbusInv, AddressShape
      <4>2. QED
        BY <2>3, <3>1, <4>1 DEF DbusInv, AddressShape, Entries
    <3>5. \A x \in Domains : addresses'[x] = IF x = d THEN NONE ELSE addresses[x]
      BY <3>1 DEF DbusInv, AddressShape
    <3>6. AddressesKnown' /\ AddressesUnused'
      BY <2>2, <2>3, <3>1, <3>5 DEF DbusInv, AddressesKnown, AddressesUnused, Onwards
    <3>7. ASSUME NEW h \in Handles, request[h] # NONE, request[h].stage # "ignored",
                 addresses'[request[h].to] # NONE
          PROVE  handleTo'[h] = IF h \in orphaned'.handles THEN NONE ELSE addresses'[request[h].to]
      <4> DEFINE x == request[h].to
      <4>1. x \in Domains /\ x # d /\ addresses'[x] = addresses[x] /\ addresses[x] # NONE
        BY <3>5, <3>7 DEF DbusInv, DaemonInv, DaemonShape, Requests, AddressesKnown
      <4>2. handleTo[h] = IF h \in orphaned.handles THEN NONE ELSE addresses[x]
        BY <3>5, <3>7, <4>1 DEF DbusInv, DbusStaysInReach, Waiting
      <4>3. h \in orphaned'.handles <=> h \in orphaned.handles \/ addresses[x] = a
        BY <3>2, <3>7, <4>1 DEF SameAddress, Waiting
      <4>4. handleTo'[h] = IF handleTo[h] = a THEN NONE ELSE handleTo[h]
        BY <3>1
      <4>5. QED
        BY <4>1, <4>2, <4>3, <4>4
    <3>8. ASSUME NEW c \in Connections, connection'[c] # NONE, addresses'[connection'[c]] # NONE
          PROVE  connectionTo'[c] = IF c \in orphaned'.connections THEN NONE ELSE addresses'[connection'[c]]
      <4> DEFINE x == connection[c]
      <4>1. x \in Domains /\ connection'[c] = x
        BY <2>2, <2>3, <3>8 DEF DaemonInv, DaemonShape
      <4>2. x # d /\ addresses'[x] = addresses[x] /\ addresses[x] # NONE
        BY <3>5, <3>8, <4>1 DEF DbusInv, AddressesKnown
      <4>3. connectionTo[c] = IF c \in orphaned.connections THEN NONE ELSE addresses[x]
        BY <3>8, <4>1, <4>2 DEF DbusInv, DbusStaysInReach
      <4>4. c \in orphaned'.connections <=> c \in orphaned.connections \/ addresses[x] = a
        BY <3>2, <4>1 DEF SameAddress
      <4>5. connectionTo'[c] = IF connectionTo[c] = a THEN NONE ELSE connectionTo[c]
        BY <3>1
      <4>6. QED
        BY <4>1, <4>2, <4>3, <4>4, <4>5
    <3>9. DbusStaysInReach'
      BY <2>3, <3>7, <3>8 DEF DbusStaysInReach, Waiting
    <3>10. QED
      BY <2>2, <3>4, <3>6, <3>9 DEF DbusInv
  <2>7. QED
    BY <2>5, <2>6
<1>3. ASSUME NEW e \in Elements, DbusRegisterElement(e) \/ DbusDeregisterElement(e) PROVE DbusInv'
  <2>1. UNCHANGED <<request, connection, addresses, connectionTo, handleTo, orphaned>>
    BY <1>3 DEF DbusRegisterElement, DbusDeregisterElement, RegisterElement, DeregisterElement, dbusVars
  <2>2. DaemonInv' /\ Onwards
    BY <1>3, RegistrationInv DEF DbusRegisterElement, DbusDeregisterElement, DbusInv
  <2>3. FewerRequests
    BY <2>1 DEF FewerRequests, Waiting
  <2>4. QED
    BY <2>1, <2>2, <2>3, AddressesStay DEF DbusInv, AddressShape
<1>4. QED
  BY <1>1, <1>2, <1>3

LEMMA RefusedByDbus ==
    ASSUME DbusInv, NEW h \in Handles, NEW keys, Refused(h, keys), UNCHANGED dbusVars
    PROVE  DbusInv'
<1>1. DaemonInv' /\ Onwards
  BY RefusedInv DEF DbusInv
<1>2. UNCHANGED <<request, connection, addresses, connectionTo, handleTo, orphaned>>
  BY DEF Refused, dbusVars
<1>3. FewerRequests
  BY <1>2 DEF FewerRequests, Waiting
<1>4. QED
  BY <1>1, <1>2, <1>3, AddressesStay DEF DbusInv, AddressShape

LEMMA SentByDbus ==
    ASSUME DbusInv, ~HandlesWrap, NEW h \in Handles,
           NEW kind \in {"connect", "disconnect", "element", "transfer"},
           NEW keys \in SUBSET (Elements \cup Connections \cup Domains), NEW d \in Domains,
           addresses[d] # NONE, Accepted(h, kind, keys, d),
           handleTo' = Entered(handleTo, h, addresses[d]), UNCHANGED <<addresses, orphaned>>,
           \/ kind # "connect" /\ connectionTo' = connectionTo
           \/ \E c \in Connections \ usedConnections : /\ keys = {c} /\ kind = "connect"
                                                     /\ connectionTo' = Entered(connectionTo, c, addresses[d])
    PROVE  DbusInv'
<1> DEFINE r == [kind |-> kind, keys |-> keys, to |-> d, stage |-> "sent"]
<1>1. h \notin usedHandles /\ handleTo[h] = NONE
  BY DEF Accepted, FreeHandle, DbusInv, AddressesUnused
<1>2. domain[d] # "new" /\ addresses[d] \in Entries
  BY DEF DbusInv, AddressShape, AddressesKnown
<1>3. /\ DaemonInv' /\ Onwards /\ UNCHANGED domain /\ usedHandles' = usedHandles \cup {h}
      /\ \A g \in Handles : request'[g] = IF g = h THEN r ELSE request[g]
      /\ \A c \in Connections : connection'[c] = IF kind = "connect" /\ c \in keys THEN d ELSE connection[c]
      /\ usedConnections' = usedConnections \cup (keys \cap Connections)
  <2>1. DaemonInv /\ domain[d] # "new"
    BY <1>2 DEF DbusInv
  <2>2. usedConnections' = usedConnections \cup (keys \cap Connections)
    BY DEF Accepted
  <2>3. QED
    BY <2>1, <2>2, AcceptedInv
<1>4. /\ handleTo' \in [Handles -> Entries]
      /\ \A g \in Handles : handleTo'[g] = IF g = h THEN addresses[d] ELSE handleTo[g]
  BY <1>1, <1>2 DEF DbusInv, AddressShape, Entered
<1>5. /\ connectionTo' \in [Connections -> Entries]
      /\ \A b \in Connections : connectionTo'[b] = IF kind = "connect" /\ b \in keys THEN addresses[d]
                                                  ELSE connectionTo[b]
  <2>1. CASE kind # "connect" /\ connectionTo' = connectionTo
    BY <2>1 DEF DbusInv, AddressShape
  <2>2. ASSUME NEW c \in Connections \ usedConnections, keys = {c}, kind = "connect",
               connectionTo' = Entered(connectionTo, c, addresses[d])
        PROVE  /\ connectionTo' \in [Connections -> Entries]
               /\ \A b \in Connections : connectionTo'[b] = IF b = c THEN addresses[d] ELSE connectionTo[b]
    <3>1. connectionTo[c] = NONE
      BY DEF DbusInv, AddressesUnused
    <3>2. QED
      BY <1>2, <2>2, <3>1 DEF DbusInv, AddressShape, Entered
  <2>3. QED
    BY <2>1, <2>2
<1>6. AddressShape'
  BY <1>3, <1>4, <1>5 DEF DbusInv, AddressShape
<1>7. AddressesKnown'
  BY <1>3 DEF DbusInv, AddressesKnown
<1>8. AddressesUnused'
  BY <1>3, <1>4, <1>5 DEF DbusInv, AddressesUnused
<1>9. DbusStaysInReach'
  <2>1. r.to = d /\ h \notin orphaned.handles /\ orphaned.connections \subseteq usedConnections
    BY <1>1 DEF DbusInv, AddressShape
  <2>2. \A c \in Connections : kind = "connect" /\ c \in keys => c \notin orphaned.connections
    BY <2>1
  <2>3. \A g \in Handles : request'[g] # NONE /\ request'[g].stage # "ignored" /\ addresses[request'[g].to] # NONE
          => handleTo'[g] = IF g \in orphaned.handles THEN NONE ELSE addresses[request'[g].to]
    BY <1>3, <1>4, <2>1 DEF DbusInv, DbusStaysInReach, Waiting
  <2>4. \A c \in Connections : connection'[c] # NONE /\ addresses[connection'[c]] # NONE
          => connectionTo'[c] = IF c \in orphaned.connections THEN NONE ELSE addresses[connection'[c]]
    BY <1>3, <1>5, <2>2 DEF DbusInv, DbusStaysInReach
  <2>5. QED
    BY <2>3, <2>4 DEF DbusStaysInReach, Waiting
<1>10. QED
  BY <1>3, <1>6, <1>7, <1>8, <1>9 DEF DbusInv

LEMMA DbusRequestInv ==
    ASSUME DbusInv, ~HandlesWrap, NEW h \in Handles, DbusRequest(h)
    PROVE  DbusInv'
<1>1. registered \subseteq Elements /\ \A e \in Elements : HomeOf[e] \in Domains
  BY RoutingAssumption DEF DbusInv, DaemonInv, DaemonShape
<1>2. ASSUME NEW c \in Connections, NEW source \in Elements, DbusConnect(h, c, source) PROVE DbusInv'
  <2> DEFINE d == HomeOf[source]
  <2>1. c \notin usedConnections /\ UNCHANGED <<addresses, orphaned>>
    BY <1>2 DEF DbusConnect
  <2>2. CASE addresses[d] = NONE
    BY <1>2, <2>2, RefusedByDbus DEF DbusConnect, dbusVars
  <2>3. CASE addresses[d] # NONE
    <3>1. /\ connectionTo' = Entered(connectionTo, c, addresses[d])
          /\ handleTo' = Entered(handleTo, h, addresses[d]) /\ Accepted(h, "connect", {c}, d)
      BY <1>2, <2>3 DEF DbusConnect, Send
    <3>2. QED
      BY <1>1, <2>1, <2>3, <3>1, SentByDbus
  <2>4. QED
    BY <2>2, <2>3
<1>3. ASSUME NEW c \in Connections, DbusDisconnect(h, c) PROVE DbusInv'
  <2>1. CASE connectionTo[c] = NONE
    BY <1>3, <2>1, RefusedByDbus DEF DbusDisconnect, dbusVars
  <2>2. CASE connectionTo[c] # NONE
    <3>1. PICK d \in Domains : addresses[d] = connectionTo[c] /\ Accepted(h, "disconnect", {c}, d)
      BY <1>3, <2>2 DEF DbusDisconnect
    <3>2. handleTo' = Entered(handleTo, h, addresses[d]) /\ UNCHANGED <<addresses, connectionTo, orphaned>>
      BY <1>3, <2>2, <3>1 DEF DbusDisconnect
    <3>3. QED
      BY <2>2, <3>1, <3>2, SentByDbus
  <2>3. QED
    BY <2>1, <2>2
<1>4. ASSUME NEW e \in Elements, DbusSetElement(h, e) PROVE DbusInv'
  <2>1. CASE addresses[HomeOf[e]] = NONE
    BY <1>4, <2>1, RefusedByDbus DEF DbusSetElement, dbusVars
  <2>2. CASE addresses[HomeOf[e]] # NONE
    BY <1>1, <1>4, <2>2, SentByDbus DEF DbusSetElement, Send
  <2>3. QED
    BY <2>1, <2>2
<1>5. ASSUME NEW d \in Domains, DbusTransfer(h, d) PROVE DbusInv'
  <2>1. CASE addresses[d] = NONE
    BY <1>5, <2>1, RefusedByDbus DEF DbusTransfer, dbusVars
  <2>2. CASE addresses[d] # NONE
    BY <1>5, <2>2, SentByDbus DEF DbusTransfer, Send
  <2>3. QED
    BY <2>1, <2>2
<1>6. QED
  BY <1>2, <1>3, <1>4, <1>5 DEF DbusRequest

LEMMA DbusStepInv ==
    ASSUME DbusInv, ~HandlesWrap, [DbusNext]_<<daemonVars, dbusVars>>
    PROVE  DbusInv'
<1>1. ASSUME SameClients, UNCHANGED dbusVars PROVE DbusInv'
  <2>1. DaemonInv' /\ Onwards
    BY <1>1, SameClientsInv DEF DbusInv
  <2>2. FewerRequests
    BY <1>1 DEF SameClients, FewerRequests
  <2>3. QED
    BY <1>1, <2>1, <2>2, AddressesStay DEF DbusInv, AddressShape, dbusVars
<1>2. ASSUME NEW d \in Domains, DbusClientStarts(d) \/ DbusClientStops(d) PROVE DbusInv'
  BY <1>1, <1>2, ClientsInv DEF DbusClientStarts, DbusClientStops, DbusInv
<1>3. ASSUME NEW h \in Handles, DbusDelivered(h) PROVE DbusInv'
  BY <1>1, <1>3, ClientsInv DEF DbusDelivered, DbusInv
<1>4. ASSUME NEW h \in Handles, DbusLost(h) \/ DbusNotHandled(h) PROVE DbusInv'
  <2>1. /\ DaemonInv /\ Waiting(h) /\ request[h].stage # "ignored" /\ UNCHANGED dbusVars
        /\ \E next \in {"served", "lost", "ignored"} : request' = [request EXCEPT ![h].stage = next]
        /\ UNCHANGED <<domain, registered, connection, usedConnections, usedHandles>>
    BY <1>4 DEF DbusLost, DbusNotHandled, DbusInv, dbusVars
  <2>2. QED
    BY <1>1, <2>1, StageMoves
<1>5. ASSUME NEW h \in Handles, NEW ok \in BOOLEAN, DbusAckConnection(h, ok) \/ DbusAckElement(h, ok)
      PROVE  DbusInv'
  <2>1. /\ Answered(h, ok) /\ handleTo' = [handleTo EXCEPT ![h] = NONE]
        /\ UNCHANGED <<addresses, connectionTo, orphaned>>
    BY <1>5 DEF DbusAckConnection, DbusAckElement, DbusAck
  <2>2. /\ DaemonInv' /\ Onwards
        /\ \A g \in Handles : request'[g] = IF g = h THEN NONE ELSE request[g]
        /\ \A c \in Connections : connection'[c] \in {NONE, connection[c]}
    BY <2>1, AnsweredInv DEF DbusInv
  <2>3. FewerRequests
    BY <2>2 DEF FewerRequests, Waiting
  <2>4. /\ handleTo' \in [Handles -> Entries]
        /\ \A g \in Handles : handleTo'[g] = handleTo[g] \/ (handleTo'[g] = NONE /\ request'[g] = NONE)
    BY <2>1, <2>2 DEF DbusInv, AddressShape, Entries
  <2>5. QED
    BY <2>1, <2>2, <2>3, <2>4, AddressesStay
<1>6. CASE UNCHANGED <<daemonVars, dbusVars>>
  BY <1>6 DEF daemonVars, dbusVars, DbusInv, DaemonInv, DaemonShape, Asked, Unused, AddressShape, AddressesKnown,
              AddressesUnused, DbusStaysInReach, Waiting
<1>7. QED
  BY <1>2, <1>3, <1>4, <1>5, <1>6, DbusRegistrationInv, DbusRequestInv DEF DbusNext

\* Whatever addresses the clients give, shared ones included, as long as a domain is in the map
\* of the D-Bus plugin and no handle number is used twice, what its client is working on can be
\* aborted and what it has connected can be disconnected, though messages are lost and answers
\* are ignored; except for what was open when another domain with the same address left, which
\* no longer leads anywhere, and never to another client.
THEOREM DbusKeepsReach == ~HandlesWrap => (DbusSpec => []DbusStaysInReach)
<1> SUFFICES ASSUME ~HandlesWrap PROVE DbusSpec => []DbusStaysInReach
  OBVIOUS
<1>1. DbusInit => DbusInv
  BY DEF DbusInit, DaemonInit, DbusInv, DaemonInv, DaemonShape, Asked, Unused, AddressShape, AddressesKnown,
         Entries, AddressesUnused, DbusStaysInReach, Waiting
<1>2. DbusInv /\ [DbusNext]_<<daemonVars, dbusVars>> => DbusInv'
  BY DbusStepInv
<1>3. DbusInv => DbusStaysInReach
  BY DEF DbusInv
<1>4. QED
  BY <1>1, <1>2, <1>3, PTL DEF DbusSpec

-----------------------------------------------------------------------------
(* The handshake *)

HandshakeShape ==
    /\ present \subseteq Clients /\ rundownSent \subseteq Clients
    /\ stage \in {"start", "ready", "rundown"}
    /\ numberDomains \in Int /\ atRundown \in Nat
    /\ told \in [ready : Nat, rundown : Nat]

\* The D-Bus plugin counts down from the number of domains it had; a client that gets ready
\* meanwhile makes it count one more.
CountsDown ==
    plugin = "dbus" =>
        /\ stage # "rundown" => told.rundown = 0 /\ rundownSent = {}
        /\ stage = "rundown" => numberDomains + Cardinality(rundownSent) >= atRundown
        /\ told.rundown > 0 => Cardinality(rundownSent) >= atRundown

HandshakeInv == HandshakeShape /\ CountsDown

LEMMA ClientsAreFinite ==
    ASSUME NEW S \in SUBSET Clients
    PROVE  IsFiniteSet(S) /\ Cardinality(S) \in Nat
BY HandshakeAssumption, FS_Subset, FS_CardinalityType

LEMMA HandshakeStepInv ==
    ASSUME HandshakeInv, [HandshakeNext]_handshakeVars
    PROVE  HandshakeInv'
<1>1. ASSUME NEW d \in Clients, Enter(d) PROVE HandshakeInv'
  <2>1. /\ present' = present \cup {d} /\ UNCHANGED <<plugin, numberDomains, stage, rundownSent, atRundown>>
        /\ told' = told \/ told' = [told EXCEPT !.ready = @ + 1]
    BY <1>1 DEF Enter, Tell
  <2>2. told' \in [ready : Nat, rundown : Nat] /\ told'.rundown = told.rundown
    BY <2>1 DEF HandshakeInv, HandshakeShape
  <2>3. QED
    BY <2>1, <2>2 DEF HandshakeInv, HandshakeShape, CountsDown
<1>2. ASSUME NEW d \in Clients, Leave(d) PROVE HandshakeInv'
  BY <1>2 DEF Leave, HandshakeInv, HandshakeShape, CountsDown
<1>3. ASSUME NEW d \in Clients, ConfirmReady(d) PROVE HandshakeInv'
  <2>1. /\ told' = [told EXCEPT !.ready = @ + 1] /\ numberDomains' = numberDomains + 1
        /\ UNCHANGED <<plugin, present, stage, rundownSent, atRundown>>
    BY <1>3 DEF ConfirmReady, Tell
  <2>2. told' \in [ready : Nat, rundown : Nat] /\ told'.rundown = told.rundown
    BY <2>1 DEF HandshakeInv, HandshakeShape
  <2>3. Cardinality(rundownSent) \in Nat
    BY ClientsAreFinite DEF HandshakeInv, HandshakeShape
  <2>4. QED
    BY <2>1, <2>2, <2>3 DEF HandshakeInv, HandshakeShape, CountsDown
<1>4. ASSUME NEW d \in Clients, ConfirmRundown(d) PROVE HandshakeInv'
  <2>1. /\ stage = "rundown" /\ d \notin rundownSent /\ rundownSent' = rundownSent \cup {d}
        /\ numberDomains' = numberDomains - 1
        /\ UNCHANGED <<plugin, present, stage, atRundown>>
        /\ \/ numberDomains' = 0 /\ told' = [told EXCEPT !.rundown = @ + 1]
           \/ told' = told
    BY <1>4 DEF ConfirmRundown, Tell
  <2>2. /\ Cardinality(rundownSent') = Cardinality(rundownSent) + 1
        /\ Cardinality(rundownSent) \in Nat
    BY <2>1, ClientsAreFinite, FS_AddElement DEF HandshakeInv, HandshakeShape
  <2>3. told' \in [ready : Nat, rundown : Nat] /\ (told'.rundown > 0 => told.rundown > 0 \/ numberDomains' = 0)
    BY <2>1 DEF HandshakeInv, HandshakeShape
  <2>4. QED
    BY <2>1, <2>2, <2>3 DEF HandshakeInv, HandshakeShape, CountsDown
<1>5. CASE SetReadyCapi \/ SetReadyDbus
  <2>1. /\ stage = "start" /\ stage' = "ready" /\ UNCHANGED <<plugin, present, rundownSent, atRundown>>
        /\ numberDomains' = numberDomains \/ numberDomains' = Cardinality(present)
        /\ told' = told \/ told' = [told EXCEPT !.ready = @ + 1]
    BY <1>5 DEF SetReadyCapi, SetReadyDbus, Tell
  <2>2. told' \in [ready : Nat, rundown : Nat] /\ told'.rundown = told.rundown
    BY <2>1 DEF HandshakeInv, HandshakeShape
  <2>3. numberDomains' \in Int
    BY <2>1, ClientsAreFinite DEF HandshakeInv, HandshakeShape
  <2>4. QED
    BY <2>1, <2>2, <2>3 DEF HandshakeInv, HandshakeShape, CountsDown
<1>6. CASE SetRundownCapi \/ SetRundownDbus
  <2>1. /\ stage = "ready" /\ stage' = "rundown" /\ UNCHANGED <<plugin, present, rundownSent>>
        /\ numberDomains' = Cardinality(present) /\ atRundown' = Cardinality(present)
        /\ \/ told' = told
           \/ plugin = "capi" /\ told' = [told EXCEPT !.rundown = @ + 1]
    BY <1>6 DEF SetRundownCapi, SetRundownDbus, GotRundown, Tell
  <2>2. Cardinality(present) \in Nat /\ Cardinality(rundownSent) \in Nat
    BY ClientsAreFinite DEF HandshakeInv, HandshakeShape
  <2>3. told' \in [ready : Nat, rundown : Nat] /\ (plugin = "dbus" => told' = told)
    BY <2>1 DEF HandshakeInv, HandshakeShape
  <2>4. QED
    BY <2>1, <2>2, <2>3 DEF HandshakeInv, HandshakeShape, CountsDown
<1>7. CASE UNCHANGED handshakeVars
  BY <1>7 DEF handshakeVars, HandshakeInv, HandshakeShape, CountsDown
<1>8. QED
  BY <1>1, <1>2, <1>3, <1>4, <1>5, <1>6, <1>7 DEF HandshakeNext

\* The D-Bus plugin does not confirm the rundown before as many clients as it had domains have
\* confirmed it, however many there are and whoever joins, leaves or is late.
THEOREM RundownWaitsForClients == HandshakeSpec => []RundownNotEarly
<1>1. HandshakeInit => HandshakeInv
  BY FS_EmptySet DEF HandshakeInit, HandshakeInv, HandshakeShape, CountsDown
<1>2. HandshakeInv /\ [HandshakeNext]_handshakeVars => HandshakeInv'
  BY HandshakeStepInv
<1>3. HandshakeInv => RundownNotEarly
  BY DEF HandshakeInv, CountsDown, RundownNotEarly
<1>4. QED
  BY <1>1, <1>2, <1>3, PTL DEF HandshakeSpec
-----------------------------------------------------------------------------
(* The clients of the command plugins *)

\* What a client that has `view' of one kind has of it after it has read a message.
Reads(k, view, message) ==
    IF message.signal.kind # k THEN view
    ELSE IF message.signal.what = "list" THEN [known |-> "yes", has |-> message.list]
    ELSE IF view.known = "yes" THEN [known |-> "yes", has |-> Believes(view.has, message)]
    ELSE view

Knows(k) == IF known[k] = "yes" THEN "yes" ELSE "no"

\* views[j] is what the client will have after the next j messages.
IsOutlook(k, views) ==
    /\ views[0] = [known |-> Knows(k), has |-> picture[k]]
    /\ \A j \in 1..Len(inbox) : views[j] = Reads(k, views[j - 1], inbox[j])

\* When it has read all there is, it has the daemon's list.
Reaches(k, views) == views[Len(inbox)].known = "yes" => views[Len(inbox)].has = lists[k]

CommandShape ==
    /\ \E S : inbox \in Seq(S)
    /\ DOMAIN lists = Kinds /\ DOMAIN known = Kinds /\ DOMAIN picture = Kinds
    /\ commandStage \in {"started", "ready", "rundown"}

NotReadyYet ==
    commandPlugin = "capi" /\ commandStage = "started" =>
        inbox = <<>> /\ requests = <<>> /\ \A k \in Kinds : known[k] = "no"

WillFollow ==
    commandPlugin = "capi" /\ commandStage # "rundown" =>
        \A k \in Kinds : \E views : IsOutlook(k, views) /\ Reaches(k, views)

CommandInv == CommandShape /\ NotReadyYet /\ WillFollow

\* One message more, and the client reads it last.
LEMMA OneMessageMore ==
    ASSUME CommandShape, NEW k, NEW views, IsOutlook(k, views), NEW m,
           inbox' = Append(inbox, m), known'[k] = known[k], picture'[k] = picture[k]
    PROVE  /\ \E S : inbox' \in Seq(S)
           /\ \E w : IsOutlook(k, w)' /\ w[Len(inbox')] = Reads(k, views[Len(inbox)], m)
<1>1. PICK S : inbox \in Seq(S)
  BY DEF CommandShape
<1>2. inbox \in Seq(S \cup {m}) /\ m \in S \cup {m}
  BY <1>1
<1>3. /\ inbox' \in Seq(S \cup {m}) /\ Len(inbox) \in Nat /\ Len(inbox') = Len(inbox) + 1
      /\ inbox'[Len(inbox) + 1] = m /\ \A j \in 1..Len(inbox) : inbox'[j] = inbox[j]
  BY <1>2
<1>4. PICK w : /\ \A j \in 0..Len(inbox) : w[j] = views[j]
               /\ w[Len(inbox) + 1] = Reads(k, views[Len(inbox)], m)
  <2> DEFINE u == [j \in 0..(Len(inbox) + 1) |->
                     IF j <= Len(inbox) THEN views[j] ELSE Reads(k, views[Len(inbox)], m)]
  <2>1. /\ \A j \in 0..Len(inbox) : u[j] = views[j]
        /\ u[Len(inbox) + 1] = Reads(k, views[Len(inbox)], m)
    BY <1>3
  <2> QED
    BY <2>1
<1>5. w[0] = [known |-> Knows(k)', has |-> picture'[k]]
  <2>1. Knows(k)' = Knows(k)
    BY DEF Knows
  <2> QED
    BY <1>3, <1>4, <2>1 DEF IsOutlook
<1>6. ASSUME NEW j \in 1..Len(inbox')
      PROVE  w[j] = Reads(k, w[j - 1], inbox'[j])
  <2>1. CASE j = Len(inbox) + 1
    <3>1. j - 1 = Len(inbox) /\ Len(inbox) \in 0..Len(inbox)
      BY <1>3, <2>1
    <3> QED
      BY <1>3, <1>4, <2>1, <3>1
  <2>2. CASE j # Len(inbox) + 1
    <3>1. j \in 1..Len(inbox) /\ j \in 0..Len(inbox) /\ j - 1 \in 0..Len(inbox)
      BY <1>3, <2>2
    <3> QED
      BY <1>3, <1>4, <3>1 DEF IsOutlook
  <2> QED
    BY <2>1, <2>2
<1>7. IsOutlook(k, w)'
  BY <1>5, <1>6 DEF IsOutlook
<1> QED
  BY <1>3, <1>4, <1>7

\* The signals of the Common-API plugin name the kind that has changed.
LEMMA SignalFollows ==
    ASSUME CommandInv, CommandAssumption, NEW what \in {"new", "removed", "updated"}, NEW k \in Kinds,
           NEW i, NEW v, NEW list, Forward(what, k, i, v), lists' = [lists EXCEPT ![k] = list],
           commandStage = "ready" =>
              list = Believes(lists[k], [signal |-> [what |-> what, kind |-> k], id |-> i,
                                         datum |-> v, list |-> Nothing]),
           UNCHANGED <<commandPlugin, commandStage, requests, known, picture>>
    PROVE  CommandInv'
<1> DEFINE m == [signal |-> SignalOf(what, k), id |-> i, datum |-> v, list |-> Nothing]
<1>1. NotReadyYet'
  BY DEF Forward, CommandInv, NotReadyYet
<1>2. DOMAIN lists' = Kinds /\ DOMAIN known' = Kinds /\ DOMAIN picture' = Kinds
  BY DEF CommandInv, CommandShape
<1>3. \E S : inbox' \in Seq(S)
  <2>1. CASE inbox' = inbox
    BY <2>1 DEF CommandInv, CommandShape
  <2>2. CASE inbox' = Append(inbox, m)
    <3>1. PICK S : inbox \in Seq(S)
      BY DEF CommandInv, CommandShape
    <3>2. inbox \in Seq(S \cup {m}) /\ m \in S \cup {m}
      BY <3>1
    <3> HIDE DEF m
    <3>3. inbox' \in Seq(S \cup {m})
      BY <2>2, <3>2
    <3> QED
      BY <3>3
  <2> QED
    BY <2>1, <2>2 DEF Forward
<1>4. WillFollow'
  <2> SUFFICES ASSUME commandPlugin = "capi", commandStage # "rundown", NEW q \in Kinds
               PROVE  \E w : IsOutlook(q, w)' /\ Reaches(q, w)'
    BY DEF WillFollow
  <2>1. PICK views : IsOutlook(q, views) /\ Reaches(q, views)
    BY DEF CommandInv, WillFollow
  <2>2. lists'[q] = IF q = k THEN list ELSE lists[q]
    BY DEF CommandInv, CommandShape
  <2>3. CASE commandStage # "ready"
    <3>1. inbox' = inbox /\ UNCHANGED <<known, picture>>
      BY <2>3 DEF Forward
    <3>2. CASE commandStage = "started"
      <4>1. inbox = <<>> /\ known[q] = "no" /\ Len(inbox) = 0
        BY <3>2 DEF CommandInv, NotReadyYet
      <4>2. views[0].known = "no"
        BY <2>1, <4>1 DEF IsOutlook, Knows
      <4>3. IsOutlook(q, views)' /\ Reaches(q, views)'
        BY <2>1, <3>1, <4>1, <4>2 DEF IsOutlook, Reaches, Knows
      <4> QED
        BY <4>3
    <3>3. CASE commandStage # "started"
      BY <3>3, <2>3 DEF CommandInv, CommandShape
    <3> QED
      BY <3>2, <3>3
  <2>4. CASE commandStage = "ready"
    <3>1. inbox' = Append(inbox, m)
      BY <2>4 DEF Forward
    <3>2. m = [signal |-> [what |-> what, kind |-> k], id |-> i, datum |-> v, list |-> Nothing]
      BY DEF SignalOf, CapiSignal
    <3>3. m.signal.kind = k /\ m.signal.what # "list"
      BY <3>2
    <3>4. list = Believes(lists[k], m)
      BY <2>4, <3>2
    <3> HIDE DEF m
    <3>5. PICK w : IsOutlook(q, w)' /\ w[Len(inbox')] = Reads(q, views[Len(inbox)], m)
      BY <2>1, <3>1, OneMessageMore DEF CommandInv
    <3>6. CASE q # k
      <4>1. w[Len(inbox')] = views[Len(inbox)]
        BY <3>3, <3>5, <3>6 DEF Reads
      <4> QED
        BY <2>1, <2>2, <3>5, <3>6, <4>1 DEF Reaches
    <3>7. CASE q = k
      <4>1. w[Len(inbox')] = IF views[Len(inbox)].known = "yes"
                THEN [known |-> "yes", has |-> Believes(views[Len(inbox)].has, m)]
                ELSE views[Len(inbox)]
        BY <3>3, <3>5, <3>7 DEF Reads
      <4>2. Reaches(q, w)'
        BY <2>1, <2>2, <3>4, <3>7, <4>1 DEF Reaches
      <4> QED
        BY <3>5, <4>2
    <3> QED
      BY <3>6, <3>7
  <2> QED
    BY <2>3, <2>4
<1> QED
  BY <1>1, <1>2, <1>3, <1>4 DEF CommandInv, CommandShape
\* What Believes() makes of the three signals about the daemon's own list.
LEMMA ListsFollowSignals ==
    ASSUME CommandInv, CommandAssumption, NEW k \in Kinds, NEW i, NEW v,
           Appears(k, i, v) \/ Changes(k, i, v) \/ Disappears(k, i)
    PROVE  CommandInv'
<1>1. CASE Appears(k, i, v)
  <2> DEFINE new == Extended(lists[k], i, v)
             m == [signal |-> [what |-> "new", kind |-> k], id |-> i, datum |-> v, list |-> Nothing]
  <2>1. m.signal.what = "new" /\ m.id = i /\ m.datum = v
    OBVIOUS
  <2>2. new = Believes(lists[k], m)
    <3> HIDE DEF m
    <3> QED
      BY <2>1 DEF Believes
  <2>3. Forward("new", k, i, v) /\ lists' = [lists EXCEPT ![k] = new]
    BY <1>1 DEF Appears
  <2> HIDE DEF new
  <2> QED
    BY <1>1, <2>2, <2>3, SignalFollows DEF Appears, Updating
<1>2. CASE Changes(k, i, v)
  <2> DEFINE new == [lists[k] EXCEPT ![i] = v]
             m == [signal |-> [what |-> "updated", kind |-> k], id |-> i, datum |-> v, list |-> Nothing]
  <2>1. m.signal.what = "updated" /\ m.id = i /\ m.datum = v
    OBVIOUS
  <2>2. new = Believes(lists[k], m)
    <3> HIDE DEF m
    <3> QED
      BY <1>2, <2>1 DEF Believes, Changes
  <2>3. Forward("updated", k, i, v) /\ lists' = [lists EXCEPT ![k] = new]
    BY <1>2 DEF Changes
  <2> HIDE DEF new
  <2> QED
    BY <1>2, <2>2, <2>3, SignalFollows DEF Changes, Updating
<1>3. CASE Disappears(k, i)
  <2> DEFINE new == Reduced(lists[k], i)
             m == [signal |-> [what |-> "removed", kind |-> k], id |-> i, datum |-> lists[k][i],
                   list |-> Nothing]
  <2>1. m.signal.what = "removed" /\ m.id = i
    OBVIOUS
  <2>2. new = Believes(lists[k], m)
    <3> HIDE DEF m
    <3> QED
      BY <2>1 DEF Believes
  <2>3. Forward("removed", k, i, lists[k][i]) /\ lists' = [lists EXCEPT ![k] = new]
    BY <1>3 DEF Disappears
  <2> HIDE DEF new
  <2> QED
    BY <1>3, <2>2, <2>3, SignalFollows DEF Disappears, Updating
<1> QED
  BY <1>1, <1>2, <1>3

\* A list is sent as it is, behind the signals that led to it.
LEMMA HandleFollows ==
    ASSUME CommandInv, Handle
    PROVE  CommandInv'
<1>1. NotReadyYet' /\ (commandPlugin = "capi" => commandStage # "started")
  BY DEF Handle, CommandInv, NotReadyYet
<1> DEFINE r == Head(requests).kind
           m == Reply(r)
<1>2. inbox' = inbox \/ inbox' = Append(inbox, m)
  BY DEF Handle
<1>3. m.signal.kind = r /\ m.signal.what = "list" /\ m.list = lists[r]
  BY DEF Reply
<1> HIDE DEF m, r
<1>4. CASE inbox' = inbox
  BY <1>1, <1>4 DEF CommandInv, CommandShape, WillFollow, IsOutlook, Reaches, Knows, Handle
<1>5. CASE inbox' = Append(inbox, m)
  <2>1. \E S : inbox' \in Seq(S)
    <3>1. PICK S : inbox \in Seq(S)
      BY DEF CommandInv, CommandShape
    <3>2. inbox \in Seq(S \cup {m}) /\ m \in S \cup {m}
      BY <3>1
    <3>3. inbox' \in Seq(S \cup {m})
      BY <1>5, <3>2
    <3> QED
      BY <3>3
  <2>2. ASSUME commandPlugin = "capi", commandStage # "rundown", NEW q \in Kinds
        PROVE  \E w : IsOutlook(q, w)' /\ Reaches(q, w)'
    <3>1. PICK views : IsOutlook(q, views) /\ Reaches(q, views)
      BY <2>2 DEF CommandInv, WillFollow
    <3>2. known'[q] = known[q] /\ picture'[q] = picture[q] /\ lists' = lists
      BY DEF Handle
    <3>3. PICK w : IsOutlook(q, w)' /\ w[Len(inbox')] = Reads(q, views[Len(inbox)], m)
      BY <1>5, <3>1, <3>2, OneMessageMore DEF CommandInv
    <3>4. CASE q # r
      <4>1. w[Len(inbox')] = views[Len(inbox)]
        BY <1>3, <3>3, <3>4 DEF Reads
      <4> QED
        BY <3>1, <3>2, <3>3, <4>1 DEF Reaches
    <3>5. CASE q = r
      <4>1. w[Len(inbox')] = [known |-> "yes", has |-> lists[r]]
        BY <1>3, <3>3, <3>5 DEF Reads
      <4>2. Reaches(q, w)'
        BY <3>2, <3>5, <4>1 DEF Reaches
      <4> QED
        BY <3>3, <4>2
    <3> QED
      BY <3>4, <3>5
  <2>3. WillFollow'
    BY <2>2 DEF WillFollow, Handle
  <2> QED
    BY <1>1, <2>1, <2>3 DEF CommandInv, CommandShape, Handle
<1> QED
  BY <1>2, <1>4, <1>5

\* What was to be after the first message is now.
LEMMA ReceiveFollows ==
    ASSUME CommandInv, Receive
    PROVE  CommandInv'
<1>1. PICK S : inbox \in Seq(S)
  BY DEF CommandInv, CommandShape
<1>2. inbox # <<>> /\ inbox' = Tail(inbox) /\ UNCHANGED <<commandPlugin, lists, commandStage, requests>>
  BY DEF Receive
<1>3. /\ inbox' \in Seq(S) /\ Len(inbox) \in Nat /\ Len(inbox) >= 1 /\ Len(inbox') = Len(inbox) - 1
      /\ \A j \in 1..Len(inbox') : inbox'[j] = inbox[j + 1]
      /\ Head(inbox) = inbox[1]
  BY <1>1, <1>2
<1> DEFINE m == Head(inbox)
<1>4. NotReadyYet'
  BY <1>2 DEF CommandInv, NotReadyYet
<1>5. DOMAIN known' = Kinds /\ DOMAIN picture' = Kinds
  BY DEF Receive, CommandInv, CommandShape
<1>6. ASSUME NEW q \in Kinds
      PROVE  [known |-> Knows(q)', has |-> picture'[q]] = Reads(q, [known |-> Knows(q), has |-> picture[q]], m)
  <2> DEFINE now == [known |-> Knows(q), has |-> picture[q]]
  <2>1. now.known = Knows(q) /\ now.has = picture[q]
    OBVIOUS
  <2> HIDE DEF m
  <2>2. /\ known' = IF m.signal.what = "list" THEN [known EXCEPT ![m.signal.kind] = "yes"] ELSE known
        /\ picture' = IF m.signal.what = "list" \/ known[m.signal.kind] = "yes"
                      THEN [picture EXCEPT ![m.signal.kind] = Believes(picture[m.signal.kind], m)]
                      ELSE picture
    BY DEF Receive, m
  <2>3. m.signal.what = "list" => Believes(picture[q], m) = m.list
    BY DEF Believes
  <2>4. CASE m.signal.kind # q
    <3>1. known'[q] = known[q] /\ picture'[q] = picture[q]
      BY <2>2, <2>4 DEF CommandInv, CommandShape
    <3> QED
      BY <2>4, <3>1 DEF Reads, Knows
  <2>5. CASE m.signal.kind = q /\ m.signal.what = "list"
    <3>1. known'[q] = "yes" /\ picture'[q] = m.list
      BY <2>2, <2>3, <2>5 DEF CommandInv, CommandShape
    <3> QED
      BY <2>5, <3>1 DEF Reads, Knows
  <2>6. CASE m.signal.kind = q /\ m.signal.what # "list" /\ known[q] = "yes"
    <3>1. known'[q] = "yes" /\ picture'[q] = Believes(picture[q], m)
      BY <2>2, <2>6 DEF CommandInv, CommandShape
    <3> QED
      BY <2>1, <2>6, <3>1 DEF Reads, Knows
  <2>7. CASE m.signal.kind = q /\ m.signal.what # "list" /\ known[q] # "yes"
    <3>1. known'[q] = known[q] /\ picture'[q] = picture[q]
      BY <2>2, <2>7 DEF CommandInv, CommandShape
    <3> QED
      BY <2>1, <2>7, <3>1 DEF Reads, Knows
  <2> QED
    BY <2>4, <2>5, <2>6, <2>7
<1>7. ASSUME commandPlugin = "capi", commandStage # "rundown", NEW q \in Kinds
      PROVE  \E w : IsOutlook(q, w)' /\ Reaches(q, w)'
  <2>1. PICK views : IsOutlook(q, views) /\ Reaches(q, views)
    BY <1>7 DEF CommandInv, WillFollow
  <2>2. PICK n : n = Len(inbox)
    OBVIOUS
  <2>3. PICK w : \A j \in 0..(n - 1) : w[j] = views[j + 1]
    <3>1. \A j \in 0..(n - 1) : [i \in 0..(n - 1) |-> views[i + 1]][j] = views[j + 1]
      OBVIOUS
    <3> QED
      BY <3>1
  <2>4. w[0] = [known |-> Knows(q)', has |-> picture'[q]]
    <3>1. w[0] = views[1] /\ views[1] = Reads(q, views[0], inbox[1])
      BY <1>3, <2>1, <2>2, <2>3 DEF IsOutlook
    <3> QED
      BY <1>3, <1>6, <2>1, <3>1 DEF IsOutlook
  <2>5. ASSUME NEW j \in 1..Len(inbox')
        PROVE  w[j] = Reads(q, w[j - 1], inbox'[j])
    <3>1. j \in 0..(n - 1) /\ j - 1 \in 0..(n - 1) /\ j + 1 \in 1..Len(inbox) /\ (j - 1) + 1 = j
          /\ (j + 1) - 1 = j
      BY <1>3, <2>2
    <3>2. w[j] = views[j + 1] /\ w[j - 1] = views[j] /\ inbox'[j] = inbox[j + 1]
      BY <1>3, <2>3, <3>1
    <3>3. views[j + 1] = Reads(q, views[j], inbox[j + 1])
      BY <2>1, <3>1 DEF IsOutlook
    <3> QED
      BY <3>2, <3>3
  <2>6. Reaches(q, w)'
    <3>1. Len(inbox') \in 0..(n - 1) /\ Len(inbox') + 1 = Len(inbox)
      BY <1>3, <2>2
    <3>2. w[Len(inbox')] = views[Len(inbox)]
      BY <2>3, <3>1
    <3> QED
      BY <1>2, <2>1, <3>2 DEF Reaches
  <2>7. IsOutlook(q, w)'
    BY <2>4, <2>5 DEF IsOutlook
  <2> QED
    BY <2>6, <2>7
<1>8. WillFollow'
  BY <1>2, <1>7 DEF WillFollow
<1> QED
  BY <1>2, <1>3, <1>4, <1>5, <1>8 DEF CommandInv, CommandShape

LEMMA CommandStarts == CommandInit => CommandInv
<1> SUFFICES ASSUME CommandInit PROVE CommandInv
  OBVIOUS
<1>1. inbox = <<>> /\ Len(inbox) = 0 /\ inbox \in Seq({})
  BY DEF CommandInit
<1>2. ASSUME NEW k \in Kinds
      PROVE  \E views : IsOutlook(k, views) /\ Reaches(k, views)
  <2>1. PICK views : views[0] = [known |-> Knows(k), has |-> picture[k]]
    <3>1. [j \in {0} |-> [known |-> Knows(k), has |-> picture[k]]][0] = [known |-> Knows(k), has |-> picture[k]]
      OBVIOUS
    <3> QED
      BY <3>1
  <2>2. views[0].known = "no"
    BY <2>1 DEF CommandInit, Knows
  <2>3. IsOutlook(k, views) /\ Reaches(k, views)
    BY <1>1, <2>1, <2>2 DEF IsOutlook, Reaches
  <2> QED
    BY <2>3
<1> QED
  BY <1>1, <1>2 DEF CommandInit, CommandInv, CommandShape, NotReadyYet, WillFollow

\* A client of the Common-API plugin that fetches no list before the plugin is ready has the
\* daemon's lists whenever it has read its messages, whatever the order of its requests and of
\* what happens in the daemon.
THEOREM CapiClientsKeepUp == ~EarlyFetch => (CommandSpec => []CapiClientsFollow)
<1> SUFFICES ASSUME ~EarlyFetch PROVE CommandSpec => []CapiClientsFollow
  OBVIOUS
<1>1. CommandInit => CommandInv
  BY CommandStarts
<1>2. ASSUME CommandInv, [CommandNext]_commandVars
      PROVE  CommandInv'
  <2>1. ASSUME NEW k \in Kinds, Fetch(k)
        PROVE  CommandInv'
    <3>1. commandStage = "ready" /\ known[k] = "no" /\ known' = [known EXCEPT ![k] = "asked"]
          /\ UNCHANGED <<commandPlugin, lists, commandStage, inbox, picture>>
      BY <2>1 DEF Fetch
    <3>2. ASSUME commandPlugin = "capi", NEW q \in Kinds
          PROVE  \E w : IsOutlook(q, w)' /\ Reaches(q, w)'
      <4>1. PICK views : IsOutlook(q, views) /\ Reaches(q, views)
        BY <1>2, <3>1, <3>2 DEF CommandInv, WillFollow
      <4> QED
        <5>1. Knows(q)' = Knows(q)
          BY <1>2, <3>1 DEF Knows, CommandInv, CommandShape
        <5> QED
          BY <1>2, <3>1, <4>1, <5>1 DEF IsOutlook, Reaches
    <3> QED
      BY <1>2, <3>1, <3>2 DEF CommandInv, CommandShape, NotReadyYet, WillFollow
  <2>2. CASE SetCommandReady
    <3>1. commandStage = "started" /\ commandStage' = "ready"
          /\ UNCHANGED <<commandPlugin, lists, requests, inbox, known, picture>>
      BY <2>2 DEF SetCommandReady
    <3>2. WillFollow'
      BY <1>2, <3>1 DEF CommandInv, WillFollow, IsOutlook, Reaches, Knows
    <3> QED
      BY <1>2, <3>1, <3>2 DEF CommandInv, CommandShape, NotReadyYet
  <2>3. CASE SetCommandRundown
    BY <1>2, <2>3 DEF SetCommandRundown, CommandInv, CommandShape, NotReadyYet, WillFollow
  <2>4. CASE Mismatch
    BY <1>2, <2>4 DEF Mismatch, CommandInv, CommandShape, NotReadyYet, WillFollow
  <2>5. CASE UNCHANGED commandVars
    <3>1. UNCHANGED <<commandPlugin, lists, commandStage, requests, inbox, known, picture>>
      BY <2>5 DEF commandVars
    <3>2. WillFollow'
      BY <1>2, <3>1 DEF CommandInv, WillFollow, IsOutlook, Reaches, Knows
    <3> QED
      BY <1>2, <3>1, <3>2 DEF CommandInv, CommandShape, NotReadyYet
  <2>6. ASSUME NEW k \in Kinds, NEW i, NEW v, Appears(k, i, v) \/ Changes(k, i, v)
        PROVE  CommandInv'
    BY <1>2, <2>6, ListsFollowSignals, CommandAssumption
  <2>7. ASSUME NEW k \in Kinds, NEW i, Disappears(k, i)
        PROVE  CommandInv'
    BY <1>2, <2>7, ListsFollowSignals, CommandAssumption
  <2> QED
    BY <1>2, <2>1, <2>2, <2>3, <2>4, <2>5, <2>6, <2>7, HandleFollows, ReceiveFollows DEF CommandNext
<1>3. CommandInv => CapiClientsFollow
  <2> SUFFICES ASSUME CommandInv, commandPlugin = "capi", commandStage = "ready", inbox = <<>>,
                      NEW k \in Kinds, known[k] = "yes"
               PROVE  picture[k] = lists[k]
    BY DEF CapiClientsFollow, ClientFollows
  <2>1. PICK views : IsOutlook(k, views) /\ Reaches(k, views)
    BY DEF CommandInv, WillFollow
  <2>2. Len(inbox) = 0
    OBVIOUS
  <2>3. views[0] = [known |-> "yes", has |-> picture[k]]
    BY <2>1 DEF IsOutlook, Knows
  <2>4. views[0].known = "yes" /\ views[0].has = picture[k]
    BY <2>3
  <2> QED
    BY <2>1, <2>2, <2>4 DEF Reaches
<1> QED
  BY <1>1, <1>2, <1>3, PTL DEF CommandSpec
=============================================================================
