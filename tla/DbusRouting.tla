----------------------------- MODULE DbusRouting -----------------------------
(***************************************************************************)
(* The D-Bus routing plugin: CAmRoutingSenderDbus sends the daemon's       *)
(* requests to the client of a domain and remembers whom it has sent a     *)
(* handle or a connection to, IAmRoutingReceiverShadowDbus takes           *)
(* registrations and answers, as far as its function map knows them.       *)
(*                                                                         *)
(* The entries of the maps are addresses (bus name, path and interface)    *)
(* that the clients give themselves.  Messages are sent without asking for *)
(* a reply, so nobody learns of one that gets lost.                        *)
(***************************************************************************)
EXTENDS RoutingDaemon

CONSTANT
    Addresses       \* bus names, paths and interfaces that clients may register

ASSUME AddressAssumption == NONE \notin Addresses

VARIABLES
    addresses,      \* mMapDomains: domain -> address
    connectionTo,   \* mMapConnections: connection -> address
    handleTo,       \* mMapHandles: handle -> address
    orphaned        \* history: handles that waited and connections that were up when a domain
                    \* with the address of theirs left the map

dbusVars == <<addresses, connectionTo, handleTo, orphaned>>

DbusInit ==
    /\ DaemonInit
    /\ addresses = [d \in Domains |-> NONE]
    /\ connectionTo = [c \in Connections |-> NONE]
    /\ handleTo = [h \in Handles |-> NONE]
    /\ orphaned = [handles |-> {}, connections |-> {}]

\* Faulty variants of the definitions below, which the properties must tell apart.
MutWithoutAddressCleared(map, a) == [key \in DOMAIN map |-> NONE]

\* std::map::insert() keeps the entry it finds.
Entered(map, key, a) == [map EXCEPT ![key] = IF @ = NONE THEN a ELSE @]

\* removeEntriesForValue()
WithoutAddress(map, a) == [key \in DOMAIN map |-> IF map[key] = a THEN NONE ELSE map[key]]

\* createMap(): the answers among the messages that are dispatched.
FunctionMap == {"connect", "disconnect", "element"}

-----------------------------------------------------------------------------
(* Registration, called by the clients *)

\* The address is the client's: nothing keeps two domains from having the same one.
DbusRegisterDomain(d, a) ==
    /\ RegisterDomain(d)
    /\ addresses' = Entered(addresses, d, a)
    /\ UNCHANGED <<connectionTo, handleTo, orphaned>>

SameAddress(d) == {x \in Domains : addresses[x] = addresses[d]}

\* The lookup goes whether the daemon has agreed or not, and with it all entries of the address,
\* those of other domains included.
DbusDeregisterDomain(d) ==
    /\ domain[d] = "known"
    /\ DeregisterDomain(d) \/ UNCHANGED daemonVars
    /\ IF addresses[d] # NONE
       THEN /\ handleTo' = WithoutAddress(handleTo, addresses[d])
            /\ connectionTo' = WithoutAddress(connectionTo, addresses[d])
            /\ addresses' = [addresses EXCEPT ![d] = NONE]
            /\ orphaned' =
                  [handles |-> orphaned.handles
                       \cup {h \in Handles : Waiting(h) /\ request[h].to \in SameAddress(d)},
                   connections |-> orphaned.connections
                       \cup {c \in Connections : connection[c] \in SameAddress(d)}]
       ELSE UNCHANGED dbusVars

DbusRegisterElement(e) == RegisterElement(e) /\ UNCHANGED dbusVars
DbusDeregisterElement(e) == DeregisterElement(e) /\ UNCHANGED dbusVars

-----------------------------------------------------------------------------
(* Requests of the daemon *)

\* The message is sent, and E_OK returned, wherever it may end.
Send(h, kind, keys, d) ==
    /\ handleTo' = Entered(handleTo, h, addresses[d])
    /\ Accepted(h, kind, keys, d)

DbusConnect(h, c, source) ==
    /\ c \notin usedConnections /\ source \in registered
    /\ LET d == HomeOf[source] IN
        IF addresses[d] = NONE
        THEN Refused(h, {c}) /\ UNCHANGED <<handleTo, connectionTo>>
        ELSE connectionTo' = Entered(connectionTo, c, addresses[d]) /\ Send(h, "connect", {c}, d)
    /\ UNCHANGED <<addresses, orphaned>>

\* The message goes to an address; the client there serves one domain at least.
DbusDisconnect(h, c) ==
    /\ connection[c] # NONE
    /\ IF connectionTo[c] = NONE
       THEN Refused(h, {}) /\ UNCHANGED handleTo
       ELSE /\ handleTo' = Entered(handleTo, h, connectionTo[c])
            /\ \E d \in Domains : /\ addresses[d] = connectionTo[c]
                                  /\ Accepted(h, "disconnect", {c}, d)
    /\ UNCHANGED <<addresses, connectionTo, orphaned>>

DbusSetElement(h, e) ==
    /\ e \in registered
    /\ IF addresses[HomeOf[e]] = NONE
       THEN Refused(h, {}) /\ UNCHANGED handleTo
       ELSE Send(h, "element", {e}, HomeOf[e])
    /\ UNCHANGED <<addresses, connectionTo, orphaned>>

\* asyncTransferConnection(): a connection made before the daemon was there is offered.
DbusTransfer(h, d) ==
    /\ domain[d] = "known"
    /\ IF addresses[d] = NONE
       THEN Refused(h, {}) /\ UNCHANGED handleTo
       ELSE Send(h, "transfer", {d}, d)
    /\ UNCHANGED <<addresses, connectionTo, orphaned>>

-----------------------------------------------------------------------------
(* What becomes of a request *)

DbusDelivered(h) == Delivered(h) /\ UNCHANGED dbusVars

\* A message to a client that is not there is dropped by the bus.
DbusLost(h) ==
    /\ Waiting(h) /\ request[h].stage = "sent" /\ request[h].to \notin running
    /\ request' = [request EXCEPT ![h].stage = "lost"]
    /\ UNCHANGED <<domain, registered, connection, usedConnections, usedHandles, running, dbusVars>>

\* ack*(): the answer is passed on and the handle removed; the connection stays in the map.
DbusAck(h, ok, kinds) ==
    /\ Waiting(h) /\ request[h].stage = "served" /\ request[h].kind \in kinds \cap FunctionMap
    /\ Answered(h, ok)
    /\ handleTo' = [handleTo EXCEPT ![h] = NONE]
    /\ UNCHANGED <<addresses, connectionTo, orphaned>>

DbusAckConnection(h, ok) == DbusAck(h, ok, {"connect", "disconnect"})
DbusAckElement(h, ok) == DbusAck(h, ok, {"element"})

\* receiveCallbackDelegate(): a message that is not in the function map.
DbusNotHandled(h) ==
    /\ Waiting(h) /\ request[h].stage = "served" /\ request[h].kind \notin FunctionMap
    /\ request' = [request EXCEPT ![h].stage = "ignored"]
    /\ UNCHANGED <<domain, registered, connection, usedConnections, usedHandles, running, dbusVars>>

DbusClientStarts(d) == ClientStarts(d) /\ UNCHANGED dbusVars
DbusClientStops(d) == ClientStops(d) /\ UNCHANGED dbusVars

-----------------------------------------------------------------------------
DbusRequest(h) ==
    \/ \E c \in Connections, source \in Elements : DbusConnect(h, c, source)
    \/ \E c \in Connections : DbusDisconnect(h, c)
    \/ \E e \in Elements : DbusSetElement(h, e)
    \/ \E d \in Domains : DbusTransfer(h, d)

DbusNext ==
    \/ \E d \in Domains : \/ \E a \in Addresses : DbusRegisterDomain(d, a)
                          \/ DbusDeregisterDomain(d) \/ DbusClientStarts(d) \/ DbusClientStops(d)
    \/ \E e \in Elements : DbusRegisterElement(e) \/ DbusDeregisterElement(e)
    \/ \E h \in Handles : \/ DbusRequest(h) \/ DbusDelivered(h) \/ DbusLost(h) \/ DbusNotHandled(h)
                          \/ \E ok \in BOOLEAN : DbusAckConnection(h, ok) \/ DbusAckElement(h, ok)

DbusSpec == DbusInit /\ [][DbusNext]_<<daemonVars, dbusVars>>

-----------------------------------------------------------------------------
(* Properties *)

\* As long as a domain is in the plugin's map, what its client is working on can be aborted and
\* what it has connected can be disconnected, and that at no other client; only if a domain
\* that shares the client's address leaves, what the client had then is lost.
DbusStaysInReach ==
    /\ \A h \in Handles : Waiting(h) /\ request[h].stage # "ignored" /\ addresses[request[h].to] # NONE
            => handleTo[h] = IF h \in orphaned.handles THEN NONE ELSE addresses[request[h].to]
    /\ \A c \in Connections : connection[c] # NONE /\ addresses[connection[c]] # NONE
            => connectionTo[c] = IF c \in orphaned.connections THEN NONE ELSE addresses[connection[c]]

\* What a client answers with a method of RoutingReceiver.xml reaches the daemon.  (Violated:
\* the function map lacks some.)
DbusAnswersArrive == \A h \in Handles : Waiting(h) => request[h].stage # "ignored"
=============================================================================
