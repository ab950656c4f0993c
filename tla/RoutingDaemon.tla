---------------------------- MODULE RoutingDaemon ----------------------------
(***************************************************************************)
(* What the two plugins for routing clients, CapiRouting and DbusRouting,  *)
(* stand between: the Audio Manager daemon, which knows domains, elements  *)
(* (sinks and sources) and connections by numbers and asks for things      *)
(* under a handle, and the client processes, one for each domain, which    *)
(* carry them out.  None of it is code of the repository: it is modelled   *)
(* from the calls the plugins make and take.                               *)
(***************************************************************************)
EXTENDS Integers, FiniteSets

CONSTANTS
    Domains,        \* the domain IDs the daemon gives out, each of them once
    Elements,       \* IDs of sinks and sources
    HomeOf,         \* [Elements -> Domains]: the domain of each element
    Connections,    \* connection IDs
    Handles,        \* handle numbers
    HandlesWrap,    \* TRUE: numbers are used again (they have ten bits)
    NONE

ASSUME RoutingAssumption ==
    /\ HomeOf \in [Elements -> Domains]
    /\ HandlesWrap \in BOOLEAN
    /\ NONE \notin Domains

VARIABLES
    domain,         \* [Domains -> {"new", "known", "gone"}]: the daemon's database
    registered,     \* elements in the daemon's database
    connection,     \* [Connections -> Domains \cup {NONE}]: the domain a connection that
                    \* the daemon holds was asked of
    usedConnections,
    request,        \* [Handles -> Requests \cup {NONE}]: what the daemon waits for
    usedHandles,
    running         \* domains whose client process is there

daemonVars == <<domain, registered, connection, usedConnections, request, usedHandles, running>>

\* A request of the daemon, the domain whose client the plugin sent it to, and how far it
\* got: on its way, in the hands of the client, lost with the client, or answered in vain.
Requests ==
    [kind : {"connect", "disconnect", "element", "transfer"},
     keys : SUBSET (Elements \cup Connections \cup Domains),
     to : Domains, stage : {"sent", "served", "lost", "ignored"}]

DaemonInit ==
    /\ domain = [d \in Domains |-> "new"]
    /\ registered = {}
    /\ connection = [c \in Connections |-> NONE]
    /\ usedConnections = {}
    /\ request = [h \in Handles |-> NONE]
    /\ usedHandles = {}
    /\ running = Domains

FreeHandle(h) == request[h] = NONE /\ (HandlesWrap \/ h \notin usedHandles)

\* The daemon accepts or refuses a registration as it likes.
RegisterDomain(d) ==
    /\ domain[d] = "new"
    /\ domain' = [domain EXCEPT ![d] = "known"]
    /\ UNCHANGED <<registered, connection, usedConnections, request, usedHandles, running>>

RegisterElement(e) ==
    /\ e \notin registered /\ domain[HomeOf[e]] = "known"
    /\ registered' = registered \cup {e}
    /\ UNCHANGED <<domain, connection, usedConnections, request, usedHandles, running>>

DeregisterElement(e) ==
    /\ e \in registered
    /\ registered' = registered \ {e}
    /\ UNCHANGED <<domain, connection, usedConnections, request, usedHandles, running>>

\* With a domain its elements and connections leave the database.
DeregisterDomain(d) ==
    /\ domain[d] = "known"
    /\ domain' = [domain EXCEPT ![d] = "gone"]
    /\ registered' = {e \in registered : HomeOf[e] # d}
    /\ connection' = [c \in Connections |-> IF connection[c] = d THEN NONE ELSE connection[c]]
    /\ UNCHANGED <<usedConnections, request, usedHandles, running>>

\* A call of the plugin under the handle h that it answers with E_OK after it has sent it to
\* the client of d, and one that it refuses: the daemon forgets that one.
Accepted(h, kind, keys, d) ==
    /\ FreeHandle(h)
    /\ request' = [request EXCEPT ![h] = [kind |-> kind, keys |-> keys, to |-> d, stage |-> "sent"]]
    /\ usedHandles' = usedHandles \cup {h}
    /\ connection' = IF kind = "connect" THEN [c \in Connections |-> IF c \in keys THEN d ELSE connection[c]]
                                         ELSE connection
    /\ usedConnections' = usedConnections \cup (keys \cap Connections)
    /\ UNCHANGED <<domain, registered, running>>

Refused(h, keys) ==
    /\ FreeHandle(h)
    /\ usedHandles' = usedHandles \cup {h}
    /\ usedConnections' = usedConnections \cup (keys \cap Connections)
    /\ UNCHANGED <<domain, registered, connection, request, running>>

\* An answer reaches the daemon, which ignores one it does not wait for.  After a failed
\* connect or a disconnect the connection is no longer in the database.
Answered(h, ok) ==
    /\ request' = [request EXCEPT ![h] = NONE]
    /\ connection' =
        IF /\ request[h] # NONE
           /\ \/ request[h].kind = "connect" /\ ~ok
              \/ request[h].kind = "disconnect"
        THEN [c \in Connections |-> IF c \in request[h].keys THEN NONE ELSE connection[c]]
        ELSE connection
    /\ UNCHANGED <<domain, registered, usedConnections, usedHandles, running>>

\* The message arrives at the client, or the client vanishes with all it was doing.
Delivered(h) ==
    /\ request[h] # NONE /\ request[h].stage = "sent" /\ request[h].to \in running
    /\ request' = [request EXCEPT ![h].stage = "served"]
    /\ UNCHANGED <<domain, registered, connection, usedConnections, usedHandles, running>>

ClientStarts(d) ==
    /\ d \notin running
    /\ running' = running \cup {d}
    /\ UNCHANGED <<domain, registered, connection, usedConnections, request, usedHandles>>

ClientStops(d) ==
    /\ d \in running
    /\ running' = running \ {d}
    /\ request' = [h \in Handles |->
            IF request[h] # NONE /\ request[h].to = d /\ request[h].stage = "served"
            THEN [request[h] EXCEPT !.stage = "lost"] ELSE request[h]]
    /\ UNCHANGED <<domain, registered, connection, usedConnections, usedHandles>>

Waiting(h) == request[h] # NONE
=============================================================================
