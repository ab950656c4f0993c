--------------------------- MODULE RoutingHandshake ---------------------------
(***************************************************************************)
(* Start and rundown between the daemon, a routing plugin and the clients: *)
(* setRoutingReady() and setRoutingRundown() go out as a signal or an      *)
(* attribute, the plugin counts the domains at that moment, and the        *)
(* clients, who register and leave as they like, confirm one by one.  The  *)
(* Common-API and the D-Bus plugin differ in when they tell the daemon.    *)
(***************************************************************************)
EXTENDS Integers, FiniteSets

CONSTANTS
    Plugins,        \* the plugins to look at, a subset of {"capi", "dbus"}
    Clients,        \* the domains of the clients
    Second          \* the domain that gets the ID 2

ASSUME HandshakeAssumption == Plugins \subseteq {"capi", "dbus"} /\ IsFiniteSet(Clients)

VARIABLES
    plugin,
    present,        \* domains in the plugin's map
    numberDomains,  \* mNumberDomains
    stage,          \* what the daemon has asked for last: "start", "ready", "rundown"
    readySent,      \* clients that have sent confirmRoutingReady()
    rundownSent,    \* clients that have sent confirmRoutingRundown()
    told,           \* the confirmations the daemon has had
    atRundown       \* how many domains the plugin had when the rundown began

handshakeVars == <<plugin, present, numberDomains, stage, readySent, rundownSent, told, atRundown>>

HandshakeInit ==
    /\ plugin \in Plugins
    /\ present = {} /\ readySent = {} /\ rundownSent = {}
    /\ numberDomains = 0 /\ atRundown = 0
    /\ stage = "start"
    /\ told = [ready |-> 0, rundown |-> 0]

\* A faulty variant of GotRundown that counts on from the confirmations of readiness.
MutGotRundownCounts ==
    /\ stage = "ready" /\ stage' = "rundown"
    /\ atRundown' = Cardinality(present)
    /\ UNCHANGED <<plugin, present, numberDomains, readySent, rundownSent>>

Tell(what) == told' = [told EXCEPT ![what] = @ + 1]

\* The Common-API plugin confirms once more for the second domain.
Enter(d) ==
    /\ d \notin present
    /\ present' = present \cup {d}
    /\ IF plugin = "capi" /\ d = Second /\ told.ready < 3 THEN Tell("ready") ELSE UNCHANGED told
    /\ UNCHANGED <<plugin, numberDomains, stage, readySent, rundownSent, atRundown>>

Leave(d) ==
    /\ d \in present
    /\ present' = present \ {d}
    /\ UNCHANGED <<plugin, numberDomains, stage, readySent, rundownSent, told, atRundown>>

SetReadyCapi ==
    /\ plugin = "capi" /\ stage = "start" /\ stage' = "ready"
    /\ Tell("ready")
    /\ UNCHANGED <<plugin, present, numberDomains, readySent, rundownSent, atRundown>>

SetReadyDbus ==
    /\ plugin = "dbus" /\ stage = "start" /\ stage' = "ready"
    /\ numberDomains' = Cardinality(present)
    /\ UNCHANGED <<plugin, present, readySent, rundownSent, told, atRundown>>

\* Only the D-Bus plugin knows the message; it may arrive when the rundown has begun.
ConfirmReady(d) ==
    /\ plugin = "dbus" /\ stage # "start" /\ d \in present \ readySent
    /\ readySent' = readySent \cup {d}
    /\ Tell("ready")
    /\ numberDomains' = numberDomains + 1
    /\ UNCHANGED <<plugin, present, stage, rundownSent, atRundown>>

GotRundown ==
    /\ stage = "ready" /\ stage' = "rundown"
    /\ numberDomains' = Cardinality(present)
    /\ atRundown' = Cardinality(present)
    /\ UNCHANGED <<plugin, present, readySent, rundownSent>>

SetRundownCapi == plugin = "capi" /\ GotRundown /\ Tell("rundown")
SetRundownDbus == plugin = "dbus" /\ GotRundown /\ UNCHANGED told

\* A client confirms while it is registered, or on its way out.
ConfirmRundown(d) ==
    /\ stage = "rundown" /\ d \notin rundownSent
    /\ rundownSent' = rundownSent \cup {d}
    /\ numberDomains' = numberDomains - 1
    /\ IF numberDomains' = 0 THEN Tell("rundown") ELSE UNCHANGED told
    /\ UNCHANGED <<plugin, present, stage, readySent, atRundown>>

HandshakeNext ==
    \/ SetReadyCapi \/ SetReadyDbus \/ SetRundownCapi \/ SetRundownDbus
    \/ \E d \in Clients : Enter(d) \/ Leave(d) \/ ConfirmReady(d) \/ ConfirmRundown(d)

HandshakeSpec == HandshakeInit /\ [][HandshakeNext]_handshakeVars

-----------------------------------------------------------------------------
(* Properties *)

\* The D-Bus plugin does not tell the daemon that the routing side is down before as many
\* clients as there were domains have said so, whoever joins, leaves or is late.
RundownNotEarly ==
    plugin = "dbus" /\ told.rundown > 0 => Cardinality(rundownSent) >= atRundown

\* What the test of the Common-API plugin expects: the rundown is confirmed once.  (Violated:
\* at once, and again after the last client.)
RundownConfirmedOnce == told.rundown <= 1

\* When every client has confirmed, the daemon has been told.  (Violated by the D-Bus plug-in,
\* without domains or with a client that gets ready during the rundown.)
RundownConfirmed == stage = "rundown" /\ rundownSent = Clients => told.rundown > 0
=============================================================================
