--------------------------- MODULE CommandClients ---------------------------
(***************************************************************************)
(* The two command plug-ins between the daemon and the user applications   *)
(* (HMI): PluginCommandInterfaceDbus and PluginCommandInterfaceCAPI.       *)
(* Upwards a plug-in turns requests of a client into calls of the daemon   *)
(* and sends the result back; downwards it turns the daemon's callbacks    *)
(* cb*() into signals, once setCommandReady() has been called.  A client   *)
(* fetches the lists of sinks, sources and main connections and keeps its  *)
(* picture of them up to date by the signals.                              *)
(*                                                                         *)
(* Elements are ids with one datum each (class of a sink or source, state  *)
(* of a connection).  Sinks, sources and connections are numbered          *)
(* independently: the same id may exist in all three lists.  The plug-ins  *)
(* share nothing but the daemon, so a behaviour follows one of them and a  *)
(* client of it; requests to the plug-in and messages from it keep their   *)
(* order on the bus.  The daemon (its lists) and the client are external.  *)
(***************************************************************************)
EXTENDS Naturals, Sequences, FiniteSets

CONSTANTS
    ElementIds,    \* ids handed out by the daemon, per kind
    Data,          \* classes of sinks and sources, states of connections
    EarlyFetch,    \* TRUE: clients may fetch lists before setCommandReady()
    MaxUpdates,    \* bound: changes of the daemon's lists
    MaxMismatches  \* bound: D-Bus requests whose arguments have other types

ASSUME CommandAssumption ==
    EarlyFetch \in BOOLEAN /\ {MaxUpdates, MaxMismatches} \subseteq Nat

VARIABLES
    commandPlugin, \* "dbus" or "capi"
    lists,         \* daemon: kind -> elements with their data
    commandStage,  \* plug-in: "started", "ready" (mReady) or "rundown"
    errorName,     \* plug-in: mErrorName of the message handler is set
    requests,      \* requests on their way to the plug-in
    inbox,         \* messages on their way to the client
    known,         \* client: kind -> "no", "asked" or "yes", it has the list
    picture,       \* client: kind -> what it believes, once known
    updates, mismatches

commandVars == <<commandPlugin, lists, commandStage, errorName, requests, inbox, known, picture,
                 updates, mismatches>>

Kinds == {"sink", "source", "connection"}

Extended(f, i, v) == [j \in DOMAIN f \cup {i} |-> IF j = i THEN v ELSE f[j]]
Reduced(f, i) == [j \in DOMAIN f \ {i} |-> f[j]]

Nothing == [j \in {} |-> j]

CommandInit ==
    /\ commandPlugin \in {"dbus", "capi"}
    /\ lists = [k \in Kinds |-> Nothing]
    /\ commandStage = "started"
    /\ errorName = FALSE
    /\ requests = <<>>
    /\ inbox = <<>>
    /\ known = [k \in Kinds |-> "no"]
    /\ picture = [k \in Kinds |-> Nothing]
    /\ updates = 0
    /\ mismatches = 0

-----------------------------------------------------------------------------
(* Downwards: callbacks become signals *)

\* The signals of CAmCommandSenderCAPI (fire*Event) carry the kind they are
\* about.
MutCapiSignalOneName(what, kind) == [what |-> what,
                                     kind |-> IF what = "updated" THEN "sink" ELSE kind]

CapiSignal(what, kind) == [what |-> what, kind |-> kind]

\* The signals of CAmCommandSenderDbus: cbSourceUpdated() sends "SinkUpdated".
DbusSignal(what, kind) ==
    [what |-> what,
     kind |-> IF what = "updated" /\ kind = "source" THEN "sink" ELSE kind]

SignalOf(what, kind) ==
    IF commandPlugin = "dbus" THEN DbusSignal(what, kind) ELSE CapiSignal(what, kind)

\* Every callback returns at once while mReady is false.
Forward(what, kind, i, v) ==
    inbox' = IF commandStage # "ready" THEN inbox
             ELSE Append(inbox, [signal |-> SignalOf(what, kind), id |-> i,
                                 datum |-> v, list |-> Nothing])

Updating == /\ updates < MaxUpdates
            /\ updates' = updates + 1
            /\ UNCHANGED <<commandPlugin, commandStage, errorName, requests, known, picture, mismatches>>

\* cbNewSink(), cbNewSource(), cbNewMainConnection()
Appears(k, i, v) ==
    /\ i \notin DOMAIN lists[k]
    /\ lists' = [lists EXCEPT ![k] = Extended(@, i, v)]
    /\ Forward("new", k, i, v)
    /\ Updating

\* cbRemovedSink(), cbRemovedSource(), cbRemovedMainConnection()
Disappears(k, i) ==
    /\ i \in DOMAIN lists[k]
    /\ lists' = [lists EXCEPT ![k] = Reduced(@, i)]
    /\ Forward("removed", k, i, lists[k][i])
    /\ Updating

\* cbSinkUpdated(), cbSourceUpdated(), cbMainConnectionStateChanged()
Changes(k, i, v) ==
    /\ i \in DOMAIN lists[k]
    /\ v # lists[k][i]
    /\ lists' = [lists EXCEPT ![k][i] = v]
    /\ Forward("updated", k, i, v)
    /\ Updating

-----------------------------------------------------------------------------
(* Upwards: requests and their replies *)

\* setCommandReady() and setCommandRundown(); both confirm at once.
SetCommandReady ==
    /\ commandStage = "started"
    /\ commandStage' = "ready"
    /\ UNCHANGED <<commandPlugin, lists, errorName, requests, inbox, known, picture, updates, mismatches>>

SetCommandRundown ==
    /\ commandStage = "ready"
    /\ commandStage' = "rundown"
    /\ UNCHANGED <<commandPlugin, lists, errorName, requests, inbox, known, picture, updates, mismatches>>

\* A client calls GetListMain*(); the objects are on the bus since
\* startupInterface().
Fetch(k) ==
    /\ EarlyFetch \/ commandStage = "ready"
    /\ known[k] = "no"
    /\ known' = [known EXCEPT ![k] = "asked"]
    /\ requests' = Append(requests, [call |-> "list", kind |-> k])
    /\ UNCHANGED <<commandPlugin, lists, commandStage, errorName, inbox, picture, updates, mismatches>>

\* A client of the D-Bus plug-in was built against other argument types (the
\* CommonAPI runtime refuses such a call before the plug-in sees it).
Mismatch ==
    /\ commandPlugin = "dbus"
    /\ mismatches < MaxMismatches
    /\ mismatches' = mismatches + 1
    /\ requests' = Append(requests, [call |-> "mismatched", kind |-> "sink"])
    /\ UNCHANGED <<commandPlugin, lists, commandStage, errorName, inbox, known, picture, updates>>

Reply(k) == [signal |-> [what |-> "list", kind |-> k], id |-> 0, datum |-> 0,
                list |-> lists[k]]

\* CAmCommandSenderService::getList*() answers with the daemon's list.
\* The D-Bus handler answers with the list unless an argument of this or of
\* an earlier message had another type: mErrorName is never cleared, and as
\* getListMain*() does not announce the received message there is nothing to
\* answer the error to.
Handle ==
    /\ requests # <<>>
    /\ LET request == Head(requests)
       IN  /\ errorName' = (errorName \/ request.call = "mismatched")
           /\ inbox' = IF request.call = "list" /\ ~errorName'
                       THEN Append(inbox, Reply(request.kind))
                       ELSE inbox
    /\ requests' = Tail(requests)
    /\ UNCHANGED <<commandPlugin, lists, commandStage, known, picture, updates, mismatches>>

-----------------------------------------------------------------------------
(* The client *)

\* What a client makes of a message about a list it has fetched.
Believes(old, message) ==
    CASE message.signal.what = "list" -> message.list
      [] message.signal.what = "new" -> Extended(old, message.id, message.datum)
      [] message.signal.what = "removed" -> Reduced(old, message.id)
      [] message.signal.what = "updated" ->
            IF message.id \in DOMAIN old
            THEN [old EXCEPT ![message.id] = message.datum] ELSE old

Receive ==
    /\ inbox # <<>>
    /\ LET message == Head(inbox)
           kind == message.signal.kind
           isList == message.signal.what = "list"
       IN  /\ known' = IF isList THEN [known EXCEPT ![kind] = "yes"] ELSE known
           /\ picture' = IF isList \/ known[kind] = "yes"
                         THEN [picture EXCEPT ![kind] = Believes(@, message)]
                         ELSE picture
    /\ inbox' = Tail(inbox)
    /\ UNCHANGED <<commandPlugin, lists, commandStage, errorName, requests, updates, mismatches>>

CommandNext ==
    \/ \E k \in Kinds, i \in ElementIds, v \in Data :
            Appears(k, i, v) \/ Changes(k, i, v)
    \/ \E k \in Kinds, i \in ElementIds : Disappears(k, i)
    \/ \E k \in Kinds : Fetch(k)
    \/ SetCommandReady \/ SetCommandRundown \/ Mismatch \/ Handle \/ Receive

CommandSpec == CommandInit /\ [][CommandNext]_commandVars
                /\ WF_commandVars(Handle) /\ WF_commandVars(Receive)

-----------------------------------------------------------------------------
(* What the client knows is what the daemon has, once it has fetched the   *)
(* list and has read its messages, until the rundown.                      *)
ClientFollows ==
    commandStage = "ready" /\ inbox = <<>> =>
        \A k \in Kinds : known[k] = "yes" => picture[k] = lists[k]

(* The signals of the Common-API plug-in keep the picture of its clients   *)
(* in step with the daemon, whatever the order of replies and signals.     *)
CapiClientsFollow == commandPlugin = "capi" => ClientFollows

(* The signals of the D-Bus plug-in keep the picture of its clients in     *)
(* step with the daemon (violated: the update of a source is announced as  *)
(* the update of a sink).                                                  *)
DbusClientsFollow == commandPlugin = "dbus" => ClientFollows

(* A list that was asked for arrives (violated by the D-Bus plug-in after  *)
(* a request with mismatched arguments).                                   *)
ListsArrive == \A k \in Kinds : known[k] = "asked" ~> known[k] = "yes"
=============================================================================
