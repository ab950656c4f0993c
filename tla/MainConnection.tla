--------------------------- MODULE MainConnection ---------------------------
(***************************************************************************)
(* Main connections and their routes below the actions of ActionEngine.    *)
(*                                                                         *)
(* A main connection leads from a main source to a main sink over one or   *)
(* more segments (CAmRouteElement), which other connections may share.     *)
(* CAmActionConnect and CAmActionDisconnect, the actions a policy names,   *)
(* append CAmMainConnectionActionConnect and ...Disconnect, which append   *)
(* the commands: connect or disconnect a segment, set a source ON or OFF.  *)
(*                                                                         *)
(* The engine decides which hook of which action runs (_execute, _update,  *)
(* _undo); this module adds what the hook does to the elements.  Each      *)
(* action here is an action of the engine and its effect on them.          *)
(***************************************************************************)
EXTENDS ActionEngine, SequencesExt

CONSTANTS
    Connections,      \* names of main connections, "source:sink"
    Class,            \* [Connections -> class and main sink of the connection]
    Route,            \* [Connections -> Seq(Segments)], main source first
    Segments,         \* CAmRouteElement objects
    Source,           \* [Segments -> Sources]: CAmRouteElement::getSource()
    Stateless,        \* the sources whose state is SS_UNKNOWN
    Kind,             \* [Nodes -> kind of action]
    Subject,          \* what the action is about: a connection, or a segment
    StateTrigger,     \* [Connections -> Triggers]: SYSTEM_CONNECTION_STATE_CHANGE
    ConnectTrigger,   \* [Connections -> Triggers]: USER_CONNECTION_REQUEST
    DisconnectTrigger,\* [Connections -> Triggers]: USER_DISCONNECTION_REQUEST
    Errors,           \* [kinds of request -> SUBSET Failures]: how they may fail
    E_NOT_POSSIBLE, E_DATABASE_ERROR,
    MayBeUnavailable, \* whether sources and sinks may be unavailable
    DisconnectStates, \* mListConnectionStatesParam of the disconnect actions
    MaxQueued         \* bound on the user's triggers that wait

ConnectionStates == {"NONE", "UNKNOWN", "CONNECTING", "CONNECTED", "DISCONNECTING",
                     "DISCONNECTED", "SUSPENDED"}
SegmentStates == {"CONNECTING", "CONNECTED", "DISCONNECTING", "DISCONNECTED"}
SourceStates == {"ON", "OFF", "UNKNOWN"}

ASSUME RouteAssumption ==
    /\ Route \in [Connections -> Seq(Segments) \ {<<>>}]
    /\ DisconnectStates \subseteq ConnectionStates \ {"NONE"}
ASSUME ActionAssumption ==
    /\ \A n \in Containers : Kind[n] \in {"list", "connect", "disconnect", "mcConnect", "mcDisconnect"}
    /\ \A n \in Containers : Kind[n] # "list" => Subject[n] \in Connections
    /\ \A l \in Leaves : Kind[l] \in {"routeConnect", "routeDisconnect", "sourceOn", "sourceOff", "volume"}
    /\ \A l \in Leaves : Kind[l] # "volume" => Subject[l] \in Segments

Sources == {Source[r] : r \in Segments}
MainSource(m) == Source[Head(Route[m])]
Of(kind) == {n \in Nodes : Kind[n] = kind}

VARIABLES
    connection,       \* connection state in the daemon's database; "NONE": no connection
    transitions,      \* mOngoingTransitions: the actions that exist
    dangling,         \* mOngoingTransitions has an action that has been deleted
    segment,          \* CAmRouteElement::mState
    source,           \* source state in the daemon's database
    oldState,         \* mOldState of the source commands
    selected,         \* mListMainConnections of the actions that policies name
    disposable,       \* mDisposeMainConnection
    up                \* what the routing side has connected

elements == <<connection, transitions, dangling, segment, source, oldState,
              selected, disposable, up>>
allVars == <<vars, elements>>

Existing == {m \in Connections : connection[m] # "NONE"}
Uses(m, r) == r \in Elements(Route[m])

ConnectionInit ==
    /\ Init
    /\ connection = [m \in Connections |-> "NONE"]
    /\ transitions = [m \in Connections |-> {}]
    /\ dangling = [m \in Connections |-> FALSE]
    /\ segment = [r \in Segments |-> "DISCONNECTED"]
    /\ source = [s \in Sources |-> IF s \in Stateless THEN "UNKNOWN" ELSE "OFF"]
    /\ oldState = [l \in Of("sourceOn") \cup Of("sourceOff") |-> "UNKNOWN"]
    /\ selected = [n \in Of("connect") \cup Of("disconnect") |-> {}]
    /\ disposable = [n \in Of("connect") |-> TRUE]
    /\ up = {}

-----------------------------------------------------------------------------
(* What the hooks are made of *)

\* setStateChangeTrigger() for each of ms.  The model keeps one trigger of a connection
\* in the queue at a time.
Report(ms) ==
    /\ priority' = priority \o SelectSeq([i \in DOMAIN ms |-> StateTrigger[ms[i]]], Unqueued)
    /\ UNCHANGED queue

\* permitsDispose()
PermitsDispose(m) ==
    /\ connection[m] = "DISCONNECTED"
    /\ transitions[m] = {} /\ ~dangling[m]
    /\ ConnectTrigger[m] \notin Elements(queue)

\* disposeConnection(): the connection leaves the database; a segment that no other
\* connection uses goes with it, and with it what was known of its state.
MutDispose(m) ==
    /\ connection' = [connection EXCEPT ![m] = "NONE"]
    /\ segment' = [r \in Segments |-> IF Uses(m, r) THEN "DISCONNECTED" ELSE segment[r]]
    /\ UNCHANGED <<transitions, dangling>>
Dispose(m) ==
    /\ connection' = [connection EXCEPT ![m] = "NONE"]
    /\ transitions' = [transitions EXCEPT ![m] = {}]
    /\ dangling' = [dangling EXCEPT ![m] = FALSE]
    /\ segment' = [r \in Segments |->
                      IF Uses(m, r) /\ ~\E k \in Existing \ {m} : Uses(k, r)
                      THEN "DISCONNECTED" ELSE segment[r]]

\* updateState(): the state of the first segment that is not connected counts.
StateFromRoute(m) ==
    LET open == {i \in DOMAIN Route[m] : segment[Route[m][i]] # "CONNECTED"}
    IN  IF open # {} THEN segment[Route[m][Min(open)]]
        ELSE IF source[MainSource(m)] = "ON" THEN "CONNECTED" ELSE "SUSPENDED"

\* The commands an action appends, in their order: what they are and what about.
Commands(s) == [i \in DOMAIN s |-> <<Kind[s[i]], Subject[s[i]]>>]
ForEach(kind, rs) == [i \in DOMAIN rs |-> <<kind, rs[i]>>]

\* Set up from the main sink to the main source, tear down the other way round
\* (playback classes; other classes have both directions swapped), unless the
\* disconnect is part of a connect, which leaves the direction at its default.
\* Sources without a state get no command.
Controlled(r) == source[Source[r]] # "UNKNOWN"
SetupCommands(m) ==
    LET rs == Reverse(Route[m])
    IN  ForEach("routeConnect", rs) \o ForEach("sourceOn", SelectSeq(rs, Controlled))

\* _checkSharedRouteDisconnected(): no other connection uses r while r is not down.
MutSegmentUnshared(m, r) == TRUE
MutSegmentUnsharedGone(m, r) == ~\E k \in Connections \ {m} : Uses(k, r)
MutSegmentUnsharedOwn(m, r) == ~\E k \in Existing : Uses(k, r)
SegmentUnshared(m, r) ==
    segment[r] = "DISCONNECTED" \/ ~\E k \in Existing \ {m} : Uses(k, r)

\* _checkSharedSourceDisconnected(): no other segment from the source is in use.
SourceUnshared(r) ==
    \A q \in Segments \ {r} : Source[q] = Source[r] => segment[q] = "DISCONNECTED"

TeardownCommands(n) ==
    LET m == Subject[n]
        rs == IF Kind[Parent[n]] = "connect" THEN Reverse(Route[m]) ELSE Route[m]
        Switchable(r) == Controlled(r) /\ SourceUnshared(r)
        Unshared(r) == SegmentUnshared(m, r)
    IN  ForEach("sourceOff", SelectSeq(rs, Switchable))
        \o ForEach("routeDisconnect", SelectSeq(rs, Unshared))

\* The constructors of CAmMainConnectionActionConnect and ...Disconnect: the state a
\* connection changes to at once.
ConnectBegins(c) == c \in {"UNKNOWN", "DISCONNECTED", "SUSPENDED"}
DisconnectBegins(c) == c \in {"UNKNOWN", "CONNECTED", "SUSPENDED"}

-----------------------------------------------------------------------------
(* _execute() *)

\* registerTransitionAction() by the constructors of the children s.
Register(s) ==
    transitions' = [m \in Connections |->
        transitions[m] \cup {s[i] : i \in {j \in DOMAIN s : /\ Kind[s[j]] \in {"mcConnect", "mcDisconnect"}
                                                           /\ Subject[s[j]] = m}}]

\* CAmActionConnect of the connection m, for the source and sink a user has named: m is
\* created if need be.  Of one class and sink, one connection is active at a time: m is
\* picked if no other one is; and if one is, a connection that has just been created
\* is driven to DISCONNECTED.
MutConflicting(c) == c = "CONNECTING"
Conflicting(c) == c \in {"CONNECTED", "CONNECTING", "SUSPENDED"}

ConnectExecute(n, s, r) ==
    LET m == Subject[n]
        now == IF m \in Existing THEN connection ELSE [connection EXCEPT ![m] = "UNKNOWN"]
        peers == {k \in Connections : Class[k] = Class[m]}
        rivals == {k \in peers : Conflicting(now[k])}
        fresh == {k \in peers : now[k] = "UNKNOWN"}
        picked == \A k \in rivals : k = m /\ now[m] = "SUSPENDED"
    IN  \/ /\ m \notin Existing /\ r \in Errors["create"] /\ s = <<>>
           /\ Report(<<>>)
           /\ UNCHANGED elements
        \/ /\ r = E_OK
           /\ \E out \in IF rivals # {} /\ fresh # {} THEN {<<k>> : k \in fresh} ELSE {<<>>} :
                 /\ Commands(s) = ForEach("mcDisconnect", out)
                                  \o IF picked THEN <<<<"volume", m>>, <<"mcConnect", m>>>> ELSE <<>>
                 /\ connection' = [k \in Connections |->
                       IF k \in Elements(out) THEN "DISCONNECTING"
                       ELSE IF picked /\ k = m /\ ConnectBegins(now[m]) THEN "CONNECTING"
                       ELSE now[k]]
                 /\ Report(out \o IF picked /\ ConnectBegins(now[m]) THEN <<m>> ELSE <<>>)
           /\ Register(s)
           /\ selected' = [selected EXCEPT ![n] = IF picked THEN {m} ELSE {}]
           /\ UNCHANGED <<dangling, segment, source, oldState, disposable, up>>

\* CAmActionDisconnect of the connection m: it has an effect in certain states only.
DisconnectExecute(n, s, r) ==
    LET m == Subject[n]
        picked == connection[m] \in DisconnectStates
        begins == picked /\ DisconnectBegins(connection[m])
    IN  /\ r = E_OK
        /\ Commands(s) = IF picked THEN <<<<"mcDisconnect", m>>>> ELSE <<>>
        /\ connection' = [connection EXCEPT ![m] = IF begins THEN "DISCONNECTING" ELSE @]
        /\ Report(IF begins THEN <<m>> ELSE <<>>)
        /\ Register(s)
        /\ selected' = [selected EXCEPT ![n] = IF picked THEN {m} ELSE {}]
        /\ UNCHANGED <<dangling, segment, source, oldState, disposable, up>>

\* CAmMainConnectionActionConnect
McConnectExecute(n, s, r) ==
    LET m == Subject[n]
    IN  \/ /\ s = <<>>
           /\ \/ connection[m] = "CONNECTED" /\ r = E_OK
              \/ connection[m] # "CONNECTED" /\ MayBeUnavailable /\ r = E_NOT_POSSIBLE
           /\ Report(<<>>)
           /\ UNCHANGED elements
        \/ /\ connection[m] # "CONNECTED" /\ r = E_OK
           /\ Commands(s) = SetupCommands(m)
           /\ connection' = [connection EXCEPT ![m] = "CONNECTING"]
           /\ Report(IF connection[m] # "CONNECTING" THEN <<m>> ELSE <<>>)
           /\ UNCHANGED <<transitions, dangling, segment, source, oldState, selected,
                          disposable, up>>

\* CAmMainConnectionActionDisconnect
McDisconnectExecute(n, s, r) ==
    LET m == Subject[n]
    IN  /\ r = E_OK
        /\ Commands(s) = TeardownCommands(n)
        /\ connection' = [connection EXCEPT ![m] = "DISCONNECTING"]
        /\ Report(IF connection[m] # "DISCONNECTING" THEN <<m>> ELSE <<>>)
        /\ UNCHANGED <<transitions, dangling, segment, source, oldState, selected,
                       disposable, up>>

Execute(n, s, r) ==
    \/ Kind[n] = "list" /\ Report(<<>>) /\ UNCHANGED elements
    \/ Kind[n] = "connect" /\ ConnectExecute(n, s, r)
    \/ Kind[n] = "disconnect" /\ DisconnectExecute(n, s, r)
    \/ Kind[n] = "mcConnect" /\ McConnectExecute(n, s, r)
    \/ Kind[n] = "mcDisconnect" /\ McDisconnectExecute(n, s, r)

-----------------------------------------------------------------------------
(* _update() and _undo() of the containers *)

Becomes(n, st) == status[n] # st /\ status'[n] = st

\* The end of a transition: the new state is reported and the action unregisters.
MutSettleRegistered(n, c) ==
    /\ connection' = [connection EXCEPT ![Subject[n]] = c]
    /\ Report(<<Subject[n]>>)
    /\ UNCHANGED <<transitions, dangling, segment, source, oldState, selected, disposable, up>>
Settle(n, c) ==
    LET m == Subject[n]
    IN  /\ connection' = [connection EXCEPT ![m] = c]
        /\ Report(<<m>>)
        /\ transitions' = [transitions EXCEPT ![m] = @ \ {n}]
        /\ UNCHANGED <<dangling, segment, source, oldState, selected, disposable, up>>

McConnectUpdate(n) ==
    LET m == Subject[n]
    IN  \/ /\ Becomes(n, "COMPLETED")
           /\ Settle(n, IF source[MainSource(m)] = "ON" THEN "CONNECTED" ELSE "SUSPENDED")
        \/ Becomes(n, "UNDO_COMPLETE") /\ Settle(n, "DISCONNECTED")
        \/ /\ ~Becomes(n, "COMPLETED") /\ ~Becomes(n, "UNDO_COMPLETE")
           /\ Report(<<>>)
           /\ UNCHANGED elements

\* mActionCompleted: what is rolled back has been completed, all its children were.
WasCompleted(n) == \A k \in Elements(children[n]) : status[k] = "UNDO_COMPLETE"

\* A disconnect that is rolled back before it has been completed has nothing to say: in
\* particular it does not unregister.
McDisconnectUpdate(n) ==
    LET over == \/ Becomes(n, "COMPLETED")
                \/ Becomes(n, "UNDO_COMPLETE") /\ WasCompleted(n)
    IN  \/ over /\ Settle(n, StateFromRoute(Subject[n]))
        \/ ~over /\ Report(<<>>) /\ UNCHANGED elements

\* A failed connect takes the connection out of the database, unless it failed because
\* an endpoint was unavailable.
ConnectUpdate(n) ==
    /\ Report(<<>>)
    /\ disposable' = IF Becomes(n, "ERROR_STOPPED") /\ result = E_DATABASE_ERROR
                     THEN [disposable EXCEPT ![n] = FALSE] ELSE disposable
    /\ \/ /\ Becomes(n, "UNDO_COMPLETE") /\ disposable[n]
          /\ \E m \in selected[n] : Dispose(m)
       \/ /\ ~(Becomes(n, "UNDO_COMPLETE") /\ disposable[n] /\ selected[n] # {})
          /\ UNCHANGED <<connection, transitions, dangling, segment>>
    /\ UNCHANGED <<source, oldState, selected, up>>

DisconnectUpdate(n) ==
    LET over == {m \in selected[n] : status'[n] # status[n] /\ PermitsDispose(m)}
    IN  /\ Report(<<>>)
        /\ \/ \E m \in over : Dispose(m)
           \/ over = {} /\ UNCHANGED <<connection, transitions, dangling, segment>>
        /\ selected' = [selected EXCEPT ![n] = @ \ over]
        /\ UNCHANGED <<source, oldState, disposable, up>>

UpdateHook(n) ==
    \/ Kind[n] = "list" /\ Report(<<>>) /\ UNCHANGED elements
    \/ Kind[n] = "connect" /\ ConnectUpdate(n)
    \/ Kind[n] = "disconnect" /\ DisconnectUpdate(n)
    \/ Kind[n] = "mcConnect" /\ McConnectUpdate(n)
    \/ Kind[n] = "mcDisconnect" /\ McDisconnectUpdate(n)

\* Only CAmMainConnectionActionConnect requires an undo of its own.
UndoHook(n) ==
    LET undoes == Kind[n] = "mcConnect" /\ Undoable(n)
    IN  /\ connection' = IF undoes THEN [connection EXCEPT ![Subject[n]] = "DISCONNECTING"]
                         ELSE connection
        /\ Report(IF undoes THEN <<Subject[n]>> ELSE <<>>)
        /\ UNCHANGED <<transitions, dangling, segment, source, oldState, selected,
                       disposable, up>>

-----------------------------------------------------------------------------
(* The hooks of the commands *)

OnlySegment == UNCHANGED <<connection, transitions, dangling, source, oldState, selected,
                           disposable, up>>
Unasked == segment' = segment /\ OnlySegment

\* What _execute() and _undo() send: the request is refused at once, or the command
\* waits for its answer with the segment in transition.
Ask(r, kind, s, c) ==
    \/ r \in Errors[kind] /\ Unasked
    \/ /\ r = E_WAIT_FOR_CHILD_COMPLETION
       /\ segment' = [segment EXCEPT ![s] = c]
       /\ OnlySegment

\* CAmRouteActionConnect::_execute().  What another connection has connected is there.
RouteConnectExecute(s, r) ==
    \/ segment[s] = "CONNECTED" /\ r = E_OK /\ Unasked
    \/ segment[s] # "CONNECTED" /\ MayBeUnavailable /\ r = E_DATABASE_ERROR /\ Unasked
    \/ segment[s] # "CONNECTED" /\ Ask(r, "connect", s, "CONNECTING")

\* CAmRouteActionDisconnect::_execute()
RouteDisconnectExecute(s, r) ==
    \/ segment[s] \in {"DISCONNECTED", "UNKNOWN"} /\ r = E_OK /\ Unasked
    \/ segment[s] \notin {"DISCONNECTED", "UNKNOWN"} /\ Ask(r, "disconnect", s, "DISCONNECTING")

\* The request of a leaf in its present phase.
Asks(l) == CASE Kind[l] = "routeConnect" ->
                   IF status[l] = "UNDOING" THEN "disconnect" ELSE "connect"
             [] Kind[l] = "routeDisconnect" -> "disconnect"
             [] OTHER -> Kind[l]

\* CAmSourceActionSetState::_execute() to the state st.
SourceExecute(l, st, r) ==
    LET now == source[Source[Subject[l]]]
    IN  /\ IF now = st THEN r = E_OK
                       ELSE r \in Errors[Asks(l)] \cup {E_WAIT_FOR_CHILD_COMPLETION}
        /\ oldState' = [oldState EXCEPT ![l] = now]
        /\ UNCHANGED <<connection, transitions, dangling, segment, source, selected,
                       disposable, up>>

LeafExecute(l, r) ==
    \/ Kind[l] = "routeConnect" /\ RouteConnectExecute(Subject[l], r)
    \/ Kind[l] = "routeDisconnect" /\ RouteDisconnectExecute(Subject[l], r)
    \/ Kind[l] = "sourceOn" /\ SourceExecute(l, "ON", r)
    \/ Kind[l] = "sourceOff" /\ SourceExecute(l, "OFF", r)
    \/ Kind[l] = "volume" /\ r \in Errors["volume"] \cup {E_OK, E_WAIT_FOR_CHILD_COMPLETION}
       /\ UNCHANGED elements

\* _undo(): only the commands of a connect require one.
LeafUndo(l, r) ==
    \/ /\ Kind[l] = "routeConnect"
       /\ IF segment[Subject[l]] = "CONNECTED"
          THEN Ask(r, "disconnect", Subject[l], "DISCONNECTING")
          ELSE r = E_OK /\ Unasked
    \/ /\ Kind[l] \in {"sourceOn", "volume"}
       /\ r \in Errors[Asks(l)] \cup {E_WAIT_FOR_CHILD_COMPLETION}
       /\ UNCHANGED elements
    \/ Kind[l] \in {"sourceOff", "routeDisconnect"} /\ UNCHANGED elements

\* The segment after the answer r, which an undo does not look at.
MutAnswered(l, r) == IF r = E_OK THEN "CONNECTED" ELSE "DISCONNECTED"
Answered(l, r) ==
    IF Asks(l) = "connect" <=> r = E_OK THEN "CONNECTED" ELSE "DISCONNECTED"
SegmentAfter(l, r) == IF status[l] = "UNDOING" THEN "DISCONNECTED" ELSE Answered(l, r)

\* The routing side has carried the request out, and the daemon knows the state of the
\* source.
Perform(l) ==
    LET s == Subject[l]
        st == IF Kind[l] = "sourceOff" THEN "OFF"
              ELSE IF status[l] = "UNDOING" THEN oldState[l] ELSE "ON"
    IN  /\ up' = IF Asks(l) = "connect" THEN up \cup {s}
                 ELSE IF Asks(l) = "disconnect" THEN up \ {s} ELSE up
        /\ source' = IF Asks(l) \in {"sourceOn", "sourceOff"}
                     THEN [source EXCEPT ![Source[s]] = st] ELSE source

\* _update() of a command, and what its answer means.
LeafAnswer(l, r) ==
    /\ r \in Errors[Asks(l)] \cup {E_OK}
    /\ IF r = E_OK THEN Perform(l) ELSE UNCHANGED <<up, source>>
    /\ segment' = IF Asks(l) \in {"connect", "disconnect"}
                  THEN [segment EXCEPT ![Subject[l]] = SegmentAfter(l, r)] ELSE segment
    /\ UNCHANGED <<connection, transitions, dangling, oldState, selected, disposable>>

\* The destructor of an action that is still registered leaves its pointer behind.
Forget(n) ==
    /\ dangling' = [m \in Connections |-> dangling[m] \/ n \in transitions[m]]
    /\ transitions' = [m \in Connections |-> transitions[m] \ {n}]
    /\ oldState' = [l \in DOMAIN oldState |-> IF l = n THEN "UNKNOWN" ELSE oldState[l]]
    /\ selected' = [k \in DOMAIN selected |-> IF k = n THEN {} ELSE selected[k]]
    /\ disposable' = [k \in DOMAIN disposable |-> k = n \/ disposable[k]]
    /\ UNCHANGED <<connection, segment, source, up>>

\* hookUserConnectionRequest() creates the connection, hookUserDisconnectionRequest()
\* needs one.
Request(t) ==
    /\ \A m \in Connections : t = DisconnectTrigger[m] => m \in Existing
    /\ connection' = [m \in Connections |->
                         IF t = ConnectTrigger[m] /\ m \notin Existing THEN "UNKNOWN"
                         ELSE connection[m]]
    /\ UNCHANGED <<transitions, dangling, segment, source, oldState, selected, disposable, up>>

-----------------------------------------------------------------------------
(* The engine's actions with their hooks *)

ContainerAction(n) ==
    \/ \E s \in Plans[n], r \in Failures \cup {E_OK} :
          StartContainer(n, s, r) /\ Execute(n, s, r)
    \/ Update(n) /\ UpdateHook(n)
    \/ UndoContainer(n) /\ UndoHook(n)
    \/ /\ \/ ResumeContainer(n) \/ LoopChildren(n) \/ LoopUndo(n)
          \/ CleanupChild(n) \/ CleanupSelf(n)
       /\ UNCHANGED elements

LeafAction(l) ==
    \/ \E r \in Results, spent \in 0 .. MaxTime :
          StartLeaf(l, r, spent) /\ LeafExecute(l, r)
    \/ \E r \in Results : UndoLeaf(l, r) /\ LeafUndo(l, r)
    \/ (ResumeLeaf(l) \/ SkipUndoLeaf(l)) /\ UNCHANGED elements

ConnectionStep ==
    \/ \E n \in Containers : ContainerAction(n)
    \/ \E l \in Leaves : LeafAction(l)
    \/ \E n \in Nodes : Delete(n) /\ Forget(n)
    \/ \E n \in Nodes : (Executed(n) \/ Undone(n)) /\ UNCHANGED elements
    \/ \E t \in Triggers : Dispatch(t) /\ UNCHANGED elements
    \/ Return /\ UNCHANGED elements

ConnectionAnswer(l) ==
    \E q \in handles, r \in Failures \cup {E_OK}, spent \in 0 .. MaxTime :
       q[1] = l /\ Answer(q, r, spent) /\ LeafAnswer(l, r)

ConnectionTimeout(l) == Timeout(l) /\ LeafAnswer(l, E_ABORTED)

ConnectionEvent ==
    \/ \E t \in Triggers : RaiseTrigger(t) /\ Len(queue) < MaxQueued /\ Request(t)
    \/ \E l \in Leaves : ConnectionAnswer(l) \/ ConnectionTimeout(l)
    \/ UnknownAnswer /\ UNCHANGED elements

ConnectionNext == ConnectionStep \/ ConnectionEvent

ConnectionSpec == ConnectionInit /\ [][ConnectionNext]_allVars

\* The engine's fairness, and the routing side does carry out what tears a route down:
\* it may be late or may refuse anything else, whose timer runs.
TeardownAnswer(l) == Asks(l) \in {"disconnect", "sourceOff"} /\ ConnectionAnswer(l)
ConnectionFairness ==
    /\ WF_allVars(ConnectionStep)
    /\ SF_allVars(\E l \in Leaves : ConnectionTimeout(l))
    /\ SF_allVars(\E l \in Leaves : TeardownAnswer(l))
FairConnectionSpec == ConnectionSpec /\ ConnectionFairness

-----------------------------------------------------------------------------
(* Properties *)

\* The elements keep their ranges, and the objects agree with the database: nothing is
\* registered with a connection that has been removed (its element is gone).
ElementsOK ==
    /\ connection \in [Connections -> ConnectionStates]
    /\ transitions \in [Connections -> SUBSET Nodes] /\ dangling \in [Connections -> BOOLEAN]
    /\ segment \in [Segments -> SegmentStates] /\ up \subseteq Segments
    /\ source \in [Sources -> SourceStates]
    /\ oldState \in [Of("sourceOn") \cup Of("sourceOff") -> SourceStates]
    /\ \A m \in Connections \ Existing : transitions[m] = {} /\ ~dangling[m]

\* A connection is CONNECTED only while all its segments are, on the routing side too,
\* and all its sources are ON (include/CAmActionConnect.h:35-38).
InForce(m) == /\ Elements(Route[m]) \subseteq up
              /\ \A r \in Elements(Route[m]) :
                    segment[r] = "CONNECTED" /\ source[Source[r]] \in {"ON", "UNKNOWN"}
ConnectedMeansInForce == \A m \in Connections : connection[m] = "CONNECTED" => InForce(m)

\* Of one class and sink one connection at a time is active: _selectConnection() finds
\* the rivals, those of this list and those of the state changes still to come.
Active == {m \in Connections : connection[m] \in {"CONNECTED", "CONNECTING", "SUSPENDED"}}
OnePerClass == \A m, k \in Active : Class[m] = Class[k] => m = k

\* All the actions are done.
Settled == Idle /\ children[Root] = <<>>

\* Segments of the connections in one of the states cs.
InUse(cs) == UNION {Elements(Route[m]) : m \in {k \in Connections : connection[k] \in cs}}

\* When all the actions are done, the routing side has nothing in force that belongs to
\* no established connection, whatever went wrong on the way (routes of one's own).
RoutesComeDown == Settled => up \subseteq InUse({"CONNECTED", "SUSPENDED"})

\* A disconnect destroys all segments "which are not shared with other connections"
\* (doc/actions.dox:37): nothing is left in force that no connection uses any more, for
\* then nobody can ever disconnect it.
NoSegmentLeftUp == Settled => up \subseteq InUse(ConnectionStates \ {"NONE"})

\* ACTION_DISCONNECT "disconnects a main connection and removes [it] from the database"
\* (doc/routingActions.dox:9), unless a user is waiting to have it connected again.
DisconnectedIsRemoved ==
    \A n \in Of("disconnect") : \A m \in selected[n] :
        status[n] = "COMPLETED" => ConnectTrigger[m] \in Elements(queue)

\* "only ACTION_DISCONNECT removes the connection from the class queue as well as the
\* audio manager daemon database" (include/CAmActionConnect.h:44): the connection a user
\* has been given the ID of is there when his request gets its turn.  Violated: a connect
\* that fails disposes of the connection, too (CAmActionConnect.cpp:144).
RequestedConnectionExists ==
    \A m \in Connections : ConnectTrigger[m] \in Elements(queue) => m \in Existing

\* Every transition of a connection comes to its end.
EveryTransitionEnds ==
    \A m \in Connections :
        connection[m] \in {"CONNECTING", "DISCONNECTING"}
            ~> connection[m] \notin {"CONNECTING", "DISCONNECTING"}
=============================================================================
