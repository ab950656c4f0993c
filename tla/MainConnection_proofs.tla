----------------------- MODULE MainConnection_proofs -----------------------
(***************************************************************************)
(* Theorems about MainConnection, for every set of connections, routes and *)
(* actions.                                                                *)
(***************************************************************************)
EXTENDS MainConnection, ActionEngine_proofs, WellFoundedInduction, NaturalsInduction

-----------------------------------------------------------------------------
(* The engine below the connections *)

LEMMA ContainerActionIsStep ==
    ASSUME NEW n \in Containers, ContainerAction(n)
    PROVE  Step
BY DEF ContainerAction, ContainerStep, Step

LEMMA LeafActionIsStep ==
    ASSUME NEW l \in Leaves, LeafAction(l)
    PROVE  Step
BY DEF LeafAction, LeafStep, Step

LEMMA ConnectionStepIsStep == ConnectionStep => Step
BY ContainerActionIsStep, LeafActionIsStep DEF ConnectionStep, Step

LEMMA ConnectionEventIsEvent == TypeOK /\ ConnectionEvent => Event
<1> SUFFICES ASSUME TypeOK, ConnectionEvent PROVE Event
  OBVIOUS
<1>1. CASE \E t \in Triggers : RaiseTrigger(t) /\ Len(queue) < MaxQueued /\ Request(t)
  BY <1>1 DEF Event
<1>2. ASSUME NEW l \in Leaves, ConnectionAnswer(l) PROVE Event
  BY <1>2 DEF ConnectionAnswer, TypeOK, Event
<1>3. ASSUME NEW l \in Leaves, ConnectionTimeout(l) PROVE Event
  BY <1>3 DEF ConnectionTimeout, Event
<1>4. CASE UnknownAnswer /\ UNCHANGED elements
  BY <1>4 DEF Event
<1>5. QED
  BY <1>1, <1>2, <1>3, <1>4 DEF ConnectionEvent

LEMMA ConnectionNextIsNext == TypeOK /\ [ConnectionNext]_allVars => [Next]_vars
<1>1. TypeOK /\ ConnectionNext => Next
  BY ConnectionStepIsStep, ConnectionEventIsEvent DEF ConnectionNext, Next
<1>2. QED
  BY <1>1 DEF allVars

LEMMA ConnectionTypeCorrect == ConnectionSpec => []TypeOK
<1>1. ConnectionInit => TypeOK
  BY InitTypeOK DEF ConnectionInit
<1>2. TypeOK /\ [Next]_vars => TypeOK'
  <2>1. TypeOK /\ UNCHANGED vars => TypeOK'
    BY DEF TypeOK, vars, tree, links, feed
  <2>2. QED
    BY <2>1, StepTypeOK, EventTypeOK DEF Next
<1>3. QED
  BY <1>1, <1>2, ConnectionNextIsNext, PTL DEF ConnectionSpec

\* The actions of main connections use the engine as it is: each of their steps is a step
\* of the engine, so all that holds of the engine for every plan holds here.
THEOREM ConnectionsRunOnEngine == ConnectionSpec => Spec
<1>1. ConnectionInit => Init
  BY DEF ConnectionInit
<1>2. QED
  BY <1>1, ConnectionTypeCorrect, ConnectionNextIsNext, PTL DEF ConnectionSpec, Spec

\* No answer and no timer reaches a command of a connection that does not wait for it
\* (CAmHandleStore::notifyAsyncResult).
THEOREM ConnectionStoresAgree == ConnectionSpec => []HandlesMatchWaitingLeaves
BY ConnectionsRunOnEngine, StoresAgree, PTL

\* A user's connection or disconnection is never left half done while nothing is waited for:
\* when iterateActions() returns, a command waits for its answer or all triggers are handled.
THEOREM ConnectionsComplete == ConnectionSpec => []NothingLeftBehind
BY ConnectionsRunOnEngine, HandlersComplete, PTL

-----------------------------------------------------------------------------
(* The elements keep their ranges *)

LEMMA NonemptySetHasMin ==
    ASSUME NEW S, S \subseteq Nat, S # {}
    PROVE  Min(S) \in S
<1>1. PICK x \in S : \A y \in S : ~(<<y, x>> \in OpToRel(<, Nat))
  BY NatLessThanWellFounded, WFMin
<1>2. ASSUME NEW y \in S
      PROVE  ~(y < x)
  <2>1. y \in Nat /\ x \in Nat /\ <<y, x>> \in Nat \X Nat
    OBVIOUS
  <2>2. QED
    BY <1>1, <2>1, Zenon DEF OpToRel
<1>3. \A y \in S : x =< y
  BY <1>2
<1>4. QED
  BY <1>3 DEF Min

\* updateState() never invents a state.
LEMMA StateFromRouteIsState ==
    ASSUME ElementsOK, NEW m \in Connections
    PROVE  StateFromRoute(m) \in ConnectionStates \ {"NONE"}
<1> DEFINE open == {i \in DOMAIN Route[m] : segment[Route[m][i]] # "CONNECTED"}
<1>1. Route[m] \in Seq(Segments)
  BY RouteAssumption
<1>2. ASSUME open # {}
      PROVE  segment[Route[m][Min(open)]] \in SegmentStates
  <2>1. open \subseteq Nat
    BY <1>1
  <2>2. Min(open) \in open
    BY <1>2, <2>1, NonemptySetHasMin
  <2>3. Min(open) \in 1 .. Len(Route[m])
    BY <1>1, <2>2
  <2>4. Route[m][Min(open)] \in Segments
    BY <1>1, <2>3, ElementOfSeq
  <2>5. QED
    BY <2>4 DEF ElementsOK
<1>3. QED
  BY <1>2 DEF StateFromRoute, SegmentStates, ConnectionStates

LEMMA RequestElements ==
    ASSUME ElementsOK, NEW t \in Triggers, Request(t)
    PROVE  ElementsOK'
BY DEF Request, ElementsOK, Existing, ConnectionStates

LEMMA SettleElements ==
    ASSUME ElementsOK, NEW n \in Containers, Kind[n] # "list",
           NEW c \in ConnectionStates \ {"NONE"}, Settle(n, c)
    PROVE  ElementsOK'
<1>1. Subject[n] \in Connections
  BY ActionAssumption
<1>2. QED
  BY <1>1 DEF Settle, ElementsOK, Existing

LEMMA DisposeElements ==
    ASSUME ElementsOK, NEW m, Dispose(m), UNCHANGED <<source, oldState, up>>
    PROVE  ElementsOK'
<1>1. connection' \in [Connections -> ConnectionStates]
  BY DEF Dispose, ElementsOK, ConnectionStates
<1>2. segment' \in [Segments -> SegmentStates]
  BY DEF Dispose, ElementsOK, SegmentStates
<1>3. transitions' \in [Connections -> SUBSET Nodes] /\ dangling' \in [Connections -> BOOLEAN]
  BY DEF Dispose, ElementsOK
<1>4. \A k \in Connections : k \notin Existing' => transitions'[k] = {} /\ ~dangling'[k]
  BY DEF Dispose, ElementsOK, Existing
<1>5. QED
  BY <1>1, <1>2, <1>3, <1>4 DEF ElementsOK

LEMMA UpdateHookElements ==
    ASSUME ElementsOK, NEW n \in Containers, UpdateHook(n)
    PROVE  ElementsOK'
<1>1. UNCHANGED elements => ElementsOK'
  BY DEF elements, ElementsOK, Existing
<1>2. CASE Kind[n] = "connect" /\ ConnectUpdate(n)
  <2>1. CASE \E m \in selected[n] : Dispose(m)
    BY <1>2, <2>1, DisposeElements DEF ConnectUpdate
  <2>2. CASE UNCHANGED <<connection, transitions, dangling, segment>>
    BY <1>2, <2>2 DEF ConnectUpdate, ElementsOK, Existing
  <2>3. QED
    BY <1>2, <2>1, <2>2 DEF ConnectUpdate
<1>3. CASE Kind[n] = "disconnect" /\ DisconnectUpdate(n)
  <2>1. CASE \E m : Dispose(m)
    BY <1>3, <2>1, DisposeElements DEF DisconnectUpdate
  <2>2. CASE UNCHANGED <<connection, transitions, dangling, segment>>
    BY <1>3, <2>2 DEF DisconnectUpdate, ElementsOK, Existing
  <2>3. QED
    BY <1>3, <2>1, <2>2 DEF DisconnectUpdate
<1>4. CASE Kind[n] = "mcConnect" /\ McConnectUpdate(n)
  <2>1. {"CONNECTED", "SUSPENDED", "DISCONNECTED"} \subseteq ConnectionStates \ {"NONE"}
    BY DEF ConnectionStates
  <2>2. CASE UNCHANGED elements
    BY <1>1, <2>2
  <2>3. CASE \E c \in {"CONNECTED", "SUSPENDED", "DISCONNECTED"} : Settle(n, c)
    BY <1>4, <2>1, <2>3, SettleElements
  <2>4. QED
    BY <1>4, <2>2, <2>3 DEF McConnectUpdate
<1>5. CASE Kind[n] = "mcDisconnect" /\ McDisconnectUpdate(n)
  <2>1. Subject[n] \in Connections
    BY <1>5, ActionAssumption
  <2>2. CASE UNCHANGED elements
    BY <1>1, <2>2
  <2>3. CASE Settle(n, StateFromRoute(Subject[n]))
    BY <1>5, <2>1, <2>3, StateFromRouteIsState, SettleElements
  <2>4. QED
    BY <1>5, <2>2, <2>3 DEF McDisconnectUpdate
<1>6. QED
  BY <1>1, <1>2, <1>3, <1>4, <1>5 DEF UpdateHook

LEMMA UndoHookElements ==
    ASSUME ElementsOK, NEW n \in Containers, UndoHook(n)
    PROVE  ElementsOK'
BY DEF UndoHook, ElementsOK, Existing, ConnectionStates

\* Each child that registers with a connection is about one that the hook has named.
LEMMA RegisterElements ==
    ASSUME ElementsOK, NEW n \in Containers, NEW s \in Plans[n], NEW S,
           \A i \in DOMAIN s : Kind[s[i]] \in {"mcConnect", "mcDisconnect"} => Subject[s[i]] \in S,
           connection' \in [Connections -> ConnectionStates], Existing \cup S \subseteq Existing',
           Register(s), UNCHANGED <<dangling, segment, source, oldState, up>>
    PROVE  ElementsOK'
<1>1. \A i \in DOMAIN s : s[i] \in Nodes
  BY PlanFacts DEF Elements
<1>2. transitions' \in [Connections -> SUBSET Nodes]
  BY <1>1 DEF Register, ElementsOK
<1>3. ASSUME NEW m \in Connections, m \notin Existing'
      PROVE  transitions'[m] = {} /\ ~dangling'[m]
  <2>1. m \notin Existing /\ m \notin S
    BY <1>3
  <2>2. transitions[m] = {} /\ ~dangling[m]
    BY <2>1 DEF ElementsOK
  <2>3. \A i \in DOMAIN s : ~(Kind[s[i]] \in {"mcConnect", "mcDisconnect"} /\ Subject[s[i]] = m)
    BY <2>1
  <2>4. QED
    BY <2>2, <2>3 DEF Register
<1>4. QED
  BY <1>2, <1>3 DEF ElementsOK

LEMMA CommandsFrom ==
    ASSUME NEW n \in Containers, NEW s \in Plans[n], NEW T, Commands(s) \in Seq(T),
           NEW i \in DOMAIN s
    PROVE  <<Kind[s[i]], Subject[s[i]]>> \in T
<1>1. i \in DOMAIN Commands(s) /\ Commands(s)[i] = <<Kind[s[i]], Subject[s[i]]>>
  BY DEF Commands
<1>2. i \in 1 .. Len(Commands(s))
  BY <1>1, LenProperties
<1>3. QED
  BY <1>1, <1>2, ElementOfSeq

LEMMA ConnectExecuteElements ==
    ASSUME ElementsOK, NEW n \in Containers, Kind[n] # "list", NEW s \in Plans[n], NEW r,
           ConnectExecute(n, s, r)
    PROVE  ElementsOK'
<1> DEFINE m == Subject[n]
           now == IF m \in Existing THEN connection ELSE [connection EXCEPT ![m] = "UNKNOWN"]
           peers == {k \in Connections : Class[k] = Class[m]}
           rivals == {k \in peers : Conflicting(now[k])}
           fresh == {k \in peers : now[k] = "UNKNOWN"}
           picked == \A k \in rivals : k = m /\ now[m] = "SUSPENDED"
           outs == IF rivals # {} /\ fresh # {} THEN {<<k>> : k \in fresh} ELSE {<<>>}
           tail == IF picked THEN <<<<"volume", m>>, <<"mcConnect", m>>>> ELSE <<>>
<1>1. m \in Connections
  BY ActionAssumption
<1>2. CASE UNCHANGED elements
  BY <1>2 DEF elements, ElementsOK, Existing
<1>3. ASSUME NEW out \in outs,
             Commands(s) = ForEach("mcDisconnect", out) \o tail,
             connection' = [k \in Connections |->
                 IF k \in Elements(out) THEN "DISCONNECTING"
                 ELSE IF picked /\ k = m /\ ConnectBegins(now[m]) THEN "CONNECTING"
                 ELSE now[k]],
             Register(s), UNCHANGED <<dangling, segment, source, oldState, up>>
      PROVE  ElementsOK'
  <2>1. now \in [Connections -> ConnectionStates]
    BY <1>1 DEF ElementsOK, ConnectionStates
  <2>2. connection' \in [Connections -> ConnectionStates]
    BY <1>3, <2>1 DEF ConnectionStates
  <2>3. Elements(out) \subseteq fresh
    BY <1>3 DEF Elements
  <2>4. Existing \cup (Elements(out) \cup {m}) \subseteq Existing'
    BY <1>1, <1>3, <2>3 DEF ElementsOK, Existing
  <2> DEFINE T == ({"mcDisconnect"} \X Elements(out)) \cup {<<"volume", m>>, <<"mcConnect", m>>}
  <2>5. ForEach("mcDisconnect", out) \in Seq(T)
    <3>1. CASE out = <<>>
      BY <3>1, EmptySeq DEF ForEach
    <3>2. ASSUME NEW k \in fresh, out = <<k>>
          PROVE  ForEach("mcDisconnect", out) \in Seq(T)
      <4>1. k \in Elements(out) /\ ForEach("mcDisconnect", out) = <<<<"mcDisconnect", k>>>>
        BY <3>2 DEF Elements, ForEach
      <4>2. QED
        BY <4>1
    <3>3. QED
      BY <1>3, <3>1, <3>2
  <2>6. tail \in Seq(T)
    <3>1. <<"volume", m>> \in T /\ <<"mcConnect", m>> \in T
      OBVIOUS
    <3>2. <<<<"volume", m>>, <<"mcConnect", m>>>> \in Seq(T)
      <4> HIDE DEF T
      <4>1. QED
        BY <3>1
    <3>3. QED
      BY <3>2, EmptySeq
  <2>7. Commands(s) \in Seq(T)
    <3>1. Commands(s) = ForEach("mcDisconnect", out) \o tail
      BY <1>3
    <3> HIDE DEF T, tail
    <3>2. QED
      BY <3>1, <2>5, <2>6, ConcatProperties
  <2>8. \A i \in DOMAIN s : <<Kind[s[i]], Subject[s[i]]>> \in T
    BY <2>7, CommandsFrom
  <2>9. \A i \in DOMAIN s : Kind[s[i]] \in {"mcConnect", "mcDisconnect"}
                               => Subject[s[i]] \in Elements(out) \cup {m}
    BY <2>8
  <2>10. QED
    BY <1>3, <2>2, <2>4, <2>9, RegisterElements
<1>4. QED
  BY <1>2, <1>3 DEF ConnectExecute

LEMMA DisconnectExecuteElements ==
    ASSUME ElementsOK, NEW n \in Containers, Kind[n] # "list", NEW s \in Plans[n], NEW r,
           DisconnectExecute(n, s, r)
    PROVE  ElementsOK'
<1> DEFINE m == Subject[n]
           picked == connection[m] \in DisconnectStates
           S == IF picked THEN {m} ELSE {}
           T == {"mcDisconnect"} \X S
<1>1. m \in Connections
  BY ActionAssumption
<1>2. connection' \in [Connections -> ConnectionStates]
  BY <1>1 DEF DisconnectExecute, ElementsOK, ConnectionStates
<1>3. Existing \cup S \subseteq Existing'
  <2>1. picked => m \in Existing
    BY <1>1, RouteAssumption DEF Existing
  <2>2. QED
    BY <1>1, <2>1 DEF DisconnectExecute, ElementsOK, Existing
<1>4. Commands(s) \in Seq(T)
  <2>1. CASE picked
    BY <2>1 DEF DisconnectExecute
  <2>2. CASE ~picked
    BY <2>2, EmptySeq DEF DisconnectExecute
  <2>3. QED
    BY <2>1, <2>2
<1>5. \A i \in DOMAIN s : Kind[s[i]] \in {"mcConnect", "mcDisconnect"} => Subject[s[i]] \in S
  <2>1. \A i \in DOMAIN s : <<Kind[s[i]], Subject[s[i]]>> \in T
    BY <1>4, CommandsFrom
  <2>2. QED
    BY <2>1
<1>6. QED
  BY <1>2, <1>3, <1>5, RegisterElements DEF DisconnectExecute

LEMMA ExecuteElements ==
    ASSUME ElementsOK, NEW n \in Containers, NEW s \in Plans[n], NEW r, Execute(n, s, r)
    PROVE  ElementsOK'
<1>1. CASE UNCHANGED elements
  BY <1>1 DEF elements, ElementsOK, Existing
<1>2. CASE Kind[n] = "connect" /\ ConnectExecute(n, s, r)
  BY <1>2, ConnectExecuteElements
<1>3. CASE Kind[n] = "disconnect" /\ DisconnectExecute(n, s, r)
  BY <1>3, DisconnectExecuteElements
<1>4. CASE Kind[n] = "mcConnect" /\ McConnectExecute(n, s, r)
  BY <1>1, <1>4 DEF McConnectExecute, ElementsOK, Existing, ConnectionStates
<1>5. CASE Kind[n] = "mcDisconnect" /\ McDisconnectExecute(n, s, r)
  BY <1>5 DEF McDisconnectExecute, ElementsOK, Existing, ConnectionStates
<1>6. QED
  BY <1>1, <1>2, <1>3, <1>4, <1>5 DEF Execute

LEMMA ForgetElements ==
    ASSUME ElementsOK, NEW n \in Nodes, Forget(n)
    PROVE  ElementsOK'
<1>1. transitions' \in [Connections -> SUBSET Nodes]
  BY DEF Forget, ElementsOK
<1>2. dangling' \in [Connections -> BOOLEAN]
  BY DEF Forget, ElementsOK
<1>3. oldState' \in [Of("sourceOn") \cup Of("sourceOff") -> SourceStates]
  BY DEF Forget, ElementsOK, SourceStates
<1>4. \A m \in Connections : m \notin Existing' => transitions'[m] = {} /\ ~dangling'[m]
  BY DEF Forget, ElementsOK, Existing
<1>5. QED
  BY <1>1, <1>2, <1>3, <1>4 DEF Forget, ElementsOK

LEMMA SegmentElements ==
    ASSUME ElementsOK, UNCHANGED <<connection, transitions, dangling, source, oldState, up>>,
           segment' \in [Segments -> SegmentStates]
    PROVE  ElementsOK'
BY DEF ElementsOK, Existing

LEMMA LeafExecuteElements ==
    ASSUME ElementsOK, NEW l \in Leaves, NEW r, LeafExecute(l, r)
    PROVE  ElementsOK'
<1>1. ASSUME NEW s \in Segments, NEW kind, NEW c \in SegmentStates,
             Unasked \/ Ask(r, kind, s, c)
      PROVE  ElementsOK'
  BY <1>1, SegmentElements DEF Ask, Unasked, OnlySegment, ElementsOK
<1>2. CASE Kind[l] = "routeConnect" /\ RouteConnectExecute(Subject[l], r)
  BY <1>1, <1>2, ActionAssumption DEF RouteConnectExecute, SegmentStates
<1>3. CASE Kind[l] = "routeDisconnect" /\ RouteDisconnectExecute(Subject[l], r)
  BY <1>1, <1>3, ActionAssumption DEF RouteDisconnectExecute, SegmentStates
<1>4. ASSUME Kind[l] # "volume", NEW st, SourceExecute(l, st, r)
      PROVE  ElementsOK'
  <2>1. source[Source[Subject[l]]] \in SourceStates
    BY <1>4, ActionAssumption DEF ElementsOK, Sources
  <2>2. QED
    BY <1>4, <2>1 DEF SourceExecute, ElementsOK, Existing
<1>5. CASE UNCHANGED elements
  BY <1>5 DEF elements, ElementsOK, Existing
<1>6. QED
  BY <1>2, <1>3, <1>4, <1>5 DEF LeafExecute

LEMMA LeafUndoElements ==
    ASSUME ElementsOK, NEW l \in Leaves, NEW r, LeafUndo(l, r)
    PROVE  ElementsOK'
<1>1. CASE UNCHANGED elements
  BY <1>1 DEF elements, ElementsOK, Existing
<1>2. CASE Kind[l] = "routeConnect" /\ (Unasked \/ Ask(r, "disconnect", Subject[l], "DISCONNECTING"))
  BY <1>2, SegmentElements DEF Ask, Unasked, OnlySegment, ElementsOK, SegmentStates
<1>3. QED
  BY <1>1, <1>2 DEF LeafUndo

LEMMA LeafAnswerElements ==
    ASSUME ElementsOK, NEW l \in Leaves, NEW r, LeafAnswer(l, r)
    PROVE  ElementsOK'
<1>1. segment' \in [Segments -> SegmentStates]
  BY DEF LeafAnswer, SegmentAfter, Answered, ElementsOK, SegmentStates
<1>2. up' \subseteq Segments
  <2>1. Asks(l) = "connect" => Subject[l] \in Segments
    BY ActionAssumption DEF Asks
  <2>2. QED
    BY <2>1 DEF LeafAnswer, Perform, ElementsOK
<1>3. source' \in [Sources -> SourceStates]
  <2>1. Asks(l) \in {"sourceOn", "sourceOff"} => oldState[l] \in SourceStates
    <3>1. Asks(l) \in {"sourceOn", "sourceOff"} => l \in Of("sourceOn") \cup Of("sourceOff")
      BY ActionAssumption, NodeFacts DEF Asks, Of
    <3>2. QED
      BY <3>1 DEF ElementsOK
  <2>2. CASE UNCHANGED source
    BY <2>2 DEF ElementsOK
  <2>3. CASE Asks(l) \in {"sourceOn", "sourceOff"} /\ Perform(l)
    BY <2>1, <2>3 DEF Perform, ElementsOK, SourceStates
  <2>4. QED
    BY <2>2, <2>3 DEF LeafAnswer, Perform
<1>4. QED
  BY <1>1, <1>2, <1>3 DEF LeafAnswer, ElementsOK, Existing

LEMMA ConnectionInitElements == ConnectionInit => ElementsOK
<1> SUFFICES ASSUME ConnectionInit PROVE ElementsOK
  OBVIOUS
<1>1. connection \in [Connections -> ConnectionStates] /\ segment \in [Segments -> SegmentStates]
  BY DEF ConnectionInit, ConnectionStates, SegmentStates
<1>2. source \in [Sources -> SourceStates]
  BY DEF ConnectionInit, SourceStates
<1>3. oldState \in [Of("sourceOn") \cup Of("sourceOff") -> SourceStates]
  BY DEF ConnectionInit, SourceStates
<1>4. QED
  BY <1>1, <1>2, <1>3 DEF ConnectionInit, ElementsOK

\* A hook that finds the objects in their ranges leaves them there, and an object that
\* leaves the database takes all that is registered with it along
\* (CAmClassElement::disposeConnection).
THEOREM ElementsCorrect == ConnectionSpec => []ElementsOK
<1>1. ASSUME ElementsOK, UNCHANGED elements PROVE ElementsOK'
  BY <1>1 DEF elements, ElementsOK, Existing
<1>2. ASSUME ElementsOK, NEW n \in Containers, ContainerAction(n) PROVE ElementsOK'
  BY <1>1, <1>2, ExecuteElements, UpdateHookElements, UndoHookElements DEF ContainerAction
<1>3. ASSUME ElementsOK, NEW l \in Leaves, LeafAction(l) PROVE ElementsOK'
  BY <1>1, <1>3, LeafExecuteElements, LeafUndoElements DEF LeafAction
<1>4. ASSUME ElementsOK, ConnectionStep PROVE ElementsOK'
  BY <1>1, <1>2, <1>3, <1>4, ForgetElements DEF ConnectionStep
<1>5. ASSUME ElementsOK, ConnectionEvent PROVE ElementsOK'
  BY <1>1, <1>5, RequestElements, LeafAnswerElements
     DEF ConnectionEvent, ConnectionAnswer, ConnectionTimeout
<1>6. ElementsOK /\ [ConnectionNext]_allVars => ElementsOK'
  BY <1>1, <1>4, <1>5 DEF ConnectionNext, allVars
<1>7. QED
  BY <1>6, ConnectionInitElements, PTL DEF ConnectionSpec
=============================================================================
