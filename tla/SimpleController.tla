--------------------------- MODULE SimpleController ---------------------------
(***************************************************************************)
(* The simple controller, CAmControlSenderBase.  A request of the user     *)
(* for a player, the navigation or a traffic announcement starts a flow, a *)
(* fixed list of steps, and each answer of the routing side, whatever it   *)
(* answers, takes the flow a step further.                                 *)
(*                                                                         *)
(* The handlers call one another (an answer the flow, the flow a           *)
(* disconnect), so the controller is one record, and the functions below   *)
(* give the record after each call.  Errors in answers are ignored by the  *)
(* code and therefore left out.  There is one sink.                        *)
(***************************************************************************)
EXTENDS Integers, Sequences, FiniteSets, SequencesExt

CONSTANTS
    Sources,
    ClassOf,        \* [Sources -> 1..4]: 1 player, 2 navigation, 3 traffic announcement
    SegmentsOf,     \* [Sources -> 1..2]: the length of the route to the sink
    Mains,          \* 1..n: IDs of main connections, in the order they are given out
    RequestHandles, \* 1..k: handles of requests to the routing side
    Volumes,        \* volumes of the sink
    MaxVolumeChanges, \* volume changes under way
    MaxDisconnects, \* disconnects the user may start while others are open
    CallsAreAccepted \* whether the daemon takes every call for a volume or a source state

ASSUME SimpleAssumption ==
    /\ ClassOf \in [Sources -> 1..4]
    /\ SegmentsOf \in [Sources -> 1..2]
    /\ 0 \notin Sources
    /\ RequestHandles \subseteq Nat /\ IsFiniteSet(RequestHandles)
    /\ Volumes # {}
    /\ CallsAreAccepted \in BOOLEAN

VARIABLE
    sc  \* the controller and what it sees of the daemon:
        \*   mains        Seq of [source, state, segments], the main connections by ID; source
        \*                0 for one that is no longer in the database
        \*   requests     [RequestHandles -> kind]: what the routing side is asked for
        \*   connects, disconnects
        \*                mListOpenConnections, mListOpenDisconnections: Seq of [main, open]
        \*   volumes      mListOpenVolumeChanges: Seq of [handle, volume]
        \*   sounds       handles of mListMainSoundPropertyChanges
        \*   mainVolume   the volume of the sink in the database
        \*   flow         mStateflow
        \*   step         mConnectSf, mNaviSf, mTrafficSf: indices into FlowSteps
        \*   old, current, new
        \*                mConnectData.oldSourceID, currentMainConnection, newMainConnection

Flows == {"connect", "navi", "ta"}

\* What the steps of each flow do: ask for volumes or source states, those of the old
\* source apart, connect, disconnect, or nothing.
Announcement == <<"askOld", "connect", "ask", "ask", "wait", "ask", "askOld", "ask", "disconnectNew", "finish">>
FlowSteps == [connect |-> <<"ask", "askOld", "disconnectCurrent", "connect", "ask", "rampUp", "finish">>,
              navi |-> Announcement, ta |-> Announcement]
RampDownAgain == 6  \* NAVC_RAMP_DOWN_AGAIN, TA_RAMP_DOWN_AGAIN

SimpleInit ==
    sc = [mains |-> <<>>, requests |-> [h \in RequestHandles |-> "none"],
          connects |-> <<>>, disconnects |-> <<>>, volumes |-> <<>>, sounds |-> {},
          mainVolume |-> CHOOSE v \in Volumes : TRUE,
          flow |-> "none", step |-> [f \in Flows |-> 1], old |-> 0, current |-> 0, new |-> 0]

-----------------------------------------------------------------------------
(* Calls of the routing side and the lists of open handles *)

FreeHandles(c) == {h \in RequestHandles : c.requests[h] = "none"}
NextHandle(c) == CHOOSE h \in FreeHandles(c) : \A k \in FreeHandles(c) : h <= k
Asked(c, kind) == [c EXCEPT !.requests[NextHandle(c)] = kind]

\* The calls for the n segments of a route take the n lowest handles that are free.
NextHandles(c, n) ==
    CHOOSE H \in SUBSET FreeHandles(c) :
        Cardinality(H) = n /\ \A h \in H, k \in FreeHandles(c) \ H : h < k
AskedForAll(c, kind, H) ==
    [c EXCEPT !.requests = [h \in RequestHandles |-> IF h \in H THEN kind ELSE @[h]]]

\* disconnect(): of a connection that is not in the database there is nothing to do, and
\* one without a route gets an empty list of handles.
Disconnect(c, main) ==
    IF main = 0 \/ c.mains[main].source = 0 THEN c
    ELSE LET open == NextHandles(c, c.mains[main].segments) IN
        [AskedForAll(c, "disconnect", open) EXCEPT
            !.disconnects = Append(@, [main |-> main, open |-> open])]

\* connect()
Connect(c) ==
    LET segments == SegmentsOf[c.mains[c.new].source]
        open == NextHandles(c, segments)
    IN [AskedForAll(c, "connect", open) EXCEPT
            !.connects = Append(@, [main |-> c.new, open |-> open]),
            !.mains[c.new].segments = segments]

-----------------------------------------------------------------------------
(* The flows *)

Goes(c) == [c EXCEPT !.step[c.flow] = @ + 1]
FlowEnds(c) == [c EXCEPT !.flow = "none"]

\* A volume or source state is asked for; what the call returns is not looked at.
AsksOnce(c) == {Goes(Asked(c, "other"))} \cup (IF CallsAreAccepted THEN {} ELSE {Goes(c)})

\* callConnectHandler(), callNaviHandler(), callTAHandler(): the controllers that may come
\* out.  The routing side knows no source 0; it may answer RAMP_UP with E_NO_CHANGE, which is
\* the one refusal that the flow looks at.
DoStep(c) ==
    LET does == FlowSteps[c.flow][c.step[c.flow]] IN
    CASE does = "ask" -> AsksOnce(c)
      [] does = "askOld" -> IF c.old = 0 THEN {Goes(c)} ELSE AsksOnce(c)
      [] does = "disconnectCurrent" -> {Goes(Disconnect(c, c.current))}
      [] does = "disconnectNew" -> {Goes(Disconnect(c, c.new))}
      [] does = "connect" -> {Goes(Connect(c))}
      [] does = "rampUp" -> AsksOnce(c) \cup {FlowEnds(Goes(c))}
      [] does = "wait" -> {Goes(c)}
      [] does = "finish" -> {FlowEnds(c)}

\* callStateFlowHandler()
MutCallFlowNot(c) == {c}
CallFlow(c) == IF c.flow = "none" THEN {c} ELSE DoStep(c)

-----------------------------------------------------------------------------
(* Requests of the user *)

\* Room for the largest number of handles one call takes.
Room(n) == Cardinality(FreeHandles(sc)) >= n

\* Players in the database, whatever the state of their connection.
MutPlayersConnected(c) ==
    {m \in DOMAIN c.mains : c.mains[m].state = "CONNECTED" /\ ClassOf[c.mains[m].source] = 1}
Players(c) == {m \in DOMAIN c.mains : c.mains[m].source # 0 /\ ClassOf[c.mains[m].source] = 1}

\* hookUserConnectionRequest(): the player that is connected, the last one if there are
\* several, is remembered as the one to be replaced.
UserConnects(s) ==
    /\ sc.flow = "none" /\ Room(2) /\ Len(sc.mains) + 1 \in Mains
    /\ \A m \in DOMAIN sc.mains : sc.mains[m].source # s
    /\ LET m == Len(sc.mains) + 1
           existing == Players(sc)
           player == CHOOSE p \in existing : \A q \in existing : q <= p
           flow == CASE ClassOf[s] = 1 -> "connect" [] ClassOf[s] = 2 -> "navi"
                     [] ClassOf[s] = 3 -> "ta" [] OTHER -> "none"
           entered == [sc EXCEPT
                !.mains = Append(@, [source |-> s, state |-> "CONNECTING", segments |-> 0]),
                !.new = m, !.flow = flow,
                !.current = IF existing = {} THEN @ ELSE player,
                !.old = IF existing = {} THEN @ ELSE sc.mains[player].source,
                !.step["connect"] = IF flow = "none" THEN @ ELSE IF existing = {} THEN 4 ELSE 1]
       IN \E c \in CallFlow(entered) : sc' = c

\* hookUserConnectionRequest() for what is connected already: it returns E_ALREADY_EXISTS, but
\* has remembered the last player that it has passed in the list as the one to be replaced.
UserConnectsAgain(s) ==
    /\ sc.flow = "none"
    /\ \E m \in DOMAIN sc.mains :
          LET passed == {p \in Players(sc) : p < m}
              player == CHOOSE p \in passed : \A q \in passed : q <= p
          IN /\ sc.mains[m].source = s
             /\ sc' = IF passed = {} THEN sc
                      ELSE [sc EXCEPT !.current = player, !.old = sc.mains[player].source]

\* hookUserDisconnectionRequest(): during an announcement it ends that, whatever it names.
UserDisconnects(m) ==
    /\ m \in DOMAIN sc.mains /\ Room(2) /\ Len(sc.disconnects) < MaxDisconnects
    /\ \/ /\ sc.flow \in {"navi", "ta"}
          /\ \E c \in DoStep([sc EXCEPT !.step[sc.flow] = RampDownAgain]) : sc' = c
       \/ sc.flow = "none" /\ sc' = Disconnect(sc, m)

\* hookUserVolumeChange(), hookUserVolumeStep()
UserSetsVolume(v) ==
    /\ sc.flow = "none" /\ Room(1)
    /\ sc.volumes = <<>> /\ v # sc.mainVolume
    /\ sc' = [Asked(sc, "volume") EXCEPT
                !.volumes = Append(@, [handle |-> NextHandle(sc), volume |-> v])]

\* hookUserSetSinkMuteState() does not look whether a change is under way.
UserMutes ==
    /\ sc.flow = "none" /\ Room(1) /\ Len(sc.volumes) < MaxVolumeChanges
    /\ sc' = [Asked(sc, "volume") EXCEPT
                !.volumes = Append(@, [handle |-> NextHandle(sc), volume |-> sc.mainVolume])]

\* hookUserSetMainSinkSoundProperty()
UserSetsSound ==
    /\ sc.flow = "none" /\ Room(1) /\ sc.sounds = {}
    /\ sc' = [Asked(sc, "sound") EXCEPT !.sounds = {NextHandle(sc)}]

-----------------------------------------------------------------------------
(* Answers of the routing side *)

\* The handle is ticked off in the lists; the first list that it completes is taken out.
TickedOff(lists, h) == [i \in DOMAIN lists |-> [lists[i] EXCEPT !.open = @ \ {h}]]
Completed(lists, h) == {i \in DOMAIN lists : lists[i].open = {h}}
FirstOf(is) == CHOOSE i \in is : \A j \in is : i <= j

\* cbAckConnect(), cbAckDisconnect(); the database knows nothing of a connection removed.
Acked(c, h, list) ==
    LET done == Completed(c[list], h)
        main == c[list][FirstOf(done)].main
        ticked == [c EXCEPT ![list] = TickedOff(@, h)]
    IN IF done = {} THEN ticked
       ELSE [ticked EXCEPT ![list] = RemoveAt(@, FirstOf(done)),
                !.mains[main] = IF list = "disconnects" THEN [source |-> 0, state |-> "NONE", segments |-> 0]
                                ELSE IF @.source = 0 THEN @ ELSE [@ EXCEPT !.state = "CONNECTED"]]

\* cbAckSetSinkVolumeChange()
VolumeAcked(c, h) ==
    LET mine == {i \in DOMAIN c.volumes : c.volumes[i].handle = h} IN
    IF mine = {} THEN c
    ELSE [c EXCEPT !.volumes = RemoveAt(@, FirstOf(mine)), !.mainVolume = c.volumes[FirstOf(mine)].volume]

\* Any answer but that to a sound property takes the flow further.
RoutingAnswers(h) ==
    /\ sc.requests[h] # "none"
    /\ LET c == [sc EXCEPT !.requests[h] = "none"]
           kind == sc.requests[h]
       IN /\ Room(1)
          /\ IF kind = "sound" THEN sc' = [c EXCEPT !.sounds = @ \ {h}]
             ELSE \E next \in CallFlow(CASE kind = "connect" -> Acked(c, h, "connects")
                                         [] kind = "disconnect" -> Acked(c, h, "disconnects")
                                         [] kind = "volume" -> VolumeAcked(c, h)
                                         [] kind = "other" -> c) : sc' = next

SimpleNext ==
    \/ \E s \in Sources : UserConnects(s) \/ UserConnectsAgain(s)
    \/ \E m \in Mains : UserDisconnects(m)
    \/ \E v \in Volumes : UserSetsVolume(v)
    \/ UserMutes \/ UserSetsSound
    \/ \E h \in RequestHandles : RoutingAnswers(h)

SimpleSpec == SimpleInit /\ [][SimpleNext]_sc

-----------------------------------------------------------------------------
(* Properties *)

\* Where an announcement waits for the user to end it.
Held == sc.flow \in {"navi", "ta"} /\ sc.step[sc.flow] = RampDownAgain

\* A flow only ever goes on with an answer, so one must be due: as many answers as have
\* come too early for the step they were meant for are still to come.  (An announcement
\* without a player to come back to asks for the state of source 0 and gets none.)
FlowGoesOn ==
    sc.flow # "none" /\ ~Held /\ (sc.flow # "connect" => sc.old # 0)
        => \E h \in RequestHandles : sc.requests[h] \notin {"none", "sound"}

\* When all is quiet one player is left, however the answers of earlier requests have
\* hurried the flows along.
OnePlayerLeft ==
    sc.flow = "none" /\ (\A h \in RequestHandles : sc.requests[h] = "none")
        => Cardinality(Players(sc)) <= 1

\* Every list of open handles will be completed by an answer.  (Violated: the answer to another
\* request takes the flow further.)
NoListLeftOver ==
    \A lists \in {sc.connects, sc.disconnects} : \A i \in DOMAIN lists : lists[i].open # {}

\* The player's source is switched on when its route is up.  (Violated for the same reason.)
SourceOnAfterRoute ==
    sc.flow = "connect" /\ sc.step["connect"] > 5
        => \A i \in DOMAIN sc.connects : sc.connects[i].main # sc.new
=============================================================================
