-------------------------- MODULE MCMainConnection --------------------------
(***************************************************************************)
(* Two main connections below the action engine.  An action is named by    *)
(* what it is, what it is about, and where it stands: below the trigger    *)
(* <<"connect", m>> or <<"disconnect", m>> of a user.  Each policy answers *)
(* its trigger with one action.                                            *)
(***************************************************************************)
EXTENDS MainConnection, TLC

MCRoot == <<"list", "root", <<>>>>
MCConnections == {"m1", "m2"}
MCSegments == UNION {Elements(Route[m]) : m \in Connections}

UserTriggers == {"connect", "disconnect"} \X Connections
MCTriggers == UserTriggers \cup {"state"} \X Connections

List(t) == <<"list", t[2], t>>
Action(t) == <<t[1], t[2], t>>
McConnect(m) == <<"mcConnect", m, <<"connect", m>>>>
McDisconnect(k, t) == <<"mcDisconnect", k, t>>
Volume(m) == <<"volume", m, <<"connect", m>>>>
Setup(m, kind, rs) == [i \in DOMAIN rs |-> <<kind, rs[i], <<m>>>>]
Teardown(k, t, kind, rs) == [i \in DOMAIN rs |-> <<kind, rs[i], <<k>> \o t>>]

Peers(m) == {k \in Connections : Class[k] = Class[m]}
Disconnects == {<<k, t>> \in Connections \X UserTriggers :
                IF t[1] = "connect" THEN k \in Peers(t[2]) ELSE k = t[2]}

\* The children an action may get, in every order the code may append them in.
SetupPlan(m) ==
    LET rs == Reverse(Route[m])
        Stateful(r) == Source[r] \notin Stateless
    IN  Setup(m, "routeConnect", rs) \o Setup(m, "sourceOn", SelectSeq(rs, Stateful))
TeardownPlans(k, t) ==
    LET rs == IF t[1] = "connect" THEN Reverse(Route[k]) ELSE Route[k]
        Pick(A) == LET In(r) == r \in A IN SelectSeq(rs, In)
    IN  {Teardown(k, t, "sourceOff", Pick(A)) \o Teardown(k, t, "routeDisconnect", Pick(B)) :
            A \in SUBSET {r \in Elements(rs) : Source[r] \notin Stateless},
            B \in SUBSET Elements(rs)}
ConnectPlans(m) ==
    {p \o q : p \in {<<>>} \cup {<<McDisconnect(k, <<"connect", m>>)>> : k \in Peers(m)},
              q \in {<<>>, <<Volume(m), McConnect(m)>>}}

MCPlans ==
    MCRoot :> {<<>>}
    @@ [n \in {List(t) : t \in UserTriggers} |-> {<<Action(n[3])>>}]
    @@ [n \in {Action(t) : t \in UserTriggers} |->
           IF n[1] = "connect" THEN ConnectPlans(n[2])
           ELSE {<<>>, <<McDisconnect(n[2], n[3])>>}]
    @@ [n \in {McConnect(m) : m \in Connections} |-> {<<>>, SetupPlan(n[2])}]
    @@ [n \in {McDisconnect(d[1], d[2]) : d \in Disconnects} |-> TeardownPlans(n[2], n[3])]

MCContainers == DOMAIN MCPlans
ChildrenOf(n) == UNION {Elements(s) : s \in MCPlans[n]}
                 \cup IF n = MCRoot THEN {List(t) : t \in UserTriggers} ELSE {}
MCLeaves == UNION {ChildrenOf(n) : n \in MCContainers} \ MCContainers
MCNodes == MCContainers \cup MCLeaves
MCParent == [n \in MCNodes \ {MCRoot} |-> CHOOSE p \in MCContainers : n \in ChildrenOf(p)]
MCKind == [n \in MCNodes |-> n[1]]
MCSubject == [n \in MCNodes |-> n[2]]

MCUndoRequired ==
    {n \in MCNodes : n[1] \in {"mcConnect", "routeConnect", "sourceOn", "volume"}}

\* Durations play no part here: any request of an action may expire or not.
MCTimeouts == [n \in MCNodes |-> IF n[1] \in {"connect", "disconnect"} THEN 0 ELSE -1]

MCPolicyActions == [t \in MCTriggers |-> IF t \in UserTriggers THEN {List(t)} ELSE {}]
MCStateTriggers ==
    [n \in MCContainers |->
        CASE n[1] = "list" -> {}
          [] n[1] = "connect" -> {<<"state", k>> : k \in Peers(n[2])}
          [] OTHER -> {<<"state", n[2]>>}]
MCStateTrigger == [m \in Connections |-> <<"state", m>>]
MCConnectTrigger == [m \in Connections |-> <<"connect", m>>]
MCDisconnectTrigger == [m \in Connections |-> <<"disconnect", m>>]

\* Rivals: two sources of one class, m1 over a gateway.
OneClass == [m \in Connections |-> "playback"]
OwnRoutes == "m1" :> <<"a1", "b1">> @@ "m2" :> <<"a2">>
ShortRoutes == "m1" :> <<"a1">> @@ "m2" :> <<"a2">>
OwnSources == "a1" :> "s1" @@ "b1" :> "g1" @@ "a2" :> "s2"

\* Two classes over one gateway, sharing the segment b from the gateway to the sink.
TwoClasses == "m1" :> "playback" @@ "m2" :> "information"
SharedRoutes == "m1" :> <<"a1", "b">> @@ "m2" :> <<"a2", "b">>
SharedSources == "a1" :> "s1" @@ "a2" :> "s2" @@ "b" :> "g"

AnyState == ConnectionStates \ {"NONE"}

\* Which requests may fail, by an answer or by their timers.
Failing(kinds) ==
    [k \in {"connect", "disconnect", "sourceOn", "sourceOff", "volume", "create"} |->
        IF k \in kinds THEN {E_ABORTED} ELSE {}]
TeardownFails == Failing({"disconnect", "sourceOff"})
TeardownWorks == Failing({"connect", "sourceOn", "volume", "create"})

-----------------------------------------------------------------------------
Life == INSTANCE ConnectionLife WITH state <- connection, inForce <- up

\* The connections lead the life that ConnectionLife allows (CAmMainConnectionElement and
\* the actions that drive it).
ImplementsLife == Life!LifeSpec
=============================================================================
