------------------------------ MODULE Registry ------------------------------
(***************************************************************************)
(* Registration in the generic controller: the hooks by which domains,     *)
(* sinks, sources and gateways come and go (CAmControllerPlugin.cpp), the  *)
(* trigger each of them queues, the implicit actions the policy engine     *)
(* derives from it (CAmPolicyEngine.cpp) and the action that registers     *)
(* what the configuration declares static (CAmSystemActionRegister.cpp).   *)
(*                                                                         *)
(* A hook changes the daemon's database at once, queues its trigger, runs  *)
(* iterateActions() and then does the rest of its work.  The trigger is    *)
(* evaluated within the hook only when no action waits for an answer;      *)
(* otherwise a later hook finds it, with what the elements are by then.    *)
(* Sinks and sources are treated alike: both are "ends".                   *)
(***************************************************************************)
EXTENDS Naturals, Sequences, FiniteSets, SequencesExt

CONSTANTS
  RegDomains,     \* names of domains in the configuration
  StaticDomains,  \* those with registrationType REG_CONTROLLER
  RegEnds,        \* names of sinks and sources
  StaticEnds,     \* those the controller registers itself
  HomeOf,         \* the domain of every end
  GatewayOrder,   \* names of the static gateways, as in the configuration
  GatewayEnds,    \* the source and the sink of every gateway
  GatewaySink,    \* the sink among them
  GatewayHome,    \* its control domain
  NameWithin,     \* pairs <<a, b>> of ends: the name of b contains that of a
  RegConnections, \* main connections of the user
  RouteOf,        \* their segments: records of ends and domain
  AbsentIsOk,     \* the database answers E_OK when what it removes is absent
  MaxHooks        \* bound: calls of hooks

ASSUME RegistryAssumption ==
  /\ StaticDomains \subseteq RegDomains /\ StaticEnds \subseteq RegEnds
  /\ HomeOf \in [RegEnds -> RegDomains]
  /\ NameWithin \subseteq RegEnds \X RegEnds
  /\ GatewayEnds \in [ToSet(GatewayOrder) -> SUBSET RegEnds]
  /\ GatewaySink \in [ToSet(GatewayOrder) -> RegEnds]
  /\ \A g \in ToSet(GatewayOrder) : GatewaySink[g] \in GatewayEnds[g]
  /\ GatewayHome \in [ToSet(GatewayOrder) -> RegDomains]
  /\ RouteOf \in [RegConnections -> Seq([ends : SUBSET RegEnds, home : RegDomains])]
  /\ IsFiniteSet(RegDomains) /\ IsFiniteSet(RegConnections)
  /\ AbsentIsOk \in BOOLEAN /\ MaxHooks \in Nat

VARIABLES
  domains,    \* domains with an element; the database has the same
  ends,       \* ends with an element in the factories of the controller
  endsDb,     \* ends in the daemon's database
  gates,      \* gateways with an element
  gatesDb,    \* gateways in the daemon's database
  linkState,  \* state of every main connection, "none" without an element
  homeless,   \* segments <<c, i>> whose domain identifier was set to 0
  triggers,   \* CAmTriggerQueue::mlistTrigger
  todo,       \* actions the policy engine appended to the root action
  waiting,    \* what waits for an answer of the daemon, "" for nothing
  hook,       \* the hook being run: what it does after iterateActions()
  hooks,      \* number of hooks called
  withdrawn   \* ends whose own deregistration was the last call for them
              \* (observes; the code keeps nothing like it)

registryVars == <<domains, ends, endsDb, gates, gatesDb, linkState, homeless,
                  triggers, todo, waiting, hook, hooks, withdrawn>>
tables == <<domains, ends, endsDb, gates, gatesDb>>

NoHook == [what |-> "none", name |-> "", also |-> {}]
Rest(what, name, also) == [what |-> what, name |-> name, also |-> also]

\* setControllerReady() has created the static domains and queued a trigger
\* for each.
RegistryInit ==
  /\ domains = StaticDomains
  /\ ends = {} /\ endsDb = {} /\ gates = {} /\ gatesDb = {}
  /\ linkState = [c \in RegConnections |-> "none"]
  /\ homeless = {}
  /\ triggers = SetToSeq({<<"domain", d>> : d \in StaticDomains})
  /\ todo = <<>> /\ waiting = ""
  /\ hook = Rest("iterate", "", {})
  /\ hooks = 0 /\ withdrawn = {}

Queue(type, name) == triggers' = Append(triggers, <<type, name>>)
HookBegins == /\ hook.what = "none"
              /\ hooks < MaxHooks /\ hooks' = hooks + 1
              /\ UNCHANGED <<homeless, todo, waiting>>
HookCalled == HookBegins /\ UNCHANGED linkState

MainEnds(c) == RouteOf[c][1].ends \cup RouteOf[c][Len(RouteOf[c])].ends
InDatabase(c) == \A i \in DOMAIN RouteOf[c] : RouteOf[c][i].ends \subseteq endsDb

\* ------------------------------------------------------------------ hooks

\* A static domain is refused: it has been registered before.
RegRegisterDomain(d) ==
  /\ HookCalled /\ d \notin StaticDomains
  /\ domains' = domains \cup {d}
  /\ Queue("domain", d)
  /\ hook' = Rest("iterate", "", {})
  /\ UNCHANGED <<ends, endsDb, gates, gatesDb, withdrawn>>

\* The sinks and sources leave the database before the trigger is evaluated.
RegDeregisterDomain(d) ==
  /\ HookCalled /\ d \in domains \ StaticDomains
  /\ LET mine == {e \in endsDb : HomeOf[e] = d}
     IN  endsDb' = endsDb \ mine /\ hook' = Rest("domain", d, mine)
  /\ Queue("domainGone", d)
  /\ UNCHANGED <<domains, ends, gates, gatesDb, withdrawn>>

\* The factory returns an element that exists under the name as it is, and
\* does not enter it into the database.
RegRegisterEnd(e) ==
  /\ HookCalled /\ HomeOf[e] \in domains /\ e \notin endsDb
  /\ ends' = ends \cup {e}
  /\ endsDb' = IF e \in ends THEN endsDb ELSE endsDb \cup {e}
  /\ Queue("end", e)
  /\ hook' = Rest("iterate", "", {})
  /\ withdrawn' = withdrawn \ {e}
  /\ UNCHANGED <<domains, gates, gatesDb>>

RegDeregisterEnd(e) ==
  /\ HookCalled /\ e \in ends
  /\ endsDb' = endsDb \ {e}
  /\ Queue("endGone", e)
  /\ hook' = Rest("end", e, {})
  /\ withdrawn' = withdrawn \cup {e}
  /\ UNCHANGED <<domains, ends, gates, gatesDb>>

RegRegisterGateway(g) ==
  /\ HookCalled /\ GatewayEnds[g] \subseteq endsDb /\ g \notin gatesDb
  /\ gates' = gates \cup {g}
  /\ gatesDb' = IF g \in gates THEN gatesDb ELSE gatesDb \cup {g}
  /\ Queue("gateway", g)
  /\ hook' = Rest("iterate", "", {})
  /\ UNCHANGED <<domains, ends, endsDb, withdrawn>>

RegDeregisterGateway(g) ==
  /\ HookCalled /\ g \in gates
  /\ gatesDb' = gatesDb \ {g}
  /\ Queue("gatewayGone", g)
  /\ hook' = Rest("gateway", g, {})
  /\ UNCHANGED <<domains, ends, endsDb, gates, withdrawn>>

\* The connection is created before the trigger is queued; without a route of
\* the daemon the request is refused and nothing changes.
RegUserConnects(c) ==
  /\ HookBegins /\ MainEnds(c) \subseteq ends /\ InDatabase(c)
  /\ linkState' = [linkState EXCEPT ![c] = IF @ = "none" THEN "created" ELSE @]
  /\ Queue("connect", c)
  /\ hook' = Rest("iterate", "", {})
  /\ UNCHANGED <<tables, withdrawn>>

RegUserDisconnects(c) ==
  /\ HookCalled /\ linkState[c] # "none"
  /\ Queue("disconnect", c)
  /\ hook' = Rest("iterate", "", {})
  /\ UNCHANGED <<tables, withdrawn>>

\* ------------------------------------------- evaluation of a trigger

\* A main connection is found by the names of its two main ends.
FoundByName(c) == linkState[c] # "none" /\ MainEnds(c) \subseteq ends

\* _getMainConnectionName(): the connections with a route element of the end,
\* which must still have an element itself.
MutUsersOfMain(e) == {c \in RegConnections :
  FoundByName(c) /\ e \in ends /\ e \in RouteOf[c][1].ends}
UsersOf(e) == {c \in RegConnections :
  /\ FoundByName(c) /\ e \in ends
  /\ \E i \in DOMAIN RouteOf[c] : e \in RouteOf[c][i].ends}

UsersOfGateway(g) ==
  IF g \in gates /\ GatewayEnds[g] \subseteq ends
  THEN UNION {UsersOf(e) : e \in GatewayEnds[g]} ELSE {}

\* _domainDeregister(): the gateways, sinks and sources are those the database
\* has at this time; of a gateway only the sink counts.
UsersOfDomain(d) ==
  IF d \notin domains THEN {}
  ELSE UNION ({UsersOf(GatewaySink[g]) : g \in {x \in gates \cap gatesDb : GatewayHome[x] = d}}
              \cup {UsersOf(e) : e \in {x \in endsDb : HomeOf[x] = d}})

SegmentsIn(users, d) ==
  UNION {{<<c, i>> : i \in {j \in DOMAIN RouteOf[c] : RouteOf[c][j].home = d}} :
         c \in users}

Disconnects(users) == SetToSeq({[do |-> "disconnect", conn |-> c] : c \in users})

\* _getListStaticGateways(): names in the parameters of the register action
\* are searched as parts of a string.
StaticGateways(new) ==
  SelectSeq(GatewayOrder, LAMBDA g :
    /\ g \notin gates
    /\ \A e \in GatewayEnds[g] :
         e \in ends \cup new \/ \E b \in new : <<e, b>> \in NameWithin)

Registers(new, d) ==
  LET gws == StaticGateways(new)
  IN  IF new = {} /\ gws = <<>> THEN <<>>
      ELSE <<[do |-> "register", new |-> new, home |-> d, gateways |-> gws]>>

\* _getImplicitActions(), and the policy of a user's request.
ActionsFor(type, name) ==
  CASE type = "domain" -> Registers({e \in StaticEnds : HomeOf[e] = name}, name)
    [] type = "end" -> Registers({}, HomeOf[name])
    [] type = "endGone" -> Disconnects(UsersOf(name))
    [] type = "gatewayGone" -> Disconnects(UsersOfGateway(name))
    [] type = "domainGone" -> Disconnects(UsersOfDomain(name))
    [] type \in {"connect", "disconnect"} -> <<[do |-> type, conn |-> name]>>
    [] OTHER -> <<>>

NothingPending == waiting = "" /\ todo = <<>> /\ triggers = <<>>

\* iterateActions() with nothing left to execute: the next trigger.
TakeTrigger ==
  /\ hook.what # "none" /\ waiting = "" /\ todo = <<>> /\ triggers # <<>>
  /\ LET t == Head(triggers) IN
       /\ todo' = ActionsFor(t[1], t[2])
       /\ homeless' = IF t[1] = "domainGone"
                      THEN homeless \cup SegmentsIn(UsersOfDomain(t[2]), t[2])
                      ELSE homeless
  /\ triggers' = Tail(triggers)
  /\ UNCHANGED <<tables, linkState, waiting, hook, hooks, withdrawn>>

\* --------------------------------------------------------------- actions

Executes(what) ==
  /\ hook.what # "none" /\ waiting = "" /\ todo # <<>> /\ Head(todo).do = what
  /\ todo' = Tail(todo)
  /\ UNCHANGED <<triggers, hook, hooks, domains, withdrawn>>

\* A connection without an element is created, for which the daemon must have a
\* route.  With one, the daemon is asked for each segment, and refuses those with
\* an end it does not know; but a segment another connection uses is not asked for.
ExecuteConnect ==
  /\ Executes("connect")
  /\ LET c == Head(todo).conn IN
       \/ /\ linkState[c] = "created" \/ (linkState[c] = "none" /\ InDatabase(c))
          /\ linkState' = [linkState EXCEPT ![c] = "connecting"] /\ waiting' = c
       \/ /\ linkState[c] = "created" /\ ~InDatabase(c)
          /\ linkState' = [linkState EXCEPT ![c] = "none"] /\ UNCHANGED waiting
       \/ /\ linkState[c] \notin {"none", "created"} \/ (linkState[c] = "none" /\ ~InDatabase(c))
          /\ UNCHANGED <<linkState, waiting>>
  /\ UNCHANGED <<ends, endsDb, gates, gatesDb, homeless>>

\* Segments without a domain are not disconnected, nor are those never connected;
\* sources without a state need no answer either: the action may be over at once.
ExecuteDisconnect ==
  /\ Executes("disconnect")
  /\ LET c == Head(todo).conn IN
       \/ /\ linkState[c] = "none"
          /\ UNCHANGED <<linkState, waiting, homeless>>
       \/ /\ linkState[c] # "none"
          /\ linkState' = [linkState EXCEPT ![c] = "disconnecting"]
          /\ waiting' = c /\ UNCHANGED homeless
       \/ /\ linkState[c] # "none"
          /\ linkState[c] # "created" => \A i \in DOMAIN RouteOf[c] : <<c, i>> \in homeless
          /\ linkState' = [linkState EXCEPT ![c] = "none"]
          /\ homeless' = {s \in homeless : s[1] # c}
          /\ UNCHANGED waiting
  /\ UNCHANGED <<ends, endsDb, gates, gatesDb>>

\* _populateGatewayStruct() refuses a gateway whose domain or ends are unknown
\* and ends the whole action.
Populated(g, known) == GatewayHome[g] \in domains /\ GatewayEnds[g] \subseteq known

RegisteredEnds(a) == IF a.home \in domains THEN a.new \ ends ELSE {}
RegisteredGateways(a) ==
  IF a.new # {} /\ a.home \notin domains THEN {}
  ELSE LET gws == a.gateways
           ok == {i \in DOMAIN gws :
                    \A j \in 1 .. i : Populated(gws[j], ends \cup RegisteredEnds(a))}
       IN  {gws[i] : i \in ok} \ gates

ExecuteRegister ==
  /\ Executes("register")
  /\ LET a == Head(todo) IN
       /\ ends' = ends \cup RegisteredEnds(a)
       /\ endsDb' = endsDb \cup RegisteredEnds(a)
       /\ gates' = gates \cup RegisteredGateways(a)
       /\ gatesDb' = gatesDb \cup RegisteredGateways(a)
  /\ UNCHANGED <<linkState, homeless, waiting>>

\* The daemon answers the connection that waits; a disconnection is assumed to
\* succeed (module MainConnection has the others).
RegAnswer(ok) ==
  /\ hook.what = "none" /\ waiting # ""
  /\ linkState[waiting] = "disconnecting" => ok
  /\ LET up == linkState[waiting] = "connecting" /\ ok
     IN  /\ linkState' = [linkState EXCEPT ![waiting] =
                            IF up THEN "connected" ELSE "none"]
         /\ homeless' = IF up THEN homeless
                        ELSE {s \in homeless : s[1] # waiting}
  /\ waiting' = ""
  /\ hook' = Rest("iterate", "", {})
  /\ UNCHANGED <<tables, triggers, todo, hooks, withdrawn>>

\* ------------------------------------------------- the end of a hook

\* destroyElement(): the element goes only if the database removes it (again).
DestroyedEnds(S) == {e \in S : e \in endsDb \/ AbsentIsOk}
DestroyedGates(S) == {g \in S : g \in gatesDb \/ AbsentIsOk}

HookEnds ==
  /\ hook.what # "none" /\ (waiting # "" \/ NothingPending)
  /\ LET mine == CASE hook.what = "end" -> {hook.name}
                   [] hook.what = "domain" -> hook.also
                   [] OTHER -> {}
         gone == CASE hook.what = "gateway" -> {hook.name}
                   [] hook.what = "domain" ->
                        {g \in gatesDb : GatewayHome[g] = hook.name}
                   [] OTHER -> {}
     IN  /\ ends' = ends \ DestroyedEnds(mine)
         /\ endsDb' = endsDb \ mine
         /\ gates' = gates \ DestroyedGates(gone)
         /\ gatesDb' = gatesDb \ gone
  /\ domains' = IF hook.what = "domain" THEN domains \ {hook.name} ELSE domains
  /\ hook' = NoHook
  /\ UNCHANGED <<linkState, homeless, triggers, todo, waiting, hooks, withdrawn>>

RegistryNext ==
  \/ \E d \in RegDomains : RegRegisterDomain(d) \/ RegDeregisterDomain(d)
  \/ \E e \in RegEnds : RegRegisterEnd(e) \/ RegDeregisterEnd(e)
  \/ \E g \in ToSet(GatewayOrder) : RegRegisterGateway(g) \/ RegDeregisterGateway(g)
  \/ \E c \in RegConnections : RegUserConnects(c) \/ RegUserDisconnects(c)
  \/ \E ok \in BOOLEAN : RegAnswer(ok)
  \/ TakeTrigger \/ ExecuteConnect \/ ExecuteDisconnect \/ ExecuteRegister
  \/ HookEnds

RegistrySpec == RegistryInit /\ [][RegistryNext]_registryVars

\* ------------------------------------------------------------- properties

Quiet == hook.what = "none" /\ NothingPending

\* When everything is done, no connection stays up through a sink or a source
\* that was deregistered: the trigger finds every user of it, however late it
\* is evaluated and whatever has been destroyed by then.
NoUserLeftBehind ==
  Quiet => \A c \in RegConnections : linkState[c] = "connected" =>
    \A i \in DOMAIN RouteOf[c] : RouteOf[c][i].ends \cap withdrawn = {}

\* Nor through the sinks and sources of a domain that has gone: "disconnect the
\* connection if any" (CAmPolicyEngine.cpp:574).  Violated: they have left the
\* database when the policy engine asks for them.
NoUserOfDomainLeft ==
  Quiet => \A c \in RegConnections : linkState[c] = "connected" =>
    \A i \in DOMAIN RouteOf[c] : RouteOf[c][i].home \in domains

=============================================================================
