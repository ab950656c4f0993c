------------------------------ MODULE PolicyEngine ------------------------------
(***************************************************************************)
(* The policy engine of the generic controller: a request of the user      *)
(* becomes a trigger, the processes the configuration lists for it are     *)
(* evaluated when its turn comes, and the actions of those that apply are  *)
(* executed one after the other.  An action looks for its connections when *)
(* it starts.  A connection is named by its source; the way it is          *)
(* connected and disconnected is module MainConnection, here it is a start *)
(* and an answer.  Volume actions (limit, mute, ...; module VolumeControl) *)
(* only take time.                                                         *)
(***************************************************************************)
EXTENDS Integers, Sequences, SequencesExt

CONSTANTS
    Configurations,   \* by file, the configurations: classes and priorities of the connections,
                      \* processes for "connect" and "disconnect" requests
    ConnectAnswers,   \* of "ok", "failed", and "unavailable"
    DisconnectAnswers,\* of "ok" and "failed"
    MaxUserRequests

VARIABLES
    chosen,           \* the XML file that is in use, one of the Configurations
    order,            \* mOrderedList: the main connections, the newest last
    stateOf,          \* their states
    triggerQueue,     \* the trigger queue
    actionList,       \* what is left of the actions of CAmPolicyAction
    underWay,         \* the action that is executed: its transitions and connections
    made,             \* the transitions that are undone if a later one fails
    stuck,            \* the connections with a transition that stays registered
    refused,          \* history: has a transition been refused?
    requestCount

policyVars == <<chosen, order, stateOf, triggerQueue, actionList, underWay, made, stuck,
                refused, requestCount>>

configuration == Configurations[chosen]

NoAction == [type |-> "none", transitions |-> <<>>, selected |-> <<>>]
Candidates == DOMAIN configuration.class
InClass(l, c) == configuration.class[l] = c
Active(s, l) == s[l] \in {"CONNECTED", "SUSPENDED"}

ASSUME PolicyAssumption ==
    /\ ConnectAnswers \subseteq {"ok", "failed", "unavailable"}
    /\ DisconnectAnswers \subseteq {"ok", "failed"}
    /\ MaxUserRequests \in Nat

PolicyInit ==
    /\ chosen \in DOMAIN Configurations
    /\ order = <<>>
    /\ stateOf = [l \in Candidates |-> "none"]
    /\ triggerQueue = <<>> /\ actionList = <<>> /\ underWay = NoAction
    /\ made = <<>> /\ stuck = {} /\ refused = FALSE /\ requestCount = 0

-----------------------------------------------------------------------------
(* The order of the connections *)

\* CAmMainConnectionFactory::moveToEnd() with O_NEWEST; a new connection is the newest.
Newest(o, l) == Append(SelectSeq(o, LAMBDA k : k # l), l)

\* updateMainConnectionQueue(): the first connected or suspended one becomes the newest.
MutQueueUpdated(o, s, c) ==
    LET active == SelectSeq(o, LAMBDA l : InClass(l, c) /\ Active(s, l))
    IN IF active = <<>> THEN o ELSE <<active[1]>> \o SelectSeq(o, LAMBDA l : l # active[1])
QueueUpdated(o, s, c) ==
    LET active == SelectSeq(o, LAMBDA l : InClass(l, c) /\ Active(s, l))
    IN IF active = <<>> THEN o ELSE Newest(o, active[1])

-----------------------------------------------------------------------------
(* Conditions *)

\* What a function is about: REQUESTING stands for what the trigger names.
Requesting(category, t) ==
    IF category \in {"CLASS", "CONNECTIONOFCLASS"} THEN configuration.class[t.link] ELSE t.link
Element(f, t) == IF f.of = "REQUESTING" THEN Requesting(f.category, t) ELSE f.of

\* _getConnectionList(): all connections of the class, all but the one of the trigger, or
\* those in a state.
ConnectionList(c, which, t) ==
    SelectSeq(order, LAMBDA l : /\ InClass(l, c)
                                /\ \/ which \in {"ALL", stateOf[l]}
                                   \/ which = "OTHERS" /\ l # t.link)

ConnectionsOf(f, t) ==
    IF f.category = "CONNECTIONOFCLASS" THEN ConnectionList(Element(f, t), f.which, t)
    ELSE SelectSeq(order, LAMBDA l : l = Element(f, t))

\* name() knows REQUESTING only, and what is said of one connection needs it to exist.
Fails(f, t) ==
    \/ f.name = "name" /\ f.of # "REQUESTING"
    \/ f.name = "priority" /\ f.category = "CONNECTION" /\ ConnectionsOf(f, t) = <<>>

Outputs(f, t) ==
    LET found == ConnectionsOf(f, t) IN
    CASE f.name = "name" -> <<Requesting(f.category, t)>>
      [] f.name = "connectionState" -> [i \in DOMAIN found |-> stateOf[found[i]]]
      [] f.name = "priority" -> [i \in DOMAIN found |-> configuration.priority[found[i]]]

Compares(operation, a, b) ==
    CASE operation = "EQ" -> a = b
      [] operation = "NE" -> a # b
      [] operation = "LT" -> a < b
      [] operation = "GT" -> a > b
      [] operation = "LEQ" -> a <= b
      [] operation = "GEQ" -> a >= b

\* _isConditionTrue(): a function that fails makes any condition false; but for INC and
\* EXC only the first output counts, and there must be one.
IsConditionTrue(c, t) ==
    LET valued == c.right.name = "value"
        lhs == Outputs(c.left, t)
        rhs == IF valued THEN <<c.right.of>> ELSE Outputs(c.right, t)
    IN  /\ ~Fails(c.left, t)
        /\ valued \/ ~Fails(c.right, t)
        /\ rhs # <<>>
        /\ CASE c.operation = "INC" -> rhs[1] \in ToSet(lhs)
             [] c.operation = "EXC" -> rhs[1] \notin ToSet(lhs)
             [] OTHER -> lhs # <<>> /\ Compares(c.operation, lhs[1], rhs[1])

EvaluateConditionSet(p, t) == \A i \in DOMAIN p.conditions : IsConditionTrue(p.conditions[i], t)

\* _convertActionParamsToValues()
Converted(a, t) ==
    [a EXCEPT !.class = IF @ = "REQUESTING" THEN configuration.class[t.link] ELSE @,
              !.source = IF @ = "REQUESTING" THEN t.link ELSE @]

\* _getActionsfromPolicy() for one process after the other until one that applies breaks
\* the evaluation.
WithProcess(acc, p, t) ==
    IF acc.over \/ ~EvaluateConditionSet(p, t) THEN acc
    ELSE [over |-> p.break, actions |-> acc.actions \o [i \in DOMAIN p.actions |-> Converted(p.actions[i], t)]]

MutGetActions(t) ==
    FoldLeft(LAMBDA acc, p : WithProcess([acc EXCEPT !.over = FALSE], p, t),
             [over |-> FALSE, actions |-> <<>>], configuration.processes[t.type]).actions
GetActions(t) ==
    FoldLeft(LAMBDA acc, p : WithProcess(acc, p, t),
             [over |-> FALSE, actions |-> <<>>], configuration.processes[t.type]).actions

-----------------------------------------------------------------------------
(* The selection of connections by an action *)

\* CAmConnectionListFilter::matches(); a name that is not set matches any.
Matches(a, l) == (a.class = "" \/ InClass(l, a.class)) /\ (a.source = "" \/ l = a.source)

\* CAmActionDisconnect and CAmActionInterrupt: in the states the action names, in any if
\* source and sink are given, and CS_CONNECTED otherwise.
Filtered(a) ==
    LET states == IF a.type = "push" THEN {"CONNECTED", "SUSPENDED"}
                  ELSE IF a.exact THEN {stateOf[l] : l \in Candidates} ELSE {"CONNECTED"}
    IN SelectSeq(order, LAMBDA l : Matches(a, l) /\ stateOf[l] \in states)

\* A connection that both names given to CAmActionConnect ask for is created.
Missing(a) == a.type = "connect" /\ a.exact /\ stateOf[a.source] = "none"
WithMissing(a) == [l \in Candidates |-> IF Missing(a) /\ l = a.source THEN "UNKNOWN" ELSE stateOf[l]]

\* The connections of a class, newest first, a new one last.
Listed(a, c) ==
    SelectSeq(Reverse(order), LAMBDA l : InClass(l, c))
        \o IF Missing(a) /\ InClass(a.source, c) THEN <<a.source>> ELSE <<>>

In(now, s, states) == {l \in ToSet(s) : now[l] \in states}
LastOf(s, S) == Last(SelectSeq(s, LAMBDA l : l \in S))

\* CAmActionConnect::_selectConnection() for the connections s of a class.
MutConnects(a, now, s) ==
    LET preferred == SelectSeq(s, LAMBDA l :
            /\ now[l] \in {"DISCONNECTED", "DISCONNECTING", "SUSPENDED"}
            /\ a.source \in {"", l})
    IN IF preferred = <<>> \/ In(now, s, {"CONNECTED", "CONNECTING"}) # {} THEN <<>> ELSE <<preferred[1]>>
Connects(a, now, s) ==
    LET preferred == SelectSeq(s, LAMBDA l :
            /\ now[l] \in {"DISCONNECTED", "DISCONNECTING", "UNKNOWN", "SUSPENDED"}
            /\ a.source \in {"", l})
        suspended == In(now, s, {"SUSPENDED"})
    IN IF \/ preferred = <<>> \/ In(now, s, {"CONNECTED", "CONNECTING"}) # {}
          \/ suspended # {} /\ LastOf(s, suspended) # preferred[1]
       THEN <<>> ELSE <<preferred[1]>>

\* One that has just been created but must not be connected is disconnected.
Discards(now, s) ==
    LET fresh == In(now, s, {"UNKNOWN"})
    IN IF fresh = {} \/ In(now, s, {"CONNECTED", "CONNECTING", "SUSPENDED"}) = {} THEN <<>>
       ELSE <<LastOf(s, fresh)>>

\* CAmActionSuspend::_selectConnection()
Suspends(a, s) ==
    LET preferred == SelectSeq(s, LAMBDA l : /\ stateOf[l] \in {"CONNECTED", "DISCONNECTED", "UNKNOWN"}
                                             /\ a.source \in {"", l})
        connected == In(stateOf, s, {"CONNECTED"})
    IN IF \/ In(stateOf, s, {"SUSPENDED"}) # {} \/ preferred = <<>>
          \/ connected # {} /\ LastOf(s, connected) # preferred[1]
       THEN <<>> ELSE <<preferred[1]>>

-----------------------------------------------------------------------------
(* The actions *)

\* Only what is in force can be refused to be disconnected.
InForce(now, l) == now[l] \in {"CONNECTED", "SUSPENDED", "DISCONNECTING"}
Each(what, now, s) == [i \in DOMAIN s |-> [what |-> what, link |-> s[i], inForce |-> InForce(now, s[i]),
                                          back |-> IF what = "suspend" /\ InForce(now, s[i]) THEN now[s[i]] ELSE "DISCONNECTED"]]

\* The constructors of the actions for main connections report the transition.
Constructed(now, transitions) ==
    LET Of(what) == {transitions[i].link : i \in {k \in DOMAIN transitions : transitions[k].what = what}}
    IN [l \in Candidates |->
          IF l \in Of("disconnect") /\ now[l] \in {"UNKNOWN", "CONNECTED", "SUSPENDED"} THEN "DISCONNECTING"
          ELSE IF \/ l \in Of("connect") /\ now[l] \in {"UNKNOWN", "DISCONNECTED", "SUSPENDED"}
                  \/ l \in Of("suspend") /\ now[l] \in {"UNKNOWN", "DISCONNECTED"} THEN "CONNECTING"
          ELSE now[l]]

Begins(a, now, transitions, selected) ==
    /\ underWay' = [type |-> a.type, transitions |-> transitions, selected |-> selected]
    /\ stateOf' = Constructed(now, transitions)

MatchingClasses(a) == SelectSeq(configuration.classes, LAMBDA c : a.class \in {"", c})

ExecuteActionConnect(a) ==
    LET now == WithMissing(a)
        lists == [i \in DOMAIN MatchingClasses(a) |-> Listed(a, MatchingClasses(a)[i])]
        selected == FlattenSeq([i \in DOMAIN lists |-> Connects(a, now, lists[i])])
        discarded == FlattenSeq([i \in DOMAIN lists |-> Discards(now, lists[i])])
    IN  /\ Begins(a, now, Each("disconnect", now, discarded) \o Each("connect", now, selected), selected)
        /\ order' = IF Missing(a)
                    THEN Newest(QueueUpdated(order, now, configuration.class[a.source]), a.source)
                    ELSE order

\* Of the two, only CAmActionInterrupt changes the order.
ExecuteActionDisconnect(a) ==
    /\ Begins(a, stateOf, Each("disconnect", stateOf, Filtered(a)), Filtered(a))
    /\ order' = IF a.type = "push"
                THEN FoldLeft(LAMBDA o, l : QueueUpdated(Newest(o, l), stateOf', configuration.class[l]),
                              order, Filtered(a))
                ELSE order

ExecuteActionSuspend(a) ==
    LET selected == FlattenSeq([i \in DOMAIN MatchingClasses(a) |->
                                   Suspends(a, Listed(a, MatchingClasses(a)[i]))])
    IN Begins(a, stateOf, Each("suspend", stateOf, selected), selected) /\ UNCHANGED order

ExecuteActionVolume(a) ==
    Begins(a, stateOf, <<[what |-> "volume"]>>, <<>>) /\ UNCHANGED order

-----------------------------------------------------------------------------
(* iterateActions() *)

NothingUnderWay == underWay = NoAction
AllAtRest == NothingUnderWay /\ actionList = <<>> /\ triggerQueue = <<>>

\* Only when nothing is left to do is a trigger looked at.
Dispatch ==
    /\ NothingUnderWay /\ actionList = <<>> /\ triggerQueue # <<>>
    /\ actionList' = GetActions(Head(triggerQueue))
    /\ triggerQueue' = Tail(triggerQueue)
    /\ made' = <<>>
    /\ UNCHANGED <<chosen, order, stateOf, underWay, stuck, refused, requestCount>>

\* CAmPolicyAction creates the actions, its container executes them one after the other.
ExecuteNext ==
    /\ NothingUnderWay /\ actionList # <<>>
    /\ LET a == Head(actionList) IN
          \/ a.type = "connect" /\ ExecuteActionConnect(a)
          \/ a.type \in {"disconnect", "push"} /\ ExecuteActionDisconnect(a)
          \/ a.type = "suspend" /\ ExecuteActionSuspend(a)
          \/ a.type = "volume" /\ ExecuteActionVolume(a)
    /\ actionList' = Tail(actionList)
    /\ UNCHANGED <<chosen, triggerQueue, made, stuck, refused, requestCount>>

\* A transition has ended; one that has its undo flag set may have to be undone.
Succeeds(t, s, undoable) ==
    /\ stateOf' = [stateOf EXCEPT ![t.link] = s]
    /\ underWay' = [underWay EXCEPT !.transitions = Tail(@)]
    /\ made' = IF undoable THEN <<t>> \o made ELSE made
    /\ UNCHANGED <<order, actionList, stuck, refused>>

\* One that fails is the end of CAmPolicyAction: what is left of it is dropped, what has been
\* made is undone; the transitions that have not been started stay registered.
RollsBack(undone, left) ==
    /\ underWay' = [type |-> "undo", selected |-> <<>>,
                    transitions |-> [i \in DOMAIN undone |-> [undone[i] EXCEPT !.what = "undo"]]]
    /\ stuck' = stuck \cup {left[i].link : i \in DOMAIN left}
    /\ actionList' = <<>> /\ made' = <<>> /\ refused' = TRUE

\* A connection that could not be connected is disposed of, unless an end was unavailable.
ConnectAnswered(t, r) ==
    \/ r = "ok" /\ Succeeds([t EXCEPT !.back = "none"], "CONNECTED", TRUE)
    \/ /\ r # "ok"
       /\ RollsBack(<<IF r = "failed" THEN [t EXCEPT !.back = "none"] ELSE t>> \o made,
                    Tail(underWay.transitions))
       /\ stateOf' = [stateOf EXCEPT ![t.link] = "DISCONNECTING"]
       /\ UNCHANGED order

\* The action of a disconnect that fails does not take notice, and stays registered.
DisconnectAnswered(t, r) ==
    \/ r = "ok" /\ Succeeds(t, "DISCONNECTED", FALSE)
    \/ /\ r = "failed" /\ t.inForce
       /\ RollsBack(made, underWay.transitions)
       /\ stateOf' = [stateOf EXCEPT ![t.link] = "DISCONNECTING"]
       /\ UNCHANGED order

\* _update() of the action at AS_UNDO_COMPLETE
Undone(t) ==
    /\ stateOf' = [stateOf EXCEPT ![t.link] = t.back]
    /\ order' = QueueUpdated(SelectSeq(order, LAMBDA l : t.back # "none" \/ l # t.link),
                             stateOf', configuration.class[t.link])
    /\ underWay' = [underWay EXCEPT !.transitions = Tail(@)]
    /\ UNCHANGED <<actionList, made, stuck, refused>>

VolumeIsSet ==
    /\ underWay' = [underWay EXCEPT !.transitions = Tail(@)]
    /\ UNCHANGED <<order, stateOf, actionList, made, stuck, refused>>

Answered ==
    /\ underWay.transitions # <<>>
    /\ LET t == Head(underWay.transitions) IN
       \/ t.what = "connect" /\ \E r \in ConnectAnswers : ConnectAnswered(t, r)
       \/ t.what = "disconnect" /\ \E r \in DisconnectAnswers : DisconnectAnswered(t, r)
       \/ t.what = "suspend" /\ Succeeds(t, "SUSPENDED", TRUE)
       \/ t.what = "undo" /\ Undone(t)
       \/ t.what = "volume" /\ VolumeIsSet
    /\ UNCHANGED <<chosen, triggerQueue, requestCount>>

\* permitsDispose(): no request to connect it waits in the queue.
PermitsDisposal(l) ==
    /\ stateOf[l] = "DISCONNECTED" /\ l \notin stuck
    /\ \A i \in DOMAIN triggerQueue : triggerQueue[i] # [type |-> "connect", link |-> l]

Disposed ==
    IF underWay.type = "disconnect" THEN {l \in ToSet(underWay.selected) : PermitsDisposal(l)} ELSE {}

\* _update() of the action when its last transition has ended
Complete ==
    /\ ~NothingUnderWay /\ underWay.transitions = <<>>
    /\ stateOf' = [l \in Candidates |-> IF l \in Disposed THEN "none" ELSE stateOf[l]]
    /\ LET left == SelectSeq(order, LAMBDA l : l \notin Disposed) IN
       order' = IF underWay.type \in {"connect", "suspend"}
                THEN FoldLeft(LAMBDA o, l : QueueUpdated(o, stateOf', configuration.class[l]),
                              left, underWay.selected)
                ELSE left
    /\ underWay' = NoAction
    /\ UNCHANGED <<chosen, triggerQueue, actionList, made, stuck, refused, requestCount>>

-----------------------------------------------------------------------------
(* The user's requests: a hook iterates until an answer has to be waited for. *)

Hookable ==
    /\ AllAtRest \/ underWay.transitions # <<>>
    /\ requestCount < MaxUserRequests /\ requestCount' = requestCount + 1

\* hookUserConnectionRequest() creates the connection at once.
UserConnectionRequest(l) ==
    /\ Hookable
    /\ stateOf' = [stateOf EXCEPT ![l] = IF @ = "none" THEN "UNKNOWN" ELSE @]
    /\ order' = QueueUpdated(Newest(order, l), stateOf', configuration.class[l])
    /\ triggerQueue' = Append(triggerQueue, [type |-> "connect", link |-> l])
    /\ UNCHANGED <<chosen, actionList, underWay, made, stuck, refused>>

UserDisconnectionRequest(l) ==
    /\ Hookable
    /\ stateOf[l] # "none"
    /\ triggerQueue' = Append(triggerQueue, [type |-> "disconnect", link |-> l])
    /\ UNCHANGED <<chosen, order, stateOf, actionList, underWay, made, stuck, refused>>

PolicyNext ==
    \/ Dispatch \/ ExecuteNext \/ Answered \/ Complete
    \/ \E l \in Candidates : UserConnectionRequest(l) \/ UserDisconnectionRequest(l)

PolicySpec == PolicyInit /\ [][PolicyNext]_policyVars

-----------------------------------------------------------------------------
(* Properties *)

\* With the configuration of doc/policyhandling.dox the media player is not active while
\* the phone is, however requests, answers and failing connects interleave.
CallGoesFirst ==
    chosen = "call" =>
        ~(stateOf["phone"] = "CONNECTED" /\ stateOf["media"] = "CONNECTED")

\* With the same configuration the player a call has interrupted, or that has been asked for
\* during the call, is active once the call is over, unless something has been refused.
PlayerResumes ==
    (/\ chosen = "call" /\ AllAtRest /\ ~refused
     /\ stateOf["media"] # "none" /\ stateOf["phone"] # "CONNECTED")
        => stateOf["media"] = "CONNECTED"

\* "If there is connected or suspended connection change its order to the top of queue":
\* at rest it is the newest of its class, so that an action that names the class only
\* resumes what was interrupted last.
ActiveOnTop ==
    AllAtRest => \A l \in Candidates : Active(stateOf, l) =>
        l = Last(SelectSeq(order, LAMBDA k : InClass(k, configuration.class[l])))
=============================================================================
