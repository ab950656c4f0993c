--------------------------- MODULE SoundProperties ---------------------------
(***************************************************************************)
(* Main sound properties of sources and sinks in the generic controller:   *)
(* users' requests, which the policy turns into one action for each        *)
(* element it names, the conversion to sound properties for the routing    *)
(* side, rollback and time-outs, and the changes that the routing side     *)
(* reports by itself.                                                      *)
(*                                                                         *)
(* The routing side answers requests in their order, and its answers and   *)
(* reports reach the controller in the order it sends them.                *)
(***************************************************************************)
EXTENDS Integers, Sequences, FiniteSets, SequencesExt, FiniteSetsExt, TLC

CONSTANTS
    SoundSinks, SoundSources,
    MainTypes,        \* types of main sound properties all elements are configured with
    MappedTypes,      \* those that mapMSPTOSP converts to sound properties
    RegisteredTypes,  \* those of them that elements give a value when they register
    LowValue, HighValue,   \* minValue and maxValue of the configuration
    AskedValues,      \* values users ask for
    PlayedValues,     \* values the routing side changes to by itself
    PolicyTargets,    \* [elements -> Seq(elements)]: what the policy sets for a request
    MaxPropertyRequests, MaxReports, MaxAborts   \* bounds

SoundElements == SoundSinks \cup SoundSources

ASSUME SoundPropertyAssumption ==
    /\ RegisteredTypes \subseteq MappedTypes /\ MappedTypes \subseteq MainTypes /\ MainTypes \subseteq Nat
    /\ LowValue \in Int /\ HighValue \in Int /\ LowValue <= HighValue
    /\ AskedValues \subseteq Int /\ PlayedValues \subseteq Int
    /\ PolicyTargets \in [SoundElements -> Seq(SoundElements)]
    /\ \A e \in SoundElements : PolicyTargets[e] # <<>> /\ IsInjective(PolicyTargets[e])
    /\ {MaxPropertyRequests, MaxReports, MaxAborts} \subseteq Nat

VARIABLES
    mainProperty,    \* daemon: [element -> [type -> value]] of the main sound properties
    soundProperty,   \* daemon: the same of the sound properties it has, by their main types
    propertyQueue,   \* the trigger queue: Seq of [element, list]
    setting,         \* the policy action under way, AT_REST if there is none
    orders,          \* on their way to the routing side: Seq of [handle, element, list]
    upward,          \* on their way to the controller: answers and reports
    playing,         \* the routing side: [element -> [type -> value]]
    lastHandle,      \* the number of requests to the routing side
    propertyRequests, reports, aborts,   \* bounded counters
    latest,          \* history: what has been asked for last
    disturbed,       \* history: a refusal, an abort or a report has come between
    strayed          \* history: elements with an abort or an undo that was refused

soundVars ==
    <<mainProperty, soundProperty, propertyQueue, setting, orders, upward, playing, lastHandle,
      propertyRequests, reports, aborts, latest, disturbed, strayed>>

AT_REST == [phase |-> "rest", element |-> "", list |-> <<>>, olds |-> <<>>, at |-> 0, handle |-> 0]

-----------------------------------------------------------------------------
(* Elements: conversion, saturation, and the daemon's database *)

\* _saturateSoundProperty()
Saturated(v) == Max({LowValue, Min({v, HighValue})})

\* mainSoundPropertyToSoundProperty() of everything in a list
Convertible(list) == \A i \in DOMAIN list : list[i].type \in MappedTypes
FirstUnmapped(list) == list[Min({i \in DOMAIN list : list[i].type \notin MappedTypes})]
Settable(list) == IF Convertible(list) THEN list ELSE <<FirstUnmapped(list)>>

\* setMainSoundPropertyValue(), setMainSoundPropertiesValue() of the elements es: what classes
\* remember for the next run is module Persistence.
Values(list) == [t \in {p.type : p \in Range(list)} |-> (CHOOSE p \in Range(list) : p.type = t).value]
WithValues(properties, es, list) ==
    [e \in DOMAIN properties |-> [t \in DOMAIN properties[e] |->
        IF e \in es /\ t \in DOMAIN Values(list) THEN Values(list)[t] ELSE properties[e][t]]]

\* upadateDB(): a sound property that the database does not have is added to it; of one that
\* it has, the copy in the report gets the new value, not the one in the database.
SoundReported(properties, e, list) == [properties EXCEPT ![e] = @ @@ Values(list)]

\* The main sound properties that they are converted to take their values.
MainReported(properties, e, list) == WithValues(properties, {e}, list)

-----------------------------------------------------------------------------
(* CAmSourceSinkActionSetSoundProperty, ...Properties, under a CAmPolicyAction.  Their state *)
(* is a record s, the controller's part of the variables, and accepted says whether the      *)
(* routing side takes the requests of this turn.                                             *)

Now == [main |-> mainProperty, queue |-> propertyQueue, setting |-> setting,
        orders |-> orders, handle |-> lastHandle]
Becomes(s) ==
    /\ mainProperty' = s.main /\ propertyQueue' = s.queue /\ setting' = s.setting
    /\ orders' = s.orders /\ lastHandle' = s.handle

Target(set) == PolicyTargets[set.element][set.at]

\* The values before, which _execute() reads: those of the database.
OldValues(s, e, list) == [i \in DOMAIN list |-> [list[i] EXCEPT !.value = s.main[e][list[i].type]]]

\* _setRoutingSideProperty(): the request is made and its handle saved.
Ordered(s, set, list) ==
    [s EXCEPT !.handle = @ + 1,
              !.setting = [set EXCEPT !.handle = s.handle + 1],
              !.orders = Append(@, [handle |-> s.handle + 1, element |-> Target(set), list |-> list])]

\* _undo() of the elements from number k down.  One that cannot be asked for is passed over
\* with the new value in the database.
UndoFrom(s, set, k, accepted) ==
    IF k = 0 \/ ~accepted THEN [s EXCEPT !.setting = AT_REST]
    ELSE LET undoing == [set EXCEPT !.phase = "undoing", !.at = k] IN Ordered(s, undoing, set.olds[k])

\* _execute() for element number k
ExecuteFrom(s, set, k, accepted) ==
    LET next == [set EXCEPT !.at = k] IN
    IF k > Len(PolicyTargets[set.element]) THEN [s EXCEPT !.setting = AT_REST]
    ELSE IF ~accepted THEN UndoFrom(s, set, k - 1, accepted)
    ELSE Ordered(s, [next EXCEPT !.olds = Append(@, OldValues(s, Target(next), set.list))], set.list)

\* The policy's actions for a trigger that the routing side takes a request for.
Started(s, trigger) ==
    ExecuteFrom(s, [AT_REST EXCEPT !.phase = "executing", !.element = trigger.element,
                                   !.list = trigger.list], 1, TRUE)

\* The others are over at once.  With a type in the list that is not mapped, this one is
\* written to the database, and nothing else of the list happens.
AtOnce(trigger, accepted) == Convertible(trigger.list) => ~accepted
Unmapped(trigger, e) ==
    IF ~Convertible(trigger.list) /\ e \in Range(PolicyTargets[trigger.element])
    THEN Values(<<FirstUnmapped(trigger.list)>>) ELSE <<>>

\* A value of type t after a sequence of writes: the last one that has the type counts.
Overwritten(v, t, writes) ==
    LET hits == {i \in DOMAIN writes : t \in DOMAIN writes[i]}
    IN IF hits = {} THEN v ELSE writes[Max(hits)][t]
Noted(properties, triggers) ==
    [e \in DOMAIN properties |-> [t \in DOMAIN properties[e] |->
        Overwritten(properties[e][t], t, [i \in DOMAIN triggers |-> Unmapped(triggers[i], e)])]]

\* iterateActions(): triggers are taken from the queue until an action has to wait.
Iterated(s, accepted) ==
    LET n == Max({k \in 0 .. Len(s.queue) : \A i \in 1 .. k : AtOnce(s.queue[i], accepted)})
        passed == [s EXCEPT !.main = Noted(@, SubSeq(s.queue, 1, n)),
                            !.queue = SubSeq(@, n + 1, Len(@))]
    IN IF s.setting # AT_REST THEN s
       ELSE IF passed.queue = <<>> THEN passed
       ELSE Started([passed EXCEPT !.queue = Tail(@)], Head(passed.queue))

\* update() with an answer, and _update(): undone is undone, whatever the answer.
MutSettingAnswered(s, set, done, accepted) ==
    CASE set.phase = "executing" /\ done ->
            ExecuteFrom([s EXCEPT !.main = WithValues(@, {Target(set)}, set.list)], set, set.at + 1, accepted)
      [] OTHER -> UndoFrom(s, set, set.at - 1, accepted)
SettingAnswered(s, set, done, accepted) ==
    CASE set.phase = "executing" /\ done ->
            ExecuteFrom([s EXCEPT !.main = WithValues(@, {Target(set)}, set.list)], set, set.at + 1, accepted)
      [] set.phase = "executing" /\ ~done -> UndoFrom(s, set, set.at - 1, accepted)
      [] set.phase = "undoing" ->
            UndoFrom([s EXCEPT !.main = WithValues(@, {Target(set)}, set.olds[set.at])],
                     set, set.at - 1, accepted)

-----------------------------------------------------------------------------
(* The users *)

\* A hook has accepted a request: it is queued, and the actions are iterated.
Queues(e, list) ==
    /\ propertyRequests < MaxPropertyRequests
    /\ propertyRequests' = propertyRequests + 1
    /\ \E accepted \in BOOLEAN :
        /\ Becomes(Iterated([Now EXCEPT !.queue = Append(@, [element |-> e, list |-> list])], accepted))
        /\ disturbed' = (disturbed \/ ~accepted)
    /\ latest' = WithValues(latest, Range(PolicyTargets[e]), Settable(list))
    /\ UNCHANGED <<soundProperty, upward, playing, reports, aborts, strayed>>

UserSetSinkProperty(k, t, v) == Queues(k, <<[type |-> t, value |-> Saturated(v)]>>)
UserSetSourceProperty(s, t, v) == Queues(s, <<[type |-> t, value |-> Saturated(v)]>>)

\* The loops saturate copies of the values, the list is queued as it is.
UserSetSinkProperties(k, list) == Queues(k, list)
UserSetSourceProperties(s, list) == Queues(s, list)

AskedProperties == [type : MainTypes, value : AskedValues]
AskedLists == {list \in AskedProperties \X AskedProperties : list[1].type < list[2].type}

-----------------------------------------------------------------------------
(* The routing side *)

\* A request is carried out, or refused and nothing is changed; the answer is on its way.
Answers(done) ==
    /\ orders # <<>>
    /\ orders' = Tail(orders)
    /\ LET o == Head(orders) IN
        /\ playing' = IF done THEN WithValues(playing, {o.element}, o.list) ELSE playing
        /\ upward' = Append(upward, [handle |-> o.handle, element |-> o.element, list |-> o.list,
                                     done |-> done])
    /\ UNCHANGED <<mainProperty, soundProperty, propertyQueue, setting, lastHandle,
                   propertyRequests, reports, aborts, latest, disturbed, strayed>>

\* A property changes at the routing side, which reports it.
Reports(e, t, v) ==
    /\ reports < MaxReports /\ v # playing[e][t]
    /\ reports' = reports + 1
    /\ playing' = [playing EXCEPT ![e][t] = v]
    /\ upward' = Append(upward, [handle |-> 0, element |-> e, list |-> <<[type |-> t, value |-> v]>>])
    /\ UNCHANGED <<mainProperty, soundProperty, propertyQueue, setting, orders, lastHandle,
                   propertyRequests, aborts, latest, disturbed, strayed>>

-----------------------------------------------------------------------------
(* The controller's callbacks *)

\* hookSystemUpdateSink(), hookSystemUpdateSource()
TakeReport ==
    /\ upward # <<>> /\ Head(upward).handle = 0
    /\ LET r == Head(upward) IN
        /\ soundProperty' = SoundReported(soundProperty, r.element, r.list)
        /\ mainProperty' = MainReported(mainProperty, r.element, r.list)
    /\ upward' = Tail(upward)
    /\ disturbed' = TRUE
    /\ UNCHANGED <<propertyQueue, setting, orders, playing, lastHandle,
                   propertyRequests, reports, aborts, latest, strayed>>

Strays(set, done) == IF set.phase = "undoing" /\ ~done THEN {Target(set)} ELSE {}

\* cbAckSet...SoundPropert...(): the daemon has written down what the routing side has done.
\* An answer whose handle is gone is dropped.
TakeAnswer(accepted) ==
    /\ upward # <<>> /\ Head(upward).handle # 0
    /\ upward' = Tail(upward)
    /\ LET a == Head(upward) IN
        /\ soundProperty' = IF a.done THEN [soundProperty EXCEPT ![a.element] = Values(a.list) @@ @]
                            ELSE soundProperty
        /\ IF a.handle = setting.handle
           THEN /\ Becomes(Iterated(SettingAnswered(Now, setting, a.done, accepted), accepted))
                /\ strayed' = strayed \cup Strays(setting, a.done)
                /\ disturbed' = (disturbed \/ ~a.done \/ ~accepted)
           ELSE Becomes(Iterated(Now, accepted)) /\ UNCHANGED <<strayed, disturbed>>
    /\ UNCHANGED <<playing, propertyRequests, reports, aborts, latest>>

\* timeout() and _timeout(): an abort is sent, and the action goes on as after a refusal; the
\* routing side may have carried the request out, or do so later.
Times(accepted) ==
    /\ setting # AT_REST /\ aborts < MaxAborts
    /\ aborts' = aborts + 1
    /\ Becomes(Iterated(SettingAnswered(Now, setting, FALSE, accepted), accepted))
    /\ strayed' = strayed \cup {Target(setting)}
    /\ disturbed' = TRUE
    /\ UNCHANGED <<soundProperty, upward, playing, propertyRequests, reports, latest>>

SoundInit ==
    /\ mainProperty = [e \in SoundElements |-> [t \in MainTypes |-> LowValue]]
    /\ soundProperty = [e \in SoundElements |-> [t \in RegisteredTypes |-> LowValue]]
    /\ propertyQueue = <<>> /\ setting = AT_REST
    /\ orders = <<>> /\ upward = <<>>
    /\ playing = [e \in SoundElements |-> [t \in MappedTypes |-> LowValue]]
    /\ lastHandle = 0
    /\ propertyRequests = 0 /\ reports = 0 /\ aborts = 0
    /\ latest = mainProperty /\ disturbed = FALSE /\ strayed = {}

SoundNext ==
    \/ \E k \in SoundSinks, t \in MainTypes, v \in AskedValues : UserSetSinkProperty(k, t, v)
    \/ \E s \in SoundSources, t \in MainTypes, v \in AskedValues : UserSetSourceProperty(s, t, v)
    \/ \E k \in SoundSinks, list \in AskedLists : UserSetSinkProperties(k, list)
    \/ \E s \in SoundSources, list \in AskedLists : UserSetSourceProperties(s, list)
    \/ \E done \in BOOLEAN : Answers(done)
    \/ \E e \in SoundElements, t \in MappedTypes, v \in PlayedValues : Reports(e, t, v)
    \/ TakeReport
    \/ \E accepted \in BOOLEAN : TakeAnswer(accepted)
    \/ \E accepted \in BOOLEAN : Times(accepted)

SoundSpec == SoundInit /\ [][SoundNext]_soundVars

-----------------------------------------------------------------------------
(* Properties *)

AllSet == setting = AT_REST /\ orders = <<>> /\ upward = <<>>

\* Whatever has been asked for, refused, taken back and reported, in the end the database has
\* the main sound properties that are played: applications and policies see what is heard.
\* And without refusals and reports that is what has been asked for last, however many
\* requests have been queued behind each other.
PropertiesAgree ==
    AllSet =>
        /\ \A e \in SoundElements \ strayed, t \in MappedTypes : mainProperty[e][t] = playing[e][t]
        /\ ~disturbed => mainProperty = latest

\* "For each property present in the list from routing side update in the list returned from
\* AudioManager Daemon": so far as nothing has strayed, the database has the sound properties
\* that are played.  (Violated: the comparison's hit is assigned to the report's copy.)
ReportsAreKept ==
    AllSet => \A e \in SoundElements \ strayed :
        \A t \in DOMAIN soundProperty[e] : soundProperty[e][t] = playing[e][t]

\* "Check the SP range for requested sink from configuration and return with same value if
\* soundProperty is within the range else return with saturated min/max value": what users
\* ask for gets into the range.  (Violated: the list variants saturate copies.)
AskedIsInRange ==
    \A o \in Range(orders) : \A i \in DOMAIN o.list : o.list[i].value \in LowValue .. HighValue
=============================================================================
