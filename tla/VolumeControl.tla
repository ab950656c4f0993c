---------------------------- MODULE VolumeControl ----------------------------
(***************************************************************************)
(* The volume actions of the generic controller: CAmActionSetVolume,       *)
(* CAmActionLimit and CAmActionMute with their common base                 *)
(* CAmActionSetVolumeCore, and the limits, volumes and mute states that    *)
(* they keep in classes, sources, sinks and main connections.              *)
(*                                                                         *)
(* An action computes new volumes for the elements of the routes and asks  *)
(* the routing side for one after the other.  The action engine runs one   *)
(* action at a time and undoes it when an answer is an error.  All         *)
(* connections are connected; all volumes are at most 0, the maximum.      *)
(***************************************************************************)
EXTENDS Integers, Sequences, FiniteSets, SequencesExt, FiniteSetsExt

CONSTANTS
    VolumeElements,   \* 1..n: sources and sinks with volume support, in the order of mMatrix
    VConnections,     \* 1..m: main connections, in the order of mConnectionMap
    ElementsOf,       \* [VConnections -> Seq(VolumeElements)], main sink first
    VClassOf,         \* [VConnections -> classes]
    LimitPatterns,    \* the patterns in use, as sets of bits
    Levels,           \* ["absolute", "relative" -> the levels such limits may have]
    StartVolumes,     \* volumes of the elements to start from
    MinVolume,        \* mMinVolume of all elements
    VolumeOfMain,     \* [Nat -> Int]: mapUserVolumeToNormalizedVolume..., ascending
    DirectTargets,    \* elements that are addressed by their own name
    MaxActions,       \* bound on the number of actions of a behaviour
    UndoIsRefused     \* whether the routing side may refuse to take a change back

AM_VOLUME_NO_LIMIT == 0
AM_MUTE == -3000
VClasses == {VClassOf[c] : c \in VConnections}

ASSUME VolumeAssumption ==
    /\ IsFiniteSet(VolumeElements) /\ VClasses \cap VolumeElements = {}
    /\ Levels \in [{"absolute", "relative"} -> SUBSET {v \in Int : v <= 0}]
    /\ MinVolume \in Int /\ StartVolumes \subseteq {v \in Int : MinVolume <= v /\ v <= 0}
    /\ UndoIsRefused \in BOOLEAN /\ MaxActions \in Nat

VARIABLES
    limits,     \* mMapLimitVolumes of classes and elements: sets of [pattern, type, level]
    volumes,    \* [VolumeElements -> [volume, offset, muted]]: the members of the elements
    routed,     \* [VolumeElements -> volume]: what the routing side has set
    mainVolume, \* [VConnections -> mMainVolume]
    action,     \* the action under way: its children Seq of [element, want, was], the
                \* connections it changes, and where it is; IDLE if there is none
    started,    \* how many actions there have been
    bypassed,   \* history: an action has been undone, or an element addressed directly
    loosened    \* history: the connections whose offset need not keep to their limits

volumeVars == <<limits, volumes, routed, mainVolume, action, started, bypassed, loosened>>

IDLE == [phase |-> "idle", children |-> <<>>, at |-> 0, changed |-> {}, before |-> <<>>]

-----------------------------------------------------------------------------
(* What the elements know *)

Clamp(v) == Max({MinVolume, Min({0, v})})

\* CAmRoutePointElement::getRoutingSideVolume() is left out: a scale of its own.
Heard(settings) == IF settings.muted THEN AM_MUTE ELSE Clamp(settings.volume + settings.offset)

Uses(e) == {c \in VConnections : e \in Range(ElementsOf[c])}
Private(e) == Cardinality(Uses(e)) = 1

\* CAmMainConnectionElement::getVolume(), getOffsetVolume(), over elements as in vs
VolumeIn(vs, c) == FoldSeq(LAMBDA e, sum : vs[e].volume + sum, 0, ElementsOf[c])
OffsetIn(vs, c) == FoldSeq(LAMBDA e, sum : vs[e].offset + sum, 0, ElementsOf[c])
MutedIn(vs, c) == \E e \in Range(ElementsOf[c]) : vs[e].muted

\* CAmSinkElement::convertVolumeToMainVolume(), for a volume between two steps the lower
MainOf(v) ==
    LET below == {m \in DOMAIN VolumeOfMain : VolumeOfMain[m] <= v} IN
    IF below = {} THEN Min(DOMAIN VolumeOfMain) ELSE Max(below)

\* CAmMainConnectionElement::getLimits(): those of the class and of the elements
LimitsOn(ls, c) == ls[VClassOf[c]] \cup UNION {ls[e] : e \in Range(ElementsOf[c])}

\* CAmLimitableElement::setLimitState(): a limit replaces the one with its pattern; without
\* one all limits go whose patterns the given one covers.
LimitState(old, pattern, new) ==
    IF new = {} THEN {l \in old : ~ l.pattern \subseteq pattern}
    ELSE {l \in old : l.pattern # pattern} \cup new

-----------------------------------------------------------------------------
(* CAmActionSetVolumeCore: what is to be reached, by connection and by element *)

IsMute(l) == l.type = "absolute" /\ l.level = AM_MUTE
Lowest(ls, type) == Min({l.level : l \in {k \in ls : k.type = type /\ ~IsMute(k)}} \cup {AM_VOLUME_NO_LIMIT})

\* _getConnectionVolumes()
Wanted(ls, c) ==
    [volume |-> VolumeIn(volumes, c),
     offset |-> Lowest(LimitsOn(ls, c), "absolute"),
     relative |-> Lowest(LimitsOn(ls, c), "relative"),
     muted |-> \E l \in LimitsOn(ls, c) : IsMute(l)]

\* _setupVolumeMatrix(): it runs over the map in its order, and puts in the connections that
\* share an element with the one it has come to; of those it meets the ones that come later.
Involved(addressed) ==
    LET Linked(c) == UNION {Uses(e) : e \in Range(ElementsOf[c])} IN
    FoldLeft(LAMBDA cs, c : IF c \in cs THEN cs \cup Linked(c) ELSE cs,
             addressed, [c \in VConnections |-> c])

\* _resolveRelativeLimits(): relative to all other connections of the map, in its order.
MutResolvedOverwrites(wanted) ==
    [c \in DOMAIN wanted |->
        IF wanted[c].relative = AM_VOLUME_NO_LIMIT \/ DOMAIN wanted = {c} THEN wanted[c]
        ELSE [wanted[c] EXCEPT !.offset =
                Min({0} \cup {wanted[d].volume + wanted[d].offset + wanted[c].relative - wanted[c].volume
                       : d \in DOMAIN wanted \ {c}})]]
Resolved(wanted) ==
    LET offset[c \in DOMAIN wanted] ==
            IF wanted[c].relative = AM_VOLUME_NO_LIMIT THEN wanted[c].offset
            ELSE Min({wanted[c].offset} \cup
                     {wanted[d].volume + (IF d < c THEN offset[d] ELSE wanted[d].offset)
                        + wanted[c].relative - wanted[c].volume : d \in DOMAIN wanted \ {c}})
    IN [c \in DOMAIN wanted |-> [wanted[c] EXCEPT !.offset = offset[c]]]

\* One round of the loop of _calculateElementVolumes() for element e of connection c: what
\* the connection lacks, _getVolumeDiff(), goes to the element, if no other one uses it.
Balanced(want, c, vs, e) ==
    IF ~Private(e) THEN vs
    ELSE [vs EXCEPT ![e] =
        [volume |-> Clamp(@.volume + want.volume - VolumeIn(vs, c)),
         offset |-> Clamp(@.offset + want.offset - OffsetIn(vs, c)),
         muted |-> IF MutedIn(vs, c) = want.muted THEN @.muted ELSE want.muted]]

\* _calculateElementVolumes() for the connections addressed.  The map holds the linked ones
\* too, under the limits ls, but nothing of theirs is changed: they are not adjustable.  No
\* two connections share an element that is changed.
Calculated(wanted, ls, fromSource) ==
    LET linked == Involved(DOMAIN wanted) \ DOMAIN wanted
        resolved == Resolved(wanted @@ [c \in linked |-> Wanted(ls, c)])
        Along(c) == IF fromSource THEN Reverse(ElementsOf[c]) ELSE ElementsOf[c]
        For(c, vs) == FoldLeft(LAMBDA ws, e : Balanced(resolved[c], c, ws, e), vs, Along(c))
    IN FoldSet(For, volumes, DOMAIN wanted)

\* The children, one for each element that is to be changed: _createActionSetElementVolume().
Children(target) ==
    LET Changed(e) == target[e] # volumes[e] IN
    [i \in 1..Cardinality({e \in VolumeElements : Changed(e)}) |->
        LET e == SelectSeq([k \in VolumeElements |-> k], Changed)[i] IN
        [element |-> e, want |-> target[e], was |-> volumes[e]]]

\* updateMainVolume() for connections cs
MainVolumes(vs, cs) ==
    [c \in VConnections |-> IF c \in cs THEN MainOf(VolumeIn(vs, c)) ELSE mainVolume[c]]

\* The container's execute(): nothing to be changed is done at once.
Start(target, changed) ==
    LET children == Children(target) IN
    /\ started' = started + 1
    /\ IF children = <<>>
       THEN mainVolume' = MainVolumes(volumes, changed) /\ UNCHANGED action
       ELSE /\ action' = [phase |-> "executing", children |-> children, at |-> 1,
                          changed |-> changed, before |-> volumes]
            /\ UNCHANGED mainVolume

Idle == action.phase = "idle"
MayStart == Idle /\ started < MaxActions

-----------------------------------------------------------------------------
(* The actions: _execute() *)

\* What limits are kept in and which connections are addressed, by class, by connection and
\* by source or sink.  Limits for a connection are those of its class.
OfVClass(k) == {c \in VConnections : VClassOf[c] = k}
Targets ==
    {[holder |-> k, connections |-> OfVClass(k)] : k \in VClasses}
    \cup {[holder |-> VClassOf[c], connections |-> {c}] : c \in VConnections}

WithLimit(holder, pattern, new) == [limits EXCEPT ![holder] = LimitState(@, pattern, new)]
AbsoluteLimit(pattern, level) == [pattern |-> pattern, type |-> "absolute", level |-> level]

\* CAmActionMute for a class or connection.  The connections were read before the limits
\* change, and the requested state overrides what the limits left say.
Mute(t, muted, pattern) ==
    /\ MayStart
    /\ limits' = WithLimit(t.holder, pattern,
                           IF muted THEN {AbsoluteLimit(pattern, AM_MUTE)} ELSE {})
    /\ Start(Calculated([c \in t.connections |-> [Wanted(limits, c) EXCEPT !.muted = muted]],
                        limits, FALSE), {})
    /\ loosened' = loosened \ t.connections
    /\ UNCHANGED <<volumes, routed, bypassed>>

\* CAmActionMute for a source or sink
MuteElement(e, muted, pattern) ==
    /\ MayStart
    /\ limits' = WithLimit(e, pattern, IF muted THEN {AbsoluteLimit(pattern, AM_MUTE)} ELSE {})
    /\ Start([volumes EXCEPT ![e].muted = muted], {})
    /\ bypassed' = TRUE
    /\ UNCHANGED <<volumes, routed, loosened>>

\* CAmActionLimit for a class or connection; new is {} for ACTION_UNLIMIT.  Of a class that is
\* limited through one of its connections the others stay as loud as they are.
Limit(t, pattern, new) ==
    /\ MayStart
    /\ limits' = WithLimit(t.holder, pattern, new)
    /\ Start(Calculated([c \in t.connections |-> Wanted(limits', c)], limits', TRUE), {})
    /\ loosened' = (loosened \cup OfVClass(t.holder)) \ t.connections
    /\ UNCHANGED <<volumes, routed, bypassed>>

\* CAmActionLimit for a source or sink: its own limits alone count.
LimitElement(e, pattern, new) ==
    /\ MayStart
    /\ limits' = WithLimit(e, pattern, new)
    /\ Start([volumes EXCEPT ![e].muted = \E l \in limits'[e] : IsMute(l),
                             ![e].offset = Lowest(limits'[e], "absolute")], {})
    /\ bypassed' = TRUE
    /\ UNCHANGED <<volumes, routed, loosened>>

\* _prepareBalancedRequest() for one of the connections that t addresses.  A change of the main
\* volume is compensated by the offset: _compensateMainVolumeChange().
Requested(t, volume, isMain, c) ==
    LET w == Wanted(limits, c)
        v == IF Cardinality(t.connections) = 1 \/ volume < w.offset THEN volume ELSE w.volume
        rise == v - w.volume
    IN [w EXCEPT !.volume = v,
                 !.offset = IF isMain /\ rise # 0 /\ @ < AM_VOLUME_NO_LIMIT
                            THEN Min({AM_VOLUME_NO_LIMIT, @ + @ - OffsetIn(volumes, c) - rise})
                            ELSE @]

\* CAmActionSetVolume for a class or connection.  Compensation takes the offset for that of the
\* absolute limits alone: one that was lower still comes out above them.
SetVolume(t, volume, isMain) ==
    /\ MayStart
    /\ LET wanted == [c \in t.connections |-> Requested(t, volume, isMain, c)]
           changed == {c \in t.connections : wanted[c].volume # VolumeIn(volumes, c)}
           below == {c \in changed : OffsetIn(volumes, c) < Wanted(limits, c).offset}
       IN /\ Start(Calculated(wanted, limits, FALSE), {c \in changed : ~wanted[c].muted})
          /\ loosened' = (loosened \ t.connections) \cup (IF isMain THEN below ELSE {})
    /\ UNCHANGED <<limits, volumes, routed, bypassed>>

\* CAmActionSetVolume for a source or sink in internal scale.  The loop that is to update the
\* connections runs over a list that nobody has filled.
SetElementVolume(e, volume) ==
    /\ MayStart
    /\ Start([volumes EXCEPT ![e].volume = Clamp(volume)], {})
    /\ bypassed' = TRUE
    /\ UNCHANGED <<limits, volumes, routed, loosened>>

-----------------------------------------------------------------------------
(* CAmActionSetElementVolume: execution, undoing and the answers *)

Child == action.children[action.at]

\* The routing side has done what a child asked for: its _update() remembers that, and the
\* last child completes the action, whose _update() brings the main volumes up to date.
AckVolume ==
    /\ action.phase = "executing"
    /\ volumes' = [volumes EXCEPT ![Child.element] = Child.want]
    /\ routed' = [routed EXCEPT ![Child.element] = Heard(Child.want)]
    /\ IF action.at < Len(action.children)
       THEN action' = [action EXCEPT !.at = @ + 1] /\ UNCHANGED mainVolume
       ELSE action' = IDLE /\ mainVolume' = MainVolumes(volumes', action.changed)
    /\ UNCHANGED <<limits, started, bypassed, loosened>>

\* A child has failed: the children before it are undone in reverse order.  Limits are not
\* taken back: _undo() is not called, for nobody marks a mute or limit action as undoable.
RefuseVolume ==
    /\ action.phase = "executing"
    /\ action' = IF action.at = 1 THEN IDLE ELSE [action EXCEPT !.phase = "undoing", !.at = @ - 1]
    /\ bypassed' = TRUE
    /\ UNCHANGED <<limits, volumes, routed, mainVolume, started, loosened>>

\* An answer to undo(): whatever it is, the element's old volume is remembered.
MutAckUndoForgets(done) ==
    /\ action.phase = "undoing" /\ (done \/ UndoIsRefused)
    /\ routed' = IF done THEN [routed EXCEPT ![Child.element] = Heard(Child.was)] ELSE routed
    /\ action' = IF action.at > 1 THEN [action EXCEPT !.at = @ - 1] ELSE IDLE
    /\ UNCHANGED <<volumes, mainVolume, limits, started, bypassed, loosened>>
AckUndo(done) ==
    /\ action.phase = "undoing" /\ (done \/ UndoIsRefused)
    /\ volumes' = [volumes EXCEPT ![Child.element] = Child.was]
    /\ routed' = IF done THEN [routed EXCEPT ![Child.element] = Heard(Child.was)] ELSE routed
    /\ IF action.at > 1
       THEN action' = [action EXCEPT !.at = @ - 1] /\ UNCHANGED mainVolume
       ELSE /\ action' = IDLE
            /\ mainVolume' = IF done THEN MainVolumes(volumes', action.changed) ELSE mainVolume
    /\ UNCHANGED <<limits, started, bypassed, loosened>>

VolumeInit ==
    /\ limits = [k \in VClasses \cup VolumeElements |-> {}]
    /\ \E start \in [VolumeElements -> StartVolumes] :
         /\ volumes = [e \in VolumeElements |-> [volume |-> start[e], offset |-> 0, muted |-> FALSE]]
         /\ routed = start
    /\ mainVolume = [c \in VConnections |-> MainOf(VolumeIn(volumes, c))]
    /\ action = IDLE /\ started = 0 /\ bypassed = FALSE /\ loosened = {}

NewLimits(pattern) ==
    {{}} \cup UNION {{{[pattern |-> pattern, type |-> k, level |-> v]} : v \in Levels[k]} : k \in DOMAIN Levels}

VolumeNext ==
    \/ \E t \in Targets, pattern \in LimitPatterns :
          \/ \E muted \in BOOLEAN : Mute(t, muted, pattern)
          \/ \E new \in NewLimits(pattern) : Limit(t, pattern, new)
    \/ \E e \in DirectTargets, pattern \in LimitPatterns :
          \/ \E muted \in BOOLEAN : MuteElement(e, muted, pattern)
          \/ \E new \in NewLimits(pattern) : LimitElement(e, pattern, new)
    \/ \E t \in Targets, v \in StartVolumes, isMain \in BOOLEAN : SetVolume(t, v, isMain)
    \/ \E e \in DirectTargets, v \in StartVolumes : SetElementVolume(e, v)
    \/ AckVolume \/ RefuseVolume
    \/ \E done \in BOOLEAN : AckUndo(done)

VolumeSpec == VolumeInit /\ [][VolumeNext]_volumeVars

-----------------------------------------------------------------------------
(* Properties *)

\* What the controller takes an element's volume to be is what the routing side has set,
\* through any sequence of changes, refusals and undone actions, and an action that was
\* undone leaves every volume as it was.
TracksRouting ==
    /\ \A e \in VolumeElements : routed[e] = Heard(volumes[e])
    /\ action.phase = "undoing" =>
         \A e \in VolumeElements : (\A i \in 1..action.at : action.children[i].element # e)
            => volumes[e] = action.before[e]

\* What c sounds with is within the absolute limits of its class, or the elements of its own
\* are turned down as far as they go.
WithinLimits(c) ==
    \A l \in {k \in limits[VClassOf[c]] : k.type = "absolute" /\ ~IsMute(k)} :
        \/ VolumeIn(volumes, c) + OffsetIn(volumes, c) <= l.level
        \/ \A e \in Range(ElementsOf[c]) : Private(e) => volumes[e].offset = MinVolume

Adjustable == {c \in VConnections : \E e \in Range(ElementsOf[c]) : Private(e)}

\* An absolute limit is kept, whatever relative limits, mutes and volumes of this and of linked
\* connections come and go, until the main volume is changed from an offset below the limit,
\* or the class is limited through another connection; the next action on the connection puts
\* it back under the limit.
LimitHolds == Idle /\ ~bypassed => \A c \in Adjustable \ loosened : WithinLimits(c)

\* CAmActionLimit.h:17: "Absolute limit means that the volume of the connection cannot be higher
\* than the specified limit."  (Violated: turned up once and down again, a limited
\* connection is as loud as without the limit.)
AbsoluteLimitHolds == Idle /\ ~bypassed => \A c \in Adjustable : WithinLimits(c)

\* The page on ACTION_MUTE: patterns distinguish between multiple independent limitations,
\* and an unmute removes those its mask covers.  While a mute is left the class is silent.
\* (Violated: an unmute of one pattern lifts the mute of another.)
MutedIsSilent ==
    Idle /\ ~bypassed =>
        \A c \in Adjustable : ((\E l \in limits[VClassOf[c]] : IsMute(l)) => MutedIn(volumes, c))

\* The main volume of a connection is that of its elements.  (Violated: actions on one
\* connection do not update the others that share its sink.)
MainVolumeIsCurrent ==
    Idle => \A c \in VConnections : mainVolume[c] = MainOf(VolumeIn(volumes, c))
=============================================================================
