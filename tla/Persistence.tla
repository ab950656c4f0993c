----------------------------- MODULE Persistence -----------------------------
(***************************************************************************)
(* What the generic controller remembers from one run of the audio manager *)
(* to the next: the volumes, connections and properties that classes and   *)
(* the system element collect, their way into the file at the rundown, and *)
(* back at the start and when the domains have registered.                 *)
(*                                                                         *)
(* The file is that of the default implementation, CAmPersistenceDefault.  *)
(* It is written once, at the rundown; a crash leaves it as it was.        *)
(***************************************************************************)
EXTENDS Integers, Sequences, FiniteSets, SequencesExt, TLC

CONSTANTS
    PClasses,         \* the classes, in the order of the configuration
    Ends,             \* sources and sinks
    Links,            \* pairs <<source, sink>> that can be connected
    ClassOfLink, ClassOfEnd,
    KeepsVolumes,     \* classes with isVolumePersistencySupported
    PerSink,          \* classes with CP_PER_SINK_CLASS_VOLUME_SUPPORT
    KeepsLinks,       \* links with a source or sink that has isPersistencySupported
    KeepsLinkVolumes, \* the same for isVolumePersistencySupported
    PDomains, DomainOfEnd,
    KeptVolumes,      \* main volumes users set
    PropTypes, PropValues,
    MaxChanges,       \* bound on the changes of one run
    MaxRuns           \* bound on the runs

CLASS_LEVEL_SINK == "*"
MAX_NEG_VOL == -32768
Classes == ToSet(PClasses)

ASSUME PersistenceAssumption ==
    /\ Links \subseteq Ends \X Ends /\ KeepsLinks \subseteq Links
    /\ ClassOfLink \in [Links -> Classes]
    /\ KeptVolumes \cup PropValues \subseteq Nat /\ {MaxChanges, MaxRuns} \subseteq Nat
    /\ CLASS_LEVEL_SINK \notin Ends

VARIABLES
    mode,       \* "down" or "up"
    held,       \* per class mClassLastVolume and mLastMainConnectionsVolume
    links,      \* the main connections and what they are doing, "none" if there is none
    kept,       \* mLastMainSoundProperties of all classes: Seq of [end, props]
    restored,   \* mLastMainSoundPropertiesFromPersistence: likewise
    system,     \* mListLastSystemProperties
    present,    \* sources and sinks that are registered
    complete,   \* domains that have registered completely
    file,       \* the file, and what mFileData holds of it
    changes,    \* bound: changes in this run
    runs,       \* bound: runs so far
    saved,      \* history: held, links, kept and system at the last rundown
    unrouted    \* history: links without a route when connections were last restored

persistenceVars ==
    <<mode, held, links, kept, restored, system, present, complete, file, changes, runs, saved,
      unrouted>>

Empty == [x \in {} |-> 0]
NoFile == Empty
With(f, k, v) == [x \in {k} \cup DOMAIN f |-> IF x = k THEN v ELSE f[x]]
Only(f, S) == [x \in DOMAIN f \cap S |-> f[x]]
Sink(l) == l[2]
Untouched == changes = 0
NoVolumes == [c \in Classes |-> [volumes |-> Empty, linkVolumes |-> Empty]]

-----------------------------------------------------------------------------
(* Collecting *)

\* _setLastClassVolume()
ClassVolume(h, c, sink, v) ==
    IF c \in KeepsVolumes \cup PerSink
    THEN [h EXCEPT ![c].volumes = With(@, IF c \in PerSink THEN sink ELSE CLASS_LEVEL_SINK, v)]
    ELSE h

\* setLastVolume() for a connection, with _setLastMainConnectionVolume()
LinkVolume(h, l, v) ==
    LET c == ClassOfLink[l] IN
    ClassVolume(IF l \in KeepsLinkVolumes THEN [h EXCEPT ![c].linkVolumes = With(@, l, v)] ELSE h,
                c, Sink(l), v)

\* setLastSoundProperty(): updated where it is, or appended
WithProperty(list, e, type, v) ==
    IF \E i \in 1..Len(list) : list[i].end = e
    THEN [i \in 1..Len(list) |->
            IF list[i].end = e THEN [list[i] EXCEPT !.props = With(@, type, v)] ELSE list[i]]
    ELSE Append(list, [end |-> e, props |-> type :> v])

\* Properties a set action has set one after the other: in the order of their types.
WithProperties(list, e, props) ==
    FoldLeft(LAMBDA acc, t : IF t \in DOMAIN props THEN WithProperty(acc, e, t, props[t]) ELSE acc,
             list, SetToSeq(PropTypes))

-----------------------------------------------------------------------------
(* Writing and reading the file *)

\* getMainConnectionString(): connections on their way from one state to another are left out.
StoredLinks ==
    {l \in KeepsLinks : links[l] \in {"connected", "suspended", "disconnected"}}

\* Values of sound properties go through substr(0, 1), which is to cut off the bracket.
FirstCharacter[v \in Nat] == IF v < 10 THEN v ELSE FirstCharacter[v \div 10]

\* _stringToStruct(): the entry of a class, merged from the strings of the first three keys.
OrElse(f, x, unset) == IF x \in DOMAIN f THEN f[x] ELSE unset

LinkEntries(c, unset) ==
    LET valid == {l \in StoredLinks : ClassOfLink[l] = c} IN
    [l \in valid \cup DOMAIN held[c].linkVolumes |->
        [volume |-> OrElse(held[c].linkVolumes, l, unset), lastConnectionValid |-> l \in valid]]

EntryOf(c, unset) ==
    LET volumes == IF c \in KeepsVolumes THEN held[c].volumes ELSE Empty
        sinks == (DOMAIN volumes \ {CLASS_LEVEL_SINK}) \cup {Sink(l) : l \in DOMAIN LinkEntries(c, unset)}
    IN [volume |-> OrElse(volumes, CLASS_LEVEL_SINK, unset),
        sinks |-> [s \in sinks |-> OrElse(volumes, s, unset)],
        links |-> LinkEntries(c, unset)]
MutWrittenNoSentinel(c) == EntryOf(c, 0)
Written(c) == EntryOf(c, MAX_NEG_VOL)

\* _lastMainSoundPropertyStruct(): the elements class by class, every value cut.
WrittenProperties ==
    LET OfClass(c) == SelectSeq(kept, LAMBDA k : ClassOfEnd[k.end] = c)
        InOrder == FlattenSeq([i \in 1..Len(PClasses) |-> OfClass(PClasses[i])])
    IN [i \in 1..Len(InOrder) |->
          [end |-> InOrder[i].end,
           props |-> [t \in DOMAIN InOrder[i].props |-> FirstCharacter[InOrder[i].props[t]]]]]

\* _structTostring() and the restore functions of the controller: what was not set is left out.
\* A file without entries counts as none: E_WRONG_FORMAT.
Readable == file # NoFile

ReadClassVolumes(c) ==
    LET entry == file.classes[c]
        each == [s \in {k \in DOMAIN entry.sinks : entry.sinks[k] # MAX_NEG_VOL} |-> entry.sinks[s]]
    IN IF entry.volume = MAX_NEG_VOL THEN each ELSE With(each, CLASS_LEVEL_SINK, entry.volume)

ReadLinkVolumes(c) ==
    LET entries == file.classes[c].links IN
    [l \in {k \in DOMAIN entries : entries[k].volume # MAX_NEG_VOL} |-> entries[l].volume]

ReadVolumes(c) == [volumes |-> ReadClassVolumes(c), linkVolumes |-> ReadLinkVolumes(c)]

\* The buffer for the properties of an element is never emptied: each element gets those of
\* all elements before it as well.
Buffer(i) == FoldLeft(LAMBDA acc, k : k.props @@ acc, Empty, SubSeq(file.properties, 1, i))

\* Properties are set in their order, the own ones last.
ReadProperties ==
    [i \in 1..Len(file.properties) |-> [end |-> file.properties[i].end, props |-> Buffer(i)]]

ReadSystem == IF Readable THEN file.system ELSE Empty

-----------------------------------------------------------------------------
(* One run of the audio manager *)

\* startupController(): the system properties are set through triggers, and the actions
\* these lead to may fail.
Startup(set) ==
    /\ mode = "down" /\ mode' = "up"
    /\ set \subseteq DOMAIN ReadSystem
    /\ held' = IF Readable THEN [c \in Classes |-> ReadVolumes(c)] ELSE NoVolumes
    /\ restored' = IF Readable THEN ReadProperties ELSE <<>>
    /\ system' = Only(ReadSystem, set)
    /\ runs < MaxRuns /\ runs' = runs + 1
    /\ UNCHANGED <<links, kept, present, complete, changes, file, saved, unrouted>>

\* A source or sink registers; what is remembered of its properties is set through triggers,
\* and again these actions may fail: set are the ones that do not.
RegisterEnd(e, set) ==
    LET own == SelectSeq(restored, LAMBDA k : k.end = e)
        props == IF own = <<>> THEN Empty ELSE own[1].props
    IN
    /\ mode = "up" /\ e \notin present /\ DomainOfEnd[e] \notin complete
    /\ set \subseteq DOMAIN props
    /\ present' = present \cup {e}
    /\ kept' = WithProperties(kept, e, Only(props, set))
    /\ UNCHANGED <<mode, held, links, restored, system, complete, file, changes, runs, saved, unrouted>>

\* _restoreConnectionsFromPersistency(): those of registered sources and sinks are created.
Restorable(stored) ==
    [l \in Links |->
        IF l \in stored /\ {l[1], l[2]} \subseteq present /\ links[l] = "none"
        THEN "unknown" ELSE links[l]]

StoredEntries ==
    IF Readable THEN [l \in Links |-> {file.classes[c].links[l] : c \in
                          {k \in Classes : l \in DOMAIN file.classes[k].links}}]
    ELSE [l \in Links |-> {}]
MutRestoredLinks == Restorable({l \in Links : \E entry \in StoredEntries[l] : entry.volume # MAX_NEG_VOL})
RestoredLinks == Restorable({l \in Links : \E entry \in StoredEntries[l] : entry.lastConnectionValid})

\* A connection is not created if its class or a route is missing; the others are.
Restored(failing) ==
    /\ failing \subseteq {l \in Links : RestoredLinks[l] # links[l]}
    /\ links' = [l \in Links |-> IF l \in failing THEN links[l] ELSE RestoredLinks[l]]
    /\ unrouted' = failing

\* hookSystemDomainRegistrationComplete(): the last domain restores the connections, and so
\* does any domain that reports completion after it.
DomainComplete(d, failing) ==
    /\ mode = "up"
    /\ complete' = complete \cup {d}
    /\ IF complete' = PDomains THEN Restored(failing)
       ELSE failing = {} /\ UNCHANGED <<links, unrouted>>
    /\ UNCHANGED <<mode, held, kept, restored, system, present, file, changes, runs, saved>>

\* _domainRegistrationTimeout(): what can be restored is restored.
DomainTimeout(failing) ==
    /\ mode = "up" /\ complete # PDomains
    /\ Restored(failing)
    /\ UNCHANGED <<mode, held, kept, restored, system, present, complete, file, changes, runs, saved>>

Change == mode = "up" /\ changes < MaxChanges /\ changes' = changes + 1

\* A connection is made or taken up, passes to another state, arrives there, and is disposed.
LinkMoves(l) ==
    /\ Change /\ {l[1], l[2]} \subseteq present
    /\ links[l] # "moving" /\ links' = [links EXCEPT ![l] = "moving"]
    /\ UNCHANGED <<mode, held, kept, restored, system, present, complete, file, runs, saved, unrouted>>

\* CAmActionConnect::_update(): a connection that is connected has its volume remembered.
LinkArrives(l, state, v) ==
    /\ mode = "up" /\ links[l] = "moving"
    /\ links' = [links EXCEPT ![l] = state]
    /\ held' = IF state = "connected" THEN LinkVolume(held, l, v) ELSE held
    /\ UNCHANGED <<mode, kept, restored, system, present, complete, file, changes, runs, saved, unrouted>>

SetLinkVolume(l, v) ==
    /\ Change /\ links[l] = "connected"
    /\ held' = LinkVolume(held, l, v)
    /\ UNCHANGED <<mode, links, kept, restored, system, present, complete, file, runs, saved, unrouted>>

\* CAmActionSetVolume for a class and sink: setLastVolume() without a connection
SetSinkVolume(c, s, v) ==
    /\ Change /\ s \in present
    /\ held' = ClassVolume(held, c, s, v)
    /\ UNCHANGED <<mode, links, kept, restored, system, present, complete, file, runs, saved, unrouted>>

SetProperty(e, type, v) ==
    /\ Change /\ e \in present
    /\ kept' = WithProperty(kept, e, type, v)
    /\ UNCHANGED <<mode, held, links, restored, system, present, complete, file, runs, saved, unrouted>>

SetSystemProperty(type, v) ==
    /\ Change
    /\ system' = With(system, type, v)
    /\ UNCHANGED <<mode, held, links, kept, restored, present, complete, file, runs, saved, unrouted>>

MemoryIsGone ==
    /\ held' = NoVolumes /\ links' = [l \in Links |-> "none"]
    /\ kept' = <<>> /\ restored' = <<>> /\ system' = Empty
    /\ present' = {} /\ complete' = {} /\ changes' = 0 /\ unrouted' = {}
    /\ UNCHANGED runs

\* finalizeRundown() and the destructor of CAmPersistenceDefault.  Without any entry the file
\* has neither classes nor system properties.
RundownStores ==
    /\ mode = "up" /\ mode' = "down"
    /\ LET some == \/ \E c \in Classes : DOMAIN held[c].linkVolumes # {}
                   \/ \E c \in KeepsVolumes : DOMAIN held[c].volumes # {}
                   \/ StoredLinks # {} \/ kept # <<>>
       IN file' = IF some \/ DOMAIN system # {}
                  THEN [classes |-> [c \in Classes |-> Written(c)],
                        properties |-> WrittenProperties, system |-> system]
                  ELSE NoFile
    /\ saved' = [held |-> [c \in Classes |->
                             IF c \in KeepsVolumes THEN held[c] ELSE [held[c] EXCEPT !.volumes = Empty]],
                 links |-> StoredLinks, kept |-> kept, system |-> system]
    /\ MemoryIsGone

\* The process dies, or is killed for it never finishes its rundown.
Crash ==
    /\ mode = "up" /\ mode' = "down" /\ MemoryIsGone
    /\ UNCHANGED <<file, saved>>

PersistenceInit ==
    /\ mode = "down" /\ file = NoFile
    /\ held = NoVolumes /\ links = [l \in Links |-> "none"]
    /\ kept = <<>> /\ restored = <<>> /\ system = Empty
    /\ present = {} /\ complete = {} /\ changes = 0 /\ runs = 0 /\ unrouted = {}
    /\ saved = [held |-> NoVolumes, links |-> {}, kept |-> <<>>, system |-> Empty]

PersistenceNext ==
    \/ \E set \in SUBSET PropTypes : Startup(set) \/ \E e \in Ends : RegisterEnd(e, set)
    \/ \E failing \in SUBSET Links :
          DomainTimeout(failing) \/ \E d \in PDomains : DomainComplete(d, failing)
    \/ \E l \in Links : LinkMoves(l)
    \/ \E l \in Links, state \in {"connected", "suspended", "disconnected", "none"}, v \in KeptVolumes :
          LinkArrives(l, state, v)
    \/ \E l \in Links, v \in KeptVolumes : SetLinkVolume(l, v)
    \/ \E l \in Links, v \in KeptVolumes : SetSinkVolume(ClassOfLink[l], Sink(l), v)
    \/ \E e \in Ends, t \in PropTypes, v \in PropValues : SetProperty(e, t, v)
    \/ \E t \in PropTypes, v \in PropValues : SetSystemProperty(t, v)
    \/ RundownStores \/ Crash

PersistenceSpec == PersistenceInit /\ [][PersistenceNext]_persistenceVars

-----------------------------------------------------------------------------
(* Properties *)

\* A new run starts from exactly the volumes the last orderly rundown left, of classes, of
\* single sinks and of connections, however the runs between have ended.
VolumesSurvive == mode = "up" /\ Untouched => held = saved.held

\* When the last domain has registered, the connections of the last rundown are there, those
\* whose source and sink are and that have a route, whichever of the others fail; and while
\* nobody has touched a connection there are no others.
ConnectionsComeBack ==
    [][complete # PDomains /\ complete' = PDomains =>
         \A l \in Links :
            /\ l \in saved.links \ unrouted' /\ {l[1], l[2]} \subseteq present => links'[l] # "none"
            /\ Untouched /\ links'[l] # "none" => l \in saved.links]_persistenceVars

\* The page on persistency: the sound properties are to get restored back to the respective
\* source or sink during the next start.  (Violated: the value is cut to its first character.)
SoundPropertiesSurvive ==
    mode = "up" => \A i \in 1..Len(restored) : restored[i] \in ToSet(saved.kept)
=============================================================================
