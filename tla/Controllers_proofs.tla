-------------------------- MODULE Controllers_proofs --------------------------
(***************************************************************************)
(* Theorems about the services of the generic controller: its volumes, its *)
(* registrations, what it remembers from run to run and how it is run down,*)
(* for every set of elements, connections and classes.                     *)
(***************************************************************************)
EXTENDS VolumeControl, Persistence, Registry, Rundown, SoundProperties, FiniteSetTheorems,
        SequenceTheorems, WellFoundedInduction, TLAPS

-----------------------------------------------------------------------------
(* VolumeControl *)

\* All elements but those of the first n children are as they were before the action.
UnchangedBut(n) ==
    \A e \in VolumeElements :
        (\A i \in 1..n : action.children[i].element # e) => volumes[e] = action.before[e]

VolumeShape ==
    /\ volumes = [e \in VolumeElements |-> volumes[e]]
    /\ action = [phase |-> action.phase, children |-> action.children, at |-> action.at,
                 changed |-> action.changed, before |-> action.before]
    /\ action.phase \in {"idle", "executing", "undoing"}

Tracked == routed = [e \in VolumeElements |-> Heard(volumes[e])]

\* An action under way has a current child, and every child knows what its element was.
ChildrenKnow ==
    action.phase # "idle" =>
        /\ Len(action.children) \in Nat /\ action.at \in 1..Len(action.children)
        /\ \A i \in 1..Len(action.children) :
              action.children[i].was = action.before[action.children[i].element]

Progress ==
    /\ action.phase = "executing" => UnchangedBut(action.at - 1)
    /\ action.phase = "undoing" => UnchangedBut(action.at)

VolumeInv == VolumeShape /\ Tracked /\ ChildrenKnow /\ Progress

LEMMA MaxOfTwo ==
    ASSUME NEW a \in Int, NEW b \in Int
    PROVE  Max({a, b}) = IF a >= b THEN a ELSE b
<1>1. \E x \in {a, b} : \A y \in {a, b} : x >= y
  BY SMT
<1>2. Max({a, b}) \in {a, b} /\ \A y \in {a, b} : Max({a, b}) >= y
  BY <1>1 DEF Max
<1> QED
  BY <1>2, SMT

LEMMA MinOfTwo ==
    ASSUME NEW a \in Int, NEW b \in Int
    PROVE  Min({a, b}) = IF a <= b THEN a ELSE b
<1>1. \E x \in {a, b} : \A y \in {a, b} : x <= y
  BY SMT
<1>2. Min({a, b}) \in {a, b} /\ \A y \in {a, b} : Min({a, b}) <= y
  BY <1>1 DEF Min
<1> QED
  BY <1>2, SMT

\* A volume between the minimum and the maximum, 0, is not clamped.
LEMMA ClampKeeps ==
    ASSUME MinVolume \in Int, NEW v \in Int, MinVolume <= v, v <= 0
    PROVE  Clamp(v) = v
<1>1. Min({0, v}) = v
  BY MinOfTwo
<1>2. Max({MinVolume, v}) = v
  BY MaxOfTwo
<1> QED
  BY <1>1, <1>2 DEF Clamp

\* The children of an action are a sequence, and remember the volumes of now.
LEMMA ChildrenFacts ==
    ASSUME NEW target
    PROVE  /\ Len(Children(target)) \in Nat
           /\ Children(target) # <<>> => 1 \in 1..Len(Children(target))
           /\ \A i \in 1..Len(Children(target)) :
                 Children(target)[i].was = volumes[Children(target)[i].element]
<1> DEFINE Changed(e) == target[e] # volumes[e]
           n == Cardinality({e \in VolumeElements : Changed(e)})
           el(i) == SelectSeq([k \in VolumeElements |-> k], Changed)[i]
<1>1. IsFiniteSet({e \in VolumeElements : Changed(e)})
  BY VolumeAssumption, FS_Subset
<1>2. n \in Nat
  BY <1>1, FS_CardinalityType
<1> HIDE DEF n, el
<1>3. Children(target) = [i \in 1..n |-> [element |-> el(i), want |-> target[el(i)],
                                          was |-> volumes[el(i)]]]
  BY DEF Children, n, el
<1>4. Len(Children(target)) = n /\ DOMAIN Children(target) = 1..n
  BY <1>2, <1>3
<1>5. Children(target) # <<>> => n # 0
  BY <1>2, <1>3
<1>6. \A i \in 1..n : Children(target)[i].was = volumes[Children(target)[i].element]
  BY <1>3
<1> QED
  BY <1>2, <1>4, <1>5, <1>6

LEMMA VolumesStartTracked == VolumeInit => VolumeInv
<1> SUFFICES ASSUME VolumeInit PROVE VolumeInv
  OBVIOUS
<1>1. PICK start \in [VolumeElements -> StartVolumes] :
        /\ volumes = [e \in VolumeElements |-> [volume |-> start[e], offset |-> 0, muted |-> FALSE]]
        /\ routed = start
  BY DEF VolumeInit
<1>2. action = IDLE
  BY DEF VolumeInit
<1>3. VolumeShape /\ ChildrenKnow /\ Progress
  BY <1>1, <1>2 DEF VolumeShape, ChildrenKnow, Progress, IDLE
<1>4. ASSUME NEW e \in VolumeElements PROVE Heard(volumes[e]) = start[e]
  <2>1. start[e] \in Int /\ start[e] <= 0 /\ MinVolume <= start[e] /\ MinVolume \in Int
    BY VolumeAssumption
  <2>2. /\ volumes[e].muted = FALSE /\ volumes[e].volume = start[e] /\ volumes[e].offset = 0
    BY <1>1
  <2>3. start[e] + 0 = start[e]
    BY <2>1
  <2>4. Clamp(start[e]) = start[e]
    BY <2>1, ClampKeeps
  <2> QED
    BY <2>2, <2>3, <2>4 DEF Heard
<1>5. Tracked
  BY <1>1, <1>4 DEF Tracked
<1> QED
  BY <1>3, <1>5 DEF VolumeInv

\* An action starts with all its elements as they are, or is done at once.
LEMMA StartKeeps ==
    ASSUME VolumeInv, Idle, NEW target, NEW cs, Start(target, cs), UNCHANGED <<volumes, routed>>
    PROVE  VolumeInv'
<1>1. VolumeShape' /\ Tracked'
  BY DEF VolumeInv, VolumeShape, Tracked, Heard, Clamp, Start
<1>2. CASE Children(target) = <<>>
  <2>1. action' = action /\ action.phase = "idle"
    BY <1>2 DEF Start, Idle
  <2>2. ChildrenKnow' /\ Progress'
    BY <2>1 DEF ChildrenKnow, Progress
  <2> QED
    BY <1>1, <2>2 DEF VolumeInv
<1>3. CASE Children(target) # <<>>
  <2>1. /\ action'.phase = "executing" /\ action'.children = Children(target) /\ action'.at = 1
        /\ action'.before = volumes /\ volumes' = volumes
    BY <1>3 DEF Start
  <2>2. ChildrenKnow'
    BY <2>1, <1>3, ChildrenFacts DEF ChildrenKnow
  <2>3. Progress'
    BY <2>1 DEF Progress, UnchangedBut
  <2> QED
    BY <1>1, <2>2, <2>3 DEF VolumeInv
<1> QED
  BY <1>2, <1>3

LEMMA AckVolumeKeeps ==
    ASSUME VolumeInv, AckVolume PROVE VolumeInv'
<1> USE DEF VolumeInv
<1> DEFINE n == action.at
           el == Child.element
           want == Child.want
<1>1. /\ action.phase = "executing" /\ n \in 1..Len(action.children)
      /\ Len(action.children) \in Nat /\ n \in Int
  BY DEF AckVolume, ChildrenKnow
<1>2. /\ volumes' = [volumes EXCEPT ![el] = want]
      /\ routed' = [routed EXCEPT ![el] = Heard(want)]
  BY DEF AckVolume
<1>3. volumes' = [e \in VolumeElements |-> volumes'[e]]
  BY <1>2 DEF VolumeShape
<1>4. routed' = [e \in VolumeElements |-> Heard(volumes'[e])]
  BY <1>2 DEF VolumeShape, Tracked
<1>5. Tracked'
  BY <1>4 DEF Tracked, Heard, Clamp
<1>6. CASE n < Len(action.children)
  <2>1. action' = [action EXCEPT !.at = @ + 1]
    BY <1>6 DEF AckVolume
  <2>2. /\ action'.phase = "executing" /\ action'.at = n + 1 /\ action'.children = action.children
        /\ action'.before = action.before
    BY <2>1, <1>1 DEF VolumeShape
  <2>3. VolumeShape'
    BY <2>1, <1>3, <1>1 DEF VolumeShape
  <2>4. ChildrenKnow'
    BY <2>2, <1>1, <1>6 DEF ChildrenKnow
  <2>5. ASSUME NEW e \in VolumeElements, \A i \in 1..n : action.children[i].element # e
        PROVE  volumes'[e] = action.before[e]
    <3>1. e # el
      BY <2>5, <1>1 DEF Child
    <3>2. volumes'[e] = volumes[e]
      BY <3>1, <1>2 DEF VolumeShape
    <3>3. UnchangedBut(n - 1)
      BY <1>1 DEF Progress
    <3>4. \A i \in 1..(n - 1) : i \in 1..n
      BY <1>1
    <3> QED
      BY <3>2, <3>3, <3>4, <2>5 DEF UnchangedBut
  <2>6. Progress'
    <3>1. 1..(action'.at - 1) = 1..n
      BY <1>1, <2>2
    <3> HIDE DEF n
    <3>2. ASSUME NEW e \in VolumeElements,
                 \A i \in 1..(action'.at - 1) : action'.children[i].element # e
          PROVE  volumes'[e] = action'.before[e]
      BY <3>1, <3>2, <2>2, <2>5
    <3> QED
      BY <2>2, <3>2 DEF Progress, UnchangedBut
  <2> QED
    BY <2>3, <2>4, <2>6, <1>5
<1>7. CASE ~(n < Len(action.children))
  <2>1. action' = IDLE
    BY <1>7 DEF AckVolume
  <2>2. VolumeShape' /\ ChildrenKnow' /\ Progress'
    BY <2>1, <1>3 DEF VolumeShape, ChildrenKnow, Progress, IDLE
  <2> QED
    BY <2>2, <1>5
<1> QED
  BY <1>6, <1>7

LEMMA RefuseVolumeKeeps ==
    ASSUME VolumeInv, RefuseVolume PROVE VolumeInv'
<1> USE DEF VolumeInv
<1>1. /\ action.phase = "executing" /\ action.at \in 1..Len(action.children)
      /\ Len(action.children) \in Nat /\ action.at \in Int
      /\ volumes' = volumes /\ routed' = routed
  BY DEF RefuseVolume, ChildrenKnow
<1>2. Tracked'
  BY <1>1 DEF Tracked, Heard, Clamp
<1>3. CASE action.at = 1
  <2>1. action' = IDLE
    BY <1>3 DEF RefuseVolume
  <2> QED
    BY <1>1, <1>2, <2>1 DEF VolumeShape, ChildrenKnow, Progress, IDLE
<1>4. CASE action.at # 1
  <2>1. action' = [action EXCEPT !.phase = "undoing", !.at = @ - 1]
    BY <1>4 DEF RefuseVolume
  <2>2. /\ action'.phase = "undoing" /\ action'.at = action.at - 1
        /\ action'.children = action.children /\ action'.before = action.before
    BY <2>1 DEF VolumeShape
  <2>3. VolumeShape'
    BY <2>1, <1>1 DEF VolumeShape
  <2>4. ChildrenKnow'
    BY <2>2, <1>1, <1>4 DEF ChildrenKnow
  <2>5. UnchangedBut(action.at - 1)
    BY <1>1 DEF Progress
  <2>6. Progress'
    BY <2>2, <2>5, <1>1 DEF Progress, UnchangedBut
  <2> QED
    BY <1>2, <2>3, <2>4, <2>6
<1> QED
  BY <1>3, <1>4

LEMMA AckUndoKeeps ==
    ASSUME VolumeInv, AckUndo(TRUE) PROVE VolumeInv'
<1> USE DEF VolumeInv
<1> DEFINE n == action.at
           el == Child.element
           was == Child.was
<1>1. /\ action.phase = "undoing" /\ n \in 1..Len(action.children)
      /\ Len(action.children) \in Nat /\ n \in Int
  BY DEF AckUndo, ChildrenKnow
<1>2. /\ volumes' = [volumes EXCEPT ![el] = was]
      /\ routed' = [routed EXCEPT ![el] = Heard(was)]
  BY DEF AckUndo
<1>3. volumes' = [e \in VolumeElements |-> volumes'[e]]
  BY <1>2 DEF VolumeShape
<1>4. routed' = [e \in VolumeElements |-> Heard(volumes'[e])]
  BY <1>2 DEF VolumeShape, Tracked
<1>5. Tracked'
  BY <1>4 DEF Tracked, Heard, Clamp
<1>6. CASE n > 1
  <2>1. action' = [action EXCEPT !.at = @ - 1]
    BY <1>6 DEF AckUndo
  <2>2. /\ action'.phase = "undoing" /\ action'.at = n - 1 /\ action'.children = action.children
        /\ action'.before = action.before
    BY <2>1, <1>1 DEF VolumeShape
  <2>3. VolumeShape'
    BY <2>1, <1>3, <1>1 DEF VolumeShape
  <2>4. ChildrenKnow'
    BY <2>2, <1>1, <1>6 DEF ChildrenKnow
  <2>5. was = action.before[el]
    BY <1>1 DEF ChildrenKnow, Child
  <2>6. ASSUME NEW e \in VolumeElements, \A i \in 1..(n - 1) : action.children[i].element # e
        PROVE  volumes'[e] = action.before[e]
    <3>1. CASE e = el
      BY <3>1, <2>5, <1>2 DEF VolumeShape
    <3>2. CASE e # el
      <4>1. volumes'[e] = volumes[e]
        BY <3>2, <1>2 DEF VolumeShape
      <4>2. UnchangedBut(n)
        BY <1>1 DEF Progress
      <4>3. \A i \in 1..n : i = n \/ i \in 1..(n - 1)
        BY <1>1
      <4> QED
        BY <4>1, <4>2, <4>3, <3>2, <2>6 DEF UnchangedBut, Child
    <3> QED
      BY <3>1, <3>2
  <2>7. Progress'
    BY <2>2, <2>6 DEF Progress, UnchangedBut
  <2> QED
    BY <2>3, <2>4, <2>7, <1>5
<1>7. CASE ~(n > 1)
  <2>1. action' = IDLE
    BY <1>7 DEF AckUndo
  <2>2. VolumeShape' /\ ChildrenKnow' /\ Progress'
    BY <2>1, <1>3 DEF VolumeShape, ChildrenKnow, Progress, IDLE
  <2> QED
    BY <2>2, <1>5
<1> QED
  BY <1>6, <1>7

LEMMA VolumeStep ==
    ASSUME ~UndoIsRefused, VolumeInv, [VolumeNext]_volumeVars PROVE VolumeInv'
<1>1. ASSUME NEW t, NEW pattern, NEW muted, Mute(t, muted, pattern) PROVE VolumeInv'
  BY <1>1, StartKeeps DEF Mute, MayStart
<1>2. ASSUME NEW t, NEW pattern, NEW new, Limit(t, pattern, new) PROVE VolumeInv'
  BY <1>2, StartKeeps DEF Limit, MayStart
<1>3. ASSUME NEW e, NEW pattern, NEW muted, MuteElement(e, muted, pattern) PROVE VolumeInv'
  BY <1>3, StartKeeps DEF MuteElement, MayStart
<1>4. ASSUME NEW e, NEW pattern, NEW new, LimitElement(e, pattern, new) PROVE VolumeInv'
  BY <1>4, StartKeeps DEF LimitElement, MayStart
<1>5. ASSUME NEW t, NEW v, NEW isMain, SetVolume(t, v, isMain) PROVE VolumeInv'
  <2>1. PICK target, cs : Start(target, cs)
    BY <1>5 DEF SetVolume
  <2> QED
    BY <1>5, <2>1, StartKeeps DEF SetVolume, MayStart
<1>6. ASSUME NEW e, NEW v, SetElementVolume(e, v) PROVE VolumeInv'
  BY <1>6, StartKeeps DEF SetElementVolume, MayStart
<1>7. ASSUME NEW done \in BOOLEAN, AckUndo(done) PROVE VolumeInv'
  <2>1. done = TRUE
    BY <1>7 DEF AckUndo
  <2> QED
    BY <1>7, <2>1, AckUndoKeeps
<1>8. CASE UNCHANGED volumeVars
  BY <1>8 DEF volumeVars, VolumeInv, VolumeShape, Tracked, ChildrenKnow, Progress, UnchangedBut,
              Heard, Clamp
<1> QED
  BY <1>1, <1>2, <1>3, <1>4, <1>5, <1>6, <1>7, <1>8, AckVolumeKeeps, RefuseVolumeKeeps DEF VolumeNext

\* While the routing side takes changes back when it is asked to, what the controller takes the
\* volume of every element to be is what was set there, through refused and undone actions, and
\* an action that is being undone has left all other elements as they were.
THEOREM VolumesTracked == ~UndoIsRefused => (VolumeSpec => []TracksRouting)
<1> SUFFICES ASSUME ~UndoIsRefused PROVE VolumeSpec => []TracksRouting
  OBVIOUS
<1>1. VolumeInv => TracksRouting
  BY DEF VolumeInv, Tracked, Progress, UnchangedBut, TracksRouting
<1>2. VolumeInv /\ [VolumeNext]_volumeVars => VolumeInv'
  BY VolumeStep
<1> QED
  BY <1>1, <1>2, VolumesStartTracked, PTL DEF VolumeSpec
-----------------------------------------------------------------------------
(* Persistence *)

PartialMaps(K) == UNION {[S -> Nat] : S \in SUBSET K}
VolumeKeys == Ends \cup {CLASS_LEVEL_SINK}
HeldTables == [Classes -> [volumes : PartialMaps(VolumeKeys), linkVolumes : PartialMaps(Links)]]

\* Connections the file says were connected.
FiledLinks == {l \in Links : \E entry \in StoredEntries[l] : entry.lastConnectionValid}

PersistenceShape ==
    /\ mode \in {"down", "up"}
    /\ held \in HeldTables
    /\ links = [l \in Links |-> links[l]]
    /\ complete \subseteq PDomains
    /\ changes \in Nat

\* Reading the file gives what the last orderly rundown held; without a file it held nothing.
FileFits ==
    /\ saved.held = IF Readable THEN [c \in Classes |-> ReadVolumes(c)] ELSE NoVolumes
    /\ saved.links = FiledLinks

\* What a run holds before the first change is what it has read or restored.
Unchanged ==
    Untouched =>
        /\ mode = "up" => held = saved.held
        /\ \A l \in Links : links[l] # "moving" /\ (links[l] # "none" => l \in saved.links)

SavedTyped == saved.held \in HeldTables

PersistenceInv == PersistenceShape /\ FileFits /\ Unchanged /\ SavedTyped

LEMMA EmptyIsPartial == \A K : Empty \in PartialMaps(K)
<1>1. \A K : {} \in SUBSET K /\ Empty \in [{} -> Nat]
  BY DEF Empty
<1> QED
  BY <1>1 DEF PartialMaps

LEMMA PartialFacts ==
    ASSUME NEW K, NEW f \in PartialMaps(K)
    PROVE  /\ DOMAIN f \subseteq K /\ f \in [DOMAIN f -> Nat] /\ f = [k \in DOMAIN f |-> f[k]]
           /\ \A k \in DOMAIN f : f[k] # MAX_NEG_VOL
           /\ DOMAIN f = {} => f = Empty
<1>1. PICK S \in SUBSET K : f \in [S -> Nat]
  BY DEF PartialMaps
<1>2. \A k \in DOMAIN f : f[k] \in Nat
  BY <1>1
<1>3. \A n \in Nat : n # MAX_NEG_VOL
  BY DEF MAX_NEG_VOL
<1>4. f = [k \in DOMAIN f |-> f[k]]
  BY <1>1
<1>5. DOMAIN f = {} => f = Empty
  BY <1>4 DEF Empty
<1> QED
  BY <1>1, <1>2, <1>3, <1>4, <1>5

LEMMA WithIsPartial ==
    ASSUME NEW K, NEW f \in PartialMaps(K), NEW k \in K, NEW v \in Nat
    PROVE  With(f, k, v) \in PartialMaps(K)
<1>1. DOMAIN f \subseteq K /\ f \in [DOMAIN f -> Nat]
  BY PartialFacts
<1>2. With(f, k, v) \in [{k} \cup DOMAIN f -> Nat]
  BY <1>1 DEF With
<1>3. {k} \cup DOMAIN f \in SUBSET K
  BY <1>1
<1> QED
  BY <1>2, <1>3 DEF PartialMaps

LEMMA NoVolumesTyped == NoVolumes \in HeldTables
  BY EmptyIsPartial DEF NoVolumes, HeldTables

LEMMA ClassVolumeTyped ==
    ASSUME NEW h \in HeldTables, NEW c, NEW sink \in Ends, NEW v \in Nat
    PROVE  ClassVolume(h, c, sink, v) \in HeldTables
<1> DEFINE key == IF c \in PerSink THEN sink ELSE CLASS_LEVEL_SINK
           g == [h EXCEPT ![c].volumes = With(@, key, v)]
<1>1. key \in VolumeKeys
  BY DEF VolumeKeys
<1> HIDE DEF key
<1>2. CASE c \in Classes
  <2>1. h[c] \in [volumes : PartialMaps(VolumeKeys), linkVolumes : PartialMaps(Links)]
    BY <1>2 DEF HeldTables
  <2>2. With(h[c].volumes, key, v) \in PartialMaps(VolumeKeys)
    BY <1>1, <2>1, WithIsPartial
  <2>3. g \in HeldTables
    BY <1>2, <2>1, <2>2 DEF HeldTables
  <2> QED
    BY <2>3 DEF ClassVolume, key
<1>3. CASE c \notin Classes
  <2>1. g = h
    BY <1>3 DEF HeldTables
  <2> QED
    BY <2>1 DEF ClassVolume, key
<1> QED
  BY <1>2, <1>3

LEMMA LinkVolumeTyped ==
    ASSUME NEW h \in HeldTables, NEW l \in Links, NEW v \in Nat
    PROVE  LinkVolume(h, l, v) \in HeldTables
<1> DEFINE c == ClassOfLink[l]
           g == [h EXCEPT ![c].linkVolumes = With(@, l, v)]
<1>1. c \in Classes /\ Sink(l) \in Ends
  BY PersistenceAssumption DEF Sink
<1>2. h[c] \in [volumes : PartialMaps(VolumeKeys), linkVolumes : PartialMaps(Links)]
  BY <1>1 DEF HeldTables
<1>3. With(h[c].linkVolumes, l, v) \in PartialMaps(Links)
  BY <1>2, WithIsPartial
<1>4. g \in HeldTables
  BY <1>1, <1>2, <1>3 DEF HeldTables
<1> QED
  BY <1>1, <1>4, ClassVolumeTyped DEF LinkVolume

\* What is written of a class and read again is what the class held, if it keeps volumes.
LEMMA ReadsWhatWasWritten ==
    ASSUME NEW c \in Classes, held \in HeldTables, file'.classes[c] = Written(c)
    PROVE  ReadVolumes(c)' = [volumes |-> IF c \in KeepsVolumes THEN held[c].volumes ELSE Empty,
                              linkVolumes |-> held[c].linkVolumes]
<1> DEFINE vols == IF c \in KeepsVolumes THEN held[c].volumes ELSE Empty
           lvols == held[c].linkVolumes
           les == LinkEntries(c, MAX_NEG_VOL)
           sinks == (DOMAIN vols \ {CLASS_LEVEL_SINK}) \cup {Sink(l) : l \in DOMAIN les}
           entry == Written(c)
<1>1. vols \in PartialMaps(VolumeKeys) /\ lvols \in PartialMaps(Links)
  BY EmptyIsPartial DEF HeldTables
<1> HIDE DEF vols, lvols
<1>2. entry = [volume |-> OrElse(vols, CLASS_LEVEL_SINK, MAX_NEG_VOL),
               sinks |-> [s \in sinks |-> OrElse(vols, s, MAX_NEG_VOL)],
               links |-> les]
  BY DEF Written, EntryOf, vols
<1>3. DOMAIN les \subseteq Links
  <2>1. DOMAIN lvols \subseteq Links
    BY <1>1, PartialFacts
  <2> QED
    BY <2>1, PersistenceAssumption DEF LinkEntries, StoredLinks, lvols
<1>4. CLASS_LEVEL_SINK \notin {Sink(l) : l \in DOMAIN les}
  BY <1>3, PersistenceAssumption DEF Sink
<1>5. DOMAIN les = DOMAIN les \cup DOMAIN lvols
  BY DEF LinkEntries, lvols
<1>6. \A l \in DOMAIN les : les[l].volume = OrElse(lvols, l, MAX_NEG_VOL)
  BY DEF LinkEntries, lvols
<1> HIDE DEF les
<1>7. DOMAIN vols \ {CLASS_LEVEL_SINK} \subseteq sinks /\ CLASS_LEVEL_SINK \notin sinks
  BY <1>4
<1> HIDE DEF sinks, entry
<1>8. /\ vols = [k \in DOMAIN vols |-> vols[k]] /\ \A k \in DOMAIN vols : vols[k] # MAX_NEG_VOL
      /\ lvols = [k \in DOMAIN lvols |-> lvols[k]] /\ \A k \in DOMAIN lvols : lvols[k] # MAX_NEG_VOL
  BY <1>1, PartialFacts
<1> DEFINE each == [s \in {k \in DOMAIN entry.sinks : entry.sinks[k] # MAX_NEG_VOL} |-> entry.sinks[s]]
<1>9. each = [s \in DOMAIN vols \ {CLASS_LEVEL_SINK} |-> vols[s]]
  <2>1. DOMAIN entry.sinks = sinks /\ \A s \in sinks : entry.sinks[s] = OrElse(vols, s, MAX_NEG_VOL)
    BY <1>2
  <2>2. {k \in DOMAIN entry.sinks : entry.sinks[k] # MAX_NEG_VOL} = DOMAIN vols \ {CLASS_LEVEL_SINK}
    BY <2>1, <1>7, <1>8 DEF OrElse
  <2>3. \A s \in DOMAIN vols \ {CLASS_LEVEL_SINK} : entry.sinks[s] = vols[s]
    BY <2>1, <1>7 DEF OrElse
  <2> QED
    BY <2>2, <2>3
<1> HIDE DEF each
<1>10. ReadClassVolumes(c)' = IF entry.volume = MAX_NEG_VOL THEN each
                              ELSE With(each, CLASS_LEVEL_SINK, entry.volume)
  BY DEF ReadClassVolumes, entry, each
<1>11. ReadClassVolumes(c)' = vols
  <2>1. CASE CLASS_LEVEL_SINK \in DOMAIN vols
    <3>1. entry.volume = vols[CLASS_LEVEL_SINK] /\ entry.volume # MAX_NEG_VOL
      BY <2>1, <1>2, <1>8 DEF OrElse
    <3>2. With(each, CLASS_LEVEL_SINK, entry.volume) = [k \in DOMAIN vols |-> vols[k]]
      BY <2>1, <3>1, <1>9 DEF With
    <3> QED
      BY <3>1, <3>2, <1>8, <1>10
  <2>2. CASE CLASS_LEVEL_SINK \notin DOMAIN vols
    <3>1. entry.volume = MAX_NEG_VOL
      BY <2>2, <1>2 DEF OrElse
    <3>2. each = [k \in DOMAIN vols |-> vols[k]]
      BY <2>2, <1>9
    <3> QED
      BY <3>1, <3>2, <1>8, <1>10
  <2> QED
    BY <2>1, <2>2
<1>12. ReadLinkVolumes(c)' = lvols
  <2>1. ReadLinkVolumes(c)' = [l \in {k \in DOMAIN les : les[k].volume # MAX_NEG_VOL} |-> les[l].volume]
    BY <1>2 DEF ReadLinkVolumes, entry
  <2>2. {k \in DOMAIN les : les[k].volume # MAX_NEG_VOL} = DOMAIN lvols
    BY <1>5, <1>6, <1>8 DEF OrElse
  <2>3. \A l \in DOMAIN lvols : les[l].volume = lvols[l]
    BY <1>5, <1>6 DEF OrElse
  <2> QED
    BY <2>1, <2>2, <2>3, <1>8
<1> QED
  BY <1>11, <1>12 DEF ReadVolumes, vols, lvols
\* The file holds the connections that were connected, of every class.
LEMMA LinksAreFiled ==
    ASSUME file'.classes = [c \in Classes |-> Written(c)], Readable'
    PROVE  FiledLinks' = StoredLinks
<1> DEFINE les(c) == LinkEntries(c, MAX_NEG_VOL)
           stored(l) == {file'.classes[c].links[l] : c \in
                            {k \in Classes : l \in DOMAIN file'.classes[k].links}}
<1>1. \A c \in Classes : file'.classes[c].links = les(c)
  BY DEF Written, EntryOf
<1>2. StoredEntries' = [l \in Links |-> stored(l)]
  BY DEF StoredEntries
<1>3. StoredLinks \subseteq Links
  BY PersistenceAssumption DEF StoredLinks
<1>4. \A c \in Classes : \A l \in DOMAIN les(c) :
        les(c)[l].lastConnectionValid = (l \in {k \in StoredLinks : ClassOfLink[k] = c})
  BY DEF LinkEntries
<1>5. \A c \in Classes : \A l \in StoredLinks : ClassOfLink[l] = c => l \in DOMAIN les(c)
  BY DEF LinkEntries
<1> HIDE DEF les
<1>6. ASSUME NEW l \in Links PROVE (\E entry \in stored(l) : entry.lastConnectionValid) <=> l \in StoredLinks
  <2>1. ASSUME NEW entry \in stored(l), entry.lastConnectionValid PROVE l \in StoredLinks
    <3>1. PICK c \in Classes : l \in DOMAIN les(c) /\ entry = les(c)[l]
      BY <2>1, <1>1
    <3> QED
      BY <2>1, <3>1, <1>4
  <2>2. ASSUME l \in StoredLinks PROVE \E entry \in stored(l) : entry.lastConnectionValid
    <3>1. ClassOfLink[l] \in Classes
      BY PersistenceAssumption
    <3>2. l \in DOMAIN les(ClassOfLink[l])
      BY <2>2, <3>1, <1>5
    <3>3. les(ClassOfLink[l])[l].lastConnectionValid
      BY <2>2, <3>1, <3>2, <1>4
    <3>4. les(ClassOfLink[l])[l] \in stored(l)
      BY <3>1, <3>2, <1>1
    <3> QED
      BY <3>3, <3>4
  <2> QED
    BY <2>1, <2>2
<1> HIDE DEF stored
<1>7. FiledLinks' = {l \in Links : \E entry \in stored(l) : entry.lastConnectionValid}
  BY <1>2 DEF FiledLinks
<1> QED
  BY <1>3, <1>6, <1>7

LEMMA NothingFiled == ~Readable => FiledLinks = {}
  BY DEF FiledLinks, StoredEntries

LEMMA FileStays ==
    ASSUME FileFits, SavedTyped, UNCHANGED <<file, saved>>
    PROVE  FileFits' /\ SavedTyped'
<1>1. Readable' = Readable /\ NoVolumes' = NoVolumes
  BY DEF Readable, NoFile, NoVolumes, Empty
<1>2. \A c \in Classes : ReadVolumes(c)' = ReadVolumes(c)
  BY DEF ReadVolumes, ReadClassVolumes, ReadLinkVolumes
<1>3. FiledLinks' = FiledLinks
  BY <1>1 DEF FiledLinks, StoredEntries
<1>4. FileFits'
  BY <1>1, <1>2, <1>3 DEF FileFits
<1>5. SavedTyped'
  BY DEF SavedTyped, HeldTables, PartialMaps
<1> QED
  BY <1>4, <1>5

LEMMA MemoryGone ==
    ASSUME MemoryIsGone, mode' = "down"
    PROVE  PersistenceShape' /\ Unchanged'
<1>1. /\ held' = NoVolumes /\ links' = [l \in Links |-> "none"] /\ complete' = {} /\ changes' = 0
      /\ mode' # "up"
  BY DEF MemoryIsGone
<1>2. PersistenceShape'
  BY <1>1, NoVolumesTyped DEF PersistenceShape, HeldTables
<1>3. Unchanged'
  BY <1>1 DEF Unchanged
<1> QED
  BY <1>2, <1>3

LEMMA RundownStoresKeeps ==
    ASSUME PersistenceInv, RundownStores PROVE PersistenceInv'
<1> DEFINE some == \/ \E c \in Classes : DOMAIN held[c].linkVolumes # {}
                   \/ \E c \in KeepsVolumes : DOMAIN held[c].volumes # {}
                   \/ StoredLinks # {} \/ kept # <<>>
           kh(c) == [volumes |-> IF c \in KeepsVolumes THEN held[c].volumes ELSE Empty,
                     linkVolumes |-> held[c].linkVolumes]
<1>1. PersistenceShape' /\ Unchanged'
  BY MemoryGone DEF RundownStores
<1>2. held \in HeldTables
  BY DEF PersistenceInv, PersistenceShape
<1>3. \A c \in Classes : (IF c \in KeepsVolumes THEN held[c] ELSE [held[c] EXCEPT !.volumes = Empty]) = kh(c)
  BY <1>2 DEF HeldTables
<1>4. saved'.held = [c \in Classes |-> kh(c)]
  <2>1. saved'.held = [c \in Classes |-> IF c \in KeepsVolumes THEN held[c]
                                         ELSE [held[c] EXCEPT !.volumes = Empty]]
    BY DEF RundownStores
  <2> QED
    BY <2>1, <1>3
<1>5. saved'.links = StoredLinks
  BY DEF RundownStores
<1>8. SavedTyped'
  <2>1. \A c \in Classes : kh(c) \in [volumes : PartialMaps(VolumeKeys), linkVolumes : PartialMaps(Links)]
    BY <1>2, EmptyIsPartial DEF HeldTables
  <2> HIDE DEF kh
  <2> QED
    BY <1>4, <2>1 DEF SavedTyped, HeldTables
<1>6. CASE some \/ DOMAIN system # {}
  <2>1. file' = [classes |-> [c \in Classes |-> Written(c)],
                 properties |-> WrittenProperties, system |-> system]
    BY <1>6 DEF RundownStores
  <2>2. file'.classes = [c \in Classes |-> Written(c)]
    BY <2>1
  <2>3. Readable'
    <3>1. "classes" \in DOMAIN file' /\ DOMAIN NoFile = {}
      BY <2>1 DEF NoFile, Empty
    <3>2. NoFile' = NoFile
      BY DEF NoFile, Empty
    <3> QED
      BY <3>1, <3>2 DEF Readable
  <2>4. ASSUME NEW c \in Classes PROVE ReadVolumes(c)' = kh(c)
    BY <2>2, <1>2, ReadsWhatWasWritten
  <2>5. FiledLinks' = StoredLinks
    BY <2>2, <2>3, LinksAreFiled
  <2> HIDE DEF kh
  <2>6. FileFits'
    BY <2>3, <2>4, <2>5, <1>4, <1>5 DEF FileFits
  <2> QED
    BY <1>1, <1>8, <2>6 DEF PersistenceInv
<1>7. CASE ~(some \/ DOMAIN system # {})
  <2>1. file' = NoFile
    BY <1>7 DEF RundownStores
  <2>2. ~Readable'
    BY <2>1 DEF Readable, NoFile, Empty
  <2>3. ASSUME NEW c \in Classes PROVE kh(c) = [volumes |-> Empty, linkVolumes |-> Empty]
    <3>1. held[c].volumes \in PartialMaps(VolumeKeys) /\ held[c].linkVolumes \in PartialMaps(Links)
      BY <1>2 DEF HeldTables
    <3>2. DOMAIN held[c].linkVolumes = {} /\ (c \in KeepsVolumes => DOMAIN held[c].volumes = {})
      BY <1>7
    <3>3. held[c].linkVolumes = Empty /\ (c \in KeepsVolumes => held[c].volumes = Empty)
      BY <3>1, <3>2, PartialFacts
    <3> QED
      BY <3>3
  <2>4. saved'.held = NoVolumes
    <3> HIDE DEF kh
    <3> QED
      BY <2>3, <1>4 DEF NoVolumes
  <2>5. StoredLinks = {} /\ FiledLinks' = {}
    BY <1>7, <2>2 DEF FiledLinks, StoredEntries
  <2>6. NoVolumes' = NoVolumes
    BY DEF NoVolumes, Empty
  <2>7. FileFits'
    BY <2>2, <2>4, <2>5, <2>6, <1>5 DEF FileFits
  <2> QED
    BY <1>1, <1>8, <2>7 DEF PersistenceInv
<1> QED
  BY <1>6, <1>7
LEMMA StartupKeeps ==
    ASSUME PersistenceInv, NEW set, Startup(set) PROVE PersistenceInv'
<1>1. /\ held' = IF Readable THEN [c \in Classes |-> ReadVolumes(c)] ELSE NoVolumes
      /\ mode' = "up" /\ links' = links /\ complete' = complete /\ changes' = changes
      /\ file' = file /\ saved' = saved
  BY DEF Startup
<1>2. held' = saved.held
  BY <1>1 DEF PersistenceInv, FileFits
<1>3. FileFits'
  BY <1>1, FileStays DEF PersistenceInv
<1>4. saved.held \in HeldTables
  BY DEF PersistenceInv, SavedTyped
<1>5. PersistenceShape' /\ Unchanged' /\ SavedTyped'
  BY <1>1, <1>2, <1>4 DEF PersistenceInv, PersistenceShape, Unchanged, Untouched, SavedTyped
<1> QED
  BY <1>3, <1>5 DEF PersistenceInv

\* Restoring creates connections of the last rundown alone, all that can be created.
LEMMA RestoreFacts ==
    ASSUME PersistenceInv
    PROVE  /\ RestoredLinks = [l \in Links |-> RestoredLinks[l]]
           /\ \A l \in Links :
                 /\ RestoredLinks[l] # "none" => links[l] # "none" \/ l \in saved.links
                 /\ RestoredLinks[l] = "moving" => links[l] = "moving"
                 /\ l \in saved.links /\ {l[1], l[2]} \subseteq present => RestoredLinks[l] # "none"
<1>1. RestoredLinks = Restorable(saved.links)
  BY DEF PersistenceInv, FileFits, FiledLinks, RestoredLinks
<1> QED
  BY <1>1 DEF Restorable

\* Whatever fails, a link is as it was or restored.
LEMMA RestoredFacts ==
    ASSUME NEW failing, Restored(failing)
    PROVE  /\ unrouted' = failing
           /\ links' = [l \in Links |-> links'[l]]
           /\ \A l \in Links : links'[l] = IF l \in failing THEN links[l] ELSE RestoredLinks[l]
  BY DEF Restored

LEMMA RestoringKeeps ==
    ASSUME PersistenceInv, complete' \subseteq PDomains,
           links' = links \/ \E failing : Restored(failing),
           UNCHANGED <<mode, held, changes, file, saved>>
    PROVE  PersistenceInv'
<1>1. FileFits'
  BY FileStays DEF PersistenceInv
<1>2. /\ links' = [l \in Links |-> links'[l]]
      /\ \A l \in Links : links'[l] \in {links[l], RestoredLinks[l]}
  BY RestoredFacts DEF PersistenceInv, PersistenceShape
<1>3. PersistenceShape'
  BY <1>2 DEF PersistenceInv, PersistenceShape
<1>4. Unchanged'
  BY <1>2, RestoreFacts DEF PersistenceInv, Unchanged, Untouched
<1>5. SavedTyped'
  BY DEF PersistenceInv, SavedTyped
<1> QED
  BY <1>1, <1>3, <1>4, <1>5 DEF PersistenceInv

\* A change: what is held and connected may differ from what was read.
LEMMA ChangeKeeps ==
    ASSUME PersistenceInv, changes' \in Nat \ {0}, held' \in HeldTables,
           links' = [l \in Links |-> links'[l]],
           UNCHANGED <<mode, complete, file, saved>>
    PROVE  PersistenceInv'
<1>1. FileFits'
  BY FileStays DEF PersistenceInv
<1>2. PersistenceShape' /\ Unchanged' /\ SavedTyped'
  BY DEF PersistenceInv, PersistenceShape, Unchanged, Untouched, SavedTyped
<1> QED
  BY <1>1, <1>2 DEF PersistenceInv

LEMMA ChangeCounts ==
    ASSUME PersistenceInv, Change PROVE changes' \in Nat \ {0} /\ mode = "up"
  BY DEF PersistenceInv, PersistenceShape, Change

LEMMA SavedLinksAreLinks == StoredLinks \subseteq Links
  BY PersistenceAssumption DEF StoredLinks

LEMMA PersistenceStarts == PersistenceInit => PersistenceInv
<1> SUFFICES ASSUME PersistenceInit PROVE PersistenceInv
  OBVIOUS
<1>1. /\ mode = "down" /\ file = NoFile /\ held = NoVolumes /\ links = [l \in Links |-> "none"]
      /\ complete = {} /\ changes = 0 /\ saved.held = NoVolumes /\ saved.links = {}
  BY DEF PersistenceInit
<1>2. ~Readable /\ FiledLinks = {}
  BY <1>1, NothingFiled DEF Readable
<1> QED
  BY <1>1, <1>2, NoVolumesTyped DEF PersistenceInv, PersistenceShape, FileFits, Unchanged, SavedTyped

LEMMA PersistenceStep ==
    ASSUME PersistenceInv, [PersistenceNext]_persistenceVars PROVE PersistenceInv'
<1>1. held \in HeldTables /\ links = [l \in Links |-> links[l]] /\ complete \subseteq PDomains
  BY DEF PersistenceInv, PersistenceShape
<1>2. ASSUME NEW e \in Ends, NEW set, RegisterEnd(e, set) PROVE PersistenceInv'
  BY <1>1, <1>2, RestoringKeeps DEF RegisterEnd
<1>3. ASSUME NEW d \in PDomains, NEW failing, DomainComplete(d, failing) PROVE PersistenceInv'
  BY <1>1, <1>3, RestoringKeeps DEF DomainComplete
<1>4. ASSUME NEW failing, DomainTimeout(failing) PROVE PersistenceInv'
  BY <1>1, <1>4, RestoringKeeps DEF DomainTimeout
<1>5. ASSUME NEW l \in Links, LinkMoves(l) PROVE PersistenceInv'
  <2>1. links' = [m \in Links |-> links'[m]]
    BY <1>1, <1>5 DEF LinkMoves
  <2> QED
    BY <1>1, <1>5, <2>1, ChangeCounts, ChangeKeeps DEF LinkMoves
<1>6. ASSUME NEW l \in Links, NEW state, NEW v \in KeptVolumes, LinkArrives(l, state, v)
      PROVE  PersistenceInv'
  <2>1. links' = [m \in Links |-> links'[m]]
    BY <1>1, <1>6 DEF LinkArrives
  <2>2. changes' \in Nat \ {0}
    BY <1>6 DEF LinkArrives, PersistenceInv, PersistenceShape, Unchanged, Untouched
  <2>3. v \in Nat
    BY PersistenceAssumption
  <2>4. held' \in HeldTables
    BY <1>1, <1>6, <2>3, LinkVolumeTyped DEF LinkArrives
  <2> QED
    BY <1>6, <2>1, <2>2, <2>4, ChangeKeeps DEF LinkArrives
<1>7. ASSUME NEW l \in Links, NEW v \in KeptVolumes, SetLinkVolume(l, v) PROVE PersistenceInv'
  <2>1. v \in Nat
    BY PersistenceAssumption
  <2>2. held' \in HeldTables
    BY <1>1, <1>7, <2>1, LinkVolumeTyped DEF SetLinkVolume
  <2> QED
    BY <1>1, <1>7, <2>2, ChangeCounts, ChangeKeeps DEF SetLinkVolume
<1>8. ASSUME NEW l \in Links, NEW v \in KeptVolumes, SetSinkVolume(ClassOfLink[l], Sink(l), v)
      PROVE  PersistenceInv'
  <2>1. v \in Nat /\ Sink(l) \in Ends
    BY PersistenceAssumption DEF Sink
  <2>2. held' \in HeldTables
    BY <1>1, <1>8, <2>1, ClassVolumeTyped DEF SetSinkVolume
  <2> QED
    BY <1>1, <1>8, <2>2, ChangeCounts, ChangeKeeps DEF SetSinkVolume
<1>9. ASSUME NEW e, NEW t, NEW v, SetProperty(e, t, v) PROVE PersistenceInv'
  BY <1>1, <1>9, ChangeCounts, ChangeKeeps DEF SetProperty
<1>10. ASSUME NEW t, NEW v, SetSystemProperty(t, v) PROVE PersistenceInv'
  BY <1>1, <1>10, ChangeCounts, ChangeKeeps DEF SetSystemProperty
<1>11. ASSUME Crash PROVE PersistenceInv'
  <2>1. FileFits' /\ SavedTyped'
    BY <1>11, FileStays DEF Crash, PersistenceInv
  <2> QED
    BY <1>11, <2>1, MemoryGone DEF Crash, PersistenceInv
<1>12. CASE UNCHANGED persistenceVars
  BY <1>1, <1>12, RestoringKeeps DEF persistenceVars
<1> QED
  BY <1>2, <1>3, <1>4, <1>5, <1>6, <1>7, <1>8, <1>9, <1>10, <1>11, <1>12, StartupKeeps,
     RundownStoresKeeps DEF PersistenceNext

LEMMA PersistenceInductive == PersistenceSpec => []PersistenceInv
  BY PersistenceStarts, PersistenceStep, PTL DEF PersistenceSpec

\* Every run starts from exactly the volumes the last orderly rundown left, of classes, of single
\* sinks and of connections, whatever crashed in between and whichever classes keep them.
THEOREM VolumesComeBack == PersistenceSpec => []VolumesSurvive
<1>1. PersistenceInv => VolumesSurvive
  BY DEF PersistenceInv, Unchanged, VolumesSurvive
<1> QED
  BY <1>1, PersistenceInductive, PTL

\* The domain that registers last brings back the connections of the last rundown whose source
\* and sink are there and that have a route, and before anything is changed no others.
THEOREM ConnectionsRestored == PersistenceSpec => ConnectionsComeBack
<1> DEFINE LastDomain == complete # PDomains /\ complete' = PDomains
           Back == \A l \in Links :
                      /\ l \in saved.links \ unrouted' /\ {l[1], l[2]} \subseteq present => links'[l] # "none"
                      /\ Untouched /\ links'[l] # "none" => l \in saved.links
<1>1. ASSUME PersistenceInv, PersistenceNext, LastDomain PROVE Back
  <2>1. complete' # complete /\ complete \subseteq PDomains
    BY <1>1 DEF PersistenceInv, PersistenceShape
  <2>2. CASE MemoryIsGone
    BY <1>1, <2>1, <2>2 DEF MemoryIsGone
  <2>3. CASE \E d \in PDomains, failing \in SUBSET Links : DomainComplete(d, failing)
    <3>1. \A l \in Links :
             links'[l] = IF l \in unrouted' THEN links[l] ELSE RestoredLinks[l]
      BY <1>1, <2>3, RestoredFacts DEF DomainComplete
    <3>2. Untouched => \A l \in Links : links[l] # "none" => l \in saved.links
      BY <1>1 DEF PersistenceInv, Unchanged
    <3> QED
      BY <1>1, <3>1, <3>2, RestoreFacts
  <2> QED
    BY <1>1, <2>1, <2>2, <2>3
       DEF PersistenceNext, Startup, RegisterEnd, DomainTimeout, LinkMoves, LinkArrives,
           SetLinkVolume, SetSinkVolume, SetProperty, SetSystemProperty, RundownStores, Crash
<1>2. PersistenceInv /\ [PersistenceNext]_persistenceVars => [LastDomain => Back]_persistenceVars
  BY <1>1
<1> QED
  BY <1>2, PersistenceInductive, PTL DEF PersistenceSpec, ConnectionsComeBack
-----------------------------------------------------------------------------
(* Registry *)

IsSeq(s) == \E S : s \in Seq(S)

RegistryShape ==
    /\ linkState = [c \in RegConnections |-> linkState[c]]
    /\ IsSeq(triggers) /\ IsSeq(todo)

\* What is in the database has an element; what has been withdrawn has an element still, for the
\* database refuses to remove it twice, and is not in the database.
EndsFit ==
    /\ endsDb \subseteq ends /\ withdrawn \subseteq ends /\ withdrawn \cap endsDb = {}
    /\ hook.what = "end" => hook.name \in ends \ endsDb
    /\ hook.what = "domain" => hook.also \subseteq ends /\ hook.also \cap endsDb = {}

UsersFit ==
    \A c \in RegConnections : linkState[c] # "none" =>
        \A i \in DOMAIN RouteOf[c] : RouteOf[c][i].ends \subseteq ends

\* A connection with a withdrawn end is on its way down, or will be found.
Pursued(c, e) ==
    \/ \E j \in DOMAIN triggers : triggers[j] = <<"endGone", e>>
    \/ \E j \in DOMAIN todo : todo[j].do = "disconnect" /\ todo[j].conn = c
IsUp(c) == linkState[c] \in {"created", "connecting", "connected"}
UsersPursued ==
    \A c \in RegConnections : \A i \in DOMAIN RouteOf[c] : \A e \in RouteOf[c][i].ends \cap withdrawn :
        IsUp(c) => Pursued(c, e)

RegistryInv == RegistryShape /\ EndsFit /\ UsersFit /\ UsersPursued

\* A finite set as a sequence has the members of the set.
LEMMA SetToSeqFacts ==
    ASSUME NEW S, IsFiniteSet(S)
    PROVE  SetToSeq(S) \in Seq(S) /\ \A x \in S : \E i \in DOMAIN SetToSeq(S) : SetToSeq(S)[i] = x
<1> DEFINE n == Cardinality(S)
<1>1. n \in Nat /\ ExistsBijection(1..n, S)
  BY FS_CardinalityType
<1>2. \E f \in [1..n -> S] : IsInjective(f)
  BY <1>1 DEF ExistsBijection, Bijection, Injection
<1>3. SetToSeq(S) \in [1..n -> S] /\ IsInjective(SetToSeq(S))
  BY <1>2 DEF SetToSeq
<1>4. IsFiniteSet(1..n) /\ Cardinality(1..n) = n
  BY <1>1, FS_Interval
<1>5. SetToSeq(S) \in Injection(1..n, S)
  BY <1>3 DEF Injection
<1>6. SetToSeq(S) \in Surjection(1..n, S)
  BY <1>4, <1>5, FS_Injection
<1> HIDE DEF n
<1>7. SetToSeq(S) \in Seq(S)
  BY <1>1, <1>3
<1>8. \A x \in S : \E i \in 1..n : SetToSeq(S)[i] = x
  BY <1>6 DEF Surjection
<1> QED
  BY <1>3, <1>7, <1>8

LEMMA AppendFacts ==
    ASSUME NEW s, IsSeq(s), NEW x
    PROVE  /\ IsSeq(Append(s, x))
           /\ \A j \in DOMAIN s : j \in DOMAIN Append(s, x) /\ Append(s, x)[j] = s[j]
           /\ \E j \in DOMAIN Append(s, x) : Append(s, x)[j] = x
<1>1. PICK S : s \in Seq(S)
  BY DEF IsSeq
<1>2. s \in Seq(S \cup {x}) /\ x \in S \cup {x}
  BY <1>1
<1>3. Append(s, x) \in Seq(S \cup {x})
  BY <1>2
<1>4. /\ DOMAIN s = 1..Len(s) /\ Len(s) \in Nat /\ DOMAIN Append(s, x) = 1..(Len(s) + 1)
      /\ \A j \in 1..Len(s) : Append(s, x)[j] = s[j]
      /\ Append(s, x)[Len(s) + 1] = x
  BY <1>2
<1> QED
  BY <1>3, <1>4 DEF IsSeq

LEMMA TailFacts ==
    ASSUME NEW s, IsSeq(s), s # <<>>
    PROVE  /\ IsSeq(Tail(s))
           /\ \A j \in DOMAIN s : s[j] = Head(s) \/ \E k \in DOMAIN Tail(s) : Tail(s)[k] = s[j]
<1>1. PICK S : s \in Seq(S)
  BY DEF IsSeq
<1>2. Tail(s) \in Seq(S) /\ Len(s) \in Nat /\ DOMAIN s = 1..Len(s) /\ Head(s) = s[1]
  BY <1>1
<1>3. DOMAIN Tail(s) = 1..(Len(s) - 1) /\ \A k \in 1..(Len(s) - 1) : Tail(s)[k] = s[k + 1]
  BY <1>1
<1>4. ASSUME NEW j \in 1..Len(s), j # 1 PROVE \E k \in DOMAIN Tail(s) : Tail(s)[k] = s[j]
  <2>1. j - 1 \in 1..(Len(s) - 1) /\ (j - 1) + 1 = j
    BY <1>2, <1>4
  <2> QED
    BY <2>1, <1>3
<1> QED
  BY <1>2, <1>4 DEF IsSeq

LEMMA EmptyIsSeq == IsSeq(<<>>) /\ \A x : IsSeq(<<x>>)
<1>1. <<>> \in Seq({}) /\ \A x : <<x>> \in Seq({x})
  OBVIOUS
<1> QED
  BY <1>1 DEF IsSeq

LEMMA DisconnectsFacts ==
    ASSUME NEW users \in SUBSET RegConnections
    PROVE  /\ IsSeq(Disconnects(users))
           /\ \A c \in users : \E j \in DOMAIN Disconnects(users) :
                 Disconnects(users)[j].do = "disconnect" /\ Disconnects(users)[j].conn = c
<1> DEFINE S == {[do |-> "disconnect", conn |-> c] : c \in users}
<1>1. IsFiniteSet(users)
  BY RegistryAssumption, FS_Subset
<1>2. IsFiniteSet(S)
  <2>1. [c \in users |-> [do |-> "disconnect", conn |-> c]] \in Surjection(users, S)
    BY DEF Surjection
  <2> QED
    BY <1>1, <2>1, FS_Surjection
<1>3. \A c \in users : [do |-> "disconnect", conn |-> c] \in S
  OBVIOUS
<1> HIDE DEF S
<1>4. SetToSeq(S) \in Seq(S) /\ \A x \in S : \E i \in DOMAIN SetToSeq(S) : SetToSeq(S)[i] = x
  BY <1>2, SetToSeqFacts
<1>5. Disconnects(users) = SetToSeq(S)
  BY DEF Disconnects, S
<1>6. ASSUME NEW c \in users
      PROVE  \E j \in DOMAIN SetToSeq(S) : SetToSeq(S)[j].do = "disconnect" /\ SetToSeq(S)[j].conn = c
  <2>1. PICK j \in DOMAIN SetToSeq(S) : SetToSeq(S)[j] = [do |-> "disconnect", conn |-> c]
    BY <1>3, <1>4
  <2> QED
    BY <2>1
<1> QED
  BY <1>4, <1>5, <1>6 DEF IsSeq

LEMMA RegistryStarts == RegistryInit => RegistryInv
<1> SUFFICES ASSUME RegistryInit PROVE RegistryInv
  OBVIOUS
<1> DEFINE S == {<<"domain", d>> : d \in StaticDomains}
<1>1. IsFiniteSet(StaticDomains)
  BY RegistryAssumption, FS_Subset
<1>2. IsFiniteSet(S)
  <2>1. [d \in StaticDomains |-> <<"domain", d>>] \in Surjection(StaticDomains, S)
    BY DEF Surjection
  <2> QED
    BY <1>1, <2>1, FS_Surjection
<1>3. IsSeq(SetToSeq(S))
  BY <1>2, SetToSeqFacts DEF IsSeq
<1>4. IsSeq(triggers) /\ IsSeq(todo)
  BY <1>3, EmptyIsSeq DEF RegistryInit
<1>5. linkState = [c \in RegConnections |-> "none"]
  BY DEF RegistryInit
<1>6. RegistryShape /\ UsersFit /\ UsersPursued
  BY <1>4, <1>5 DEF RegistryShape, UsersFit, UsersPursued, IsUp
<1>7. EndsFit
  BY DEF RegistryInit, EndsFit, Rest
<1> QED
  BY <1>6, <1>7 DEF RegistryInv

\* A hook that queues its trigger and leaves actions alone.  It may create connections between
\* ends of the database; what it withdraws must be pursued by its trigger.
LEMMA HookKeeps ==
    ASSUME RegistryInv, NEW type, NEW name, Queue(type, name), EndsFit', ends \subseteq ends',
           UNCHANGED todo,
           \/ linkState' = linkState
           \/ /\ linkState' = [c \in RegConnections |-> linkState'[c]]
              /\ withdrawn' = withdrawn
              /\ \A c \in RegConnections : linkState'[c] = linkState[c] \/ InDatabase(c),
           \A e \in withdrawn' \ withdrawn : <<type, name>> = <<"endGone", e>>
    PROVE  RegistryInv'
<1>1. triggers' = Append(triggers, <<type, name>>)
  BY DEF Queue
<1>2. /\ IsSeq(triggers')
      /\ \A j \in DOMAIN triggers : j \in DOMAIN triggers' /\ triggers'[j] = triggers[j]
      /\ \E j \in DOMAIN triggers' : triggers'[j] = <<type, name>>
  BY <1>1, AppendFacts DEF RegistryInv, RegistryShape
<1>3. RegistryShape'
  BY <1>2 DEF RegistryInv, RegistryShape
<1>4. endsDb \subseteq ends /\ withdrawn \cap endsDb = {}
  BY DEF RegistryInv, EndsFit
<1>5. UsersFit'
  BY <1>4 DEF RegistryInv, UsersFit, InDatabase
<1>6. ASSUME NEW c \in RegConnections, NEW i \in DOMAIN RouteOf[c],
             NEW e \in RouteOf[c][i].ends \cap withdrawn', IsUp(c)'
      PROVE  Pursued(c, e)'
  <2>1. CASE e \in withdrawn
    <3>1. linkState'[c] = linkState[c]
      BY <1>6, <1>4, <2>1 DEF InDatabase
    <3>2. Pursued(c, e)
      BY <1>6, <2>1, <3>1 DEF RegistryInv, UsersPursued, IsUp
    <3> QED
      BY <3>2, <1>2 DEF Pursued
  <2>2. CASE e \notin withdrawn
    BY <2>2, <1>2 DEF Pursued
  <2> QED
    BY <2>1, <2>2
<1> QED
  BY <1>3, <1>5, <1>6 DEF RegistryInv, UsersPursued

LEMMA HooksKeep ==
    ASSUME RegistryInv, NEW x,
           \/ RegRegisterDomain(x) \/ RegDeregisterDomain(x)
           \/ RegRegisterEnd(x) \/ RegDeregisterEnd(x)
           \/ RegRegisterGateway(x) \/ RegDeregisterGateway(x)
           \/ RegUserConnects(x) \/ RegUserDisconnects(x)
    PROVE  RegistryInv'
<1> USE DEF RegistryInv
<1>1. CASE RegRegisterDomain(x)
  <2>1. EndsFit' /\ ends \subseteq ends' /\ withdrawn' = withdrawn /\ Queue("domain", x)
    BY <1>1 DEF RegRegisterDomain, HookCalled, HookBegins, EndsFit, Rest
  <2> QED
    BY <1>1, <2>1, HookKeeps DEF RegRegisterDomain, HookCalled, HookBegins
<1>2. CASE RegDeregisterDomain(x)
  <2>1. EndsFit' /\ ends \subseteq ends' /\ withdrawn' = withdrawn /\ Queue("domainGone", x)
    BY <1>2 DEF RegDeregisterDomain, HookCalled, HookBegins, EndsFit, Rest
  <2> QED
    BY <1>2, <2>1, HookKeeps DEF RegDeregisterDomain, HookCalled, HookBegins
<1>3. CASE RegRegisterEnd(x)
  <2>1. EndsFit' /\ ends \subseteq ends' /\ withdrawn' \subseteq withdrawn /\ Queue("end", x)
    BY <1>3 DEF RegRegisterEnd, HookCalled, HookBegins, EndsFit, Rest
  <2> QED
    BY <1>3, <2>1, HookKeeps DEF RegRegisterEnd, HookCalled, HookBegins
<1>4. CASE RegDeregisterEnd(x)
  <2>1. EndsFit' /\ ends \subseteq ends' /\ withdrawn' \subseteq withdrawn \cup {x} /\ Queue("endGone", x)
    BY <1>4 DEF RegDeregisterEnd, HookCalled, HookBegins, EndsFit, Rest
  <2> QED
    BY <1>4, <2>1, HookKeeps DEF RegDeregisterEnd, HookCalled, HookBegins
<1>5. CASE RegRegisterGateway(x)
  <2>1. EndsFit' /\ ends \subseteq ends' /\ withdrawn' = withdrawn /\ Queue("gateway", x)
    BY <1>5 DEF RegRegisterGateway, HookCalled, HookBegins, EndsFit, Rest
  <2> QED
    BY <1>5, <2>1, HookKeeps DEF RegRegisterGateway, HookCalled, HookBegins
<1>6. CASE RegDeregisterGateway(x)
  <2>1. EndsFit' /\ ends \subseteq ends' /\ withdrawn' = withdrawn /\ Queue("gatewayGone", x)
    BY <1>6 DEF RegDeregisterGateway, HookCalled, HookBegins, EndsFit, Rest
  <2> QED
    BY <1>6, <2>1, HookKeeps DEF RegDeregisterGateway, HookCalled, HookBegins
<1>7. CASE RegUserConnects(x)
  <2>1. EndsFit' /\ ends \subseteq ends' /\ withdrawn' = withdrawn /\ Queue("connect", x)
    BY <1>7 DEF RegUserConnects, HookBegins, EndsFit, Rest, tables
  <2>2. /\ linkState' = [c \in RegConnections |-> linkState'[c]]
        /\ \A c \in RegConnections : linkState'[c] = linkState[c] \/ InDatabase(c)
    BY <1>7 DEF RegUserConnects, RegistryShape
  <2> QED
    BY <1>7, <2>1, <2>2, HookKeeps DEF RegUserConnects, HookBegins
<1>8. CASE RegUserDisconnects(x)
  <2>1. EndsFit' /\ ends \subseteq ends' /\ withdrawn' = withdrawn /\ Queue("disconnect", x)
    BY <1>8 DEF RegUserDisconnects, HookCalled, HookBegins, EndsFit, Rest, tables
  <2> QED
    BY <1>8, <2>1, HookKeeps DEF RegUserDisconnects, HookCalled, HookBegins
<1> QED
  BY <1>1, <1>2, <1>3, <1>4, <1>5, <1>6, <1>7, <1>8

LEMMA UsersAreConnections ==
    ASSUME NEW x
    PROVE  /\ UsersOf(x) \in SUBSET RegConnections
           /\ UsersOfGateway(x) \in SUBSET RegConnections
           /\ UsersOfDomain(x) \in SUBSET RegConnections
<1>1. \A e : UsersOf(e) \subseteq RegConnections
  BY DEF UsersOf
<1>2. \A g : UsersOfGateway(g) \subseteq RegConnections
  BY <1>1 DEF UsersOfGateway
<1>3. UsersOfDomain(x) \subseteq RegConnections
  BY <1>1, <1>2 DEF UsersOfDomain
<1> QED
  BY <1>1, <1>2, <1>3

LEMMA ActionsAreSeq == \A type, name : IsSeq(ActionsFor(type, name))
<1> TAKE type, name
<1>1. \A new, d : IsSeq(Registers(new, d))
  BY EmptyIsSeq DEF Registers
<1>2. IsSeq(Disconnects(UsersOf(name))) /\ IsSeq(Disconnects(UsersOfGateway(name)))
      /\ IsSeq(Disconnects(UsersOfDomain(name)))
  BY UsersAreConnections, DisconnectsFacts
<1>3. CASE type = "domain"
  BY <1>1, <1>3 DEF ActionsFor
<1>4. CASE type = "end"
  BY <1>1, <1>4 DEF ActionsFor
<1>5. CASE type = "endGone"
  BY <1>2, <1>5 DEF ActionsFor
<1>6. CASE type = "gatewayGone"
  BY <1>2, <1>6 DEF ActionsFor
<1>7. CASE type = "domainGone"
  BY <1>2, <1>7 DEF ActionsFor
<1>8. CASE type \in {"connect", "disconnect"}
  BY <1>8, EmptyIsSeq DEF ActionsFor
<1>9. CASE type \notin {"domain", "end", "endGone", "gatewayGone", "domainGone", "connect", "disconnect"}
  BY <1>9, EmptyIsSeq DEF ActionsFor
<1> QED
  BY <1>3, <1>4, <1>5, <1>6, <1>7, <1>8, <1>9

\* A user of an end is found when the trigger is evaluated: all elements are still there.
LEMMA UserIsFound ==
    ASSUME RegistryInv, NEW c \in RegConnections, NEW i \in DOMAIN RouteOf[c],
           NEW e \in RouteOf[c][i].ends, linkState[c] # "none"
    PROVE  c \in UsersOf(e)
<1>1. RouteOf[c] \in Seq([ends : SUBSET RegEnds, home : RegDomains])
  BY RegistryAssumption
<1>2. i \in 1..Len(RouteOf[c]) /\ Len(RouteOf[c]) \in Nat /\ DOMAIN RouteOf[c] = 1..Len(RouteOf[c])
  BY <1>1
<1>3. 1 \in DOMAIN RouteOf[c] /\ Len(RouteOf[c]) \in DOMAIN RouteOf[c]
  BY <1>2
<1>4. \A j \in DOMAIN RouteOf[c] : RouteOf[c][j].ends \subseteq ends
  BY DEF RegistryInv, UsersFit
<1>5. FoundByName(c) /\ e \in ends
  BY <1>3, <1>4 DEF FoundByName, MainEnds
<1> QED
  BY <1>5 DEF UsersOf

LEMMA TakeTriggerKeeps ==
    ASSUME RegistryInv, TakeTrigger PROVE RegistryInv'
<1> DEFINE t == Head(triggers)
<1>1. /\ todo = <<>> /\ triggers # <<>> /\ todo' = ActionsFor(t[1], t[2]) /\ triggers' = Tail(triggers)
      /\ UNCHANGED <<tables, linkState, hook, withdrawn>>
  BY DEF TakeTrigger
<1>2. /\ IsSeq(Tail(triggers))
      /\ \A j \in DOMAIN triggers :
            triggers[j] = t \/ \E k \in DOMAIN Tail(triggers) : Tail(triggers)[k] = triggers[j]
  BY <1>1, TailFacts DEF RegistryInv, RegistryShape
<1>3. IsSeq(todo')
  BY <1>1, ActionsAreSeq
<1>4. RegistryShape' /\ EndsFit' /\ UsersFit'
  BY <1>1, <1>2, <1>3 DEF RegistryInv, RegistryShape, EndsFit, UsersFit, tables
<1>5. ASSUME NEW c \in RegConnections, NEW i \in DOMAIN RouteOf[c],
             NEW e \in RouteOf[c][i].ends \cap withdrawn, IsUp(c)
      PROVE  Pursued(c, e)'
  <2>1. Pursued(c, e)
    BY <1>5 DEF RegistryInv, UsersPursued
  <2>2. PICK j \in DOMAIN triggers : triggers[j] = <<"endGone", e>>
    BY <1>1, <2>1 DEF Pursued
  <2>3. CASE triggers[j] = t
    <3>1. t[1] = "endGone" /\ t[2] = e
      BY <2>2, <2>3
    <3>2. todo' = Disconnects(UsersOf(e))
      BY <1>1, <3>1 DEF ActionsFor
    <3>3. c \in UsersOf(e)
      BY <1>5, UserIsFound DEF IsUp
    <3>4. UsersOf(e) \in SUBSET RegConnections
      BY UsersAreConnections
    <3>5. \E k \in DOMAIN todo' : todo'[k].do = "disconnect" /\ todo'[k].conn = c
      BY <3>2, <3>3, <3>4, DisconnectsFacts
    <3> QED
      BY <3>5 DEF Pursued
  <2>4. CASE triggers[j] # t
    <3>1. \E k \in DOMAIN triggers' : triggers'[k] = <<"endGone", e>>
      BY <1>1, <1>2, <2>2, <2>4
    <3> QED
      BY <3>1 DEF Pursued
  <2> QED
    BY <2>3, <2>4
<1>6. UsersPursued'
  BY <1>1, <1>5 DEF UsersPursued, IsUp
<1> QED
  BY <1>4, <1>6 DEF RegistryInv

\* An action is done: those after it remain, and what it pursued must be down.
LEMMA ExecuteKeeps ==
    ASSUME RegistryInv, NEW what, Executes(what), EndsFit', ends \subseteq ends',
           linkState' = [c \in RegConnections |-> linkState'[c]],
           \A c \in RegConnections : linkState'[c] # "none" =>
              linkState[c] # "none" \/ \A i \in DOMAIN RouteOf[c] : RouteOf[c][i].ends \subseteq endsDb,
           \A c \in RegConnections : IsUp(c)' =>
              /\ IsUp(c) \/ \A i \in DOMAIN RouteOf[c] : RouteOf[c][i].ends \subseteq endsDb
              /\ ~(Head(todo).do = "disconnect" /\ Head(todo).conn = c)
    PROVE  RegistryInv'
<1>1. todo # <<>> /\ todo' = Tail(todo) /\ triggers' = triggers /\ withdrawn' = withdrawn
  BY DEF Executes
<1>2. /\ IsSeq(Tail(todo))
      /\ \A j \in DOMAIN todo :
            todo[j] = Head(todo) \/ \E k \in DOMAIN Tail(todo) : Tail(todo)[k] = todo[j]
  BY <1>1, TailFacts DEF RegistryInv, RegistryShape
<1>3. RegistryShape'
  BY <1>1, <1>2 DEF RegistryInv, RegistryShape
<1>4. endsDb \subseteq ends /\ withdrawn \cap endsDb = {}
  BY DEF RegistryInv, EndsFit
<1>5. UsersFit'
  BY <1>4 DEF RegistryInv, UsersFit
<1>6. ASSUME NEW c \in RegConnections, NEW i \in DOMAIN RouteOf[c],
             NEW e \in RouteOf[c][i].ends \cap withdrawn, IsUp(c)'
      PROVE  Pursued(c, e)'
  <2>1. IsUp(c)
    BY <1>4, <1>6
  <2>2. Pursued(c, e)
    BY <1>6, <2>1 DEF RegistryInv, UsersPursued
  <2>3. CASE \E j \in DOMAIN triggers : triggers[j] = <<"endGone", e>>
    BY <1>1, <2>3 DEF Pursued
  <2>4. CASE \E j \in DOMAIN todo : todo[j].do = "disconnect" /\ todo[j].conn = c
    <3>1. PICK j \in DOMAIN todo : todo[j].do = "disconnect" /\ todo[j].conn = c
      BY <2>4
    <3>2. todo[j] # Head(todo)
      BY <1>6, <3>1
    <3>3. \E k \in DOMAIN todo' : todo'[k] = todo[j]
      BY <1>1, <1>2, <3>2
    <3> QED
      BY <3>1, <3>3 DEF Pursued
  <2> QED
    BY <2>2, <2>3, <2>4 DEF Pursued
<1>7. UsersPursued'
  BY <1>1, <1>6 DEF UsersPursued
<1> QED
  BY <1>3, <1>5, <1>7 DEF RegistryInv

LEMMA ExecuteConnectKeeps ==
    ASSUME RegistryInv, ExecuteConnect PROVE RegistryInv'
<1> DEFINE c == Head(todo).conn
<1>1. /\ Executes("connect") /\ Head(todo).do = "connect"
      /\ UNCHANGED <<ends, endsDb, hook, withdrawn>>
  BY DEF ExecuteConnect, Executes
<1>2. linkState = [d \in RegConnections |-> linkState[d]]
  BY DEF RegistryInv, RegistryShape
<1>3. EndsFit'
  BY <1>1 DEF RegistryInv, EndsFit
<1>4. CASE linkState' = linkState
  BY <1>1, <1>2, <1>3, <1>4, ExecuteKeeps DEF IsUp
<1>5. CASE linkState' # linkState
  <2>1. \/ /\ linkState[c] = "created" \/ (linkState[c] = "none" /\ InDatabase(c))
           /\ linkState' = [linkState EXCEPT ![c] = "connecting"]
        \/ linkState[c] = "created" /\ linkState' = [linkState EXCEPT ![c] = "none"]
    BY <1>5 DEF ExecuteConnect
  <2>2. /\ linkState' = [d \in RegConnections |-> linkState'[d]]
        /\ \A d \in RegConnections : d # c => linkState'[d] = linkState[d]
    BY <1>2, <2>1
  <2> HIDE DEF c
  <2>3. linkState'[c] # "none" => IsUp(c) \/ InDatabase(c)
    BY <1>2, <2>1 DEF IsUp
  <2> QED
    BY <1>1, <1>3, <2>2, <2>3, ExecuteKeeps DEF IsUp, InDatabase
<1> QED
  BY <1>4, <1>5

LEMMA ExecuteDisconnectKeeps ==
    ASSUME RegistryInv, ExecuteDisconnect PROVE RegistryInv'
<1> DEFINE c == Head(todo).conn
<1>1. Executes("disconnect") /\ UNCHANGED <<ends, endsDb, hook, withdrawn>>
  BY DEF ExecuteDisconnect, Executes
<1>2. linkState = [d \in RegConnections |-> linkState[d]]
  BY DEF RegistryInv, RegistryShape
<1>3. EndsFit'
  BY <1>1 DEF RegistryInv, EndsFit
<1>4. \/ linkState[c] = "none" /\ linkState' = linkState
      \/ linkState[c] # "none" /\ linkState' = [linkState EXCEPT ![c] = "disconnecting"]
      \/ linkState[c] # "none" /\ linkState' = [linkState EXCEPT ![c] = "none"]
  BY DEF ExecuteDisconnect
<1> HIDE DEF c
<1>5. /\ linkState' = [d \in RegConnections |-> linkState'[d]]
      /\ \A d \in RegConnections : linkState'[d] # "none" => linkState[d] # "none"
      /\ \A d \in RegConnections : IsUp(d)' => IsUp(d) /\ d # c
  BY <1>2, <1>4 DEF IsUp
<1> QED
  BY <1>1, <1>3, <1>5, ExecuteKeeps DEF c

LEMMA ExecuteRegisterKeeps ==
    ASSUME RegistryInv, ExecuteRegister PROVE RegistryInv'
<1> DEFINE new == RegisteredEnds(Head(todo))
<1>1. /\ Executes("register") /\ Head(todo).do = "register" /\ UNCHANGED <<linkState, hook, withdrawn>>
      /\ ends' = ends \cup new /\ endsDb' = endsDb \cup new
  BY DEF ExecuteRegister, Executes
<1>2. new \cap ends = {}
  BY DEF RegisteredEnds
<1> HIDE DEF new
<1>3. linkState = [d \in RegConnections |-> linkState[d]]
  BY DEF RegistryInv, RegistryShape
<1>4. CASE hook.what # "end"
  <2>1. EndsFit'
    BY <1>1, <1>2, <1>4 DEF RegistryInv, EndsFit
  <2> QED
    BY <1>1, <1>3, <2>1, ExecuteKeeps DEF IsUp
<1>5. CASE hook.what = "end"
  <2>1. hook.name \in ends
    BY <1>5 DEF RegistryInv, EndsFit
  <2>2. EndsFit'
    BY <1>1, <1>2, <1>5, <2>1 DEF RegistryInv, EndsFit
  <2> QED
    BY <1>1, <1>3, <2>2, ExecuteKeeps DEF IsUp
<1> QED
  BY <1>4, <1>5

LEMMA RegAnswerKeeps ==
    ASSUME RegistryInv, NEW ok, RegAnswer(ok) PROVE RegistryInv'
<1>1. /\ UNCHANGED <<ends, endsDb, triggers, todo, withdrawn>> /\ hook'.what = "iterate"
      /\ linkState' = [linkState EXCEPT ![waiting] =
                         IF linkState[waiting] = "connecting" /\ ok THEN "connected" ELSE "none"]
  BY DEF RegAnswer, tables, Rest
<1>2. linkState = [d \in RegConnections |-> linkState[d]]
  BY DEF RegistryInv, RegistryShape
<1>3. /\ linkState' = [d \in RegConnections |-> linkState'[d]]
      /\ \A d \in RegConnections : linkState'[d] # "none" => linkState[d] # "none"
      /\ \A d \in RegConnections : IsUp(d)' => IsUp(d)
  BY <1>1, <1>2 DEF IsUp
<1>4. RegistryShape' /\ EndsFit' /\ UsersFit'
  BY <1>1, <1>3 DEF RegistryInv, RegistryShape, EndsFit, UsersFit
<1>5. UsersPursued'
  BY <1>1, <1>3 DEF RegistryInv, UsersPursued, Pursued
<1> QED
  BY <1>4, <1>5 DEF RegistryInv

\* The end of a hook destroys no element: its database entry is gone already.
LEMMA HookEndsKeeps ==
    ASSUME ~AbsentIsOk, RegistryInv, HookEnds PROVE RegistryInv'
<1> DEFINE mine == CASE hook.what = "end" -> {hook.name}
                     [] hook.what = "domain" -> hook.also
                     [] OTHER -> {}
<1>1. /\ UNCHANGED <<linkState, triggers, todo, withdrawn>> /\ hook' = NoHook
      /\ ends' = ends \ DestroyedEnds(mine) /\ endsDb' = endsDb \ mine
  BY DEF HookEnds
<1>2. mine \cap endsDb = {}
  <2>1. CASE hook.what = "end"
    BY <2>1 DEF RegistryInv, EndsFit
  <2>2. CASE hook.what = "domain"
    BY <2>2 DEF RegistryInv, EndsFit
  <2>3. CASE hook.what \notin {"end", "domain"}
    <3>1. mine = {}
      BY <2>3
    <3> QED
      BY <3>1
  <2> QED
    BY <2>1, <2>2, <2>3
<1> HIDE DEF mine
<1>3. ends' = ends /\ endsDb' = endsDb
  BY <1>1, <1>2 DEF DestroyedEnds
<1>4. RegistryShape' /\ EndsFit' /\ UsersFit'
  BY <1>1, <1>3 DEF RegistryInv, RegistryShape, EndsFit, UsersFit, NoHook
<1>5. UsersPursued'
  BY <1>1 DEF RegistryInv, UsersPursued, Pursued, IsUp
<1> QED
  BY <1>4, <1>5 DEF RegistryInv

LEMMA RegistryStep ==
    ASSUME ~AbsentIsOk, RegistryInv, [RegistryNext]_registryVars PROVE RegistryInv'
<1>1. CASE UNCHANGED registryVars
  BY <1>1 DEF registryVars, RegistryInv, RegistryShape, EndsFit, UsersFit, UsersPursued, Pursued, IsUp
<1> QED
  BY <1>1, HooksKeep, TakeTriggerKeeps, ExecuteConnectKeeps, ExecuteDisconnectKeeps,
     ExecuteRegisterKeeps, RegAnswerKeeps, HookEndsKeeps DEF RegistryNext

\* While the database refuses to remove what it does not have, nothing stays connected through a
\* sink or source that was deregistered, once all is done, for all routes and all orders of calls.
THEOREM WithdrawnIsUnused == ~AbsentIsOk => (RegistrySpec => []NoUserLeftBehind)
<1> SUFFICES ASSUME ~AbsentIsOk PROVE RegistrySpec => []NoUserLeftBehind
  OBVIOUS
<1>1. RegistryInv => NoUserLeftBehind
  <2> SUFFICES ASSUME RegistryInv, Quiet, NEW c \in RegConnections, linkState[c] = "connected",
                      NEW i \in DOMAIN RouteOf[c], NEW e \in RouteOf[c][i].ends \cap withdrawn
               PROVE  FALSE
    BY DEF NoUserLeftBehind
  <2>1. Pursued(c, e)
    BY DEF RegistryInv, UsersPursued, IsUp
  <2>2. triggers = <<>> /\ todo = <<>>
    BY DEF Quiet, NothingPending
  <2> QED
    BY <2>1, <2>2 DEF Pursued
<1>2. RegistryInv /\ [RegistryNext]_registryVars => RegistryInv'
  BY RegistryStep
<1> QED
  BY <1>1, <1>2, RegistryStarts, PTL DEF RegistrySpec

-----------------------------------------------------------------------------
(* The rundown: for every list of domains and connections *)

Transfers ==
    [connection : Range(RundownConnections), at : Int,
     status : {"not started", "executing", "completed"}]

\* The children up to the current one are completed, the current one may wait for an answer,
\* those after it are not started.
Executed(ts, index) ==
    \A j \in DOMAIN ts : /\ j < index <=> ts[j].status = "completed"
                         /\ ts[j].status = "executing" => j = index

Distinct(ts) == \A i, j \in DOMAIN ts : ts[i].connection = ts[j].connection => i = j

RundownShape ==
    /\ phase \in {"running", "rundown", "finalised"}
    /\ child \in Nat
    /\ transfers \in Seq(Transfers)
    /\ Distinct(transfers)

OffersFor(ts, ds) ==
    {[child |-> i, domain |-> ds[ts[i].at]] : i \in {j \in DOMAIN ts : ts[j].status = "executing"}}

OffersFit ==
    /\ offers = OffersFor(transfers, candidates)
    /\ phase = "running" => transfers = <<>> /\ takenBy = {}
    /\ phase = "finalised" => child > Len(transfers)

\* What has been taken over belongs to a completed transfer, and was taken over once.
TakenFit ==
    /\ \A x \in takenBy : \E j \in DOMAIN transfers :
          transfers[j].connection = x.connection /\ transfers[j].status = "completed"
    /\ \A x, y \in takenBy : x.connection = y.connection => x = y

RundownInv == RundownShape /\ Executed(transfers, child) /\ OffersFit /\ TakenFit

LEMMA SequenceFacts ==
    ASSUME NEW T, NEW ts \in Seq(T)
    PROVE  /\ DOMAIN ts = 1..Len(ts) /\ Len(ts) \in Nat /\ ts \in [1..Len(ts) -> T]
           /\ \A j \in DOMAIN ts : j \in Nat /\ ts[j] \in T
  OBVIOUS

\* InOrder lists every place of S once.
LEMMA InOrderFacts ==
    ASSUME NEW S, IsFiniteSet(S), S \subseteq Nat, NEW f \in InOrder(S)
    PROVE  /\ Cardinality(S) \in Nat /\ f \in [1..Cardinality(S) -> S]
           /\ \A i, j \in DOMAIN f : f[i] = f[j] => i = j
<1>1. Cardinality(S) \in Nat
  BY FS_CardinalityType
<1>2. f \in [1..Cardinality(S) -> S] /\ \A i, j \in DOMAIN f : i < j => f[i] < f[j]
  BY DEF InOrder
<1>3. ASSUME NEW i \in DOMAIN f, NEW j \in DOMAIN f, f[i] = f[j] PROVE i = j
  <2>1. i \in 1..Cardinality(S) /\ j \in 1..Cardinality(S)
    BY <1>2
  <2>2. i \in Nat /\ j \in Nat
    BY <1>1, <2>1
  <2>3. f[i] \in S /\ f[j] \in S
    BY <1>2, <2>1
  <2>4. f[i] \in Nat /\ f[j] \in Nat
    BY <2>3
  <2>5. ~(f[i] < f[j]) /\ ~(f[j] < f[i])
    BY <1>3, <2>4
  <2>6. ~(i < j) /\ ~(j < i)
    BY <1>2, <2>5
  <2>7. QED
    BY <2>2, <2>6
<1>4. QED
  BY <1>1, <1>2, <1>3

Unstarted(ts) == \A j \in DOMAIN ts : ts[j].status = "not started"

\* A transfer that is executed waits for an answer or is completed.
LEMMA OfferedFacts ==
    ASSUME NEW t \in Transfers, NEW k \in Int, NEW u \in Offered(t, k)
    PROVE  /\ u \in Transfers /\ u.connection = t.connection
           /\ u.status \in {"executing", "completed"}
<1>1. PICK j \in k..Len(candidates') + 1 :
         u = [t EXCEPT !.at = j, !.status = IF j <= Len(candidates') THEN "executing" ELSE "completed"]
  BY DEF Offered
<1>2. j \in Int
  BY <1>1
<1>3. QED
  BY <1>1, <1>2 DEF Transfers

LEMMA ExecutedFromFacts ==
    ASSUME NEW ts \in Seq(Transfers), ts # <<>>,
           Unstarted(ts),
           NEW us \in ExecutedFrom(ts, 1)
    PROVE  /\ us \in Seq(Transfers) /\ DOMAIN us = DOMAIN ts
           /\ \A j \in DOMAIN ts : us[j].connection = ts[j].connection
           /\ Cardinality({i \in DOMAIN us : us[i].status = "completed"}) \in Nat
           /\ Executed(us, Cardinality({i \in DOMAIN us : us[i].status = "completed"}) + 1)
<1>1. /\ DOMAIN us = DOMAIN ts /\ us \in [DOMAIN ts -> UNION {Offered(ts[j], 1) : j \in DOMAIN ts} \cup {ts[j] : j \in DOMAIN ts}]
      /\ \E last \in 1..Len(ts) :
            /\ \A j \in DOMAIN ts : us[j] \in IF j \in 1..last THEN Offered(ts[j], 1) ELSE {ts[j]}
            /\ \A j \in 1..last - 1 : us[j].status = "completed"
            /\ last < Len(ts) => us[last].status = "executing"
  BY DEF ExecutedFrom
<1>2. PICK last \in 1..Len(ts) :
            /\ \A j \in DOMAIN ts : us[j] \in IF j \in 1..last THEN Offered(ts[j], 1) ELSE {ts[j]}
            /\ \A j \in 1..last - 1 : us[j].status = "completed"
            /\ last < Len(ts) => us[last].status = "executing"
  BY <1>1
<1>3. /\ DOMAIN ts = 1..Len(ts) /\ Len(ts) \in Nat
      /\ \A j \in DOMAIN ts : j \in Nat /\ ts[j] \in Transfers
  BY SequenceFacts
<1>a. last \in Nat /\ 1 <= last /\ last <= Len(ts)
  BY <1>3
<1>4. ASSUME NEW j \in DOMAIN ts, j \in 1..last
      PROVE  /\ us[j] \in Transfers /\ us[j].connection = ts[j].connection
             /\ us[j].status \in {"executing", "completed"}
  <2>1. us[j] \in Offered(ts[j], 1)
    BY <1>2, <1>4
  <2>2. ts[j] \in Transfers
    BY <1>3
  <2>3. QED
    BY <2>1, <2>2, OfferedFacts
<1>5. ASSUME NEW j \in DOMAIN ts, j \notin 1..last
      PROVE  us[j] = ts[j] /\ us[j] \in Transfers /\ us[j].status = "not started"
  <2>1. us[j] = ts[j]
    BY <1>2, <1>5
  <2>2. QED
    BY <1>3, <2>1 DEF Unstarted
<1>6. \A j \in DOMAIN ts : us[j] \in Transfers /\ us[j].connection = ts[j].connection
  BY <1>4, <1>5
<1>7. us \in Seq(Transfers)
  <2>1. us \in [1..Len(ts) -> Transfers]
    BY <1>1, <1>3, <1>6
  <2>2. QED
    BY <1>3, <2>1
<1> DEFINE n == IF us[last].status = "completed" THEN last ELSE last - 1
<1>8. n \in Nat /\ n <= Len(ts) /\ (n = last \/ n = last - 1)
  BY <1>a, <1>3
<1>9. \A j \in DOMAIN ts : us[j].status = "completed" <=> j \in 1..n
  <2> SUFFICES ASSUME NEW j \in DOMAIN ts PROVE us[j].status = "completed" <=> j \in 1..n
    OBVIOUS
  <2>1. j \in Nat /\ j >= 1 /\ j <= Len(ts)
    BY <1>3
  <2>2. CASE j \in 1..last - 1
    <3>1. us[j].status = "completed"
      BY <1>2, <2>2
    <3>2. j \in 1..n
      BY <1>8, <1>a, <2>1, <2>2
    <3>3. QED
      BY <3>1, <3>2
  <2>3. CASE j = last
    <3>1. CASE us[last].status = "completed"
      <4>1. n = last
        BY <3>1
      <4>2. j \in 1..n
        BY <1>a, <2>3, <4>1
      <4>3. QED
        BY <2>3, <3>1, <4>2
    <3>2. CASE us[last].status # "completed"
      <4>1. n = last - 1
        BY <3>2
      <4>2. j \notin 1..n
        BY <1>a, <2>3, <4>1
      <4>3. QED
        BY <2>3, <3>2, <4>2
    <3>3. QED
      BY <3>1, <3>2
  <2>4. CASE j \notin 1..last
    <3>1. us[j].status = "not started"
      BY <1>5, <2>4
    <3>2. j \notin 1..n
      BY <1>8, <1>a, <2>1, <2>4
    <3>3. QED
      BY <3>1, <3>2
  <2>5. QED
    BY <1>a, <2>1, <2>2, <2>3, <2>4
<1>b. ASSUME NEW j \in DOMAIN ts, us[j].status = "executing" PROVE j = n + 1
  <2>1. j \in 1..last
    BY <1>5, <1>b
  <2>2. j \notin 1..last - 1
    BY <1>2, <1>b
  <2>3. j = last
    BY <1>a, <2>1, <2>2
  <2>4. QED
    BY <1>a, <1>b, <2>3
<1> HIDE DEF n
<1>10. {i \in DOMAIN us : us[i].status = "completed"} = 1..n
  <2>1. 1..n \subseteq DOMAIN ts
    BY <1>3, <1>8
  <2>2. QED
    BY <1>1, <1>9, <2>1
<1>11. Cardinality({i \in DOMAIN us : us[i].status = "completed"}) = n
  <2>1. Cardinality(1..n) = IF 1 > n THEN 0 ELSE n - 1 + 1
    BY <1>8, FS_Interval
  <2>2. Cardinality(1..n) = n
    BY <1>8, <2>1
  <2>3. QED
    BY <1>10, <2>2
<1>12. Executed(us, n + 1)
  <2> SUFFICES ASSUME NEW j \in DOMAIN us
               PROVE  /\ j < n + 1 <=> us[j].status = "completed"
                      /\ us[j].status = "executing" => j = n + 1
    BY DEF Executed
  <2>1. j \in DOMAIN ts /\ j \in Nat /\ j >= 1
    BY <1>1, <1>3
  <2>2. us[j].status = "completed" <=> j \in 1..n
    BY <1>9, <2>1
  <2>3. j < n + 1 <=> j \in 1..n
    BY <1>8, <2>1
  <2>4. QED
    BY <1>b, <2>1, <2>2, <2>3
<1>13. QED
  BY <1>1, <1>6, <1>7, <1>8, <1>11, <1>12

-----------------------------------------------------------------------------
(* The invariant *)

LEMMA RundownInit_Inv == RundownInit => RundownInv
BY DEF RundownInit, RundownInv, RundownShape, Distinct, Executed, OffersFit, OffersFor, TakenFit

New(c) == [connection |-> c, at |-> 1, status |-> "not started"]

Made(up) ==
    [i \in DOMAIN up |-> New(RundownConnections[up[i]])]

LEMMA NewTransfer ==
    ASSUME NEW c \in Range(RundownConnections)
    PROVE  New(c) \in Transfers /\ New(c).connection = c /\ New(c).status = "not started"
BY DEF New, Transfers

\* The transfers the constructor of the rundown makes: one for every connection that is up.
LEMMA MadeFacts ==
    ASSUME NEW S, S \subseteq DOMAIN RundownConnections, NEW up \in InOrder(S)
    PROVE  /\ Made(up) \in Seq(Transfers) /\ Unstarted(Made(up)) /\ Distinct(Made(up))
<1> DEFINE R == Range(RundownConnections)
           ts == Made(up)
<1>1. /\ RundownConnections \in Seq(R)
      /\ \A i, j \in DOMAIN RundownConnections :
            RundownConnections[i] = RundownConnections[j] => i = j
  BY RundownAssumption DEF IsInjective
<1>2. /\ DOMAIN RundownConnections = 1..Len(RundownConnections)
      /\ Len(RundownConnections) \in Nat
      /\ \A i \in DOMAIN RundownConnections : RundownConnections[i] \in R
  BY <1>1, SequenceFacts
<1>3. IsFiniteSet(S) /\ S \subseteq Nat
  <2> DEFINE m == Len(RundownConnections)
  <2>1. m \in Int /\ 1..m \subseteq Nat
    BY <1>2
  <2>2. S \subseteq 1..m
    BY <1>2
  <2> HIDE DEF m
  <2>3. IsFiniteSet(1..m)
    BY <2>1, FS_Interval
  <2>4. IsFiniteSet(S)
    BY <2>2, <2>3, FS_Subset
  <2>5. S \subseteq Nat
    BY <2>1, <2>2
  <2>6. QED
    BY <2>4, <2>5
<1>4. /\ Cardinality(S) \in Nat /\ up \in [1..Cardinality(S) -> S]
      /\ \A i, j \in DOMAIN up : up[i] = up[j] => i = j
  BY <1>3, InOrderFacts
<1>5. /\ DOMAIN ts = DOMAIN up /\ DOMAIN up = 1..Cardinality(S)
      /\ ts = [i \in DOMAIN ts |-> ts[i]]
      /\ \A i \in DOMAIN ts :
            ts[i] = New(RundownConnections[up[i]])
  BY <1>4 DEF Made
<1> HIDE DEF ts
<1>6. ASSUME NEW i \in DOMAIN ts
      PROVE  /\ up[i] \in DOMAIN RundownConnections
             /\ ts[i].connection = RundownConnections[up[i]]
             /\ ts[i] \in Transfers /\ ts[i].status = "not started"
  <2> DEFINE c == RundownConnections[up[i]]
  <2>1. up[i] \in DOMAIN RundownConnections
    BY <1>4, <1>5
  <2>2. ts[i] = New(c)
    BY <1>5
  <2>3. c \in R
    BY <1>2, <2>1
  <2> HIDE DEF c
  <2>4. ts[i].connection = c /\ ts[i] \in Transfers /\ ts[i].status = "not started"
    BY <2>2, <2>3, NewTransfer
  <2>5. QED
    BY <2>1, <2>4 DEF c
<1>7. ts \in Seq(Transfers)
  <2>1. \A i \in DOMAIN ts : ts[i] \in Transfers
    BY <1>6
  <2>2. DOMAIN ts = 1..Cardinality(S) /\ Cardinality(S) \in Nat
    BY <1>4, <1>5
  <2>3. ts \in [DOMAIN ts -> Transfers]
    <3>1. ts = [i \in DOMAIN ts |-> ts[i]]
      BY <1>5
    <3>2. QED
      BY <2>1, <3>1
  <2>4. QED
    BY <2>2, <2>3
<1>8. ASSUME NEW i \in DOMAIN ts, NEW j \in DOMAIN ts, ts[i].connection = ts[j].connection
      PROVE  i = j
  <2>1. RundownConnections[up[i]] = RundownConnections[up[j]]
    BY <1>6, <1>8
  <2>2. up[i] \in DOMAIN RundownConnections /\ up[j] \in DOMAIN RundownConnections
    BY <1>6
  <2>3. up[i] = up[j]
    BY <1>1, <2>1, <2>2
  <2>4. QED
    BY <1>4, <1>5, <2>3
<1>9. QED
  BY <1>6, <1>7, <1>8 DEF ts, Unstarted, Distinct

LEMMA SetControllerRundownInv == RundownInv /\ SetControllerRundown => RundownInv'
<1> SUFFICES ASSUME RundownInv, SetControllerRundown PROVE RundownInv'
  OBVIOUS
<1> DEFINE Up(states) == {i \in DOMAIN RundownConnections : Survives(states[i])}
           done(ts) == Cardinality({i \in DOMAIN ts : ts[i].status = "completed"})
<1>a. PICK states : \E up \in InOrder(Up(states)) :
         \E us \in IF Made(up) = <<>> THEN {Made(up)} ELSE ExecutedFrom(Made(up), 1) :
            transfers' = us /\ child' = done(us) + 1 /\ offers' = OffersOf(us)
  <2>1. PICK survivors \in SUBSET DOMAIN RundownDomains, states \in [DOMAIN RundownConnections -> States] :
          \E ds \in InOrder(survivors), up \in InOrder(Up(states)) :
            LET tr == Made(up)
            IN /\ candidates' = [i \in DOMAIN ds |-> RundownDomains[ds[i]]]
               /\ \E us \in IF tr = <<>> THEN {tr} ELSE ExecutedFrom(tr, 1) :
                    /\ transfers' = us
                    /\ child' = done(us) + 1
                    /\ offers' = OffersOf(us)
    BY Zenon DEF SetControllerRundown, Made, New
  <2> HIDE DEF Up, done
  <2>2. QED
    BY <2>1
<1>1. PICK up \in InOrder(Up(states)) :
         \E us \in IF Made(up) = <<>> THEN {Made(up)} ELSE ExecutedFrom(Made(up), 1) :
            transfers' = us /\ child' = done(us) + 1 /\ offers' = OffersOf(us)
  BY <1>a
<1>2. Up(states) \subseteq DOMAIN RundownConnections
  OBVIOUS
<1> DEFINE ts == Made(up)
<1>3. ts \in Seq(Transfers) /\ Unstarted(ts) /\ Distinct(ts)
  BY <1>1, <1>2, MadeFacts
<1> HIDE DEF Up, done, ts
<1>4. PICK us \in IF ts = <<>> THEN {ts} ELSE ExecutedFrom(ts, 1) :
         transfers' = us /\ child' = done(us) + 1 /\ offers' = OffersOf(us)
  BY <1>1 DEF ts
<1>5. /\ us \in Seq(Transfers) /\ DOMAIN us = DOMAIN ts
      /\ \A j \in DOMAIN ts : us[j].connection = ts[j].connection
      /\ done(us) \in Nat /\ Executed(us, done(us) + 1)
  <2>1. CASE ts = <<>>
    <3>1. us = <<>>
      BY <2>1
    <3>2. DOMAIN us = {}
      BY <3>1
    <3>3. {i \in DOMAIN us : us[i].status = "completed"} = {}
      BY <3>2
    <3>4. done(us) = 0
      BY <3>3, FS_EmptySet DEF done
    <3>5. us = ts
      BY <2>1
    <3>6. QED
      BY <1>3, <3>2, <3>4, <3>5 DEF Executed
  <2>2. CASE ts # <<>>
    BY <1>3, <2>2, ExecutedFromFacts DEF done
  <2>3. QED
    BY <2>1, <2>2
<1>6. phase = "running" /\ takenBy' = takenBy /\ phase' = IF child' > Len(transfers') THEN "finalised" ELSE "rundown"
  BY DEF SetControllerRundown, Finalised
<1>7. RundownShape'
  <2>1. Distinct(us)
    BY <1>3, <1>5 DEF Distinct
  <2>2. phase' \in {"running", "rundown", "finalised"}
    BY <1>6
  <2>3. child' \in Nat
    BY <1>4, <1>5
  <2>4. QED
    BY <1>4, <1>5, <2>1, <2>2, <2>3 DEF RundownShape
<1>8. Executed(transfers', child')
  BY <1>4, <1>5
<1>9. OffersFit'
  <2>1. offers' = OffersFor(transfers', candidates')
    BY <1>4 DEF OffersOf, OffersFor
  <2>2. phase' # "running" /\ (phase' = "finalised" => child' > Len(transfers'))
    BY <1>6
  <2>3. QED
    BY <2>1, <2>2 DEF OffersFit
<1>10. TakenFit'
  <2>1. takenBy' = {}
    BY <1>6 DEF RundownInv, OffersFit
  <2>2. QED
    BY <2>1 DEF TakenFit
<1>11. QED
  BY <1>7, <1>8, <1>9, <1>10 DEF RundownInv

\* What an answer makes of the transfer it is for.
LEMMA AnsweredFacts ==
    ASSUME NEW t \in Transfers, NEW taken \in BOOLEAN,
           NEW u \in IF taken THEN {[t EXCEPT !.status = "completed"]} ELSE Offered(t, t.at + 1)
    PROVE  /\ u \in Transfers /\ u.connection = t.connection
           /\ u.status \in {"executing", "completed"}
           /\ taken => u.status = "completed"
<1>1. CASE taken
  <2>1. u = [t EXCEPT !.status = "completed"]
    BY <1>1
  <2>2. QED
    BY <1>1, <2>1 DEF Transfers
<1>2. CASE ~taken
  <2>1. t.at + 1 \in Int
    <3>1. t.at \in Int
      BY DEF Transfers
    <3>2. QED
      BY <3>1
  <2>2. u \in Offered(t, t.at + 1)
    BY <1>2
  <2>3. QED
    BY <1>2, <2>1, <2>2, OfferedFacts
<1>3. QED
  BY <1>1, <1>2

\* An offer under way is one of the current child, which waits.
LEMMA OfferFacts ==
    ASSUME RundownInv, NEW o \in offers
    PROVE  /\ o.child = child /\ child \in DOMAIN transfers
           /\ transfers[child].status = "executing"
           /\ o.domain = candidates[transfers[child].at]
           /\ o = [child |-> child, domain |-> candidates[transfers[child].at]]
<1>1. offers = OffersFor(transfers, candidates) /\ Executed(transfers, child)
  BY DEF RundownInv, OffersFit
<1>2. PICK i \in DOMAIN transfers :
         /\ transfers[i].status = "executing"
         /\ o = [child |-> i, domain |-> candidates[transfers[i].at]]
  BY <1>1 DEF OffersFor
<1>3. i = child
  BY <1>1, <1>2 DEF Executed
<1>4. QED
  BY <1>2, <1>3

LEMMA AckTransferInv ==
    ASSUME RundownInv, NEW o \in offers, NEW taken \in BOOLEAN, AckTransfer(o, taken)
    PROVE  RundownInv'
<1> DEFINE c == transfers[child]
<1>1. /\ o.child = child /\ child \in DOMAIN transfers /\ c.status = "executing"
      /\ transfers \in Seq(Transfers) /\ child \in Nat
      /\ Distinct(transfers) /\ Executed(transfers, child)
  BY OfferFacts DEF RundownInv, RundownShape
<1>2. PICK t \in IF taken THEN {[c EXCEPT !.status = "completed"]} ELSE Offered(c, c.at + 1) :
         /\ transfers' = [transfers EXCEPT ![child] = t]
         /\ offers' = OffersOf(transfers')
         /\ child' = IF t.status = "completed" THEN child + 1 ELSE child
  BY <1>1 DEF AckTransfer, AckThen
<1>3. /\ phase' = IF child' > Len(transfers) THEN "finalised" ELSE phase
      /\ candidates' = candidates
      /\ takenBy' = IF taken
                    THEN takenBy \cup {[connection |-> c.connection, domain |-> o.domain]}
                    ELSE takenBy
  BY <1>1 DEF AckTransfer, AckThen, Finalised
<1>4. c \in Transfers
  BY <1>1, SequenceFacts
<1> HIDE DEF c
<1>5. /\ t \in Transfers /\ t.connection = c.connection
      /\ t.status \in {"executing", "completed"}
      /\ taken => t.status = "completed"
  BY <1>2, <1>4, AnsweredFacts
<1>6. /\ DOMAIN transfers' = DOMAIN transfers /\ Len(transfers') = Len(transfers)
      /\ transfers' \in Seq(Transfers)
      /\ transfers'[child] = t
      /\ \A j \in DOMAIN transfers : j # child => transfers'[j] = transfers[j]
  BY <1>1, <1>2, <1>5
<1>7. /\ Len(transfers) \in Nat
      /\ \A j \in DOMAIN transfers : j \in Nat /\ j <= Len(transfers)
  BY <1>1, SequenceFacts
<1>8. /\ t.status = "completed" => child' = child + 1
      /\ t.status # "completed" => child' = child
  BY <1>2
<1>9. \A j \in DOMAIN transfers : transfers'[j].connection = transfers[j].connection
  <2> SUFFICES ASSUME NEW j \in DOMAIN transfers
               PROVE  transfers'[j].connection = transfers[j].connection
    OBVIOUS
  <2>1. CASE j = child
    BY <1>5, <1>6, <2>1 DEF c
  <2>2. CASE j # child
    BY <1>6, <2>2
  <2>3. QED
    BY <2>1, <2>2
<1>10. RundownShape'
  <2>1. Distinct(transfers')
    BY <1>1, <1>6, <1>9 DEF Distinct
  <2>2. child' \in Nat
    BY <1>1, <1>8
  <2>3. phase' \in {"running", "rundown", "finalised"}
    BY <1>3 DEF RundownInv, RundownShape
  <2>4. QED
    BY <1>6, <2>1, <2>2, <2>3 DEF RundownShape
<1>11. Executed(transfers', child')
  <2> SUFFICES ASSUME NEW j \in DOMAIN transfers
               PROVE  /\ j < child' <=> transfers'[j].status = "completed"
                      /\ transfers'[j].status = "executing" => j = child'
    BY <1>6 DEF Executed
  <2>1. CASE j = child
    <3>1. transfers'[j] = t
      BY <1>6, <2>1
    <3>2. CASE t.status = "completed"
      <4>1. j < child'
        BY <1>1, <1>8, <2>1, <3>2
      <4>2. QED
        BY <3>1, <3>2, <4>1
    <3>3. CASE t.status = "executing"
      <4>1. ~(j < child') /\ j = child'
        BY <1>1, <1>8, <2>1, <3>3
      <4>2. QED
        BY <3>1, <3>3, <4>1
    <3>4. QED
      BY <1>5, <3>2, <3>3
  <2>2. CASE j # child
    <3>1. transfers'[j] = transfers[j]
      BY <1>6, <2>2
    <3>2. transfers[j].status # "executing" /\ (j < child <=> transfers[j].status = "completed")
      BY <1>1, <2>2 DEF Executed
    <3>3. j \in Nat /\ (child' = child \/ child' = child + 1)
      BY <1>7, <1>8
    <3>4. j < child' <=> j < child
      BY <1>1, <2>2, <3>3
    <3>5. QED
      BY <3>1, <3>2, <3>4
  <2>3. QED
    BY <2>1, <2>2
<1>12. OffersFit'
  <2>1. offers' = OffersFor(transfers', candidates')
    BY <1>2 DEF OffersOf, OffersFor
  <2>2. phase # "running"
    <3>1. transfers # <<>>
      BY <1>1
    <3>2. QED
      BY <3>1 DEF RundownInv, OffersFit
  <2>3. phase' # "running"
    BY <1>3, <2>2
  <2>4. phase # "finalised"
    <3>1. ~(child > Len(transfers))
      BY <1>1, <1>7
    <3>2. QED
      BY <3>1 DEF RundownInv, OffersFit
  <2>5. phase' = "finalised" => child' > Len(transfers')
    BY <1>3, <1>6, <2>4
  <2>6. QED
    BY <2>1, <2>3, <2>5 DEF OffersFit
<1>13. TakenFit'
  <2> DEFINE new == [connection |-> c.connection, domain |-> o.domain]
  <2>1. ASSUME NEW x \in takenBy
        PROVE  /\ x.connection # c.connection
               /\ \E j \in DOMAIN transfers :
                    transfers'[j].connection = x.connection /\ transfers'[j].status = "completed"
    <3>1. PICK j \in DOMAIN transfers :
            transfers[j].connection = x.connection /\ transfers[j].status = "completed"
      BY DEF RundownInv, TakenFit
    <3>2. j # child
      BY <1>1, <3>1 DEF c
    <3>3. transfers'[j] = transfers[j]
      BY <1>6, <3>2
    <3>4. x.connection # c.connection
      BY <1>1, <3>1, <3>2 DEF Distinct, c
    <3>5. QED
      BY <3>1, <3>3, <3>4
  <2>2. new.connection = c.connection
    OBVIOUS
  <2>3. taken => transfers'[child].connection = c.connection /\ transfers'[child].status = "completed"
    BY <1>5, <1>6
  <2>4. \A x \in takenBy' : x \in takenBy \/ (taken /\ x = new)
    BY <1>3
  <2>5. \A x, y \in takenBy : x.connection = y.connection => x = y
    BY DEF RundownInv, TakenFit
  <2> HIDE DEF new
  <2>6. \A x \in takenBy' : \E j \in DOMAIN transfers' :
          transfers'[j].connection = x.connection /\ transfers'[j].status = "completed"
    BY <1>1, <1>6, <2>1, <2>2, <2>3, <2>4
  <2>7. \A x, y \in takenBy' : x.connection = y.connection => x = y
    BY <2>1, <2>2, <2>4, <2>5
  <2>8. QED
    BY <2>6, <2>7 DEF TakenFit
<1>14. QED
  BY <1>10, <1>11, <1>12, <1>13 DEF RundownInv

THEOREM RundownInductive == RundownSpec => []RundownInv
<1>1. RundownInv /\ [RundownNext]_rundownVars => RundownInv'
  <2> SUFFICES ASSUME RundownInv, [RundownNext]_rundownVars PROVE RundownInv'
    OBVIOUS
  <2>1. CASE SetControllerRundown
    BY <2>1, SetControllerRundownInv
  <2>2. CASE \E o \in offers, taken \in BOOLEAN : AckTransfer(o, taken)
    BY <2>2, AckTransferInv
  <2>3. CASE UNCHANGED rundownVars
    BY <2>3 DEF rundownVars, RundownInv, RundownShape, Executed, Distinct, OffersFit, OffersFor, TakenFit
  <2>4. QED
    BY <2>1, <2>2, <2>3 DEF RundownNext
<1>2. QED
  BY <1>1, RundownInit_Inv, PTL DEF RundownSpec

\* No two domains take over the same connection, a connection taken over is offered no more,
\* a transfer has one offer under way at a time, and the controller frees itself only when no
\* domain is asked any more (CAmActionTransfer::update(), CAmActionContainer::update()).
THEOREM TakenOverOnce == RundownSpec => []OneDomainTakesOver
<1>1. RundownInv => OneDomainTakesOver
  <2> SUFFICES ASSUME RundownInv PROVE OneDomainTakesOver
    OBVIOUS
  <2>1. \A x, y \in takenBy : x.connection = y.connection => x = y
    BY DEF RundownInv, TakenFit
  <2>2. ASSUME NEW o \in offers, NEW x \in takenBy PROVE x.connection # transfers[o.child].connection
    <3>1. /\ o.child = child /\ child \in DOMAIN transfers
          /\ transfers[child].status = "executing"
      BY OfferFacts
    <3>2. PICK j \in DOMAIN transfers :
            transfers[j].connection = x.connection /\ transfers[j].status = "completed"
      BY DEF RundownInv, TakenFit
    <3>3. QED
      BY <3>1, <3>2 DEF RundownInv, RundownShape, Distinct
  <2>3. \A o, p \in offers : o = p
    BY OfferFacts
  <2>4. ASSUME phase = "finalised", NEW o \in offers PROVE FALSE
    <3>1. child \in DOMAIN transfers
      BY OfferFacts
    <3>2. child > Len(transfers) /\ transfers \in Seq(Transfers)
      BY <2>4 DEF RundownInv, OffersFit, RundownShape
    <3>3. DOMAIN transfers = 1..Len(transfers) /\ Len(transfers) \in Nat
      BY <3>2, SequenceFacts
    <3>4. QED
      BY <3>1, <3>2, <3>3
  <2>5. QED
    BY <2>1, <2>2, <2>3, <2>4 DEF OneDomainTakesOver
<1>2. QED
  BY <1>1, RundownInductive, PTL

-----------------------------------------------------------------------------
(* SoundProperties: least and greatest positions, and sequences of writes *)

LEMMA LeastOf ==
    ASSUME NEW S, S \subseteq Nat, S # {}
    PROVE  /\ \E x \in S : \A y \in S : x <= y
           /\ (CHOOSE x \in S : \A y \in S : x <= y) \in S
<1>1. PICK x \in S : \A y \in S : ~(<<y, x>> \in OpToRel(<, Nat))
  BY NatLessThanWellFounded, WFMin
<1>2. ASSUME NEW y \in S PROVE x <= y
  <2>1. y \in Nat /\ x \in Nat /\ <<y, x>> \in Nat \X Nat
    OBVIOUS
  <2>2. ~(y < x)
    BY <1>1, <2>1, Zenon DEF OpToRel
  <2> QED
    BY <2>1, <2>2
<1>3. \E z \in S : \A y \in S : z <= y
  BY <1>2
<1> QED
  BY <1>3, Zenon

LEMMA GreatestOf ==
    ASSUME NEW n \in Nat, NEW S, S \subseteq 0..n, S # {}
    PROVE  Max(S) \in S /\ \A y \in S : y <= Max(S)
<1> DEFINE T == {n - x : x \in S}
<1>1. T \subseteq Nat /\ T # {}
  <2>1. \A x \in S : n - x \in Nat
    BY SMT
  <2> QED
    BY <2>1
<1>2. PICK k \in T : \A y \in T : ~(<<y, k>> \in OpToRel(<, Nat))
  <2> HIDE DEF T
  <2> QED
    BY <1>1, NatLessThanWellFounded, WFMin
<1>3. PICK x \in S : k = n - x
  OBVIOUS
<1>4. ASSUME NEW y \in S PROVE y <= x
  <2>1. n - y \in T /\ n - y \in Nat /\ k \in Nat
    BY <1>1
  <2>2. ~(<<n - y, k>> \in OpToRel(<, Nat))
    BY <1>2, <2>1
  <2>3. ~(n - y < k)
    BY <2>1, <2>2, Zenon DEF OpToRel
  <2>4. x \in Int /\ y \in Int
    OBVIOUS
  <2> QED
    BY <2>3, <2>4, <1>3, SMT
<1>5. \A y \in S : x >= y
  <2>1. x \in Int /\ \A y \in S : y \in Int
    OBVIOUS
  <2> QED
    BY <1>4, <2>1
<1>6. Max(S) \in S /\ \A y \in S : Max(S) >= y
  BY <1>5, Zenon DEF Max
<1> QED
  BY <1>6

-----------------------------------------------------------------------------
(* SoundProperties: sequences of writes *)

NoneWrites(t, n, w) == \A i \in 1..n : t \notin DOMAIN w[i]
LastAt(t, n, w, i) ==
    /\ i \in 1..n /\ t \in DOMAIN w[i]
    /\ \A j \in 1..n : t \in DOMAIN w[j] => j <= i

LEMMA OverwrittenCases ==
    ASSUME NEW n \in Nat, NEW w, DOMAIN w = 1..n, NEW t
    PROVE  \/ /\ NoneWrites(t, n, w)
              /\ \A v : Overwritten(v, t, w) = v
           \/ \E i \in 1..n :
                /\ LastAt(t, n, w, i)
                /\ \A v : Overwritten(v, t, w) = w[i][t]
<1> DEFINE H == {i \in DOMAIN w : t \in DOMAIN w[i]}
<1>1. CASE H = {}
  <2>1. NoneWrites(t, n, w)
    BY <1>1 DEF NoneWrites
  <2>2. \A v : Overwritten(v, t, w) = v
    BY <1>1 DEF Overwritten
  <2> QED
    BY <2>1, <2>2
<1>2. CASE H # {}
  <2>1. Max(H) \in H /\ \A y \in H : y <= Max(H)
    BY <1>2, GreatestOf
  <2>2. LastAt(t, n, w, Max(H))
    BY <2>1 DEF LastAt
  <2>3. \A v : Overwritten(v, t, w) = w[Max(H)][t]
    BY <1>2 DEF Overwritten
  <2> QED
    BY <2>1, <2>2, <2>3
<1> QED
  BY <1>1, <1>2

LEMMA OverwrittenNone ==
    ASSUME NEW n \in Nat, NEW w, DOMAIN w = 1..n, NEW t, NEW v, NoneWrites(t, n, w)
    PROVE  Overwritten(v, t, w) = v
BY OverwrittenCases DEF NoneWrites, LastAt

LEMMA OverwrittenAt ==
    ASSUME NEW n \in Nat, NEW w, DOMAIN w = 1..n, NEW t
    PROVE  \A i \in 1..n : LastAt(t, n, w, i) => \A v : Overwritten(v, t, w) = w[i][t]
<1> SUFFICES ASSUME NEW i \in 1..n, LastAt(t, n, w, i), NEW v
             PROVE  Overwritten(v, t, w) = w[i][t]
  OBVIOUS
<1>1. PICK j \in 1..n : LastAt(t, n, w, j) /\ Overwritten(v, t, w) = w[j][t]
  BY OverwrittenCases DEF NoneWrites, LastAt
<1>2. i \in 1..n /\ i <= j /\ j <= i
  BY <1>1 DEF LastAt
<1>3. i = j
  BY <1>2
<1> QED
  BY <1>1, <1>3

\* The m writes of front, and after them the k writes of back.
Joined(w, front, m, back, k) ==
    /\ DOMAIN w = 1..(m + k) /\ DOMAIN front = 1..m /\ DOMAIN back = 1..k
    /\ \A i \in 1..m : front[i] = w[i]
    /\ \A i \in 1..k : back[i] = w[m + i]

LEMMA OverwrittenSplit ==
    ASSUME NEW m \in Nat, NEW k \in Nat, NEW w, NEW front, NEW back, Joined(w, front, m, back, k)
    PROVE  \A v, t : Overwritten(v, t, w) = Overwritten(Overwritten(v, t, front), t, back)
<1> SUFFICES ASSUME NEW v, NEW t
             PROVE  Overwritten(v, t, w) = Overwritten(Overwritten(v, t, front), t, back)
  OBVIOUS
<1> USE DEF Joined
<1>00. PICK n \in Nat : n = m + k
  OBVIOUS
<1>0. m \in Nat /\ k \in Nat /\ n - m = k /\ DOMAIN w = 1..n /\ m \in 0..n
  BY <1>00
<1> USE <1>00, <1>0
<1>1. CASE NoneWrites(t, k, back)
  <2>0. \A i \in 1..n : t \in DOMAIN w[i] => i <= m
    <3>1. ASSUME NEW i \in 1..n, t \in DOMAIN w[i], ~(i <= m) PROVE FALSE
      <4>1. i - m \in 1..k /\ m + (i - m) = i
        BY <3>1
      <4>2. back[i - m] = w[i]
        BY <4>1
      <4> QED
        BY <1>1, <3>1, <4>1, <4>2 DEF NoneWrites
    <3> QED
      BY <3>1
  <2>1. Overwritten(Overwritten(v, t, front), t, back) = Overwritten(v, t, front)
    BY <1>0, <1>1, OverwrittenNone
  <2>2. CASE NoneWrites(t, m, front)
    <3>1. NoneWrites(t, n, w)
      <4>1. ASSUME NEW i \in 1..n, t \in DOMAIN w[i] PROVE FALSE
        <5>1. i \in 1..m
          BY <2>0, <4>1
        <5> QED
          BY <2>2, <4>1, <5>1 DEF NoneWrites
      <4> QED
        BY <4>1 DEF NoneWrites
    <3>2. Overwritten(v, t, w) = v /\ Overwritten(v, t, front) = v
      BY <1>0, <2>2, <3>1, OverwrittenNone
    <3> QED
      BY <2>1, <3>2
  <2>3. ASSUME NEW i, LastAt(t, m, front, i)
        PROVE  Overwritten(v, t, w) = Overwritten(Overwritten(v, t, front), t, back)
    <3>1. i \in 1..n /\ front[i] = w[i] /\ i \in 1..m
      BY <2>3 DEF LastAt
    <3>2. LastAt(t, n, w, i)
      <4>1. ASSUME NEW j \in 1..n, t \in DOMAIN w[j] PROVE j <= i
        <5>1. j \in 1..m /\ front[j] = w[j]
          BY <2>0, <4>1
        <5> QED
          BY <2>3, <4>1, <5>1 DEF LastAt
      <4> QED
        BY <2>3, <3>1, <4>1 DEF LastAt
    <3>3. Overwritten(v, t, w) = w[i][t]
      BY <3>1, <3>2, OverwrittenAt
    <3>4. Overwritten(v, t, front) = front[i][t]
      BY <1>0, <2>3, <3>1, OverwrittenAt
    <3> QED
      BY <2>1, <3>1, <3>3, <3>4
  <2> QED
    BY <1>0, <2>2, <2>3, OverwrittenCases
<1>2. ASSUME NEW i, LastAt(t, k, back, i)
      PROVE  Overwritten(v, t, w) = Overwritten(Overwritten(v, t, front), t, back)
  <2>1. i \in 1..k /\ m + i \in 1..n /\ back[i] = w[m + i]
    BY <1>2 DEF LastAt
  <2>2. LastAt(t, n, w, m + i)
    <3>1. ASSUME NEW j \in 1..n, t \in DOMAIN w[j], ~(j <= m + i) PROVE FALSE
      <4>1. j - m \in 1..k /\ m + (j - m) = j
        BY <2>1, <3>1
      <4>2. back[j - m] = w[j]
        BY <4>1
      <4>3. j - m <= i
        BY <1>2, <3>1, <4>1, <4>2 DEF LastAt
      <4> QED
        BY <2>1, <3>1, <4>3
    <3> QED
      BY <1>2, <2>1, <3>1 DEF LastAt
  <2>3. Overwritten(v, t, w) = w[m + i][t]
    BY <2>1, <2>2, OverwrittenAt
  <2>4. Overwritten(Overwritten(v, t, front), t, back) = back[i][t]
    BY <1>0, <1>2, <2>1, OverwrittenAt
  <2> QED
    BY <2>1, <2>3, <2>4
<1> QED
  BY <1>0, <1>1, <1>2, OverwrittenCases

LEMMA OverwrittenOne ==
    ASSUME NEW w, DOMAIN w = 1..1, NEW t, NEW v
    PROVE  Overwritten(v, t, w) = IF t \in DOMAIN w[1] THEN w[1][t] ELSE v
<1>1. CASE t \in DOMAIN w[1]
  <2>1. 1 \in Nat /\ LastAt(t, 1, w, 1)
    BY <1>1 DEF LastAt
  <2>2. Overwritten(v, t, w) = w[1][t]
    BY <2>1, OverwrittenAt
  <2> QED
    BY <1>1, <2>2
<1>2. CASE t \notin DOMAIN w[1]
  <2>1. NoneWrites(t, 1, w)
    BY <1>2 DEF NoneWrites
  <2> QED
    BY <1>2, <2>1, OverwrittenNone
<1> QED
  BY <1>1, <1>2

-----------------------------------------------------------------------------
(* Values, lists and writes *)

Entries == [type : MainTypes, value : Int]
PropertyLists == Seq(Entries)
OrderLists == {list \in PropertyLists : Convertible(list)}
TypesOf(list) == {p.type : p \in Range(list)}
PropertyMaps(T) == [SoundElements -> [T -> Int]]
PropertyTriggers == [element : SoundElements, list : PropertyLists]

LEMMA ListFacts ==
    ASSUME NEW T, NEW s \in Seq(T)
    PROVE  /\ DOMAIN s = 1..Len(s) /\ Len(s) \in Nat
           /\ \A i \in 1..Len(s) : s[i] \in T
  OBVIOUS

LEMMA ValuesType ==
    ASSUME NEW list \in PropertyLists
    PROVE  /\ Values(list) \in [TypesOf(list) -> Int]
           /\ DOMAIN Values(list) = TypesOf(list)
           /\ TypesOf(list) \subseteq MainTypes
<1>0. \A i \in DOMAIN list : list[i] \in Entries
  BY DEF PropertyLists
<1>1. \A p \in Range(list) : p \in Entries /\ p.type \in MainTypes /\ p.value \in Int
  <2>1. \A p \in Range(list) : p \in Entries
    BY <1>0 DEF Range
  <2> QED
    BY <2>1 DEF Entries
<1>2. ASSUME NEW t \in TypesOf(list)
      PROVE  (CHOOSE p \in Range(list) : p.type = t).value \in Int
  <2>1. \E p \in Range(list) : p.type = t
    BY DEF TypesOf
  <2>2. PICK q : q = (CHOOSE p \in Range(list) : p.type = t)
    OBVIOUS
  <2>3. q \in Range(list)
    BY <2>1, <2>2, Zenon
  <2>4. q.value \in Int
    BY <1>1, <2>3
  <2> QED
    BY <2>2, <2>4
<1>3. Values(list) = [t \in TypesOf(list) |-> (CHOOSE p \in Range(list) : p.type = t).value]
  BY DEF Values, TypesOf
<1>4. Values(list) \in [TypesOf(list) -> Int]
  BY <1>2, <1>3
<1>5. TypesOf(list) \subseteq MainTypes
  BY <1>1 DEF TypesOf
<1> QED
  BY <1>4, <1>5

LEMMA ConvertibleTypes ==
    ASSUME NEW list \in OrderLists
    PROVE  TypesOf(list) \subseteq MappedTypes
<1>1. \A i \in DOMAIN list : list[i].type \in MappedTypes
  BY DEF OrderLists, Convertible
<1> QED
  BY <1>1 DEF TypesOf, Range

LEMMA WithValuesType ==
    ASSUME NEW T, NEW properties \in PropertyMaps(T), NEW es, NEW list \in PropertyLists
    PROVE  /\ WithValues(properties, es, list) \in PropertyMaps(T)
           /\ \A e \in SoundElements, t \in T :
                WithValues(properties, es, list)[e][t] =
                    IF e \in es /\ t \in TypesOf(list) THEN Values(list)[t] ELSE properties[e][t]
<1>1. PICK V : V = Values(list)
  OBVIOUS
<1>2. V \in [TypesOf(list) -> Int] /\ DOMAIN V = TypesOf(list)
  BY <1>1, ValuesType
<1>3. \A e \in SoundElements : properties[e] \in [T -> Int] /\ DOMAIN properties[e] = T
  BY DEF PropertyMaps
<1>4. WithValues(properties, es, list) =
        [e \in SoundElements |-> [t \in T |->
            IF e \in es /\ t \in TypesOf(list) THEN V[t] ELSE properties[e][t]]]
  BY <1>1, <1>2, <1>3 DEF WithValues, PropertyMaps
<1>5. \A e \in SoundElements, t \in T :
        (IF e \in es /\ t \in TypesOf(list) THEN V[t] ELSE properties[e][t]) \in Int
  BY <1>2, <1>3
<1> QED
  BY <1>1, <1>4, <1>5 DEF PropertyMaps

\* The first type that is not mapped is one of the list.
LEMMA FirstUnmappedFacts ==
    ASSUME NEW list \in PropertyLists, ~Convertible(list)
    PROVE  /\ FirstUnmapped(list) \in Entries /\ FirstUnmapped(list).type \notin MappedTypes
           /\ <<FirstUnmapped(list)>> \in PropertyLists
           /\ TypesOf(<<FirstUnmapped(list)>>) = {FirstUnmapped(list).type}
<1> DEFINE S == {i \in DOMAIN list : list[i].type \notin MappedTypes}
<1>1. S \subseteq Nat /\ S # {}
  BY ListFacts DEF PropertyLists, Convertible
<1>2. Min(S) \in S
  BY <1>1, LeastOf, Zenon DEF Min
<1>3. FirstUnmapped(list) = list[Min(S)]
  BY DEF FirstUnmapped
<1>4. FirstUnmapped(list) \in Entries /\ FirstUnmapped(list).type \notin MappedTypes
  BY <1>2, <1>3, ListFacts DEF PropertyLists
<1>5. <<FirstUnmapped(list)>> \in PropertyLists
  BY <1>4 DEF PropertyLists
<1>6. TypesOf(<<FirstUnmapped(list)>>) = {FirstUnmapped(list).type}
  BY DEF TypesOf, Range
<1> QED
  BY <1>4, <1>5, <1>6

LEMMA SettableFacts ==
    ASSUME NEW list \in PropertyLists
    PROVE  Settable(list) \in PropertyLists
BY FirstUnmappedFacts DEF Settable

-----------------------------------------------------------------------------
(* Messages and the action under way *)

OrderMessages == [handle : Nat \ {0}, element : SoundElements, list : OrderLists]
AnswerMessages == [handle : Nat \ {0}, element : SoundElements, list : OrderLists, done : BOOLEAN]
ReportMessages == [handle : {0}, element : SoundElements, list : OrderLists]
UpMessages == AnswerMessages \cup ReportMessages

Settings == [phase : {"executing", "undoing"}, element : SoundElements, list : OrderLists,
             olds : Seq(OrderLists), at : Nat, handle : Nat]
SoundStates == [main : PropertyMaps(MainTypes), queue : Seq(PropertyTriggers),
                setting : Settings \cup {AT_REST}, orders : Seq(OrderMessages), handle : Nat]

\* The action under way has made the last request.
Placed(set) == set.at \in 1..Len(PolicyTargets[set.element]) /\ set.at <= Len(set.olds)
SettingFits(set, h) == set # AT_REST => Placed(set) /\ h > 0 /\ set.handle = h

Flying(os, up) == {os[i] : i \in DOMAIN os} \cup {m \in {up[i] : i \in DOMAIN up} : m.handle # 0}

\* No two messages belong to one request.
Apart(os, up) ==
    /\ \A i, j \in DOMAIN os : os[i].handle = os[j].handle => i = j
    /\ \A i, j \in DOMAIN up : up[i].handle # 0 /\ up[i].handle = up[j].handle => i = j
    /\ \A i \in DOMAIN os, j \in DOMAIN up : os[i].handle # up[j].handle

\* A message belongs to the action under way, or its element has strayed.
Current(set) == IF set.phase = "executing" THEN set.list ELSE set.olds[set.at]
Belongs(m, set, st) ==
    IF m.handle = set.handle THEN m.element = Target(set) /\ m.list = Current(set)
    ELSE m.element \in st
FlightFits(os, up, set, h, st) ==
    /\ Apart(os, up)
    /\ \A m \in Flying(os, up) : m.handle <= h /\ Belongs(m, set, st)

\* Nobody waits for any of the messages.
Lost(os, up, h, st) ==
    /\ Apart(os, up)
    /\ \A m \in Flying(os, up) : m.handle <= h /\ m.element \in st

LEMMA TargetFacts ==
    ASSUME NEW e \in SoundElements
    PROVE  /\ PolicyTargets[e] \in Seq(SoundElements)
           /\ DOMAIN PolicyTargets[e] = 1..Len(PolicyTargets[e])
           /\ Len(PolicyTargets[e]) \in Nat /\ Len(PolicyTargets[e]) >= 1
           /\ \A i \in 1..Len(PolicyTargets[e]) : PolicyTargets[e][i] \in SoundElements
           /\ \A i, j \in 1..Len(PolicyTargets[e]) : PolicyTargets[e][i] = PolicyTargets[e][j] => i = j
<1>1. PICK s \in Seq(SoundElements) : s = PolicyTargets[e]
  BY SoundPropertyAssumption
<1>2. s # <<>> /\ IsInjective(s)
  BY <1>1, SoundPropertyAssumption
<1>3. Len(s) \in Nat /\ Len(s) >= 1 /\ DOMAIN s = 1..Len(s)
  BY <1>2
<1>4. \A i, j \in 1..Len(s) : s[i] = s[j] => i = j
  BY <1>2, <1>3 DEF IsInjective
<1> QED
  BY <1>1, <1>3, <1>4

LEMMA RestFacts ==
    /\ AT_REST.phase = "rest" /\ AT_REST.handle = 0 /\ AT_REST \notin Settings
    /\ \A set \in Settings : set # AT_REST /\ set.phase # "rest"
<1>1. AT_REST.phase = "rest" /\ AT_REST.handle = 0
  BY DEF AT_REST
<1>2. ASSUME NEW set \in Settings PROVE set.phase # "rest"
  BY DEF Settings
<1> QED
  BY <1>1, <1>2

LEMMA AppendedFacts ==
    ASSUME NEW T, NEW s \in Seq(T), NEW x \in T
    PROVE  /\ Append(s, x) \in Seq(T) /\ Len(Append(s, x)) = Len(s) + 1
           /\ DOMAIN Append(s, x) = 1..(Len(s) + 1)
           /\ \A i \in 1..Len(s) : Append(s, x)[i] = s[i]
           /\ Append(s, x)[Len(s) + 1] = x
  OBVIOUS

\* What is left of a step of the action: it has made its next request, or it is through.
Proceeds(s, r, up, st) ==
    /\ r \in SoundStates /\ r.main = s.main /\ r.queue = s.queue
    /\ SettingFits(r.setting, r.handle)
    /\ FlightFits(r.orders, up, r.setting, r.handle, st)

LEMMA OrderedFits ==
    ASSUME NEW s \in SoundStates, NEW up \in Seq(UpMessages), NEW st,
           Lost(s.orders, up, s.handle, st),
           NEW set \in Settings, Placed(set), Current(set) \in OrderLists
    PROVE  /\ Proceeds(s, Ordered(s, set, Current(set)), up, st)
           /\ Ordered(s, set, Current(set)).setting = [set EXCEPT !.handle = s.handle + 1]
<1> DEFINE list == Current(set)
<1>1. s.handle \in Nat /\ s.orders \in Seq(OrderMessages) /\ s.main \in PropertyMaps(MainTypes)
      /\ s.queue \in Seq(PropertyTriggers)
  BY DEF SoundStates
<1>2. set.element \in SoundElements /\ Target(set) \in SoundElements
  <2>1. set.element \in SoundElements
    BY DEF Settings
  <2> QED
    BY <2>1, TargetFacts DEF Placed, Target
<1>3. PICK h : h = s.handle + 1
  OBVIOUS
<1>4. h \in Nat /\ h > 0 /\ h > s.handle
  BY <1>1, <1>3
<1>5. PICK m : m = [handle |-> h, element |-> Target(set), list |-> list]
  OBVIOUS
<1>6. m \in OrderMessages /\ m.handle = h /\ m.element = Target(set) /\ m.list = list
  BY <1>2, <1>4, <1>5 DEF OrderMessages
<1>7. PICK new : new = [set EXCEPT !.handle = h]
  OBVIOUS
<1>8. new \in Settings /\ new.handle = h /\ new.element = set.element /\ new.at = set.at
      /\ new.olds = set.olds /\ new.list = set.list /\ new.phase = set.phase
  BY <1>4, <1>7 DEF Settings
<1>9. PICK os : os = Append(s.orders, m)
  OBVIOUS
<1>10. /\ os \in Seq(OrderMessages) /\ DOMAIN os = 1..(Len(s.orders) + 1)
       /\ \A i \in 1..Len(s.orders) : os[i] = s.orders[i]
       /\ os[Len(s.orders) + 1] = m
  BY <1>1, <1>6, <1>9, AppendedFacts
<1>11. PICK r : r = Ordered(s, set, list)
  OBVIOUS
<1>12. r = [s EXCEPT !.handle = h, !.setting = new, !.orders = os]
  BY <1>1, <1>3, <1>5, <1>7, <1>9, <1>11 DEF Ordered, SoundStates
<1>13. /\ r \in SoundStates /\ r.main = s.main /\ r.queue = s.queue /\ r.setting = new
       /\ r.handle = h /\ r.orders = os
  BY <1>4, <1>8, <1>10, <1>12 DEF SoundStates
<1>14. SettingFits(new, h)
  BY <1>4, <1>8 DEF SettingFits, Placed
<1>15. Len(s.orders) \in Nat /\ DOMAIN s.orders = 1..Len(s.orders)
       /\ \A i \in DOMAIN s.orders : s.orders[i] \in OrderMessages
  BY <1>1
<1>16. \A i \in DOMAIN s.orders : s.orders[i].handle \in Nat /\ s.orders[i].handle < h
  <2>1. ASSUME NEW i \in DOMAIN s.orders PROVE s.orders[i].handle \in Nat /\ s.orders[i].handle < h
    <3>1. s.orders[i] \in Flying(s.orders, up)
      BY DEF Flying
    <3>2. s.orders[i].handle <= s.handle
      BY <3>1 DEF Lost
    <3>3. s.orders[i].handle \in Nat
      BY <1>15 DEF OrderMessages
    <3> QED
      BY <1>1, <1>4, <3>2, <3>3
  <2> QED
    BY <2>1
<1>17. \A i \in DOMAIN up : up[i].handle # h
  <2>1. ASSUME NEW i \in DOMAIN up, up[i].handle = h PROVE FALSE
    <3>1. up[i].handle # 0
      BY <1>4, <2>1
    <3>2. up[i] \in Flying(s.orders, up)
      BY <3>1 DEF Flying
    <3>3. h <= s.handle
      BY <2>1, <3>2 DEF Lost
    <3> QED
      BY <1>1, <1>4, <3>3
  <2> QED
    BY <2>1
<1>18. Apart(os, up)
  <2>0. Apart(s.orders, up)
    BY DEF Lost
  <2>1. ASSUME NEW i \in DOMAIN os, NEW j \in DOMAIN os, os[i].handle = os[j].handle PROVE i = j
    <3>1. CASE i \in DOMAIN s.orders /\ j \in DOMAIN s.orders
      BY <1>10, <1>15, <2>0, <2>1, <3>1 DEF Apart
    <3>2. CASE i = Len(s.orders) + 1 /\ j \in DOMAIN s.orders
      BY <1>6, <1>10, <1>15, <1>16, <2>1, <3>2
    <3>3. CASE j = Len(s.orders) + 1 /\ i \in DOMAIN s.orders
      BY <1>6, <1>10, <1>15, <1>16, <2>1, <3>3
    <3> QED
      BY <1>10, <1>15, <3>1, <3>2, <3>3
  <2>2. ASSUME NEW i \in DOMAIN os, NEW j \in DOMAIN up PROVE os[i].handle # up[j].handle
    <3>1. CASE i \in DOMAIN s.orders
      BY <1>10, <1>15, <2>0, <3>1 DEF Apart
    <3>2. CASE i = Len(s.orders) + 1
      BY <1>6, <1>10, <1>17, <3>2
    <3> QED
      BY <1>10, <1>15, <3>1, <3>2
  <2> QED
    BY <2>0, <2>1, <2>2 DEF Apart
<1>19. ASSUME NEW x \in Flying(os, up) PROVE x.handle <= h /\ Belongs(x, new, st)
  <2>1. CASE x = m
    <3>1. Target(new) = Target(set) /\ Current(new) = Current(set)
      BY <1>8 DEF Target, Current
    <3> QED
      BY <1>4, <1>6, <1>8, <2>1, <3>1 DEF Belongs
  <2>2. CASE x \in Flying(s.orders, up)
    <3>1. x.handle <= s.handle /\ x.element \in st
      BY <2>2 DEF Lost
    <3>2. x.handle \in Nat
      BY <2>2, <1>15 DEF Flying, OrderMessages, UpMessages, AnswerMessages, ReportMessages
    <3>3. x.handle < h
      BY <1>1, <1>4, <3>1, <3>2
    <3> QED
      BY <1>4, <1>8, <3>1, <3>2, <3>3 DEF Belongs
  <2>3. x = m \/ x \in Flying(s.orders, up)
    BY <1>10, <1>15 DEF Flying
  <2> QED
    BY <2>1, <2>2, <2>3
<1>20. FlightFits(os, up, new, h, st)
  BY <1>18, <1>19 DEF FlightFits
<1> QED
  BY <1>3, <1>7, <1>8, <1>11, <1>13, <1>14, <1>20 DEF Proceeds

\* The value the daemon has for the element before, of the same types.
LEMMA OldValuesType ==
    ASSUME NEW s \in SoundStates, NEW e \in SoundElements, NEW list \in OrderLists
    PROVE  OldValues(s, e, list) \in OrderLists
<1>1. list \in Seq(Entries) /\ \A i \in DOMAIN list : list[i].type \in MappedTypes
  BY DEF OrderLists, PropertyLists, Convertible
<1>2. s.main[e] \in [MainTypes -> Int]
  BY DEF SoundStates, PropertyMaps
<1>3. ASSUME NEW i \in DOMAIN list
      PROVE  /\ [list[i] EXCEPT !.value = s.main[e][list[i].type]] \in Entries
             /\ [list[i] EXCEPT !.value = s.main[e][list[i].type]].type = list[i].type
  <2>1. list[i] \in Entries
    BY <1>1
  <2>2. list[i].type \in MainTypes
    BY <2>1 DEF Entries
  <2>3. s.main[e][list[i].type] \in Int
    BY <1>2, <2>2
  <2> QED
    BY <2>1, <2>3 DEF Entries
<1>4. PICK olds : olds = OldValues(s, e, list)
  OBVIOUS
<1>5. olds = [i \in 1..Len(list) |-> [list[i] EXCEPT !.value = s.main[e][list[i].type]]]
  BY <1>1, <1>4 DEF OldValues
<1>6. olds \in Seq(Entries) /\ DOMAIN olds = DOMAIN list
  BY <1>1, <1>3, <1>5
<1>7. \A i \in DOMAIN olds : olds[i].type \in MappedTypes
  BY <1>1, <1>3, <1>5, <1>6
<1> QED
  BY <1>4, <1>6, <1>7 DEF OrderLists, PropertyLists, Convertible

LEMMA RestProceeds ==
    ASSUME NEW s \in SoundStates, NEW up \in Seq(UpMessages), NEW st,
           Lost(s.orders, up, s.handle, st)
    PROVE  /\ Proceeds(s, [s EXCEPT !.setting = AT_REST], up, st)
           /\ [s EXCEPT !.setting = AT_REST].setting = AT_REST
<1>1. PICK r : r = [s EXCEPT !.setting = AT_REST]
  OBVIOUS
<1>2. /\ r \in SoundStates /\ r.main = s.main /\ r.queue = s.queue /\ r.setting = AT_REST
      /\ r.handle = s.handle /\ r.orders = s.orders
  BY <1>1 DEF SoundStates
<1>3. ASSUME NEW m \in Flying(s.orders, up) PROVE m.handle <= s.handle /\ Belongs(m, AT_REST, st)
  <2>1. s.orders \in Seq(OrderMessages) /\ \A i \in DOMAIN s.orders : s.orders[i] \in OrderMessages
    BY DEF SoundStates
  <2>2. m.handle # 0
    BY <2>1 DEF Flying, OrderMessages, UpMessages, AnswerMessages, ReportMessages
  <2> QED
    BY <2>2, RestFacts DEF Lost, Belongs
<1> QED
  BY <1>1, <1>2, <1>3 DEF Proceeds, SettingFits, FlightFits, Lost

LEMMA UndoFromFits ==
    ASSUME NEW s \in SoundStates, NEW up \in Seq(UpMessages), NEW st,
           Lost(s.orders, up, s.handle, st),
           NEW set \in Settings, NEW k \in Nat, k <= Len(set.olds),
           k <= Len(PolicyTargets[set.element]), NEW accepted \in BOOLEAN
    PROVE  Proceeds(s, UndoFrom(s, set, k, accepted), up, st)
<1>1. CASE k = 0 \/ ~accepted
  BY <1>1, RestProceeds DEF UndoFrom
<1>2. CASE ~(k = 0 \/ ~accepted)
  <2>1. PICK undoing : undoing = [set EXCEPT !.phase = "undoing", !.at = k]
    OBVIOUS
  <2>2. /\ undoing \in Settings /\ undoing.phase = "undoing" /\ undoing.at = k
        /\ undoing.element = set.element /\ undoing.olds = set.olds
    BY <2>1 DEF Settings
  <2>3. set.olds \in Seq(OrderLists) /\ set.element \in SoundElements
    BY DEF Settings
  <2>4. Len(set.olds) \in Nat /\ Len(PolicyTargets[set.element]) \in Nat
    BY <2>3, TargetFacts
  <2>5. k \in 1..Len(set.olds) /\ k \in 1..Len(PolicyTargets[set.element])
    BY <1>2, <2>4
  <2>6. set.olds[k] \in OrderLists
    BY <2>3, <2>5
  <2>7. Placed(undoing) /\ set.olds[k] = Current(undoing)
    BY <2>2, <2>5 DEF Placed, Current
  <2>8. UndoFrom(s, set, k, accepted) = Ordered(s, undoing, Current(undoing))
    BY <1>2, <2>1, <2>7 DEF UndoFrom
  <2>9. Proceeds(s, UndoFrom(s, set, k, accepted), up, st)
    <3>1. Current(undoing) \in OrderLists
      BY <2>6, <2>7
    <3>2. Proceeds(s, Ordered(s, undoing, Current(undoing)), up, st)
      BY <2>2, <2>7, <3>1, OrderedFits
    <3> QED
      BY <2>8, <3>2
  <2> QED
    BY <2>9
<1> QED
  BY <1>1, <1>2

\* With its requests accepted an action goes on, or it is through.
ExecutesFrom(new, set, k) ==
    IF k > Len(PolicyTargets[set.element]) THEN new = AT_REST
    ELSE /\ new \in Settings /\ new.phase = "executing" /\ new.at = k
         /\ new.element = set.element /\ new.list = set.list

LEMMA ExecuteOn ==
    ASSUME NEW s \in SoundStates, NEW up \in Seq(UpMessages), NEW st,
           Lost(s.orders, up, s.handle, st),
           NEW set \in Settings, set.phase = "executing", NEW k \in Nat, k >= 1,
           k <= Len(PolicyTargets[set.element]) + 1, k <= Len(set.olds) + 1
    PROVE  /\ Proceeds(s, ExecuteFrom(s, set, k, TRUE), up, st)
           /\ ExecutesFrom(ExecuteFrom(s, set, k, TRUE).setting, set, k)
<1>0. set.element \in SoundElements /\ set.olds \in Seq(OrderLists) /\ set.list \in OrderLists
  BY DEF Settings
<1>1. Len(set.olds) \in Nat /\ Len(PolicyTargets[set.element]) \in Nat
  BY <1>0, TargetFacts
<1>2. CASE k > Len(PolicyTargets[set.element])
  BY <1>1, <1>2, RestProceeds DEF ExecuteFrom, ExecutesFrom
<1>3. CASE k <= Len(PolicyTargets[set.element])
  <2>1. PICK next : next = [set EXCEPT !.at = k]
    OBVIOUS
  <2>2. /\ next \in Settings /\ next.phase = "executing" /\ next.at = k /\ next.list = set.list
        /\ next.element = set.element /\ next.olds = set.olds
    BY <2>1 DEF Settings
  <2>3. k \in 1..Len(PolicyTargets[set.element])
    BY <1>1, <1>3
  <2>4. Target(next) \in SoundElements
    BY <1>0, <2>2, <2>3, TargetFacts DEF Target
  <2>5. PICK old : old = OldValues(s, Target(next), set.list)
    OBVIOUS
  <2>6. old \in OrderLists
    BY <1>0, <2>4, <2>5, OldValuesType
  <2>7. PICK olds : olds = Append(set.olds, old)
    OBVIOUS
  <2>8. olds \in Seq(OrderLists) /\ Len(olds) = Len(set.olds) + 1
    BY <1>0, <2>6, <2>7, AppendedFacts
  <2>9. PICK with : with = [next EXCEPT !.olds = olds]
    OBVIOUS
  <2>10. /\ with \in Settings /\ with.phase = "executing" /\ with.at = k /\ with.list = set.list
         /\ with.element = set.element /\ with.olds = olds
    BY <2>2, <2>8, <2>9 DEF Settings
  <2>11. Placed(with) /\ set.list = Current(with)
    BY <1>1, <2>3, <2>8, <2>10 DEF Placed, Current
  <2>12. ExecuteFrom(s, set, k, TRUE) = Ordered(s, with, Current(with))
    BY <1>1, <1>3, <2>1, <2>2, <2>5, <2>7, <2>9, <2>11 DEF ExecuteFrom, Settings
  <2>13. PICK r : r = Ordered(s, with, Current(with))
    OBVIOUS
  <2>14. Proceeds(s, r, up, st) /\ r.setting = [with EXCEPT !.handle = s.handle + 1]
    BY <1>0, <2>10, <2>11, <2>13, OrderedFits
  <2>15. /\ r.setting \in Settings
         /\ r.setting.phase = "executing" /\ r.setting.at = k
         /\ r.setting.element = set.element /\ r.setting.list = set.list
    <3>1. s.handle + 1 \in Nat
      BY DEF SoundStates
    <3> QED
      BY <2>10, <2>14, <3>1 DEF Settings
  <2>16. /\ Proceeds(s, ExecuteFrom(s, set, k, TRUE), up, st)
         /\ ExecutesFrom(ExecuteFrom(s, set, k, TRUE).setting, set, k)
    <3>1. ExecuteFrom(s, set, k, TRUE) = r
      BY <2>12, <2>13
    <3>2. ~(k > Len(PolicyTargets[set.element]))
      BY <1>1, <1>3
    <3>3. ExecutesFrom(r.setting, set, k)
      BY <2>15, <3>2 DEF ExecutesFrom
    <3> QED
      BY <2>14, <3>1, <3>3
  <2> QED
    BY <2>16
<1>4. k > Len(PolicyTargets[set.element]) \/ k <= Len(PolicyTargets[set.element])
  BY <1>1
<1> QED
  BY <1>2, <1>3, <1>4, Zenon

LEMMA ExecuteFromFits ==
    ASSUME NEW s \in SoundStates, NEW up \in Seq(UpMessages), NEW st,
           Lost(s.orders, up, s.handle, st),
           NEW set \in Settings, set.phase = "executing", NEW k \in Nat, k >= 1,
           k <= Len(PolicyTargets[set.element]) + 1, k <= Len(set.olds) + 1,
           NEW accepted \in BOOLEAN
    PROVE  Proceeds(s, ExecuteFrom(s, set, k, accepted), up, st)
<1>0. set.element \in SoundElements /\ set.olds \in Seq(OrderLists)
  BY DEF Settings
<1>1. Len(set.olds) \in Nat /\ Len(PolicyTargets[set.element]) \in Nat
  BY <1>0, TargetFacts
<1>2. CASE accepted
  <2>1. Proceeds(s, ExecuteFrom(s, set, k, TRUE), up, st)
    BY ExecuteOn
  <2>2. ExecuteFrom(s, set, k, accepted) = ExecuteFrom(s, set, k, TRUE)
    BY <1>2 DEF ExecuteFrom
  <2> QED
    BY <2>1, <2>2
<1>3. CASE ~accepted /\ k > Len(PolicyTargets[set.element])
  BY <1>1, <1>3, RestProceeds DEF ExecuteFrom
<1>4. CASE ~accepted /\ k <= Len(PolicyTargets[set.element])
  <2>1. k - 1 \in Nat /\ k - 1 <= Len(set.olds) /\ k - 1 <= Len(PolicyTargets[set.element])
    BY <1>1, <1>4
  <2>2. ExecuteFrom(s, set, k, accepted) = UndoFrom(s, set, k - 1, accepted)
    BY <1>1, <1>4 DEF ExecuteFrom
  <2> QED
    BY <1>1, <1>4, <2>1, <2>2, UndoFromFits
<1> QED
  BY <1>1, <1>2, <1>3, <1>4

-----------------------------------------------------------------------------
(* iterateActions() *)

LEMMA SubSeqFacts ==
    ASSUME NEW T, NEW s \in Seq(T), NEW a \in 1..(Len(s) + 1), NEW b \in 0..Len(s), a <= b + 1
    PROVE  /\ SubSeq(s, a, b) \in Seq(T) /\ Len(SubSeq(s, a, b)) = b - a + 1
           /\ \A i \in 1..(b - a + 1) : SubSeq(s, a, b)[i] = s[a + i - 1]
<1>1. \A i \in a..b : s[i] \in T
  OBVIOUS
<1>2. a \in Int /\ b \in Int
  OBVIOUS
<1>3. /\ SubSeq(s, a, b) \in Seq(T)
      /\ Len(SubSeq(s, a, b)) = IF a <= b THEN b - a + 1 ELSE 0
      /\ \A i \in 1..(b - a + 1) : SubSeq(s, a, b)[i] = s[a + i - 1]
  BY <1>1, <1>2, SubSeqProperties
<1> QED
  BY <1>2, <1>3

LEMMA UnmappedFacts ==
    ASSUME NEW trigger \in PropertyTriggers, NEW e
    PROVE  /\ \A t \in DOMAIN Unmapped(trigger, e) : Unmapped(trigger, e)[t] \in Int
           /\ \A t \in MappedTypes : t \notin DOMAIN Unmapped(trigger, e)
           /\ Convertible(trigger.list) => DOMAIN Unmapped(trigger, e) = {}
<1>1. trigger.list \in PropertyLists
  BY DEF PropertyTriggers
<1>2. CASE ~Convertible(trigger.list) /\ e \in Range(PolicyTargets[trigger.element])
  <2>1. PICK p : p = FirstUnmapped(trigger.list)
    OBVIOUS
  <2>2. p.type \notin MappedTypes /\ <<p>> \in PropertyLists /\ TypesOf(<<p>>) = {p.type}
    BY <1>1, <1>2, <2>1, FirstUnmappedFacts
  <2>3. Values(<<p>>) \in [TypesOf(<<p>>) -> Int] /\ DOMAIN Values(<<p>>) = TypesOf(<<p>>)
    BY <2>2, ValuesType
  <2>4. Unmapped(trigger, e) = Values(<<p>>)
    BY <1>2, <2>1 DEF Unmapped
  <2> QED
    BY <1>2, <2>2, <2>3, <2>4
<1>3. CASE ~(~Convertible(trigger.list) /\ e \in Range(PolicyTargets[trigger.element]))
  <2>1. Unmapped(trigger, e) = <<>> /\ DOMAIN <<>> = {}
    BY <1>3 DEF Unmapped
  <2> QED
    BY <2>1
<1> QED
  BY <1>2, <1>3

LEMMA NotedFacts ==
    ASSUME NEW main \in PropertyMaps(MainTypes), NEW ts \in Seq(PropertyTriggers)
    PROVE  /\ Noted(main, ts) \in PropertyMaps(MainTypes)
           /\ \A e \in SoundElements, t \in MainTypes :
                Noted(main, ts)[e][t] =
                    Overwritten(main[e][t], t, [i \in DOMAIN ts |-> Unmapped(ts[i], e)])
           /\ \A e \in SoundElements, t \in MappedTypes : Noted(main, ts)[e][t] = main[e][t]
<1> DEFINE Writes(e) == [i \in DOMAIN ts |-> Unmapped(ts[i], e)]
<1>1. DOMAIN ts = 1..Len(ts) /\ Len(ts) \in Nat /\ \A i \in 1..Len(ts) : ts[i] \in PropertyTriggers
  BY ListFacts
<1>2. \A e \in SoundElements : main[e] \in [MainTypes -> Int] /\ DOMAIN main[e] = MainTypes
  BY DEF PropertyMaps
<1>3. Noted(main, ts) = [e \in SoundElements |-> [t \in MainTypes |-> Overwritten(main[e][t], t, Writes(e))]]
  BY <1>2 DEF Noted, PropertyMaps
<1>4. ASSUME NEW e \in SoundElements, NEW t \in MainTypes
      PROVE  /\ Overwritten(main[e][t], t, Writes(e)) \in Int
             /\ t \in MappedTypes => Overwritten(main[e][t], t, Writes(e)) = main[e][t]
  <2>1. PICK w : w = Writes(e)
    OBVIOUS
  <2>2. DOMAIN w = 1..Len(ts) /\ \A i \in 1..Len(ts) : w[i] = Unmapped(ts[i], e)
    BY <1>1, <2>1
  <2>3. \A i \in 1..Len(ts) : t \in DOMAIN w[i] => w[i][t] \in Int /\ t \notin MappedTypes
    BY <1>1, <2>2, UnmappedFacts
  <2>4. main[e][t] \in Int
    BY <1>2
  <2>5. CASE NoneWrites(t, Len(ts), w)
    <3>1. Overwritten(main[e][t], t, w) = main[e][t]
      BY <1>1, <2>2, <2>5, OverwrittenNone
    <3> QED
      BY <2>1, <2>4, <3>1
  <2>6. ASSUME NEW i \in 1..Len(ts), LastAt(t, Len(ts), w, i)
        PROVE  /\ Overwritten(main[e][t], t, w) \in Int
               /\ t \notin MappedTypes
    <3>1. Overwritten(main[e][t], t, w) = w[i][t]
      BY <1>1, <2>2, <2>6, OverwrittenAt
    <3>2. t \in DOMAIN w[i]
      BY <2>6 DEF LastAt
    <3> QED
      BY <2>3, <3>1, <3>2
  <2> QED
    BY <1>1, <2>1, <2>2, <2>5, <2>6, OverwrittenCases
<1>5. Noted(main, ts) \in PropertyMaps(MainTypes)
  BY <1>3, <1>4 DEF PropertyMaps
<1>6. MappedTypes \subseteq MainTypes
  BY SoundPropertyAssumption
<1> QED
  BY <1>3, <1>4, <1>5, <1>6

\* The triggers of front are over at once; then the queue is empty, or its first trigger
\* starts the action that waits and leaves rest.
Splits(q, front, rest, accepted) ==
    /\ front \in Seq(PropertyTriggers) /\ rest \in Seq(PropertyTriggers)
    /\ Len(front) \in 0..Len(q)
    /\ \A i \in 1..Len(front) : front[i] = q[i] /\ AtOnce(q[i], accepted)
    /\ Len(front) < Len(q) =>
         /\ accepted /\ Convertible(q[Len(front) + 1].list)
         /\ Len(rest) = Len(q) - Len(front) - 1
         /\ \A i \in 1..Len(rest) : rest[i] = q[Len(front) + 1 + i]
    /\ Len(front) = Len(q) => rest = <<>>

Resumed(s, front, rest) ==
    IF Len(front) = Len(s.queue) THEN [s EXCEPT !.main = Noted(@, front), !.queue = rest]
    ELSE Started([s EXCEPT !.main = Noted(@, front), !.queue = rest], s.queue[Len(front) + 1])

LEMMA IteratedCases ==
    ASSUME NEW s \in SoundStates, s.setting = AT_REST, NEW accepted \in BOOLEAN
    PROVE  \E front, rest :
             Splits(s.queue, front, rest, accepted) /\ Iterated(s, accepted) = Resumed(s, front, rest)
<1>1. PICK q : q = s.queue
  OBVIOUS
<1>2. q \in Seq(PropertyTriggers) /\ Len(q) \in Nat /\ \A i \in 1..Len(q) : q[i] \in PropertyTriggers
  BY <1>1 DEF SoundStates
<1> DEFINE S == {k \in 0 .. Len(q) : \A i \in 1 .. k : AtOnce(q[i], accepted)}
<1>3. PICK n : n = Max(S)
  OBVIOUS
<1>4. n \in S /\ \A k \in S : k <= n
  <2>1. 0 \in S
    BY <1>2
  <2>2. S \subseteq 0..Len(q) /\ S # {}
    BY <2>1
  <2> QED
    BY <1>2, <1>3, <2>2, GreatestOf
<1>5. n \in 0..Len(q) /\ \A i \in 1..n : AtOnce(q[i], accepted)
  BY <1>4
<1>6. PICK front : front = SubSeq(q, 1, n)
  OBVIOUS
<1>7. front \in Seq(PropertyTriggers) /\ Len(front) = n /\ \A i \in 1..n : front[i] = q[i]
  BY <1>2, <1>5, <1>6, SubSeqFacts
<1>8. PICK back : back = SubSeq(q, n + 1, Len(q))
  OBVIOUS
<1>9. /\ back \in Seq(PropertyTriggers) /\ Len(back) = Len(q) - n
      /\ \A i \in 1..(Len(q) - n) : back[i] = q[n + i]
  <2>1. n + 1 \in 1..(Len(q) + 1) /\ Len(q) \in 0..Len(q) /\ n + 1 <= Len(q) + 1
    BY <1>2, <1>5
  <2>2. /\ back \in Seq(PropertyTriggers) /\ Len(back) = Len(q) - (n + 1) + 1
        /\ \A i \in 1..(Len(q) - (n + 1) + 1) : back[i] = q[n + 1 + i - 1]
    BY <1>2, <1>8, <2>1, SubSeqFacts
  <2>3. Len(q) - (n + 1) + 1 = Len(q) - n
    BY <1>2, <1>5
  <2>4. \A i \in 1..(Len(q) - n) : n + 1 + i - 1 = n + i
    BY <1>2, <1>5
  <2> QED
    BY <2>2, <2>3, <2>4
<1>10. PICK passed : passed = [s EXCEPT !.main = Noted(@, front), !.queue = back]
  OBVIOUS
<1>11. passed.queue = back
  BY <1>10 DEF SoundStates
<1>12. Iterated(s, accepted) =
         IF back = <<>> THEN passed ELSE Started([passed EXCEPT !.queue = Tail(@)], Head(back))
  BY <1>1, <1>3, <1>6, <1>8, <1>10, <1>11 DEF Iterated
<1>13. CASE n = Len(q)
  <2>1. back = <<>>
    BY <1>2, <1>9, <1>13
  <2>2. Splits(q, front, back, accepted)
    BY <1>5, <1>7, <1>9, <1>13, <2>1 DEF Splits
  <2>3. Iterated(s, accepted) = Resumed(s, front, back)
    BY <1>1, <1>7, <1>10, <1>12, <1>13, <2>1 DEF Resumed
  <2> QED
    BY <1>1, <2>2, <2>3
<1>14. CASE n < Len(q)
  <2>1. n + 1 \in 1..Len(q) /\ n + 1 \notin S
    BY <1>2, <1>4, <1>5, <1>14
  <2>2. ~AtOnce(q[n + 1], accepted)
    <3>1. PICK i \in 1..(n + 1) : ~AtOnce(q[i], accepted)
      BY <1>5, <2>1
    <3>2. i = n + 1
      BY <1>5, <3>1
    <3> QED
      BY <3>1, <3>2
  <2>3. accepted /\ Convertible(q[n + 1].list)
    BY <2>2 DEF AtOnce
  <2>4. back # <<>> /\ Head(back) = q[n + 1]
    BY <1>2, <1>5, <1>9, <1>14
  <2>5. PICK rest : rest = Tail(back)
    OBVIOUS
  <2>6. /\ rest \in Seq(PropertyTriggers) /\ Len(rest) = Len(q) - n - 1
        /\ \A i \in 1..Len(rest) : rest[i] = q[n + 1 + i]
    <3>1. /\ rest \in Seq(PropertyTriggers) /\ Len(rest) = Len(back) - 1
          /\ \A i \in 1..Len(rest) : rest[i] = back[i + 1]
      BY <1>9, <2>4, <2>5, HeadTailProperties
    <3>2. \A i \in 1..Len(rest) : back[i + 1] = q[n + 1 + i]
      BY <1>2, <1>5, <1>9, <3>1
    <3> QED
      BY <1>2, <1>5, <1>9, <3>1, <3>2
  <2>7. Splits(q, front, rest, accepted)
    <3>1. Len(front) = n /\ Len(front) # Len(q) /\ Len(front) \in 0..Len(q)
      BY <1>2, <1>5, <1>7, <1>14
    <3>2. \A i \in 1..Len(front) : front[i] = q[i] /\ AtOnce(q[i], accepted)
      BY <1>5, <1>7
    <3>3. \A i \in 1..Len(rest) : rest[i] = q[Len(front) + 1 + i]
      BY <1>7, <2>6
    <3>4. accepted /\ Convertible(q[Len(front) + 1].list)
      BY <1>7, <2>3
    <3> QED
      BY <1>7, <2>6, <3>1, <3>2, <3>3, <3>4 DEF Splits
  <2>8. [passed EXCEPT !.queue = Tail(@)] = [s EXCEPT !.main = Noted(@, front), !.queue = rest]
    BY <1>10, <1>11, <2>5 DEF SoundStates
  <2>9. Len(front) # Len(q) /\ Len(front) + 1 = n + 1
    BY <1>2, <1>5, <1>7, <1>14
  <2>10. Iterated(s, accepted) = Resumed(s, front, rest)
    BY <1>1, <1>7, <1>12, <2>4, <2>8, <2>9 DEF Resumed
  <2> QED
    BY <1>1, <2>7, <2>10
<1> QED
  BY <1>2, <1>5, <1>13, <1>14

StartedSetting(trigger) ==
    [AT_REST EXCEPT !.phase = "executing", !.element = trigger.element, !.list = trigger.list]

LEMMA StartedFacts ==
    ASSUME NEW trigger \in PropertyTriggers, Convertible(trigger.list)
    PROVE  LET set == StartedSetting(trigger) IN
             /\ set \in Settings /\ set.phase = "executing" /\ set.element = trigger.element
             /\ set.list = trigger.list /\ set.olds = <<>> /\ set.element \in SoundElements
<1>1. trigger.element \in SoundElements /\ trigger.list \in OrderLists
  BY DEF PropertyTriggers, OrderLists
<1>2. <<>> \in Seq(OrderLists)
  OBVIOUS
<1>3. AT_REST \in [phase : {"rest"}, element : {""}, list : {<<>>}, olds : Seq(OrderLists),
                   at : Nat, handle : Nat]
  BY <1>2 DEF AT_REST
<1>4. AT_REST.olds = <<>>
  BY DEF AT_REST
<1>5. PICK set : set = StartedSetting(trigger)
  OBVIOUS
<1>6. set \in Settings
  BY <1>1, <1>3, <1>5 DEF StartedSetting, Settings
<1>7. /\ set.phase = "executing" /\ set.element = trigger.element
      /\ set.list = trigger.list /\ set.olds = <<>>
  BY <1>3, <1>4, <1>5 DEF StartedSetting
<1> QED
  BY <1>1, <1>5, <1>6, <1>7

\* The messages fit when nobody waits for them, and at rest the other way round.
LEMMA AtRestLost ==
    ASSUME NEW os \in Seq(OrderMessages), NEW up \in Seq(UpMessages), NEW h, NEW st
    PROVE  FlightFits(os, up, AT_REST, h, st) <=> Lost(os, up, h, st)
<1>1. ASSUME NEW m \in Flying(os, up) PROVE m.handle # 0
  <2>1. \A i \in DOMAIN os : os[i] \in OrderMessages
    OBVIOUS
  <2> QED
    BY <2>1 DEF Flying, OrderMessages
<1>2. \A m \in Flying(os, up) : Belongs(m, AT_REST, st) <=> m.element \in st
  BY <1>1, RestFacts DEF Belongs
<1> QED
  BY <1>2 DEF FlightFits, Lost

\* Everything that fits still does after the queue has been looked at, no mapped property has
\* changed, and the queue is empty when nothing is under way.
LookedAt(s, r, up, st) ==
    /\ r \in SoundStates
    /\ SettingFits(r.setting, r.handle)
    /\ FlightFits(r.orders, up, r.setting, r.handle, st)
    /\ \A e \in SoundElements, t \in MappedTypes : r.main[e][t] = s.main[e][t]
    /\ s.setting = AT_REST /\ r.setting = AT_REST => r.queue = <<>>
    /\ s.setting # AT_REST => r = s

LEMMA IteratedFits ==
    ASSUME NEW s \in SoundStates, NEW up \in Seq(UpMessages), NEW st, NEW accepted \in BOOLEAN,
           SettingFits(s.setting, s.handle), FlightFits(s.orders, up, s.setting, s.handle, st),
           NEW r, r = Iterated(s, accepted)
    PROVE  LookedAt(s, r, up, st)
<1>1. CASE s.setting # AT_REST
  <2>1. r = s
    BY <1>1 DEF Iterated
  <2> QED
    BY <1>1, <2>1 DEF LookedAt
<1>2. CASE s.setting = AT_REST
  <2>1. PICK front, rest : Splits(s.queue, front, rest, accepted) /\ r = Resumed(s, front, rest)
    BY <1>2, IteratedCases
  <2>2. s.main \in PropertyMaps(MainTypes) /\ s.orders \in Seq(OrderMessages)
        /\ s.queue \in Seq(PropertyTriggers)
    BY DEF SoundStates
  <2>3. front \in Seq(PropertyTriggers) /\ rest \in Seq(PropertyTriggers)
        /\ Len(front) \in 0..Len(s.queue)
    BY <2>1 DEF Splits
  <2>4. PICK main : main = Noted(s.main, front)
    OBVIOUS
  <2>5. /\ main \in PropertyMaps(MainTypes)
        /\ \A e \in SoundElements, t \in MappedTypes : main[e][t] = s.main[e][t]
    BY <2>2, <2>3, <2>4, NotedFacts
  <2>6. PICK passed : passed = [s EXCEPT !.main = main, !.queue = rest]
    OBVIOUS
  <2>7. /\ passed \in SoundStates /\ passed.main = main /\ passed.queue = rest
        /\ passed.setting = AT_REST /\ passed.orders = s.orders /\ passed.handle = s.handle
    BY <1>2, <2>3, <2>5, <2>6 DEF SoundStates
  <2>8. Lost(passed.orders, up, passed.handle, st)
    BY <1>2, <2>2, <2>7, AtRestLost
  <2>9. CASE Len(front) = Len(s.queue)
    <3>1. r = passed /\ rest = <<>>
      BY <2>1, <2>4, <2>6, <2>9 DEF Resumed, Splits
    <3> QED
      BY <1>2, <2>5, <2>7, <3>1 DEF LookedAt
  <2>10. CASE Len(front) # Len(s.queue)
    <3>1. Len(front) < Len(s.queue) /\ Len(front) + 1 \in 1..Len(s.queue)
      BY <2>2, <2>3, <2>10
    <3>2. PICK trigger : trigger = s.queue[Len(front) + 1]
      OBVIOUS
    <3>3. trigger \in PropertyTriggers /\ Convertible(trigger.list)
      BY <2>1, <2>2, <3>1, <3>2 DEF Splits
    <3>4. PICK set : set = StartedSetting(trigger)
      OBVIOUS
    <3>5. /\ set \in Settings /\ set.phase = "executing" /\ set.element = trigger.element
          /\ set.list = trigger.list /\ set.olds = <<>> /\ set.element \in SoundElements
      BY <3>3, <3>4, StartedFacts
    <3>6. r = ExecuteFrom(passed, set, 1, TRUE)
      BY <2>1, <2>4, <2>6, <2>10, <3>2, <3>4 DEF Resumed, Started, StartedSetting
    <3>7. Len(PolicyTargets[set.element]) \in Nat /\ Len(PolicyTargets[set.element]) >= 1
      BY <3>5, TargetFacts
    <3>8. 1 <= Len(PolicyTargets[set.element]) + 1 /\ 1 <= Len(set.olds) + 1
      BY <3>5, <3>7
    <3>9. Proceeds(passed, r, up, st) /\ ExecutesFrom(r.setting, set, 1)
      <4>1. 1 \in Nat /\ 1 >= 1
        OBVIOUS
      <4> QED
        BY <2>7, <2>8, <3>5, <3>6, <3>8, <4>1, ExecuteOn, Zenon
    <3>10. r.setting \in Settings
      BY <3>7, <3>9 DEF ExecutesFrom
    <3> QED
      BY <1>2, <2>5, <2>7, <3>9, <3>10, RestFacts DEF Proceeds, LookedAt
  <2> QED
    BY <2>9, <2>10
<1> QED
  BY <1>1, <1>2

LEMMA OverwrittenAppend ==
    ASSUME NEW n \in Nat, NEW w, DOMAIN w = 1..(n + 1), NEW front, DOMAIN front = 1..n,
           \A i \in 1..n : front[i] = w[i], NEW t, NEW v
    PROVE  Overwritten(v, t, w) =
             IF t \in DOMAIN w[n + 1] THEN w[n + 1][t] ELSE Overwritten(v, t, front)
<1>1. PICK back : back = [i \in 1..1 |-> w[n + 1]]
  OBVIOUS
<1>2. DOMAIN back = 1..1 /\ back[1] = w[n + 1]
  BY <1>1
<1>3. n \in Nat /\ 1 \in Nat
  OBVIOUS
<1>4. \A i \in 1..1 : back[i] = w[n + i]
  BY <1>2
<1>5. Overwritten(v, t, w) = Overwritten(Overwritten(v, t, front), t, back)
  <2>1. Joined(w, front, n, back, 1)
    BY <1>2, <1>3, <1>4 DEF Joined
  <2> QED
    BY <1>3, <2>1, OverwrittenSplit
<1> QED
  BY <1>2, <1>5, OverwrittenOne

LEMMA OverwrittenHead ==
    ASSUME NEW n \in Nat, NEW w, DOMAIN w = 1..(n + 1), NEW back, DOMAIN back = 1..n,
           \A i \in 1..n : back[i] = w[i + 1], NEW t, NEW v
    PROVE  Overwritten(v, t, w) =
             Overwritten(IF t \in DOMAIN w[1] THEN w[1][t] ELSE v, t, back)
<1>1. PICK front : front = [i \in 1..1 |-> w[1]]
  OBVIOUS
<1>2. DOMAIN front = 1..1 /\ front[1] = w[1] /\ \A i \in 1..1 : front[i] = w[i]
  BY <1>1
<1>3. 1 \in Nat /\ DOMAIN w = 1..(1 + n)
  OBVIOUS
<1>4. \A i \in 1..n : back[i] = w[1 + i]
  OBVIOUS
<1>5. Overwritten(v, t, w) = Overwritten(Overwritten(v, t, front), t, back)
  <2>1. Joined(w, front, 1, back, n)
    BY <1>2, <1>3, <1>4 DEF Joined
  <2> QED
    BY <1>3, <2>1, OverwrittenSplit
<1> QED
  BY <1>2, <1>5, OverwrittenOne

-----------------------------------------------------------------------------
(* What is played is what the answers and reports on their way will make of the database. *)

Effect(m, e) == IF m.element = e /\ (m.handle # 0 => m.done) THEN Values(m.list) ELSE <<>>
Effects(up, e) == [i \in DOMAIN up |-> Effect(up[i], e)]
Follows(main, up, played, st) ==
    \A e \in SoundElements \ st, t \in MappedTypes :
        played[e][t] = Overwritten(main[e][t], t, Effects(up, e))

LEMMA EffectsAppend ==
    ASSUME NEW up \in Seq(UpMessages), NEW m \in UpMessages, NEW e, NEW t, NEW v
    PROVE  Overwritten(v, t, Effects(Append(up, m), e)) =
             IF t \in DOMAIN Effect(m, e) THEN Effect(m, e)[t] ELSE Overwritten(v, t, Effects(up, e))
<1>1. PICK w, front : w = Effects(Append(up, m), e) /\ front = Effects(up, e)
  OBVIOUS
<1>2. Len(up) \in Nat /\ DOMAIN up = 1..Len(up)
  OBVIOUS
<1>3. DOMAIN w = 1..(Len(up) + 1) /\ DOMAIN front = 1..Len(up)
  BY <1>1, <1>2, AppendedFacts DEF Effects
<1>4. \A i \in 1..Len(up) : front[i] = w[i]
  BY <1>1, <1>2, AppendedFacts DEF Effects
<1>5. w[Len(up) + 1] = Effect(m, e)
  BY <1>1, <1>2, AppendedFacts DEF Effects
<1> QED
  BY <1>1, <1>2, <1>3, <1>4, <1>5, OverwrittenAppend

LEMMA EffectsHead ==
    ASSUME NEW up \in Seq(UpMessages), up # <<>>, NEW e, NEW t, NEW v
    PROVE  Overwritten(v, t, Effects(up, e)) =
             Overwritten(IF t \in DOMAIN Effect(Head(up), e) THEN Effect(Head(up), e)[t] ELSE v, t,
                         Effects(Tail(up), e))
<1>1. PICK n : n = Len(up) - 1
  OBVIOUS
<1>2. n \in Nat /\ DOMAIN up = 1..(n + 1) /\ Head(up) = up[1] /\ 1 \in 1..(n + 1)
  BY <1>1
<1>3. /\ DOMAIN Tail(up) = 1..n
      /\ \A i \in 1..n : Tail(up)[i] = up[i + 1]
  BY <1>1, <1>2, HeadTailProperties
<1>4. PICK w, back : w = Effects(up, e) /\ back = Effects(Tail(up), e)
  OBVIOUS
<1>5. DOMAIN w = 1..(n + 1) /\ DOMAIN back = 1..n /\ w[1] = Effect(Head(up), e)
  BY <1>2, <1>3, <1>4 DEF Effects
<1>6. \A i \in 1..n : back[i] = w[i + 1]
  BY <1>2, <1>3, <1>4 DEF Effects
<1> QED
  BY <1>2, <1>4, <1>5, <1>6, OverwrittenHead

LEMMA EffectsDomain ==
    ASSUME NEW m \in UpMessages, NEW e, NEW t
    PROVE  t \in DOMAIN Effect(m, e) <=>
             m.element = e /\ (m.handle # 0 => m.done) /\ t \in TypesOf(m.list)
<1>1. m.list \in PropertyLists
  BY DEF UpMessages, AnswerMessages, ReportMessages, OrderLists
<1>2. DOMAIN Values(m.list) = TypesOf(m.list)
  BY <1>1, ValuesType
<1>3. DOMAIN <<>> = {}
  OBVIOUS
<1>4. CASE m.element = e /\ (m.handle # 0 => m.done)
  BY <1>2, <1>4 DEF Effect
<1>5. CASE ~(m.element = e /\ (m.handle # 0 => m.done))
  <2>1. Effect(m, e) = <<>>
    BY <1>5 DEF Effect
  <2> QED
    BY <1>3, <1>5, <2>1
<1> QED
  BY <1>4, <1>5

\* One answer or report is taken: what it has changed is written to the database, or its
\* element has strayed.
LEMMA FollowsTaken ==
    ASSUME NEW up \in Seq(UpMessages), up # <<>>, NEW st, NEW st2, st \subseteq st2,
           NEW main, NEW main2, NEW played, Follows(main, up, played, st),
           \A e \in SoundElements \ st2, t \in MappedTypes :
              main2[e][t] = IF t \in DOMAIN Effect(Head(up), e) THEN Effect(Head(up), e)[t]
                            ELSE main[e][t]
    PROVE  Follows(main2, Tail(up), played, st2)
<1> SUFFICES ASSUME NEW e \in SoundElements \ st2, NEW t \in MappedTypes
             PROVE  played[e][t] = Overwritten(main2[e][t], t, Effects(Tail(up), e))
  BY DEF Follows
<1>1. played[e][t] = Overwritten(main[e][t], t, Effects(up, e))
  BY DEF Follows
<1>2. PICK v : v = main[e][t]
  OBVIOUS
<1>3. Overwritten(v, t, Effects(up, e)) =
        Overwritten(IF t \in DOMAIN Effect(Head(up), e) THEN Effect(Head(up), e)[t] ELSE v, t,
                    Effects(Tail(up), e))
  BY EffectsHead
<1> QED
  BY <1>1, <1>2, <1>3

LEMMA FollowsSent ==
    ASSUME NEW up \in Seq(UpMessages), NEW m \in UpMessages, NEW st,
           NEW main, NEW played, NEW played2, Follows(main, up, played, st),
           \A e \in SoundElements \ st, t \in MappedTypes :
              played2[e][t] = IF t \in DOMAIN Effect(m, e) THEN Effect(m, e)[t] ELSE played[e][t]
    PROVE  Follows(main, Append(up, m), played2, st)
<1> SUFFICES ASSUME NEW e \in SoundElements \ st, NEW t \in MappedTypes
             PROVE  played2[e][t] = Overwritten(main[e][t], t, Effects(Append(up, m), e))
  BY DEF Follows
<1>1. played[e][t] = Overwritten(main[e][t], t, Effects(up, e))
  BY DEF Follows
<1>2. PICK v : v = main[e][t]
  OBVIOUS
<1>3. Overwritten(v, t, Effects(Append(up, m), e)) =
        IF t \in DOMAIN Effect(m, e) THEN Effect(m, e)[t] ELSE Overwritten(v, t, Effects(up, e))
  BY EffectsAppend
<1> QED
  BY <1>1, <1>2, <1>3

LEMMA FollowsSame ==
    ASSUME NEW up, NEW st, NEW main, NEW main2, NEW played, Follows(main, up, played, st),
           \A e \in SoundElements, t \in MappedTypes : main2[e][t] = main[e][t]
    PROVE  Follows(main2, up, played, st)
BY DEF Follows

\* The handle of the answer is gone from the messages, and so nobody waits for the others.
LEMMA TakenLost ==
    ASSUME NEW os \in Seq(OrderMessages), NEW up \in Seq(UpMessages), up # <<>>,
           NEW set, NEW h, NEW st, FlightFits(os, up, set, h, st),
           Head(up).handle = set.handle, set.handle # 0
    PROVE  Lost(os, Tail(up), h, st)
<1>1. PICK n : n = Len(up) - 1
  OBVIOUS
<1>2. n \in Nat /\ DOMAIN up = 1..(n + 1) /\ Head(up) = up[1] /\ 1 \in DOMAIN up
  BY <1>1
<1>3. DOMAIN Tail(up) = 1..n /\ \A i \in 1..n : Tail(up)[i] = up[i + 1]
  BY <1>1, <1>2, HeadTailProperties
<1>4. Apart(os, up)
  BY DEF FlightFits
<1>5. Apart(os, Tail(up))
  <2>1. ASSUME NEW i \in DOMAIN Tail(up), NEW j \in DOMAIN Tail(up), Tail(up)[i].handle # 0,
               Tail(up)[i].handle = Tail(up)[j].handle
        PROVE  i = j
    <3>1. i + 1 \in DOMAIN up /\ j + 1 \in DOMAIN up /\ up[i + 1].handle = up[j + 1].handle
          /\ up[i + 1].handle # 0
      BY <1>2, <1>3, <2>1
    <3>2. i + 1 = j + 1
      BY <1>4, <3>1 DEF Apart
    <3> QED
      BY <1>2, <1>3, <3>2
  <2>2. ASSUME NEW i \in DOMAIN os, NEW j \in DOMAIN Tail(up)
        PROVE  os[i].handle # Tail(up)[j].handle
    <3>1. j + 1 \in DOMAIN up /\ Tail(up)[j] = up[j + 1]
      BY <1>2, <1>3
    <3> QED
      BY <1>4, <3>1 DEF Apart
  <2> QED
    BY <1>4, <2>1, <2>2 DEF Apart
<1>6. ASSUME NEW m \in Flying(os, Tail(up))
      PROVE  m \in Flying(os, up) /\ m.handle # set.handle
  <2>1. CASE \E i \in DOMAIN os : m = os[i]
    <3>1. PICK i \in DOMAIN os : m = os[i]
      BY <2>1
    <3>2. os[i].handle # up[1].handle
      BY <1>2, <1>4 DEF Apart
    <3> QED
      BY <1>2, <3>1, <3>2 DEF Flying
  <2>2. CASE \E i \in DOMAIN Tail(up) : m = Tail(up)[i] /\ m.handle # 0
    <3>1. PICK i \in DOMAIN Tail(up) : m = Tail(up)[i] /\ m.handle # 0
      BY <2>2
    <3>2. i + 1 \in DOMAIN up /\ m = up[i + 1] /\ i + 1 # 1
      BY <1>2, <1>3, <3>1
    <3>3. m.handle # up[1].handle
      BY <1>2, <1>4, <3>1, <3>2 DEF Apart
    <3> QED
      BY <1>2, <3>1, <3>2, <3>3 DEF Flying
  <2> QED
    BY <2>1, <2>2 DEF Flying
<1>7. \A m \in Flying(os, Tail(up)) : m.handle <= h /\ m.element \in st
  BY <1>6 DEF FlightFits, Belongs
<1> QED
  BY <1>5, <1>7 DEF Lost

\* More may stray.
LEMMA FlightWeaker ==
    ASSUME NEW os, NEW up, NEW set, NEW h, NEW st, NEW st2, st \subseteq st2
    PROVE  /\ FlightFits(os, up, set, h, st) => FlightFits(os, up, set, h, st2)
           /\ Lost(os, up, h, st) => Lost(os, up, h, st2)
BY DEF FlightFits, Lost, Belongs

LEMMA TailFits ==
    ASSUME NEW os \in Seq(OrderMessages), NEW up \in Seq(UpMessages), up # <<>>,
           NEW set, NEW h, NEW st, FlightFits(os, up, set, h, st)
    PROVE  FlightFits(os, Tail(up), set, h, st)
<1>1. PICK n : n = Len(up) - 1
  OBVIOUS
<1>2. n \in Nat /\ DOMAIN up = 1..(n + 1)
  BY <1>1
<1>3. DOMAIN Tail(up) = 1..n /\ \A i \in 1..n : Tail(up)[i] = up[i + 1]
  BY <1>1, <1>2, HeadTailProperties
<1>4. Apart(os, up)
  BY DEF FlightFits
<1>5. Apart(os, Tail(up))
  <2>1. ASSUME NEW i \in DOMAIN Tail(up), NEW j \in DOMAIN Tail(up), Tail(up)[i].handle # 0,
               Tail(up)[i].handle = Tail(up)[j].handle
        PROVE  i = j
    <3>1. i + 1 \in DOMAIN up /\ j + 1 \in DOMAIN up /\ up[i + 1].handle = up[j + 1].handle
          /\ up[i + 1].handle # 0
      BY <1>2, <1>3, <2>1
    <3>2. i + 1 = j + 1
      BY <1>4, <3>1 DEF Apart
    <3> QED
      BY <1>2, <1>3, <3>2
  <2>2. ASSUME NEW i \in DOMAIN os, NEW j \in DOMAIN Tail(up)
        PROVE  os[i].handle # Tail(up)[j].handle
    <3>1. j + 1 \in DOMAIN up /\ Tail(up)[j] = up[j + 1]
      BY <1>2, <1>3
    <3> QED
      BY <1>4, <3>1 DEF Apart
  <2> QED
    BY <1>4, <2>1, <2>2 DEF Apart
<1>6. \A m \in Flying(os, Tail(up)) : m \in Flying(os, up)
  <2>1. \A i \in DOMAIN Tail(up) : i + 1 \in DOMAIN up /\ Tail(up)[i] = up[i + 1]
    BY <1>2, <1>3
  <2> QED
    BY <2>1 DEF Flying
<1> QED
  BY <1>5, <1>6 DEF FlightFits

\* The routing side answers the oldest request.
LEMMA AnswerFits ==
    ASSUME NEW os \in Seq(OrderMessages), os # <<>>, NEW up \in Seq(UpMessages),
           NEW set, NEW h, NEW st, FlightFits(os, up, set, h, st),
           NEW m \in UpMessages, m.handle = Head(os).handle, m.element = Head(os).element,
           m.list = Head(os).list
    PROVE  FlightFits(Tail(os), Append(up, m), set, h, st)
<1>1. PICK n : n = Len(os) - 1
  OBVIOUS
<1>2. n \in Nat /\ DOMAIN os = 1..(n + 1) /\ Head(os) = os[1] /\ 1 \in DOMAIN os
  BY <1>1
<1>3. DOMAIN Tail(os) = 1..n /\ \A i \in 1..n : Tail(os)[i] = os[i + 1]
  BY <1>1, <1>2, HeadTailProperties
<1>4. PICK up2, k : up2 = Append(up, m) /\ k = Len(up)
  OBVIOUS
<1>5. /\ k \in Nat /\ DOMAIN up = 1..k /\ DOMAIN up2 = 1..(k + 1)
      /\ (\A i \in 1..k : up2[i] = up[i]) /\ up2[k + 1] = m
  BY <1>4, AppendedFacts
<1>6. Apart(os, up)
  BY DEF FlightFits
<1>7. \A i \in DOMAIN Tail(os) : i + 1 \in DOMAIN os /\ Tail(os)[i] = os[i + 1] /\ i \in Nat
  BY <1>2, <1>3
<1>8. \A i \in DOMAIN up2 : (i \in DOMAIN up /\ up2[i] = up[i]) \/ (i = k + 1 /\ up2[i] = m)
  BY <1>5
<1>9. m.handle = os[1].handle
  BY <1>2
<1>10. Apart(Tail(os), up2)
  <2>1. ASSUME NEW i \in DOMAIN Tail(os), NEW j \in DOMAIN Tail(os),
               Tail(os)[i].handle = Tail(os)[j].handle
        PROVE  i = j
    <3>1. i + 1 = j + 1
      BY <1>6, <1>7, <2>1 DEF Apart
    <3> QED
      BY <1>7, <3>1
  <2>2. ASSUME NEW i \in DOMAIN up2, NEW j \in DOMAIN up2, up2[i].handle # 0,
               up2[i].handle = up2[j].handle
        PROVE  i = j
    <3>1. CASE i \in DOMAIN up /\ up2[i] = up[i] /\ j \in DOMAIN up /\ up2[j] = up[j]
      BY <1>6, <2>2, <3>1 DEF Apart
    <3>2. CASE i \in DOMAIN up /\ up2[i] = up[i] /\ j = k + 1 /\ up2[j] = m
      BY <1>2, <1>6, <1>9, <2>2, <3>2 DEF Apart
    <3>3. CASE j \in DOMAIN up /\ up2[j] = up[j] /\ i = k + 1 /\ up2[i] = m
      BY <1>2, <1>6, <1>9, <2>2, <3>3 DEF Apart
    <3> QED
      BY <1>8, <3>1, <3>2, <3>3
  <2>3. ASSUME NEW i \in DOMAIN Tail(os), NEW j \in DOMAIN up2
        PROVE  Tail(os)[i].handle # up2[j].handle
    <3>1. CASE j \in DOMAIN up /\ up2[j] = up[j]
      BY <1>6, <1>7, <3>1 DEF Apart
    <3>2. CASE up2[j] = m
      <4>1. i + 1 # 1
        BY <1>3
      <4> QED
        BY <1>2, <1>6, <1>7, <1>9, <3>2, <4>1 DEF Apart
    <3> QED
      BY <1>8, <3>1, <3>2
  <2> QED
    BY <2>1, <2>2, <2>3 DEF Apart
<1>11. ASSUME NEW x \in Flying(Tail(os), up2) PROVE x.handle <= h /\ Belongs(x, set, st)
  <2>1. CASE x \in Flying(os, up)
    BY <2>1 DEF FlightFits
  <2>2. CASE x = m
    <3>1. os[1] \in Flying(os, up)
      BY <1>2 DEF Flying
    <3>2. os[1].handle <= h /\ Belongs(os[1], set, st)
      BY <3>1 DEF FlightFits
    <3> QED
      BY <1>2, <2>2, <3>2 DEF Belongs
  <2>3. x \in Flying(os, up) \/ x = m
    <3>1. CASE \E i \in DOMAIN Tail(os) : x = Tail(os)[i]
      BY <1>7, <3>1 DEF Flying
    <3>2. CASE \E i \in DOMAIN up2 : x = up2[i] /\ x.handle # 0
      BY <1>8, <3>2 DEF Flying
    <3> QED
      BY <3>1, <3>2 DEF Flying
  <2> QED
    BY <2>1, <2>2, <2>3
<1> QED
  BY <1>4, <1>10, <1>11 DEF FlightFits

\* A report changes nothing of that.
LEMMA ReportFits ==
    ASSUME NEW os \in Seq(OrderMessages), NEW up \in Seq(UpMessages),
           NEW set, NEW h, NEW st, FlightFits(os, up, set, h, st),
           NEW m \in ReportMessages
    PROVE  FlightFits(os, Append(up, m), set, h, st)
<1>0. m \in UpMessages /\ m.handle = 0
  BY DEF ReportMessages, UpMessages
<1>1. PICK up2, k : up2 = Append(up, m) /\ k = Len(up)
  OBVIOUS
<1>2. /\ k \in Nat /\ DOMAIN up = 1..k /\ DOMAIN up2 = 1..(k + 1)
      /\ (\A i \in 1..k : up2[i] = up[i]) /\ up2[k + 1] = m
  BY <1>0, <1>1, AppendedFacts
<1>3. \A i \in DOMAIN up2 : (i \in DOMAIN up /\ up2[i] = up[i]) \/ up2[i] = m
  BY <1>2
<1>4. \A i \in DOMAIN os : os[i].handle # 0
  <2>1. \A i \in DOMAIN os : os[i] \in OrderMessages
    OBVIOUS
  <2> QED
    BY <2>1 DEF OrderMessages
<1>5. Apart(os, up)
  BY DEF FlightFits
<1>6. Apart(os, up2)
  <2>1. ASSUME NEW i \in DOMAIN up2, NEW j \in DOMAIN up2, up2[i].handle # 0,
               up2[i].handle = up2[j].handle
        PROVE  i = j
    BY <1>0, <1>3, <1>5, <2>1 DEF Apart
  <2>2. ASSUME NEW i \in DOMAIN os, NEW j \in DOMAIN up2 PROVE os[i].handle # up2[j].handle
    BY <1>0, <1>3, <1>4, <1>5 DEF Apart
  <2> QED
    BY <1>5, <2>1, <2>2 DEF Apart
<1>7. \A x \in Flying(os, up2) : x \in Flying(os, up)
  BY <1>0, <1>3 DEF Flying
<1> QED
  BY <1>1, <1>6, <1>7 DEF FlightFits

-----------------------------------------------------------------------------
(* update() with an answer *)

Writes(set, done) == set.phase = "undoing" \/ done

LEMMA CurrentFacts ==
    ASSUME NEW set \in Settings, Placed(set)
    PROVE  /\ Current(set) \in OrderLists /\ Current(set) \in PropertyLists
           /\ Target(set) \in SoundElements /\ set.element \in SoundElements
           /\ set.at \in Nat /\ Len(set.olds) \in Nat /\ Len(PolicyTargets[set.element]) \in Nat
           /\ set.at >= 1
<1>1. set.list \in OrderLists /\ set.olds \in Seq(OrderLists) /\ set.element \in SoundElements
      /\ set.at \in Nat
  BY DEF Settings
<1>2. Len(set.olds) \in Nat /\ Len(PolicyTargets[set.element]) \in Nat
  BY <1>1, TargetFacts
<1>3. set.at \in 1..Len(set.olds) /\ set.at \in 1..Len(PolicyTargets[set.element])
  BY <1>1, <1>2 DEF Placed
<1>4. Current(set) \in OrderLists
  BY <1>1, <1>3 DEF Current
<1>5. Target(set) \in SoundElements
  BY <1>1, <1>3, TargetFacts DEF Target
<1> QED
  BY <1>1, <1>2, <1>3, <1>4, <1>5 DEF OrderLists

\* After the answer, or the time-out, the values are written if they are to be, and the action
\* has made its next request or is through.
GoesOn(s, r, set, done, up, st) ==
    /\ r \in SoundStates
    /\ r.queue = s.queue
    /\ SettingFits(r.setting, r.handle)
    /\ FlightFits(r.orders, up, r.setting, r.handle, st)
    /\ r.main = IF Writes(set, done) THEN WithValues(s.main, {Target(set)}, Current(set)) ELSE s.main

LEMMA AnsweredFits ==
    ASSUME NEW s \in SoundStates, NEW up \in Seq(UpMessages), NEW st,
           NEW set \in Settings, Placed(set), Lost(s.orders, up, s.handle, st),
           NEW done \in BOOLEAN, NEW accepted \in BOOLEAN,
           NEW r, r = SettingAnswered(s, set, done, accepted)
    PROVE  GoesOn(s, r, set, done, up, st)
<1>1. PICK main : main = WithValues(s.main, {Target(set)}, Current(set))
  OBVIOUS
<1>2. main \in PropertyMaps(MainTypes)
  BY <1>1, CurrentFacts, WithValuesType DEF SoundStates
<1>3. PICK s2 : s2 = [s EXCEPT !.main = main]
  OBVIOUS
<1>4. s2 \in SoundStates /\ s2.main = main /\ s2.queue = s.queue /\ s2.orders = s.orders
      /\ s2.handle = s.handle
  BY <1>2, <1>3 DEF SoundStates
<1>5. set.phase \in {"executing", "undoing"}
  BY DEF Settings
<1>6. set.at \in Nat /\ set.at >= 1 /\ Len(set.olds) \in Nat /\ Len(PolicyTargets[set.element]) \in Nat
      /\ set.at <= Len(set.olds) /\ set.at <= Len(PolicyTargets[set.element])
  BY CurrentFacts DEF Placed
<1>7. PICK k : k = set.at - 1
  OBVIOUS
<1>8. k \in Nat /\ k <= Len(set.olds) /\ k <= Len(PolicyTargets[set.element])
  BY <1>6, <1>7
<1>9. Lost(s2.orders, up, s2.handle, st)
  BY <1>4
<1>10. CASE set.phase = "executing" /\ done
  <2>1. PICK n : n = set.at + 1
    OBVIOUS
  <2>2. n \in Nat /\ n >= 1 /\ n <= Len(PolicyTargets[set.element]) + 1 /\ n <= Len(set.olds) + 1
    BY <1>6, <2>1
  <2>3. Current(set) = set.list
    BY <1>10 DEF Current
  <2>4. r = ExecuteFrom(s2, set, n, accepted)
    BY <1>1, <1>3, <1>10, <2>1, <2>3 DEF SettingAnswered, SoundStates
  <2>5. Proceeds(s2, r, up, st)
    BY <1>4, <1>9, <1>10, <2>2, <2>4, ExecuteFromFits
  <2> QED
    BY <1>1, <1>4, <1>10, <2>5 DEF Proceeds, Writes, GoesOn
<1>11. CASE set.phase = "executing" /\ ~done
  <2>1. r = UndoFrom(s, set, k, accepted)
    BY <1>7, <1>11 DEF SettingAnswered
  <2>2. Proceeds(s, r, up, st)
    BY <1>8, <2>1, UndoFromFits
  <2> QED
    BY <1>11, <2>2 DEF Proceeds, Writes, GoesOn
<1>12. CASE set.phase = "undoing"
  <2>1. Current(set) = set.olds[set.at]
    BY <1>12 DEF Current
  <2>2. r = UndoFrom(s2, set, k, accepted)
    BY <1>1, <1>3, <1>7, <1>12, <2>1 DEF SettingAnswered, SoundStates
  <2>3. Proceeds(s2, r, up, st)
    BY <1>4, <1>8, <1>9, <2>2, UndoFromFits
  <2> QED
    BY <1>1, <1>4, <1>12, <2>3 DEF Proceeds, Writes, GoesOn
<1> QED
  BY <1>5, <1>10, <1>11, <1>12

-----------------------------------------------------------------------------
(* What the database will have when everything asked for has been done *)

Pending(set, e) ==
    IF set # AT_REST /\ \E k \in set.at .. Len(PolicyTargets[set.element]) :
                           PolicyTargets[set.element][k] = e
    THEN Values(set.list) ELSE <<>>
Asks(trigger, e) ==
    IF e \in Range(PolicyTargets[trigger.element]) THEN Values(Settable(trigger.list)) ELSE <<>>
AsksOf(q, e) == [i \in DOMAIN q |-> Asks(q[i], e)]

Foreseen(main, set, e, t) == IF t \in DOMAIN Pending(set, e) THEN Pending(set, e)[t] ELSE main[e][t]
Outcome(main, set, q, e, t) == Overwritten(Foreseen(main, set, e, t), t, AsksOf(q, e))

LEMMA AtRestForeseen ==
    ASSUME NEW main, NEW e, NEW t
    PROVE  Foreseen(main, AT_REST, e, t) = main[e][t]
<1>1. Pending(AT_REST, e) = <<>> /\ DOMAIN <<>> = {}
  BY DEF Pending
<1> QED
  BY <1>1 DEF Foreseen

LEMMA EmptyOutcome ==
    ASSUME NEW v, NEW t, NEW e
    PROVE  Overwritten(v, t, AsksOf(<<>>, e)) = v
<1>1. PICK w : w = AsksOf(<<>>, e)
  OBVIOUS
<1>2. 0 \in Nat /\ DOMAIN w = 1..0
  BY <1>1 DEF AsksOf
<1>3. NoneWrites(t, 0, w)
  BY DEF NoneWrites
<1> QED
  BY <1>1, <1>2, <1>3, OverwrittenNone

LEMMA AppendOutcome ==
    ASSUME NEW main, NEW set, NEW q \in Seq(PropertyTriggers), NEW trigger \in PropertyTriggers,
           NEW e, NEW t
    PROVE  Outcome(main, set, Append(q, trigger), e, t) =
             IF t \in DOMAIN Asks(trigger, e) THEN Asks(trigger, e)[t] ELSE Outcome(main, set, q, e, t)
<1>1. PICK w, front : w = AsksOf(Append(q, trigger), e) /\ front = AsksOf(q, e)
  OBVIOUS
<1>2. Len(q) \in Nat /\ DOMAIN q = 1..Len(q)
  OBVIOUS
<1>3. DOMAIN w = 1..(Len(q) + 1) /\ DOMAIN front = 1..Len(q)
  BY <1>1, <1>2, AppendedFacts DEF AsksOf
<1>4. \A i \in 1..Len(q) : front[i] = w[i]
  BY <1>1, <1>2, AppendedFacts DEF AsksOf
<1>5. w[Len(q) + 1] = Asks(trigger, e)
  BY <1>1, <1>2, AppendedFacts DEF AsksOf
<1> QED
  BY <1>1, <1>2, <1>3, <1>4, <1>5, OverwrittenAppend DEF Outcome

\* A trigger that starts an action is pending with it.
LEMMA StartedPending ==
    ASSUME NEW trigger \in PropertyTriggers, Convertible(trigger.list), NEW set \in Settings,
           set.at = 1, set.element = trigger.element, set.list = trigger.list, NEW e
    PROVE  Pending(set, e) = Asks(trigger, e)
<1>1. set.element \in SoundElements /\ set # AT_REST
  BY RestFacts DEF Settings
<1>2. (\E k \in 1..Len(PolicyTargets[set.element]) : PolicyTargets[set.element][k] = e)
        <=> e \in Range(PolicyTargets[set.element])
  BY <1>1, TargetFacts DEF Range
<1>3. Settable(trigger.list) = set.list
  BY DEF Settable
<1> QED
  BY <1>1, <1>2, <1>3 DEF Pending, Asks

\* With everything accepted, looking at the queue changes nothing of the outcome.
SameOutcome(s, r) ==
    /\ r.setting.phase # "undoing"
    /\ \A e \in SoundElements, t \in MainTypes :
         Outcome(r.main, r.setting, r.queue, e, t) = Outcome(s.main, s.setting, s.queue, e, t)

LEMMA IteratedOutcome ==
    ASSUME NEW s \in SoundStates, NEW up \in Seq(UpMessages), NEW st, NEW accepted \in BOOLEAN, accepted,
           FlightFits(s.orders, up, s.setting, s.handle, st),
           s.setting.phase # "undoing", NEW r, r = Iterated(s, accepted)
    PROVE  SameOutcome(s, r)
<1>1. CASE s.setting # AT_REST
  <2>1. r = s
    BY <1>1 DEF Iterated
  <2> QED
    BY <2>1 DEF SameOutcome
<1>2. CASE s.setting = AT_REST
  <2>1. PICK front, rest : Splits(s.queue, front, rest, accepted) /\ r = Resumed(s, front, rest)
    BY <1>2, IteratedCases
  <2>2. s.main \in PropertyMaps(MainTypes) /\ s.orders \in Seq(OrderMessages)
        /\ s.queue \in Seq(PropertyTriggers)
    BY DEF SoundStates
  <2>3. front \in Seq(PropertyTriggers) /\ rest \in Seq(PropertyTriggers)
        /\ Len(front) \in 0..Len(s.queue)
    BY <2>1 DEF Splits
  <2>4. PICK main : main = Noted(s.main, front)
    OBVIOUS
  <2>5. PICK n : n = Len(front)
    OBVIOUS
  <2>6. n \in Nat /\ Len(s.queue) \in Nat /\ n <= Len(s.queue) /\ DOMAIN front = 1..n
        /\ DOMAIN s.queue = 1..Len(s.queue)
    BY <2>2, <2>3, <2>5
  <2>7. \A i \in 1..n : front[i] = s.queue[i] /\ ~Convertible(s.queue[i].list)
    BY <2>1, <2>5 DEF Splits, AtOnce
  <2>8. \A e : \A i \in 1..n : Unmapped(front[i], e) = Asks(s.queue[i], e)
    BY <2>7 DEF Unmapped, Asks, Settable
  <2>9. \A e \in SoundElements, t \in MainTypes :
          main[e][t] = Overwritten(s.main[e][t], t, [i \in 1..n |-> Asks(s.queue[i], e)])
    <3>1. ASSUME NEW e \in SoundElements, NEW t \in MainTypes
          PROVE  main[e][t] = Overwritten(s.main[e][t], t, [i \in 1..n |-> Asks(s.queue[i], e)])
      <4>1. [i \in DOMAIN front |-> Unmapped(front[i], e)] = [i \in 1..n |-> Asks(s.queue[i], e)]
        BY <2>6, <2>8
      <4>2. Noted(s.main, front)[e][t] =
              Overwritten(s.main[e][t], t, [i \in DOMAIN front |-> Unmapped(front[i], e)])
        BY <2>2, <2>3, NotedFacts
      <4> QED
        BY <2>4, <4>1, <4>2
    <3> QED
      BY <3>1
  <2>10. PICK passed : passed = [s EXCEPT !.main = main, !.queue = rest]
    OBVIOUS
  <2>11. /\ passed \in SoundStates /\ passed.main = main /\ passed.queue = rest
         /\ passed.setting = AT_REST /\ passed.orders = s.orders /\ passed.handle = s.handle
    <3>1. main \in PropertyMaps(MainTypes)
      BY <2>2, <2>3, <2>4, NotedFacts
    <3> QED
      BY <1>2, <2>3, <2>10, <3>1 DEF SoundStates
  <2>12. CASE n = Len(s.queue)
    <3>1. r = passed /\ rest = <<>>
      BY <2>1, <2>4, <2>5, <2>10, <2>12 DEF Resumed, Splits
    <3>2. ASSUME NEW e \in SoundElements, NEW t \in MainTypes
          PROVE  Outcome(r.main, r.setting, r.queue, e, t) = Outcome(s.main, s.setting, s.queue, e, t)
      <4>1. Outcome(r.main, r.setting, r.queue, e, t) = main[e][t]
        <5>1. r.setting = AT_REST /\ r.queue = <<>> /\ r.main = main
          BY <2>11, <3>1
        <5>2. Foreseen(main, AT_REST, e, t) = main[e][t]
          BY AtRestForeseen
        <5>3. Overwritten(Foreseen(main, AT_REST, e, t), t, AsksOf(<<>>, e)) = Foreseen(main, AT_REST, e, t)
          BY EmptyOutcome
        <5>4. Outcome(main, AT_REST, <<>>, e, t) = main[e][t]
          BY <5>2, <5>3 DEF Outcome
        <5>5. PICK rm, rs, rq : rm = r.main /\ rs = r.setting /\ rq = r.queue
          OBVIOUS
        <5>6. rm = main /\ rs = AT_REST /\ rq = <<>>
          BY <5>1, <5>5
        <5>7. Outcome(rm, rs, rq, e, t) = main[e][t]
          BY <5>4, <5>6, Zenon
        <5> QED
          BY <5>5, <5>7, Zenon
      <4>2. AsksOf(s.queue, e) = [i \in 1..n |-> Asks(s.queue[i], e)]
        BY <2>6, <2>12 DEF AsksOf
      <4>3. Outcome(s.main, s.setting, s.queue, e, t) =
              Overwritten(s.main[e][t], t, [i \in 1..n |-> Asks(s.queue[i], e)])
        BY <1>2, <4>2, AtRestForeseen DEF Outcome
      <4> QED
        BY <2>9, <4>1, <4>3
    <3> QED
      BY <2>11, <3>1, <3>2, RestFacts DEF SameOutcome
  <2>13. CASE n # Len(s.queue)
    <3>1. n < Len(s.queue) /\ n + 1 \in 1..Len(s.queue)
      BY <2>6, <2>13
    <3>2. PICK trigger : trigger = s.queue[n + 1]
      OBVIOUS
    <3>3. /\ trigger \in PropertyTriggers /\ Convertible(trigger.list)
          /\ Len(rest) = Len(s.queue) - n - 1
          /\ \A i \in 1..Len(rest) : rest[i] = s.queue[n + 1 + i]
      BY <2>1, <2>2, <2>5, <3>1, <3>2 DEF Splits
    <3>4. PICK set : set = StartedSetting(trigger)
      OBVIOUS
    <3>5. /\ set \in Settings /\ set.phase = "executing" /\ set.element = trigger.element
          /\ set.list = trigger.list /\ set.olds = <<>> /\ set.element \in SoundElements
      BY <3>3, <3>4, StartedFacts
    <3>6. r = ExecuteFrom(passed, set, 1, TRUE)
      BY <2>1, <2>4, <2>5, <2>10, <2>13, <3>2, <3>4 DEF Resumed, Started, StartedSetting
    <3>7. Len(PolicyTargets[set.element]) \in Nat /\ Len(PolicyTargets[set.element]) >= 1
      BY <3>5, TargetFacts
    <3>8. 1 <= Len(PolicyTargets[set.element]) + 1 /\ 1 <= Len(set.olds) + 1 /\ 1 \in Nat /\ 1 >= 1
      BY <3>5, <3>7
    <3>9. Lost(passed.orders, up, passed.handle, st)
      BY <1>2, <2>2, <2>11, AtRestLost
    <3>10. Proceeds(passed, r, up, st) /\ ExecutesFrom(r.setting, set, 1)
      BY <2>11, <3>5, <3>6, <3>8, <3>9, ExecuteOn, Zenon
    <3>11. /\ r.setting \in Settings /\ r.setting.at = 1 /\ r.setting.element = trigger.element
           /\ r.setting.list = trigger.list /\ r.setting.phase = "executing"
      <4>1. ~(1 > Len(PolicyTargets[set.element]))
        BY <3>7
      <4> QED
        BY <3>5, <3>10, <4>1 DEF ExecutesFrom
    <3>12. r.main = main /\ r.queue = rest
      BY <2>11, <3>10 DEF Proceeds
    <3>13. ASSUME NEW e \in SoundElements, NEW t \in MainTypes
           PROVE  Outcome(r.main, r.setting, r.queue, e, t) = Outcome(s.main, s.setting, s.queue, e, t)
      <4>1. PICK k : k = Len(rest)
        OBVIOUS
      <4>2. k \in Nat /\ Len(s.queue) = n + (k + 1) /\ DOMAIN rest = 1..k /\ k + 1 \in Nat
        BY <2>3, <2>6, <3>3, <4>1
      <4>3. PICK w, first, back, last :
              /\ w = AsksOf(s.queue, e) /\ last = AsksOf(rest, e)
              /\ first = [i \in 1..n |-> Asks(s.queue[i], e)]
              /\ back = [i \in 1..(k + 1) |-> Asks(s.queue[n + i], e)]
        OBVIOUS
      <4>4. DOMAIN w = 1..(n + (k + 1)) /\ DOMAIN first = 1..n /\ DOMAIN back = 1..(k + 1)
            /\ DOMAIN last = 1..k
        BY <2>6, <4>2, <4>3 DEF AsksOf
      <4>5. Joined(w, first, n, back, k + 1)
        <5>1. \A i \in 1..n : first[i] = w[i]
          BY <2>6, <4>2, <4>3 DEF AsksOf
        <5>2. \A i \in 1..(k + 1) : back[i] = w[n + i]
          <6>1. ASSUME NEW i \in 1..(k + 1) PROVE n + i \in DOMAIN s.queue
            BY <2>6, <4>2
          <6> QED
            BY <4>3, <6>1 DEF AsksOf
        <5> QED
          BY <4>4, <5>1, <5>2 DEF Joined
      <4>6. Overwritten(s.main[e][t], t, w) = Overwritten(Overwritten(s.main[e][t], t, first), t, back)
        BY <2>6, <4>2, <4>5, OverwrittenSplit
      <4>7. Overwritten(s.main[e][t], t, first) = main[e][t]
        BY <2>9, <4>3
      <4>8. back[1] = Asks(trigger, e) /\ 1 \in 1..(k + 1)
        BY <3>2, <4>2, <4>3
      <4>9. \A i \in 1..k : last[i] = back[i + 1]
        <5>1. ASSUME NEW i \in 1..k PROVE rest[i] = s.queue[n + (i + 1)] /\ i + 1 \in 1..(k + 1)
          <6>1. n + 1 + i = n + (i + 1)
            BY <2>6
          <6> QED
            BY <3>3, <4>1, <4>2, <6>1
        <5> QED
          BY <4>2, <4>3, <5>1 DEF AsksOf
      <4>10. Overwritten(main[e][t], t, back) =
               Overwritten(IF t \in DOMAIN back[1] THEN back[1][t] ELSE main[e][t], t, last)
        BY <4>2, <4>4, <4>9, OverwrittenHead
      <4>11. Pending(r.setting, e) = back[1]
        BY <3>3, <3>11, <4>8, StartedPending
      <4>12. Outcome(r.main, r.setting, r.queue, e, t) =
               Overwritten(IF t \in DOMAIN back[1] THEN back[1][t] ELSE main[e][t], t, last)
        BY <3>12, <4>3, <4>11 DEF Outcome, Foreseen
      <4>13. Outcome(s.main, s.setting, s.queue, e, t) = Overwritten(s.main[e][t], t, w)
        BY <1>2, <4>3, AtRestForeseen DEF Outcome
      <4> QED
        BY <4>6, <4>7, <4>10, <4>12, <4>13
    <3> QED
      BY <3>11, <3>13 DEF SameOutcome
  <2> QED
    BY <2>12, <2>13
<1> QED
  BY <1>1, <1>2

\* Nor does an answer that the current element has been set.
StillForeseen(s, r, set) ==
    /\ r.setting.phase # "undoing"
    /\ \A e \in SoundElements, t \in MainTypes :
         Foreseen(r.main, r.setting, e, t) = Foreseen(s.main, set, e, t)

LEMMA AnsweredOutcome ==
    ASSUME NEW s \in SoundStates, NEW up \in Seq(UpMessages), NEW st,
           NEW set \in Settings, Placed(set), Lost(s.orders, up, s.handle, st),
           set.phase = "executing", NEW done \in BOOLEAN, NEW accepted \in BOOLEAN, done, accepted,
           NEW r, r = SettingAnswered(s, set, done, accepted)
    PROVE  StillForeseen(s, r, set)
<1>1. PICK main : main = WithValues(s.main, {Target(set)}, set.list)
  OBVIOUS
<1>2. /\ set.list \in PropertyLists /\ set.element \in SoundElements
      /\ set.at \in Nat /\ Len(set.olds) \in Nat /\ Len(PolicyTargets[set.element]) \in Nat
      /\ set.at >= 1 /\ set.at <= Len(set.olds) /\ set.at <= Len(PolicyTargets[set.element])
      /\ Current(set) = set.list
  BY CurrentFacts DEF Placed, Current
<1>3. main \in PropertyMaps(MainTypes)
      /\ \A e \in SoundElements, t \in MainTypes :
           main[e][t] = IF e = Target(set) /\ t \in TypesOf(set.list) THEN Values(set.list)[t]
                        ELSE s.main[e][t]
  BY <1>1, <1>2, WithValuesType DEF SoundStates
<1>4. PICK s2 : s2 = [s EXCEPT !.main = main]
  OBVIOUS
<1>5. s2 \in SoundStates /\ s2.main = main /\ s2.orders = s.orders /\ s2.handle = s.handle
  BY <1>3, <1>4 DEF SoundStates
<1>6. PICK n : n = set.at + 1
  OBVIOUS
<1>7. n \in Nat /\ n >= 1 /\ n <= Len(PolicyTargets[set.element]) + 1 /\ n <= Len(set.olds) + 1
  BY <1>2, <1>6
<1>8. r = ExecuteFrom(s2, set, n, TRUE)
  <2>1. r = ExecuteFrom(s2, set, n, accepted)
    BY <1>1, <1>4, <1>6 DEF SettingAnswered, SoundStates
  <2> QED
    BY <2>1 DEF ExecuteFrom
<1>9. Lost(s2.orders, up, s2.handle, st)
  BY <1>5
<1>10. Proceeds(s2, r, up, st) /\ ExecutesFrom(r.setting, set, n)
  BY <1>5, <1>7, <1>8, <1>9, ExecuteOn, Zenon
<1>11. r.main = main
  BY <1>5, <1>10 DEF Proceeds
<1>12. r.setting.phase # "undoing"
  BY <1>10, RestFacts DEF ExecutesFrom
<1>13. DOMAIN Values(set.list) = TypesOf(set.list)
  BY <1>2, ValuesType
<1>14. ASSUME NEW e \in SoundElements
       PROVE  /\ e = Target(set) => Pending(r.setting, e) = <<>> /\ Pending(set, e) = Values(set.list)
              /\ e # Target(set) => Pending(r.setting, e) = Pending(set, e)
  <2>1. PICK ts : ts = PolicyTargets[set.element]
    OBVIOUS
  <2>2. Len(ts) \in Nat /\ \A i, j \in 1..Len(ts) : ts[i] = ts[j] => i = j
    BY <1>2, <2>1, TargetFacts
  <2>3. Target(set) = ts[set.at] /\ set # AT_REST
    BY <2>1, RestFacts DEF Target
  <2>4. (\E k \in set.at..Len(ts) : ts[k] = e) <=> e = Target(set) \/ \E k \in n..Len(ts) : ts[k] = e
    <3>1. \A k \in set.at..Len(ts) : k = set.at \/ k \in n..Len(ts)
      BY <1>2, <1>6, <2>1
    <3>2. set.at \in set.at..Len(ts) /\ \A k \in n..Len(ts) : k \in set.at..Len(ts)
      BY <1>2, <1>6, <2>1
    <3> QED
      BY <2>3, <3>1, <3>2
  <2>5. e = Target(set) => ~\E k \in n..Len(ts) : ts[k] = e
    <3>1. ASSUME NEW k \in n..Len(ts), ts[k] = ts[set.at] PROVE FALSE
      <4>1. k \in 1..Len(ts) /\ set.at \in 1..Len(ts) /\ k # set.at
        BY <1>2, <1>6, <1>7, <2>1, <2>2
      <4> QED
        BY <2>2, <3>1, <4>1
    <3> QED
      BY <2>3, <3>1
  <2>6. Pending(set, e) = IF \E k \in set.at..Len(ts) : ts[k] = e THEN Values(set.list) ELSE <<>>
    BY <2>1, <2>3 DEF Pending
  <2>7. Pending(r.setting, e) = IF \E k \in n..Len(ts) : ts[k] = e THEN Values(set.list) ELSE <<>>
    <3>1. CASE n > Len(ts)
      <4>1. r.setting = AT_REST
        BY <1>10, <2>1, <3>1 DEF ExecutesFrom
      <4>2. ~\E k \in n..Len(ts) : ts[k] = e
        BY <1>7, <2>2, <3>1
      <4> QED
        BY <4>1, <4>2 DEF Pending
    <3>2. CASE ~(n > Len(ts))
      <4>1. /\ r.setting \in Settings /\ r.setting.at = n /\ r.setting.element = set.element
            /\ r.setting.list = set.list
        BY <1>10, <2>1, <3>2 DEF ExecutesFrom
      <4> QED
        BY <2>1, <4>1, RestFacts DEF Pending
    <3> QED
      BY <3>1, <3>2
  <2> QED
    BY <2>4, <2>5, <2>6, <2>7
<1>15. ASSUME NEW e \in SoundElements, NEW t \in MainTypes
       PROVE  Foreseen(r.main, r.setting, e, t) = Foreseen(s.main, set, e, t)
  <2>1. DOMAIN <<>> = {}
    OBVIOUS
  <2>2. CASE e = Target(set)
    <3>1. Foreseen(r.main, r.setting, e, t) = main[e][t]
      BY <1>11, <1>14, <2>1, <2>2 DEF Foreseen
    <3>2. Foreseen(s.main, set, e, t) =
            IF t \in TypesOf(set.list) THEN Values(set.list)[t] ELSE s.main[e][t]
      BY <1>13, <1>14, <2>2 DEF Foreseen
    <3> QED
      BY <1>3, <2>2, <3>1, <3>2
  <2>3. CASE e # Target(set)
    <3>1. main[e][t] = s.main[e][t]
      BY <1>3, <2>3
    <3> QED
      BY <1>11, <1>14, <2>3, <3>1 DEF Foreseen
  <2> QED
    BY <2>2, <2>3
<1> QED
  BY <1>12, <1>15 DEF StillForeseen

\* What a request asks for is what is latest then.
LEMMA AsksWritten ==
    ASSUME NEW last \in PropertyMaps(MainTypes), NEW trigger \in PropertyTriggers,
           NEW new, new = WithValues(last, Range(PolicyTargets[trigger.element]), Settable(trigger.list))
    PROVE  /\ new \in PropertyMaps(MainTypes)
           /\ \A e \in SoundElements, t \in MainTypes :
                new[e][t] = IF t \in DOMAIN Asks(trigger, e) THEN Asks(trigger, e)[t] ELSE last[e][t]
<1>1. PICK list, es : list = Settable(trigger.list) /\ es = Range(PolicyTargets[trigger.element])
  OBVIOUS
<1>2. trigger.list \in PropertyLists
  BY DEF PropertyTriggers
<1>3. list \in PropertyLists
  BY <1>1, <1>2, SettableFacts
<1>4. DOMAIN Values(list) = TypesOf(list)
  BY <1>3, ValuesType
<1>5. /\ new \in PropertyMaps(MainTypes)
      /\ \A e \in SoundElements, t \in MainTypes :
           new[e][t] = IF e \in es /\ t \in TypesOf(list) THEN Values(list)[t] ELSE last[e][t]
  <2>1. new = WithValues(last, es, list)
    BY <1>1
  <2> QED
    BY <1>3, <2>1, WithValuesType
<1>6. \A e \in SoundElements : Asks(trigger, e) = IF e \in es THEN Values(list) ELSE <<>>
  BY <1>1 DEF Asks
<1>7. DOMAIN <<>> = {}
  OBVIOUS
<1>8. ASSUME NEW e \in SoundElements, NEW t \in MainTypes
      PROVE  new[e][t] = IF t \in DOMAIN Asks(trigger, e) THEN Asks(trigger, e)[t] ELSE last[e][t]
  <2>1. CASE e \in es
    <3>1. Asks(trigger, e) = Values(list)
      BY <1>6, <2>1
    <3> QED
      BY <1>4, <1>5, <2>1, <3>1
  <2>2. CASE e \notin es
    <3>1. Asks(trigger, e) = <<>>
      BY <1>6, <2>2
    <3> QED
      BY <1>5, <1>7, <2>2, <3>1
  <2> QED
    BY <2>1, <2>2
<1> QED
  BY <1>5, <1>8

\* With an empty queue there is nothing to look at.
LEMMA IteratedEmpty ==
    ASSUME NEW s \in SoundStates, s.setting = AT_REST, s.queue = <<>>, NEW accepted \in BOOLEAN,
           NEW r, r = Iterated(s, accepted)
    PROVE  /\ r.setting = AT_REST /\ r.queue = <<>>
           /\ \A e \in SoundElements, t \in MainTypes : r.main[e][t] = s.main[e][t]
<1>1. PICK front, rest : Splits(s.queue, front, rest, accepted) /\ r = Resumed(s, front, rest)
  BY IteratedCases
<1>2. front \in Seq(PropertyTriggers) /\ Len(front) = 0 /\ rest = <<>> /\ Len(s.queue) = 0
  BY <1>1 DEF Splits
<1>3. r = [s EXCEPT !.main = Noted(s.main, front), !.queue = rest]
  BY <1>1, <1>2 DEF Resumed
<1>4. s.main \in PropertyMaps(MainTypes)
  BY DEF SoundStates
<1>5. r.main = Noted(s.main, front) /\ r.setting = AT_REST /\ r.queue = <<>>
  BY <1>2, <1>3 DEF SoundStates
<1>6. ASSUME NEW e \in SoundElements, NEW t \in MainTypes PROVE r.main[e][t] = s.main[e][t]
  <2>1. PICK w : w = [i \in DOMAIN front |-> Unmapped(front[i], e)]
    OBVIOUS
  <2>2. DOMAIN w = 1..0 /\ 0 \in Nat
    BY <1>2, <2>1
  <2>3. NoneWrites(t, 0, w)
    BY <2>2 DEF NoneWrites
  <2>4. Overwritten(s.main[e][t], t, w) = s.main[e][t]
    BY <2>2, <2>3, OverwrittenNone
  <2>5. Noted(s.main, front)[e][t] = Overwritten(s.main[e][t], t, w)
    BY <1>2, <1>4, <2>1, NotedFacts
  <2> QED
    BY <1>5, <2>4, <2>5
<1> QED
  BY <1>5, <1>6

-----------------------------------------------------------------------------
(* The inductive invariant *)

\* With everything accepted, what is latest is what the queue and the action lead to.
LatestFits(main, set, q, last) ==
    /\ set.phase # "undoing"
    /\ \A e \in SoundElements, t \in MainTypes : last[e][t] = Outcome(main, set, q, e, t)

SoundShape ==
    /\ mainProperty \in PropertyMaps(MainTypes) /\ latest \in PropertyMaps(MainTypes)
    /\ playing \in PropertyMaps(MappedTypes)
    /\ propertyQueue \in Seq(PropertyTriggers)
    /\ setting \in Settings \cup {AT_REST}
    /\ orders \in Seq(OrderMessages) /\ upward \in Seq(UpMessages)
    /\ lastHandle \in Nat /\ disturbed \in BOOLEAN

SoundInv ==
    /\ SoundShape
    /\ SettingFits(setting, lastHandle)
    /\ FlightFits(orders, upward, setting, lastHandle, strayed)
    /\ Follows(mainProperty, upward, playing, strayed)
    /\ setting = AT_REST => propertyQueue = <<>>
    /\ ~disturbed => LatestFits(mainProperty, setting, propertyQueue, latest)

\* The controller's part of the invariant, of the record that stands for its variables.
Carried(r, up, played, st) ==
    /\ r \in SoundStates
    /\ SettingFits(r.setting, r.handle)
    /\ FlightFits(r.orders, up, r.setting, r.handle, st)
    /\ Follows(r.main, up, played, st)
    /\ r.setting = AT_REST => r.queue = <<>>

LEMMA IteratedCarried ==
    ASSUME NEW s \in SoundStates, NEW up \in Seq(UpMessages), NEW st, NEW accepted \in BOOLEAN,
           NEW played, Follows(s.main, up, played, st),
           SettingFits(s.setting, s.handle), FlightFits(s.orders, up, s.setting, s.handle, st),
           NEW r, r = Iterated(s, accepted)
    PROVE  Carried(r, up, played, st)
<1>1. LookedAt(s, r, up, st)
  BY IteratedFits, Zenon
<1>2. Follows(r.main, up, played, st)
  BY <1>1, FollowsSame DEF LookedAt
<1>3. r.setting = AT_REST => r.queue = <<>>
  BY <1>1, RestFacts DEF LookedAt
<1> QED
  BY <1>1, <1>2, <1>3 DEF Carried, LookedAt

LEMMA CarriedInv ==
    ASSUME NEW r, Becomes(r), Carried(r, upward', playing', strayed'),
           upward' \in Seq(UpMessages), playing' \in PropertyMaps(MappedTypes),
           latest' \in PropertyMaps(MainTypes), disturbed' \in BOOLEAN,
           ~disturbed' => LatestFits(r.main, r.setting, r.queue, latest')
    PROVE  SoundInv'
<1>1. /\ mainProperty' = r.main /\ propertyQueue' = r.queue /\ setting' = r.setting
      /\ orders' = r.orders /\ lastHandle' = r.handle
  BY DEF Becomes
<1>2. SoundShape'
  BY <1>1 DEF SoundShape, Carried, SoundStates
<1> QED
  BY <1>1, <1>2 DEF SoundInv, Carried

LEMMA NowFacts ==
    ASSUME SoundInv, NEW s, s = Now
    PROVE  /\ s \in SoundStates
           /\ s.main = mainProperty /\ s.queue = propertyQueue /\ s.setting = setting
           /\ s.orders = orders /\ s.handle = lastHandle
BY DEF SoundInv, SoundShape, Now, SoundStates

-----------------------------------------------------------------------------
(* Every step keeps it *)

LEMMA QueuesKeeps ==
    ASSUME SoundInv, NEW e \in SoundElements, NEW list \in PropertyLists, Queues(e, list)
    PROVE  SoundInv'
<1>1. PICK trigger : trigger = [element |-> e, list |-> list]
  OBVIOUS
<1>2. trigger \in PropertyTriggers /\ trigger.element = e /\ trigger.list = list
  BY <1>1 DEF PropertyTriggers
<1>3. PICK accepted \in BOOLEAN :
        /\ Becomes(Iterated([Now EXCEPT !.queue = Append(@, [element |-> e, list |-> list])], accepted))
        /\ disturbed' = (disturbed \/ ~accepted)
  BY DEF Queues
<1>4. PICK now : now = Now
  OBVIOUS
<1>5. /\ now \in SoundStates /\ now.main = mainProperty /\ now.queue = propertyQueue
      /\ now.setting = setting /\ now.orders = orders /\ now.handle = lastHandle
  BY <1>4, NowFacts
<1>6. PICK s : s = [now EXCEPT !.queue = Append(@, trigger)]
  OBVIOUS
<1>7. Append(now.queue, trigger) \in Seq(PropertyTriggers)
  BY <1>2, <1>5 DEF SoundStates
<1>8. /\ s \in SoundStates /\ s.main = mainProperty /\ s.queue = Append(propertyQueue, trigger)
      /\ s.setting = setting /\ s.orders = orders /\ s.handle = lastHandle
  BY <1>5, <1>6, <1>7 DEF SoundStates
<1>9. PICK r : r = Iterated(s, accepted)
  OBVIOUS
<1>10. Becomes(r)
  BY <1>1, <1>3, <1>4, <1>6, <1>9
<1>11. /\ upward \in Seq(UpMessages) /\ latest \in PropertyMaps(MainTypes)
       /\ playing \in PropertyMaps(MappedTypes) /\ disturbed \in BOOLEAN
       /\ propertyQueue \in Seq(PropertyTriggers)
       /\ SettingFits(s.setting, s.handle) /\ FlightFits(s.orders, upward, s.setting, s.handle, strayed)
       /\ Follows(s.main, upward, playing, strayed)
       /\ ~disturbed => LatestFits(mainProperty, setting, propertyQueue, latest)
  BY <1>8 DEF SoundInv, SoundShape
<1>12. Carried(r, upward, playing, strayed)
  BY <1>8, <1>9, <1>11, IteratedCarried
<1>13. upward' = upward /\ playing' = playing /\ strayed' = strayed
       /\ latest' = WithValues(latest, Range(PolicyTargets[trigger.element]), Settable(trigger.list))
  BY <1>2 DEF Queues
<1>14. PICK last : last = latest'
  OBVIOUS
<1>15. /\ last \in PropertyMaps(MainTypes)
       /\ \A x \in SoundElements, t \in MainTypes :
            last[x][t] = IF t \in DOMAIN Asks(trigger, x) THEN Asks(trigger, x)[t] ELSE latest[x][t]
  BY <1>2, <1>11, <1>13, <1>14, AsksWritten
<1>16. disturbed' \in BOOLEAN
  BY <1>3
<1>17. ASSUME ~disturbed' PROVE LatestFits(r.main, r.setting, r.queue, last)
  <2>1. accepted /\ ~disturbed
    BY <1>3, <1>11, <1>17
  <2>2. s.setting.phase # "undoing"
        /\ \A x \in SoundElements, t \in MainTypes :
             latest[x][t] = Outcome(s.main, s.setting, propertyQueue, x, t)
    BY <1>8, <1>11, <2>1 DEF LatestFits
  <2>3. \A x \in SoundElements, t \in MainTypes :
          Outcome(s.main, s.setting, s.queue, x, t) = last[x][t]
    <3>1. ASSUME NEW x \in SoundElements, NEW t \in MainTypes
          PROVE  Outcome(s.main, s.setting, s.queue, x, t) = last[x][t]
      <4>1. Outcome(s.main, s.setting, Append(propertyQueue, trigger), x, t) =
              IF t \in DOMAIN Asks(trigger, x) THEN Asks(trigger, x)[t]
              ELSE Outcome(s.main, s.setting, propertyQueue, x, t)
        BY <1>2, <1>11, AppendOutcome
      <4> QED
        BY <1>8, <1>15, <2>2, <4>1
    <3> QED
      BY <3>1
  <2>4. SameOutcome(s, r)
    BY <1>8, <1>9, <1>11, <2>1, <2>2, IteratedOutcome
  <2> QED
    BY <2>3, <2>4 DEF LatestFits, SameOutcome
<1> QED
  BY <1>10, <1>11, <1>12, <1>13, <1>14, <1>15, <1>16, <1>17, CarriedInv

LEMMA AnswersKeeps ==
    ASSUME SoundInv, NEW done \in BOOLEAN, Answers(done)
    PROVE  SoundInv'
<1>1. /\ orders \in Seq(OrderMessages) /\ upward \in Seq(UpMessages)
      /\ playing \in PropertyMaps(MappedTypes) /\ orders # <<>>
  BY DEF SoundInv, SoundShape, Answers
<1>2. PICK o : o = Head(orders)
  OBVIOUS
<1>3. o \in OrderMessages
  BY <1>1, <1>2
<1>4. PICK m : m = [handle |-> o.handle, element |-> o.element, list |-> o.list, done |-> done]
  OBVIOUS
<1>5. /\ m \in UpMessages /\ m.handle = o.handle /\ m.element = o.element /\ m.list = o.list
      /\ m.done = done /\ m.handle # 0 /\ m.element \in SoundElements
      /\ m.list \in OrderLists /\ m.list \in PropertyLists
  <2>1. m \in AnswerMessages
    BY <1>3, <1>4 DEF OrderMessages, AnswerMessages
  <2>2. /\ m.handle = o.handle /\ m.element = o.element /\ m.list = o.list /\ m.done = done
    BY <1>4
  <2> QED
    BY <2>1, <2>2 DEF UpMessages, AnswerMessages, OrderLists
<1>6. /\ orders' = Tail(orders) /\ upward' = Append(upward, m)
      /\ playing' = IF done THEN WithValues(playing, {o.element}, o.list) ELSE playing
  BY <1>2, <1>4 DEF Answers
<1>7. /\ mainProperty' = mainProperty /\ latest' = latest /\ propertyQueue' = propertyQueue
      /\ setting' = setting /\ lastHandle' = lastHandle /\ disturbed' = disturbed
      /\ strayed' = strayed
  BY DEF Answers
<1>8. Tail(orders) \in Seq(OrderMessages) /\ Append(upward, m) \in Seq(UpMessages)
  BY <1>1, <1>5
<1>9. /\ playing' \in PropertyMaps(MappedTypes)
      /\ \A e \in SoundElements, t \in MappedTypes :
           playing'[e][t] = IF t \in DOMAIN Effect(m, e) THEN Effect(m, e)[t] ELSE playing[e][t]
  <2>1. CASE done
    <3>1. WithValues(playing, {o.element}, o.list) \in PropertyMaps(MappedTypes)
          /\ \A e \in SoundElements, t \in MappedTypes :
               WithValues(playing, {o.element}, o.list)[e][t] =
                 IF e \in {o.element} /\ t \in TypesOf(o.list) THEN Values(o.list)[t] ELSE playing[e][t]
      BY <1>1, <1>5, WithValuesType
    <3>2. playing' = WithValues(playing, {o.element}, o.list)
      BY <1>6, <2>1
    <3>3. ASSUME NEW e \in SoundElements, NEW t \in MappedTypes
          PROVE  playing'[e][t] = IF t \in DOMAIN Effect(m, e) THEN Effect(m, e)[t] ELSE playing[e][t]
      <4>1. t \in DOMAIN Effect(m, e) <=> e = o.element /\ t \in TypesOf(o.list)
        BY <1>5, <2>1, EffectsDomain
      <4>2. e = o.element => Effect(m, e) = Values(o.list)
        BY <1>5, <2>1 DEF Effect
      <4> QED
        BY <3>1, <3>2, <4>1, <4>2
    <3> QED
      BY <3>1, <3>2, <3>3
  <2>2. CASE ~done
    <3>1. \A e \in SoundElements, t \in MappedTypes : t \notin DOMAIN Effect(m, e)
      BY <1>5, <2>2, EffectsDomain
    <3> QED
      BY <1>1, <1>6, <2>2, <3>1
  <2> QED
    BY <2>1, <2>2
<1>10. FlightFits(Tail(orders), Append(upward, m), setting, lastHandle, strayed)
  BY <1>1, <1>2, <1>5, AnswerFits DEF SoundInv
<1>11. PICK played : played = playing'
  OBVIOUS
<1>12. Follows(mainProperty, Append(upward, m), played, strayed)
  <2>1. Follows(mainProperty, upward, playing, strayed)
    BY DEF SoundInv
  <2>2. \A e \in SoundElements \ strayed, t \in MappedTypes :
          played[e][t] = IF t \in DOMAIN Effect(m, e) THEN Effect(m, e)[t] ELSE playing[e][t]
    BY <1>9, <1>11
  <2> QED
    BY <1>1, <1>5, <2>1, <2>2, FollowsSent
<1>13. SoundShape'
  BY <1>6, <1>7, <1>8, <1>9 DEF SoundInv, SoundShape
<1>14. Follows(mainProperty', upward', playing', strayed')
  BY <1>6, <1>7, <1>11, <1>12
<1>15. FlightFits(orders', upward', setting', lastHandle', strayed')
  BY <1>6, <1>7, <1>10
<1>16. /\ SettingFits(setting', lastHandle')
       /\ setting' = AT_REST => propertyQueue' = <<>>
       /\ ~disturbed' => LatestFits(mainProperty', setting', propertyQueue', latest')
  BY <1>7 DEF SoundInv
<1> QED
  BY <1>13, <1>14, <1>15, <1>16 DEF SoundInv

LEMMA ReportsKeeps ==
    ASSUME SoundInv, NEW e \in SoundElements, NEW t \in MappedTypes, NEW v \in PlayedValues,
           Reports(e, t, v)
    PROVE  SoundInv'
<1>1. /\ orders \in Seq(OrderMessages) /\ upward \in Seq(UpMessages)
      /\ playing \in PropertyMaps(MappedTypes)
  BY DEF SoundInv, SoundShape
<1>2. PICK entry, list, m :
        /\ entry = [type |-> t, value |-> v] /\ list = <<entry>>
        /\ m = [handle |-> 0, element |-> e, list |-> list]
  OBVIOUS
<1>3. /\ entry \in Entries /\ entry.type = t /\ entry.value = v
  BY <1>2, SoundPropertyAssumption DEF Entries
<1>4. /\ list \in PropertyLists /\ DOMAIN list = 1..1 /\ list[1] = entry
  BY <1>2, <1>3 DEF PropertyLists
<1>5. Range(list) = {entry}
  BY <1>2, <1>4 DEF Range
<1>6. list \in OrderLists /\ TypesOf(list) = {t} /\ Values(list)[t] = v
  <2>1. TypesOf(list) = {t}
    BY <1>3, <1>5 DEF TypesOf
  <2>2. Convertible(list)
    BY <1>3, <1>4 DEF Convertible
  <2>3. (CHOOSE p \in Range(list) : p.type = t) = entry
    <3>1. \E p \in Range(list) : p.type = t
      BY <1>3, <1>5
    <3>2. PICK q : q = (CHOOSE p \in Range(list) : p.type = t)
      OBVIOUS
    <3>3. q \in Range(list)
      BY <3>1, <3>2, Zenon
    <3> QED
      BY <1>5, <3>2, <3>3
  <2>4. Values(list) = [x \in {t} |-> (CHOOSE p \in Range(list) : p.type = x).value]
    BY <2>1 DEF Values, TypesOf
  <2>5. Values(list)[t] = (CHOOSE p \in Range(list) : p.type = t).value
    BY <2>4
  <2> QED
    BY <1>3, <1>4, <2>1, <2>2, <2>3, <2>5 DEF OrderLists
<1>7. /\ m \in ReportMessages /\ m \in UpMessages /\ m.handle = 0 /\ m.element = e /\ m.list = list
  BY <1>2, <1>6 DEF ReportMessages, UpMessages
<1>8. upward' = Append(upward, m) /\ playing' = [playing EXCEPT ![e][t] = v]
  BY <1>2 DEF Reports
<1>9. /\ mainProperty' = mainProperty /\ latest' = latest /\ propertyQueue' = propertyQueue
      /\ setting' = setting /\ orders' = orders /\ lastHandle' = lastHandle
      /\ disturbed' = disturbed /\ strayed' = strayed
  BY DEF Reports
<1>10. Append(upward, m) \in Seq(UpMessages) /\ v \in Int
  BY <1>1, <1>7, SoundPropertyAssumption
<1>11. /\ playing' \in PropertyMaps(MappedTypes)
       /\ \A x \in SoundElements, y \in MappedTypes :
            playing'[x][y] = IF x = e /\ y = t THEN v ELSE playing[x][y]
  BY <1>1, <1>8, <1>10 DEF PropertyMaps
<1>12. PICK played : played = playing'
  OBVIOUS
<1>13. \A x \in SoundElements \ strayed, y \in MappedTypes :
         played[x][y] = IF y \in DOMAIN Effect(m, x) THEN Effect(m, x)[y] ELSE playing[x][y]
  <2>1. ASSUME NEW x \in SoundElements, NEW y \in MappedTypes
        PROVE  played[x][y] = IF y \in DOMAIN Effect(m, x) THEN Effect(m, x)[y] ELSE playing[x][y]
    <3>1. y \in DOMAIN Effect(m, x) <=> x = e /\ y = t
      BY <1>6, <1>7, EffectsDomain
    <3>2. x = e => Effect(m, x) = Values(list)
      BY <1>7 DEF Effect
    <3> QED
      BY <1>6, <1>11, <1>12, <3>1, <3>2
  <2> QED
    BY <2>1
<1>14. Follows(mainProperty, Append(upward, m), played, strayed)
  <2>1. Follows(mainProperty, upward, playing, strayed)
    BY DEF SoundInv
  <2> QED
    BY <1>1, <1>7, <1>13, <2>1, FollowsSent
<1>15. FlightFits(orders, Append(upward, m), setting, lastHandle, strayed)
  BY <1>1, <1>7, ReportFits DEF SoundInv
<1>16. SoundShape'
  BY <1>8, <1>9, <1>10, <1>11 DEF SoundInv, SoundShape
<1> QED
  BY <1>8, <1>9, <1>12, <1>14, <1>15, <1>16 DEF SoundInv

LEMMA TakeReportKeeps ==
    ASSUME SoundInv, TakeReport
    PROVE  SoundInv'
<1>1. /\ orders \in Seq(OrderMessages) /\ upward \in Seq(UpMessages) /\ upward # <<>>
      /\ mainProperty \in PropertyMaps(MainTypes)
  BY DEF SoundInv, SoundShape, TakeReport
<1>2. PICK m : m = Head(upward)
  OBVIOUS
<1>3. m \in UpMessages
  BY <1>1, <1>2
<1>4. m.handle = 0 /\ m.list \in PropertyLists /\ m.element \in SoundElements
  <2>1. m.handle = 0
    BY <1>2 DEF TakeReport
  <2> QED
    BY <1>3, <2>1 DEF UpMessages, AnswerMessages, ReportMessages, OrderLists
<1>5. /\ mainProperty' = WithValues(mainProperty, {m.element}, m.list)
      /\ upward' = Tail(upward) /\ disturbed' = TRUE
  <2>1. mainProperty' = MainReported(mainProperty, m.element, m.list)
    BY <1>2, Zenon DEF TakeReport
  <2> QED
    BY <2>1 DEF TakeReport, MainReported
<1>6. /\ latest' = latest /\ propertyQueue' = propertyQueue /\ playing' = playing
      /\ setting' = setting /\ orders' = orders /\ lastHandle' = lastHandle /\ strayed' = strayed
  BY DEF TakeReport
<1>7. PICK main : main = mainProperty'
  OBVIOUS
<1>8. /\ main \in PropertyMaps(MainTypes)
      /\ \A e \in SoundElements, t \in MainTypes :
           main[e][t] = IF e \in {m.element} /\ t \in TypesOf(m.list) THEN Values(m.list)[t]
                        ELSE mainProperty[e][t]
  BY <1>1, <1>4, <1>5, <1>7, WithValuesType
<1>9. \A e \in SoundElements \ strayed, t \in MappedTypes :
        main[e][t] = IF t \in DOMAIN Effect(Head(upward), e) THEN Effect(Head(upward), e)[t]
                     ELSE mainProperty[e][t]
  <2>1. ASSUME NEW e \in SoundElements, NEW t \in MappedTypes
        PROVE  main[e][t] = IF t \in DOMAIN Effect(m, e) THEN Effect(m, e)[t] ELSE mainProperty[e][t]
    <3>1. t \in DOMAIN Effect(m, e) <=> m.element = e /\ t \in TypesOf(m.list)
      BY <1>3, <1>4, EffectsDomain
    <3>2. e = m.element => Effect(m, e) = Values(m.list)
      BY <1>4 DEF Effect
    <3>3. t \in MainTypes
      BY SoundPropertyAssumption
    <3> QED
      BY <1>8, <3>1, <3>2, <3>3
  <2> QED
    BY <1>2, <2>1
<1>10. Follows(main, Tail(upward), playing, strayed)
  <2>1. Follows(mainProperty, upward, playing, strayed) /\ strayed \subseteq strayed
    BY DEF SoundInv
  <2> QED
    BY <1>1, <1>9, <2>1, FollowsTaken
<1>11. FlightFits(orders, Tail(upward), setting, lastHandle, strayed)
  BY <1>1, TailFits DEF SoundInv
<1>12. Tail(upward) \in Seq(UpMessages)
  BY <1>1
<1>13. SoundShape'
  BY <1>5, <1>6, <1>7, <1>8, <1>12 DEF SoundInv, SoundShape
<1> QED
  BY <1>5, <1>6, <1>7, <1>10, <1>11, <1>13 DEF SoundInv

\* The message at the front, when it is an answer.
LEMMA HeadAnswer ==
    ASSUME SoundInv, upward # <<>>, Head(upward).handle # 0, NEW a, a = Head(upward)
    PROVE  /\ a \in UpMessages /\ a.handle # 0 /\ a.done \in BOOLEAN /\ a.element \in SoundElements
           /\ a.list \in PropertyLists /\ Belongs(a, setting, strayed)
<1>1. upward \in Seq(UpMessages)
  BY DEF SoundInv, SoundShape
<1>2. a \in UpMessages /\ a = upward[1] /\ 1 \in DOMAIN upward
  BY <1>1
<1>3. a \in AnswerMessages
  BY <1>2 DEF UpMessages, ReportMessages
<1>4. a \in Flying(orders, upward)
  BY <1>2 DEF Flying
<1>5. Belongs(a, setting, strayed)
  BY <1>4 DEF SoundInv, FlightFits
<1> QED
  BY <1>2, <1>3, <1>5 DEF AnswerMessages, OrderLists

\* The action under way has got its answer.
LEMMA AnswerTaken ==
    ASSUME SoundInv, NEW accepted \in BOOLEAN, TakeAnswer(accepted), Head(upward).handle = setting.handle
    PROVE  SoundInv'
<1>1. /\ orders \in Seq(OrderMessages) /\ upward \in Seq(UpMessages) /\ upward # <<>>
      /\ mainProperty \in PropertyMaps(MainTypes) /\ latest \in PropertyMaps(MainTypes)
      /\ playing \in PropertyMaps(MappedTypes) /\ disturbed \in BOOLEAN
      /\ Head(upward).handle # 0
  BY DEF SoundInv, SoundShape, TakeAnswer
<1>2. PICK a : a = Head(upward)
  OBVIOUS
<1>3. /\ a \in UpMessages /\ a.handle # 0 /\ a.done \in BOOLEAN /\ a.element \in SoundElements
      /\ a.list \in PropertyLists /\ Belongs(a, setting, strayed)
  BY <1>1, <1>2, HeadAnswer
<1>4. setting \in Settings /\ Placed(setting) /\ setting.handle = lastHandle /\ a.handle = setting.handle
  <2>1. setting # AT_REST
    BY <1>1, RestFacts
  <2> QED
    BY <1>2, <2>1 DEF SoundInv, SoundShape, SettingFits
<1>5. a.element = Target(setting) /\ a.list = Current(setting)
  BY <1>3, <1>4 DEF Belongs
<1>6. PICK done, st, set : done = a.done /\ st = strayed \cup Strays(setting, a.done) /\ set = setting
  OBVIOUS
<1>7. done \in BOOLEAN /\ strayed \subseteq st /\ set \in Settings /\ Placed(set)
  BY <1>3, <1>4, <1>6
<1>8. PICK now : now = Now
  OBVIOUS
<1>9. /\ now \in SoundStates /\ now.main = mainProperty /\ now.queue = propertyQueue
      /\ now.setting = setting /\ now.orders = orders /\ now.handle = lastHandle
  BY <1>8, NowFacts
<1>10. PICK s, r : s = SettingAnswered(now, set, done, accepted) /\ r = Iterated(s, accepted)
  OBVIOUS
<1>11. /\ Becomes(r) /\ upward' = Tail(upward) /\ strayed' = st
       /\ playing' = playing /\ latest' = latest
       /\ disturbed' = (disturbed \/ ~done \/ ~accepted)
  <2>1. Becomes(Iterated(SettingAnswered(Now, setting, a.done, accepted), accepted))
    BY <1>2, <1>4, Zenon DEF TakeAnswer
  <2>2. strayed' = strayed \cup Strays(setting, a.done)
    BY <1>2, <1>4, Zenon DEF TakeAnswer
  <2>3. disturbed' = (disturbed \/ ~a.done \/ ~accepted)
    BY <1>2, <1>4, Zenon DEF TakeAnswer
  <2>4. upward' = Tail(upward) /\ playing' = playing /\ latest' = latest
    BY DEF TakeAnswer
  <2> QED
    BY <1>6, <1>8, <1>10, <2>1, <2>2, <2>3, <2>4, Zenon
<1>12. PICK up : up = Tail(upward)
  OBVIOUS
<1>13. up \in Seq(UpMessages)
  BY <1>1, <1>12
<1>14. Lost(now.orders, up, now.handle, st)
  <2>1. FlightFits(orders, upward, setting, lastHandle, strayed)
    BY DEF SoundInv
  <2>2. Lost(orders, up, lastHandle, strayed)
    BY <1>1, <1>3, <1>4, <1>12, <2>1, TakenLost
  <2> QED
    BY <1>7, <1>9, <2>2, FlightWeaker
<1>15. /\ s \in SoundStates /\ s.queue = now.queue /\ SettingFits(s.setting, s.handle)
       /\ FlightFits(s.orders, up, s.setting, s.handle, st)
       /\ s.main = IF Writes(set, done) THEN WithValues(now.main, {Target(set)}, Current(set)) ELSE now.main
  <2>1. GoesOn(now, s, set, done, up, st)
    BY <1>7, <1>9, <1>10, <1>13, <1>14, AnsweredFits, Zenon
  <2> QED
    BY <2>1 DEF GoesOn
<1>16. Follows(s.main, up, playing, st)
  <2>1. PICK main : main = s.main
    OBVIOUS
  <2>2. \A e \in SoundElements \ st, t \in MappedTypes :
          main[e][t] = IF t \in DOMAIN Effect(a, e) THEN Effect(a, e)[t] ELSE mainProperty[e][t]
    <3>1. ASSUME NEW e \in SoundElements \ st, NEW t \in MappedTypes
          PROVE  main[e][t] = IF t \in DOMAIN Effect(a, e) THEN Effect(a, e)[t] ELSE mainProperty[e][t]
      <4>1. t \in DOMAIN Effect(a, e) <=> a.element = e /\ done /\ t \in TypesOf(a.list)
        BY <1>3, <1>6, EffectsDomain
      <4>2. a.element = e /\ done => Effect(a, e) = Values(a.list)
        BY <1>6 DEF Effect
      <4>3. \A x \in SoundElements, y \in MainTypes :
              WithValues(mainProperty, {Target(set)}, Current(set))[x][y] =
                IF x \in {Target(set)} /\ y \in TypesOf(Current(set)) THEN Values(Current(set))[y]
                ELSE mainProperty[x][y]
        BY <1>1, <1>3, <1>5, <1>6, WithValuesType
      <4>4. t \in MainTypes
        BY SoundPropertyAssumption
      <4>5. CASE Writes(set, done) /\ done
        <5>1. main = WithValues(mainProperty, {Target(set)}, Current(set))
          BY <1>9, <1>15, <2>1, <4>5
        <5>2. a.element = Target(set) /\ a.list = Current(set)
          BY <1>5, <1>6
        <5>3. main[e][t] = IF e = Target(set) /\ t \in TypesOf(Current(set)) THEN Values(Current(set))[t]
                           ELSE mainProperty[e][t]
          BY <4>3, <4>4, <5>1
        <5> QED
          BY <4>1, <4>2, <4>5, <5>2, <5>3
      <4>6. CASE Writes(set, done) /\ ~done
        <5>1. e # Target(set)
          BY <1>6, <4>6 DEF Writes, Strays
        <5> QED
          BY <1>9, <1>15, <2>1, <4>1, <4>3, <4>4, <4>6, <5>1
      <4>7. CASE ~Writes(set, done)
        <5>1. ~done
          BY <1>7, <4>7 DEF Writes
        <5> QED
          BY <1>9, <1>15, <2>1, <4>1, <4>7, <5>1
      <4> QED
        BY <4>5, <4>6, <4>7
    <3> QED
      BY <3>1
  <2>3. Follows(mainProperty, upward, playing, strayed)
    BY DEF SoundInv
  <2>4. Follows(main, Tail(upward), playing, st)
    BY <1>1, <1>2, <1>7, <2>2, <2>3, FollowsTaken
  <2> QED
    BY <1>12, <2>1, <2>4
<1>17. Carried(r, up, playing, st)
  BY <1>10, <1>13, <1>15, <1>16, IteratedCarried
<1>18. disturbed' \in BOOLEAN
  BY <1>11
<1>19. ASSUME ~disturbed' PROVE LatestFits(r.main, r.setting, r.queue, latest)
  <2>1. done /\ accepted /\ ~disturbed
    BY <1>1, <1>7, <1>11, <1>19
  <2>2. set.phase # "undoing"
        /\ \A x \in SoundElements, t \in MainTypes :
             latest[x][t] = Outcome(now.main, set, now.queue, x, t)
    BY <1>6, <1>9, <2>1 DEF SoundInv, LatestFits
  <2>3. set.phase = "executing"
    BY <1>7, <2>2 DEF Settings
  <2>4. /\ s.setting.phase # "undoing"
        /\ \A e \in SoundElements, t \in MainTypes :
             Foreseen(s.main, s.setting, e, t) = Foreseen(now.main, set, e, t)
    <3>1. StillForeseen(now, s, set)
      BY <1>7, <1>9, <1>10, <1>13, <1>14, <2>1, <2>3, AnsweredOutcome, Zenon
    <3> QED
      BY <3>1 DEF StillForeseen
  <2>5. \A e \in SoundElements, t \in MainTypes :
          Outcome(s.main, s.setting, s.queue, e, t) = Outcome(now.main, set, now.queue, e, t)
    BY <1>15, <2>4 DEF Outcome
  <2>6. SameOutcome(s, r)
    BY <1>10, <1>13, <1>15, <2>1, <2>4, IteratedOutcome, Zenon
  <2> QED
    BY <2>2, <2>5, <2>6 DEF LatestFits, SameOutcome
<1> QED
  BY <1>1, <1>11, <1>12, <1>13, <1>17, <1>18, <1>19, CarriedInv

\* An answer that nobody waits for is of an element that has strayed.
LEMMA LateAnswerTaken ==
    ASSUME SoundInv, NEW accepted \in BOOLEAN, TakeAnswer(accepted), Head(upward).handle # setting.handle
    PROVE  SoundInv'
<1>1. /\ orders \in Seq(OrderMessages) /\ upward \in Seq(UpMessages) /\ upward # <<>>
      /\ latest \in PropertyMaps(MainTypes) /\ playing \in PropertyMaps(MappedTypes)
      /\ disturbed \in BOOLEAN /\ Head(upward).handle # 0
      /\ FlightFits(orders, upward, setting, lastHandle, strayed)
      /\ SettingFits(setting, lastHandle)
      /\ Follows(mainProperty, upward, playing, strayed)
      /\ setting = AT_REST => propertyQueue = <<>>
      /\ ~disturbed => LatestFits(mainProperty, setting, propertyQueue, latest)
  BY DEF SoundInv, SoundShape, TakeAnswer
<1>2. PICK a : a = Head(upward)
  OBVIOUS
<1>3. a \in UpMessages /\ a.handle # 0 /\ a.element \in strayed
  <2>1. a \in UpMessages /\ a.handle # 0 /\ Belongs(a, setting, strayed)
    BY <1>1, <1>2, HeadAnswer
  <2> QED
    BY <1>2, <2>1 DEF Belongs
<1>4. PICK now : now = Now
  OBVIOUS
<1>5. /\ now \in SoundStates /\ now.main = mainProperty /\ now.queue = propertyQueue
      /\ now.setting = setting /\ now.orders = orders /\ now.handle = lastHandle
  BY <1>4, NowFacts
<1>6. PICK r, up : r = Iterated(now, accepted) /\ up = Tail(upward)
  OBVIOUS
<1>7. /\ Becomes(r) /\ upward' = up /\ strayed' = strayed /\ disturbed' = disturbed
      /\ playing' = playing /\ latest' = latest
  <2>1. Becomes(Iterated(Now, accepted)) /\ UNCHANGED <<strayed, disturbed>>
    BY Zenon DEF TakeAnswer
  <2>2. upward' = Tail(upward) /\ playing' = playing /\ latest' = latest
    BY DEF TakeAnswer
  <2> QED
    BY <1>4, <1>6, <2>1, <2>2
<1>8. up \in Seq(UpMessages)
  BY <1>1, <1>6
<1>9. FlightFits(now.orders, up, now.setting, now.handle, strayed)
  BY <1>1, <1>5, <1>6, TailFits
<1>10. Follows(now.main, up, playing, strayed)
  <2>1. \A e \in SoundElements \ strayed, t \in MappedTypes :
          mainProperty[e][t] = IF t \in DOMAIN Effect(Head(upward), e) THEN Effect(Head(upward), e)[t]
                               ELSE mainProperty[e][t]
    <3>1. \A e \in SoundElements \ strayed, t \in MappedTypes : t \notin DOMAIN Effect(a, e)
      BY <1>3, EffectsDomain
    <3> QED
      BY <1>2, <3>1
  <2>2. strayed \subseteq strayed
    OBVIOUS
  <2>3. Follows(mainProperty, Tail(upward), playing, strayed)
    BY <1>1, <2>1, <2>2, FollowsTaken
  <2> QED
    BY <1>5, <1>6, <2>3
<1>11. SettingFits(now.setting, now.handle)
  BY <1>1, <1>5
<1>12. Carried(r, up, playing, strayed)
  BY <1>5, <1>6, <1>8, <1>9, <1>10, <1>11, IteratedCarried
<1>13. ASSUME ~disturbed' PROVE LatestFits(r.main, r.setting, r.queue, latest)
  <2>1. LatestFits(now.main, now.setting, now.queue, latest)
    BY <1>1, <1>5, <1>7, <1>13
  <2>2. CASE now.setting # AT_REST
    <3>1. r = now
      BY <1>6, <2>2 DEF Iterated
    <3> QED
      BY <2>1, <3>1
  <2>3. CASE now.setting = AT_REST
    <3>1. now.queue = <<>>
      BY <1>1, <1>5, <2>3
    <3>2. /\ r.setting = AT_REST /\ r.queue = <<>>
          /\ \A e \in SoundElements, t \in MainTypes : r.main[e][t] = now.main[e][t]
      BY <1>5, <1>6, <2>3, <3>1, IteratedEmpty
    <3>3. ASSUME NEW e \in SoundElements, NEW t \in MainTypes
          PROVE  Outcome(r.main, r.setting, r.queue, e, t) = Outcome(now.main, now.setting, now.queue, e, t)
      <4>1. Foreseen(r.main, AT_REST, e, t) = Foreseen(now.main, AT_REST, e, t)
        <5>1. Foreseen(r.main, AT_REST, e, t) = r.main[e][t]
          BY AtRestForeseen
        <5>2. Foreseen(now.main, AT_REST, e, t) = now.main[e][t]
          BY AtRestForeseen
        <5> QED
          BY <3>2, <5>1, <5>2
      <4> QED
        BY <2>3, <3>1, <3>2, <4>1 DEF Outcome
    <3>4. r.setting.phase # "undoing"
      BY <3>2, RestFacts
    <3> QED
      BY <2>1, <3>3, <3>4 DEF LatestFits
  <2> QED
    BY <2>2, <2>3
<1> QED
  BY <1>1, <1>7, <1>8, <1>12, <1>13, CarriedInv

LEMMA TimesKeeps ==
    ASSUME SoundInv, NEW accepted \in BOOLEAN, Times(accepted)
    PROVE  SoundInv'
<1>1. /\ orders \in Seq(OrderMessages) /\ upward \in Seq(UpMessages)
      /\ latest \in PropertyMaps(MainTypes) /\ playing \in PropertyMaps(MappedTypes)
      /\ mainProperty \in PropertyMaps(MainTypes)
      /\ FlightFits(orders, upward, setting, lastHandle, strayed)
      /\ Follows(mainProperty, upward, playing, strayed)
  BY DEF SoundInv, SoundShape
<1>2. setting \in Settings /\ Placed(setting)
  BY DEF SoundInv, SoundShape, SettingFits, Times
<1>3. PICK done, set, st : done = FALSE /\ set = setting /\ st = strayed \cup {Target(setting)}
  OBVIOUS
<1>4. done \in BOOLEAN /\ ~done /\ set \in Settings /\ Placed(set) /\ strayed \subseteq st
      /\ Target(set) \in st
  BY <1>2, <1>3
<1>5. PICK now : now = Now
  OBVIOUS
<1>6. /\ now \in SoundStates /\ now.main = mainProperty /\ now.queue = propertyQueue
      /\ now.setting = setting /\ now.orders = orders /\ now.handle = lastHandle
  BY <1>5, NowFacts
<1>7. PICK s, r : s = SettingAnswered(now, set, done, accepted) /\ r = Iterated(s, accepted)
  OBVIOUS
<1>8. /\ Becomes(r) /\ strayed' = st /\ disturbed' = TRUE
      /\ upward' = upward /\ playing' = playing /\ latest' = latest
  <2>1. Becomes(Iterated(SettingAnswered(Now, setting, FALSE, accepted), accepted))
    BY Zenon DEF Times
  <2>2. Becomes(r)
    BY <1>3, <1>5, <1>7, <2>1, Zenon
  <2>3. strayed' = strayed \cup {Target(setting)} /\ disturbed' = TRUE
    BY Zenon DEF Times
  <2>4. upward' = upward /\ playing' = playing /\ latest' = latest
    BY Zenon DEF Times
  <2> QED
    BY <1>3, <2>2, <2>3, <2>4
<1>9. Lost(now.orders, upward, now.handle, st)
  <2>1. Apart(orders, upward)
    BY <1>1 DEF FlightFits
  <2>2. ASSUME NEW m \in Flying(orders, upward) PROVE m.handle <= lastHandle /\ m.element \in st
    <3>1. m.handle <= lastHandle /\ Belongs(m, setting, strayed)
      BY <1>1 DEF FlightFits
    <3> QED
      BY <1>3, <1>4, <3>1 DEF Belongs
  <2> QED
    BY <1>6, <2>1, <2>2 DEF Lost
<1>10. /\ s \in SoundStates /\ SettingFits(s.setting, s.handle)
       /\ FlightFits(s.orders, upward, s.setting, s.handle, st)
       /\ s.main = IF Writes(set, done) THEN WithValues(now.main, {Target(set)}, Current(set)) ELSE now.main
  <2>1. GoesOn(now, s, set, done, upward, st)
    BY <1>1, <1>4, <1>6, <1>7, <1>9, AnsweredFits, Zenon
  <2> QED
    BY <2>1 DEF GoesOn
<1>11. Follows(s.main, upward, playing, st)
  <2>1. ASSUME NEW e \in SoundElements \ st, NEW t \in MappedTypes PROVE s.main[e][t] = mainProperty[e][t]
    <3>1. t \in MainTypes /\ e # Target(set)
      BY <1>4, SoundPropertyAssumption
    <3>2. WithValues(mainProperty, {Target(set)}, Current(set))[e][t] = mainProperty[e][t]
      <4>1. Current(set) \in PropertyLists
        BY <1>4, CurrentFacts
      <4>2. \A x \in SoundElements, y \in MainTypes :
              WithValues(mainProperty, {Target(set)}, Current(set))[x][y] =
                IF x \in {Target(set)} /\ y \in TypesOf(Current(set)) THEN Values(Current(set))[y]
                ELSE mainProperty[x][y]
        BY <1>1, <4>1, WithValuesType
      <4> QED
        BY <3>1, <4>2
    <3> QED
      BY <1>6, <1>10, <3>2
  <2> QED
    BY <1>1, <1>4, <2>1 DEF Follows
<1>12. Carried(r, upward, playing, st)
  BY <1>1, <1>7, <1>10, <1>11, IteratedCarried
<1>13. disturbed' \in BOOLEAN /\ ~(~disturbed')
  BY <1>8
<1> QED
  BY <1>1, <1>8, <1>12, <1>13, CarriedInv

LEMMA SoundInitial == SoundInit => SoundInv
<1> SUFFICES ASSUME SoundInit PROVE SoundInv
  OBVIOUS
<1>1. LowValue \in Int /\ MappedTypes \subseteq MainTypes
  BY SoundPropertyAssumption
<1>2. /\ mainProperty = [e \in SoundElements |-> [t \in MainTypes |-> LowValue]]
      /\ playing = [e \in SoundElements |-> [t \in MappedTypes |-> LowValue]]
      /\ propertyQueue = <<>> /\ setting = AT_REST /\ orders = <<>> /\ upward = <<>>
      /\ lastHandle = 0 /\ latest = mainProperty /\ disturbed = FALSE /\ strayed = {}
  BY DEF SoundInit
<1>3. SoundShape
  <2>1. mainProperty \in PropertyMaps(MainTypes) /\ playing \in PropertyMaps(MappedTypes)
    BY <1>1, <1>2 DEF PropertyMaps
  <2>2. /\ propertyQueue \in Seq(PropertyTriggers) /\ orders \in Seq(OrderMessages)
        /\ upward \in Seq(UpMessages)
    BY <1>2
  <2>3. setting \in Settings \cup {AT_REST} /\ lastHandle \in Nat /\ disturbed \in BOOLEAN
    BY <1>2
  <2> QED
    BY <1>2, <2>1, <2>2, <2>3 DEF SoundShape
<1>4. SettingFits(setting, lastHandle)
  BY <1>2 DEF SettingFits
<1>5. FlightFits(orders, upward, setting, lastHandle, strayed)
  <2>1. DOMAIN orders = {} /\ DOMAIN upward = {}
    BY <1>2
  <2> QED
    BY <2>1 DEF FlightFits, Apart, Flying
<1>6. Follows(mainProperty, upward, playing, strayed)
  <2>1. ASSUME NEW e \in SoundElements \ strayed, NEW t \in MappedTypes
        PROVE  playing[e][t] = Overwritten(mainProperty[e][t], t, Effects(upward, e))
    <3>1. PICK w : w = Effects(upward, e)
      OBVIOUS
    <3>2. DOMAIN w = 1..0 /\ 0 \in Nat
      BY <1>2, <3>1 DEF Effects
    <3>3. NoneWrites(t, 0, w)
      BY <3>2 DEF NoneWrites
    <3>4. Overwritten(mainProperty[e][t], t, w) = mainProperty[e][t]
      BY <3>2, <3>3, OverwrittenNone
    <3>5. playing[e][t] = mainProperty[e][t]
      BY <1>1, <1>2
    <3> QED
      BY <3>1, <3>4, <3>5
  <2> QED
    BY <2>1 DEF Follows
<1>7. LatestFits(mainProperty, setting, propertyQueue, latest)
  <2>1. ASSUME NEW e \in SoundElements, NEW t \in MainTypes
        PROVE  latest[e][t] = Outcome(mainProperty, setting, propertyQueue, e, t)
    <3>1. Foreseen(mainProperty, AT_REST, e, t) = mainProperty[e][t]
      BY AtRestForeseen
    <3>2. Overwritten(Foreseen(mainProperty, AT_REST, e, t), t, AsksOf(<<>>, e)) =
            Foreseen(mainProperty, AT_REST, e, t)
      BY EmptyOutcome
    <3> QED
      BY <1>2, <3>1, <3>2 DEF Outcome
  <2> QED
    BY <1>2, <2>1, RestFacts DEF LatestFits
<1> QED
  BY <1>2, <1>3, <1>4, <1>5, <1>6, <1>7 DEF SoundInv

LEMMA SaturatedType ==
    ASSUME NEW v \in Int
    PROVE  Saturated(v) \in Int
<1>1. LowValue \in Int /\ HighValue \in Int
  BY SoundPropertyAssumption
<1>2. PICK low, high : low = LowValue /\ high = HighValue
  OBVIOUS
<1>3. Min({v, high}) \in {v, high}
  BY <1>1, <1>2 DEF Min
<1>4. PICK u : u = Min({v, high})
  OBVIOUS
<1>5. u \in Int
  BY <1>1, <1>2, <1>3, <1>4
<1>6. Max({low, u}) \in {low, u}
  BY <1>1, <1>2, <1>5 DEF Max
<1> QED
  BY <1>1, <1>2, <1>4, <1>5, <1>6 DEF Saturated

LEMMA AskedListsType == AskedLists \subseteq PropertyLists
<1>1. AskedProperties \subseteq Entries
  BY SoundPropertyAssumption DEF AskedProperties, Entries
<1>2. ASSUME NEW list \in AskedLists PROVE list \in PropertyLists
  <2>1. PICK a \in AskedProperties, b \in AskedProperties : list = <<a, b>>
    BY DEF AskedLists
  <2>2. a \in Entries /\ b \in Entries
    BY <1>1
  <2> QED
    BY <2>1, <2>2 DEF PropertyLists
<1> QED
  BY <1>2

LEMMA SoundStep == SoundInv /\ [SoundNext]_soundVars => SoundInv'
<1> SUFFICES ASSUME SoundInv, [SoundNext]_soundVars PROVE SoundInv'
  OBVIOUS
<1>0. AskedValues \subseteq Int /\ SoundSinks \subseteq SoundElements /\ SoundSources \subseteq SoundElements
  BY SoundPropertyAssumption DEF SoundElements
<1>1. ASSUME NEW t \in MainTypes, NEW v \in AskedValues
      PROVE  <<[type |-> t, value |-> Saturated(v)]>> \in PropertyLists
  <2>1. Saturated(v) \in Int
    BY <1>0, SaturatedType
  <2>2. [type |-> t, value |-> Saturated(v)] \in Entries
    BY <2>1 DEF Entries
  <2> QED
    BY <2>2 DEF PropertyLists
<1>2. ASSUME NEW k \in SoundSinks, NEW t \in MainTypes, NEW v \in AskedValues, UserSetSinkProperty(k, t, v)
      PROVE  SoundInv'
  BY <1>0, <1>1, <1>2, QueuesKeeps DEF UserSetSinkProperty
<1>3. ASSUME NEW s \in SoundSources, NEW t \in MainTypes, NEW v \in AskedValues,
             UserSetSourceProperty(s, t, v)
      PROVE  SoundInv'
  BY <1>0, <1>1, <1>3, QueuesKeeps DEF UserSetSourceProperty
<1>4. ASSUME NEW k \in SoundSinks, NEW list \in AskedLists, UserSetSinkProperties(k, list)
      PROVE  SoundInv'
  BY <1>0, <1>4, AskedListsType, QueuesKeeps DEF UserSetSinkProperties
<1>5. ASSUME NEW s \in SoundSources, NEW list \in AskedLists, UserSetSourceProperties(s, list)
      PROVE  SoundInv'
  BY <1>0, <1>5, AskedListsType, QueuesKeeps DEF UserSetSourceProperties
<1>6. ASSUME NEW done \in BOOLEAN, Answers(done) PROVE SoundInv'
  BY <1>6, AnswersKeeps
<1>7. ASSUME NEW e \in SoundElements, NEW t \in MappedTypes, NEW v \in PlayedValues, Reports(e, t, v)
      PROVE  SoundInv'
  BY <1>7, ReportsKeeps
<1>8. CASE TakeReport
  BY <1>8, TakeReportKeeps
<1>9. ASSUME NEW accepted \in BOOLEAN, TakeAnswer(accepted) PROVE SoundInv'
  BY <1>9, AnswerTaken, LateAnswerTaken
<1>10. ASSUME NEW accepted \in BOOLEAN, Times(accepted) PROVE SoundInv'
  BY <1>10, TimesKeeps
<1>11. CASE UNCHANGED soundVars
  BY <1>11 DEF soundVars, SoundInv, SoundShape
<1> QED
  BY <1>2, <1>3, <1>4, <1>5, <1>6, <1>7, <1>8, <1>9, <1>10, <1>11 DEF SoundNext

LEMMA SoundInvSuffices == SoundInv => PropertiesAgree
<1> SUFFICES ASSUME SoundInv, AllSet
             PROVE  /\ \A e \in SoundElements \ strayed, t \in MappedTypes :
                         mainProperty[e][t] = playing[e][t]
                    /\ ~disturbed => mainProperty = latest
  BY DEF PropertiesAgree
<1>1. setting = AT_REST /\ orders = <<>> /\ upward = <<>> /\ propertyQueue = <<>>
  BY DEF AllSet, SoundInv
<1>2. ASSUME NEW e \in SoundElements \ strayed, NEW t \in MappedTypes
      PROVE  mainProperty[e][t] = playing[e][t]
  <2>1. PICK w : w = Effects(upward, e)
    OBVIOUS
  <2>2. DOMAIN w = 1..0 /\ 0 \in Nat
    BY <1>1, <2>1 DEF Effects
  <2>3. NoneWrites(t, 0, w)
    BY <2>2 DEF NoneWrites
  <2>4. Overwritten(mainProperty[e][t], t, w) = mainProperty[e][t]
    BY <2>2, <2>3, OverwrittenNone
  <2> QED
    BY <2>1, <2>4 DEF SoundInv, Follows
<1>3. ASSUME ~disturbed PROVE mainProperty = latest
  <2>1. \A e \in SoundElements, t \in MainTypes :
          latest[e][t] = Outcome(mainProperty, AT_REST, <<>>, e, t)
    BY <1>1, <1>3 DEF SoundInv, LatestFits
  <2>2. \A e \in SoundElements, t \in MainTypes : latest[e][t] = mainProperty[e][t]
    <3>1. ASSUME NEW e \in SoundElements, NEW t \in MainTypes PROVE latest[e][t] = mainProperty[e][t]
      <4>1. Foreseen(mainProperty, AT_REST, e, t) = mainProperty[e][t]
        BY AtRestForeseen
      <4>2. Overwritten(Foreseen(mainProperty, AT_REST, e, t), t, AsksOf(<<>>, e)) =
              Foreseen(mainProperty, AT_REST, e, t)
        BY EmptyOutcome
      <4> QED
        BY <2>1, <4>1, <4>2 DEF Outcome
    <3> QED
      BY <3>1
  <2>3. mainProperty \in PropertyMaps(MainTypes) /\ latest \in PropertyMaps(MainTypes)
    BY DEF SoundInv, SoundShape
  <2>4. ASSUME NEW e \in SoundElements PROVE mainProperty[e] = latest[e]
    <3>1. mainProperty[e] \in [MainTypes -> Int] /\ latest[e] \in [MainTypes -> Int]
      BY <2>3 DEF PropertyMaps
    <3>2. \A t \in MainTypes : mainProperty[e][t] = latest[e][t]
      BY <2>2
    <3> QED
      BY <3>1, <3>2
  <2> QED
    BY <2>3, <2>4 DEF PropertyMaps
<1> QED
  BY <1>2, <1>3

\* Whatever is asked for, refused, taken back, given up and reported, in the end the database
\* has what is played, and, when nothing came between, what has been asked for last; for every
\* set of elements and types, every policy and any number of requests.
THEOREM PropertiesMeet == SoundSpec => []PropertiesAgree
<1>1. SoundInit => SoundInv
  BY SoundInitial
<1>2. SoundInv /\ [SoundNext]_soundVars => SoundInv'
  BY SoundStep
<1>3. SoundInv => PropertiesAgree
  BY SoundInvSuffices
<1> QED
  BY <1>1, <1>2, <1>3, PTL DEF SoundSpec
=============================================================================
