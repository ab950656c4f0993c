----------------------- MODULE SimpleController_proofs -----------------------
(***************************************************************************)
(* Theorems about the simple controller, for any sources, routes of one or *)
(* two segments, and any number of connections and of open requests.       *)
(***************************************************************************)
EXTENDS SimpleController, FiniteSetTheorems, WellFoundedInduction, TLAPS

Kinds == {"none", "other", "connect", "disconnect", "volume", "sound"}

MainRecords ==
    [source : Sources \cup {0}, state : {"CONNECTING", "CONNECTED", "NONE"}, segments : 0..2]

OpenLists == [main : Nat, open : SUBSET RequestHandles]

\* The type of the controller.
Controllers ==
    [mains : Seq(MainRecords), requests : [RequestHandles -> Kinds],
     connects : Seq(OpenLists), disconnects : Seq(OpenLists),
     volumes : Seq([handle : RequestHandles, volume : Volumes]), sounds : SUBSET RequestHandles,
     mainVolume : Volumes, flow : Flows \cup {"none"}, step : [Flows -> 1..10],
     old : Sources \cup {0}, current : Nat, new : Nat]

\* The requests whose answers take a flow further, and those of them that disconnect m.
Due(c) == {h \in RequestHandles : c.requests[h] \notin {"none", "sound"}}
ToDisconnect(c, m) ==
    UNION {c.disconnects[i].open : i \in {j \in DOMAIN c.disconnects : c.disconnects[j].main = m}}

\* The handles in the lists are those of disconnects that are not answered, each in one list.
ListsFit(c) ==
    /\ \A i \in DOMAIN c.disconnects : \A h \in c.disconnects[i].open : c.requests[h] = "disconnect"
    /\ \A i, j \in DOMAIN c.disconnects :
          i # j => c.disconnects[i].open \cap c.disconnects[j].open = {}
    /\ \A i \in DOMAIN c.disconnects : c.disconnects[i].main \in DOMAIN c.mains
    /\ \A i \in DOMAIN c.connects : c.connects[i].main \in DOMAIN c.mains

\* Main connection m is in the database and has a route, so to disconnect it asks for something.
HasRoute(c, m) == c.mains[m].source # 0 /\ c.mains[m].segments # 0

\* The flow will get the answer it needs if it disconnects m and that asks for nothing: before
\* an answer is taken (Spare), and after it (Ready).
Spare(c, m) ==
    IF HasRoute(c, m) THEN Due(c) \ ToDisconnect(c, m) # {} ELSE \E h, k \in Due(c) : h # k
Ready(c, m) == HasRoute(c, m) \/ Due(c) # {}

\* Players are replaced one by one: all of them but the last one are being disconnected, the
\* one the flow is about to disconnect apart.
PlayersFit(c) ==
    /\ \A m \in Players(c) :
          c.mains[m].segments = 0 => c.flow = "connect" /\ m = c.new /\ c.step["connect"] <= 4
    /\ \A m \in Players(c) :
          ToDisconnect(c, m) = {} =>
              \/ \A n \in Players(c) : n <= m
              \/ c.flow = "connect" /\ m = c.current /\ c.step["connect"] <= 3

\* What both flows rely on: the main connection they are about.
ConnectFits(c) ==
    /\ c.new \in DOMAIN c.mains /\ c.new = Len(c.mains)
    /\ c.mains[c.new].source # 0 /\ ClassOf[c.mains[c.new].source] = 1
    /\ ToDisconnect(c, c.new) = {}
    /\ c.step["connect"] <= 3 => c.old # 0 /\ c.current \in DOMAIN c.mains /\ c.current # c.new
    /\ c.step["connect"] <= 4 => c.mains[c.new].segments = 0

AnnouncementFits(c) ==
    /\ c.new \in DOMAIN c.mains
    /\ c.mains[c.new].source # 0 => ClassOf[c.mains[c.new].source] # 1
    /\ c.step[c.flow] <= 5 => c.mains[c.new].source # 0 /\ ToDisconnect(c, c.new) = {}
    /\ c.step[c.flow] \in 3..5 => c.mains[c.new].segments # 0

\* An announcement's flow is in its first step or, once it was used, in its last one.
Rested(c) == \A f \in {"navi", "ta"} : c.flow # f => c.step[f] \in {1, 10}

\* The invariant: between two requests or answers ...
SimpleInv(c) ==
    /\ ListsFit(c) /\ PlayersFit(c) /\ Rested(c)
    /\ c.flow = "connect" =>
          /\ ConnectFits(c) /\ c.step["connect"] \in 2..7 /\ Due(c) # {}
          /\ c.step["connect"] <= 3 => Spare(c, c.current)
    /\ c.flow \in {"navi", "ta"} =>
          /\ AnnouncementFits(c) /\ c.step[c.flow] \in 2..10
          /\ c.step[c.flow] = 6 => HasRoute(c, c.new) /\ ToDisconnect(c, c.new) = {}
          /\ c.old # 0 /\ c.step[c.flow] # 6 => Due(c) # {}
          /\ c.old # 0 /\ c.step[c.flow] \in 7..9 => Spare(c, c.new)

\* ... and when the flow is about to go a step.
BeforeStep(c) ==
    /\ ListsFit(c) /\ PlayersFit(c) /\ Rested(c)
    /\ c.flow = "connect" =>
          /\ ConnectFits(c) /\ c.step["connect"] \in 1..7
          /\ c.step["connect"] <= 3 => Ready(c, c.current)
    /\ c.flow \in {"navi", "ta"} =>
          /\ AnnouncementFits(c)
          /\ c.old # 0 /\ c.step[c.flow] \in 6..9 => Ready(c, c.new)

-----------------------------------------------------------------------------
(* Sets of handles and lists *)

LEMMA LeastOf ==
    ASSUME NEW S, S \subseteq Nat, S # {}
    PROVE  /\ \E x \in S : \A y \in S : x <= y
           /\ (CHOOSE x \in S : \A y \in S : x <= y) \in S
           /\ \A y \in S : (CHOOSE x \in S : \A z \in S : x <= z) <= y
<1>1. PICK x \in S : \A y \in S : ~(<<y, x>> \in OpToRel(<, Nat))
  BY NatLessThanWellFounded, WFMin
<1>2. ASSUME NEW y \in S PROVE ~(y < x)
  <2>1. y \in Nat /\ x \in Nat /\ <<y, x>> \in Nat \X Nat
    OBVIOUS
  <2> QED
    BY <1>1, <2>1, Zenon DEF OpToRel
<1>3. \A y \in S : x <= y
  BY <1>2
<1> QED
  BY <1>3, Zenon

LEMMA FirstOfFacts ==
    ASSUME NEW S, S \subseteq Nat, S # {}
    PROVE  FirstOf(S) \in S
BY LeastOf DEF FirstOf

LEMMA NextHandleFacts ==
    ASSUME NEW c \in Controllers, FreeHandles(c) # {}
    PROVE  NextHandle(c) \in FreeHandles(c)
<1>1. FreeHandles(c) \subseteq Nat
  BY SimpleAssumption DEF FreeHandles
<1> QED
  BY <1>1, LeastOf DEF NextHandle

\* Where there is room for n <= 2 requests, the n lowest handles can be had.
LEMMA NextHandlesFacts ==
    ASSUME NEW c \in Controllers, NEW n \in 0..2,
           \E h, k \in FreeHandles(c) : h # k
    PROVE  /\ NextHandles(c, n) \subseteq FreeHandles(c)
           /\ n = 0 <=> NextHandles(c, n) = {}
<1> DEFINE F == FreeHandles(c)
           Fits(H) == Cardinality(H) = n /\ \A h \in H, k \in F \ H : h < k
<1>1. F \subseteq Nat /\ IsFiniteSet(F) /\ F # {}
  <2>1. F \in SUBSET RequestHandles
    BY DEF FreeHandles
  <2> QED
    BY <2>1, SimpleAssumption, FS_Subset
<1>2. PICK a \in F : \A y \in F : a <= y
  BY <1>1, LeastOf
<1>3. PICK b \in F \ {a} : \A y \in F \ {a} : b <= y
  <2>1. F \ {a} \subseteq Nat /\ F \ {a} # {}
    BY <1>1
  <2> QED
    BY <2>1, LeastOf
<1>4. \E H \in SUBSET F : Fits(H)
  <2>1. CASE n = 0
    <3>1. Cardinality({}) = 0
      BY FS_EmptySet
    <3> QED
      BY <2>1, <3>1
  <2>2. CASE n = 1
    <3>1. Cardinality({a}) = 1
      BY FS_Singleton
    <3>2. \A k \in F \ {a} : a < k
      BY <1>1, <1>2
    <3>3. Fits({a})
      BY <2>2, <3>1, <3>2
    <3> QED
      BY <3>3
  <2>3. CASE n = 2
    <3>1. Cardinality({a}) = 1 /\ IsFiniteSet({a})
      BY FS_Singleton
    <3>2. Cardinality({a} \cup {b}) = 2
      <4>1. Cardinality({a} \cup {b}) = IF b \in {a} THEN Cardinality({a}) ELSE Cardinality({a}) + 1
        BY <3>1, FS_AddElement, Zenon
      <4> QED
        BY <1>3, <3>1, <4>1
    <3>3. \A h \in {a} \cup {b}, k \in F \ ({a} \cup {b}) : h < k
      <4> SUFFICES ASSUME NEW h \in {a} \cup {b}, NEW k \in F \ ({a} \cup {b}) PROVE h < k
        OBVIOUS
      <4>1. h \in Nat /\ k \in Nat /\ h <= k /\ h # k
        BY <1>1, <1>2, <1>3
      <4> QED
        BY <4>1
    <3>4. Fits({a} \cup {b})
      BY <2>3, <3>2, <3>3
    <3> QED
      BY <1>3, <3>4
  <2> QED
    BY <2>1, <2>2, <2>3
<1>5. NextHandles(c, n) \in SUBSET F /\ Fits(NextHandles(c, n))
  BY <1>4, Zenon DEF NextHandles
<1>6. n = 0 <=> NextHandles(c, n) = {}
  <2>1. IsFiniteSet(NextHandles(c, n))
    BY <1>1, <1>5, FS_Subset
  <2>2. Cardinality(NextHandles(c, n)) = 0 <=> NextHandles(c, n) = {}
    BY <2>1, FS_EmptySet
  <2> QED
    BY <1>5, <2>2
<1> QED
  BY <1>5, <1>6

LEMMA TwoAreFree ==
    ASSUME Room(2), sc \in Controllers
    PROVE  \E h, k \in FreeHandles(sc) : h # k
<1> DEFINE F == FreeHandles(sc)
<1>1. IsFiniteSet(F)
  <2>1. F \in SUBSET RequestHandles
    BY DEF FreeHandles
  <2> QED
    BY <2>1, SimpleAssumption, FS_Subset
<1>2. Cardinality(F) >= 2
  BY DEF Room
<1>3. F # {}
  BY <1>2, FS_EmptySet
<1>4. PICK h \in F : TRUE
  BY <1>3
<1>5. ~(\A k \in F : k = h)
  <2>1. ASSUME \A k \in F : k = h PROVE FALSE
    <3>1. F = {h}
      BY <2>1, <1>4
    <3> QED
      BY <1>2, <3>1, FS_Singleton
  <2> QED
    BY <2>1
<1> QED
  BY <1>4, <1>5

LEMMA OneIsFree ==
    ASSUME Room(1), sc \in Controllers
    PROVE  FreeHandles(sc) # {}
BY FS_EmptySet DEF Room

-----------------------------------------------------------------------------
(* The calls of the routing side *)

RestSame(c, d) ==
    /\ d.mains = c.mains /\ d.connects = c.connects /\ d.disconnects = c.disconnects
    /\ d.flow = c.flow /\ d.step = c.step
    /\ d.old = c.old /\ d.current = c.current /\ d.new = c.new

LEMMA ListsTyped ==
    ASSUME NEW lists \in Seq(OpenLists)
    PROVE  \A i \in DOMAIN lists :
              i \in Nat /\ lists[i] \in OpenLists /\ lists[i].open \subseteq RequestHandles /\ lists[i].main \in Nat
<1>1. \A i \in DOMAIN lists : i \in Nat /\ lists[i] \in OpenLists
  OBVIOUS
<1> QED
  BY <1>1 DEF OpenLists

LEMMA ToDisconnectFacts ==
    ASSUME NEW c \in Controllers, NEW m, ListsFit(c)
    PROVE  /\ ToDisconnect(c, m) \subseteq Due(c)
           /\ \A h \in ToDisconnect(c, m) : c.requests[h] = "disconnect"
           /\ \A h : h \in ToDisconnect(c, m) <=>
                 \E i \in DOMAIN c.disconnects : c.disconnects[i].main = m /\ h \in c.disconnects[i].open
<1>1. \A h : h \in ToDisconnect(c, m) <=>
                 \E i \in DOMAIN c.disconnects : c.disconnects[i].main = m /\ h \in c.disconnects[i].open
  BY DEF ToDisconnect
<1>2. c.disconnects \in Seq(OpenLists)
  BY DEF Controllers
<1>3. \A i \in DOMAIN c.disconnects : c.disconnects[i].open \subseteq RequestHandles
  BY <1>2, ListsTyped
<1> QED
  BY <1>1, <1>3 DEF ListsFit, Due

LEMMA AskedFacts ==
    ASSUME NEW c \in Controllers, FreeHandles(c) # {}, NEW kind \in Kinds \ {"none", "disconnect"}
    PROVE  /\ Asked(c, kind) \in Controllers /\ RestSame(c, Asked(c, kind))
           /\ NextHandle(c) \in RequestHandles /\ c.requests[NextHandle(c)] = "none"
           /\ Asked(c, kind).requests = [c.requests EXCEPT ![NextHandle(c)] = kind]
           /\ Due(c) \subseteq Due(Asked(c, kind))
           /\ ListsFit(c) =>
                 /\ ListsFit(Asked(c, kind))
                 /\ kind # "sound" =>
                       \E h \in Due(Asked(c, kind)) \ Due(c) : \A m : h \notin ToDisconnect(c, m)
<1> DEFINE h == NextHandle(c)
           d == Asked(c, kind)
<1>1. h \in RequestHandles /\ c.requests[h] = "none"
  BY NextHandleFacts DEF FreeHandles
<1>2. d = [c EXCEPT !.requests = [c.requests EXCEPT ![h] = kind]]
  BY DEF Asked, Controllers
<1>3. /\ d \in Controllers /\ RestSame(c, d)
      /\ d.requests = [c.requests EXCEPT ![h] = kind]
  <2>1. PICK r : r = [c.requests EXCEPT ![h] = kind]
    OBVIOUS
  <2>2. r \in [RequestHandles -> Kinds]
    BY <2>1 DEF Controllers
  <2> QED
    BY <1>2, <2>1, <2>2 DEF Controllers, RestSame
<1>4. \A k \in RequestHandles : d.requests[k] = IF k = h THEN kind ELSE c.requests[k]
  BY <1>1, <1>3 DEF Controllers
<1>5. Due(c) \subseteq Due(d)
  BY <1>1, <1>4 DEF Due
<1>6. ASSUME ListsFit(c)
      PROVE  /\ ListsFit(d)
             /\ kind # "sound" => \E k \in Due(d) \ Due(c) : \A m : k \notin ToDisconnect(c, m)
  <2>1. c.disconnects \in Seq(OpenLists)
    BY DEF Controllers
  <2>2. \A i \in DOMAIN c.disconnects : c.disconnects[i].open \subseteq RequestHandles
    BY <2>1, ListsTyped
  <2>3. ListsFit(d)
    BY <1>1, <1>3, <1>4, <1>6, <2>2 DEF ListsFit, RestSame
  <2>4. h \notin Due(c) /\ \A m : h \notin ToDisconnect(c, m)
    BY <1>1, <1>6, ToDisconnectFacts DEF Due
  <2>5. kind # "sound" => h \in Due(d)
    BY <1>1, <1>4 DEF Due
  <2> QED
    BY <2>3, <2>4, <2>5
<1> QED
  BY <1>1, <1>3, <1>5, <1>6

\* The calls for a route: the handles they take are the kind's from then on.
LEMMA AskedForAllFacts ==
    ASSUME NEW c \in Controllers, NEW H \in SUBSET FreeHandles(c), NEW kind \in Kinds
    PROVE  LET d == AskedForAll(c, kind, H) IN
           /\ d \in Controllers /\ RestSame(c, d)
           /\ \A k \in RequestHandles : d.requests[k] = IF k \in H THEN kind ELSE c.requests[k]
BY DEF AskedForAll, Controllers, RestSame

LEMMA AppendedList ==
    ASSUME NEW lists \in Seq(OpenLists), NEW new \in OpenLists
    PROVE  /\ Append(lists, new) \in Seq(OpenLists)
           /\ DOMAIN lists = 1..Len(lists) /\ Len(lists) \in Nat
           /\ DOMAIN Append(lists, new) = DOMAIN lists \cup {Len(lists) + 1}
           /\ Append(lists, new)[Len(lists) + 1] = new
           /\ \A i \in DOMAIN lists : Append(lists, new)[i] = lists[i] /\ i # Len(lists) + 1
OBVIOUS

LEMMA DisconnectFacts ==
    ASSUME NEW c \in Controllers, ListsFit(c), NEW m \in DOMAIN c.mains,
           \E h, k \in FreeHandles(c) : h # k
    PROVE  LET d == Disconnect(c, m) IN
           /\ d \in Controllers /\ ListsFit(d)
           /\ d.mains = c.mains /\ d.flow = c.flow /\ d.step = c.step
           /\ d.old = c.old /\ d.current = c.current /\ d.new = c.new
           /\ Due(c) \subseteq Due(d)
           /\ \A n : ToDisconnect(c, n) \subseteq ToDisconnect(d, n)
           /\ \A n : n # m => ToDisconnect(d, n) = ToDisconnect(c, n)
           /\ HasRoute(c, m) => Due(d) # {} /\ ToDisconnect(d, m) # {}
<1>0. c.mains \in Seq(MainRecords) /\ m \in Nat /\ m # 0 /\ c.disconnects \in Seq(OpenLists)
  BY DEF Controllers
<1>1. CASE c.mains[m].source = 0
  BY <1>0, <1>1 DEF Disconnect, HasRoute
<1>2. CASE c.mains[m].source # 0
  <2> DEFINE n == c.mains[m].segments
             open == NextHandles(c, n)
             e == AskedForAll(c, "disconnect", open)
             new == [main |-> m, open |-> open]
             d == Disconnect(c, m)
  <2>1. n \in 0..2
    <3>1. c.mains[m] \in MainRecords
      BY <1>0
    <3> QED
      BY <3>1 DEF MainRecords
  <2>2. open \in SUBSET FreeHandles(c) /\ (n = 0 <=> open = {})
    BY <2>1, NextHandlesFacts
  <2>3. new \in OpenLists /\ open \subseteq RequestHandles /\ \A h \in open : c.requests[h] = "none"
    BY <1>0, <2>2 DEF OpenLists, FreeHandles
  <2>4. /\ e \in Controllers /\ RestSame(c, e)
        /\ \A k \in RequestHandles : e.requests[k] = IF k \in open THEN "disconnect" ELSE c.requests[k]
    BY <2>2, AskedForAllFacts DEF Kinds
  <2>5. d = [e EXCEPT !.disconnects = Append(c.disconnects, new)]
    BY <1>0, <1>2, <2>4 DEF Disconnect, RestSame
  <2>6. PICK lists : lists = Append(c.disconnects, new)
    OBVIOUS
  <2>7. PICK last : last = Len(c.disconnects) + 1
    OBVIOUS
  <2>8. /\ lists \in Seq(OpenLists)
        /\ DOMAIN lists = DOMAIN c.disconnects \cup {last} /\ lists[last] = new
        /\ \A i \in DOMAIN c.disconnects : lists[i] = c.disconnects[i] /\ i # last
    BY <1>0, <2>3, <2>6, <2>7, AppendedList
  <2>9. /\ d \in Controllers /\ d.disconnects = lists /\ d.requests = e.requests
        /\ d.mains = c.mains /\ d.flow = c.flow /\ d.step = c.step /\ d.connects = c.connects
        /\ d.old = c.old /\ d.current = c.current /\ d.new = c.new
    BY <2>4, <2>5, <2>6, <2>8 DEF Controllers, RestSame
  <2>10. \A i \in DOMAIN c.disconnects : c.disconnects[i].open \subseteq RequestHandles
    BY <1>0, ListsTyped
  <2>11. new.main = m /\ new.open = open
    OBVIOUS
  <2> HIDE DEF new, e, d, n, open
  <2>12. ListsFit(d)
    <3>1. \A i \in DOMAIN lists : \A h \in lists[i].open : e.requests[h] = "disconnect"
      BY <2>3, <2>4, <2>8, <2>10, <2>11 DEF ListsFit
    <3>2. \A i, j \in DOMAIN lists : i # j => lists[i].open \cap lists[j].open = {}
      <4>1. \A i \in DOMAIN c.disconnects : c.disconnects[i].open \cap open = {}
        BY <2>3 DEF ListsFit
      <4> QED
        BY <2>8, <2>11, <4>1 DEF ListsFit
    <3>3. \A i \in DOMAIN lists : lists[i].main \in DOMAIN c.mains
      BY <2>8, <2>11 DEF ListsFit
    <3> QED
      BY <2>9, <3>1, <3>2, <3>3 DEF ListsFit
  <2>13. Due(c) \subseteq Due(d) /\ open \subseteq Due(d)
    BY <2>3, <2>4, <2>9 DEF Due
  <2>14. \A k : /\ ToDisconnect(c, k) \subseteq ToDisconnect(d, k)
                /\ k # m => ToDisconnect(d, k) = ToDisconnect(c, k)
                /\ k = m => open \subseteq ToDisconnect(d, k)
    <3> SUFFICES ASSUME NEW k
                 PROVE  /\ ToDisconnect(c, k) \subseteq ToDisconnect(d, k)
                        /\ k # m => ToDisconnect(d, k) = ToDisconnect(c, k)
                        /\ k = m => open \subseteq ToDisconnect(d, k)
      OBVIOUS
    <3>1. \A h : h \in ToDisconnect(c, k) <=>
                 \E i \in DOMAIN c.disconnects : c.disconnects[i].main = k /\ h \in c.disconnects[i].open
      BY ToDisconnectFacts
    <3>2. \A h : h \in ToDisconnect(d, k) <=>
                 \E i \in DOMAIN lists : lists[i].main = k /\ h \in lists[i].open
      BY <2>9, <2>12, ToDisconnectFacts
    <3> QED
      BY <2>8, <2>11, <3>1, <3>2
  <2>15. HasRoute(c, m) => open # {}
    BY <2>2 DEF HasRoute, n
  <2> QED
    BY <2>9, <2>12, <2>13, <2>14, <2>15 DEF d
<1> QED
  BY <1>1, <1>2

LEMMA ConnectFacts ==
    ASSUME NEW c \in Controllers, ListsFit(c), c.new \in DOMAIN c.mains, c.mains[c.new].source # 0,
           \E h, k \in FreeHandles(c) : h # k
    PROVE  LET d == Connect(c) IN
           /\ d \in Controllers /\ ListsFit(d)
           /\ \E n \in 1..2 : d.mains = [c.mains EXCEPT ![c.new] = [@ EXCEPT !.segments = n]]
           /\ d.disconnects = c.disconnects /\ d.flow = c.flow /\ d.step = c.step
           /\ d.old = c.old /\ d.current = c.current /\ d.new = c.new
           /\ Due(d) # {} /\ Due(c) \subseteq Due(d)
<1> DEFINE m == c.new
           n == SegmentsOf[c.mains[m].source]
           open == NextHandles(c, n)
           e == AskedForAll(c, "connect", open)
           new == [main |-> m, open |-> open]
           d == Connect(c)
<1>0. c.mains \in Seq(MainRecords) /\ m \in Nat /\ c.connects \in Seq(OpenLists) /\ c.disconnects \in Seq(OpenLists)
  BY DEF Controllers
<1>1. n \in 1..2
  <2>1. c.mains[m] \in MainRecords
    BY <1>0
  <2> QED
    BY <2>1, SimpleAssumption DEF MainRecords
<1>2. open \in SUBSET FreeHandles(c) /\ open # {}
  BY <1>1, NextHandlesFacts
<1>3. new \in OpenLists /\ open \subseteq RequestHandles /\ \A h \in open : c.requests[h] = "none"
  BY <1>0, <1>2 DEF OpenLists, FreeHandles
<1>4. /\ e \in Controllers /\ RestSame(c, e)
      /\ \A k \in RequestHandles : e.requests[k] = IF k \in open THEN "connect" ELSE c.requests[k]
  BY <1>2, AskedForAllFacts DEF Kinds
<1>5. PICK lists : lists = Append(c.connects, new)
  OBVIOUS
<1>6. PICK mains : mains = [c.mains EXCEPT ![m] = [@ EXCEPT !.segments = n]]
  OBVIOUS
<1>7. d = [e EXCEPT !.connects = lists, !.mains = mains]
  BY <1>0, <1>4, <1>5, <1>6 DEF Connect, RestSame, Controllers
<1>8. /\ lists \in Seq(OpenLists)
      /\ \A i \in DOMAIN lists : lists[i] = new \/ \E j \in DOMAIN c.connects : lists[i] = c.connects[j]
  BY <1>0, <1>3, <1>5, AppendedList
<1>9. mains \in Seq(MainRecords) /\ DOMAIN mains = DOMAIN c.mains
  <2>1. c.mains[m] \in MainRecords
    BY <1>0
  <2>2. [c.mains[m] EXCEPT !.segments = n] \in MainRecords
    BY <1>1, <2>1 DEF MainRecords
  <2> QED
    BY <1>0, <1>6, <2>2
<1>10. /\ d \in Controllers /\ d.disconnects = c.disconnects /\ d.requests = e.requests
       /\ d.mains = mains /\ d.flow = c.flow /\ d.step = c.step /\ d.connects = lists
       /\ d.old = c.old /\ d.current = c.current /\ d.new = c.new
  BY <1>4, <1>7, <1>8, <1>9 DEF Controllers, RestSame
<1>11. \A i \in DOMAIN c.disconnects : c.disconnects[i].open \subseteq RequestHandles
  BY <1>0, ListsTyped
<1>12. new.main = m /\ new.open = open
  OBVIOUS
<1> HIDE DEF new, e, d, n, open
<1>13. ListsFit(d)
  <2>1. \A i \in DOMAIN c.disconnects : \A h \in c.disconnects[i].open : e.requests[h] = "disconnect"
    BY <1>3, <1>4, <1>11 DEF ListsFit
  <2>2. \A i \in DOMAIN lists : lists[i].main \in DOMAIN c.mains
    BY <1>8, <1>12 DEF ListsFit
  <2> QED
    BY <1>9, <1>10, <2>1, <2>2 DEF ListsFit
<1>14. Due(c) \subseteq Due(d) /\ Due(d) # {}
  BY <1>2, <1>3, <1>4, <1>10 DEF Due
<1> QED
  BY <1>1, <1>6, <1>10, <1>13, <1>14 DEF d

-----------------------------------------------------------------------------
(* A step of a flow *)

LEMMA StepsOfFlows ==
    /\ FlowSteps["connect"][1] = "ask" /\ FlowSteps["connect"][2] = "askOld"
    /\ FlowSteps["connect"][3] = "disconnectCurrent" /\ FlowSteps["connect"][4] = "connect"
    /\ FlowSteps["connect"][5] = "ask" /\ FlowSteps["connect"][6] = "rampUp"
    /\ FlowSteps["connect"][7] = "finish"
    /\ \A f \in {"navi", "ta"} :
          /\ FlowSteps[f][1] = "askOld" /\ FlowSteps[f][2] = "connect"
          /\ FlowSteps[f][3] = "ask" /\ FlowSteps[f][4] = "ask" /\ FlowSteps[f][5] = "wait"
          /\ FlowSteps[f][6] = "ask" /\ FlowSteps[f][7] = "askOld" /\ FlowSteps[f][8] = "ask"
          /\ FlowSteps[f][9] = "disconnectNew" /\ FlowSteps[f][10] = "finish"
BY DEF FlowSteps, Announcement

LEMMA GoesFacts ==
    ASSUME NEW c \in Controllers, c.flow # "none", c.step[c.flow] < 10
    PROVE  /\ Goes(c) \in Controllers
           /\ Goes(c).step[c.flow] = c.step[c.flow] + 1
           /\ \A f \in Flows : f # c.flow => Goes(c).step[f] = c.step[f]
           /\ Goes(c).mains = c.mains /\ Goes(c).requests = c.requests
           /\ Goes(c).connects = c.connects /\ Goes(c).disconnects = c.disconnects
           /\ Goes(c).flow = c.flow /\ Goes(c).old = c.old
           /\ Goes(c).current = c.current /\ Goes(c).new = c.new
<1>1. c.step \in [Flows -> 1..10] /\ c.flow \in Flows
  BY DEF Controllers
<1>2. PICK t : t = [c.step EXCEPT ![c.flow] = @ + 1]
  OBVIOUS
<1>3. t \in [Flows -> 1..10] /\ t[c.flow] = c.step[c.flow] + 1 /\ \A f \in Flows : f # c.flow => t[f] = c.step[f]
  <2>1. c.step[c.flow] \in 1..10
    BY <1>1
  <2>2. c.step[c.flow] + 1 \in 1..10
    BY <2>1
  <2> QED
    BY <1>1, <1>2, <2>2
<1>4. Goes(c) = [c EXCEPT !.step = t]
  BY <1>2 DEF Goes, Controllers
<1> QED
  BY <1>3, <1>4 DEF Controllers

\* What the controller is after a step that leaves main connections and disconnects alone.
SameLists(c, d) ==
    /\ d.mains = c.mains /\ d.disconnects = c.disconnects
    /\ d.flow = c.flow /\ d.old = c.old /\ d.current = c.current /\ d.new = c.new

LEMMA SameListsFacts ==
    ASSUME NEW c, NEW d, SameLists(c, d)
    PROVE  /\ Players(d) = Players(c)
           /\ \A m : ToDisconnect(d, m) = ToDisconnect(c, m)
           /\ \A m : HasRoute(d, m) = HasRoute(c, m)
BY DEF SameLists, Players, ToDisconnect, HasRoute

LEMMA RestedStays ==
    ASSUME NEW c, NEW d, Rested(c), d.flow = c.flow,
           \A f \in Flows : f # c.flow => d.step[f] = c.step[f]
    PROVE  Rested(d)
BY DEF Rested, Flows

\* A step that asks for a volume or a source state.
LEMMA AskStep ==
    ASSUME NEW c \in Controllers, BeforeStep(c), c.flow # "none", FreeHandles(c) # {},
           \/ FlowSteps[c.flow][c.step[c.flow]] = "ask"
           \/ FlowSteps[c.flow][c.step[c.flow]] = "askOld"
    PROVE  Goes(Asked(c, "other")) \in Controllers /\ SimpleInv(Goes(Asked(c, "other")))
<1>0. /\ ListsFit(c) /\ PlayersFit(c) /\ Rested(c)
      /\ c.flow = "connect" =>
            /\ ConnectFits(c) /\ c.step["connect"] \in 1..7
            /\ c.step["connect"] <= 3 => Ready(c, c.current)
      /\ c.flow \in {"navi", "ta"} =>
            /\ AnnouncementFits(c)
            /\ c.old # 0 /\ c.step[c.flow] \in 6..9 => Ready(c, c.new)
  BY DEF BeforeStep
<1>1. c.flow \in Flows /\ c.step \in [Flows -> 1..10] /\ c.step[c.flow] \in 1..10
  BY DEF Controllers
<1>2. \/ c.flow = "connect" /\ c.step[c.flow] \in {1, 2, 5}
      \/ c.flow \in {"navi", "ta"} /\ c.step[c.flow] \in {1, 3, 4, 6, 7, 8}
  <2>1. CASE c.flow = "connect"
    <3>1. c.step[c.flow] \in {1, 2, 3, 4, 5, 6, 7}
      BY <1>0, <2>1
    <3> QED
      BY <2>1, <3>1, StepsOfFlows
  <2>2. CASE c.flow \in {"navi", "ta"}
    <3>1. c.step[c.flow] \in {1, 2, 3, 4, 5, 6, 7, 8, 9, 10}
      BY <1>1
    <3> QED
      BY <2>2, <3>1, StepsOfFlows
  <2> QED
    BY <1>1, <2>1, <2>2 DEF Flows
<1>3. PICK e : e = Asked(c, "other")
  OBVIOUS
<1>4. /\ e \in Controllers /\ RestSame(c, e) /\ Due(c) \subseteq Due(e) /\ ListsFit(e)
      /\ \E h \in Due(e) \ Due(c) : \A m : h \notin ToDisconnect(c, m)
  BY <1>0, <1>3, AskedFacts DEF Kinds
<1>5. PICK d : d = Goes(e)
  OBVIOUS
<1>6. /\ d \in Controllers /\ SameLists(c, d) /\ d.requests = e.requests /\ d.connects = e.connects
      /\ d.step[c.flow] = c.step[c.flow] + 1
      /\ \A f \in Flows : f # c.flow => d.step[f] = c.step[f]
  BY <1>2, <1>4, <1>5, GoesFacts DEF RestSame, SameLists
<1>20. Rested(d)
  BY <1>0, <1>6, RestedStays DEF SameLists
<1>7. ListsFit(d)
  BY <1>4, <1>6 DEF ListsFit, SameLists, RestSame
<1>8. /\ Due(c) \subseteq Due(d)
      /\ \E h \in Due(d) \ Due(c) : \A m : h \notin ToDisconnect(c, m)
  BY <1>4, <1>6 DEF Due
<1>9. \A m : Ready(c, m) => Spare(d, m)
  BY <1>6, <1>8, SameListsFacts DEF Ready, Spare
<1>10. CASE c.flow = "connect" /\ c.step[c.flow] \in {1, 2, 5}
  <2>1. PlayersFit(d)
    BY <1>0, <1>6, <1>10, SameListsFacts DEF PlayersFit, SameLists
  <2>2. ConnectFits(d)
    BY <1>0, <1>6, <1>10, SameListsFacts DEF ConnectFits, SameLists
  <2>3. d.flow = "connect" /\ d.step["connect"] \in {2, 3, 6} /\ (d.step["connect"] <= 3 => c.step["connect"] <= 3)
    BY <1>6, <1>10 DEF SameLists
  <2>4. d.step["connect"] <= 3 => Spare(d, d.current)
    BY <1>0, <1>6, <1>9, <1>10, <2>3 DEF SameLists
  <2> QED
    BY <1>3, <1>5, <1>6, <1>7, <1>8, <2>1, <2>2, <2>3, <2>4, <1>20 DEF SimpleInv
<1>11. CASE c.flow \in {"navi", "ta"} /\ c.step[c.flow] \in {1, 3, 4, 6, 7, 8}
  <2>1. PlayersFit(d)
    BY <1>0, <1>6, <1>11, SameListsFacts DEF PlayersFit, SameLists
  <2>2. d.flow \in {"navi", "ta"} /\ d.step[d.flow] = c.step[c.flow] + 1 /\ d.step[d.flow] \in {2, 4, 5, 7, 8, 9}
    BY <1>6, <1>11 DEF SameLists
  <2>3. AnnouncementFits(d)
    BY <1>0, <1>6, <1>11, <2>2, SameListsFacts DEF AnnouncementFits, SameLists
  <2>4. d.old # 0 /\ d.step[d.flow] \in 7..9 => Spare(d, d.new)
    BY <1>0, <1>6, <1>9, <1>11, <2>2 DEF SameLists
  <2> QED
    BY <1>3, <1>5, <1>6, <1>7, <1>8, <2>1, <2>2, <2>3, <2>4, <1>20 DEF SimpleInv
<1> QED
  BY <1>2, <1>10, <1>11

\* A step that does nothing, or would ask for source 0.
LEMMA IdleStep ==
    ASSUME NEW c \in Controllers, BeforeStep(c), c.flow # "none",
           \/ FlowSteps[c.flow][c.step[c.flow]] = "wait"
           \/ FlowSteps[c.flow][c.step[c.flow]] = "askOld" /\ c.old = 0
    PROVE  Goes(c) \in Controllers /\ SimpleInv(Goes(c))
<1>0. /\ ListsFit(c) /\ PlayersFit(c) /\ Rested(c)
      /\ c.flow = "connect" => ConnectFits(c) /\ c.step["connect"] \in 1..7
      /\ c.flow \in {"navi", "ta"} => AnnouncementFits(c)
  BY DEF BeforeStep
<1>1. c.flow \in Flows /\ c.step \in [Flows -> 1..10] /\ c.step[c.flow] \in 1..10
  BY DEF Controllers
<1>2. c.flow \in {"navi", "ta"} /\ (c.step[c.flow] = 5 \/ (c.step[c.flow] \in {1, 7} /\ c.old = 0))
  <2>1. CASE c.flow = "connect"
    <3>1. c.step[c.flow] \in {1, 2, 3, 4, 5, 6, 7}
      BY <1>0, <2>1
    <3>2. c.step[c.flow] = 2 /\ c.old = 0
      BY <2>1, <3>1, StepsOfFlows
    <3> QED
      BY <1>0, <2>1, <3>2 DEF ConnectFits
  <2>2. CASE c.flow \in {"navi", "ta"}
    <3>1. c.step[c.flow] \in {1, 2, 3, 4, 5, 6, 7, 8, 9, 10}
      BY <1>1
    <3> QED
      BY <2>2, <3>1, StepsOfFlows
  <2> QED
    BY <1>1, <2>1, <2>2 DEF Flows
<1>5. PICK d : d = Goes(c)
  OBVIOUS
<1>6. /\ d \in Controllers /\ SameLists(c, d) /\ d.requests = c.requests /\ d.connects = c.connects
      /\ d.step[c.flow] = c.step[c.flow] + 1
      /\ \A f \in Flows : f # c.flow => d.step[f] = c.step[f]
  BY <1>2, <1>5, GoesFacts DEF SameLists
<1>20. Rested(d)
  BY <1>0, <1>6, RestedStays DEF SameLists
<1>7. ListsFit(d)
  BY <1>0, <1>6 DEF ListsFit, SameLists
<1>8. PlayersFit(d)
  BY <1>0, <1>2, <1>6, SameListsFacts DEF PlayersFit, SameLists
<1>9. /\ d.flow \in {"navi", "ta"} /\ d.step[d.flow] = c.step[c.flow] + 1 /\ d.step[d.flow] \in {2, 6, 8}
      /\ d.step[d.flow] # 6 => d.old = 0
  BY <1>2, <1>6 DEF SameLists
<1>10. AnnouncementFits(d)
  BY <1>0, <1>2, <1>6, <1>9, SameListsFacts DEF AnnouncementFits, SameLists
<1>11. d.step[d.flow] = 6 => HasRoute(d, d.new) /\ ToDisconnect(d, d.new) = {}
  <2>1. c.step[c.flow] = 5 => HasRoute(c, c.new) /\ ToDisconnect(c, c.new) = {}
    BY <1>0, <1>2 DEF AnnouncementFits, HasRoute
  <2> QED
    BY <1>2, <1>6, <1>9, <2>1, SameListsFacts DEF SameLists
<1> QED
  BY <1>5, <1>6, <1>7, <1>8, <1>9, <1>10, <1>11, <1>20 DEF SimpleInv

\* A step that disconnects the player that is replaced, or the announcement.
LEMMA DisconnectStep ==
    ASSUME NEW c \in Controllers, BeforeStep(c), c.flow # "none",
           \E h, k \in FreeHandles(c) : h # k,
           NEW m, \/ FlowSteps[c.flow][c.step[c.flow]] = "disconnectCurrent" /\ m = c.current
                  \/ FlowSteps[c.flow][c.step[c.flow]] = "disconnectNew" /\ m = c.new
    PROVE  Goes(Disconnect(c, m)) \in Controllers /\ SimpleInv(Goes(Disconnect(c, m)))
<1>0. /\ ListsFit(c) /\ PlayersFit(c) /\ Rested(c)
      /\ c.flow = "connect" =>
            /\ ConnectFits(c) /\ c.step["connect"] \in 1..7
            /\ c.step["connect"] <= 3 => Ready(c, c.current)
      /\ c.flow \in {"navi", "ta"} =>
            /\ AnnouncementFits(c)
            /\ c.old # 0 /\ c.step[c.flow] \in 6..9 => Ready(c, c.new)
  BY DEF BeforeStep
<1>1. c.flow \in Flows /\ c.step \in [Flows -> 1..10] /\ c.step[c.flow] \in 1..10
  BY DEF Controllers
<1>2. \/ c.flow = "connect" /\ c.step[c.flow] = 3 /\ m = c.current
      \/ c.flow \in {"navi", "ta"} /\ c.step[c.flow] = 9 /\ m = c.new
  <2>1. CASE c.flow = "connect"
    <3>1. c.step[c.flow] \in {1, 2, 3, 4, 5, 6, 7}
      BY <1>0, <2>1
    <3> QED
      BY <2>1, <3>1, StepsOfFlows
  <2>2. CASE c.flow \in {"navi", "ta"}
    <3>1. c.step[c.flow] \in {1, 2, 3, 4, 5, 6, 7, 8, 9, 10}
      BY <1>1
    <3> QED
      BY <2>2, <3>1, StepsOfFlows
  <2> QED
    BY <1>1, <2>1, <2>2 DEF Flows
<1>3. m \in DOMAIN c.mains
  BY <1>0, <1>2 DEF ConnectFits, AnnouncementFits
<1>4. PICK e : e = Disconnect(c, m)
  OBVIOUS
<1>5. /\ e \in Controllers /\ ListsFit(e)
      /\ e.mains = c.mains /\ e.flow = c.flow /\ e.step = c.step
      /\ e.old = c.old /\ e.current = c.current /\ e.new = c.new
      /\ Due(c) \subseteq Due(e)
      /\ \A n : ToDisconnect(c, n) \subseteq ToDisconnect(e, n)
      /\ \A n : n # m => ToDisconnect(e, n) = ToDisconnect(c, n)
      /\ HasRoute(c, m) => Due(e) # {} /\ ToDisconnect(e, m) # {}
  BY <1>0, <1>3, <1>4, DisconnectFacts
<1>6. PICK d : d = Goes(e)
  OBVIOUS
<1>7. /\ d \in Controllers /\ SameLists(e, d) /\ d.requests = e.requests /\ d.connects = e.connects
      /\ d.step[c.flow] = c.step[c.flow] + 1
      /\ \A f \in Flows : f # c.flow => d.step[f] = c.step[f]
  BY <1>1, <1>2, <1>5, <1>6, GoesFacts DEF SameLists
<1>20. Rested(d)
  BY <1>0, <1>5, <1>7, RestedStays DEF SameLists
<1>8. ListsFit(d)
  BY <1>5, <1>7 DEF ListsFit, SameLists
<1>9. /\ Due(d) = Due(e) /\ Players(d) = Players(c) /\ d.mains = c.mains
      /\ \A n : HasRoute(d, n) = HasRoute(c, n)
      /\ \A n : ToDisconnect(d, n) = ToDisconnect(e, n)
  BY <1>5, <1>7, SameListsFacts DEF Due, Players, HasRoute, SameLists
<1>10. Ready(c, m) => Due(d) # {}
  BY <1>5, <1>9 DEF Ready
<1>11. CASE c.flow = "connect" /\ c.step[c.flow] = 3 /\ m = c.current
  <2>1. d.flow = "connect" /\ d.step["connect"] = 4 /\ d.new = c.new /\ d.current = c.current
    BY <1>5, <1>7, <1>11 DEF SameLists
  <2>2. Due(d) # {}
    BY <1>0, <1>10, <1>11
  <2>3. ConnectFits(d)
    BY <1>0, <1>5, <1>9, <1>11, <2>1 DEF ConnectFits
  <2>4. PlayersFit(d)
    <3>1. ASSUME NEW n \in Players(d), d.mains[n].segments = 0
          PROVE  d.flow = "connect" /\ n = d.new /\ d.step["connect"] <= 4
      BY <1>0, <1>9, <2>1, <3>1 DEF PlayersFit
    <3>2. ASSUME NEW n \in Players(d), ToDisconnect(d, n) = {}
          PROVE  \A q \in Players(d) : q <= n
      <4>1. n \in Players(c) /\ ToDisconnect(c, n) = {}
        BY <1>5, <1>9, <3>2
      <4>2. CASE n = c.current
        <5>1. HasRoute(c, n)
          <6>1. c.mains[n].source # 0 /\ c.mains[n].segments # 0
            BY <1>0, <1>11, <4>1, <4>2 DEF Players, PlayersFit, ConnectFits
          <6> QED
            BY <6>1 DEF HasRoute
        <5> QED
          BY <1>5, <1>9, <1>11, <3>2, <4>2, <5>1
      <4>3. CASE n # c.current
        BY <1>0, <1>9, <4>1, <4>3 DEF PlayersFit
      <4> QED
        BY <4>2, <4>3
    <3> QED
      BY <3>1, <3>2 DEF PlayersFit
  <2> QED
    BY <1>4, <1>6, <1>7, <1>8, <2>1, <2>2, <2>3, <2>4, <1>20 DEF SimpleInv
<1>12. CASE c.flow \in {"navi", "ta"} /\ c.step[c.flow] = 9 /\ m = c.new
  <2>1. d.flow = c.flow /\ d.step[d.flow] = 10 /\ d.new = c.new /\ d.old = c.old
    BY <1>5, <1>7, <1>12 DEF SameLists
  <2>2. d.old # 0 => Due(d) # {}
    BY <1>0, <1>10, <1>12, <2>1
  <2>3. AnnouncementFits(d)
    BY <1>0, <1>9, <1>12, <2>1 DEF AnnouncementFits
  <2>4. PlayersFit(d)
    BY <1>0, <1>5, <1>9, <1>12 DEF PlayersFit
  <2> QED
    BY <1>4, <1>6, <1>7, <1>8, <1>12, <2>1, <2>2, <2>3, <2>4, <1>20 DEF SimpleInv
<1> QED
  BY <1>2, <1>11, <1>12

\* A step that connects what the flow is about.
LEMMA ConnectStep ==
    ASSUME NEW c \in Controllers, BeforeStep(c), c.flow # "none",
           \E h, k \in FreeHandles(c) : h # k,
           FlowSteps[c.flow][c.step[c.flow]] = "connect"
    PROVE  Goes(Connect(c)) \in Controllers /\ SimpleInv(Goes(Connect(c)))
<1>0. /\ ListsFit(c) /\ PlayersFit(c) /\ Rested(c)
      /\ c.flow = "connect" => ConnectFits(c) /\ c.step["connect"] \in 1..7
      /\ c.flow \in {"navi", "ta"} => AnnouncementFits(c)
  BY DEF BeforeStep
<1>1. c.flow \in Flows /\ c.step \in [Flows -> 1..10] /\ c.step[c.flow] \in 1..10
  BY DEF Controllers
<1>2. \/ c.flow = "connect" /\ c.step[c.flow] = 4
      \/ c.flow \in {"navi", "ta"} /\ c.step[c.flow] = 2
  <2>1. CASE c.flow = "connect"
    <3>1. c.step[c.flow] \in {1, 2, 3, 4, 5, 6, 7}
      BY <1>0, <2>1
    <3> QED
      BY <2>1, <3>1, StepsOfFlows
  <2>2. CASE c.flow \in {"navi", "ta"}
    <3>1. c.step[c.flow] \in {1, 2, 3, 4, 5, 6, 7, 8, 9, 10}
      BY <1>1
    <3> QED
      BY <2>2, <3>1, StepsOfFlows
  <2> QED
    BY <1>1, <2>1, <2>2 DEF Flows
<1>3. c.new \in DOMAIN c.mains /\ c.mains[c.new].source # 0
  BY <1>0, <1>2 DEF ConnectFits, AnnouncementFits
<1>4. PICK e : e = Connect(c)
  OBVIOUS
<1>5. /\ e \in Controllers /\ ListsFit(e)
      /\ \E n \in 1..2 : e.mains = [c.mains EXCEPT ![c.new] = [@ EXCEPT !.segments = n]]
      /\ e.disconnects = c.disconnects /\ e.flow = c.flow /\ e.step = c.step
      /\ e.old = c.old /\ e.current = c.current /\ e.new = c.new
      /\ Due(e) # {} /\ Due(c) \subseteq Due(e)
  BY <1>0, <1>3, <1>4, ConnectFacts
<1>6. PICK d : d = Goes(e)
  OBVIOUS
<1>7. /\ d \in Controllers /\ SameLists(e, d) /\ d.requests = e.requests /\ d.connects = e.connects
      /\ d.step[c.flow] = c.step[c.flow] + 1
      /\ \A f \in Flows : f # c.flow => d.step[f] = c.step[f]
  BY <1>1, <1>2, <1>5, <1>6, GoesFacts DEF SameLists
<1>20. Rested(d)
  BY <1>0, <1>5, <1>7, RestedStays DEF SameLists
<1>8. ListsFit(d)
  BY <1>5, <1>7 DEF ListsFit, SameLists
<1>9. PICK n \in 1..2 : d.mains = [c.mains EXCEPT ![c.new] = [@ EXCEPT !.segments = n]]
  BY <1>5, <1>7 DEF SameLists
<1>10. /\ DOMAIN d.mains = DOMAIN c.mains /\ Len(d.mains) = Len(c.mains)
       /\ \A m \in DOMAIN c.mains :
             /\ d.mains[m].source = c.mains[m].source
             /\ d.mains[m].segments = IF m = c.new THEN n ELSE c.mains[m].segments
  <2>1. c.mains \in Seq(MainRecords) /\ \A m \in DOMAIN c.mains : c.mains[m] \in MainRecords
    BY DEF Controllers
  <2>2. /\ DOMAIN d.mains = DOMAIN c.mains
        /\ \A m \in DOMAIN c.mains :
              d.mains[m] = IF m = c.new THEN [c.mains[m] EXCEPT !.segments = n] ELSE c.mains[m]
    BY <1>9
  <2>3. Len(d.mains) = Len(c.mains)
    BY <1>9, <2>1
  <2> QED
    BY <2>1, <2>2, <2>3 DEF MainRecords
<1>11. Players(d) = Players(c)
  BY <1>10 DEF Players
<1>12. \A m : ToDisconnect(d, m) = ToDisconnect(c, m)
  BY <1>5, <1>7 DEF ToDisconnect, SameLists
<1>13. Due(d) # {}
  BY <1>5, <1>7 DEF Due
<1>14. \A m \in Players(c) : m \in DOMAIN c.mains
  BY DEF Players
<1>15. CASE c.flow = "connect" /\ c.step[c.flow] = 4
  <2>1. d.flow = "connect" /\ d.step["connect"] = 5 /\ d.new = c.new /\ d.current = c.current
    BY <1>5, <1>7, <1>15 DEF SameLists
  <2>2. ConnectFits(d)
    BY <1>0, <1>10, <1>12, <1>15, <2>1 DEF ConnectFits
  <2>3. PlayersFit(d)
    BY <1>0, <1>9, <1>10, <1>11, <1>12, <1>14, <1>15 DEF PlayersFit
  <2> QED
    BY <1>4, <1>6, <1>7, <1>8, <1>13, <2>1, <2>2, <2>3, <1>20 DEF SimpleInv
<1>16. CASE c.flow \in {"navi", "ta"} /\ c.step[c.flow] = 2
  <2>1. d.flow = c.flow /\ d.step[d.flow] = 3 /\ d.new = c.new /\ d.old = c.old
    BY <1>5, <1>7, <1>16 DEF SameLists
  <2>2. AnnouncementFits(d)
    <3>1. d.mains[d.new].source = c.mains[c.new].source /\ d.mains[d.new].segments = n
      BY <1>3, <1>10, <2>1
    <3>2. /\ ClassOf[c.mains[c.new].source] # 1
          /\ ToDisconnect(c, c.new) = {}
      BY <1>0, <1>3, <1>16 DEF AnnouncementFits
    <3>3. ToDisconnect(d, d.new) = {}
      BY <1>12, <2>1, <3>2
    <3> QED
      BY <1>3, <1>9, <1>10, <2>1, <3>1, <3>2, <3>3 DEF AnnouncementFits
  <2>3. PlayersFit(d)
    BY <1>0, <1>9, <1>10, <1>11, <1>12, <1>14, <1>16 DEF PlayersFit
  <2> QED
    BY <1>4, <1>6, <1>7, <1>8, <1>13, <1>16, <2>1, <2>2, <2>3, <1>20 DEF SimpleInv
<1> QED
  BY <1>2, <1>15, <1>16

\* The last step of a flow: it ends, at the earliest once the player is connected.
LEMMA EndStep ==
    ASSUME NEW c \in Controllers, ListsFit(c), PlayersFit(c), Rested(c),
           c.flow = "connect" => c.step["connect"] > 4,
           c.flow \in {"navi", "ta"} => c.step[c.flow] = 10
    PROVE  FlowEnds(c) \in Controllers /\ SimpleInv(FlowEnds(c))
<1>1. PICK d : d = FlowEnds(c)
  OBVIOUS
<1>2. /\ d \in Controllers /\ d.flow = "none" /\ d.mains = c.mains /\ d.disconnects = c.disconnects
      /\ d.connects = c.connects /\ d.requests = c.requests
  BY <1>1 DEF FlowEnds, Controllers
<1>3. ListsFit(d)
  BY <1>2 DEF ListsFit
<1>4. c.step \in [Flows -> 1..10] /\ "connect" \in Flows
  BY DEF Controllers, Flows
<1>5. Players(d) = Players(c) /\ \A m : ToDisconnect(d, m) = ToDisconnect(c, m)
  BY <1>2 DEF Players, ToDisconnect
<1>6. PlayersFit(d)
  BY <1>2, <1>4, <1>5 DEF PlayersFit
<1>7. Rested(d)
  <2>1. d.step = c.step
    BY <1>1 DEF FlowEnds, Controllers
  <2> QED
    BY <1>2, <2>1 DEF Rested
<1> QED
  BY <1>1, <1>2, <1>3, <1>6, <1>7 DEF SimpleInv

\* The flow goes a step, whatever its state: the invariant holds again.
LEMMA DoStepKeeps ==
    ASSUME CallsAreAccepted, NEW c \in Controllers, BeforeStep(c), c.flow # "none",
           \E h, k \in FreeHandles(c) : h # k, NEW d \in DoStep(c)
    PROVE  d \in Controllers /\ SimpleInv(d)
<1>a. AsksOnce(c) = {Goes(Asked(c, "other"))}
  BY DEF AsksOnce
<1>0. /\ ListsFit(c) /\ PlayersFit(c) /\ Rested(c) /\ (c.flow = "connect" => c.step["connect"] \in 1..7)
      /\ FreeHandles(c) # {}
  BY DEF BeforeStep
<1>1. c.flow \in Flows /\ c.step[c.flow] \in 1..10
  BY DEF Controllers
<1> DEFINE does == FlowSteps[c.flow][c.step[c.flow]]
<1>2. does \in {"ask", "askOld", "disconnectCurrent", "disconnectNew", "connect", "rampUp", "wait", "finish"}
  <2>1. CASE c.flow = "connect"
    <3>1. c.step[c.flow] \in {1, 2, 3, 4, 5, 6, 7}
      BY <1>0, <2>1
    <3> QED
      BY <2>1, <3>1, StepsOfFlows
  <2>2. CASE c.flow \in {"navi", "ta"}
    <3>1. c.step[c.flow] \in {1, 2, 3, 4, 5, 6, 7, 8, 9, 10}
      BY <1>1
    <3> QED
      BY <2>2, <3>1, StepsOfFlows
  <2> QED
    BY <1>1, <2>1, <2>2 DEF Flows
<1>3. CASE does = "ask"
  BY <1>0, <1>a, <1>3, AskStep DEF DoStep
<1>4. CASE does = "askOld"
  BY <1>0, <1>a, <1>4, AskStep, IdleStep DEF DoStep
<1>5. CASE does = "disconnectCurrent"
  BY <1>5, DisconnectStep DEF DoStep
<1>6. CASE does = "disconnectNew"
  BY <1>6, DisconnectStep DEF DoStep
<1>7. CASE does = "connect"
  BY <1>7, ConnectStep DEF DoStep
<1>8. CASE does = "wait"
  BY <1>8, IdleStep DEF DoStep
<1>9. CASE does = "rampUp"
  <2>1. c.flow = "connect" /\ c.step["connect"] = 6
    <3>1. CASE c.flow = "connect"
      <4>1. c.step[c.flow] \in {1, 2, 3, 4, 5, 6, 7}
        BY <1>0, <3>1
      <4> QED
        BY <1>9, <3>1, <4>1, StepsOfFlows
    <3>2. CASE c.flow \in {"navi", "ta"}
      <4>1. c.step[c.flow] \in {1, 2, 3, 4, 5, 6, 7, 8, 9, 10}
        BY <1>1
      <4> QED
        BY <1>9, <3>2, <4>1, StepsOfFlows
    <3> QED
      BY <1>1, <3>1, <3>2 DEF Flows
  <2>2. /\ Goes(c) \in Controllers /\ Goes(c).step["connect"] = 7 /\ SameLists(c, Goes(c))
        /\ Goes(c).connects = c.connects /\ Goes(c).requests = c.requests
    BY <1>1, <2>1, GoesFacts DEF SameLists
  <2>6. Rested(Goes(c))
    BY <1>0, <1>1, <2>1, GoesFacts, RestedStays
  <2>3. ListsFit(Goes(c)) /\ PlayersFit(Goes(c))
    BY <1>0, <2>1, <2>2, SameListsFacts DEF ListsFit, PlayersFit, SameLists
  <2>4. CASE d = FlowEnds(Goes(c))
    BY <2>1, <2>2, <2>3, <2>4, <2>6, EndStep DEF SameLists
  <2>5. CASE d = Goes(Asked(c, "other"))
    <3>1. PICK e : e = Asked(c, "other")
      OBVIOUS
    <3>2. e \in Controllers /\ RestSame(c, e) /\ ListsFit(e) /\ Due(e) # {}
      BY <1>0, <3>1, AskedFacts DEF Kinds
    <3>3. /\ d \in Controllers /\ d.step["connect"] = 7 /\ SameLists(c, d)
          /\ d.connects = c.connects /\ d.requests = e.requests
          /\ \A f \in Flows : f # c.flow => d.step[f] = c.step[f]
      BY <1>1, <2>1, <2>5, <3>1, <3>2, GoesFacts DEF SameLists, RestSame
    <3>4. ListsFit(d) /\ Due(d) # {}
      BY <3>2, <3>3 DEF ListsFit, Due, SameLists, RestSame
    <3>5. PlayersFit(d)
      BY <1>0, <2>1, <3>3, SameListsFacts DEF PlayersFit, SameLists
    <3>6. ConnectFits(d) /\ d.flow = "connect"
      BY <1>1, <2>1, <3>3, SameListsFacts DEF ConnectFits, SameLists, BeforeStep
    <3> QED
      <4>1. Rested(d)
        BY <1>0, <3>3, RestedStays DEF SameLists
      <4> QED
        BY <3>3, <3>4, <3>5, <3>6, <4>1 DEF SimpleInv
  <2> QED
    BY <1>a, <1>9, <2>4, <2>5 DEF DoStep
<1>10. CASE does = "finish"
  <2>2. c.flow \in {"navi", "ta"} => c.step[c.flow] = 10
    <3> SUFFICES ASSUME c.flow \in {"navi", "ta"} PROVE c.step[c.flow] = 10
      OBVIOUS
    <3>1. c.step[c.flow] \in {1, 2, 3, 4, 5, 6, 7, 8, 9, 10}
      BY <1>1
    <3> QED
      BY <1>10, <3>1, StepsOfFlows
  <2>1. c.flow = "connect" => c.step["connect"] = 7
    <3>1. CASE c.flow = "connect"
      <4>1. c.step[c.flow] \in {1, 2, 3, 4, 5, 6, 7}
        BY <1>0, <3>1
      <4> QED
        BY <1>10, <3>1, <4>1, StepsOfFlows
    <3> QED
      BY <3>1
  <2> QED
    BY <1>0, <1>10, <2>1, <2>2, EndStep DEF DoStep
<1> QED
  BY <1>2, <1>3, <1>4, <1>5, <1>6, <1>7, <1>8, <1>9, <1>10

-----------------------------------------------------------------------------
(* Answers *)

LEMMA RemoveAtFacts ==
    ASSUME NEW T, NEW s \in Seq(T), NEW k \in DOMAIN s
    PROVE  /\ RemoveAt(s, k) \in Seq(T)
           /\ DOMAIN RemoveAt(s, k) = 1..(Len(s) - 1)
           /\ \A i \in DOMAIN RemoveAt(s, k) :
                 RemoveAt(s, k)[i] = s[IF i < k THEN i ELSE i + 1]
           /\ \A j \in DOMAIN s : j # k =>
                 \E i \in DOMAIN RemoveAt(s, k) : RemoveAt(s, k)[i] = s[j]
           /\ \A i \in DOMAIN RemoveAt(s, k) :
                 (IF i < k THEN i ELSE i + 1) \in DOMAIN s \ {k}
           /\ \A i, j \in DOMAIN RemoveAt(s, k) :
                 i # j => (IF i < k THEN i ELSE i + 1) # (IF j < k THEN j ELSE j + 1)
<1> DEFINE n == Len(s)
<1>1. n \in Nat /\ DOMAIN s = 1..n /\ k \in 1..n /\ \A i \in 1..n : s[i] \in T
  OBVIOUS
<1>2. PICK less : less = RemoveAt(s, k)
  OBVIOUS
<1>3. PICK front, back : front = SubSeq(s, 1, k - 1) /\ back = SubSeq(s, k + 1, n)
  OBVIOUS
<1>4. front \in Seq(T) /\ Len(front) = k - 1 /\ \A i \in 1..(k - 1) : front[i] = s[i]
  BY <1>1, <1>3
<1>5. back \in Seq(T) /\ Len(back) = n - k /\ \A i \in 1..(n - k) : back[i] = s[k + i]
  BY <1>1, <1>3
<1>6. less = front \o back
  BY <1>2, <1>3 DEF RemoveAt
<1>7. /\ Len(less) = n - 1 /\ less \in Seq(T)
      /\ \A i \in 1..(k - 1) : less[i] = front[i]
      /\ \A i \in k..(n - 1) : less[i] = back[i - (k - 1)]
  <2>1. Len(front) \in Nat /\ Len(back) \in Nat /\ less \in Seq(T)
    BY <1>1, <1>4, <1>5, <1>6
  <2>2. Len(less) = Len(front) + Len(back)
    <3>1. front \in Seq(T) /\ back \in Seq(T)
      BY <1>4, <1>5
    <3> QED
      BY <3>1, <1>6
  <2>3. Len(less) = n - 1
    BY <1>1, <1>4, <1>5, <2>2
  <2>4. \A i \in 1..(n - 1) : less[i] = IF i <= k - 1 THEN front[i] ELSE back[i - (k - 1)]
    BY <1>1, <1>4, <1>5, <1>6
  <2>5. \A i \in 1..(k - 1) : i \in 1..(n - 1) /\ i <= k - 1
    BY <1>1
  <2>6. \A i \in k..(n - 1) : i \in 1..(n - 1) /\ ~(i <= k - 1)
    BY <1>1
  <2> QED
    BY <2>1, <2>3, <2>4, <2>5, <2>6
<1>8. \A i \in 1..(n - 1) : less[i] = s[IF i < k THEN i ELSE i + 1]
  <2> SUFFICES ASSUME NEW i \in 1..(n - 1)
               PROVE  less[i] = s[IF i < k THEN i ELSE i + 1]
    OBVIOUS
  <2>1. CASE i < k
    BY <1>1, <1>4, <1>7, <2>1
  <2>2. CASE ~(i < k)
    <3>1. i \in k..(n - 1) /\ i - (k - 1) \in 1..(n - k) /\ k + (i - (k - 1)) = i + 1
      BY <1>1, <2>2
    <3> QED
      BY <1>5, <1>7, <2>2, <3>1
  <2> QED
    BY <2>1, <2>2
<1>9. ASSUME NEW j \in 1..n, j # k
      PROVE  \E i \in 1..(n - 1) : less[i] = s[j]
  <2>1. CASE j < k
    <3>1. j \in 1..(n - 1) /\ less[j] = s[j]
      BY <1>1, <1>8, <2>1
    <3> QED
      BY <3>1
  <2>2. CASE ~(j < k)
    <3>1. j - 1 \in 1..(n - 1) /\ ~(j - 1 < k) /\ (j - 1) + 1 = j
      BY <1>1, <1>9, <2>2
    <3>2. less[j - 1] = s[j]
      BY <1>8, <3>1
    <3> QED
      BY <3>1, <3>2
  <2> QED
    BY <2>1, <2>2
<1>10. \A i \in 1..(n - 1) : (IF i < k THEN i ELSE i + 1) \in 1..n \ {k}
  BY <1>1
<1>11. \A i, j \in 1..(n - 1) : i # j => (IF i < k THEN i ELSE i + 1) # (IF j < k THEN j ELSE j + 1)
  BY <1>1
<1>12. DOMAIN less = 1..(n - 1)
  BY <1>7
<1> QED
  BY <1>1, <1>2, <1>7, <1>8, <1>9, <1>10, <1>11, <1>12

\* An answer takes h from what is due; if it completes the disconnect of a main connection,
\* that leaves the database.
Answers(c, d, h) ==
    /\ d.flow = c.flow /\ d.step = c.step
    /\ d.old = c.old /\ d.current = c.current /\ d.new = c.new
    /\ Due(d) = Due(c) \ {h}
    /\ DOMAIN d.mains = DOMAIN c.mains /\ Len(d.mains) = Len(c.mains)
    /\ \A m : ToDisconnect(d, m) = ToDisconnect(c, m) \ {h}
    /\ \A m \in DOMAIN c.mains :
          \/ /\ d.mains[m].source = c.mains[m].source /\ d.mains[m].segments = c.mains[m].segments
             /\ h \in ToDisconnect(c, m) => ToDisconnect(d, m) # {}
          \/ d.mains[m].source = 0 /\ h \in ToDisconnect(c, m)

\* A flow with an answer to spare is still ready after one of them.
LEMMA SpareIsReady ==
    ASSUME NEW c, NEW d, NEW h, Answers(c, d, h), NEW m \in DOMAIN c.mains, Spare(c, m)
    PROVE  Ready(d, m)
<1>1. CASE HasRoute(c, m)
  <2>1. Due(c) \ ToDisconnect(c, m) # {}
    BY <1>1 DEF Spare
  <2>2. HasRoute(d, m) \/ h \in ToDisconnect(c, m)
    BY <1>1 DEF Answers, HasRoute
  <2>3. h \in ToDisconnect(c, m) => Due(d) # {}
    BY <2>1 DEF Answers
  <2> QED
    BY <2>2, <2>3 DEF Ready
<1>2. CASE ~HasRoute(c, m)
  <2>1. \E k, l \in Due(c) : k # l
    BY <1>2 DEF Spare
  <2>2. Due(d) # {}
    BY <2>1 DEF Answers
  <2> QED
    BY <2>2 DEF Ready
<1> QED
  BY <1>1, <1>2

LEMMA AnswerFits ==
    ASSUME NEW c \in Controllers, NEW d \in Controllers, NEW h, SimpleInv(c), Answers(c, d, h), ListsFit(d)
    PROVE  BeforeStep(d)
<1>1. PlayersFit(d)
  <2>1. \A m \in Players(d) :
           /\ m \in Players(c) /\ d.mains[m].segments = c.mains[m].segments
           /\ ToDisconnect(d, m) = {} => ToDisconnect(c, m) = {}
    <3> SUFFICES ASSUME NEW m \in Players(d)
                 PROVE  /\ m \in Players(c) /\ d.mains[m].segments = c.mains[m].segments
                        /\ ToDisconnect(d, m) = {} => ToDisconnect(c, m) = {}
      OBVIOUS
    <3>1. m \in DOMAIN c.mains /\ d.mains[m].source # 0 /\ ClassOf[d.mains[m].source] = 1
      BY DEF Players, Answers
    <3>2. /\ d.mains[m].source = c.mains[m].source /\ d.mains[m].segments = c.mains[m].segments
          /\ h \in ToDisconnect(c, m) => ToDisconnect(d, m) # {}
          /\ ToDisconnect(d, m) = ToDisconnect(c, m) \ {h}
      BY <3>1 DEF Answers
    <3> QED
      BY <3>1, <3>2 DEF Players
  <2> QED
    BY <2>1 DEF PlayersFit, SimpleInv, Answers
<1>2. ASSUME NEW m \in DOMAIN c.mains, ToDisconnect(c, m) = {}
      PROVE  /\ d.mains[m].source = c.mains[m].source /\ d.mains[m].segments = c.mains[m].segments
             /\ ToDisconnect(d, m) = {}
  BY <1>2 DEF Answers
<1>3. ASSUME c.flow = "connect"
      PROVE  /\ ConnectFits(d) /\ d.step["connect"] \in 1..7
             /\ d.step["connect"] <= 3 => Ready(d, d.current)
  <2>1. /\ ConnectFits(c) /\ c.step["connect"] \in 2..7
        /\ c.step["connect"] <= 3 => Spare(c, c.current)
    BY <1>3 DEF SimpleInv
  <2>2. c.new \in DOMAIN c.mains /\ ToDisconnect(c, c.new) = {}
    BY <2>1 DEF ConnectFits
  <2>3. ConnectFits(d)
    BY <1>2, <2>1, <2>2 DEF ConnectFits, Answers
  <2>4. d.step["connect"] <= 3 => Ready(d, d.current)
    BY <2>1, SpareIsReady DEF ConnectFits, Answers
  <2> QED
    BY <2>1, <2>3, <2>4 DEF Answers
<1>4. ASSUME c.flow \in {"navi", "ta"}
      PROVE  /\ AnnouncementFits(d)
             /\ d.old # 0 /\ d.step[d.flow] \in 6..9 => Ready(d, d.new)
  <2>1. /\ AnnouncementFits(c) /\ c.step[c.flow] \in 2..10
        /\ c.step[c.flow] = 6 => HasRoute(c, c.new) /\ ToDisconnect(c, c.new) = {}
        /\ c.old # 0 /\ c.step[c.flow] \in 7..9 => Spare(c, c.new)
    BY <1>4 DEF SimpleInv
  <2>2. c.new \in DOMAIN c.mains
    BY <2>1 DEF AnnouncementFits
  <2>3. /\ d.flow = c.flow /\ d.step = c.step /\ d.new = c.new /\ d.old = c.old
        /\ DOMAIN d.mains = DOMAIN c.mains
    BY DEF Answers
  <2>4. d.mains[c.new].source # 0 => d.mains[c.new].source = c.mains[c.new].source
    BY <2>2 DEF Answers
  <2>5. AnnouncementFits(d)
    <3>1. CASE ToDisconnect(c, c.new) = {}
      BY <1>2, <2>1, <2>2, <2>3, <3>1 DEF AnnouncementFits
    <3>2. CASE ToDisconnect(c, c.new) # {}
      <4>1. ~(c.step[c.flow] <= 5)
        BY <2>1, <3>2 DEF AnnouncementFits
      <4>2. ~(c.step[c.flow] \in 3..5)
        BY <2>1, <4>1
      <4> QED
        BY <2>1, <2>2, <2>3, <2>4, <4>1, <4>2 DEF AnnouncementFits
    <3> QED
      BY <3>1, <3>2
  <2>6. c.step[c.flow] = 6 => Ready(d, c.new)
    BY <1>2, <2>1, <2>2 DEF Ready, HasRoute
  <2>7. c.old # 0 /\ c.step[c.flow] \in 7..9 => Ready(d, c.new)
    BY <2>1, <2>2, SpareIsReady
  <2> QED
    BY <2>1, <2>3, <2>5, <2>6, <2>7
<1> QED
  <2>1. Rested(d)
    BY DEF SimpleInv, Rested, Answers
  <2> QED
    BY <1>1, <1>3, <1>4, <2>1 DEF BeforeStep, Answers

\* The controller when the answer for h has arrived.
LEMMA AnswerTaken ==
    ASSUME NEW s \in Controllers, SimpleInv(s), NEW h \in RequestHandles, s.requests[h] # "none"
    PROVE  LET c == [s EXCEPT !.requests[h] = "none"] IN
           /\ c \in Controllers /\ RestSame(s, c) /\ c.volumes = s.volumes /\ c.sounds = s.sounds
           /\ \A k \in RequestHandles : c.requests[k] = IF k = h THEN "none" ELSE s.requests[k]
           /\ Due(c) = Due(s) \ {h}
           /\ h \in FreeHandles(c) /\ FreeHandles(s) \subseteq FreeHandles(c) /\ h \notin FreeHandles(s)
<1> DEFINE c == [s EXCEPT !.requests[h] = "none"]
<1>1. PICK r : r = [s.requests EXCEPT ![h] = "none"]
  OBVIOUS
<1>2. r \in [RequestHandles -> Kinds] /\ \A k \in RequestHandles : r[k] = IF k = h THEN "none" ELSE s.requests[k]
  BY <1>1 DEF Controllers, Kinds
<1>3. c = [s EXCEPT !.requests = r]
  BY <1>1 DEF Controllers
<1>4. /\ c \in Controllers /\ RestSame(s, c) /\ c.volumes = s.volumes /\ c.sounds = s.sounds
      /\ c.requests = r
  BY <1>2, <1>3 DEF Controllers, RestSame
<1>5. Due(c) = Due(s) \ {h} /\ h \in FreeHandles(c) /\ FreeHandles(s) \subseteq FreeHandles(c) /\ h \notin FreeHandles(s)
  BY <1>2, <1>4 DEF Due, FreeHandles
<1> QED
  BY <1>2, <1>4, <1>5

\* Answers to anything but a disconnect: h is in no list of handles to be disconnected, and
\* main connections keep their sources and routes.
LEMMA OtherAnswer ==
    ASSUME NEW s \in Controllers, SimpleInv(s), NEW d \in Controllers,
           NEW h \in RequestHandles, s.requests[h] \notin {"none", "disconnect"},
           d.disconnects = s.disconnects,
           d.flow = s.flow, d.step = s.step, d.old = s.old, d.current = s.current, d.new = s.new,
           \A k \in RequestHandles : d.requests[k] = IF k = h THEN "none" ELSE s.requests[k],
           DOMAIN d.mains = DOMAIN s.mains, Len(d.mains) = Len(s.mains),
           \A m \in DOMAIN s.mains : /\ d.mains[m].source = s.mains[m].source
                                     /\ d.mains[m].segments = s.mains[m].segments,
           \A i \in DOMAIN d.connects : d.connects[i].main \in DOMAIN d.mains
    PROVE  ListsFit(d) /\ Answers(s, d, h)
<1>1. ListsFit(s)
  BY DEF SimpleInv
<1>2. \A m : h \notin ToDisconnect(s, m) /\ ToDisconnect(d, m) = ToDisconnect(s, m)
  BY <1>1, ToDisconnectFacts DEF ToDisconnect
<1>3. Due(d) = Due(s) \ {h}
  BY DEF Due
<1>4. ListsFit(d)
  <2>1. s.disconnects \in Seq(OpenLists)
    BY DEF Controllers
  <2>2. \A i \in DOMAIN s.disconnects : \A k \in s.disconnects[i].open :
           k \in RequestHandles /\ k # h /\ s.requests[k] = "disconnect"
    BY <1>1, <2>1, ListsTyped DEF ListsFit
  <2> QED
    BY <1>1, <2>2 DEF ListsFit
<1> QED
  BY <1>2, <1>3, <1>4 DEF Answers

LEMMA TickedFacts ==
    ASSUME NEW lists \in Seq(OpenLists), NEW h
    PROVE  /\ TickedOff(lists, h) \in Seq(OpenLists)
           /\ DOMAIN TickedOff(lists, h) = DOMAIN lists /\ Len(TickedOff(lists, h)) = Len(lists)
           /\ \A i \in DOMAIN lists : /\ TickedOff(lists, h)[i].main = lists[i].main
                                      /\ TickedOff(lists, h)[i].open = lists[i].open \ {h}
<1>1. PICK t : t = TickedOff(lists, h)
  OBVIOUS
<1>2. DOMAIN lists = 1..Len(lists) /\ Len(lists) \in Nat
  OBVIOUS
<1>3. t = [i \in DOMAIN lists |-> [lists[i] EXCEPT !.open = lists[i].open \ {h}]]
  BY <1>1, ListsTyped DEF TickedOff, OpenLists
<1>4. \A i \in DOMAIN lists : /\ t[i] \in OpenLists /\ t[i].main = lists[i].main
                              /\ t[i].open = lists[i].open \ {h}
  BY <1>3, ListsTyped DEF OpenLists
<1>5. t \in Seq(OpenLists) /\ DOMAIN t = DOMAIN lists /\ Len(t) = Len(lists)
  <2>1. PICK n \in Nat : n = Len(lists)
    BY <1>2
  <2>2. DOMAIN t = 1..n /\ t = [i \in 1..n |-> t[i]]
    BY <1>2, <1>3, <2>1
  <2>3. t \in [1..n -> OpenLists]
    BY <1>2, <1>4, <2>1, <2>2
  <2>4. t \in Seq(OpenLists) /\ Len(t) = n
    BY <2>1, <2>3
  <2> QED
    BY <1>2, <2>1, <2>2, <2>4
<1> QED
  BY <1>1, <1>4, <1>5

LEMMA ConnectAcked ==
    ASSUME NEW s \in Controllers, SimpleInv(s), NEW h \in RequestHandles, s.requests[h] = "connect"
    PROVE  LET d == Acked([s EXCEPT !.requests[h] = "none"], h, "connects") IN
           d \in Controllers /\ ListsFit(d) /\ Answers(s, d, h)
<1>1. PICK c : c = [s EXCEPT !.requests[h] = "none"]
  OBVIOUS
<1>2. /\ c \in Controllers /\ RestSame(s, c)
      /\ \A k \in RequestHandles : c.requests[k] = IF k = h THEN "none" ELSE s.requests[k]
  BY <1>1, AnswerTaken
<1>3. PICK d : d = Acked(c, h, "connects")
  OBVIOUS
<1>4. c.connects \in Seq(OpenLists) /\ c.mains \in Seq(MainRecords) /\ c.connects = s.connects /\ c.mains = s.mains
  BY <1>2 DEF Controllers, RestSame
<1>5. PICK lists : lists = TickedOff(c.connects, h)
  OBVIOUS
<1>6. /\ lists \in Seq(OpenLists) /\ DOMAIN lists = DOMAIN c.connects /\ Len(lists) = Len(c.connects)
      /\ \A i \in DOMAIN lists : lists[i].main = c.connects[i].main
  BY <1>4, <1>5, TickedFacts
<1>7. \A i \in DOMAIN c.connects : c.connects[i].main \in DOMAIN c.mains
  BY <1>4 DEF SimpleInv, ListsFit
<1>8. PICK done : done = Completed(c.connects, h)
  OBVIOUS
<1>9. CASE done = {}
  <2>1. d = [c EXCEPT !.connects = lists]
    BY <1>3, <1>4, <1>5, <1>8, <1>9 DEF Acked, Controllers
  <2>2. /\ d \in Controllers /\ d.connects = lists /\ d.mains = c.mains /\ d.requests = c.requests
        /\ d.disconnects = s.disconnects /\ d.flow = s.flow /\ d.step = s.step /\ d.old = s.old
        /\ d.current = s.current /\ d.new = s.new
    BY <1>2, <1>6, <2>1 DEF Controllers, RestSame
  <2>3. \A i \in DOMAIN d.connects : d.connects[i].main \in DOMAIN d.mains
    BY <1>6, <1>7, <2>2
  <2>4. ListsFit(d) /\ Answers(s, d, h)
    BY <1>2, <1>4, <2>2, <2>3, OtherAnswer
  <2> QED
    BY <1>1, <1>3, <2>2, <2>4
<1>10. CASE done # {}
  <2>1. PICK k : k = FirstOf(done)
    OBVIOUS
  <2>2. k \in DOMAIN c.connects
    <3>1. done \subseteq DOMAIN c.connects /\ DOMAIN c.connects \subseteq Nat
      BY <1>4, <1>8 DEF Completed
    <3> QED
      BY <1>10, <2>1, <3>1, FirstOfFacts
  <2>3. PICK left : left = RemoveAt(lists, k)
    OBVIOUS
  <2>4. /\ left \in Seq(OpenLists)
        /\ \A i \in DOMAIN left : \E j \in DOMAIN lists : left[i] = lists[j]
    BY <1>6, <2>2, <2>3, RemoveAtFacts
  <2>5. PICK m : m = c.connects[k].main
    OBVIOUS
  <2>6. m \in DOMAIN c.mains
    BY <1>7, <2>2, <2>5
  <2>7. PICK mains : mains = [c.mains EXCEPT ![m] = IF @.source = 0 THEN @ ELSE [@ EXCEPT !.state = "CONNECTED"]]
    OBVIOUS
  <2>8. /\ mains \in Seq(MainRecords) /\ DOMAIN mains = DOMAIN c.mains /\ Len(mains) = Len(c.mains)
        /\ \A n \in DOMAIN c.mains : /\ mains[n].source = c.mains[n].source
                                     /\ mains[n].segments = c.mains[n].segments
    <3>1. \A n \in DOMAIN c.mains : c.mains[n] \in MainRecords
      BY <1>4
    <3>2. [c.mains[m] EXCEPT !.state = "CONNECTED"] \in MainRecords
      BY <2>6, <3>1 DEF MainRecords
    <3>3. mains \in Seq(MainRecords) /\ DOMAIN mains = DOMAIN c.mains /\ Len(mains) = Len(c.mains)
      BY <1>4, <2>6, <2>7, <3>2
    <3>4. \A n \in DOMAIN c.mains :
             \/ mains[n] = c.mains[n]
             \/ mains[n] = [c.mains[n] EXCEPT !.state = "CONNECTED"]
      BY <2>7
    <3> QED
      BY <3>1, <3>3, <3>4 DEF MainRecords
  <2>9. d = [c EXCEPT !.connects = left, !.mains = mains]
    BY <1>3, <1>4, <1>5, <1>8, <1>10, <2>1, <2>3, <2>5, <2>7 DEF Acked, Controllers
  <2>10. /\ d \in Controllers /\ d.connects = left /\ d.mains = mains /\ d.requests = c.requests
         /\ d.disconnects = s.disconnects /\ d.flow = s.flow /\ d.step = s.step /\ d.old = s.old
         /\ d.current = s.current /\ d.new = s.new
    BY <1>2, <2>4, <2>8, <2>9 DEF Controllers, RestSame
  <2>11. \A i \in DOMAIN d.connects : d.connects[i].main \in DOMAIN d.mains
    BY <1>6, <1>7, <2>4, <2>8, <2>10
  <2>12. ListsFit(d) /\ Answers(s, d, h)
    BY <1>2, <1>4, <2>8, <2>10, <2>11, OtherAnswer
  <2> QED
    BY <1>1, <1>3, <2>10, <2>12
<1> QED
  BY <1>9, <1>10

\* The answer to a disconnect: the list that holds its handle loses it, and the main connection
\* leaves the database with the list's last handle.
LEMMA DisconnectAcked ==
    ASSUME NEW s \in Controllers, SimpleInv(s), NEW h \in RequestHandles, s.requests[h] = "disconnect"
    PROVE  LET d == Acked([s EXCEPT !.requests[h] = "none"], h, "disconnects") IN
           d \in Controllers /\ ListsFit(d) /\ Answers(s, d, h)
<1>1. PICK c : c = [s EXCEPT !.requests[h] = "none"]
  OBVIOUS
<1>2. /\ c \in Controllers /\ RestSame(s, c) /\ Due(c) = Due(s) \ {h}
      /\ \A k \in RequestHandles : c.requests[k] = IF k = h THEN "none" ELSE s.requests[k]
  BY <1>1, AnswerTaken
<1>3. PICK d : d = Acked(c, h, "disconnects")
  OBVIOUS
<1>4. PICK old : old = s.disconnects
  OBVIOUS
<1>5. /\ old \in Seq(OpenLists) /\ c.mains \in Seq(MainRecords) /\ c.disconnects = old /\ c.mains = s.mains
      /\ c.connects = s.connects
  BY <1>2, <1>4 DEF Controllers, RestSame
<1>6. PICK lists : lists = TickedOff(old, h)
  OBVIOUS
<1>7. /\ lists \in Seq(OpenLists) /\ DOMAIN lists = DOMAIN old /\ Len(lists) = Len(old)
      /\ \A i \in DOMAIN lists : lists[i].main = old[i].main /\ lists[i].open = old[i].open \ {h}
  BY <1>5, <1>6, TickedFacts
<1>8. /\ \A i \in DOMAIN old : \A k \in old[i].open : s.requests[k] = "disconnect" /\ k \in RequestHandles
      /\ \A i, j \in DOMAIN old : i # j => old[i].open \cap old[j].open = {}
      /\ \A i \in DOMAIN old : old[i].main \in DOMAIN c.mains
      /\ \A i \in DOMAIN c.connects : c.connects[i].main \in DOMAIN c.mains
  BY <1>4, <1>5, ListsTyped DEF SimpleInv, ListsFit
<1>9. \A m, k : k \in ToDisconnect(s, m) <=> \E i \in DOMAIN old : old[i].main = m /\ k \in old[i].open
  BY <1>4, ToDisconnectFacts DEF SimpleInv
<1>10. PICK done : done = Completed(old, h)
  OBVIOUS
<1>11. done = {i \in DOMAIN old : old[i].open = {h}}
  BY <1>10 DEF Completed
<1>12. CASE done = {}
  <2>1. d = [c EXCEPT !.disconnects = lists]
    BY <1>3, <1>5, <1>6, <1>10, <1>12 DEF Acked, Controllers
  <2>2. /\ d \in Controllers /\ d.disconnects = lists /\ d.mains = s.mains /\ d.requests = c.requests
        /\ d.connects = s.connects /\ d.flow = s.flow /\ d.step = s.step /\ d.old = s.old
        /\ d.current = s.current /\ d.new = s.new
    BY <1>2, <1>5, <1>7, <2>1 DEF Controllers, RestSame
  <2>3. ListsFit(d)
    BY <1>2, <1>5, <1>7, <1>8, <2>2 DEF ListsFit
  <2>4. \A m, k : k \in ToDisconnect(d, m) <=> \E i \in DOMAIN old : old[i].main = m /\ k \in old[i].open \ {h}
    BY <1>7, <2>2 DEF ToDisconnect
  <2>5. \A m : ToDisconnect(d, m) = ToDisconnect(s, m) \ {h}
    BY <1>9, <2>4
  <2>6. ASSUME NEW m, h \in ToDisconnect(s, m)
        PROVE  ToDisconnect(d, m) # {}
    <3>1. PICK i \in DOMAIN old : old[i].main = m /\ h \in old[i].open
      BY <1>9, <2>6
    <3>2. PICK k \in old[i].open : k # h
      BY <1>11, <1>12, <3>1
    <3> QED
      BY <2>4, <3>1, <3>2
  <2>7. Due(d) = Due(s) \ {h}
    BY <1>2, <2>2 DEF Due
  <2>8. Answers(s, d, h)
    BY <2>2, <2>5, <2>6, <2>7 DEF Answers
  <2> QED
    BY <1>1, <1>3, <2>2, <2>3, <2>8
<1>13. CASE done # {}
  <2>1. PICK k : k = FirstOf(done)
    OBVIOUS
  <2>2. k \in DOMAIN old /\ old[k].open = {h}
    <3>1. done \subseteq DOMAIN old /\ DOMAIN old \subseteq Nat
      BY <1>5, <1>11
    <3>2. k \in done
      BY <1>13, <2>1, <3>1, FirstOfFacts
    <3> QED
      BY <1>11, <3>2
  <2>3. PICK left : left = RemoveAt(lists, k)
    OBVIOUS
  <2>4. PICK Was : Was = [i \in DOMAIN left |-> IF i < k THEN i ELSE i + 1]
    OBVIOUS
  <2>5. /\ left \in Seq(OpenLists)
        /\ \A i \in DOMAIN left : left[i] = lists[Was[i]] /\ Was[i] \in DOMAIN lists /\ Was[i] # k
        /\ \A i, j \in DOMAIN left : i # j => Was[i] # Was[j]
        /\ \A j \in DOMAIN lists : j # k => \E i \in DOMAIN left : left[i] = lists[j]
    <3>1. k \in DOMAIN lists
      BY <1>7, <2>2
    <3>2. /\ left \in Seq(OpenLists)
          /\ \A i \in DOMAIN left : left[i] = lists[IF i < k THEN i ELSE i + 1]
          /\ \A j \in DOMAIN lists : j # k => \E i \in DOMAIN left : left[i] = lists[j]
          /\ \A i \in DOMAIN left : (IF i < k THEN i ELSE i + 1) \in DOMAIN lists \ {k}
          /\ \A i, j \in DOMAIN left :
                i # j => (IF i < k THEN i ELSE i + 1) # (IF j < k THEN j ELSE j + 1)
      <4>1. lists \in Seq(OpenLists)
        BY <1>7
      <4>2. PICK r : r = RemoveAt(lists, k)
        OBVIOUS
      <4>3. r = left
        BY <2>3, <4>2
      <4>4. /\ r \in Seq(OpenLists)
            /\ \A i \in DOMAIN r : r[i] = lists[IF i < k THEN i ELSE i + 1]
        BY <3>1, <4>1, <4>2, RemoveAtFacts
      <4>5. \A j \in DOMAIN lists : j # k => \E i \in DOMAIN r : r[i] = lists[j]
        BY <3>1, <4>1, <4>2, RemoveAtFacts
      <4>6. \A i \in DOMAIN r : (IF i < k THEN i ELSE i + 1) \in DOMAIN lists \ {k}
        BY <3>1, <4>1, <4>2, RemoveAtFacts
      <4>7. \A i, j \in DOMAIN r :
                i # j => (IF i < k THEN i ELSE i + 1) # (IF j < k THEN j ELSE j + 1)
        BY <3>1, <4>1, <4>2, RemoveAtFacts
      <4> QED
        BY <4>3, <4>4, <4>5, <4>6, <4>7
    <3>3. \A i \in DOMAIN left : Was[i] = IF i < k THEN i ELSE i + 1
      BY <2>4
    <3> QED
      BY <3>2, <3>3
  <2>6. PICK m : m = old[k].main
    OBVIOUS
  <2>7. m \in DOMAIN c.mains
    BY <1>8, <2>2, <2>6
  <2>8. PICK mains : mains = [c.mains EXCEPT ![m] = [source |-> 0, state |-> "NONE", segments |-> 0]]
    OBVIOUS
  <2>9. /\ mains \in Seq(MainRecords) /\ DOMAIN mains = DOMAIN s.mains /\ Len(mains) = Len(s.mains)
        /\ mains[m].source = 0
        /\ \A n \in DOMAIN c.mains : n # m => mains[n] = c.mains[n]
    <3>1. [source |-> 0, state |-> "NONE", segments |-> 0] \in MainRecords
      BY DEF MainRecords
    <3> QED
      BY <1>5, <2>7, <2>8, <3>1
  <2>10. d = [c EXCEPT !.disconnects = left, !.mains = mains]
    BY <1>3, <1>5, <1>6, <1>10, <1>13, <2>1, <2>3, <2>6, <2>8 DEF Acked, Controllers
  <2>11. /\ d \in Controllers /\ d.disconnects = left /\ d.mains = mains /\ d.requests = c.requests
         /\ d.connects = s.connects /\ d.flow = s.flow /\ d.step = s.step /\ d.old = s.old
         /\ d.current = s.current /\ d.new = s.new
    BY <1>2, <2>5, <2>9, <2>10 DEF Controllers, RestSame
  <2>12. \A i \in DOMAIN old : i # k => h \notin old[i].open
    BY <1>8, <2>2
  <2>13. \A i \in DOMAIN left :
            /\ Was[i] \in DOMAIN old /\ Was[i] # k
            /\ left[i].main = old[Was[i]].main /\ left[i].open = old[Was[i]].open
    <3> SUFFICES ASSUME NEW i \in DOMAIN left
                 PROVE  /\ Was[i] \in DOMAIN old /\ Was[i] # k
                        /\ left[i].main = old[Was[i]].main /\ left[i].open = old[Was[i]].open
      OBVIOUS
    <3>1. PICK w : w = Was[i]
      OBVIOUS
    <3>2. w \in DOMAIN old /\ w # k /\ left[i] = lists[w]
      BY <1>7, <2>5, <3>1
    <3>3. lists[w].main = old[w].main /\ lists[w].open = old[w].open \ {h} /\ h \notin old[w].open
      BY <1>7, <2>12, <3>2
    <3> QED
      BY <3>1, <3>2, <3>3
  <2>14. \A j \in DOMAIN old : j # k =>
            \E i \in DOMAIN left : left[i].main = old[j].main /\ left[i].open = old[j].open
    <3> SUFFICES ASSUME NEW j \in DOMAIN old, j # k
                 PROVE  \E i \in DOMAIN left : left[i].main = old[j].main /\ left[i].open = old[j].open
      OBVIOUS
    <3>1. lists[j].main = old[j].main /\ lists[j].open = old[j].open
      BY <1>7, <2>12
    <3>2. PICK i \in DOMAIN left : left[i] = lists[j]
      BY <1>7, <2>5
    <3> QED
      BY <3>1, <3>2
  <2>15. ListsFit(d)
    <3>1. \A i \in DOMAIN left : \A q \in left[i].open : d.requests[q] = "disconnect"
      BY <1>2, <1>8, <2>11, <2>12, <2>13
    <3>2. \A i, j \in DOMAIN left : i # j => left[i].open \cap left[j].open = {}
      BY <1>8, <2>5, <2>13
    <3>3. \A i \in DOMAIN left : left[i].main \in DOMAIN mains
      BY <1>5, <1>8, <2>9, <2>13
    <3> QED
      BY <1>5, <1>8, <2>9, <2>11, <3>1, <3>2, <3>3 DEF ListsFit
  <2>16. \A n, q : q \in ToDisconnect(d, n) <=>
            \E j \in DOMAIN old : j # k /\ old[j].main = n /\ q \in old[j].open
    <3>1. \A n, q : q \in ToDisconnect(d, n) <=> \E i \in DOMAIN left : left[i].main = n /\ q \in left[i].open
      BY <2>11 DEF ToDisconnect
    <3> QED
      BY <2>13, <2>14, <3>1
  <2>17. \A n : ToDisconnect(d, n) = ToDisconnect(s, n) \ {h}
    <3> SUFFICES ASSUME NEW n, NEW q PROVE q \in ToDisconnect(d, n) <=> q \in ToDisconnect(s, n) /\ q # h
      OBVIOUS
    <3> QED
      BY <1>9, <2>2, <2>12, <2>16
  <2>18. h \in ToDisconnect(s, m) /\ \A n : n # m => h \notin ToDisconnect(s, n)
    BY <1>9, <2>2, <2>6, <2>12
  <2>19. Due(d) = Due(s) \ {h}
    BY <1>2, <2>11 DEF Due
  <2>20. Answers(s, d, h)
    BY <1>5, <2>9, <2>11, <2>17, <2>18, <2>19 DEF Answers
  <2> QED
    BY <1>1, <1>3, <2>11, <2>15, <2>20
<1> QED
  BY <1>12, <1>13

LEMMA VolumeAnswered ==
    ASSUME NEW s \in Controllers, SimpleInv(s), NEW h \in RequestHandles, s.requests[h] = "volume"
    PROVE  LET d == VolumeAcked([s EXCEPT !.requests[h] = "none"], h) IN
           d \in Controllers /\ ListsFit(d) /\ Answers(s, d, h)
<1>1. PICK c : c = [s EXCEPT !.requests[h] = "none"]
  OBVIOUS
<1>2. /\ c \in Controllers /\ RestSame(s, c)
      /\ \A k \in RequestHandles : c.requests[k] = IF k = h THEN "none" ELSE s.requests[k]
  BY <1>1, AnswerTaken
<1>3. PICK d : d = VolumeAcked(c, h)
  OBVIOUS
<1>4. d \in Controllers /\ RestSame(c, d) /\ d.requests = c.requests
  <2>1. PICK mine : mine = {i \in DOMAIN c.volumes : c.volumes[i].handle = h}
    OBVIOUS
  <2>2. CASE mine = {}
    BY <1>2, <1>3, <2>1, <2>2 DEF VolumeAcked, RestSame
  <2>3. CASE mine # {}
    <3>1. PICK T : T = [handle : RequestHandles, volume : Volumes]
      OBVIOUS
    <3>2. c.volumes \in Seq(T)
      BY <1>2, <3>1 DEF Controllers
    <3>3. FirstOf(mine) \in DOMAIN c.volumes
      <4>1. mine \subseteq Nat
        BY <2>1, <3>2
      <4> QED
        BY <2>1, <2>3, <4>1, FirstOfFacts
    <3>4. PICK left, v : left = RemoveAt(c.volumes, FirstOf(mine)) /\ v = c.volumes[FirstOf(mine)].volume
      OBVIOUS
    <3>5. left \in Seq([handle : RequestHandles, volume : Volumes]) /\ v \in Volumes
      <4>1. left \in Seq(T)
        BY <3>2, <3>3, <3>4, RemoveAtFacts
      <4>2. c.volumes[FirstOf(mine)] \in T
        BY <3>2, <3>3
      <4> QED
        BY <3>1, <3>4, <4>1, <4>2
    <3>6. d = [c EXCEPT !.volumes = left, !.mainVolume = v]
      BY <1>2, <1>3, <2>1, <2>3, <3>4 DEF VolumeAcked, Controllers
    <3> QED
      BY <1>2, <3>5, <3>6 DEF Controllers, RestSame
  <2> QED
    BY <2>2, <2>3
<1>5. \A i \in DOMAIN s.connects : s.connects[i].main \in DOMAIN s.mains
  BY DEF SimpleInv, ListsFit
<1>6. ListsFit(d) /\ Answers(s, d, h)
  BY <1>2, <1>4, <1>5, OtherAnswer DEF RestSame
<1> QED
  BY <1>1, <1>3, <1>4, <1>6

\* The flow, if one is going on, takes the step that is due.
LEMMA CallFlowKeeps ==
    ASSUME CallsAreAccepted, NEW c \in Controllers, BeforeStep(c), \E h, k \in FreeHandles(c) : h # k,
           NEW d \in CallFlow(c)
    PROVE  d \in Controllers /\ SimpleInv(d)
<1>1. CASE c.flow = "none"
  BY <1>1 DEF CallFlow, BeforeStep, SimpleInv
<1>2. CASE c.flow # "none"
  BY <1>2, DoStepKeeps DEF CallFlow
<1> QED
  BY <1>1, <1>2

SimpleIndInv == sc \in Controllers /\ SimpleInv(sc)

LEMMA RoutingAnswersKeeps ==
    ASSUME CallsAreAccepted, SimpleIndInv, NEW h \in RequestHandles, RoutingAnswers(h)
    PROVE  SimpleIndInv'
<1>0. sc \in Controllers /\ SimpleInv(sc) /\ sc.requests[h] # "none" /\ sc.requests[h] \in Kinds
  BY DEF SimpleIndInv, RoutingAnswers, Controllers
<1>1. PICK c : c = [sc EXCEPT !.requests[h] = "none"]
  OBVIOUS
<1>2. /\ c \in Controllers /\ RestSame(sc, c) /\ c.volumes = sc.volumes /\ c.sounds = sc.sounds
      /\ \A k \in RequestHandles : c.requests[k] = IF k = h THEN "none" ELSE sc.requests[k]
      /\ Due(c) = Due(sc) \ {h}
      /\ h \in FreeHandles(c) /\ FreeHandles(sc) \subseteq FreeHandles(c) /\ h \notin FreeHandles(sc)
  BY <1>0, <1>1, AnswerTaken
<1>3. \E k, l \in FreeHandles(c) : k # l
  <2>1. Room(1)
    BY DEF RoutingAnswers
  <2>2. FreeHandles(sc) # {}
    BY <1>0, <2>1, OneIsFree
  <2> QED
    BY <1>2, <2>2
<1>4. \A i \in DOMAIN sc.connects : sc.connects[i].main \in DOMAIN sc.mains
  BY <1>0 DEF SimpleInv, ListsFit
<1>5. CASE sc.requests[h] = "sound"
  <2>1. sc' = [c EXCEPT !.sounds = c.sounds \ {h}]
    BY <1>1, <1>2, <1>5 DEF RoutingAnswers, Controllers
  <2>2. sc' \in Controllers /\ RestSame(sc, sc') /\ sc'.requests = c.requests
    BY <1>2, <2>1 DEF Controllers, RestSame
  <2>3. PICK d : d = sc'
    OBVIOUS
  <2>4. /\ ListsFit(d) /\ Answers(sc, d, h)
    BY <1>0, <1>2, <1>4, <1>5, <2>2, <2>3, OtherAnswer DEF RestSame
  <2>5. Due(d) = Due(sc) /\ SameLists(sc, d) /\ d.step = sc.step
    BY <1>2, <1>5, <2>2, <2>3 DEF Due, RestSame, SameLists
  <2>6. SimpleInv(d)
    <3>1. PlayersFit(d) /\ Rested(d)
      BY <1>0, <2>5, SameListsFacts DEF SimpleInv, PlayersFit, Rested, SameLists
    <3>2. sc.flow = "connect" => ConnectFits(d)
      BY <1>0, <2>5, SameListsFacts DEF SimpleInv, ConnectFits, SameLists
    <3>3. sc.flow \in {"navi", "ta"} => AnnouncementFits(d)
      BY <1>0, <2>5, SameListsFacts DEF SimpleInv, AnnouncementFits, SameLists
    <3>4. \A m : Spare(sc, m) => Spare(d, m)
      BY <2>5, SameListsFacts DEF Spare
    <3> QED
      BY <1>0, <2>4, <2>5, <3>1, <3>2, <3>3, <3>4, SameListsFacts DEF SimpleInv, SameLists
  <2> QED
    BY <2>2, <2>3, <2>6 DEF SimpleIndInv
<1>6. CASE sc.requests[h] # "sound"
  <2>1. PICK d : /\ d = CASE sc.requests[h] = "connect" -> Acked(c, h, "connects")
                          [] sc.requests[h] = "disconnect" -> Acked(c, h, "disconnects")
                          [] sc.requests[h] = "volume" -> VolumeAcked(c, h)
                          [] sc.requests[h] = "other" -> c
                 /\ sc' \in CallFlow(d)
    BY <1>1, <1>6 DEF RoutingAnswers
  <2>2. /\ d \in Controllers /\ ListsFit(d) /\ Answers(sc, d, h) /\ d.requests = c.requests
    <3>1. CASE sc.requests[h] = "connect"
      <4>1. d = Acked(c, h, "connects")
        BY <2>1, <3>1
      <4>2. d.requests = c.requests
        BY <1>2, <4>1 DEF Acked, Controllers
      <4> QED
        BY <1>0, <1>1, <3>1, <4>1, <4>2, ConnectAcked
    <3>2. CASE sc.requests[h] = "disconnect"
      <4>1. d = Acked(c, h, "disconnects")
        BY <2>1, <3>2
      <4>2. d.requests = c.requests
        BY <1>2, <4>1 DEF Acked, Controllers
      <4> QED
        BY <1>0, <1>1, <3>2, <4>1, <4>2, DisconnectAcked
    <3>3. CASE sc.requests[h] = "volume"
      <4>1. d = VolumeAcked(c, h)
        BY <2>1, <3>3
      <4>2. d.requests = c.requests
        BY <1>2, <4>1 DEF VolumeAcked, Controllers
      <4> QED
        BY <1>0, <1>1, <3>3, <4>1, <4>2, VolumeAnswered
    <3>4. CASE sc.requests[h] = "other"
      <4>1. d = c
        BY <2>1, <3>4
      <4> QED
        BY <1>0, <1>2, <1>4, <3>4, <4>1, OtherAnswer DEF RestSame
    <3> QED
      BY <1>0, <1>6, <3>1, <3>2, <3>3, <3>4 DEF Kinds
  <2>3. BeforeStep(d)
    BY <1>0, <2>2, AnswerFits
  <2>4. \E k, l \in FreeHandles(d) : k # l
    BY <1>3, <2>2 DEF FreeHandles
  <2>5. sc' \in Controllers /\ SimpleInv(sc')
    BY <2>1, <2>2, <2>3, <2>4, CallFlowKeeps
  <2> QED
    BY <2>5 DEF SimpleIndInv
<1> QED
  BY <1>5, <1>6

-----------------------------------------------------------------------------
(* Requests of the user *)

LEMMA LastOf ==
    ASSUME NEW n \in Nat, NEW S \in SUBSET (1..n), S # {}
    PROVE  (CHOOSE p \in S : \A q \in S : q <= p) \in S /\ \A q \in S : q <= (CHOOSE p \in S : \A r \in S : r <= p)
<1>1. PICK Up : Up = {x \in Nat : \A q \in S : q <= x}
  OBVIOUS
<1>2. Up \subseteq Nat /\ n \in Up
  BY <1>1
<1>3. PICK x \in Up : \A y \in Up : x <= y
  BY <1>2, LeastOf
<1>4. x \in S
  <2>1. ASSUME x \notin S PROVE FALSE
    <3>1. \A q \in S : q <= x - 1 /\ q \in Nat /\ q >= 1
      BY <1>1, <2>1
    <3>2. x - 1 \in Up
      <4>1. x \in Nat
        BY <1>2, <1>3
      <4>2. PICK q \in S : TRUE
        OBVIOUS
      <4>3. x - 1 \in Nat
        BY <3>1, <4>1, <4>2
      <4> QED
        BY <1>1, <3>1, <4>3
    <3> QED
      BY <1>2, <1>3, <3>2
  <2> QED
    BY <2>1
<1>5. \A q \in S : q <= x
  BY <1>1, <1>3
<1> QED
  BY <1>4, <1>5, Zenon

LEMMA UserConnectsKeeps ==
    ASSUME CallsAreAccepted, SimpleIndInv, NEW s \in Sources, UserConnects(s)
    PROVE  SimpleIndInv'
<1>0. sc \in Controllers /\ SimpleInv(sc) /\ sc.flow = "none" /\ Room(2)
  BY DEF SimpleIndInv, UserConnects
<1>1. /\ sc.mains \in Seq(MainRecords) /\ Len(sc.mains) \in Nat /\ DOMAIN sc.mains = 1..Len(sc.mains)
      /\ \A m \in DOMAIN sc.mains : sc.mains[m] \in MainRecords
  BY <1>0 DEF Controllers
<1> DEFINE existing == Players(sc)
           player == CHOOSE p \in existing : \A q \in existing : q <= p
           flow == CASE ClassOf[s] = 1 -> "connect" [] ClassOf[s] = 2 -> "navi"
                     [] ClassOf[s] = 3 -> "ta" [] OTHER -> "none"
           new == [source |-> s, state |-> "CONNECTING", segments |-> 0]
<1>2. existing # {} => player \in existing /\ \A q \in existing : q <= player
  <2>1. existing \in SUBSET (1..Len(sc.mains))
    BY <1>1 DEF Players
  <2> QED
    BY <1>1, <2>1, LastOf
<1>3. PICK m, f, p : m = Len(sc.mains) + 1 /\ f = flow /\ p = player
  OBVIOUS
<1>4. /\ m \in Nat /\ m \notin DOMAIN sc.mains
      /\ f \in Flows \cup {"none"}
      /\ f = "connect" <=> ClassOf[s] = 1
  BY <1>1, <1>3 DEF Flows
<1>5. PICK mains : mains = Append(sc.mains, new)
  OBVIOUS
<1>6. /\ mains \in Seq(MainRecords) /\ Len(mains) = m /\ DOMAIN mains = DOMAIN sc.mains \cup {m}
      /\ mains[m] = new /\ \A k \in DOMAIN sc.mains : mains[k] = sc.mains[k]
  <2>1. new \in MainRecords
    BY DEF MainRecords
  <2>2. mains \in Seq(MainRecords) /\ Len(mains) = m
    BY <1>1, <1>3, <1>5, <2>1
  <2>3. DOMAIN mains = 1..(Len(sc.mains) + 1)
    BY <1>1, <1>3, <2>2
  <2>4. mains[m] = new /\ \A k \in 1..Len(sc.mains) : mains[k] = sc.mains[k]
    BY <1>1, <1>3, <1>5
  <2> QED
    BY <1>1, <1>3, <2>2, <2>3, <2>4
<1>7. s # 0 /\ new.source = s /\ new.segments = 0
  BY SimpleAssumption
<1>8. PICK old, current, step :
         /\ old = IF existing = {} THEN sc.old ELSE sc.mains[p].source
         /\ current = IF existing = {} THEN sc.current ELSE p
         /\ step = [sc.step EXCEPT !["connect"] = IF f = "none" THEN @ ELSE IF existing = {} THEN 4 ELSE 1]
  OBVIOUS
<1>9. PICK e : e = [sc EXCEPT !.mains = mains, !.new = m, !.flow = f, !.current = current, !.old = old, !.step = step]
  OBVIOUS
<1>10. sc' \in CallFlow(e)
  <2>1. e = [sc EXCEPT
                !.mains = Append(@, [source |-> s, state |-> "CONNECTING", segments |-> 0]),
                !.new = m, !.flow = f,
                !.current = IF existing = {} THEN @ ELSE player,
                !.old = IF existing = {} THEN @ ELSE sc.mains[player].source,
                !.step["connect"] = IF f = "none" THEN @ ELSE IF existing = {} THEN 4 ELSE 1]
    BY <1>0, <1>3, <1>5, <1>8, <1>9 DEF Controllers
  <2> QED
    BY <1>3, <2>1 DEF UserConnects
<1>11. /\ old \in Sources \cup {0} /\ current \in Nat
       /\ existing # {} => p \in DOMAIN sc.mains /\ p # m /\ old # 0
  <2>1. existing # {} => p \in DOMAIN sc.mains /\ sc.mains[p].source # 0
    BY <1>2, <1>3 DEF Players
  <2>2. existing # {} => sc.mains[p].source \in Sources \cup {0} /\ p \in Nat
    BY <1>1, <2>1 DEF MainRecords
  <2>3. sc.old \in Sources \cup {0} /\ sc.current \in Nat
    BY <1>0 DEF Controllers
  <2> QED
    BY <1>4, <1>8, <2>1, <2>2, <2>3
<1>12. /\ step \in [Flows -> 1..10]
       /\ f # "none" => step["connect"] = IF existing = {} THEN 4 ELSE 1
       /\ step["navi"] = sc.step["navi"] /\ step["ta"] = sc.step["ta"]
  <2>1. sc.step \in [Flows -> 1..10] /\ "connect" \in Flows /\ "navi" \in Flows /\ "ta" \in Flows
    BY <1>0 DEF Controllers, Flows
  <2> QED
    BY <1>8, <2>1
<1>13. /\ e \in Controllers /\ e.mains = mains /\ e.new = m /\ e.flow = f /\ e.current = current
       /\ e.old = old /\ e.step = step /\ e.requests = sc.requests /\ e.disconnects = sc.disconnects
       /\ e.connects = sc.connects
  BY <1>0, <1>4, <1>6, <1>9, <1>11, <1>12 DEF Controllers
<1>14. ListsFit(sc) /\ PlayersFit(sc) /\ Rested(sc)
  BY <1>0 DEF SimpleInv
<1>15. ListsFit(e)
  BY <1>6, <1>13, <1>14 DEF ListsFit
<1>16. \A k : ToDisconnect(e, k) = ToDisconnect(sc, k)
  BY <1>13 DEF ToDisconnect
<1>17. ToDisconnect(e, m) = {}
  <2>1. \A i \in DOMAIN sc.disconnects : sc.disconnects[i].main # m
    BY <1>4, <1>14 DEF ListsFit
  <2> QED
    BY <1>16, <2>1 DEF ToDisconnect
<1>18. Players(e) = existing \cup (IF f = "connect" THEN {m} ELSE {})
  <2>1. \A k : k \in Players(e) <=>
           (k \in DOMAIN sc.mains \/ k = m) /\ mains[k].source # 0 /\ ClassOf[mains[k].source] = 1
    BY <1>6, <1>13 DEF Players
  <2>2. \A k \in DOMAIN sc.mains :
           mains[k].source # 0 /\ ClassOf[mains[k].source] = 1 <=> k \in existing
    BY <1>6 DEF Players
  <2>3. mains[m].source = s /\ existing \subseteq DOMAIN sc.mains
    BY <1>6, <1>7 DEF Players
  <2>4. \A k : k \in Players(e) <=> k \in existing \/ (k = m /\ f = "connect")
    BY <1>4, <1>7, <2>1, <2>2, <2>3
  <2> QED
    BY <2>4
<1>19. \A k \in existing : sc.mains[k].segments # 0 /\ mains[k] = sc.mains[k] /\ k \in DOMAIN sc.mains
  BY <1>0, <1>6, <1>14 DEF PlayersFit, Players
<1>20. PlayersFit(e)
  <2>1. ASSUME NEW k \in Players(e), e.mains[k].segments = 0
        PROVE  e.flow = "connect" /\ k = e.new /\ e.step["connect"] <= 4
    <3>1. k \notin existing
      BY <1>13, <1>19, <2>1
    <3>2. f = "connect" /\ k = m
      BY <1>18, <2>1, <3>1
    <3> QED
      BY <1>12, <1>13, <3>2
  <2>2. ASSUME NEW k \in Players(e), ToDisconnect(e, k) = {}
        PROVE  \/ \A n \in Players(e) : n <= k
               \/ e.flow = "connect" /\ k = e.current /\ e.step["connect"] <= 3
    <3>1. \A q \in existing : q \in Nat /\ q <= m
      BY <1>1, <1>3, <1>19
    <3>2. CASE k \notin existing
      BY <1>4, <1>18, <2>2, <3>1, <3>2
    <3>3. CASE k \in existing
      <4>1. \A q \in existing : q <= k
        BY <1>0, <1>14, <1>16, <2>2, <3>3 DEF PlayersFit
      <4>2. CASE f = "connect"
        <5>1. k = p
          BY <1>2, <1>3, <3>1, <3>3, <4>1
        <5> QED
          BY <1>8, <1>12, <1>13, <3>3, <4>2, <5>1
      <4>3. CASE f # "connect"
        BY <1>18, <4>1, <4>3
      <4> QED
        BY <4>2, <4>3
    <3> QED
      BY <3>2, <3>3
  <2> QED
    BY <2>1, <2>2 DEF PlayersFit
<1>21. Rested(e)
  BY <1>0, <1>12, <1>13, <1>14 DEF Rested
<1>22. f = "connect" =>
          /\ ConnectFits(e) /\ e.step["connect"] \in 1..7
          /\ e.step["connect"] <= 3 => Ready(e, e.current)
  <2> SUFFICES ASSUME f = "connect"
               PROVE  /\ ConnectFits(e) /\ e.step["connect"] \in 1..7
                      /\ e.step["connect"] <= 3 => Ready(e, e.current)
    OBVIOUS
  <2>1. e.step["connect"] = IF existing = {} THEN 4 ELSE 1
    BY <1>12, <1>13
  <2>2. e.step["connect"] <= 3 => e.old # 0 /\ e.current \in DOMAIN e.mains /\ e.current # e.new
    <3>1. CASE existing = {}
      <4>1. e.step["connect"] = 4
        BY <2>1, <3>1
      <4> QED
        BY <4>1
    <3>2. CASE existing # {}
      <4>1. e.old = old /\ e.current = p /\ e.new = m
        BY <1>8, <1>13, <3>2
      <4>2. p \in DOMAIN e.mains /\ p # m /\ old # 0
        BY <1>6, <1>11, <1>13, <3>2
      <4> QED
        BY <4>1, <4>2
    <3> QED
      BY <3>1, <3>2
  <2>3. ConnectFits(e)
    BY <1>4, <1>6, <1>7, <1>13, <1>17, <2>2 DEF ConnectFits
  <2>4. e.step["connect"] <= 3 => Ready(e, e.current)
    <3>1. existing # {} => p \in existing /\ sc.mains[p].source # 0
      BY <1>2, <1>3 DEF Players
    <3>2. existing # {} => HasRoute(e, e.current)
      BY <1>8, <1>13, <1>19, <3>1 DEF HasRoute
    <3> QED
      BY <2>1, <3>2 DEF Ready
  <2> QED
    BY <2>1, <2>3, <2>4
<1>23. f \in {"navi", "ta"} =>
          /\ AnnouncementFits(e)
          /\ e.old # 0 /\ e.step[e.flow] \in 6..9 => Ready(e, e.new)
  <2> SUFFICES ASSUME f \in {"navi", "ta"}
               PROVE  /\ AnnouncementFits(e)
                      /\ e.old # 0 /\ e.step[e.flow] \in 6..9 => Ready(e, e.new)
    OBVIOUS
  <2>1. e.flow = f /\ e.step[f] \in {1, 10} /\ ClassOf[s] # 1
    BY <1>0, <1>4, <1>12, <1>13, <1>14 DEF Rested
  <2>2. ~(e.step[f] \in 6..9) /\ ~(e.step[f] \in 3..5)
    BY <2>1
  <2>3. AnnouncementFits(e)
    BY <1>6, <1>7, <1>13, <1>17, <2>1, <2>2 DEF AnnouncementFits
  <2> QED
    BY <2>1, <2>2, <2>3
<1>24. BeforeStep(e)
  BY <1>13, <1>15, <1>20, <1>21, <1>22, <1>23 DEF BeforeStep
<1>25. \E h, k \in FreeHandles(e) : h # k
  BY <1>0, <1>13, TwoAreFree DEF FreeHandles
<1>26. sc' \in Controllers /\ SimpleInv(sc')
  BY <1>10, <1>13, <1>24, <1>25, CallFlowKeeps
<1> QED
  BY <1>26 DEF SimpleIndInv

\* Without a flow only the lists and players matter.
LEMMA QuietFits ==
    ASSUME NEW c, c.flow = "none", ListsFit(c), PlayersFit(c), Rested(c)
    PROVE  SimpleInv(c)
BY DEF SimpleInv

\* What the refused request has overwritten does not matter before the next one.
LEMMA UserConnectsAgainKeeps ==
    ASSUME SimpleIndInv, NEW s \in Sources, UserConnectsAgain(s)
    PROVE  SimpleIndInv'
<1>1. sc \in Controllers /\ SimpleInv(sc) /\ sc.flow = "none" /\ DOMAIN sc.mains = 1..Len(sc.mains)
  BY DEF SimpleIndInv, UserConnectsAgain, Controllers
<1>2. PICK m \in DOMAIN sc.mains :
        LET passed == {p \in Players(sc) : p < m}
            player == CHOOSE p \in passed : \A q \in passed : q <= p
        IN sc' = IF passed = {} THEN sc
                 ELSE [sc EXCEPT !.current = player, !.old = sc.mains[player].source]
  BY DEF UserConnectsAgain
<1> DEFINE passed == {p \in Players(sc) : p < m}
<1>3. CASE passed = {}
  BY <1>2, <1>3 DEF SimpleIndInv
<1>4. CASE passed # {}
  <2>1. PICK n, S : n = Len(sc.mains) /\ S = passed
    OBVIOUS
  <2>2. n \in Nat /\ S \in SUBSET (1..n) /\ S # {}
    BY <1>1, <1>4, <2>1 DEF Players, Controllers
  <2>3. PICK player : player = CHOOSE p \in S : \A q \in S : q <= p
    OBVIOUS
  <2>4. player \in 1..n
    BY <2>2, <2>3, LastOf
  <2>5. player \in DOMAIN sc.mains /\ player \in Nat /\ sc.mains[player] \in MainRecords
    BY <1>1, <2>1, <2>4 DEF Controllers
  <2>6. sc.mains[player].source \in Sources \cup {0}
    BY <2>5 DEF MainRecords
  <2>7. PICK d : d = [sc EXCEPT !.current = player, !.old = sc.mains[player].source]
    OBVIOUS
  <2>8. /\ d \in Controllers /\ d.flow = "none" /\ d.mains = sc.mains /\ d.requests = sc.requests
        /\ d.connects = sc.connects /\ d.disconnects = sc.disconnects /\ d.step = sc.step
    BY <1>1, <2>7, <2>5, <2>6 DEF Controllers
  <2>9. Players(d) = Players(sc) /\ \A k : ToDisconnect(d, k) = ToDisconnect(sc, k)
    BY <2>8 DEF Players, ToDisconnect
  <2>10. ListsFit(d) /\ PlayersFit(d) /\ Rested(d)
    BY <1>1, <2>8, <2>9 DEF SimpleInv, ListsFit, PlayersFit, Rested
  <2>11. sc' = d
    BY <1>2, <1>4, <2>1, <2>3, <2>7
  <2> QED
    BY <2>8, <2>10, <2>11, QuietFits DEF SimpleIndInv
<1> QED
  BY <1>3, <1>4

LEMMA UserDisconnectsKeeps ==
    ASSUME CallsAreAccepted, SimpleIndInv, NEW m \in Mains, UserDisconnects(m)
    PROVE  SimpleIndInv'
<1>0. sc \in Controllers /\ SimpleInv(sc) /\ Room(2) /\ m \in DOMAIN sc.mains
  BY DEF SimpleIndInv, UserDisconnects
<1>1. \E h, k \in FreeHandles(sc) : h # k
  BY <1>0, TwoAreFree
<1>2. CASE sc.flow \in {"navi", "ta"} /\ sc' \in DoStep([sc EXCEPT !.step[sc.flow] = RampDownAgain])
  <2>1. PICK f, step : f = sc.flow /\ step = [sc.step EXCEPT ![f] = 6]
    OBVIOUS
  <2>2. PICK e : e = [sc EXCEPT !.step = step]
    OBVIOUS
  <2>3. sc' \in DoStep(e)
    <3>1. e = [sc EXCEPT !.step[sc.flow] = RampDownAgain]
      BY <1>0, <2>1, <2>2 DEF Controllers, RampDownAgain
    <3> QED
      BY <1>2, <3>1
  <2>4. /\ step \in [Flows -> 1..10] /\ step[f] = 6 /\ \A g \in Flows : g # f => step[g] = sc.step[g]
    <3>1. sc.step \in [Flows -> 1..10] /\ f \in Flows
      BY <1>0, <1>2, <2>1 DEF Controllers, Flows
    <3> QED
      BY <2>1, <3>1
  <2>5. e \in Controllers /\ SameLists(sc, e) /\ e.connects = sc.connects /\ e.requests = sc.requests /\ e.step = step
    BY <1>0, <2>2, <2>4 DEF Controllers, SameLists
  <2>6. ListsFit(e) /\ Due(e) = Due(sc)
    BY <1>0, <2>5 DEF SimpleInv, ListsFit, Due, SameLists
  <2>7. PlayersFit(e)
    BY <1>0, <1>2, <2>5, SameListsFacts DEF SimpleInv, PlayersFit, SameLists
  <2>8. Rested(e)
    BY <1>0, <1>2, <2>1, <2>4, <2>5, RestedStays DEF SimpleInv, SameLists
  <2>9. /\ AnnouncementFits(sc) /\ sc.step[f] \in 2..10
        /\ sc.step[f] = 6 => HasRoute(sc, sc.new)
        /\ sc.old # 0 /\ sc.step[f] # 6 => Due(sc) # {}
    BY <1>0, <1>2, <2>1 DEF SimpleInv
  <2>10. AnnouncementFits(e)
    BY <1>2, <2>1, <2>4, <2>5, <2>9, SameListsFacts DEF AnnouncementFits, SameLists
  <2>11. e.old # 0 => Ready(e, e.new)
    BY <2>5, <2>6, <2>9, SameListsFacts DEF Ready, SameLists
  <2>12. BeforeStep(e) /\ e.flow # "none"
    BY <1>2, <2>5, <2>6, <2>7, <2>8, <2>10, <2>11 DEF BeforeStep, SameLists
  <2>13. sc' \in Controllers /\ SimpleInv(sc')
    BY <1>1, <2>3, <2>5, <2>12, DoStepKeeps DEF FreeHandles
  <2> QED
    BY <2>13 DEF SimpleIndInv
<1>3. CASE sc.flow = "none" /\ sc' = Disconnect(sc, m)
  <2>1. ListsFit(sc) /\ PlayersFit(sc) /\ Rested(sc)
    BY <1>0 DEF SimpleInv
  <2>2. PICK d : d = Disconnect(sc, m)
    OBVIOUS
  <2>3. /\ d \in Controllers /\ ListsFit(d) /\ d.mains = sc.mains /\ d.flow = sc.flow /\ d.step = sc.step
        /\ \A n : ToDisconnect(sc, n) \subseteq ToDisconnect(d, n)
    BY <1>0, <1>1, <2>1, <2>2, DisconnectFacts
  <2>4. PlayersFit(d) /\ Rested(d)
    <3>1. Players(d) = Players(sc)
      BY <2>3 DEF Players
    <3>2. \A n : ToDisconnect(d, n) = {} => ToDisconnect(sc, n) = {}
      BY <2>3
    <3> QED
      BY <1>3, <2>1, <2>3, <3>1, <3>2 DEF PlayersFit, Rested
  <2>5. SimpleInv(d)
    BY <1>3, <2>3, <2>4, QuietFits
  <2> QED
    BY <1>3, <2>2, <2>3, <2>5 DEF SimpleIndInv
<1> QED
  BY <1>2, <1>3 DEF UserDisconnects

\* Requests for volumes and sound properties are made while no flow goes on.
LEMMA AskingKeeps ==
    ASSUME NEW c \in Controllers, SimpleInv(c), c.flow = "none", FreeHandles(c) # {},
           NEW kind \in {"volume", "sound"}, NEW d,
           d.mains = c.mains, d.connects = c.connects, d.disconnects = c.disconnects,
           d.flow = c.flow, d.step = c.step, d.requests = Asked(c, kind).requests
    PROVE  SimpleInv(d)
<1>1. PICK e : e = Asked(c, kind)
  OBVIOUS
<1>2. ListsFit(e) /\ RestSame(c, e)
  BY <1>1, AskedFacts DEF SimpleInv, Kinds
<1>3. ListsFit(d)
  BY <1>1, <1>2 DEF ListsFit, RestSame
<1>4. PlayersFit(d) /\ Rested(d)
  BY DEF SimpleInv, PlayersFit, Rested, Players, ToDisconnect
<1> QED
  BY <1>3, <1>4, QuietFits

LEMMA UserAsksKeeps ==
    ASSUME SimpleIndInv, (\E v \in Volumes : UserSetsVolume(v)) \/ UserMutes \/ UserSetsSound
    PROVE  SimpleIndInv'
<1>0. sc \in Controllers /\ SimpleInv(sc)
  BY DEF SimpleIndInv
<1>1. sc.flow = "none" /\ FreeHandles(sc) # {}
  BY <1>0, OneIsFree DEF UserSetsVolume, UserMutes, UserSetsSound
<1>2. NextHandle(sc) \in RequestHandles
  BY <1>0, <1>1, NextHandleFacts DEF FreeHandles
<1>3. ASSUME NEW v \in Volumes,
             sc' = [Asked(sc, "volume") EXCEPT !.volumes = Append(@, [handle |-> NextHandle(sc), volume |-> v])]
      PROVE  SimpleIndInv'
  <2>1. PICK e : e = Asked(sc, "volume")
    OBVIOUS
  <2>2. e \in Controllers /\ RestSame(sc, e)
    BY <1>0, <1>1, <2>1, AskedFacts DEF Kinds
  <2>3. PICK T : T = [handle : RequestHandles, volume : Volumes]
    OBVIOUS
  <2>4. [handle |-> NextHandle(sc), volume |-> v] \in T
    BY <1>2, <2>3
  <2>5. PICK vs : vs = Append(e.volumes, [handle |-> NextHandle(sc), volume |-> v])
    OBVIOUS
  <2>6. vs \in Seq(T)
    BY <2>2, <2>3, <2>4, <2>5 DEF Controllers
  <2>7. sc' = [e EXCEPT !.volumes = vs]
    BY <1>3, <2>1, <2>2, <2>5 DEF Controllers
  <2>8. sc' \in Controllers /\ RestSame(sc, sc') /\ sc'.requests = e.requests
    BY <2>2, <2>3, <2>6, <2>7 DEF Controllers, RestSame
  <2>9. SimpleInv(sc')
    BY <1>0, <1>1, <2>1, <2>8, AskingKeeps DEF RestSame
  <2> QED
    BY <2>8, <2>9 DEF SimpleIndInv
<1>4. CASE UserSetsSound
  <2>1. PICK e : e = Asked(sc, "sound")
    OBVIOUS
  <2>2. e \in Controllers /\ RestSame(sc, e)
    BY <1>0, <1>1, <2>1, AskedFacts DEF Kinds
  <2>3. sc' = [e EXCEPT !.sounds = {NextHandle(sc)}]
    BY <1>4, <2>1 DEF UserSetsSound
  <2>4. sc' \in Controllers /\ RestSame(sc, sc') /\ sc'.requests = e.requests
    BY <1>2, <2>2, <2>3 DEF Controllers, RestSame
  <2>5. SimpleInv(sc')
    BY <1>0, <1>1, <2>1, <2>4, AskingKeeps DEF RestSame
  <2> QED
    BY <2>4, <2>5 DEF SimpleIndInv
<1>5. sc.mainVolume \in Volumes
  BY <1>0 DEF Controllers
<1> QED
  BY <1>3, <1>4, <1>5 DEF UserSetsVolume, UserMutes

-----------------------------------------------------------------------------
(* The theorems *)

LEMMA SimpleStarts == SimpleInit => SimpleIndInv
<1> SUFFICES ASSUME SimpleInit PROVE SimpleIndInv
  OBVIOUS
<1>1. (CHOOSE v \in Volumes : TRUE) \in Volumes
  BY SimpleAssumption
<1>2. /\ sc.mains = <<>> /\ sc.connects = <<>> /\ sc.disconnects = <<>> /\ sc.flow = "none"
      /\ sc.step = [f \in Flows |-> 1]
  BY DEF SimpleInit
<1>3. sc \in Controllers
  BY <1>1 DEF SimpleInit, Controllers, Kinds
<1>4. ListsFit(sc) /\ PlayersFit(sc) /\ Rested(sc)
  BY <1>2 DEF ListsFit, PlayersFit, Players, Rested, Flows
<1> QED
  BY <1>2, <1>3, <1>4, QuietFits DEF SimpleIndInv

\* The inductive invariant: the types, and what is due in the step a flow has come to.
LEMMA SimpleInductive == CallsAreAccepted => (SimpleSpec => []SimpleIndInv)
<1> SUFFICES ASSUME CallsAreAccepted PROVE SimpleSpec => []SimpleIndInv
  OBVIOUS
<1>1. SimpleIndInv /\ [SimpleNext]_sc => SimpleIndInv'
  <2> SUFFICES ASSUME SimpleIndInv, [SimpleNext]_sc PROVE SimpleIndInv'
    OBVIOUS
  <2>1. CASE \E s \in Sources : UserConnects(s) \/ UserConnectsAgain(s)
    BY <2>1, UserConnectsKeeps, UserConnectsAgainKeeps
  <2>2. CASE \E m \in Mains : UserDisconnects(m)
    BY <2>2, UserDisconnectsKeeps
  <2>3. CASE (\E v \in Volumes : UserSetsVolume(v)) \/ UserMutes \/ UserSetsSound
    BY <2>3, UserAsksKeeps
  <2>4. CASE \E h \in RequestHandles : RoutingAnswers(h)
    BY <2>4, RoutingAnswersKeeps
  <2>5. CASE UNCHANGED sc
    BY <2>5 DEF SimpleIndInv
  <2> QED
    BY <2>1, <2>2, <2>3, <2>4, <2>5 DEF SimpleNext
<1> QED
  BY <1>1, SimpleStarts, PTL DEF SimpleSpec

\* A flow of the simple controller is never stuck: whatever answers of earlier requests have
\* taken it further too early, one more is due until it ends or waits for the user; if the
\* daemon takes the calls of the flow, RAMP_UP apart.
THEOREM FlowsGoOn == CallsAreAccepted => (SimpleSpec => []FlowGoesOn)
<1> SUFFICES ASSUME CallsAreAccepted PROVE SimpleSpec => []FlowGoesOn
  OBVIOUS
<1>1. SimpleIndInv => FlowGoesOn
  <2> SUFFICES ASSUME SimpleIndInv, sc.flow # "none", ~Held, sc.flow # "connect" => sc.old # 0
               PROVE  \E h \in RequestHandles : sc.requests[h] \notin {"none", "sound"}
    BY DEF FlowGoesOn
  <2>1. sc.flow \in {"connect", "navi", "ta"}
    BY DEF SimpleIndInv, Controllers, Flows
  <2>2. Due(sc) # {}
    BY <2>1 DEF SimpleIndInv, SimpleInv, Held, RampDownAgain
  <2> QED
    BY <2>2 DEF Due
<1> QED
  BY <1>1, SimpleInductive, PTL

\* When nothing is asked for any more, one player is left, if the daemon takes those calls.
THEOREM OnePlayerIsLeft == CallsAreAccepted => (SimpleSpec => []OnePlayerLeft)
<1> SUFFICES ASSUME CallsAreAccepted PROVE SimpleSpec => []OnePlayerLeft
  OBVIOUS
<1>1. SimpleIndInv => OnePlayerLeft
  <2> SUFFICES ASSUME SimpleIndInv, sc.flow = "none", \A h \in RequestHandles : sc.requests[h] = "none"
               PROVE  Cardinality(Players(sc)) <= 1
    BY DEF OnePlayerLeft
  <2>1. ListsFit(sc) /\ PlayersFit(sc) /\ sc \in Controllers
    BY DEF SimpleIndInv, SimpleInv
  <2>2. \A m : ToDisconnect(sc, m) = {}
    BY <2>1, ToDisconnectFacts DEF Due
  <2>3. \A m, n \in Players(sc) : m = n
    <3>1. \A m, n \in Players(sc) : n <= m
      BY <2>1, <2>2 DEF PlayersFit
    <3>2. \A m \in Players(sc) : m \in Nat
      BY <2>1 DEF Players, Controllers
    <3> QED
      BY <3>1, <3>2
  <2>4. CASE Players(sc) = {}
    <3>1. Cardinality(Players(sc)) = 0
      BY <2>4, FS_EmptySet
    <3> QED
      BY <3>1
  <2>5. CASE Players(sc) # {}
    <3>1. PICK m : Players(sc) = {m}
      BY <2>3, <2>5
    <3>2. Cardinality(Players(sc)) = 1
      BY <3>1, FS_Singleton
    <3> QED
      BY <3>2
  <2> QED
    BY <2>4, <2>5
<1> QED
  BY <1>1, SimpleInductive, PTL
=============================================================================
