------------------------ MODULE AlsaAdapter_proofs ------------------------
(***************************************************************************)
(* Theorems about the threads of the ALSA adapter, for every set of        *)
(* connections, handles and mixer elements.                                *)
(***************************************************************************)
EXTENDS AlsaAdapter, UsbCards, FiniteSetTheorems, WellFoundedInduction, TLAPS

-----------------------------------------------------------------------------
(* Facts about the constants *)

LEMMA ThreadFacts ==
    /\ Proxies \subseteq Threads /\ Ramps \subseteq Threads /\ Proxies \cap Ramps = {}
    /\ Threads = Proxies \cup Ramps /\ NoThread \notin Threads
    /\ \A c \in HasProxy : Proxy(c) \in Proxies
    /\ \A c, d : Proxy(c) = Proxy(d) => c = d
    /\ \A w \in Proxies : w[1] \in HasProxy /\ w = Proxy(w[1])
    /\ \A w \in Ramps : HandleOf(w) \in AHandles /\ EndOf(w) \in AEnds
                        /\ w = <<HandleOf(w), EndOf(w)>>
    /\ \A h \in AHandles, e \in AEnds : <<h, e>> \in Ramps
    /\ HasProxy \subseteq AConnections /\ AConnections \subseteq Nat \ {0}
BY AlsaAssumption DEF Proxies, Ramps, NoThread, Proxy, HandleOf, EndOf

LEMMA LeastOfSet ==
    ASSUME NEW S, S \subseteq Nat, S # {}
    PROVE  Min(S) \in S /\ \A y \in S : Min(S) <= y
<1>1. PICK x \in S : \A y \in S : ~(<<y, x>> \in OpToRel(<, Nat))
  BY NatLessThanWellFounded, WFMin
<1>2. ASSUME NEW y \in S
      PROVE  ~(y < x)
  <2>1. y \in Nat /\ x \in Nat /\ <<y, x>> \in Nat \X Nat
    OBVIOUS
  <2>2. QED
    BY <1>1, <2>1, Zenon DEF OpToRel
<1>3. \A y \in S : x =< y
  BY <1>2
<1>4. QED
  BY <1>3 DEF Min

-----------------------------------------------------------------------------
(* The inductive invariant *)

MStates == {"JOINED", "FORKING", "RUNNING", "STOPPING", "STOPPED", "JOINING"}
WorkerPlaces == {"none", "init", "work", "check", "halt", "wait", "test", "leave", "deinit",
                 "exit", "undefined"}
CallPlaces == {"idle", "start", "stop", "join", "fork", "FORKING", "verdict", "reap", "resume",
               "halt", "STOPPING", "joining", "done"}
Requests ==
    {NoRequest} \cup [op : {"disconnect"}, c : HasProxy]
    \cup [op : {"state"}, s : ASources, state : {"ON", "OFF"}]
    \cup [op : {"volume", "fading"}, h : AHandles, left : SUBSET AEnds, v : AVolumes]
    \cup [op : {"abort"}, h : AHandles, left : SUBSET Ramps] \cup [op : {"delete"}]

\* The shape of the state.
Shape ==
    /\ mState \in [Threads -> MStates]
    /\ worker \in [Threads -> WorkerPlaces]
    /\ ended \in [Threads -> BOOLEAN]
    /\ object \in [Threads -> {"none", "whole", "base"}]
    /\ call \in [at : CallPlaces, thread : Threads \cup {NoThread}, next : CallPlaces]
    /\ request \in Requests
    /\ links \subseteq AConnections /\ highest \in Nat
    /\ sourceState \in [ASources -> {"ON", "OFF"}]
    /\ ops \in [AHandles -> SUBSET Ramps] /\ used \subseteq AHandles

\* What mState says of where the thread is.  A proxy ends only when told to, unless its
\* initThread() has failed.
Fits(w, state, place, err) ==
    /\ state = "JOINED" <=> place = "none"
    /\ state = "STOPPED" => place = "wait"
    /\ place = "init" => state = "FORKING"
    /\ place = "halt" => state = "STOPPING"
    /\ place \in {"deinit", "exit"} => state = "JOINING"
    /\ w \in Proxies => /\ err => place \in {"none", "leave", "deinit", "exit"}
                        /\ place = "leave" => state \in {"FORKING", "JOINING"}
WorkerFits == \A w \in Threads : Fits(w, mState[w], worker[w], ended[w])

\* What the daemon's thread knows of mState: of the threads it has nothing to do with, and
\* of the one it is starting, stopping or joining.  A ramp may end by itself.
Rest(w) == IF w \in Proxies THEN {"JOINED", "RUNNING", "STOPPED"} ELSE {"JOINED", "RUNNING", "JOINING"}
Known(at, w) ==
    CASE at \in {"start", "stop", "join", "done"} -> Rest(w)
      [] at = "fork"     -> {"JOINED"}
      [] at = "FORKING"  -> {"FORKING", "RUNNING", "JOINING"}
      [] at = "verdict"  -> {"RUNNING", "JOINING"}
      [] at = "reap"     -> {"JOINING"}
      [] at = "resume"   -> {"STOPPED"}
      [] at = "halt"     -> {"RUNNING"}
      [] at = "STOPPING" -> {"STOPPING", "STOPPED"}
      [] at = "joining"  -> Rest(w) \ {"JOINED"}
      [] at = "idle"     -> {}
AfterWait(at, next) == (at = "FORKING" => next = "verdict") /\ (at = "STOPPING" => next = "done")
CallFits ==
    /\ \A w \in Threads : mState[w] \in IF call.thread = w THEN Known(call.at, w) ELSE Rest(w)
    /\ AfterWait(call.at, call.next)

\* What the call is for, and what it has achieved when it returns.
Starting == {"start", "fork", "FORKING", "verdict", "reap", "done"}
Stopping == {"stop", "halt", "STOPPING", "done"}
Joins    == {"join", "joining", "reap", "done"}
Serves(at, state) ==
    /\ request.op \in {"disconnect", "abort", "delete"} =>
          at \in Joins /\ (at = "done" => state = "JOINED")
    /\ request.op = "state" =>
          IF request.state = "ON"
          THEN at \in Starting \cup {"resume"}
          ELSE at \in Stopping /\ (at = "done" => state \in {"JOINED", "STOPPED"})
    /\ request.op = "fading" => at \in Starting /\ (at = "start" => state = "JOINED")
RequestFits ==
    /\ request.op \in {"none", "volume"} <=> call = NoCall
    /\ request.op = "disconnect" => call.thread = Proxy(request.c) /\ request.c \in links
    /\ request.op = "state" =>
          LinkOf(request.s) \in HasProxy /\ call.thread = Proxy(LinkOf(request.s))
    /\ request.op = "fading" => \E e \in request.left : call.thread = <<request.h, e>>
    /\ request.op \in {"abort", "delete"} => call.thread \in Ramps
    /\ call # NoCall => Serves(call.at, mState[call.thread])

\* An object that does not exist has no thread, nor has one that is about to be made.
ObjectsFit ==
    /\ \A w \in Threads : object[w] = "none" => mState[w] = "JOINED"
    /\ \A c \in HasProxy : object[Proxy(c)] = IF c \in links THEN "whole" ELSE "none"
    /\ \A w \in Ramps : HandleOf(w) \notin used => object[w] = "none"
    /\ request.op \in {"volume", "fading"} =>
          /\ request.h \in used
          /\ \A e \in request.left : call.thread # <<request.h, e>> => object[<<request.h, e>>] = "none"
    /\ request.op = "fading" => object[call.thread] = "whole"
    /\ request.op = "abort" => request.h \in used /\ \A w \in request.left : HandleOf(w) = request.h
    /\ \A h \in AHandles : \A w \in ops[h] : HandleOf(w) = h /\ h \in used

\* Of the proxies of a source only the first may have a thread, and that one waits when the
\* source is OFF and the daemon's thread is not busy with it.
SourcesFit ==
    /\ \A c \in links : c <= highest
    /\ \A c \in HasProxy : mState[Proxy(c)] # "JOINED" => c \in links /\ c = LinkOf(SourceOf[c])
    /\ \A c \in HasProxy : sourceState[SourceOf[c]] = "OFF" =>
          mState[Proxy(c)] \in {"JOINED", "STOPPED"} \/ call.thread = Proxy(c)

AlsaInv == Shape /\ WorkerFits /\ CallFits /\ RequestFits /\ ObjectsFit /\ SourcesFit

\* The objects in the list of a handle are there, but for those that are being deleted, and
\* no list has more than one.
OpsFit ==
    /\ \A h \in AHandles : \A v, w \in ops[h] : v = w
    /\ \A h \in AHandles : \A w \in ops[h] :
          object[w] = "whole" \/ (request.op = "abort" /\ request.h = h)
                              \/ (request.op = "delete" /\ call.thread = w)
    /\ request.op \in {"volume", "fading"} => ops[request.h] = {} /\ \E e \in AEnds : request.left = {e}
    /\ request.op = "abort" => request.left = {} /\ HandleOf(call.thread) = request.h
    /\ request.op = "delete" => call.thread \in ops[HandleOf(call.thread)]

-----------------------------------------------------------------------------
(* What the invariant says of a call in progress and of the links *)

LEMMA CallIsOf ==
    ASSUME AlsaInv, call # NoCall
    PROVE  /\ call.thread \in Threads
           /\ request.op \in {"disconnect", "state", "fading", "abort", "delete"}
           /\ call.at # "idle"
<1>1. request.op \in {"none", "disconnect", "state", "volume", "fading", "abort", "delete"}
  BY DEF AlsaInv, Shape, Requests, NoRequest
<1>2. request.op \in {"disconnect", "state", "fading", "abort", "delete"}
  BY <1>1 DEF AlsaInv, RequestFits
<1>3. CASE request.op = "disconnect"
  <2>1. request.c \in HasProxy
    BY <1>3 DEF AlsaInv, Shape, Requests, NoRequest
  <2>2. QED
    BY <1>2, <1>3, <2>1, ThreadFacts DEF AlsaInv, RequestFits, Serves, Joins, NoCall
<1>4. CASE request.op = "state"
  BY <1>2, <1>4, ThreadFacts DEF AlsaInv, RequestFits, Serves, Starting, Stopping, NoCall
<1>5. CASE request.op = "fading"
  <2>1. request.h \in AHandles /\ request.left \subseteq AEnds
    BY <1>5 DEF AlsaInv, Shape, Requests, NoRequest
  <2>2. QED
    BY <1>2, <1>5, <2>1, ThreadFacts DEF AlsaInv, RequestFits, Serves, Starting, NoCall
<1>6. CASE request.op \in {"abort", "delete"}
  BY <1>2, <1>6, ThreadFacts DEF AlsaInv, RequestFits, Serves, Joins, NoCall
<1>7. QED
  BY <1>2, <1>3, <1>4, <1>5, <1>6

LEMMA LinkOfSource ==
    ASSUME AlsaInv, NEW s
    PROVE  /\ LinksOf(s) = {} => LinkOf(s) = 0
           /\ LinksOf(s) # {} => LinkOf(s) \in LinksOf(s) /\ \A c \in LinksOf(s) : LinkOf(s) <= c
           /\ LinkOf(s) \in HasProxy => LinkOf(s) \in links /\ SourceOf[LinkOf(s)] = s
<1>1. LinksOf(s) \subseteq Nat /\ LinksOf(s) \subseteq links
  BY ThreadFacts DEF AlsaInv, Shape, LinksOf
<1>2. LinksOf(s) # {} => LinkOf(s) \in LinksOf(s) /\ \A c \in LinksOf(s) : LinkOf(s) <= c
  BY <1>1, LeastOfSet DEF LinkOf
<1>3. 0 \notin HasProxy
  BY ThreadFacts
<1>4. QED
  BY <1>1, <1>2, <1>3 DEF LinkOf, LinksOf

LEMMA StateCallsProxy ==
    ASSUME AlsaInv, request.op = "state"
    PROVE  call.thread \in Proxies
BY ThreadFacts DEF AlsaInv, RequestFits

-----------------------------------------------------------------------------
(* The daemon's thread in startThread(), stopThread(), joinThread() *)

\* Nothing changes but what belongs to one thread.
OnlyThread(w) ==
    /\ mState' \in [Threads -> MStates] /\ worker' \in [Threads -> WorkerPlaces]
    /\ ended' \in [Threads -> BOOLEAN]
    /\ \A v \in Threads \ {w} :
          mState'[v] = mState[v] /\ worker'[v] = worker[v] /\ ended'[v] = ended[v]
    /\ UNCHANGED <<object, request, links, highest, sourceState, ops, used>>

\* A step of a call changes mState and the place of its thread, and where the call is.
LEMMA CallMoves ==
    ASSUME AlsaInv, call # NoCall, NEW w, w = call.thread, OnlyThread(w),
           NEW a \in CallPlaces \ {"idle"}, NEW n \in CallPlaces,
           call' = [call EXCEPT !.at = a, !.next = n],
           Fits(w, mState'[w], worker'[w], ended'[w]),
           mState'[w] \in Known(a, w), AfterWait(a, n), Serves(a, mState'[w]),
           mState'[w] # "JOINED" => mState[w] # "JOINED" \/ request.op \in {"state", "fading"}
    PROVE  AlsaInv'
<1> DEFINE m == mState'[w]
<1> USE DEF OnlyThread
<1>1. w \in Threads
  BY CallIsOf
<1>2. call' = [at |-> a, thread |-> w, next |-> n] /\ call' # NoCall
  BY DEF AlsaInv, Shape, NoCall
<1>3. m \in MStates /\ \A v \in Threads \ {w} : mState'[v] = mState[v]
  BY <1>1
<1>4. Shape'
  BY <1>1, <1>2 DEF AlsaInv, Shape
<1>5. WorkerFits'
  BY <1>1 DEF AlsaInv, Shape, WorkerFits
<1>6. CallFits'
  <2>1. call'.at = a /\ call'.thread = w /\ call'.next = n
    BY <1>2
  <2>2. \A v \in Threads : mState'[v] \in IF w = v THEN Known(a, v) ELSE Rest(v)
    BY <1>3 DEF AlsaInv, CallFits
  <2>3. QED
    BY <2>1, <2>2 DEF AlsaInv, CallFits
<1>7. RequestFits'
  <2>1. \A x, y : Serves(x, y)' = Serves(x, y)
    BY DEF Serves
  <2>2. call'.at = a /\ mState'[call'.thread] = m /\ call'.thread = call.thread
    BY <1>2
  <2>3. \A s : LinkOf(s)' = LinkOf(s)
    BY DEF LinkOf, LinksOf
  <2>4. QED
    BY <1>2, <2>1, <2>2, <2>3 DEF AlsaInv, RequestFits
<1>8. m # "JOINED" => object[w] # "none"
  <2>1. CASE request.op = "fading"
    BY <2>1 DEF AlsaInv, ObjectsFit
  <2>2. CASE request.op = "state"
    BY <2>2, LinkOfSource DEF AlsaInv, ObjectsFit, RequestFits
  <2>3. QED
    BY <1>1, <2>1, <2>2 DEF AlsaInv, ObjectsFit
<1>9. ObjectsFit'
  BY <1>1, <1>2, <1>3, <1>8 DEF AlsaInv, ObjectsFit
<1>10. SourcesFit'
  <2>1. \A c \in HasProxy : mState'[Proxy(c)] # "JOINED" => c \in links /\ c = LinkOf(SourceOf[c])
    <3> SUFFICES ASSUME NEW c \in HasProxy, mState'[Proxy(c)] # "JOINED"
                 PROVE  c \in links /\ c = LinkOf(SourceOf[c])
      OBVIOUS
    <3>1. Proxy(c) \in Threads
      BY ThreadFacts
    <3>2. CASE mState[Proxy(c)] # "JOINED"
      BY <3>2 DEF AlsaInv, SourcesFit
    <3>3. CASE mState[Proxy(c)] = "JOINED"
      <4>1. Proxy(c) = w /\ request.op \in {"state", "fading"}
        BY <1>3, <3>1, <3>3
      <4>2. request.op = "state"
        <5>1. ASSUME request.op = "fading" PROVE FALSE
          <6>1. request.h \in AHandles /\ request.left \subseteq AEnds
            BY <5>1 DEF AlsaInv, Shape, Requests, NoRequest
          <6>2. w \in Ramps
            BY <5>1, <6>1, ThreadFacts DEF AlsaInv, RequestFits
          <6>3. QED
            BY <4>1, <6>2, ThreadFacts
        <5>2. QED
          BY <4>1, <5>1
      <4>3. c = LinkOf(request.s)
        BY <4>1, <4>2, ThreadFacts DEF AlsaInv, RequestFits
      <4>4. QED
        BY <4>3, LinkOfSource
    <3>4. QED
      BY <3>2, <3>3
  <2>2. \A s : LinkOf(s)' = LinkOf(s)
    BY DEF LinkOf, LinksOf
  <2>3. \A c \in HasProxy : mState'[Proxy(c)] = mState[Proxy(c)] \/ call'.thread = Proxy(c)
    BY <1>2, <1>3, ThreadFacts
  <2>4. QED
    BY <1>2, <2>1, <2>2, <2>3 DEF AlsaInv, SourcesFit
<1>11. QED
  BY <1>4, <1>5, <1>6, <1>7, <1>9, <1>10 DEF AlsaInv

\* A step that only takes the call further.
LEMMA CallGoesOn ==
    ASSUME AlsaInv, UNCHANGED <<object, request, links, highest, sourceState, ops, used>>,
           UNCHANGED <<mState, worker, ended>>,
           call # NoCall, NEW w, w = call.thread,
           NEW a \in CallPlaces \ {"idle"}, NEW n \in CallPlaces,
           call' = [call EXCEPT !.at = a, !.next = n],
           mState[w] \in Known(a, w), AfterWait(a, n), Serves(a, mState[w])
    PROVE  AlsaInv'
<1>1. w \in Threads
  BY CallIsOf
<1>2. OnlyThread(w)
  BY DEF OnlyThread, AlsaInv, Shape
<1>3. /\ Fits(w, mState'[w], worker'[w], ended'[w])
      /\ mState'[w] \in Known(a, w) /\ Serves(a, mState'[w]) /\ mState'[w] = mState[w]
  BY <1>1 DEF AlsaInv, WorkerFits
<1>4. QED
  BY <1>2, <1>3, CallMoves

LEMMA TableEntries ==
    /\ Table["start"]["JOINED"]  = Goto("fork")
    /\ Table["start"]["RUNNING"] = Goto("done")
    /\ Table["start"]["STOPPED"] = Goto("resume")
    /\ Table["stop"]["JOINED"]   = Goto("done")
    /\ Table["stop"]["STOPPED"]  = Goto("done")
    /\ Table["stop"]["RUNNING"]  = Goto("halt")
    /\ Table["join"]["RUNNING"]  = Goto("joining")
    /\ Table["join"]["STOPPED"]  = Goto("joining")
    /\ Table["join"]["JOINING"]  = Goto("reap")
    /\ Table["join"]["JOINED"]   = Goto("done")
    /\ \A a : Goto(a).wait = FALSE /\ Goto(a).next = a
<1>1. Table["start"] = startThread /\ Table["stop"] = stopThread /\ Table["join"] = joinThread
  BY DEF Table
<1>2. \A a : Goto(a).wait = FALSE /\ Goto(a).next = a
  BY DEF Goto
<1>3. QED
  BY <1>1, <1>2 DEF startThread, stopThread, joinThread

\* Where the first look at mState leads: never to a wait, since what the daemon's thread
\* would wait for is over by the time it calls.
LEMMA ReadLeads ==
    ASSUME AlsaInv, ReadState
    PROVE  /\ call # NoCall
           /\ \E a \in {"fork", "resume", "halt", "joining", "reap", "done"} :
                 /\ call' = [call EXCEPT !.at = a, !.next = a]
                 /\ mState[call.thread] \in Known(a, call.thread)
                 /\ Serves(a, mState[call.thread])
<1> DEFINE w == call.thread
           s == mState[call.thread]
<1>1. call # NoCall /\ call.at \in {"start", "stop", "join"}
  BY DEF ReadState, Table, NoCall
<1>2. w \in Threads /\ s \in Rest(w) /\ s \in {"JOINED", "RUNNING", "STOPPED", "JOINING"}
  BY <1>1, CallIsOf DEF AlsaInv, CallFits, Known, Rest
<1>3. Serves(call.at, s)
  BY <1>1 DEF AlsaInv, RequestFits
<1>4. request.op \in {"disconnect", "state", "fading", "abort", "delete"}
  BY <1>1, CallIsOf
<1>5. request.op = "state" => w \in Proxies /\ request.state \in {"ON", "OFF"}
  <2>1. request.op = "state" => request.state \in {"ON", "OFF"}
    BY DEF AlsaInv, Shape, Requests, NoRequest
  <2>2. QED
    BY <2>1, ThreadFacts DEF AlsaInv, RequestFits
<1>6. \A a : Table[call.at][s] = Goto(a) => call' = [call EXCEPT !.at = a, !.next = a]
  BY TableEntries DEF ReadState
<1>7. CASE call.at = "start"
  <2>1. request.op \in {"state", "fading"}
    BY <1>3, <1>4, <1>7 DEF Serves, Joins
  <2>2. request.op = "state" => request.state = "ON"
    BY <1>3, <1>5, <1>7 DEF Serves, Stopping
  <2>3. s \in {"JOINED", "RUNNING", "STOPPED"}
    BY <1>2, <1>3, <1>5, <1>7, <2>1, ThreadFacts DEF Serves, Rest
  <2>4. CASE s = "JOINED"
    <3>1. call' = [call EXCEPT !.at = "fork", !.next = "fork"]
      BY <1>6, <1>7, <2>4, TableEntries
    <3>2. QED
      BY <1>1, <2>1, <2>2, <2>4, <3>1 DEF Known, Serves, Starting
  <2>5. CASE s = "RUNNING"
    <3>1. call' = [call EXCEPT !.at = "done", !.next = "done"]
      BY <1>6, <1>7, <2>5, TableEntries
    <3>2. QED
      BY <1>1, <1>2, <2>1, <2>2, <2>5, <3>1 DEF Known, Serves, Starting
  <2>6. CASE s = "STOPPED"
    <3>1. call' = [call EXCEPT !.at = "resume", !.next = "resume"]
      BY <1>6, <1>7, <2>6, TableEntries
    <3>2. request.op = "state"
      BY <1>3, <1>7, <2>1, <2>6 DEF Serves
    <3>3. QED
      BY <1>1, <2>2, <2>6, <3>1, <3>2 DEF Known, Serves, Starting
  <2>7. QED
    BY <2>3, <2>4, <2>5, <2>6
<1>8. CASE call.at = "stop"
  <2>1. request.op = "state" /\ request.state = "OFF"
    BY <1>3, <1>4, <1>5, <1>8 DEF Serves, Joins, Starting
  <2>2. s \in {"JOINED", "RUNNING", "STOPPED"}
    BY <1>2, <1>5, <2>1 DEF Rest
  <2>3. CASE s = "RUNNING"
    <3>1. call' = [call EXCEPT !.at = "halt", !.next = "halt"]
      BY <1>6, <1>8, <2>3, TableEntries
    <3>2. QED
      BY <1>1, <2>1, <2>3, <3>1 DEF Known, Serves, Stopping
  <2>4. CASE s \in {"JOINED", "STOPPED"}
    <3>1. call' = [call EXCEPT !.at = "done", !.next = "done"]
      BY <1>6, <1>8, <2>4, TableEntries
    <3>2. QED
      BY <1>1, <1>2, <2>1, <2>4, <3>1 DEF Known, Serves, Stopping
  <2>5. QED
    BY <2>2, <2>3, <2>4
<1>9. CASE call.at = "join"
  <2>1. request.op \in {"disconnect", "abort", "delete"}
    BY <1>3, <1>4, <1>5, <1>9 DEF Serves, Starting, Stopping
  <2>2. CASE s \in {"RUNNING", "STOPPED"}
    <3>1. call' = [call EXCEPT !.at = "joining", !.next = "joining"]
      BY <1>6, <1>9, <2>2, TableEntries
    <3>2. QED
      BY <1>1, <1>2, <2>1, <2>2, <3>1 DEF Known, Serves, Joins
  <2>3. CASE s = "JOINED"
    <3>1. call' = [call EXCEPT !.at = "done", !.next = "done"]
      BY <1>6, <1>9, <2>3, TableEntries
    <3>2. QED
      BY <1>1, <1>2, <2>1, <2>3, <3>1 DEF Known, Serves, Joins
  <2>4. CASE s = "JOINING"
    <3>1. call' = [call EXCEPT !.at = "reap", !.next = "reap"]
      BY <1>6, <1>9, <2>4, TableEntries
    <3>2. QED
      BY <1>1, <2>1, <2>4, <3>1 DEF Known, Serves, Joins
  <2>5. QED
    BY <1>2, <2>2, <2>3, <2>4
<1>10. QED
  BY <1>1, <1>7, <1>8, <1>9

LEMMA CallStepInv ==
    ASSUME AlsaInv, CallStep, UNCHANGED <<request, rampVars, linkVars>>
    PROVE  AlsaInv'
<1> DEFINE w == call.thread
<1>1. UNCHANGED <<object, request, links, highest, sourceState, ops, used>>
  BY DEF CallStep, ReadState, StateChanged, Fork, Verdict, Resume, Halt, Joining, Reap,
         rampVars, linkVars
<1>2. call # NoCall
  BY ReadLeads DEF CallStep, StateChanged, Fork, Verdict, Resume, Halt, Joining, Reap, NoCall
<1>3. w \in Threads /\ request.op \in {"disconnect", "state", "fading", "abort", "delete"}
  BY <1>2, CallIsOf
<1>4. /\ mState[w] \in Known(call.at, w) /\ AfterWait(call.at, call.next)
      /\ Serves(call.at, mState[w]) /\ Fits(w, mState[w], worker[w], ended[w])
      /\ mState[w] \in MStates /\ worker[w] \in WorkerPlaces /\ ended[w] \in BOOLEAN
      /\ call.next \in CallPlaces
  BY <1>2, <1>3 DEF AlsaInv, CallFits, RequestFits, WorkerFits, Shape
<1>5. ASSUME NEW m \in MStates, mState' = [mState EXCEPT ![w] = m],
             NEW p \in WorkerPlaces, worker' = worker \/ worker' = [worker EXCEPT ![w] = p],
             NEW e \in BOOLEAN, ended' = ended \/ ended' = [ended EXCEPT ![w] = e]
      PROVE  OnlyThread(w) /\ mState'[w] = m
  BY <1>1, <1>3, <1>5 DEF OnlyThread, AlsaInv, Shape
<1>6. request.op = "state" => w \in Proxies
  BY ThreadFacts DEF AlsaInv, RequestFits
<1>7. \A a \in CallPlaces : [call EXCEPT !.at = a] = [call EXCEPT !.at = a, !.next = call.next]
  BY DEF AlsaInv, Shape
<1>8. CASE ReadState
  <2>1. PICK a \in {"fork", "resume", "halt", "joining", "reap", "done"} :
                 /\ call' = [call EXCEPT !.at = a, !.next = a]
                 /\ mState[w] \in Known(a, w)
                 /\ Serves(a, mState[w])
    BY <1>8, ReadLeads
  <2>2. UNCHANGED <<mState, worker, ended>> /\ a \in CallPlaces \ {"idle"} /\ AfterWait(a, a)
    BY <1>8 DEF ReadState, CallPlaces, AfterWait
  <2>3. QED
    BY <1>1, <1>2, <1>4, <2>1, <2>2, CallGoesOn
<1>9. CASE StateChanged
  <2>1. UNCHANGED <<mState, worker, ended>> /\ call' = [call EXCEPT !.at = call.next, !.next = call.next]
    BY <1>9 DEF StateChanged, At, AlsaInv, Shape
  <2>2. CASE call.at = "FORKING"
    <3>1. call.next = "verdict" /\ mState[w] \in {"RUNNING", "JOINING"}
      BY <1>4, <1>9, <2>2 DEF StateChanged, AfterWait, Known
    <3>2. Serves("verdict", mState[w])
      BY <1>4, <2>2 DEF Serves, Starting, Stopping, Joins
    <3>3. "verdict" \in CallPlaces \ {"idle"} /\ AfterWait("verdict", "verdict")
          /\ mState[w] \in Known("verdict", w)
      BY <3>1 DEF CallPlaces, AfterWait, Known
    <3>4. QED
      BY <1>1, <1>2, <1>4, <2>1, <3>1, <3>2, <3>3, CallGoesOn
  <2>3. CASE call.at = "STOPPING"
    <3>1. call.next = "done" /\ mState[w] = "STOPPED"
      BY <1>4, <1>9, <2>3 DEF StateChanged, AfterWait, Known
    <3>2. request.op = "state" /\ request.state # "ON"
      BY <1>3, <1>4, <2>3 DEF Serves, Starting, Joins
    <3>3. Serves("done", mState[w]) /\ mState[w] \in Known("done", w)
      BY <1>6, <3>1, <3>2 DEF Serves, Stopping, Known, Rest
    <3>4. "done" \in CallPlaces \ {"idle"} /\ AfterWait("done", "done")
      BY DEF CallPlaces, AfterWait
    <3>5. QED
      BY <1>1, <1>2, <1>4, <2>1, <3>1, <3>3, <3>4, CallGoesOn
  <2>4. call.at # "JOINING"
    BY DEF AlsaInv, Shape, CallPlaces
  <2>5. QED
    BY <1>9, <2>2, <2>3, <2>4 DEF StateChanged
<1>10. CASE Fork
  <2>1. /\ mState' = [mState EXCEPT ![w] = "FORKING"] /\ worker' = [worker EXCEPT ![w] = "init"]
        /\ ended' = [ended EXCEPT ![w] = FALSE]
        /\ call' = [call EXCEPT !.at = "FORKING", !.next = "verdict"] /\ call.at = "fork"
    BY <1>10 DEF Fork, Set
  <2>2. OnlyThread(w) /\ mState'[w] = "FORKING" /\ worker'[w] = "init" /\ ended'[w] = FALSE
    BY <1>3, <1>5, <2>1 DEF MStates, WorkerPlaces, AlsaInv, Shape
  <2>3. Fits(w, mState'[w], worker'[w], ended'[w]) /\ mState'[w] \in Known("FORKING", w)
        /\ AfterWait("FORKING", "verdict")
        /\ "FORKING" \in CallPlaces \ {"idle"} /\ "verdict" \in CallPlaces
    BY <2>2 DEF Fits, Known, AfterWait, CallPlaces
  <2>4. Serves("FORKING", mState'[w]) /\ request.op \in {"state", "fading"}
    BY <1>3, <1>4, <2>1, <2>2 DEF Serves, Starting, Stopping, Joins
  <2>5. QED
    BY <1>2, <2>1, <2>2, <2>3, <2>4, CallMoves
<1>11. CASE Verdict
  <2>1. UNCHANGED <<mState, worker, ended>> /\ call.at = "verdict"
    BY <1>11 DEF Verdict
  <2>2. request.op \in {"state", "fading"} /\ (request.op = "state" => request.state = "ON")
    BY <1>3, <1>4, <2>1 DEF Serves, Stopping, Joins
  <2>3. CASE mState[w] = "RUNNING"
    <3>1. call' = [call EXCEPT !.at = "done", !.next = call.next]
      BY <1>7, <1>11, <2>3 DEF Verdict, At, CallPlaces
    <3>2. Serves("done", mState[w]) /\ mState[w] \in Known("done", w)
          /\ "done" \in CallPlaces \ {"idle"} /\ AfterWait("done", call.next)
      BY <2>2, <2>3 DEF Serves, Starting, Known, Rest, CallPlaces, AfterWait
    <3>3. QED
      BY <1>1, <1>2, <1>4, <2>1, <3>1, <3>2, CallGoesOn
  <2>4. CASE mState[w] = "JOINING"
    <3>1. call' = [call EXCEPT !.at = "reap", !.next = call.next]
      BY <1>7, <1>11, <2>4 DEF Verdict, At, CallPlaces
    <3>2. Serves("reap", mState[w]) /\ mState[w] \in Known("reap", w)
          /\ "reap" \in CallPlaces \ {"idle"} /\ AfterWait("reap", call.next)
      BY <2>2, <2>4 DEF Serves, Starting, Known, Rest, CallPlaces, AfterWait
    <3>3. QED
      BY <1>1, <1>2, <1>4, <2>1, <3>1, <3>2, CallGoesOn
  <2>5. QED
    BY <1>4, <2>1, <2>3, <2>4 DEF Known
<1>12. CASE Resume
  <2>1. /\ mState' = [mState EXCEPT ![w] = "RUNNING"] /\ UNCHANGED <<worker, ended>>
        /\ call' = [call EXCEPT !.at = "done", !.next = call.next] /\ call.at = "resume"
    BY <1>7, <1>12 DEF Resume, Set, At, CallPlaces
  <2>2. mState[w] = "STOPPED" /\ request.op = "state" /\ request.state = "ON"
    BY <1>3, <1>4, <2>1 DEF Known, Serves, Starting, Stopping, Joins
  <2>3. OnlyThread(w) /\ mState'[w] = "RUNNING"
    BY <1>4, <1>5, <2>1 DEF MStates
  <2>4. Fits(w, mState'[w], worker'[w], ended'[w])
    BY <1>4, <2>1, <2>2, <2>3 DEF Fits
  <2>5. Serves("done", mState'[w]) /\ mState'[w] \in Known("done", w)
        /\ "done" \in CallPlaces \ {"idle"} /\ AfterWait("done", call.next)
    BY <2>2, <2>3 DEF Serves, Starting, Known, Rest, CallPlaces, AfterWait
  <2>6. QED
    BY <1>2, <1>4, <2>1, <2>2, <2>3, <2>4, <2>5, CallMoves
<1>13. CASE Halt
  <2>1. /\ mState' = [mState EXCEPT ![w] = "STOPPING"] /\ UNCHANGED <<worker, ended>>
        /\ call' = [call EXCEPT !.at = "STOPPING", !.next = "done"] /\ call.at = "halt"
    BY <1>13 DEF Halt, Set
  <2>2. mState[w] = "RUNNING" /\ request.op = "state" /\ request.state # "ON"
    BY <1>3, <1>4, <2>1 DEF Known, Serves, Starting, Stopping, Joins
  <2>3. OnlyThread(w) /\ mState'[w] = "STOPPING"
    BY <1>4, <1>5, <2>1 DEF MStates
  <2>4. Fits(w, mState'[w], worker'[w], ended'[w])
    BY <1>4, <1>6, <2>1, <2>2, <2>3 DEF Fits
  <2>5. Serves("STOPPING", mState'[w]) /\ mState'[w] \in Known("STOPPING", w)
        /\ "STOPPING" \in CallPlaces \ {"idle"} /\ AfterWait("STOPPING", "done") /\ "done" \in CallPlaces
    BY <2>2, <2>3 DEF Serves, Stopping, Known, CallPlaces, AfterWait
  <2>6. QED
    BY <1>2, <2>1, <2>2, <2>3, <2>4, <2>5, CallMoves
<1>14. CASE Joining
  <2>1. /\ mState' = [mState EXCEPT ![w] = "JOINING"] /\ UNCHANGED <<worker, ended>>
        /\ call' = [call EXCEPT !.at = "reap", !.next = call.next] /\ call.at = "joining"
    BY <1>7, <1>14 DEF Joining, Set, At, CallPlaces
  <2>2. mState[w] \in {"RUNNING", "STOPPED", "JOINING"}
        /\ request.op \in {"disconnect", "abort", "delete"}
    BY <1>3, <1>4, <2>1 DEF Known, Rest, Serves, Starting, Stopping
  <2>3. OnlyThread(w) /\ mState'[w] = "JOINING"
    BY <1>4, <1>5, <2>1 DEF MStates
  <2>4. Fits(w, mState'[w], worker'[w], ended'[w])
    BY <1>4, <2>1, <2>2, <2>3 DEF Fits
  <2>5. Serves("reap", mState'[w]) /\ mState'[w] \in Known("reap", w)
        /\ "reap" \in CallPlaces \ {"idle"} /\ AfterWait("reap", call.next)
    BY <2>2, <2>3 DEF Serves, Joins, Known, CallPlaces, AfterWait
  <2>6. QED
    BY <1>2, <1>4, <2>1, <2>2, <2>3, <2>4, <2>5, CallMoves
<1>15. CASE Reap
  <2>1. /\ mState' = [mState EXCEPT ![w] = "JOINED"] /\ worker' = [worker EXCEPT ![w] = "none"]
        /\ UNCHANGED ended
        /\ call' = [call EXCEPT !.at = "done", !.next = call.next] /\ call.at = "reap"
    BY <1>7, <1>15 DEF Reap, Set, At, CallPlaces
  <2>2. OnlyThread(w) /\ mState'[w] = "JOINED" /\ worker'[w] = "none"
    BY <1>3, <1>4, <1>5, <2>1 DEF MStates, WorkerPlaces, AlsaInv, Shape
  <2>3. Fits(w, mState'[w], worker'[w], ended'[w])
    BY <2>2 DEF Fits
  <2>4. Serves("done", mState'[w]) /\ mState'[w] \in Known("done", w)
        /\ "done" \in CallPlaces \ {"idle"} /\ AfterWait("done", call.next)
    BY <1>4, <2>1, <2>2 DEF Serves, Starting, Stopping, Joins, Known, Rest, CallPlaces, AfterWait
  <2>5. QED
    BY <1>2, <1>4, <2>1, <2>2, <2>3, <2>4, CallMoves
<1>16. QED
  BY <1>8, <1>9, <1>10, <1>11, <1>12, <1>13, <1>14, <1>15 DEF CallStep

-----------------------------------------------------------------------------
(* The threads themselves *)

LEMMA WorkerMoves ==
    ASSUME AlsaInv, NEW w \in Threads, OnlyThread(w), UNCHANGED call,
           Fits(w, mState'[w], worker'[w], ended'[w]), mState[w] # "JOINED",
           \/ mState'[w] = mState[w]
           \/ mState[w] = "FORKING" /\ mState'[w] \in {"RUNNING", "JOINING"}
           \/ mState[w] = "STOPPING" /\ mState'[w] = "STOPPED"
           \/ w \in Ramps /\ mState[w] = "RUNNING" /\ mState'[w] = "JOINING"
    PROVE  AlsaInv'
<1> DEFINE m == mState'[w]
<1> USE DEF OnlyThread
<1>1. m # "JOINED" /\ m \in MStates /\ \A v \in Threads \ {w} : mState'[v] = mState[v]
  OBVIOUS
<1>2. Shape'
  BY DEF AlsaInv, Shape
<1>3. WorkerFits'
  BY DEF AlsaInv, Shape, WorkerFits
<1>4. call # NoCall => request.op \in {"disconnect", "state", "fading", "abort", "delete"}
                       /\ Serves(call.at, mState[call.thread])
  BY CallIsOf DEF AlsaInv, RequestFits
<1>5. request.op = "state" => call.thread \in Proxies
  BY StateCallsProxy
<1>6. call.thread = w => call # NoCall
  BY ThreadFacts DEF NoCall
<1>7. call.thread = w => m \in Known(call.at, w)
  <2> SUFFICES ASSUME call.thread = w PROVE m \in Known(call.at, w)
    OBVIOUS
  <2>1. mState[w] \in Known(call.at, w)
    BY DEF AlsaInv, CallFits
  <2>2. CASE m = mState[w]
    BY <2>1, <2>2
  <2>3. call.at \in CallPlaces
    BY DEF AlsaInv, Shape
  <2>4. CASE mState[w] = "FORKING" /\ m \in {"RUNNING", "JOINING"}
    <3>1. call.at = "FORKING"
      BY <2>1, <2>3, <2>4 DEF Known, Rest, CallPlaces
    <3>2. QED
      BY <2>4, <3>1 DEF Known
  <2>5. CASE mState[w] = "STOPPING" /\ m = "STOPPED"
    <3>1. call.at = "STOPPING"
      BY <2>1, <2>3, <2>5 DEF Known, Rest, CallPlaces
    <3>2. QED
      BY <2>5, <3>1 DEF Known
  <2>6. CASE w \in Ramps /\ mState[w] = "RUNNING" /\ m = "JOINING"
    <3>1. call.at # "halt"
      BY <1>4, <1>5, <1>6, <2>6, ThreadFacts DEF Serves, Starting, Stopping, Joins
    <3>2. w \notin Proxies
      BY <2>6, ThreadFacts
    <3>3. QED
      BY <2>1, <2>3, <2>6, <3>1, <3>2 DEF Known, Rest, CallPlaces
  <2>7. QED
    BY <2>2, <2>4, <2>5, <2>6
<1>8. call.thread # w => m \in Rest(w)
  <2>1. call.thread # w => mState[w] \in Rest(w)
    BY DEF AlsaInv, CallFits
  <2>2. QED
    BY <2>1, ThreadFacts DEF Rest
<1>9. CallFits'
  <2>1. \A v \in Threads : mState'[v] \in IF call.thread = v THEN Known(call.at, v) ELSE Rest(v)
    BY <1>1, <1>7, <1>8 DEF AlsaInv, CallFits
  <2>2. QED
    BY <2>1 DEF AlsaInv, CallFits
<1>10. RequestFits'
  <2>1. \A x, y : Serves(x, y)' = Serves(x, y)
    BY DEF Serves
  <2>2. call # NoCall => Serves(call.at, mState'[call.thread])
    <3>1. ASSUME call # NoCall, call.thread = w PROVE Serves(call.at, m)
      BY <1>4, <3>1 DEF Serves, Starting, Stopping, Joins
    <3>2. QED
      BY <1>1, <1>4, <3>1, CallIsOf
  <2>3. \A s : LinkOf(s)' = LinkOf(s)
    BY DEF LinkOf, LinksOf
  <2>4. QED
    BY <2>1, <2>2, <2>3 DEF AlsaInv, RequestFits
<1>11. ObjectsFit'
  BY <1>1 DEF AlsaInv, ObjectsFit
<1>12. SourcesFit'
  <2>1. \A s : LinkOf(s)' = LinkOf(s)
    BY DEF LinkOf, LinksOf
  <2>2. \A c \in HasProxy : Proxy(c) \in Threads
    BY ThreadFacts
  <2>3. QED
    BY <1>1, <2>1, <2>2 DEF AlsaInv, SourcesFit
<1>13. QED
  BY <1>2, <1>3, <1>9, <1>10, <1>11, <1>12 DEF AlsaInv

\* The functions of a thread, whatever else they change.
LEMMA WorkerInv ==
    ASSUME AlsaInv, NEW w \in Threads,
           \/ WorkerStep(w)
           \/ \E ok \in BOOLEAN : InitThread(w, ok)
           \/ \E err \in BOOLEAN : Work(w, err) /\ (w \in Proxies => ~err)
           \/ DeinitThread(w),
           UNCHANGED <<request, links, highest, sourceState, ops, used>>
    PROVE  AlsaInv'
<1>1. /\ Fits(w, mState[w], worker[w], ended[w]) /\ mState[w] \in MStates
      /\ mState \in [Threads -> MStates] /\ worker \in [Threads -> WorkerPlaces]
      /\ ended \in [Threads -> BOOLEAN]
  BY DEF AlsaInv, WorkerFits, Shape
<1>2. UNCHANGED <<object, call>>
  BY DEF WorkerStep, Check, Stopped, Woken, Test, LoopLeft, Undefined, InitThread, Work, DeinitThread
<1>3. ASSUME NEW m \in MStates, mState' = mState \/ mState' = [mState EXCEPT ![w] = m],
             NEW p \in WorkerPlaces, worker' = [worker EXCEPT ![w] = p],
             NEW e \in BOOLEAN, ended' = ended \/ ended' = [ended EXCEPT ![w] = e]
      PROVE  OnlyThread(w) /\ worker'[w] = p
  BY <1>1, <1>2, <1>3 DEF OnlyThread
<1>4. CASE Check(w)
  <2>1. PICK p \in {"halt", "test"} : /\ worker' = [worker EXCEPT ![w] = p]
                                      /\ p = "halt" => mState[w] = "STOPPING"
    BY <1>4 DEF Check, Move
  <2>2. worker[w] = "check" /\ UNCHANGED <<mState, ended>>
    BY <1>4 DEF Check, Move
  <2>3. OnlyThread(w) /\ worker'[w] = p
    BY <1>1, <1>3, <2>1, <2>2 DEF WorkerPlaces
  <2>4. Fits(w, mState'[w], worker'[w], ended'[w]) /\ mState[w] # "JOINED"
    BY <1>1, <2>1, <2>2, <2>3 DEF Fits
  <2>5. QED
    BY <1>2, <2>2, <2>3, <2>4, WorkerMoves
<1>5. CASE Stopped(w)
  <2>1. /\ worker[w] = "halt" /\ worker' = [worker EXCEPT ![w] = "wait"] /\ UNCHANGED ended
        /\ mState' = [mState EXCEPT ![w] = "STOPPED"]
    BY <1>5 DEF Stopped, Move, Set
  <2>2. OnlyThread(w) /\ worker'[w] = "wait"
    BY <1>1, <1>3, <2>1 DEF WorkerPlaces, MStates
  <2>3. mState[w] = "STOPPING" /\ mState'[w] = "STOPPED"
    BY <1>1, <2>1 DEF Fits
  <2>4. Fits(w, mState'[w], worker'[w], ended'[w])
    BY <1>1, <2>1, <2>2, <2>3 DEF Fits
  <2>5. QED
    BY <1>2, <2>2, <2>3, <2>4, WorkerMoves
<1>6. CASE Woken(w)
  <2>1. /\ worker[w] = "wait" /\ worker' = [worker EXCEPT ![w] = "test"]
        /\ UNCHANGED <<mState, ended>> /\ mState[w] # "STOPPED"
    BY <1>6 DEF Woken, Move
  <2>2. OnlyThread(w) /\ worker'[w] = "test"
    BY <1>1, <1>3, <2>1 DEF WorkerPlaces
  <2>3. Fits(w, mState'[w], worker'[w], ended'[w]) /\ mState[w] # "JOINED"
    BY <1>1, <2>1, <2>2 DEF Fits
  <2>4. QED
    BY <1>2, <2>1, <2>2, <2>3, WorkerMoves
<1>7. CASE Test(w)
  <2>1. PICK p \in {"work", "leave"} :
            /\ worker' = [worker EXCEPT ![w] = p]
            /\ p = "leave" => ended[w] \/ mState[w] \notin ForkedStates
    BY <1>7 DEF Test, Move
  <2>2. worker[w] = "test" /\ UNCHANGED <<mState, ended>>
    BY <1>7 DEF Test, Move
  <2>3. OnlyThread(w) /\ worker'[w] = p
    BY <1>1, <1>3, <2>1, <2>2 DEF WorkerPlaces
  <2>4. Fits(w, mState'[w], worker'[w], ended'[w]) /\ mState[w] # "JOINED"
    BY <1>1, <2>1, <2>2, <2>3 DEF Fits, ForkedStates, MStates
  <2>5. QED
    BY <1>2, <2>2, <2>3, <2>4, WorkerMoves
<1>8. CASE LoopLeft(w)
  <2>1. /\ worker[w] = "leave" /\ worker' = [worker EXCEPT ![w] = "deinit"]
        /\ UNCHANGED ended /\ mState' = [mState EXCEPT ![w] = "JOINING"]
    BY <1>8 DEF LoopLeft, Move, Set
  <2>2. OnlyThread(w) /\ worker'[w] = "deinit" /\ mState'[w] = "JOINING"
    BY <1>1, <1>3, <2>1 DEF WorkerPlaces, MStates
  <2>3. Fits(w, mState'[w], worker'[w], ended'[w]) /\ mState[w] # "JOINED"
    BY <1>1, <2>1, <2>2 DEF Fits
  <2>4. mState[w] \in {"FORKING", "JOINING"} \/ (w \in Ramps /\ mState[w] = "RUNNING")
    <3>1. w \in Proxies => mState[w] \in {"FORKING", "JOINING"}
      BY <1>1, <2>1 DEF Fits
    <3>2. mState[w] # "STOPPED"
      BY <1>1, <2>1 DEF Fits
    <3>3. w \notin Proxies => w \in Ramps /\ mState[w] \in Rest(w) \cup Known(call.at, w)
      BY ThreadFacts DEF AlsaInv, CallFits
    <3>4. w \notin Proxies => mState[w] # "STOPPING"
      <4>1. ASSUME w \notin Proxies, mState[w] = "STOPPING" PROVE FALSE
        <5>1. call.thread = w /\ call.at \in CallPlaces
          BY <4>1, ThreadFacts DEF AlsaInv, CallFits, Rest, Shape
        <5>2. call.at = "STOPPING"
          BY <4>1, <5>1 DEF AlsaInv, CallFits, Known, Rest, CallPlaces
        <5>3. call # NoCall /\ request.op \in {"disconnect", "state", "fading", "abort", "delete"}
          BY <5>2, CallIsOf DEF NoCall
        <5>4. request.op = "state"
          BY <5>2, <5>3 DEF AlsaInv, RequestFits, Serves, Starting, Joins
        <5>5. QED
          BY <4>1, <5>1, <5>4, ThreadFacts DEF AlsaInv, RequestFits
      <4>2. QED
        BY <4>1
    <3>5. QED
      BY <1>1, <2>3, <3>1, <3>2, <3>3, <3>4, ThreadFacts DEF MStates
  <2>5. QED
    BY <1>2, <2>2, <2>3, <2>4, WorkerMoves
<1>9. CASE Undefined(w)
  <2>1. /\ worker[w] \in {"init", "work", "deinit"} /\ worker' = [worker EXCEPT ![w] = "undefined"]
        /\ UNCHANGED <<mState, ended>> /\ object[w] = "base"
    BY <1>9 DEF Undefined
  <2>2. OnlyThread(w) /\ worker'[w] = "undefined"
    BY <1>1, <1>3, <2>1 DEF WorkerPlaces
  <2>3. w \notin Proxies
    BY <2>1, ThreadFacts DEF AlsaInv, ObjectsFit
  <2>4. Fits(w, mState'[w], worker'[w], ended'[w]) /\ mState[w] # "JOINED"
    BY <1>1, <2>1, <2>2, <2>3 DEF Fits
  <2>5. QED
    BY <1>2, <2>1, <2>2, <2>4, WorkerMoves
<1>10. ASSUME NEW ok \in BOOLEAN, InitThread(w, ok) PROVE AlsaInv'
  <2>1. /\ worker[w] = "init" /\ worker' = [worker EXCEPT ![w] = IF ok THEN "work" ELSE "leave"]
        /\ ended' = [ended EXCEPT ![w] = ~ok]
        /\ mState' = IF ok THEN [mState EXCEPT ![w] = "RUNNING"] ELSE mState
    BY <1>10 DEF InitThread, Move
  <2>2. OnlyThread(w) /\ worker'[w] = IF ok THEN "work" ELSE "leave"
    BY <1>1, <1>3, <2>1 DEF WorkerPlaces, MStates
  <2>3. mState[w] = "FORKING" /\ mState'[w] = (IF ok THEN "RUNNING" ELSE "FORKING") /\ ended'[w] = ~ok
    BY <1>1, <2>1 DEF Fits
  <2>4. Fits(w, mState'[w], worker'[w], ended'[w])
    BY <2>2, <2>3 DEF Fits
  <2>5. QED
    BY <1>2, <2>2, <2>3, <2>4, WorkerMoves
<1>11. ASSUME NEW err \in BOOLEAN, Work(w, err), w \in Proxies => ~err PROVE AlsaInv'
  <2>1. /\ worker[w] = "work" /\ worker' = [worker EXCEPT ![w] = "check"]
        /\ ended' = [ended EXCEPT ![w] = err] /\ UNCHANGED mState
    BY <1>11 DEF Work, Move
  <2>2. OnlyThread(w) /\ worker'[w] = "check" /\ ended'[w] = err
    BY <1>1, <1>3, <2>1 DEF WorkerPlaces
  <2>3. Fits(w, mState'[w], worker'[w], ended'[w]) /\ mState[w] # "JOINED"
    BY <1>1, <1>11, <2>1, <2>2 DEF Fits
  <2>4. QED
    BY <1>2, <2>1, <2>2, <2>3, WorkerMoves
<1>12. CASE DeinitThread(w)
  <2>1. /\ worker[w] = "deinit" /\ worker' = [worker EXCEPT ![w] = "exit"]
        /\ UNCHANGED <<mState, ended>>
    BY <1>12 DEF DeinitThread, Move
  <2>2. OnlyThread(w) /\ worker'[w] = "exit"
    BY <1>1, <1>3, <2>1 DEF WorkerPlaces
  <2>3. Fits(w, mState'[w], worker'[w], ended'[w]) /\ mState[w] # "JOINED"
    BY <1>1, <2>1, <2>2 DEF Fits
  <2>4. QED
    BY <1>2, <2>1, <2>2, <2>3, WorkerMoves
<1>13. QED
  BY <1>4, <1>5, <1>6, <1>7, <1>8, <1>9, <1>10, <1>11, <1>12 DEF WorkerStep

-----------------------------------------------------------------------------
(* The requests of the daemon *)

\* A call begins or is over; the threads are where they were.
NewCall ==
    /\ UNCHANGED <<mState, worker, ended>>
    /\ call = NoCall \/ call.at = "done"
    /\ \/ call' = NoCall
       \/ \E what \in {"start", "stop", "join"}, w \in Threads : Calls(what, w)

LEMMA NewCallFits ==
    ASSUME AlsaInv, NewCall
    PROVE  /\ WorkerFits' /\ CallFits'
           /\ call' \in [at : CallPlaces, thread : Threads \cup {NoThread}, next : CallPlaces]
           /\ \A w \in Threads : mState[w] \in Rest(w)
<1>1. \A w \in Threads : mState[w] \in Rest(w)
  <2>1. call.thread \in Threads => call # NoCall
    BY ThreadFacts DEF NoCall
  <2>2. \A w \in Threads : call.thread = w => call.at = "done"
    BY <2>1 DEF NewCall
  <2>3. QED
    BY <2>2 DEF AlsaInv, CallFits, Known
<1>2. WorkerFits'
  BY DEF AlsaInv, WorkerFits, NewCall
<1>3. CASE call' = NoCall
  BY <1>1, <1>2, <1>3, ThreadFacts DEF NewCall, NoCall, CallFits, AfterWait, CallPlaces
<1>4. CASE \E what \in {"start", "stop", "join"}, w \in Threads : Calls(what, w)
  <2>1. PICK what \in {"start", "stop", "join"}, w \in Threads :
          call' = [at |-> what, thread |-> w, next |-> "done"]
    BY <1>4 DEF Calls
  <2>2. call'.at = what /\ call'.next = "done" /\ call'.thread = w /\ what \in CallPlaces
        /\ "done" \in CallPlaces
    BY <2>1 DEF CallPlaces
  <2>3. \A v : Known(what, v) = Rest(v)
    BY DEF Known
  <2>4. mState' = mState
    BY DEF NewCall
  <2>5. QED
    BY <1>1, <1>2, <2>1, <2>2, <2>3, <2>4 DEF CallFits, AfterWait
<1>5. QED
  BY <1>1, <1>2, <1>3, <1>4 DEF NewCall

LEMMA FirstLink ==
    ASSUME NEW s, LinksOf(s)' \subseteq Nat, NEW d \in LinksOf(s)', \A y \in LinksOf(s)' : d <= y
    PROVE  LinkOf(s)' = d
<1>1. Min(LinksOf(s)') \in LinksOf(s)' /\ \A y \in LinksOf(s)' : Min(LinksOf(s)') <= y
  BY LeastOfSet
<1>2. QED
  BY <1>1 DEF LinkOf

\* The first proxy of a source stays the first when a connection with a higher identifier
\* comes or another one goes.
LEMMA ProxiesStayFirst ==
    ASSUME AlsaInv, NewCall, NEW c \in AConnections,
           \/ links' = links
           \/ links' = links \cup {c} /\ c > highest
           \/ links' = links \ {c} /\ (c \in HasProxy => mState[Proxy(c)] = "JOINED")
    PROVE  \A d \in HasProxy : mState'[Proxy(d)] # "JOINED" =>
              d \in links' /\ d = LinkOf(SourceOf[d])'
<1> SUFFICES ASSUME NEW d \in HasProxy, mState'[Proxy(d)] # "JOINED"
             PROVE  d \in links' /\ d = LinkOf(SourceOf[d])'
  OBVIOUS
<1>1. d \in links /\ d = LinkOf(SourceOf[d])
  BY DEF AlsaInv, SourcesFit, NewCall
<1>2. d \in LinksOf(SourceOf[d]) /\ \A y \in LinksOf(SourceOf[d]) : d <= y
  BY <1>1, LinkOfSource DEF LinksOf
<1>3. links \subseteq Nat /\ links' \subseteq Nat /\ c \in Nat /\ d \in Nat /\ highest \in Nat
      /\ d <= highest
  BY <1>1, ThreadFacts DEF AlsaInv, Shape, SourcesFit
<1>4. d \in links' /\ \A y \in links' : y \in links \/ (y = c /\ c > highest)
  BY <1>1 DEF NewCall
<1>5. LinksOf(SourceOf[d])' = {y \in links' : SourceOf[y] = SourceOf[d]}
  BY DEF LinksOf
<1>6. d \in LinksOf(SourceOf[d])' /\ LinksOf(SourceOf[d])' \subseteq Nat
  BY <1>3, <1>4, <1>5
<1>7. \A y \in LinksOf(SourceOf[d])' : d <= y
  BY <1>2, <1>3, <1>4, <1>5 DEF LinksOf
<1>8. QED
  BY <1>4, <1>6, <1>7, FirstLink

LEMMA ConnectInv ==
    ASSUME AlsaInv, NEW c \in AConnections, Connect(c)
    PROVE  AlsaInv'
<1>1. call = NoCall /\ call' = NoCall /\ request = NoRequest /\ request' = request
      /\ c \notin links /\ links' = links \cup {c} /\ highest' = c /\ c > highest
      /\ UNCHANGED <<mState, worker, ended, sourceState, ops, used>>
      /\ object' = IF c \in HasProxy THEN [object EXCEPT ![Proxy(c)] = "whole"] ELSE object
  BY DEF Connect, Free, Object, rampVars
<1>2. NewCall
  BY <1>1 DEF NewCall
<1>3. c \in Nat /\ NoRequest.op = "none"
  BY ThreadFacts DEF NoRequest
<1>4. \A d \in HasProxy : Proxy(d) \in Threads /\ Proxy(d) \notin Ramps /\ (Proxy(d) = Proxy(c) => d = c)
  BY ThreadFacts
<1>5. Shape'
  BY <1>1, <1>2, <1>3, NewCallFits DEF AlsaInv, Shape
<1>6. RequestFits'
  BY <1>1, <1>3 DEF RequestFits
<1>7. ObjectsFit'
  <2>1. \A w \in Threads : object'[w] = IF c \in HasProxy /\ w = Proxy(c) THEN "whole" ELSE object[w]
    BY <1>1, <1>4 DEF AlsaInv, Shape
  <2>2. Ramps \subseteq Threads
    BY ThreadFacts
  <2>3. \A w \in Ramps : object'[w] = object[w]
    BY <1>4, <2>1, <2>2
  <2>4. \A d \in HasProxy : object'[Proxy(d)] = IF d \in links' THEN "whole" ELSE "none"
    BY <1>1, <1>4, <2>1 DEF AlsaInv, ObjectsFit
  <2>5. QED
    BY <1>1, <1>3, <2>1, <2>3, <2>4 DEF AlsaInv, ObjectsFit
<1>8. SourcesFit'
  <2>1. \A d \in links : d \in Nat /\ d <= highest /\ highest \in Nat
    BY ThreadFacts DEF AlsaInv, Shape, SourcesFit
  <2>2. \A d \in links' : d <= highest'
    BY <1>1, <1>3, <2>1
  <2>3. QED
    BY <1>1, <1>2, <2>2, ProxiesStayFirst DEF AlsaInv, SourcesFit
<1>9. QED
  BY <1>2, <1>5, <1>6, <1>7, <1>8, NewCallFits DEF AlsaInv

LEMMA DisconnectInv ==
    ASSUME AlsaInv, NEW c \in AConnections, Disconnect(c)
    PROVE  AlsaInv'
<1>1. call = NoCall /\ request = NoRequest /\ c \in links
      /\ UNCHANGED <<mState, worker, ended, object, highest, sourceState, ops, used>>
  BY DEF Disconnect, Free, rampVars
<1>3. CASE c \in HasProxy
  <2>1. call' = [at |-> "join", thread |-> Proxy(c), next |-> "done"]
        /\ request' = [op |-> "disconnect", c |-> c] /\ links' = links /\ Proxy(c) \in Threads
    BY <1>3, ThreadFacts DEF Disconnect, Calls
  <2>2. NewCall
    BY <1>1, <2>1 DEF NewCall, Calls
  <2>3. Shape'
    BY <1>1, <1>3, <2>1, <2>2, NewCallFits DEF AlsaInv, Shape, Requests
  <2>4. RequestFits'
    BY <1>1, <2>1 DEF RequestFits, Serves, Joins, NoCall
  <2>5. ObjectsFit'
    BY <1>1, <2>1 DEF AlsaInv, ObjectsFit
  <2>6. SourcesFit'
    <3>1. \A d \in HasProxy : call.thread # Proxy(d)
      BY <1>1, ThreadFacts DEF NoCall
    <3>2. QED
      BY <1>1, <2>1, <2>2, <3>1, ProxiesStayFirst DEF AlsaInv, SourcesFit
  <2>7. QED
    BY <2>2, <2>3, <2>4, <2>5, <2>6, NewCallFits DEF AlsaInv
<1>4. CASE c \notin HasProxy
  <2>1. call' = call /\ request' = request /\ links' = links \ {c} /\ NoRequest.op = "none"
    BY <1>4 DEF Disconnect, NoRequest
  <2>2. NewCall
    BY <1>1, <2>1 DEF NewCall
  <2>3. Shape'
    BY <1>1, <2>1, <2>2, NewCallFits DEF AlsaInv, Shape
  <2>4. RequestFits'
    BY <1>1, <2>1 DEF RequestFits
  <2>5. ObjectsFit'
    BY <1>1, <1>4, <2>1 DEF AlsaInv, ObjectsFit
  <2>6. SourcesFit'
    <3>1. \A d \in HasProxy : call.thread # Proxy(d)
      BY <1>1, ThreadFacts DEF NoCall
    <3>2. QED
      BY <1>1, <1>4, <2>1, <2>2, <3>1, ProxiesStayFirst DEF AlsaInv, SourcesFit
  <2>7. QED
    BY <2>2, <2>3, <2>4, <2>5, <2>6, NewCallFits DEF AlsaInv
<1>5. QED
  BY <1>3, <1>4

LEMMA DisconnectedInv ==
    ASSUME AlsaInv, Disconnected
    PROVE  AlsaInv'
<1> DEFINE c == request.c
<1>1. call.at = "done" /\ request.op = "disconnect" /\ call' = NoCall /\ request' = NoRequest
      /\ links' = links \ {c} /\ object' = [object EXCEPT ![Proxy(c)] = "none"]
      /\ UNCHANGED <<mState, worker, ended, highest, sourceState, ops, used>>
  BY DEF Disconnected, Returned, Done, Object, rampVars
<1>2. c \in HasProxy
  BY <1>1 DEF AlsaInv, Shape, Requests, NoRequest
<1>3. NewCall /\ c \in AConnections /\ Proxy(c) \in Threads /\ NoRequest.op = "none"
  BY <1>1, <1>2, ThreadFacts DEF NewCall, NoRequest
<1>4. call # NoCall /\ call.thread = Proxy(c) /\ mState[Proxy(c)] = "JOINED" /\ c \in links
  <2>1. call # NoCall /\ call.thread = Proxy(c) /\ c \in links
    BY <1>1 DEF NoCall, AlsaInv, RequestFits
  <2>2. QED
    BY <1>1, <2>1 DEF AlsaInv, RequestFits, Serves
<1>5. \A d \in HasProxy : Proxy(d) \in Threads /\ Proxy(d) \notin Ramps /\ (Proxy(d) = Proxy(c) => d = c)
  BY ThreadFacts
<1>6. Shape'
  BY <1>1, <1>3, NewCallFits DEF AlsaInv, Shape, Requests
<1>7. RequestFits'
  BY <1>1, <1>3 DEF RequestFits
<1>8. ObjectsFit'
  <2>1. \A w \in Threads : object'[w] = IF w = Proxy(c) THEN "none" ELSE object[w]
    BY <1>1 DEF AlsaInv, Shape
  <2>2. Ramps \subseteq Threads
    BY ThreadFacts
  <2>3. \A w \in Ramps : object'[w] = object[w]
    BY <1>2, <1>5, <2>1, <2>2
  <2>4. \A d \in HasProxy : object'[Proxy(d)] = IF d \in links' THEN "whole" ELSE "none"
    BY <1>1, <1>5, <2>1 DEF AlsaInv, ObjectsFit
  <2>5. QED
    BY <1>1, <1>3, <1>4, <2>1, <2>3, <2>4 DEF AlsaInv, ObjectsFit
<1>9. SourcesFit'
  <2>1. \A d \in HasProxy : mState'[Proxy(d)] # "JOINED" => d \in links' /\ d = LinkOf(SourceOf[d])'
    BY <1>1, <1>3, <1>4, ProxiesStayFirst
  <2>2. \A d \in HasProxy : sourceState[SourceOf[d]] = "OFF" => mState[Proxy(d)] \in {"JOINED", "STOPPED"}
    BY <1>4 DEF AlsaInv, SourcesFit
  <2>3. QED
    BY <1>1, <2>1, <2>2 DEF AlsaInv, SourcesFit
<1>10. QED
  BY <1>3, <1>6, <1>7, <1>8, <1>9, NewCallFits DEF AlsaInv

LEMMA SetSourceStateInv ==
    ASSUME AlsaInv, NEW s \in ASources, NEW state \in {"ON", "OFF"}, SetSourceState(s, state)
    PROVE  AlsaInv'
<1>1. call = NoCall /\ request = NoRequest
      /\ UNCHANGED <<mState, worker, ended, object, links, highest, ops, used>>
  BY DEF SetSourceState, Free, rampVars
<1>2. \A d \in HasProxy : call.thread # Proxy(d)
  BY <1>1, ThreadFacts DEF NoCall
<1>3. \A t : LinkOf(t)' = LinkOf(t)
  BY <1>1 DEF LinkOf, LinksOf
<1>4. CASE LinkOf(s) \in HasProxy
  <2> DEFINE what == IF state = "ON" THEN "start" ELSE "stop"
  <2>1. call' = [at |-> what, thread |-> Proxy(LinkOf(s)), next |-> "done"]
        /\ request' = [op |-> "state", s |-> s, state |-> state] /\ UNCHANGED sourceState
        /\ Proxy(LinkOf(s)) \in Threads /\ what \in {"start", "stop", "join"} /\ what \in CallPlaces
    BY <1>4, ThreadFacts DEF SetSourceState, Calls, CallPlaces
  <2>2. NewCall
    BY <1>1, <2>1 DEF NewCall, Calls
  <2>3. Shape'
    BY <1>1, <1>4, <2>1, <2>2, NewCallFits DEF AlsaInv, Shape, Requests
  <2>4. RequestFits'
    <3>1. request'.op = "state" /\ request'.s = s /\ request'.state = state /\ call' # NoCall
          /\ call'.at = what /\ call'.thread = Proxy(LinkOf(s))
      BY <2>1 DEF NoCall
    <3>2. QED
      BY <1>3, <1>4, <3>1 DEF RequestFits, Serves, Starting, Stopping
  <2>5. ObjectsFit'
    BY <1>1, <2>1 DEF AlsaInv, ObjectsFit
  <2>6. SourcesFit'
    BY <1>1, <1>2, <1>3, <2>1 DEF AlsaInv, SourcesFit
  <2>7. QED
    BY <2>2, <2>3, <2>4, <2>5, <2>6, NewCallFits DEF AlsaInv
<1>5. CASE LinkOf(s) \notin HasProxy
  <2>1. call' = call /\ request' = request /\ sourceState' = [sourceState EXCEPT ![s] = state]
        /\ NoRequest.op = "none"
    BY <1>5 DEF SetSourceState, NoRequest
  <2>2. NewCall
    BY <1>1, <2>1 DEF NewCall
  <2>3. Shape'
    BY <1>1, <2>1, <2>2, NewCallFits DEF AlsaInv, Shape
  <2>4. RequestFits'
    BY <1>1, <2>1 DEF RequestFits
  <2>5. ObjectsFit'
    BY <1>1, <2>1 DEF AlsaInv, ObjectsFit
  <2>6. SourcesFit'
    <3>1. \A d \in HasProxy : SourceOf[d] = s => mState[Proxy(d)] = "JOINED"
      BY <1>5 DEF AlsaInv, SourcesFit
    <3>2. \A d \in HasProxy : SourceOf[d] \in ASources
      BY AlsaAssumption
    <3>3. \A d \in HasProxy : sourceState'[SourceOf[d]] = "OFF" => mState[Proxy(d)] \in {"JOINED", "STOPPED"}
      <4> SUFFICES ASSUME NEW d \in HasProxy, sourceState'[SourceOf[d]] = "OFF", SourceOf[d] # s
                   PROVE  mState[Proxy(d)] \in {"JOINED", "STOPPED"}
        BY <3>1
      <4>1. sourceState[SourceOf[d]] = "OFF"
        BY <2>1, <3>2 DEF AlsaInv, Shape
      <4>2. QED
        BY <1>2, <4>1 DEF AlsaInv, SourcesFit
    <3>4. QED
      BY <1>1, <1>3, <2>1, <3>3 DEF AlsaInv, SourcesFit
  <2>7. QED
    BY <2>2, <2>3, <2>4, <2>5, <2>6, NewCallFits DEF AlsaInv
<1>6. QED
  BY <1>4, <1>5

LEMMA SourceStateSetInv ==
    ASSUME AlsaInv, SourceStateSet
    PROVE  AlsaInv'
<1> DEFINE s == request.s
           state == request.state
<1>1. call.at = "done" /\ request.op = "state" /\ call' = NoCall /\ request' = NoRequest
      /\ sourceState' = [sourceState EXCEPT ![s] = state] /\ NoRequest.op = "none"
      /\ UNCHANGED <<mState, worker, ended, object, links, highest, ops, used>>
  BY DEF SourceStateSet, Returned, Done, NoRequest, rampVars
<1>2. s \in ASources /\ state \in {"ON", "OFF"}
  BY <1>1 DEF AlsaInv, Shape, Requests, NoRequest
<1>3. call # NoCall /\ LinkOf(s) \in HasProxy /\ call.thread = Proxy(LinkOf(s))
      /\ (state = "OFF" => mState[Proxy(LinkOf(s))] \in {"JOINED", "STOPPED"})
  <2>1. call # NoCall /\ LinkOf(s) \in HasProxy /\ call.thread = Proxy(LinkOf(s))
    BY <1>1 DEF NoCall, AlsaInv, RequestFits
  <2>2. QED
    BY <1>1, <2>1 DEF AlsaInv, RequestFits, Serves
<1>4. NewCall
  BY <1>1 DEF NewCall
<1>5. Shape'
  BY <1>1, <1>2, <1>4, NewCallFits DEF AlsaInv, Shape, Requests
<1>6. RequestFits'
  BY <1>1 DEF RequestFits
<1>7. ObjectsFit'
  BY <1>1 DEF AlsaInv, ObjectsFit
<1>8. SourcesFit'
  <2>1. \A d \in HasProxy : SourceOf[d] = s /\ state = "OFF" => mState[Proxy(d)] \in {"JOINED", "STOPPED"}
    BY <1>3 DEF AlsaInv, SourcesFit
  <2>2. \A d \in HasProxy : SourceOf[d] \in ASources
    BY AlsaAssumption
  <2>3. \A d \in HasProxy : sourceState'[SourceOf[d]] = "OFF" => mState[Proxy(d)] \in {"JOINED", "STOPPED"}
    <3> SUFFICES ASSUME NEW d \in HasProxy, sourceState'[SourceOf[d]] = "OFF"
                 PROVE  mState[Proxy(d)] \in {"JOINED", "STOPPED"}
      OBVIOUS
    <3>1. CASE SourceOf[d] = s
      BY <1>1, <1>2, <2>1, <3>1 DEF AlsaInv, Shape
    <3>2. CASE SourceOf[d] # s
      <4>1. sourceState[SourceOf[d]] = "OFF"
        BY <1>1, <2>2, <3>2 DEF AlsaInv, Shape
      <4>2. SourceOf[LinkOf(s)] = s
        BY <1>3, LinkOfSource
      <4>3. call.thread # Proxy(d)
        BY <1>3, <3>2, <4>2, ThreadFacts
      <4>4. QED
        BY <4>1, <4>3 DEF AlsaInv, SourcesFit
    <3>3. QED
      BY <3>1, <3>2
  <2>4. \A t : LinkOf(t)' = LinkOf(t)
    BY <1>1 DEF LinkOf, LinksOf
  <2>5. QED
    BY <1>1, <2>3, <2>4 DEF AlsaInv, SourcesFit
<1>9. QED
  BY <1>4, <1>5, <1>6, <1>7, <1>8, NewCallFits DEF AlsaInv

\* The requests that have to do with volumes leave the connections and the sources alone.
LEMMA SourcesStayFit ==
    ASSUME AlsaInv, NewCall, UNCHANGED <<links, highest, sourceState>>,
           call = NoCall \/ request.op \in {"fading", "abort", "delete"}
    PROVE  SourcesFit'
<1>1. call = NoCall \/ call.thread \in Ramps
  <2>1. CASE request.op = "fading"
    <3>1. request.h \in AHandles /\ request.left \subseteq AEnds
      BY <2>1 DEF AlsaInv, Shape, Requests, NoRequest
    <3>2. QED
      BY <2>1, <3>1, ThreadFacts DEF AlsaInv, RequestFits
  <2>2. QED
    BY <2>1 DEF AlsaInv, RequestFits
<1>2. \A c \in HasProxy : call.thread # Proxy(c)
  BY <1>1, ThreadFacts DEF NoCall
<1>3. \A s : LinkOf(s)' = LinkOf(s)
  BY DEF LinkOf, LinksOf
<1>4. QED
  BY <1>2, <1>3 DEF AlsaInv, SourcesFit, NewCall

\* An object comes for a handle that is used, and goes when its thread is joined.
LEMMA ObjectsComeAndGo ==
    ASSUME AlsaInv, UNCHANGED <<mState, links>>, used \subseteq used',
           \A w \in Threads : \/ object'[w] = object[w]
                              \/ w \in Ramps /\ HandleOf(w) \in used' /\ object'[w] # "none"
                              \/ w \in Ramps /\ object'[w] = "none" /\ mState[w] = "JOINED"
    PROVE  /\ \A w \in Threads : object'[w] = "none" => mState'[w] = "JOINED"
           /\ \A c \in HasProxy : object'[Proxy(c)] = IF c \in links' THEN "whole" ELSE "none"
           /\ \A w \in Ramps : HandleOf(w) \notin used' => object'[w] = "none"
<1>1. \A w \in Threads : object'[w] = "none" => mState'[w] = "JOINED"
  BY DEF AlsaInv, ObjectsFit
<1>2. \A c \in HasProxy : object'[Proxy(c)] = object[Proxy(c)]
  BY ThreadFacts
<1>3. \A w \in Ramps : HandleOf(w) \notin used' => object'[w] = "none"
  BY ThreadFacts DEF AlsaInv, ObjectsFit
<1>4. QED
  BY <1>1, <1>2, <1>3 DEF AlsaInv, ObjectsFit

LEMMA SetVolumesInv ==
    ASSUME AlsaInv, NEW h \in AHandles, NEW E \in SUBSET AEnds, NEW v \in AVolumes,
           SetVolumes(h, E, v)
    PROVE  AlsaInv'
<1>1. call = NoCall /\ request = NoRequest /\ h \notin used /\ used' = used \cup {h}
      /\ request' = [op |-> "volume", h |-> h, left |-> E, v |-> v]
      /\ UNCHANGED <<mState, worker, ended, object, call, links, highest, sourceState, ops>>
  BY DEF SetVolumes, Free, linkVars, threadVars
<1>2. NewCall
  BY <1>1 DEF NewCall
<1>3. Shape'
  BY <1>1, <1>2, NewCallFits DEF AlsaInv, Shape, Requests
<1>4. RequestFits'
  BY <1>1 DEF RequestFits
<1>5. ObjectsFit'
  <2>1. \A e \in E : object[<<h, e>>] = "none"
    BY <1>1, ThreadFacts DEF AlsaInv, ObjectsFit, HandleOf
  <2>2. request'.op = "volume" /\ request'.h = h /\ request'.left = E /\ h \in used'
    BY <1>1
  <2>3. \A g \in AHandles : \A w \in ops'[g] : HandleOf(w) = g /\ g \in used'
    BY <1>1 DEF AlsaInv, ObjectsFit
  <2>4. QED
    BY <1>1, <2>1, <2>2, <2>3, ObjectsComeAndGo DEF ObjectsFit
<1>6. SourcesFit'
  BY <1>1, <1>2, SourcesStayFit
<1>7. QED
  BY <1>2, <1>3, <1>4, <1>5, <1>6, NewCallFits DEF AlsaInv

LEMMA SetVolumeAtOnceInv ==
    ASSUME AlsaInv, NEW e \in AEnds, SetVolumeAtOnce(e)
    PROVE  AlsaInv'
<1>1. /\ call = NoCall /\ request.op = "volume" /\ e \in request.left
      /\ request' = IF request.left = {e} THEN NoRequest
                    ELSE [request EXCEPT !.left = request.left \ {e}]
      /\ UNCHANGED <<mState, worker, ended, object, call, links, highest, sourceState, ops, used>>
  BY DEF SetVolumeAtOnce, RestOf, linkVars, threadVars
<1>2. request \in [op : {"volume", "fading"}, h : AHandles, left : SUBSET AEnds, v : AVolumes]
  BY <1>1 DEF AlsaInv, Shape, Requests, NoRequest
<1>3. request' = NoRequest \/ (/\ request'.op = "volume" /\ request'.h = request.h
                              /\ request'.left = request.left \ {e} /\ request' \in Requests)
  BY <1>1, <1>2 DEF Requests
<1>4. NewCall /\ NoRequest \in Requests /\ NoRequest.op = "none"
  BY <1>1 DEF NewCall, Requests, NoRequest
<1>5. Shape'
  BY <1>1, <1>3, <1>4, NewCallFits DEF AlsaInv, Shape
<1>6. RequestFits'
  BY <1>1, <1>3, <1>4 DEF RequestFits
<1>7. ObjectsFit'
  BY <1>1, <1>3, <1>4, ObjectsComeAndGo DEF AlsaInv, ObjectsFit
<1>8. SourcesFit'
  BY <1>1, <1>4, SourcesStayFit
<1>9. QED
  BY <1>4, <1>5, <1>6, <1>7, <1>8, NewCallFits DEF AlsaInv

LEMMA StartFadingInv ==
    ASSUME AlsaInv, NEW e \in AEnds, StartFading(e)
    PROVE  AlsaInv'
<1> DEFINE w == <<request.h, e>>
<1>1. call = NoCall /\ request.op = "volume" /\ e \in request.left
      /\ object' = [object EXCEPT ![w] = "whole"]
      /\ call' = [at |-> "start", thread |-> w, next |-> "done"]
      /\ request' = [request EXCEPT !.op = "fading"]
      /\ UNCHANGED <<mState, worker, ended, links, highest, sourceState, ops, used>>
  BY DEF StartFading, Object, Calls, linkVars
<1>2. request \in [op : {"volume", "fading"}, h : AHandles, left : SUBSET AEnds, v : AVolumes]
  BY <1>1 DEF AlsaInv, Shape, Requests, NoRequest
<1>3. request'.op = "fading" /\ request'.h = request.h /\ request'.left = request.left
      /\ request' \in Requests
  BY <1>1, <1>2 DEF Requests
<1>4. w \in Ramps /\ w \in Threads /\ HandleOf(w) = request.h
  BY <1>2, ThreadFacts DEF HandleOf
<1>5. object[w] = "none" /\ mState[w] = "JOINED" /\ request.h \in used
  <2>1. call.thread # w
    BY <1>1, <1>4, ThreadFacts DEF NoCall
  <2>2. object[w] = "none" /\ request.h \in used
    BY <1>1, <2>1 DEF AlsaInv, ObjectsFit
  <2>3. QED
    BY <1>4, <2>2 DEF AlsaInv, ObjectsFit
<1>6. NewCall
  BY <1>1, <1>4 DEF NewCall, Calls
<1>7. \A x \in Threads : object'[x] = IF x = w THEN "whole" ELSE object[x]
  BY <1>1 DEF AlsaInv, Shape
<1>8. Shape'
  BY <1>1, <1>3, <1>6, NewCallFits DEF AlsaInv, Shape
<1>9. RequestFits'
  BY <1>1, <1>3, <1>5 DEF RequestFits, Serves, Starting, NoCall
<1>10. ObjectsFit'
  <2>1. \A d \in request.left : call'.thread # <<request.h, d>> => object'[<<request.h, d>>] = "none"
    <3> SUFFICES ASSUME NEW d \in request.left, w # <<request.h, d>>
                 PROVE  object'[<<request.h, d>>] = "none"
      BY <1>1
    <3>1. <<request.h, d>> \in Threads /\ <<request.h, d>> \in Ramps
      BY <1>2, ThreadFacts
    <3>2. call.thread # <<request.h, d>>
      BY <1>1, <3>1, ThreadFacts DEF NoCall
    <3>3. object[<<request.h, d>>] = "none"
      BY <1>1, <3>2 DEF AlsaInv, ObjectsFit
    <3>4. QED
      BY <1>7, <3>1, <3>3
  <2>2. object'[call'.thread] = "whole"
    BY <1>1, <1>4, <1>7
  <2>3. \A g \in AHandles : \A x \in ops'[g] : HandleOf(x) = g /\ g \in used'
    BY <1>1 DEF AlsaInv, ObjectsFit
  <2>4. QED
    BY <1>1, <1>3, <1>4, <1>5, <1>7, <2>1, <2>2, <2>3, ObjectsComeAndGo DEF ObjectsFit
<1>11. SourcesFit'
  BY <1>1, <1>6, SourcesStayFit
<1>12. QED
  BY <1>6, <1>8, <1>9, <1>10, <1>11, NewCallFits DEF AlsaInv

LEMMA FadingInv ==
    ASSUME AlsaInv, Fading
    PROVE  AlsaInv'
<1> DEFINE w == call.thread
           h == request.h
<1>1. /\ call.at = "done" /\ request.op = "fading"
      /\ ops' = [ops EXCEPT ![h] = ops[h] \cup {w}]
      /\ request' = IF request.left = {EndOf(w)} THEN NoRequest
                    ELSE [request EXCEPT !.op = "volume", !.left = request.left \ {EndOf(w)}]
      /\ call' = NoCall
      /\ UNCHANGED <<mState, worker, ended, object, links, highest, sourceState, used>>
  BY DEF Fading, Returned, linkVars
<1>2. request \in [op : {"volume", "fading"}, h : AHandles, left : SUBSET AEnds, v : AVolumes]
  BY <1>1 DEF AlsaInv, Shape, Requests, NoRequest
<1>3. PICK e \in request.left : w = <<h, e>>
  BY <1>1 DEF AlsaInv, RequestFits
<1>4. w \in Ramps /\ EndOf(w) = e /\ HandleOf(w) = h
  BY <1>2, <1>3, ThreadFacts DEF EndOf, HandleOf
<1>5. request' = NoRequest \/ (/\ request'.op = "volume" /\ request'.h = h
                              /\ request'.left = request.left \ {e} /\ request' \in Requests)
  BY <1>1, <1>2, <1>4 DEF Requests
<1>6. NewCall /\ NoRequest \in Requests /\ NoRequest.op = "none"
  BY <1>1 DEF NewCall, Requests, NoRequest
<1>7. Shape'
  <2>1. ops' \in [AHandles -> SUBSET Ramps]
    BY <1>1, <1>2, <1>4 DEF AlsaInv, Shape
  <2>2. QED
    BY <1>1, <1>5, <1>6, <2>1, NewCallFits DEF AlsaInv, Shape
<1>8. RequestFits'
  BY <1>1, <1>5, <1>6 DEF RequestFits
<1>9. ObjectsFit'
  <2>1. h \in used /\ \A d \in request.left \ {e} : object[<<h, d>>] = "none"
    BY <1>1, <1>3 DEF AlsaInv, ObjectsFit
  <2>2. \A g \in AHandles : \A x \in ops'[g] : HandleOf(x) = g /\ g \in used'
    <3>1. \A g \in AHandles : ops'[g] = IF g = h THEN ops[h] \cup {w} ELSE ops[g]
      BY <1>1 DEF AlsaInv, Shape
    <3>2. QED
      BY <1>1, <1>4, <2>1, <3>1 DEF AlsaInv, ObjectsFit
  <2>3. /\ \A x \in Threads : object'[x] = "none" => mState'[x] = "JOINED"
        /\ \A c \in HasProxy : object'[Proxy(c)] = IF c \in links' THEN "whole" ELSE "none"
        /\ \A x \in Ramps : HandleOf(x) \notin used' => object'[x] = "none"
    BY <1>1, ObjectsComeAndGo
  <2>4. CASE request' = NoRequest
    BY <1>6, <2>2, <2>3, <2>4 DEF ObjectsFit
  <2>5. CASE request' # NoRequest
    BY <1>1, <1>5, <2>1, <2>2, <2>3, <2>5 DEF ObjectsFit
  <2>6. QED
    BY <2>4, <2>5
<1>10. SourcesFit'
  BY <1>1, <1>6, SourcesStayFit
<1>11. QED
  BY <1>6, <1>7, <1>8, <1>9, <1>10, NewCallFits DEF AlsaInv

LEMMA AbortInv ==
    ASSUME AlsaInv, NEW h \in AHandles, Abort(h)
    PROVE  AlsaInv'
<1>1. /\ call = NoCall /\ request = NoRequest /\ h \in used /\ NoRequest.op = "none"
      /\ UNCHANGED <<mState, worker, ended, links, highest, sourceState, ops, used>>
  BY DEF Abort, Free, linkVars, NoRequest
<1>2. CASE ops[h] = {}
  <2>1. UNCHANGED <<object, call, request>>
    BY <1>2 DEF Abort
  <2>2. NewCall
    BY <1>1, <2>1 DEF NewCall
  <2>3. Shape' /\ RequestFits' /\ ObjectsFit'
    BY <1>1, <2>1 DEF AlsaInv, Shape, RequestFits, ObjectsFit
  <2>4. QED
    BY <1>1, <2>2, <2>3, NewCallFits, SourcesStayFit DEF AlsaInv
<1>3. CASE ops[h] # {}
  <2>1. PICK w \in ops[h] : /\ object' = [object EXCEPT ![w] = "base"]
                            /\ call' = [at |-> "join", thread |-> w, next |-> "done"]
                            /\ request' = [op |-> "abort", h |-> h, left |-> ops[h] \ {w}]
    BY <1>3 DEF Abort, Delete, Object, Calls
  <2>2. ops[h] \subseteq Ramps /\ \A x \in ops[h] : HandleOf(x) = h
    BY DEF AlsaInv, Shape, ObjectsFit
  <2>3. w \in Threads /\ w \in Ramps
    BY <2>2, ThreadFacts
  <2>4. NewCall
    BY <1>1, <2>1, <2>3 DEF NewCall, Calls
  <2>5. \A x \in Threads : object'[x] = IF x = w THEN "base" ELSE object[x]
    BY <2>1 DEF AlsaInv, Shape
  <2>6. Shape'
    <3>1. request' \in Requests
      BY <2>1, <2>2 DEF Requests
    <3>2. object' \in [Threads -> {"none", "whole", "base"}]
      BY <2>1 DEF AlsaInv, Shape
    <3>3. QED
      BY <1>1, <2>4, <3>1, <3>2, NewCallFits DEF AlsaInv, Shape
  <2>7. RequestFits'
    BY <2>1, <2>3 DEF RequestFits, Serves, Joins, NoCall
  <2>8. ObjectsFit'
    <3>1. \A x \in request'.left : HandleOf(x) = request'.h
      BY <2>1, <2>2
    <3>2. \A g \in AHandles : \A x \in ops'[g] : HandleOf(x) = g /\ g \in used'
      BY <1>1 DEF AlsaInv, ObjectsFit
    <3>3. \A x \in Threads : \/ object'[x] = object[x]
                             \/ x \in Ramps /\ HandleOf(x) \in used' /\ object'[x] # "none"
      BY <1>1, <2>2, <2>3, <2>5
    <3>4. request'.op = "abort" /\ request'.h \in used'
      BY <1>1, <2>1
    <3>5. QED
      BY <1>1, <3>1, <3>2, <3>3, <3>4, ObjectsComeAndGo DEF ObjectsFit
  <2>9. SourcesFit'
    BY <1>1, <2>4, SourcesStayFit
  <2>10. QED
    BY <2>4, <2>6, <2>7, <2>8, <2>9, NewCallFits DEF AlsaInv
<1>4. QED
  BY <1>2, <1>3

LEMMA AbortGoesOnInv ==
    ASSUME AlsaInv, AbortGoesOn
    PROVE  AlsaInv'
<1> DEFINE w == call.thread
           h == request.h
           left == request.left
<1>1. /\ call.at = "done" /\ request.op = "abort" /\ NoRequest.op = "none"
      /\ ops' = IF left = {} THEN [ops EXCEPT ![h] = {}] ELSE ops
      /\ UNCHANGED <<mState, worker, ended, links, highest, sourceState, used>>
  BY DEF AbortGoesOn, Returned, linkVars, NoRequest
<1>2. request \in [op : {"abort"}, h : AHandles, left : SUBSET Ramps]
  BY <1>1 DEF AlsaInv, Shape, Requests, NoRequest
<1>3. call # NoCall /\ w \in Ramps /\ w \in Threads /\ mState[w] = "JOINED"
      /\ h \in used /\ \A x \in left : HandleOf(x) = h
  <2>1. call # NoCall /\ w \in Ramps /\ h \in used /\ \A x \in left : HandleOf(x) = h
    BY <1>1 DEF NoCall, AlsaInv, RequestFits, ObjectsFit
  <2>2. QED
    BY <1>1, <2>1, ThreadFacts DEF AlsaInv, RequestFits, Serves
<1>4. /\ \A g \in AHandles : \A x \in ops'[g] : HandleOf(x) = g /\ g \in used'
      /\ ops' \in [AHandles -> SUBSET Ramps]
  <2>1. \A g \in AHandles : ops'[g] \subseteq ops[g]
    BY <1>1 DEF AlsaInv, Shape
  <2>2. QED
    BY <1>1, <2>1 DEF AlsaInv, Shape, ObjectsFit
<1>5. CASE left = {}
  <2>1. object' = [object EXCEPT ![w] = "none"] /\ call' = NoCall /\ request' = NoRequest
    BY <1>5 DEF AbortGoesOn, Gone, Object, Done
  <2>2. NewCall
    BY <1>1, <2>1 DEF NewCall
  <2>3. Shape'
    BY <1>1, <1>4, <2>1, <2>2, NewCallFits DEF AlsaInv, Shape, Requests
  <2>4. RequestFits'
    BY <1>1, <2>1 DEF RequestFits
  <2>5. ObjectsFit'
    <3>1. \A x \in Threads : \/ object'[x] = object[x]
                             \/ x \in Ramps /\ object'[x] = "none" /\ mState[x] = "JOINED"
      BY <1>3, <2>1 DEF AlsaInv, Shape
    <3>2. QED
      BY <1>1, <1>4, <2>1, <3>1, ObjectsComeAndGo DEF ObjectsFit
  <2>6. SourcesFit'
    BY <1>1, <2>2, SourcesStayFit
  <2>7. QED
    BY <2>2, <2>3, <2>4, <2>5, <2>6, NewCallFits DEF AlsaInv
<1>6. CASE left # {}
  <2>1. PICK v \in left : /\ object' = [object EXCEPT ![w] = "none", ![v] = "base"]
                          /\ call' = [at |-> "join", thread |-> v, next |-> "done"]
                          /\ request' = [request EXCEPT !.left = left \ {v}]
    BY <1>6 DEF AbortGoesOn, Gone, Calls
  <2>2. v \in Ramps /\ v \in Threads
    BY <1>2, ThreadFacts
  <2>3. /\ request'.op = "abort" /\ request'.h = h /\ request'.left = left \ {v}
        /\ request' \in Requests
    BY <1>2, <2>1 DEF Requests
  <2>4. NewCall
    BY <1>1, <2>1, <2>2 DEF NewCall, Calls
  <2>5. \A x \in Threads : object'[x] = IF x = v THEN "base" ELSE IF x = w THEN "none" ELSE object[x]
    BY <2>1 DEF AlsaInv, Shape
  <2>6. Shape'
    <3>1. object' \in [Threads -> {"none", "whole", "base"}]
      BY <2>1 DEF AlsaInv, Shape
    <3>2. QED
      BY <1>1, <1>4, <2>3, <2>4, <3>1, NewCallFits DEF AlsaInv, Shape
  <2>7. RequestFits'
    BY <2>1, <2>2, <2>3 DEF RequestFits, Serves, Joins, NoCall
  <2>8. ObjectsFit'
    <3>1. \A x \in Threads : \/ object'[x] = object[x]
                             \/ x \in Ramps /\ HandleOf(x) \in used' /\ object'[x] # "none"
                             \/ x \in Ramps /\ object'[x] = "none" /\ mState[x] = "JOINED"
      BY <1>1, <1>3, <2>2, <2>5
    <3>2. QED
      BY <1>1, <1>3, <1>4, <2>3, <3>1, ObjectsComeAndGo DEF ObjectsFit
  <2>9. SourcesFit'
    BY <1>1, <2>4, SourcesStayFit
  <2>10. QED
    BY <2>4, <2>6, <2>7, <2>8, <2>9, NewCallFits DEF AlsaInv
<1>7. QED
  BY <1>5, <1>6

LEMMA AsyncDeleteVolumeInv ==
    ASSUME AlsaInv, NEW w \in Ramps, AsyncDeleteVolume(w)
    PROVE  AlsaInv'
<1>1. /\ call = NoCall /\ w \in ops[HandleOf(w)]
      /\ object' = [object EXCEPT ![w] = "base"] /\ request' = [op |-> "delete"]
      /\ call' = [at |-> "join", thread |-> w, next |-> "done"]
      /\ UNCHANGED <<mState, worker, ended, links, highest, sourceState, ops, used>>
  BY DEF AsyncDeleteVolume, Free, Delete, Object, Calls, rampVars, linkVars
<1>2. w \in Threads /\ HandleOf(w) \in used /\ request'.op = "delete"
  BY <1>1, ThreadFacts DEF AlsaInv, ObjectsFit
<1>3. NewCall
  BY <1>1, <1>2 DEF NewCall, Calls
<1>4. Shape'
  BY <1>1, <1>3, NewCallFits DEF AlsaInv, Shape, Requests
<1>5. RequestFits'
  BY <1>1 DEF RequestFits, Serves, Joins, NoCall
<1>6. ObjectsFit'
  <2>1. \A x \in Threads : \/ object'[x] = object[x]
                           \/ x \in Ramps /\ HandleOf(x) \in used' /\ object'[x] # "none"
    BY <1>1, <1>2 DEF AlsaInv, Shape
  <2>2. \A g \in AHandles : \A x \in ops'[g] : HandleOf(x) = g /\ g \in used'
    BY <1>1 DEF AlsaInv, ObjectsFit
  <2>3. QED
    BY <1>1, <1>2, <2>1, <2>2, ObjectsComeAndGo DEF ObjectsFit
<1>7. SourcesFit'
  BY <1>1, <1>3, SourcesStayFit
<1>8. QED
  BY <1>3, <1>4, <1>5, <1>6, <1>7, NewCallFits DEF AlsaInv

LEMMA VolumeDeletedInv ==
    ASSUME AlsaInv, VolumeDeleted
    PROVE  AlsaInv'
<1> DEFINE w == call.thread
           h == HandleOf(w)
<1>1. /\ call.at = "done" /\ request.op = "delete" /\ NoRequest.op = "none"
      /\ ops' = [ops EXCEPT ![h] = LeftInList(h, w)]
      /\ object' = [object EXCEPT ![w] = "none"] /\ call' = NoCall /\ request' = NoRequest
      /\ UNCHANGED <<mState, worker, ended, links, highest, sourceState, used>>
  BY DEF VolumeDeleted, Returned, Gone, Object, Done, linkVars, NoRequest
<1>2. call # NoCall /\ w \in Ramps /\ w \in Threads /\ mState[w] = "JOINED"
  <2>1. call # NoCall /\ w \in Ramps
    BY <1>1 DEF NoCall, AlsaInv, RequestFits
  <2>2. QED
    BY <1>1, <2>1, ThreadFacts DEF AlsaInv, RequestFits, Serves
<1>3. NewCall
  BY <1>1 DEF NewCall
<1>4. /\ \A g \in AHandles : ops'[g] \subseteq ops[g]
      /\ ops' \in [AHandles -> SUBSET Ramps]
  BY <1>1, <1>2, ThreadFacts DEF AlsaInv, Shape, LeftInList
<1>5. Shape'
  BY <1>1, <1>3, <1>4, NewCallFits DEF AlsaInv, Shape, Requests
<1>6. RequestFits'
  BY <1>1 DEF RequestFits
<1>7. ObjectsFit'
  <2>1. \A x \in Threads : \/ object'[x] = object[x]
                           \/ x \in Ramps /\ object'[x] = "none" /\ mState[x] = "JOINED"
    BY <1>1, <1>2 DEF AlsaInv, Shape
  <2>2. \A g \in AHandles : \A x \in ops'[g] : HandleOf(x) = g /\ g \in used'
    BY <1>1, <1>4 DEF AlsaInv, ObjectsFit
  <2>3. QED
    BY <1>1, <2>1, <2>2, ObjectsComeAndGo DEF ObjectsFit
<1>8. SourcesFit'
  BY <1>1, <1>3, SourcesStayFit
<1>9. QED
  BY <1>3, <1>5, <1>6, <1>7, <1>8, NewCallFits DEF AlsaInv

-----------------------------------------------------------------------------
(* The invariant is inductive *)

LEMMA AlsaInitInv ==
    ASSUME AlsaInit
    PROVE  AlsaInv /\ OpsFit
<1>1. /\ mState = [w \in Threads |-> "JOINED"] /\ worker = [w \in Threads |-> "none"]
      /\ ended = [w \in Threads |-> FALSE] /\ object = [w \in Threads |-> "none"]
      /\ call = NoCall /\ request = NoRequest /\ links = {} /\ highest = 0
      /\ sourceState = [s \in ASources |-> "OFF"] /\ ops = [h \in AHandles |-> {}] /\ used = {}
      /\ NoRequest.op = "none"
  BY DEF AlsaInit, ThreadInit, NoRequest
<1>2. Shape
  BY <1>1 DEF Shape, MStates, WorkerPlaces, CallPlaces, Requests, NoCall
<1>3. WorkerFits
  BY <1>1 DEF WorkerFits, Fits
<1>4. CallFits
  BY <1>1, ThreadFacts DEF CallFits, Rest, AfterWait, NoCall
<1>5. RequestFits
  BY <1>1 DEF RequestFits
<1>6. ObjectsFit
  BY <1>1, ThreadFacts DEF ObjectsFit
<1>7. SourcesFit
  BY <1>1, ThreadFacts DEF SourcesFit
<1>8. OpsFit
  BY <1>1 DEF OpsFit
<1>9. QED
  BY <1>2, <1>3, <1>4, <1>5, <1>6, <1>7, <1>8 DEF AlsaInv

LEMMA DaemonRequestInv ==
    ASSUME AlsaInv, DaemonRequest
    PROVE  AlsaInv'
BY ConnectInv, DisconnectInv, SetSourceStateInv, SetVolumesInv, AbortInv DEF DaemonRequest

LEMMA DaemonThreadInv ==
    ASSUME AlsaInv, DaemonThread
    PROVE  AlsaInv'
<1>1. CASE CallStep /\ UNCHANGED <<request, rampVars, linkVars>>
  <2>1. UNCHANGED <<request, links, highest, sourceState, ops, used>>
    BY <1>1 DEF rampVars, linkVars
  <2>2. QED
    BY <1>1, <2>1, CallStepInv
<1>2. CASE Disconnected \/ SourceStateSet \/ Fading \/ AbortGoesOn \/ VolumeDeleted
  BY <1>2, DisconnectedInv, SourceStateSetInv, FadingInv, AbortGoesOnInv, VolumeDeletedInv
<1>3. CASE \E e \in AEnds : SetVolumeAtOnce(e) \/ StartFading(e)
  BY <1>3, SetVolumeAtOnceInv, StartFadingInv
<1>4. ASSUME NEW w \in Ramps, Acknowledged(w) PROVE AlsaInv'
  <2>1. /\ call = NoCall
        /\ UNCHANGED <<mState, worker, ended, object, call, request, links, highest, sourceState, ops, used>>
    BY <1>4 DEF Acknowledged, Free, threadVars, linkVars
  <2>2. NewCall
    BY <2>1 DEF NewCall
  <2>3. Shape' /\ RequestFits' /\ ObjectsFit'
    BY <2>1 DEF AlsaInv, Shape, RequestFits, ObjectsFit
  <2>4. QED
    BY <2>1, <2>2, <2>3, NewCallFits, SourcesStayFit DEF AlsaInv
<1>5. QED
  BY <1>1, <1>2, <1>3, <1>4, AsyncDeleteVolumeInv DEF DaemonThread

LEMMA ThreadRunsInv ==
    ASSUME AlsaInv, NEW w \in Threads, ThreadRuns(w)
    PROVE  AlsaInv'
<1>1. CASE WorkerStep(w) /\ UNCHANGED <<request, rampVars, linkVars>>
  <2>1. UNCHANGED <<request, links, highest, sourceState, ops, used>>
    BY <1>1 DEF rampVars, linkVars
  <2>2. QED
    BY <1>1, <2>1, WorkerInv
<1>2. CASE w \in Proxies /\ ProxyWorks(w)
  <2>1. UNCHANGED <<request, links, highest, sourceState, ops, used>>
    BY <1>2 DEF ProxyWorks, rampVars, linkVars
  <2>2. \/ \E ok \in BOOLEAN : InitThread(w, ok)
        \/ \E err \in BOOLEAN : Work(w, err) /\ (w \in Proxies => ~err)
        \/ DeinitThread(w)
    BY <1>2 DEF ProxyWorks
  <2>3. QED
    BY <2>1, <2>2, WorkerInv
<1>3. CASE w \in Ramps /\ (RampInit(w) \/ RampWorks(w) \/ RampDeinit(w))
  <2>1. UNCHANGED <<request, links, highest, sourceState, ops, used>>
    BY <1>3 DEF RampInit, RampWorks, RampDeinit, linkVars
  <2>2. w \notin Proxies
    BY <1>3, ThreadFacts
  <2>3. \/ \E ok \in BOOLEAN : InitThread(w, ok)
        \/ \E err \in BOOLEAN : Work(w, err) /\ (w \in Proxies => ~err)
        \/ DeinitThread(w)
    BY <1>3, <2>2 DEF RampInit, RampWorks, RampDeinit
  <2>4. QED
    BY <2>1, <2>3, WorkerInv
<1>4. QED
  BY <1>1, <1>2, <1>3 DEF ThreadRuns

LEMMA AlsaStepInv ==
    ASSUME AlsaInv, [AlsaNext]_alsaVars
    PROVE  AlsaInv'
<1>1. CASE AlsaNext
  BY <1>1, DaemonRequestInv, DaemonThreadInv, ThreadRunsInv DEF AlsaNext
<1>2. CASE UNCHANGED alsaVars
  <2>1. UNCHANGED <<mState, worker, ended, object, call, request, links, highest, sourceState, ops, used>>
    BY <1>2 DEF alsaVars, threadVars, rampVars, linkVars
  <2>2. Shape' /\ WorkerFits' /\ ObjectsFit'
    BY <2>1 DEF AlsaInv, Shape, WorkerFits, ObjectsFit
  <2>3. CallFits'
    BY <2>1 DEF AlsaInv, CallFits
  <2>4. \A s : LinkOf(s)' = LinkOf(s)
    BY <2>1 DEF LinkOf, LinksOf
  <2>5. \A x, y : Serves(x, y)' = Serves(x, y)
    BY <2>1 DEF Serves
  <2>6. RequestFits' /\ SourcesFit'
    BY <2>1, <2>4, <2>5 DEF AlsaInv, RequestFits, SourcesFit
  <2>7. QED
    BY <2>2, <2>3, <2>6 DEF AlsaInv
<1>3. QED
  BY <1>1, <1>2

\* The invariant holds of every reachable state.
LEMMA AlsaInvHolds == AlsaSpec => []AlsaInv
<1>1. AlsaInit => AlsaInv
  BY AlsaInitInv
<1>2. AlsaInv /\ [AlsaNext]_alsaVars => AlsaInv'
  BY AlsaStepInv
<1>3. QED
  BY <1>1, <1>2, PTL DEF AlsaSpec

\* asyncDisconnect(), asyncAbort() and asyncDeleteVolume() delete no object whose thread may
\* still run, whatever the order of the requests, of the threads' steps and of their failures:
\* joinThread() reaps the thread in every state it can meet.
THEOREM NoThreadLeft == AlsaSpec => []NoThreadLeftBehind
<1>1. AlsaInv => NoThreadLeftBehind
  BY DEF AlsaInv, ObjectsFit, WorkerFits, Fits, NoThreadLeftBehind
<1>2. QED
  BY <1>1, AlsaInvHolds, PTL

\* Once asyncSetSourceState() has answered OFF no proxy of the source copies data, also
\* when several connections share the source: findConnectionFromSource() finds the only one
\* whose proxy can have a thread, and stopThread() returns when that thread waits.
THEOREM OffIsSilent == AlsaSpec => []SilentWhenOff
<1>1. ASSUME AlsaInv PROVE SilentWhenOff
  <2> SUFFICES ASSUME call = NoCall, NEW s \in ASources, NEW w \in Proxies,
                      sourceState[s] = "OFF", SourceOf[w[1]] = s
               PROVE  worker[w] \in {"none", "wait"}
    BY DEF SilentWhenOff
  <2>1. w[1] \in HasProxy /\ w = Proxy(w[1]) /\ w \in Threads
    BY ThreadFacts
  <2>2. call.thread # w
    BY <2>1, ThreadFacts DEF NoCall
  <2>3. mState[w] \in {"JOINED", "STOPPED"}
    BY <1>1, <2>1, <2>2 DEF AlsaInv, SourcesFit
  <2>4. QED
    BY <1>1, <2>1, <2>3 DEF AlsaInv, WorkerFits, Fits
<1>2. QED
  BY <1>1, AlsaInvHolds, PTL

-----------------------------------------------------------------------------
(* The lists of volume objects, when a request is for one volume *)

\* Steps that have nothing to do with the lists.
LEMMA ListsStay ==
    ASSUME AlsaInv, OpsFit, UNCHANGED ops,
           \/ UNCHANGED <<object, request>> /\ call'.thread = call.thread
           \/ /\ request.op \in {"none", "disconnect", "state"}
              /\ request'.op \in {"none", "disconnect", "state"}
              /\ \A w \in Ramps : object'[w] = object[w]
    PROVE  OpsFit'
<1>1. \A h \in AHandles : ops[h] \subseteq Ramps
  BY DEF AlsaInv, Shape
<1>2. CASE UNCHANGED <<object, request>> /\ call'.thread = call.thread
  BY <1>2 DEF OpsFit
<1>3. CASE /\ request.op \in {"none", "disconnect", "state"}
           /\ request'.op \in {"none", "disconnect", "state"}
           /\ \A w \in Ramps : object'[w] = object[w]
  BY <1>1, <1>3 DEF OpsFit
<1>4. QED
  BY <1>2, <1>3

LEMMA RequestsOfConnections ==
    ASSUME AlsaInv, OpsFit,
           \/ \E c \in AConnections : Connect(c) \/ Disconnect(c)
           \/ Disconnected \/ SourceStateSet
           \/ \E s \in ASources, state \in {"ON", "OFF"} : SetSourceState(s, state)
    PROVE  OpsFit'
<1>1. NoRequest.op = "none"
  BY DEF NoRequest
<1>2. ASSUME NEW c \in AConnections, Connect(c) PROVE OpsFit'
  <2>1. /\ request = NoRequest /\ request' = NoRequest /\ ops' = ops
        /\ object' = IF c \in HasProxy THEN [object EXCEPT ![Proxy(c)] = "whole"] ELSE object
    BY <1>2 DEF Connect, Free, Object, rampVars
  <2>2. \A w \in Ramps : object'[w] = object[w]
    BY <2>1, ThreadFacts DEF AlsaInv, Shape
  <2>3. QED
    BY <1>1, <2>1, <2>2, ListsStay
<1>3. ASSUME NEW c \in AConnections, Disconnect(c) PROVE OpsFit'
  <2>1. /\ request = NoRequest /\ ops' = ops /\ object' = object
        /\ request' = NoRequest \/ request'.op = "disconnect"
    BY <1>3 DEF Disconnect, Free, rampVars
  <2>2. QED
    BY <1>1, <2>1, ListsStay
<1>4. CASE Disconnected
  <2>1. /\ request.op = "disconnect" /\ request' = NoRequest /\ ops' = ops
        /\ object' = [object EXCEPT ![Proxy(request.c)] = "none"]
    BY <1>4 DEF Disconnected, Returned, Done, Object, rampVars
  <2>2. Proxy(request.c) \notin Ramps /\ Proxy(request.c) \in Threads
    <3>1. request.c \in HasProxy
      BY <2>1 DEF AlsaInv, Shape, Requests, NoRequest
    <3>2. QED
      BY <3>1, ThreadFacts
  <2>3. \A w \in Ramps : object'[w] = object[w]
    BY <2>1, <2>2, ThreadFacts DEF AlsaInv, Shape
  <2>4. QED
    BY <1>1, <2>1, <2>3, ListsStay
<1>5. CASE SourceStateSet
  <2>1. request.op = "state" /\ request' = NoRequest /\ ops' = ops /\ object' = object
    BY <1>5 DEF SourceStateSet, Returned, Done, rampVars
  <2>2. QED
    BY <1>1, <2>1, ListsStay
<1>6. ASSUME NEW s \in ASources, NEW state \in {"ON", "OFF"}, SetSourceState(s, state)
      PROVE  OpsFit'
  <2>1. /\ request = NoRequest /\ ops' = ops /\ object' = object
        /\ request' = NoRequest \/ request'.op = "state"
    BY <1>6 DEF SetSourceState, Free, rampVars
  <2>2. QED
    BY <1>1, <2>1, ListsStay
<1>7. QED
  BY <1>2, <1>3, <1>4, <1>5, <1>6

LEMMA RequestsOfVolumes ==
    ASSUME AlsaInv, OpsFit, MaxVolumes = 1,
           \/ \E h \in AHandles, v \in AVolumes, E \in SUBSET AEnds :
                Cardinality(E) \in 1 .. MaxVolumes /\ SetVolumes(h, E, v)
           \/ \E e \in AEnds : SetVolumeAtOnce(e) \/ StartFading(e)
           \/ Fading
    PROVE  OpsFit'
<1>1. NoRequest.op = "none"
  BY DEF NoRequest
<1>2. /\ \A h \in AHandles : ops[h] \subseteq Ramps
      /\ \A h \in AHandles : \A w \in ops[h] : HandleOf(w) = h /\ h \in used
      /\ ops \in [AHandles -> SUBSET Ramps]
  BY DEF AlsaInv, Shape, ObjectsFit
<1>3. request.op \in {"volume", "fading"} =>
        /\ request \in [op : {"volume", "fading"}, h : AHandles, left : SUBSET AEnds, v : AVolumes]
        /\ ops[request.h] = {} /\ \E e \in AEnds : request.left = {e}
  BY DEF AlsaInv, Shape, Requests, NoRequest, OpsFit
<1>4. ASSUME NEW h \in AHandles, NEW v \in AVolumes, NEW E \in SUBSET AEnds,
             Cardinality(E) \in 1 .. MaxVolumes, SetVolumes(h, E, v)
      PROVE  OpsFit'
  <2>1. /\ request = NoRequest /\ h \notin used /\ UNCHANGED <<ops, object>>
        /\ request' = [op |-> "volume", h |-> h, left |-> E, v |-> v]
    BY <1>4 DEF SetVolumes, Free, threadVars
  <2>2. ops[h] = {}
    BY <1>2, <2>1
  <2>3. \E e \in AEnds : E = {e}
    <3>1. Cardinality(E) = 1
      BY <1>4
    <3>2. IsFiniteSet(E)
      BY FS_Subset, AlsaAssumption
    <3>3. QED
      BY <3>1, <3>2, FS_Singleton
  <2>4. QED
    BY <1>1, <2>1, <2>2, <2>3 DEF OpsFit
<1>5. ASSUME NEW e \in AEnds, SetVolumeAtOnce(e) PROVE OpsFit'
  <2>1. /\ request.op = "volume" /\ e \in request.left /\ UNCHANGED <<ops, object>>
        /\ request.left = {e} => request' = NoRequest
    BY <1>5 DEF SetVolumeAtOnce, RestOf, threadVars
  <2>2. request' = NoRequest
    BY <1>3, <2>1
  <2>3. QED
    BY <1>1, <2>1, <2>2 DEF OpsFit
<1>6. ASSUME NEW e \in AEnds, StartFading(e) PROVE OpsFit'
  <2>1. /\ request.op = "volume" /\ e \in request.left /\ UNCHANGED ops
        /\ object' = [object EXCEPT ![<<request.h, e>>] = "whole"]
        /\ request' = [request EXCEPT !.op = "fading"]
    BY <1>6 DEF StartFading, Object
  <2>2. request'.op = "fading" /\ request'.h = request.h /\ request'.left = request.left
    BY <1>3, <2>1
  <2>3. \A h \in AHandles : \A w \in ops[h] : object[w] = "whole"
    BY <2>1 DEF OpsFit
  <2>4. \A h \in AHandles : \A w \in ops[h] : object'[w] = "whole"
    BY <1>2, <2>1, <2>3, ThreadFacts DEF AlsaInv, Shape
  <2>5. QED
    BY <1>3, <2>1, <2>2, <2>4 DEF OpsFit
<1>7. CASE Fading
  <2> DEFINE w == call.thread
             h == request.h
  <2>1. /\ request.op = "fading" /\ call.at = "done" /\ UNCHANGED object
        /\ ops' = [ops EXCEPT ![h] = ops[h] \cup {w}]
        /\ request.left = {EndOf(w)} => request' = NoRequest
    BY <1>7 DEF Fading, Returned
  <2>2. PICK e \in request.left : w = <<h, e>>
    BY <2>1 DEF AlsaInv, RequestFits
  <2>3. EndOf(w) = e /\ h \in AHandles /\ object[w] = "whole" /\ request.left = {e}
    BY <1>3, <2>1, <2>2 DEF EndOf, AlsaInv, ObjectsFit
  <2>4. \A g \in AHandles : ops'[g] = IF g = h THEN {w} ELSE ops[g]
    BY <1>2, <1>3, <2>1
  <2>5. \A g \in AHandles : \A x \in ops'[g] : object[x] = "whole"
    BY <2>1, <2>3, <2>4 DEF OpsFit
  <2>6. \A g \in AHandles : \A x, y \in ops'[g] : x = y
    BY <2>4 DEF OpsFit
  <2>7. request' = NoRequest
    BY <2>1, <2>3
  <2>8. QED
    BY <1>1, <2>1, <2>5, <2>6, <2>7 DEF OpsFit
<1>8. QED
  BY <1>4, <1>5, <1>6, <1>7

LEMMA DeletionOfVolumes ==
    ASSUME AlsaInv, OpsFit,
           \/ \E h \in AHandles : Abort(h)
           \/ AbortGoesOn \/ VolumeDeleted
           \/ \E w \in Ramps : Acknowledged(w) \/ AsyncDeleteVolume(w)
    PROVE  OpsFit'
<1>1. NoRequest.op = "none"
  BY DEF NoRequest
<1>2. /\ \A h \in AHandles : ops[h] \subseteq Ramps
      /\ \A h \in AHandles : \A w \in ops[h] : HandleOf(w) = h
      /\ ops \in [AHandles -> SUBSET Ramps]
  BY DEF AlsaInv, Shape, ObjectsFit
<1>3. ASSUME NEW h \in AHandles, Abort(h) PROVE OpsFit'
  <2>1. request = NoRequest /\ ops' = ops
    BY <1>3 DEF Abort, Free
  <2>2. CASE ops[h] = {}
    BY <1>1, <1>3, <2>1, <2>2, ListsStay DEF Abort
  <2>3. CASE ops[h] # {}
    <3>1. PICK w \in ops[h] : /\ object' = [object EXCEPT ![w] = "base"]
                              /\ call' = [at |-> "join", thread |-> w, next |-> "done"]
                              /\ request' = [op |-> "abort", h |-> h, left |-> ops[h] \ {w}]
      BY <1>3, <2>3 DEF Abort, Delete, Object, Calls
    <3>2. ops[h] \ {w} = {} /\ HandleOf(w) = h
      BY <1>2 DEF OpsFit
    <3>3. \A g \in AHandles : g # h => \A x \in ops[g] : object'[x] = object[x]
      BY <1>2, <3>1, <3>2, ThreadFacts DEF AlsaInv, Shape
    <3>4. \A g \in AHandles : \A x \in ops[g] : object[x] = "whole"
      BY <1>1, <2>1 DEF OpsFit
    <3>5. request'.op = "abort" /\ request'.h = h /\ request'.left = {} /\ call'.thread = w
      BY <3>1, <3>2
    <3>6. QED
      BY <2>1, <3>2, <3>3, <3>4, <3>5 DEF OpsFit
  <2>4. QED
    BY <2>2, <2>3
<1>4. CASE AbortGoesOn
  <2> DEFINE w == call.thread
             h == request.h
  <2>1. call.at = "done" /\ request.op = "abort"
    BY <1>4 DEF AbortGoesOn, Returned
  <2>2. request.left = {} /\ h \in AHandles /\ HandleOf(w) = h /\ w \in Ramps
    <3>1. h \in AHandles
      BY <2>1 DEF AlsaInv, Shape, Requests, NoRequest
    <3>2. QED
      BY <2>1, <3>1 DEF OpsFit, AlsaInv, RequestFits
  <2>3. /\ object' = [object EXCEPT ![w] = "none"] /\ request' = NoRequest
        /\ ops' = [ops EXCEPT ![h] = {}]
    BY <1>4, <2>2 DEF AbortGoesOn, Gone, Object, Done
  <2>4. \A g \in AHandles : ops'[g] = IF g = h THEN {} ELSE ops[g]
    BY <1>2, <2>3
  <2>5. \A g \in AHandles : g # h => \A x \in ops[g] : object'[x] = object[x] /\ object[x] = "whole"
    BY <1>2, <2>1, <2>2, <2>3, ThreadFacts DEF AlsaInv, Shape, OpsFit
  <2>6. QED
    BY <1>1, <2>3, <2>4, <2>5 DEF OpsFit
<1>5. CASE VolumeDeleted
  <2> DEFINE w == call.thread
             h == HandleOf(w)
  <2>1. /\ call.at = "done" /\ request.op = "delete"
        /\ object' = [object EXCEPT ![w] = "none"] /\ request' = NoRequest
        /\ ops' = [ops EXCEPT ![h] = LeftInList(h, w)]
    BY <1>5 DEF VolumeDeleted, Returned, Gone, Object, Done
  <2>2. w \in Ramps /\ h \in AHandles /\ w \in ops[h]
    BY <2>1, ThreadFacts DEF AlsaInv, RequestFits, OpsFit
  <2>3. LeftInList(h, w) = {}
    BY <2>2 DEF OpsFit, LeftInList
  <2>4. \A g \in AHandles : ops'[g] = IF g = h THEN {} ELSE ops[g]
    BY <1>2, <2>1, <2>3
  <2>5. \A g \in AHandles : g # h => \A x \in ops[g] : object'[x] = object[x] /\ object[x] = "whole"
    BY <1>2, <2>1, <2>2, ThreadFacts DEF AlsaInv, Shape, OpsFit
  <2>6. QED
    BY <1>1, <2>1, <2>4, <2>5 DEF OpsFit
<1>6. ASSUME NEW w \in Ramps, Acknowledged(w) PROVE OpsFit'
  BY <1>6, ListsStay DEF Acknowledged, threadVars
<1>7. ASSUME NEW w \in Ramps, AsyncDeleteVolume(w) PROVE OpsFit'
  <2>1. /\ request = NoRequest /\ w \in ops[HandleOf(w)] /\ ops' = ops
        /\ object' = [object EXCEPT ![w] = "base"] /\ request' = [op |-> "delete"]
        /\ call' = [at |-> "join", thread |-> w, next |-> "done"]
    BY <1>7 DEF AsyncDeleteVolume, Free, Delete, Object, Calls, rampVars
  <2>2. \A g \in AHandles : \A x \in ops[g] : object[x] = "whole"
    BY <1>1, <2>1 DEF OpsFit
  <2>3. \A g \in AHandles : \A x \in ops[g] : x # w => object'[x] = object[x]
    BY <1>2, <2>1, ThreadFacts DEF AlsaInv, Shape
  <2>4. request'.op = "delete" /\ call'.thread = w
    BY <2>1
  <2>5. QED
    BY <2>1, <2>2, <2>3, <2>4 DEF OpsFit
<1>8. QED
  BY <1>3, <1>4, <1>5, <1>6, <1>7

LEMMA OpsStepInv ==
    ASSUME AlsaInv, OpsFit, MaxVolumes = 1, [AlsaNext]_alsaVars
    PROVE  OpsFit'
<1>1. CASE DaemonRequest
  BY <1>1, RequestsOfConnections, RequestsOfVolumes, DeletionOfVolumes DEF DaemonRequest
<1>2. CASE CallStep /\ UNCHANGED <<request, rampVars, linkVars>>
  <2>1. UNCHANGED <<object, request, ops>>
    BY <1>2 DEF CallStep, ReadState, StateChanged, Fork, Verdict, Resume, Halt, Joining, Reap, rampVars
  <2>2. call'.thread = call.thread
    BY <1>2 DEF CallStep, ReadState, StateChanged, Fork, Verdict, Resume, Halt, Joining, Reap, At,
                AlsaInv, Shape
  <2>3. QED
    BY <2>1, <2>2, ListsStay
<1>3. CASE DaemonThread
  BY <1>2, <1>3, RequestsOfConnections, RequestsOfVolumes, DeletionOfVolumes DEF DaemonThread
<1>4. ASSUME NEW w \in Threads, ThreadRuns(w) PROVE OpsFit'
  <2>1. UNCHANGED <<object, call, request, ops>>
    BY <1>4 DEF ThreadRuns, WorkerStep, Check, Stopped, Woken, Test, LoopLeft, Undefined, ProxyWorks,
                InitThread, Work, DeinitThread, RampInit, RampWorks, RampDeinit, rampVars
  <2>2. QED
    BY <2>1, ListsStay
<1>5. CASE UNCHANGED alsaVars
  BY <1>5, ListsStay DEF alsaVars, threadVars, rampVars
<1>6. QED
  BY <1>1, <1>3, <1>4, <1>5 DEF AlsaNext

\* As long as a request is for one volume, what mMapAsyncOperations points to exists whenever
\* the daemon's thread is free: neither asyncAbort() nor asyncDeleteVolume() meets an object
\* that the other has deleted.  (With several volumes in one request it does not hold:
\* asyncDeleteVolume() leaves the list as it was unless its copy has become empty.)
THEOREM ListedObjectsExist == MaxVolumes = 1 => (AlsaSpec => []OpsAreAlive)
<1> SUFFICES ASSUME MaxVolumes = 1 PROVE AlsaSpec => []OpsAreAlive
  OBVIOUS
<1>1. AlsaInit => AlsaInv /\ OpsFit
  BY AlsaInitInv
<1>2. (AlsaInv /\ OpsFit) /\ [AlsaNext]_alsaVars => (AlsaInv /\ OpsFit)'
  BY AlsaStepInv, OpsStepInv
<1>3. AlsaInv /\ OpsFit => OpsAreAlive
  <2> SUFFICES ASSUME AlsaInv, OpsFit, call = NoCall PROVE \A h \in AHandles : \A w \in ops[h] : object[w] = "whole"
    BY DEF OpsAreAlive
  <2>1. request.op \in {"none", "volume"}
    BY DEF AlsaInv, RequestFits
  <2>2. QED
    BY <2>1 DEF OpsFit
<1>4. QED
  BY <1>1, <1>2, <1>3, PTL DEF AlsaSpec
-----------------------------------------------------------------------------
(* USB cards *)

CardsShape ==
    /\ plugged \subseteq Cards
    /\ events \in Seq({"add", "remove"} \X Cards)
    /\ nameOf \in [Directions -> [Cards -> Seq(Cards)]]
    /\ DOMAIN listed = Directions
    /\ elements \subseteq Directions \X Cards

\* A sequence of the members of X, each once.
Enumerates(s, X) ==
    /\ s \in Seq(X)
    /\ \A x \in X : \E i \in 1..Len(s) : s[i] = x
    /\ \A i, j \in 1..Len(s) : s[i] = s[j] => i = j

CardsOf(d) == {c \in Cards : <<d, c>> \in elements}

\* The lists of one direction agree with each other and with the daemon: a card is in each of
\* them once, or in none.
ListsFit ==
    \A d \in Directions :
        /\ CardsOf(d) \subseteq Devices[d]
        /\ \A c \in Cards : nameOf[d][c] # <<>> <=> c \in CardsOf(d)
        /\ Enumerates(listed[d], CardsOf(d) \X {"id"})

\* The events of a card that still wait alternate, and lead from what is listed to what is there.
IsFirst(i, c) == events[i][2] = c /\ \A k \in 1..(i - 1) : events[k][2] # c
IsLast(i, c) == events[i][2] = c /\ \A k \in (i + 1)..Len(events) : events[k][2] # c
Follows(i, j, c) ==
    i < j /\ events[i][2] = c /\ events[j][2] = c /\ \A k \in (i + 1)..(j - 1) : events[k][2] # c

EventsFit ==
    /\ \A c \in Cards : \A i, j \in DOMAIN events : Follows(i, j, c) => events[i][1] # events[j][1]
    /\ \A c \in Cards : \A i \in DOMAIN events : IsLast(i, c) => (events[i][1] = "add" <=> c \in plugged)
    /\ \A c \in Cards : \A i \in DOMAIN events :
          IsFirst(i, c) /\ events[i][1] = "add" => \A d \in Directions : c \notin CardsOf(d)
    /\ \A c \in Cards : (\A i \in DOMAIN events : events[i][2] # c) =>
          \A d \in Directions : c \in CardsOf(d) <=> c \in plugged \cap Devices[d]

CardsFit ==
    /\ CardsShape /\ ListsFit
    /\ enumerated => EventsFit
    /\ ~enumerated => events = <<>> /\ elements = {}

CardsInv == thrown \/ CardsFit

LEMMA SetToSeqEnumerates ==
    ASSUME NEW S, IsFiniteSet(S)
    PROVE  Enumerates(SetToSeq(S), S)
<1> DEFINE n == Cardinality(S)
<1>1. n \in Nat /\ ExistsBijection(1..n, S)
  BY FS_CardinalityType
<1>2. \E f \in [1..n -> S] : IsInjective(f)
  BY <1>1 DEF ExistsBijection, Bijection, Injection
<1>3. SetToSeq(S) \in [1..n -> S] /\ IsInjective(SetToSeq(S))
  BY <1>2 DEF SetToSeq
<1>4. IsFiniteSet(1..n) /\ Cardinality(1..n) = n
  BY <1>1, FS_Interval
<1>5. SetToSeq(S) \in Injection(1..n, S)
  BY <1>3 DEF Injection
<1>6. SetToSeq(S) \in Surjection(1..n, S)
  BY <1>4, <1>5, FS_Injection
<1> HIDE DEF n
<1>7. SetToSeq(S) \in Seq(S) /\ Len(SetToSeq(S)) = n
  BY <1>1, <1>3
<1>8. \A x \in S : \E i \in 1..n : SetToSeq(S)[i] = x
  BY <1>6 DEF Surjection
<1>9. \A i, j \in 1..n : SetToSeq(S)[i] = SetToSeq(S)[j] => i = j
  BY <1>3 DEF IsInjective
<1> QED
  BY <1>7, <1>8, <1>9 DEF Enumerates

LEMMA EnumeratesMembers ==
    ASSUME NEW s, NEW X, Enumerates(s, X), NEW i \in 1..Len(s)
    PROVE  s[i] \in X
BY DEF Enumerates

\* Entries for elements the daemon does not have get an identifier.
EntriesOf(L, R, d) == {<<c, IF <<d, c>> \in R THEN "none" ELSE "id">> : c \in L}

LEMMA FreshEntries ==
    ASSUME NEW L, NEW R, NEW d, \A c \in L : <<d, c>> \notin R
    PROVE  EntriesOf(L, R, d) = L \X {"id"}
<1>1. \A c \in L : (IF <<d, c>> \in R THEN "none" ELSE "id") = "id"
  OBVIOUS
<1>2. \A c \in L : <<c, IF <<d, c>> \in R THEN "none" ELSE "id">> = <<c, "id">>
  BY <1>1
<1>3. {<<c, IF <<d, c>> \in R THEN "none" ELSE "id">> : c \in L} = {<<c, "id">> : c \in L}
  BY <1>2, Zenon
<1>4. \A x : x \in {<<c, "id">> : c \in L} <=> \E c \in L : x = <<c, "id">>
  BY Zenon
<1>5. \A x : x \in L \X {"id"} <=> \E c \in L : x = <<c, "id">>
  OBVIOUS
<1>6. {<<c, "id">> : c \in L} = L \X {"id"}
  BY <1>4, <1>5, Zenon
<1> QED
  BY <1>3, <1>6 DEF EntriesOf

LEMMA AppendTyped ==
    ASSUME NEW T, NEW s \in Seq(T), NEW x \in T
    PROVE  Append(s, x) \in Seq(T) /\ Append(s, x) # <<>>
<1>1. Append(s, x) \in Seq(T) /\ Len(Append(s, x)) = Len(s) + 1 /\ Len(s) \in Nat
  OBVIOUS
<1>2. Len(<<>>) = 0
  OBVIOUS
<1>3. Append(s, x) # <<>>
  BY <1>1, <1>2
<1> QED
  BY <1>1, <1>3

LEMMA ConcatEnumerates ==
    ASSUME NEW s, NEW t, NEW X, NEW Y, Enumerates(s, X), Enumerates(t, Y), X \cap Y = {}
    PROVE  Enumerates(s \o t, X \cup Y)
<1> DEFINE n == Len(s)
           m == Len(t)
<1>1. s \in Seq(X) /\ t \in Seq(Y)
  BY DEF Enumerates
<1>2. s \in Seq(X \cup Y) /\ t \in Seq(X \cup Y)
  BY <1>1
<1>3. PICK both : both = s \o t
  OBVIOUS
<1>4. /\ n \in Nat /\ m \in Nat /\ both \in Seq(X \cup Y) /\ Len(both) = n + m
      /\ \A i \in 1..n : both[i] = s[i] /\ s[i] \in X
      /\ \A i \in 1..m : both[n + i] = t[i] /\ t[i] \in Y
  BY <1>1, <1>2, <1>3
<1> HIDE DEF n, m
<1>5. \A i \in 1..(n + m) : i \in 1..n \/ \E k \in 1..m : i = n + k
  <2> SUFFICES ASSUME NEW i \in 1..(n + m), i \notin 1..n PROVE \E k \in 1..m : i = n + k
    OBVIOUS
  <2>1. i - n \in 1..m /\ i = n + (i - n)
    BY <1>4
  <2> QED
    BY <2>1
<1>6. (\A i \in 1..n : i \in 1..(n + m)) /\ \A k \in 1..m : n + k \in 1..(n + m)
  BY <1>4
<1>7. ASSUME NEW x \in X \cup Y
      PROVE  \E i \in 1..(n + m) : both[i] = x
  <2>1. CASE x \in X
    <3>1. PICK i \in 1..n : s[i] = x
      BY <2>1 DEF Enumerates, n
    <3> QED
      BY <1>4, <1>6, <3>1
  <2>2. CASE x \in Y
    <3>1. PICK i \in 1..m : t[i] = x
      BY <2>2 DEF Enumerates, m
    <3> QED
      BY <1>4, <1>6, <3>1
  <2> QED
    BY <2>1, <2>2
<1>8. ASSUME NEW i \in 1..(n + m), NEW j \in 1..(n + m), both[i] = both[j]
      PROVE  i = j
  <2>1. CASE i \in 1..n /\ j \in 1..n
    BY <1>4, <1>8, <2>1 DEF Enumerates, n
  <2>2. CASE \E k \in 1..m, q \in 1..m : i = n + k /\ j = n + q
    <3>1. PICK k \in 1..m, q \in 1..m : i = n + k /\ j = n + q
      BY <2>2
    <3>2. t[k] = t[q]
      BY <1>4, <1>8, <3>1
    <3>3. k = q
      BY <3>2 DEF Enumerates, m
    <3> QED
      BY <3>1, <3>3
  <2>3. CASE i \in 1..n /\ \E k \in 1..m : j = n + k
    BY <1>4, <1>8, <2>3
  <2>4. CASE j \in 1..n /\ \E k \in 1..m : i = n + k
    BY <1>4, <1>8, <2>4
  <2> QED
    BY <1>5, <2>1, <2>2, <2>3, <2>4
<1> QED
  BY <1>3, <1>4, <1>7, <1>8 DEF Enumerates

LEMMA RemoveAtEnumerates ==
    ASSUME NEW s, NEW X, Enumerates(s, X), NEW k \in 1..Len(s)
    PROVE  Enumerates(RemoveAt(s, k), X \ {s[k]})
<1> DEFINE n == Len(s)
           Old(i) == IF i < k THEN i ELSE i + 1
<1>1. s \in Seq(X) /\ n \in Nat /\ \A i \in 1..n : s[i] \in X
  BY DEF Enumerates
<1>2. PICK less : less = RemoveAt(s, k)
  OBVIOUS
<1>3. PICK front, back : front = SubSeq(s, 1, k - 1) /\ back = SubSeq(s, k + 1, n)
  OBVIOUS
<1>4. front \in Seq(X) /\ Len(front) = k - 1 /\ \A i \in 1..(k - 1) : front[i] = s[i]
  BY <1>1, <1>3
<1>5. back \in Seq(X) /\ Len(back) = n - k /\ \A i \in 1..(n - k) : back[i] = s[k + i]
  BY <1>1, <1>3
<1>6. less = front \o back
  BY <1>2, <1>3 DEF RemoveAt
<1>7. /\ Len(less) = n - 1 /\ less \in Seq(X)
      /\ \A i \in 1..(k - 1) : less[i] = front[i]
      /\ \A i \in k..(n - 1) : less[i] = back[i - (k - 1)]
  BY <1>1, <1>4, <1>5, <1>6
<1>8. \A i \in 1..(n - 1) : less[i] = s[Old(i)] /\ Old(i) \in 1..n /\ Old(i) # k
  <2> SUFFICES ASSUME NEW i \in 1..(n - 1)
               PROVE  less[i] = s[Old(i)] /\ Old(i) \in 1..n /\ Old(i) # k
    OBVIOUS
  <2>1. CASE i < k
    BY <1>1, <1>4, <1>7, <2>1
  <2>2. CASE ~(i < k)
    <3>1. i \in k..(n - 1) /\ i - (k - 1) \in 1..(n - k) /\ k + (i - (k - 1)) = i + 1
      BY <1>1, <2>2
    <3> QED
      BY <1>5, <1>7, <2>2, <3>1
  <2> QED
    BY <2>1, <2>2
<1>9. \A i, j \in 1..(n - 1) : Old(i) = Old(j) => i = j
  BY <1>1
<1>10. ASSUME NEW j \in 1..n, j # k
       PROVE  \E i \in 1..(n - 1) : Old(i) = j
  <2>1. CASE j < k
    <3>1. j \in 1..(n - 1) /\ Old(j) = j
      BY <1>1, <2>1
    <3> QED
      BY <3>1
  <2>2. CASE j > k
    <3>1. j - 1 \in 1..(n - 1) /\ Old(j - 1) = j
      BY <1>1, <2>2
    <3> QED
      BY <3>1
  <2> QED
    BY <1>1, <1>10, <2>1, <2>2
<1> HIDE DEF Old
<1>11. \A i, j \in 1..n : s[i] = s[j] => i = j
  BY DEF Enumerates
<1>12. \A i \in 1..(n - 1) : less[i] \in X \ {s[k]}
  BY <1>1, <1>8, <1>11
<1>13. less \in Seq(X \ {s[k]})
  BY <1>7, <1>12
<1>14. \A i, j \in 1..(n - 1) : less[i] = less[j] => i = j
  BY <1>8, <1>9, <1>11
<1>15. ASSUME NEW x \in X \ {s[k]}
       PROVE  \E i \in 1..(n - 1) : less[i] = x
  <2>1. PICK j \in 1..n : s[j] = x
    BY DEF Enumerates
  <2>2. PICK i \in 1..(n - 1) : Old(i) = j
    BY <1>10, <2>1
  <2> QED
    BY <1>8, <2>1, <2>2
<1> QED
  BY <1>2, <1>7, <1>13, <1>14, <1>15 DEF Enumerates

\* Cards that are not listed are listed once, and the daemon takes them.
LEMMA RegisteredFits ==
    ASSUME CardsShape, ListsFit, NEW C, C \subseteq Cards, Registered(C), plugged' = plugged,
           \A d \in Directions : Labelled(d, C) \cap CardsOf(d) = {}
    PROVE  /\ ListsFit'
           /\ nameOf' \in [Directions -> [Cards -> Seq(Cards)]]
           /\ DOMAIN listed' = Directions /\ elements' \subseteq Directions \X Cards
           /\ \A d \in Directions : CardsOf(d)' = CardsOf(d) \cup Labelled(d, C)
<1>1. \A d \in Directions : Labelled(d, C) \subseteq Cards /\ Labelled(d, C) \subseteq Devices[d]
  BY DEF Labelled
<1>2. elements' \subseteq Directions \X Cards
  BY <1>1 DEF Registered, CardsShape
<1>3. ASSUME NEW d \in Directions
      PROVE  CardsOf(d)' = CardsOf(d) \cup Labelled(d, C)
  <2>1. ASSUME NEW c \in Cards
        PROVE  <<d, c>> \in elements' <=> <<d, c>> \in elements \/ c \in Labelled(d, C)
    BY DEF Registered
  <2> QED
    BY <1>1, <2>1 DEF CardsOf
<1>4. ASSUME NEW d \in Directions, NEW c \in Cards
      PROVE  nameOf'[d][c] = IF c \in Labelled(d, C) THEN Append(nameOf[d][c], c) ELSE nameOf[d][c]
  BY DEF Registered
<1>5. nameOf' \in [Directions -> [Cards -> Seq(Cards)]]
  <2>1. ASSUME NEW d \in Directions, NEW c \in Cards
        PROVE  nameOf'[d][c] \in Seq(Cards)
    <3>1. nameOf[d][c] \in Seq(Cards)
      BY DEF CardsShape
    <3> QED
      BY <1>4, <3>1, AppendTyped
  <2>2. ASSUME NEW d \in Directions
        PROVE  nameOf'[d] = [c \in Cards |-> nameOf'[d][c]]
    BY DEF Registered
  <2>3. nameOf' = [d \in Directions |-> [c \in Cards |-> nameOf'[d][c]]]
    BY <2>2 DEF Registered
  <2> QED
    BY <2>1, <2>3
<1>6. ASSUME NEW d \in Directions
      PROVE  /\ CardsOf(d)' \subseteq Devices[d]
             /\ \A c \in Cards : nameOf'[d][c] # <<>> <=> c \in CardsOf(d)'
             /\ Enumerates(listed'[d], CardsOf(d)' \X {"id"})
  <2> DEFINE L == Labelled(d, C)
             S == EntriesOf(L, elements, d)
  <2>1. CardsOf(d)' \subseteq Devices[d]
    BY <1>1, <1>3 DEF ListsFit
  <2>2. ASSUME NEW c \in Cards
        PROVE  nameOf'[d][c] # <<>> <=> c \in CardsOf(d)'
    <3>0. nameOf[d][c] \in Seq(Cards)
      BY DEF CardsShape
    <3>1. Append(nameOf[d][c], c) # <<>>
      BY <3>0, AppendTyped
    <3> QED
      BY <1>3, <1>4, <3>1 DEF ListsFit
  <2>3. \A c \in L : <<d, c>> \notin elements
    BY <1>1 DEF CardsOf
  <2>4. S = L \X {"id"}
    BY <2>3, FreshEntries
  <2>5. listed'[d] = listed[d] \o SetToSeq(S)
    BY DEF Registered, EntriesOf
  <2>6. IsFiniteSet(L \X {"id"})
    BY <1>1, UsbAssumption, FS_Subset, FS_Product, FS_Singleton
  <2> HIDE DEF S, L
  <2>7. Enumerates(SetToSeq(S), L \X {"id"})
    BY <2>4, <2>6, SetToSeqEnumerates
  <2>8. Enumerates(listed[d], CardsOf(d) \X {"id"})
    BY DEF ListsFit
  <2>9. (CardsOf(d) \X {"id"}) \cap (L \X {"id"}) = {}
    BY DEF L
  <2>10. Enumerates(listed'[d], (CardsOf(d) \X {"id"}) \cup (L \X {"id"}))
    <3> DEFINE X == CardsOf(d) \X {"id"}
               Y == L \X {"id"}
    <3>1. Enumerates(listed[d], X) /\ Enumerates(SetToSeq(S), Y) /\ X \cap Y = {}
      BY <2>7, <2>8, <2>9
    <3> HIDE DEF X, Y
    <3>2. Enumerates(listed[d] \o SetToSeq(S), X \cup Y)
      BY <3>1, ConcatEnumerates
    <3>3. Enumerates(listed'[d], X \cup Y)
      BY <2>5, <3>2
    <3> QED
      BY <3>3 DEF X, Y
  <2>11. (CardsOf(d) \X {"id"}) \cup (L \X {"id"}) = CardsOf(d)' \X {"id"}
    BY <1>3 DEF L
  <2> QED
    BY <2>1, <2>2, <2>10, <2>11
<1> QED
  BY <1>2, <1>3, <1>5, <1>6 DEF ListsFit, Registered

\* findElement() finds the only entry of a listed card, and the card leaves all the lists.
LEMMA DeregisteredFits ==
    ASSUME CardsShape, ListsFit, NEW c \in Cards, Deregistered(c), ~thrown'
    PROVE  /\ ListsFit'
           /\ nameOf' \in [Directions -> [Cards -> Seq(Cards)]]
           /\ DOMAIN listed' = Directions /\ elements' \subseteq Directions \X Cards
           /\ \A d \in Directions : CardsOf(d)' = CardsOf(d) \ {c}
<1>1. \A d \in Directions : nameOf[d][c] # <<>>
  <2> DEFINE gone == {d \in Directions : nameOf[d][c] # <<>> /\ (d = "sink" => nameOf["source"][c] # <<>>)}
  <2>1. thrown' = (gone # Directions)
    BY DEF Deregistered
  <2> QED
    BY <2>1
<1>2. {d \in Directions : nameOf[d][c] # <<>> /\ (d = "sink" => nameOf["source"][c] # <<>>)} = Directions
  BY <1>1 DEF Directions
<1>3. ASSUME NEW d \in Directions
      PROVE  /\ Found(d, c) /\ Entry(d, c) \in 1..Len(listed[d])
             /\ listed[d][Entry(d, c)] = <<c, "id">>
  <2> DEFINE I == {i \in 1..Len(listed[d]) : listed[d][i][1] = c}
  <2>1. c \in CardsOf(d)
    BY <1>1 DEF ListsFit
  <2>2. Enumerates(listed[d], CardsOf(d) \X {"id"})
    BY DEF ListsFit
  <2>3. \E i \in 1..Len(listed[d]) : listed[d][i] = <<c, "id">>
    BY <2>1, <2>2 DEF Enumerates
  <2>4. I # {} /\ I \subseteq Nat
    BY <2>3
  <2>5. Entry(d, c) = Min(I)
    BY <2>4 DEF Entry, SelectInSeq
  <2>6. Entry(d, c) \in I
    BY <2>4, <2>5, LeastOfSet
  <2>7. listed[d][Entry(d, c)] \in CardsOf(d) \X {"id"} /\ listed[d][Entry(d, c)][1] = c
    <3>1. Entry(d, c) \in 1..Len(listed[d]) /\ listed[d][Entry(d, c)][1] = c
      BY <2>6
    <3> QED
      BY <2>2, <3>1, EnumeratesMembers
  <2>8. Entry(d, c) # 0
    BY <2>6
  <2>9. listed[d][Entry(d, c)] = <<c, "id">>
    BY <2>7
  <2>10. Found(d, c)
    BY <1>1, <2>8 DEF Found
  <2>11. Entry(d, c) \in 1..Len(listed[d])
    BY <2>6
  <2> QED
    BY <2>9, <2>10, <2>11
<1>4. elements' = (elements \ {<<"source", c>>}) \ {<<"sink", c>>}
  <2>1. Found("source", c) /\ listed["source"][Entry("source", c)][2] = "id"
    BY <1>3 DEF Directions
  <2>2. Found("sink", c) /\ listed["sink"][Entry("sink", c)][2] = "id"
    BY <1>3 DEF Directions
  <2> QED
    BY <1>2, <2>1, <2>2 DEF Deregistered, WithoutElement, Directions
<1>5. \A d \in Directions : CardsOf(d)' = CardsOf(d) \ {c}
  BY <1>4 DEF CardsOf, Directions
<1>6. nameOf' \in [Directions -> [Cards -> Seq(Cards)]]
      /\ \A d \in Directions : nameOf'[d] = [nameOf[d] EXCEPT ![c] = <<>>]
  <2>1. nameOf' = [d \in Directions |-> [nameOf[d] EXCEPT ![c] = <<>>]]
    BY DEF Deregistered
  <2>2. \A d \in Directions : [nameOf[d] EXCEPT ![c] = <<>>] \in [Cards -> Seq(Cards)]
    BY DEF CardsShape
  <2> QED
    BY <2>1, <2>2
<1>7. DOMAIN listed' = Directions /\ \A d \in Directions : listed'[d] = RemoveAt(listed[d], Entry(d, c))
  <2>1. listed' = [d \in Directions |-> WithoutEntry(d, c)]
    BY <1>2 DEF Deregistered
  <2> QED
    BY <1>3, <2>1 DEF WithoutEntry
<1>8. ASSUME NEW d \in Directions
      PROVE  /\ CardsOf(d)' \subseteq Devices[d]
             /\ \A q \in Cards : nameOf'[d][q] # <<>> <=> q \in CardsOf(d)'
             /\ Enumerates(listed'[d], CardsOf(d)' \X {"id"})
  <2>1. CardsOf(d)' \subseteq Devices[d]
    BY <1>5 DEF ListsFit
  <2>2. \A q \in Cards : nameOf'[d][q] # <<>> <=> q \in CardsOf(d)'
    <3>1. ASSUME NEW q \in Cards
          PROVE  nameOf'[d][q] = IF q = c THEN <<>> ELSE nameOf[d][q]
      <4>1. DOMAIN nameOf[d] = Cards
        BY DEF CardsShape
      <4> QED
        BY <1>6, <4>1
    <3> QED
      BY <1>5, <3>1 DEF ListsFit
  <2>3. Enumerates(listed'[d], (CardsOf(d) \X {"id"}) \ {<<c, "id">>})
    <3> DEFINE X == CardsOf(d) \X {"id"}
    <3>1. Enumerates(listed[d], X)
      BY DEF ListsFit
    <3> HIDE DEF X
    <3>2. Enumerates(RemoveAt(listed[d], Entry(d, c)), X \ {listed[d][Entry(d, c)]})
      BY <1>3, <3>1, RemoveAtEnumerates
    <3>3. Enumerates(listed'[d], X \ {listed[d][Entry(d, c)]})
      BY <1>7, <3>2
    <3> QED
      BY <1>3, <3>3 DEF X
  <2>4. (CardsOf(d) \X {"id"}) \ {<<c, "id">>} = CardsOf(d)' \X {"id"}
    BY <1>5
  <2> QED
    BY <2>1, <2>2, <2>3, <2>4
<1> QED
  BY <1>4, <1>5, <1>6, <1>7, <1>8 DEF ListsFit, CardsShape

\* A card is plugged in or out: its events go on alternating.
LEMMA PlugFits ==
    ASSUME EventsFit, CardsShape, NEW c \in Cards, Plug(c)
    PROVE  EventsFit'
<1> DEFINE n == Len(events)
<1>1. PICK w : /\ w \in {"add", "remove"} /\ events' = Append(events, <<w, c>>)
               /\ w = "add" <=> c \notin plugged
               /\ c \in plugged' <=> w = "add"
               /\ \A q \in Cards : q # c => (q \in plugged' <=> q \in plugged)
  BY DEF Plug
<1>2. /\ n \in Nat /\ DOMAIN events = 1..n /\ DOMAIN events' = 1..(n + 1) /\ Len(events') = n + 1
      /\ \A i \in 1..n : events'[i] = events[i]
      /\ events'[n + 1] = <<w, c>>
  <2>1. events \in Seq({"add", "remove"} \X Cards) /\ <<w, c>> \in {"add", "remove"} \X Cards
    BY <1>1 DEF CardsShape
  <2> QED
    BY <1>1, <2>1
<1> HIDE DEF n
<1>3. events'[n + 1][1] = w /\ events'[n + 1][2] = c
  BY <1>2
<1>4. \A d \in Directions : CardsOf(d)' = CardsOf(d)
  BY DEF CardsOf, Plug
<1>5. ASSUME NEW q \in Cards, NEW i \in 1..n, IsLast(i, q)', q # c
      PROVE  IsLast(i, q)
  BY <1>2, <1>5 DEF IsLast, n
<1>6. ASSUME NEW q \in Cards, NEW i \in 1..n, IsFirst(i, q)'
      PROVE  IsFirst(i, q)
  BY <1>2, <1>6 DEF IsFirst
<1>7. ASSUME NEW q \in Cards, NEW i \in 1..(n + 1), NEW j \in 1..(n + 1), Follows(i, j, q)'
      PROVE  events'[i][1] # events'[j][1]
  <2>1. i \in 1..n
    BY <1>2, <1>7 DEF Follows
  <2>2. CASE j \in 1..n
    <3>1. Follows(i, j, q)
      BY <1>2, <1>7, <2>1, <2>2 DEF Follows
    <3> QED
      BY <1>2, <2>1, <2>2, <3>1 DEF EventsFit
  <2>3. CASE j = n + 1
    <3>1. q = c
      BY <1>3, <1>7, <2>3 DEF Follows
    <3>2. \A k \in (i + 1)..n : k \in (i + 1)..(j - 1) /\ k \in 1..n
      BY <1>2, <2>1, <2>3
    <3>3. IsLast(i, c)
      BY <1>2, <1>7, <2>1, <3>1, <3>2 DEF Follows, IsLast, n
    <3>4. events[i][1] = "add" <=> c \in plugged
      BY <1>2, <2>1, <3>3 DEF EventsFit
    <3>5. events'[i] = events[i] /\ events'[j][1] = w
      BY <1>2, <1>3, <2>1, <2>3
    <3> QED
      BY <1>1, <3>4, <3>5
  <2> QED
    BY <1>2, <2>2, <2>3
<1>8. ASSUME NEW q \in Cards, NEW i \in 1..(n + 1), IsLast(i, q)'
      PROVE  events'[i][1] = "add" <=> q \in plugged'
  <2>1. CASE i = n + 1
    BY <1>1, <1>3, <1>8, <2>1 DEF IsLast
  <2>2. CASE i # n + 1
    <3>1. i \in 1..n /\ n + 1 \in (i + 1)..Len(events')
      BY <1>2, <2>2
    <3>2. q # c
      BY <1>3, <1>8, <3>1 DEF IsLast
    <3>3. IsLast(i, q)
      BY <1>5, <1>8, <3>1, <3>2
    <3> QED
      BY <1>1, <1>2, <3>1, <3>2, <3>3 DEF EventsFit
  <2> QED
    BY <2>1, <2>2
<1>9. ASSUME NEW q \in Cards, NEW i \in 1..(n + 1), IsFirst(i, q)', events'[i][1] = "add",
             NEW d \in Directions
      PROVE  q \notin CardsOf(d)'
  <2>1. CASE i = n + 1
    <3>1. q = c /\ w = "add"
      BY <1>3, <1>9, <2>1 DEF IsFirst
    <3>2. \A k \in 1..n : events[k][2] # c
      BY <1>2, <1>9, <2>1, <3>1 DEF IsFirst
    <3> QED
      BY <1>1, <1>2, <1>4, <3>1, <3>2 DEF EventsFit
  <2>2. CASE i # n + 1
    <3>1. i \in 1..n
      BY <1>2, <2>2
    <3>2. IsFirst(i, q) /\ events[i][1] = "add"
      BY <1>2, <1>6, <1>9, <3>1
    <3> QED
      BY <1>2, <1>4, <3>1, <3>2 DEF EventsFit
  <2> QED
    BY <2>1, <2>2
<1>10. ASSUME NEW q \in Cards, \A i \in 1..(n + 1) : events'[i][2] # q, NEW d \in Directions
       PROVE  q \in CardsOf(d)' <=> q \in plugged' \cap Devices[d]
  <2>1. q # c /\ \A i \in 1..n : events[i][2] # q
    BY <1>2, <1>3, <1>10
  <2> QED
    BY <1>1, <1>2, <1>4, <2>1 DEF EventsFit
<1> QED
  BY <1>2, <1>7, <1>8, <1>9, <1>10 DEF EventsFit

\* The detector takes the next event: of a card that came it lists what is there, a card that
\* went it takes from the lists.
LEMMA ReceiveFits ==
    ASSUME EventsFit, CardsShape, events # <<>>, events' = Tail(events), plugged' = plugged,
           NEW w, NEW c, Head(events) = <<w, c>>,
           \A d \in Directions : \A q \in Cards : q # c => (q \in CardsOf(d)' <=> q \in CardsOf(d)),
           \A d \in Directions : w = "add" => (c \in CardsOf(d)' <=> c \in plugged \cap Devices[d]),
           \A d \in Directions : w = "remove" => c \notin CardsOf(d)'
    PROVE  EventsFit'
<1> DEFINE n == Len(events)
<1>1. /\ n \in Nat /\ n >= 1 /\ DOMAIN events = 1..n /\ DOMAIN events' = 1..(n - 1)
      /\ Len(events') = n - 1 /\ \A i \in 1..(n - 1) : events'[i] = events[i + 1]
      /\ events[1] = <<w, c>> /\ events[1] \in {"add", "remove"} \X Cards
  <2>1. events \in Seq({"add", "remove"} \X Cards)
    BY DEF CardsShape
  <2> QED
    BY <2>1
<1> HIDE DEF n
<1>2. events[1][1] = w /\ events[1][2] = c /\ w \in {"add", "remove"} /\ c \in Cards
  BY <1>1
<1>3. \A i \in 1..(n - 1) : i + 1 \in 1..n /\ 1 \in 1..n
  BY <1>1
<1>8. ASSUME NEW k \in 2..n
      PROVE  k - 1 \in 1..(n - 1) /\ events[k] = events'[k - 1]
  <2>1. k - 1 \in 1..(n - 1) /\ (k - 1) + 1 = k
    BY <1>1
  <2> QED
    BY <1>1, <2>1
<1>4. ASSUME NEW q \in Cards, NEW i \in 1..(n - 1), NEW j \in 1..(n - 1), Follows(i, j, q)'
      PROVE  events'[i][1] # events'[j][1]
  <2>1. \A k \in (i + 2)..j : k - 1 \in (i + 1)..(j - 1) /\ k - 1 \in 1..(n - 1) /\ (k - 1) + 1 = k
    BY <1>1
  <2>2. Follows(i + 1, j + 1, q)
    <3>1. i < j /\ events[i + 1][2] = q /\ events[j + 1][2] = q
      BY <1>1, <1>4 DEF Follows
    <3>2. \A k \in (i + 2)..j : events[k][2] # q
      BY <1>1, <1>4, <2>1 DEF Follows
    <3>3. ((i + 1) + 1)..((j + 1) - 1) = (i + 2)..j /\ i + 1 < j + 1
      BY <1>1, <3>1
    <3> QED
      BY <3>1, <3>2, <3>3 DEF Follows
  <2> QED
    BY <1>1, <1>3, <2>2 DEF EventsFit
<1>5. ASSUME NEW q \in Cards, NEW i \in 1..(n - 1), IsLast(i, q)'
      PROVE  events'[i][1] = "add" <=> q \in plugged'
  <2>1. ASSUME NEW k \in ((i + 1) + 1)..n
        PROVE  events[k][2] # q
    <3>1. k \in 2..n /\ k - 1 \in (i + 1)..Len(events')
      BY <1>1
    <3> QED
      BY <1>5, <1>8, <3>1 DEF IsLast
  <2>2. IsLast(i + 1, q)
    BY <1>1, <1>5, <2>1 DEF IsLast, n
  <2> QED
    BY <1>1, <1>3, <2>2 DEF EventsFit
<1>6. ASSUME NEW q \in Cards, NEW i \in 1..(n - 1), IsFirst(i, q)', events'[i][1] = "add",
             NEW d \in Directions
      PROVE  q \notin CardsOf(d)'
  <2>1. ASSUME NEW k \in 2..i
        PROVE  events[k][2] # q
    <3>1. k \in 2..n /\ k - 1 \in 1..(i - 1)
      BY <1>1
    <3> QED
      BY <1>6, <1>8, <3>1 DEF IsFirst
  <2>2. events[i + 1][2] = q /\ events[i + 1][1] = "add" /\ \A k \in 2..i : events[k][2] # q
    BY <1>1, <1>6, <2>1 DEF IsFirst
  <2>3. CASE q # c
    <3>1. \A k \in 1..i : k = 1 \/ k \in 2..i
      BY <1>1
    <3>2. IsFirst(i + 1, q)
      BY <1>1, <1>2, <2>2, <2>3, <3>1 DEF IsFirst
    <3> QED
      BY <1>1, <1>3, <2>2, <2>3, <3>2 DEF EventsFit
  <2>4. CASE q = c
    <3>1. (1 + 1)..((i + 1) - 1) = 2..i /\ 1 < i + 1
      BY <1>1
    <3>2. Follows(1, i + 1, c)
      BY <1>2, <2>2, <2>4, <3>1 DEF Follows
    <3>3. events[1][1] # events[i + 1][1]
      BY <1>1, <1>2, <1>3, <3>2 DEF EventsFit
    <3>4. w = "remove"
      BY <1>2, <2>2, <3>3
    <3> QED
      BY <2>4, <3>4
  <2> QED
    BY <2>3, <2>4
<1>7. ASSUME NEW q \in Cards, \A i \in 1..(n - 1) : events'[i][2] # q, NEW d \in Directions
      PROVE  q \in CardsOf(d)' <=> q \in plugged' \cap Devices[d]
  <2>2. \A k \in 2..n : events[k][2] # q
    BY <1>7, <1>8
  <2>3. CASE q # c
    <3>1. \A k \in 1..n : k = 1 \/ k \in 2..n
      BY <1>1
    <3>2. \A k \in 1..n : events[k][2] # q
      BY <1>2, <2>2, <2>3, <3>1
    <3> QED
      BY <1>1, <2>3, <3>2 DEF EventsFit
  <2>4. CASE q = c
    <3>1. (1 + 1)..Len(events) = 2..n /\ 1 \in 1..n
      BY <1>1 DEF n
    <3>2. IsLast(1, c)
      BY <1>2, <2>2, <2>4, <3>1 DEF IsLast
    <3>3. w = "add" <=> c \in plugged
      BY <1>1, <1>2, <3>1, <3>2 DEF EventsFit
    <3> QED
      BY <1>2, <2>4, <3>3
  <2> QED
    BY <2>3, <2>4
<1>9. DOMAIN events' = 1..(n - 1)
  BY <1>1
<1>10. \A q \in Cards : \A i, j \in DOMAIN events' : Follows(i, j, q)' => events'[i][1] # events'[j][1]
  BY <1>4, <1>9
<1>11. \A q \in Cards : \A i \in DOMAIN events' :
          IsLast(i, q)' => (events'[i][1] = "add" <=> q \in plugged')
  BY <1>5, <1>9
<1>12. \A q \in Cards : \A i \in DOMAIN events' :
          IsFirst(i, q)' /\ events'[i][1] = "add" => \A d \in Directions : q \notin CardsOf(d)'
  BY <1>6, <1>9
<1>13. \A q \in Cards : (\A i \in DOMAIN events' : events'[i][2] # q) =>
          \A d \in Directions : q \in CardsOf(d)' <=> q \in plugged' \cap Devices[d]
  BY <1>7, <1>9
<1> QED
  BY <1>10, <1>11, <1>12, <1>13 DEF EventsFit

LEMMA CardsStepInv ==
    ASSUME CardsInv, ~EarlyPlugs, [UsbNext]_usbVars
    PROVE  CardsInv'
<1> SUFFICES ASSUME ~thrown, ~thrown' PROVE CardsFit'
  <2>1. CASE thrown
    <3>1. thrown'
      BY <2>1 DEF UsbNext, EnumerateAndRegister, ReceiveData, Plug, usbVars
    <3> QED
      BY <3>1 DEF CardsInv
  <2> QED
    BY <2>1 DEF CardsInv
<1>1. CardsFit
  BY DEF CardsInv
<1>2. CASE EnumerateAndRegister
  <2>1. ~enumerated /\ enumerated' /\ Registered(plugged) /\ UNCHANGED <<plugged, events>>
    BY <1>2 DEF EnumerateAndRegister
  <2>2. CardsShape /\ ListsFit /\ events = <<>> /\ elements = {}
    BY <1>1, <2>1 DEF CardsFit
  <2>3. \A d \in Directions : CardsOf(d) = {}
    BY <2>2 DEF CardsOf
  <2>4. plugged \subseteq Cards
    BY <2>2 DEF CardsShape
  <2>5. /\ ListsFit' /\ nameOf' \in [Directions -> [Cards -> Seq(Cards)]]
        /\ DOMAIN listed' = Directions /\ elements' \subseteq Directions \X Cards
        /\ \A d \in Directions : CardsOf(d)' = CardsOf(d) \cup Labelled(d, plugged)
    BY <2>1, <2>2, <2>3, <2>4, RegisteredFits
  <2>6. CardsShape'
    BY <2>1, <2>2, <2>5 DEF CardsShape
  <2>7. DOMAIN events' = {}
    BY <2>1, <2>2
  <2>8. \A c \in Cards, d \in Directions : c \in CardsOf(d)' <=> c \in plugged' \cap Devices[d]
    BY <2>1, <2>3, <2>5 DEF Labelled
  <2>9. EventsFit'
    BY <2>7, <2>8 DEF EventsFit
  <2> QED
    BY <2>1, <2>5, <2>6, <2>9 DEF CardsFit
<1>3. CASE ReceiveData
  <2>1. events # <<>> /\ events' = Tail(events) /\ UNCHANGED <<plugged, enumerated>>
    BY <1>3 DEF ReceiveData
  <2>2. CardsShape /\ ListsFit /\ EventsFit /\ enumerated
    BY <1>1, <2>1 DEF CardsFit
  <2>3. events \in Seq({"add", "remove"} \X Cards)
    BY <2>2 DEF CardsShape
  <2>4. Head(events) \in {"add", "remove"} \X Cards /\ events[1] = Head(events) /\ Len(events) >= 1
        /\ DOMAIN events = 1..Len(events) /\ events' \in Seq({"add", "remove"} \X Cards)
    BY <2>1, <2>3
  <2>5. PICK w \in {"add", "remove"}, c \in Cards : Head(events) = <<w, c>>
    BY <2>4
  <2>6. Head(events)[1] = w /\ Head(events)[2] = c
    BY <2>5
  <2>7. CASE w = "add"
    <3>1. Registered({c})
      BY <1>3, <2>6, <2>7 DEF ReceiveData
    <3>2. IsFirst(1, c) /\ 1 \in DOMAIN events /\ events[1][1] = "add"
      BY <2>4, <2>6, <2>7 DEF IsFirst
    <3>3. \A d \in Directions : c \notin CardsOf(d)
      BY <2>2, <3>2 DEF EventsFit
    <3>4. \A d \in Directions : Labelled(d, {c}) \cap CardsOf(d) = {}
      BY <3>3 DEF Labelled
    <3>5. /\ ListsFit' /\ nameOf' \in [Directions -> [Cards -> Seq(Cards)]]
          /\ DOMAIN listed' = Directions /\ elements' \subseteq Directions \X Cards
          /\ \A d \in Directions : CardsOf(d)' = CardsOf(d) \cup Labelled(d, {c})
      BY <2>1, <2>2, <3>1, <3>4, RegisteredFits
    <3>6. \A d \in Directions : \A q \in Cards : q # c => (q \in CardsOf(d)' <=> q \in CardsOf(d))
      BY <3>5 DEF Labelled
    <3>7. \A d \in Directions : c \in CardsOf(d)' <=> c \in plugged \cap Devices[d]
      BY <3>3, <3>5 DEF Labelled
    <3>8. EventsFit'
      BY <2>1, <2>2, <2>5, <2>7, <3>6, <3>7, ReceiveFits
    <3>9. CardsShape'
      BY <2>1, <2>2, <2>4, <3>5 DEF CardsShape
    <3> QED
      BY <2>1, <2>2, <3>5, <3>8, <3>9 DEF CardsFit
  <2>8. CASE w = "remove"
    <3>1. Deregistered(c)
      BY <1>3, <2>6, <2>8 DEF ReceiveData
    <3>2. /\ ListsFit' /\ nameOf' \in [Directions -> [Cards -> Seq(Cards)]]
          /\ DOMAIN listed' = Directions /\ elements' \subseteq Directions \X Cards
          /\ \A d \in Directions : CardsOf(d)' = CardsOf(d) \ {c}
      BY <2>2, <3>1, DeregisteredFits
    <3>3. \A d \in Directions : \A q \in Cards : q # c => (q \in CardsOf(d)' <=> q \in CardsOf(d))
      BY <3>2
    <3>4. \A d \in Directions : c \notin CardsOf(d)'
      BY <3>2
    <3>5. EventsFit'
      BY <2>1, <2>2, <2>5, <2>8, <3>3, <3>4, ReceiveFits
    <3>6. CardsShape'
      BY <2>1, <2>2, <2>4, <3>2 DEF CardsShape
    <3> QED
      BY <2>1, <2>2, <3>2, <3>5, <3>6 DEF CardsFit
  <2> QED
    BY <2>7, <2>8
<1>4. ASSUME NEW c \in Cards, Plug(c)
      PROVE  CardsFit'
  <2>1. enumerated /\ UNCHANGED <<enumerated, nameOf, listed, elements>>
    BY <1>4 DEF Plug
  <2>2. CardsShape /\ ListsFit /\ EventsFit
    BY <1>1, <2>1 DEF CardsFit
  <2>3. EventsFit'
    BY <1>4, <2>2, PlugFits
  <2>4. ListsFit'
    BY <2>1, <2>2 DEF ListsFit, CardsOf
  <2>5. CardsShape'
    <3>1. events \in Seq({"add", "remove"} \X Cards)
      BY <2>2 DEF CardsShape
    <3>2. PICK x \in {"add", "remove"} \X Cards : events' = Append(events, x)
      BY <1>4 DEF Plug
    <3>3. events' \in Seq({"add", "remove"} \X Cards)
      BY <3>1, <3>2, AppendTyped
    <3>4. plugged' \subseteq Cards
      BY <1>4, <2>2 DEF Plug, CardsShape
    <3> QED
      BY <2>1, <2>2, <3>3, <3>4 DEF CardsShape
  <2> QED
    BY <2>1, <2>3, <2>4, <2>5 DEF CardsFit
<1>5. CASE UNCHANGED usbVars
  <2>1. UNCHANGED <<plugged, events, enumerated, nameOf, listed, elements>>
    BY <1>5 DEF usbVars
  <2>2. CardsShape' <=> CardsShape
    BY <2>1 DEF CardsShape
  <2>3. ListsFit' <=> ListsFit
    BY <2>1 DEF ListsFit, CardsOf
  <2>4. EventsFit' <=> EventsFit
    BY <2>1 DEF EventsFit, CardsOf, IsFirst, IsLast, Follows
  <2> QED
    BY <1>1, <2>1, <2>2, <2>3, <2>4 DEF CardsFit
<1> QED
  BY <1>2, <1>3, <1>4, <1>5 DEF UsbNext

LEMMA CardsStart == UsbInit => CardsInv
<1> SUFFICES ASSUME UsbInit PROVE CardsFit
  BY DEF CardsInv
<1>1. \A d \in Directions : CardsOf(d) = {}
  BY DEF UsbInit, CardsOf
<1>2. Enumerates(<<>>, {} \X {"id"})
  BY DEF Enumerates
<1>3. CardsShape
  BY DEF UsbInit, CardsShape
<1>4. ListsFit
  BY <1>1, <1>2 DEF ListsFit, UsbInit
<1> QED
  BY <1>3, <1>4 DEF UsbInit, CardsFit

\* The daemon has the elements of the cards that are there once the detector has seen all
\* events, for every number of cards and whatever the order in which they are plugged in and
\* out, as long as none is plugged in between the start of the monitor and the enumeration.
THEOREM CardsAreFollowed == ~EarlyPlugs => (UsbSpec => []ElementsFollowCards)
<1> SUFFICES ASSUME ~EarlyPlugs PROVE UsbSpec => []ElementsFollowCards
  OBVIOUS
<1>1. UsbInit => CardsInv
  BY CardsStart
<1>2. CardsInv /\ [UsbNext]_usbVars => CardsInv'
  BY CardsStepInv
<1>3. CardsInv => ElementsFollowCards
  <2> SUFFICES ASSUME CardsInv, enumerated, events = <<>>, ~thrown
               PROVE  elements = UNION {{d} \X (plugged \cap Devices[d]) : d \in Directions}
    BY DEF ElementsFollowCards
  <2>1. CardsShape /\ EventsFit /\ DOMAIN events = {}
    BY DEF CardsInv, CardsFit
  <2>2. \A d \in Directions, c \in Cards : <<d, c>> \in elements <=> c \in plugged \cap Devices[d]
    BY <2>1 DEF EventsFit, CardsOf
  <2>3. elements \subseteq Directions \X Cards /\ plugged \subseteq Cards
    BY <2>1 DEF CardsShape
  <2>4. \A x : x \in elements <=> \E d \in Directions : x \in {d} \X (plugged \cap Devices[d])
    BY <2>2, <2>3
  <2> QED
    BY <2>4
<1>4. QED
  BY <1>1, <1>2, <1>3, PTL DEF UsbSpec
=============================================================================
