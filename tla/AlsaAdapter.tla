----------------------------- MODULE AlsaAdapter -----------------------------
(***************************************************************************)
(* The ALSA routing adapter, CAmRoutingAdapterALSASender: a connection     *)
(* between real devices has a proxy whose thread copies the audio data, a  *)
(* change of volume has an object whose thread moves the mixer step by     *)
(* step.  The requests of the daemon are handled by the daemon's thread,   *)
(* which waits in startThread(), stopThread() and joinThread(); a volume   *)
(* thread reports to it through a serializer of its own.                   *)
(***************************************************************************)
EXTENDS AdapterThread, Sequences, FiniteSets, FiniteSetsExt

CONSTANTS
  AConnections,  \* connection identifiers, in the order the daemon gives them out
  ASources,
  SourceOf,      \* the source of every connection
  HasProxy,      \* the connections of two devices of type DPS_REAL
  AHandles,      \* handles of requests to set volumes
  AEnds,         \* sinks and sources with a mixer element
  AVolumes,      \* volumes the daemon asks for
  MaxRounds,     \* rounds a ramp has (its length)
  MaxVolumes,    \* bound on the list of asyncSetVolumes()
  MaxStates      \* bound on the changes of source states

Proxies == HasProxy \X {"proxy"}
Ramps   == AHandles \X AEnds

ASSUME AlsaAssumption ==
  /\ AConnections \subseteq Nat \ {0} /\ HasProxy \subseteq AConnections
  /\ SourceOf \in [AConnections -> ASources]
  /\ AHandles \subseteq Nat \ {0} /\ IsFiniteSet(AEnds) /\ "proxy" \notin AEnds
  /\ MaxRounds \in Nat \ {0} /\ MaxVolumes \in Nat \ {0} /\ MaxStates \in Nat
  /\ Threads = Proxies \cup Ramps

VARIABLES
  request,     \* the request being handled: what is done when the thread call returns
  links,       \* mMapConnectionIDRoute
  highest,     \* the highest connection identifier used
  sourceState, \* the state of every source in the adapter's database
  stored,      \* the volume of every end in the adapter's database
  mixer,       \* the volume of its mixer element
  target,      \* mEndVol of the volume objects
  rounds,      \* their remaining steps: mRamp.end() - mRampItr
  ops,         \* mMapAsyncOperations
  posted,      \* calls in the serializer of a volume object
  used,        \* handles the daemon has used
  answered,    \* handles it has got an acknowledgement for
  abortedOps,  \* handles it has aborted
  changes      \* number of changes of source states

rampVars == <<stored, mixer, target, rounds, ops, posted, used, answered, abortedOps>>
linkVars == <<links, highest, sourceState, changes>>
alsaVars == <<threadVars, request, rampVars, linkVars>>

NoRequest == [op |-> "none"]
Proxy(c) == <<c, "proxy">>
HandleOf(w) == w[1]
EndOf(w)    == w[2]

AlsaInit ==
  /\ ThreadInit /\ request = NoRequest
  /\ links = {} /\ highest = 0 /\ changes = 0
  /\ sourceState = [s \in ASources |-> "OFF"]
  /\ stored = [e \in AEnds |-> 0] /\ mixer = stored
  /\ target = [w \in Ramps |-> 0] /\ rounds = [w \in Ramps |-> 0]
  /\ ops = [h \in AHandles |-> {}] /\ posted = [w \in Ramps |-> <<>>]
  /\ used = {} /\ answered = {} /\ abortedOps = {}

\* The daemon's thread is free, or back from the thread function it has called.
Free == call = NoCall /\ request = NoRequest
Calls(what, w) == call' = [at |-> what, thread |-> w, next |-> "done"]
Returned(op) == call.at = "done" /\ request.op = op
Done == call' = NoCall /\ request' = NoRequest
Object(w, s) == object' = [object EXCEPT ![w] = s]

-----------------------------------------------------------------------------
(* Connections.                                                            *)

\* asyncConnect() of what the configuration allows.
Connect(c) ==
  /\ Free /\ c \notin links /\ c > highest
  /\ links' = links \cup {c} /\ highest' = c
  /\ IF c \in HasProxy THEN Object(Proxy(c), "whole") ELSE UNCHANGED object
  /\ UNCHANGED <<mState, worker, ended, call, request, sourceState, changes, rampVars>>

\* asyncDisconnect(): closeStreaming(), then the proxy and the connection are deleted.
Disconnect(c) ==
  /\ Free /\ c \in links
  /\ IF c \in HasProxy
     THEN /\ Calls("join", Proxy(c)) /\ request' = [op |-> "disconnect", c |-> c]
          /\ UNCHANGED links
     ELSE links' = links \ {c} /\ UNCHANGED <<call, request>>
  /\ UNCHANGED <<mState, worker, ended, object, highest, sourceState, changes, rampVars>>

Disconnected ==
  /\ Returned("disconnect") /\ Done
  /\ Object(Proxy(request.c), "none")
  /\ links' = links \ {request.c}
  /\ UNCHANGED <<mState, worker, ended, highest, sourceState, changes, rampVars>>

\* findConnectionFromSource(): the first in the order of the identifiers.
LinksOf(s) == {c \in links : SourceOf[c] = s}
MutLinkOfLast(s) == IF LinksOf(s) = {} THEN 0 ELSE Max(LinksOf(s))
LinkOf(s)  == IF LinksOf(s) = {} THEN 0 ELSE Min(LinksOf(s))

\* asyncSetSourceState()
SetSourceState(s, state) ==
  /\ Free /\ changes < MaxStates
  /\ changes' = changes + 1
  /\ IF LinkOf(s) \in HasProxy
     THEN /\ Calls(IF state = "ON" THEN "start" ELSE "stop", Proxy(LinkOf(s)))
          /\ request' = [op |-> "state", s |-> s, state |-> state]
          /\ UNCHANGED sourceState
     ELSE sourceState' = [sourceState EXCEPT ![s] = state] /\ UNCHANGED <<call, request>>
  /\ UNCHANGED <<mState, worker, ended, object, links, highest, rampVars>>

SourceStateSet ==
  /\ Returned("state") /\ Done
  /\ sourceState' = [sourceState EXCEPT ![request.s] = request.state]
  /\ UNCHANGED <<mState, worker, ended, object, links, highest, changes, rampVars>>

-----------------------------------------------------------------------------
(* Volumes.  A request "volume" holds the ends asyncSetVolumes() has left. *)

SetVolumes(h, E, v) ==
  /\ Free /\ h \notin used
  /\ used' = used \cup {h}
  /\ request' = [op |-> "volume", h |-> h, left |-> E, v |-> v]
  /\ UNCHANGED <<threadVars, stored, mixer, target, rounds, ops, posted, answered, abortedOps,
                 linkVars>>

\* asyncSetSinkVolume(), asyncSetSourceVolume(): nothing to do, or no mixer.
RestOf(e) ==
  request' = IF request.left = {e} THEN NoRequest ELSE [request EXCEPT !.left = @ \ {e}]

SetVolumeAtOnce(e) ==
  /\ call = NoCall /\ request.op = "volume" /\ e \in request.left
  /\ RestOf(e)
  /\ answered' = answered \cup {request.h}
  /\ UNCHANGED <<threadVars, stored, mixer, target, rounds, ops, posted, used, abortedOps, linkVars>>

\* ... or a volume object, whose thread is started.
StartFading(e) ==
  /\ call = NoCall /\ request.op = "volume" /\ e \in request.left
  /\ request.v # stored[e]
  /\ LET w == <<request.h, e>> IN
       /\ Object(w, "whole") /\ Calls("start", w)
       /\ target' = [target EXCEPT ![w] = request.v]
       /\ request' = [request EXCEPT !.op = "fading"]
  /\ UNCHANGED <<mState, worker, ended, stored, mixer, rounds, ops, posted, used, answered,
                 abortedOps, linkVars>>

\* startFading() has returned: registerVolumeOp() and the volume in the database.
Fading ==
  /\ Returned("fading")
  /\ LET w == call.thread IN
       /\ ops' = [ops EXCEPT ![request.h] = @ \cup {w}]
       /\ stored' = [stored EXCEPT ![EndOf(w)] = request.v]
       /\ request' = IF request.left = {EndOf(w)} THEN NoRequest
                 ELSE [request EXCEPT !.op = "volume", !.left = @ \ {EndOf(w)}]
  /\ call' = NoCall
  /\ UNCHANGED <<mState, worker, ended, object, mixer, target, rounds, posted, used, answered,
                 abortedOps, linkVars>>

\* delete: the derived part is destroyed, then ~CAmRoutingAdapterThread() joins.
Delete(w) == Object(w, "base") /\ Calls("join", w)

\* asyncAbort(): the volume objects of the handle are deleted one after the other.
Abort(h) ==
  /\ Free /\ h \in used
  /\ abortedOps' = abortedOps \cup {h}
  /\ IF ops[h] = {} THEN UNCHANGED <<object, call, request>>
     ELSE \E w \in ops[h] : Delete(w) /\ request' = [op |-> "abort", h |-> h, left |-> ops[h] \ {w}]
  /\ UNCHANGED <<mState, worker, ended, stored, mixer, target, rounds, ops, posted, used,
                 answered, linkVars>>

\* The object is gone, and its serializer with the calls in it.
Gone(w, rest) ==
  /\ posted' = [posted EXCEPT ![w] = <<>>]
  /\ IF rest = {} THEN Object(w, "none") /\ Done
     ELSE \E v \in rest :
       /\ object' = [object EXCEPT ![w] = "none", ![v] = "base"]
       /\ Calls("join", v) /\ request' = [request EXCEPT !.left = rest \ {v}]

AbortGoesOn ==
  /\ Returned("abort")
  /\ Gone(call.thread, request.left)
  /\ ops' = IF request.left = {} THEN [ops EXCEPT ![request.h] = {}] ELSE ops
  /\ UNCHANGED <<mState, worker, ended, stored, mixer, target, rounds, used, answered, abortedOps,
                 linkVars>>

\* The serializer of w calls ackSet*VolumeChange() of the daemon ...
Acknowledged(w) ==
  /\ Free /\ posted[w] # <<>> /\ Head(posted[w]) = "ack"
  /\ posted' = [posted EXCEPT ![w] = Tail(@)]
  /\ answered' = answered \cup {HandleOf(w)}
  /\ UNCHANGED <<threadVars, request, stored, mixer, target, rounds, ops, used, abortedOps, linkVars>>

\* ... and asyncDeleteVolume(), which works on a copy of the list.
AsyncDeleteVolume(w) ==
  /\ Free /\ posted[w] # <<>> /\ Head(posted[w]) = "delete"
  /\ w \in ops[HandleOf(w)]
  /\ Delete(w) /\ request' = [op |-> "delete"]
  /\ UNCHANGED <<mState, worker, ended, rampVars, linkVars>>

\* The list itself is cleaned only when the copy is empty.
MutLeftInListAll(h, w) == ops[h]
LeftInList(h, w) == IF ops[h] = {w} THEN {} ELSE ops[h]

VolumeDeleted ==
  /\ Returned("delete")
  /\ LET w == call.thread IN
       /\ Gone(w, {})
       /\ ops' = [ops EXCEPT ![HandleOf(w)] = LeftInList(HandleOf(w), w)]
  /\ UNCHANGED <<mState, worker, ended, stored, mixer, target, rounds, used, answered, abortedOps,
                 linkVars>>

-----------------------------------------------------------------------------
(* What the threads do.                                                    *)

\* initThread() of a proxy opens the devices, workerThread() always returns 0.
ProxyWorks(w) ==
  /\ \/ \E ok \in BOOLEAN : InitThread(w, ok)
     \/ Work(w, FALSE)
     \/ DeinitThread(w)
  /\ UNCHANGED <<request, rampVars, linkVars>>

\* initThread() of a volume object calculates the ramp.
RampInit(w) ==
  /\ \E ok \in BOOLEAN :
       /\ InitThread(w, ok)
       /\ rounds' = [rounds EXCEPT ![w] = IF ok THEN MaxRounds ELSE 0]
  /\ UNCHANGED <<request, stored, mixer, target, ops, posted, used, answered, abortedOps, linkVars>>

\* workerThread(): a step, a step that fails, or the end of the ramp.
RampWorks(w) ==
  /\ \/ /\ rounds[w] > 0 /\ Work(w, FALSE)
        /\ rounds' = [rounds EXCEPT ![w] = @ - 1]
        /\ mixer' = IF rounds[w] = 1 THEN [mixer EXCEPT ![EndOf(w)] = target[w]] ELSE mixer
     \/ rounds[w] > 0 /\ Work(w, TRUE) /\ UNCHANGED <<rounds, mixer>>
     \/ rounds[w] = 0 /\ Work(w, TRUE) /\ UNCHANGED <<rounds, mixer>>
  /\ UNCHANGED <<request, stored, target, ops, posted, used, answered, abortedOps, linkVars>>

\* deinitThread(): sendAcknowledge().
RampDeinit(w) ==
  /\ DeinitThread(w)
  /\ posted' = [posted EXCEPT ![w] = @ \o <<"ack", "delete">>]
  /\ UNCHANGED <<request, stored, mixer, target, rounds, ops, used, answered, abortedOps, linkVars>>

-----------------------------------------------------------------------------
DaemonRequest ==
  \/ \E c \in AConnections : Connect(c) \/ Disconnect(c)
  \/ \E s \in ASources, state \in {"ON", "OFF"} : SetSourceState(s, state)
  \/ \E h \in AHandles, v \in AVolumes, E \in SUBSET AEnds :
       Cardinality(E) \in 1 .. MaxVolumes /\ SetVolumes(h, E, v)
  \/ \E h \in AHandles : Abort(h)

DaemonThread ==
  \/ CallStep /\ UNCHANGED <<request, rampVars, linkVars>>
  \/ Disconnected \/ SourceStateSet \/ Fading \/ AbortGoesOn \/ VolumeDeleted
  \/ \E e \in AEnds : SetVolumeAtOnce(e) \/ StartFading(e)
  \/ \E w \in Ramps : Acknowledged(w) \/ AsyncDeleteVolume(w)

ThreadRuns(w) ==
  \/ WorkerStep(w) /\ UNCHANGED <<request, rampVars, linkVars>>
  \/ w \in Proxies /\ ProxyWorks(w)
  \/ w \in Ramps /\ (RampInit(w) \/ RampWorks(w) \/ RampDeinit(w))

AlsaNext ==
  /\ Defined
  /\ DaemonRequest \/ DaemonThread \/ \E w \in Threads : ThreadRuns(w)

\* The daemon's thread finishes what it is in, and the threads are scheduled.
AlsaFairness ==
  /\ WF_alsaVars(Defined /\ DaemonThread)
  /\ \A w \in Threads : WF_alsaVars(Defined /\ ThreadRuns(w))

AlsaSpec == AlsaInit /\ [][AlsaNext]_alsaVars /\ AlsaFairness

-----------------------------------------------------------------------------
(* Properties.                                                             *)

\* Once the answer to the state OFF is out no proxy of the source copies data any more:
\* stopThread() waits for the thread, and asyncSetSourceState() finds the one proxy among
\* those of the source's connections that may be running.
SilentWhenOff ==
  call = NoCall => \A s \in ASources, w \in Proxies :
    sourceState[s] = "OFF" /\ SourceOf[w[1]] = s => worker[w] \in {"none", "wait"}

\* asyncDisconnect() and the destructors leave no thread behind: no object is deleted
\* whose thread may still run.
NoThreadLeftBehind ==
  \A w \in Threads : object[w] = "none" => worker[w] = "none"

\* What mMapAsyncOperations points to exists, so that asyncAbort() and the destructor of
\* the sender delete each volume object once.
OpsAreAlive ==
  call = NoCall => \A h \in AHandles : \A w \in ops[h] : object[w] = "whole"

\* The daemon's thread gets out of startThread(), stopThread() and joinThread(): their
\* waits are never for a change that does not come.
CallsReturn == (call # NoCall) ~> (call = NoCall \/ ~Defined)

\* A thread ends by deinitThread(), which "will be called in case joinThread() was called
\* or in case of failure in initThread() or workerThread()"
\* (CAmRoutingAdapterThread.h): no thread calls what is destroyed.  (Violated: asyncAbort()
\* deletes a ramp that runs.)
EndsByDeinit == Defined
==============================================================================
