---------------------------- MODULE ActionEngine ----------------------------
(***************************************************************************)
(* The action engine of the generic controller                             *)
(* (PluginControlInterfaceGeneric): the tree of actions below              *)
(* CAmRootAction, the trigger queue that feeds it, the handles and timers  *)
(* that bring asynchronous results back into it.                           *)
(*                                                                         *)
(* The program runs all of this on one thread.  The event loop calls a     *)
(* hook, an acknowledgement or a timer callback, and each of them ends in  *)
(* iterateActions().  The model follows that code one function activation  *)
(* at a time: "call" is the activation that runs next, "result" the        *)
(* argument of a pending update(), and "cont" where control goes once a    *)
(* chain of update() notifications has reached the last listening parent.  *)
(* The callers need no stack: an action is only ever called by its parent. *)
(***************************************************************************)
EXTENDS Integers, Sequences, FiniteSets, FiniteSetsExt

CONSTANTS
    Containers,       \* CAmActionContainer objects, Root and the policy actions included
    Leaves,           \* CAmActionCommand objects
    Root,             \* CAmRootAction::getInstance()
    Parent,           \* [Nodes \ {Root} -> Containers]: IAmAction::mParent
    Plans,            \* [Containers -> SUBSET Seq(Nodes)]: the lists _execute() may append
    Synchronous,      \* the leaves that never leave a request with the routing side
    UndoRequired,     \* nodes on which setUndoRequried(true) was called
    OwnTimeout,       \* [Nodes -> timeouts]: mTimeout when the action is created
    Triggers,         \* gc_TriggerElement_s objects
    PolicyActions,    \* [Triggers -> SUBSET Containers]: what setListActions() may append
    StateTriggers,    \* [Containers -> SUBSET Triggers]: what update() hooks may queue
    Failures,         \* am_Error_e values other than E_OK
    E_ABORTED,        \* the error of an expired action
    MaxTimer,         \* MAX_TIMER_VALUE, the longest timer setTimer() accepts
    MaxTime,          \* bound on the duration of a call or an answer
    Latency           \* by how much an answer may overrun a timer that is due

Nodes == Containers \cup Leaves

E_OK == 0
E_WAIT_FOR_CHILD_COMPLETION == -1
INFINITE_TIMEOUT == -1

ASSUME ErrorAssumption == Failures \subseteq Nat \ {0} /\ E_ABORTED \in Failures
ASSUME TimeAssumption == MaxTimer \in Nat /\ MaxTime \in Nat /\ Latency \in Nat
ASSUME TreeAssumption ==
    /\ Root \in Containers
    /\ Containers \cap Leaves = {}
    /\ Parent \in [Nodes \ {Root} -> Containers]
    /\ \A n \in Containers : \A s \in Plans[n] :
          /\ s \in Seq(Nodes \ {Root})
          /\ \A i, j \in DOMAIN s : Parent[s[i]] = n /\ (s[i] = s[j] => i = j)
    /\ DOMAIN Plans = Containers
    /\ OwnTimeout \in [Nodes -> Int]
    /\ OwnTimeout[Root] = INFINITE_TIMEOUT
    /\ Plans[Root] = {<<>>}
ASSUME TriggerAssumption ==
    /\ PolicyActions \in [Triggers -> SUBSET (Containers \ {Root})]
    /\ \A t \in Triggers : \A p \in PolicyActions[t] : Parent[p] = Root
    /\ StateTriggers \in [Containers -> SUBSET Triggers]

VARIABLES
    status,           \* mStatus; "FREE" before the object exists and after delete
    error,            \* mError
    index,            \* mIndex
    children,         \* mListChildActions
    timeout,          \* mTimeout
    executionTime,    \* mExecutionTime of the leaves
    handles,          \* CAmHandleStore::mMapHandles: the waiting leaves
    timers,           \* CAmTimerEvent::mListClients: the leaves with a running timer
    queue,            \* CAmTriggerQueue::mlistTrigger
    priority,         \* CAmTriggerQueue::mlistPriority
    call, cont, result

tree  == <<status, error, index, children, timeout, executionTime>>
links == <<handles, timers>>
feed  == <<queue, priority>>
vars  == <<tree, links, feed, call, cont, result>>

-----------------------------------------------------------------------------
Results == Failures \cup {E_OK, E_WAIT_FOR_CHILD_COMPLETION}
States == {"FREE", "NOT_STARTED", "EXECUTING", "COMPLETED", "UNDOING",
           "UNDO_COMPLETE", "ERROR_STOPPED"}
Ops == {"idle", "execute", "loop", "executed", "update", "undo", "undoLoop",
        "undone", "cleanup", "delete", "dispatch"}
Calls == [op : Ops, node : Nodes]

\* A request is known by the leaf that sent it and the phase it was sent in.
Requests == Leaves \X {"do", "undo"}

Call(o, n) == [op |-> o, node |-> n]
Goto(o, n) == /\ call' = Call(o, n)
              /\ UNCHANGED <<cont, result>>

\* Call update(r) of n, and continue at c once the notifications are through.
GotoUpdate(n, r, c) == /\ call' = Call("update", n)
                       /\ result' = r
                       /\ cont' = c

Running(o, n) == call = Call(o, n)
Idle == call.op = "idle"

Size(n) == Len(children[n])
Child(n) == children[n][index[n] + 1]
HasChild(n) == index[n] \in 0 .. Size(n) - 1   \* Child(n) is an element of the vector
Elements(s) == {s[i] : i \in DOMAIN s}

\* mExecutionTime of n and of everything below it.
ExecutionTime[n \in Nodes] ==
    IF n \in Leaves THEN executionTime[n]
    ELSE MapThenSumSet(LAMBDA k : ExecutionTime[k], Elements(children[n]))

\* The request a leaf waits for: mHandle, saved by _execute() or by _undo().
Handle(l) == <<l, IF status[l] = "UNDOING" THEN "undo" ELSE "do">>

-----------------------------------------------------------------------------
Init ==
    /\ status = [n \in Nodes |-> IF n = Root THEN "NOT_STARTED" ELSE "FREE"]
    /\ error = [n \in Nodes |-> E_OK]
    /\ index = [n \in Containers |-> 0]
    /\ children = [n \in Containers |-> <<>>]
    /\ timeout = OwnTimeout
    /\ executionTime = [n \in Leaves |-> 0]
    /\ handles = {} /\ timers = {}
    /\ queue = <<>> /\ priority = <<>>
    /\ call = Call("idle", Root) /\ cont = Call("idle", Root) /\ result = E_OK

-----------------------------------------------------------------------------
(* The events the loop delivers.  iterateActions() is the call that follows. *)

\* The bound on the queues: a trigger is not queued twice at a time.
Unqueued(t) == t \notin Elements(queue) \cup Elements(priority)

\* A hook* handler queues its trigger and iterates.  Connection state changes come
\* from the actions alone.
HookTriggers == Triggers \ UNION {StateTriggers[n] : n \in Containers}

RaiseTrigger(t) ==
    /\ Idle /\ t \in HookTriggers /\ Unqueued(t)
    /\ queue' = Append(queue, t)
    /\ Goto("execute", Root)
    /\ UNCHANGED <<tree, links, priority>>

\* clearHandle(mHandle)
MutDropHandleKept(l) == handles' = handles
DropHandle(l) == handles' = handles \ {Handle(l)}

\* CAmActionCommand::update(): the leaf takes its result, stops its timer, drops
\* its handle and notifies its parent.
LeafUpdate(l, r, spent) ==
    /\ status' = [status EXCEPT ![l] =
                     IF @ = "EXECUTING" THEN "COMPLETED" ELSE "UNDO_COMPLETE"]
    /\ error' = [error EXCEPT ![l] = r]
    /\ executionTime' = IF status[l] = "EXECUTING"
                        THEN [executionTime EXCEPT ![l] = spent] ELSE executionTime
    /\ timers' = timers \ {l}
    /\ DropHandle(l)
    /\ GotoUpdate(Parent[l], r, Call("execute", Root))
    /\ UNCHANGED <<index, children, timeout>>

\* How long the routing side may take: a running timer cuts the waiting short.
AnswerTimes(l) ==
    IF l \in timers /\ status[l] = "EXECUTING" THEN 0 .. timeout[l] + Latency
                                               ELSE 0 .. MaxTime

\* cbAck*(): the answer to a request, delivered to the leaf that waits for it.  It
\* may come at any time or never.
Answer(q, r, spent) ==
    /\ Idle /\ q \in handles
    /\ spent \in AnswerTimes(q[1])
    /\ LeafUpdate(q[1], r, spent)
    /\ UNCHANGED feed

\* An answer under a handle that nobody waits for (any more) is dropped.
UnknownAnswer ==
    /\ Idle
    /\ Goto("execute", Root)
    /\ UNCHANGED <<tree, links, feed>>

\* The timer of a waiting leaf fires: abortAction(), then update(E_ABORTED).
Timeout(l) ==
    /\ Idle /\ l \in timers
    /\ \E spent \in 0 .. MaxTime : LeafUpdate(l, E_ABORTED, spent)
    /\ UNCHANGED feed

-----------------------------------------------------------------------------
(* execute() *)

\* What a container does in _execute() (and in the constructors of the children it makes
\* there), _update() and _undo() may queue connection state changes with priority.
Reports(n) == UNION {[1 .. k -> StateTriggers[n]] : k \in 0 .. 2}

StateChange(n) ==
    \E s \in Reports(n) :
       /\ \A i, j \in DOMAIN s : Unqueued(s[i]) /\ (s[i] = s[j] => i = j)
       /\ priority' = priority \o s
       /\ UNCHANGED queue

\* The first call runs _execute(), which appends the children s or fails.  Only
\* CAmRootAction has no _execute() of its own (its only plan is <<>>): the children
\* are there already.
StartContainer(n, s, r) ==
    /\ Running("execute", n) /\ n \in Containers /\ status[n] = "NOT_STARTED"
    /\ s \in Plans[n] /\ (n = Root => r = E_OK)
    /\ \A k \in Elements(s) : status[k] = "FREE"   \* new never returns an object in use
    /\ children' = [children EXCEPT ![n] = @ \o s]
    /\ status' = [k \in Nodes |-> IF k = n THEN "EXECUTING"
                                  ELSE IF k \in Elements(s) THEN "NOT_STARTED"
                                  ELSE status[k]]
    /\ IF r = E_OK THEN Goto("loop", n)
                   ELSE GotoUpdate(n, r, Call("executed", n))
    /\ StateChange(n)
    /\ UNCHANGED <<error, index, timeout, executionTime, links>>

\* Every later call goes on with the children, or does nothing (the update() of a
\* completed container has no effect).
ResumeContainer(n) ==
    /\ Running("execute", n) /\ n \in Containers /\ status[n] # "NOT_STARTED"
    /\ Goto(IF status[n] = "EXECUTING" THEN "loop" ELSE "executed", n)
    /\ UNCHANGED <<tree, links, feed>>

\* One turn of the loop over the children: complete, abort, or call the next one
\* with the time that is left.
Expired(n) == /\ timeout[n] # INFINITE_TIMEOUT
              /\ ExecutionTime[n] > timeout[n]

LoopChildren(n) ==
    /\ Running("loop", n) /\ n \in Containers
    /\ \/ /\ index[n] >= Size(n)
          /\ GotoUpdate(n, error[n], Call("executed", n))
          /\ UNCHANGED timeout
       \/ /\ HasChild(n) /\ Expired(n)
          /\ GotoUpdate(n, E_ABORTED, Call("executed", n))
          /\ UNCHANGED timeout
       \/ /\ HasChild(n) /\ ~Expired(n)
          /\ timeout' = IF timeout[n] # INFINITE_TIMEOUT /\ status[Child(n)] = "NOT_STARTED"
                        THEN [timeout EXCEPT ![Child(n)] = timeout[n] - ExecutionTime[n]]
                        ELSE timeout
          /\ Goto("execute", Child(n))
    /\ UNCHANGED <<status, error, index, children, executionTime, links, feed>>

\* A command whose hook returns a value >= 0 is through, with that value as its error.
MutFinishedWaiting(r) == r >= E_WAIT_FOR_CHILD_COMPLETION
Finished(r) == r >= E_OK

\* CAmActionCommand::execute(): start the timer, call _execute().  It finishes at
\* once with r >= 0 or leaves a request with the routing side.
MutTimerFitsStrictly(t) == t # INFINITE_TIMEOUT /\ t < MaxTimer
TimerFits(t) == t # INFINITE_TIMEOUT /\ t <= MaxTimer

StartLeaf(l, r, spent) ==
    /\ Running("execute", l) /\ l \in Leaves /\ status[l] = "NOT_STARTED"
    /\ error' = [error EXCEPT ![l] = r]
    /\ IF Finished(r)
       THEN /\ spent \in 0 .. MaxTime
            /\ status' = [status EXCEPT ![l] = "COMPLETED"]
            /\ executionTime' = [executionTime EXCEPT ![l] = spent]
            /\ GotoUpdate(Parent[l], r, Call("executed", l))
            /\ UNCHANGED links
       ELSE /\ l \notin Synchronous /\ spent = 0
            /\ status' = [status EXCEPT ![l] = "EXECUTING"]
            /\ handles' = handles \cup {<<l, "do">>}
            /\ timers' = IF TimerFits(timeout[l]) THEN timers \cup {l} ELSE timers
            /\ Goto("executed", l)
            /\ UNCHANGED executionTime
    /\ UNCHANGED <<index, children, timeout, feed>>

\* execute() of a leaf that has started already does nothing.
ResumeLeaf(l) ==
    /\ Running("execute", l) /\ l \in Leaves /\ status[l] # "NOT_STARTED"
    /\ Goto("executed", l)
    /\ UNCHANGED <<tree, links, feed>>

LoopGoesOn(n) == status[n] # "EXECUTING" /\ status[Parent[n]] = "EXECUTING"

\* Back in the parent's loop: wait, stop or take the next turn.  From the root,
\* control returns to iterateActions().
Executed(n) ==
    /\ Running("executed", n)
    /\ IF n = Root
       THEN Goto(IF status[Root] \in {"ERROR_STOPPED", "UNDOING"} THEN "undo" ELSE "cleanup",
                 Root)
       ELSE Goto(IF LoopGoesOn(n) THEN "loop" ELSE "executed", Parent[n])
    /\ UNCHANGED <<tree, links, feed>>

-----------------------------------------------------------------------------
(* CAmActionContainer::update() *)

\* The chain of notifications ends here: the caller goes on.
Absorb == call' = cont /\ cont' = Call("idle", Root) /\ result' = E_OK

\* n passes the result on to its parent; the root has none.
Notify(n, r) ==
    IF n = Root THEN Absorb ELSE GotoUpdate(Parent[n], r, cont)

Update(n) ==
    /\ Running("update", n) /\ n \in Containers
    /\ error' = [error EXCEPT ![n] = result]
    /\ \/ /\ status[n] = "EXECUTING" /\ result > 0
          /\ status' = [status EXCEPT ![n] = "ERROR_STOPPED"]
          /\ Notify(n, result) /\ StateChange(n)
          /\ UNCHANGED index
       \/ /\ status[n] = "EXECUTING" /\ result <= 0
          /\ index' = [index EXCEPT ![n] = @ + 1]
          /\ IF index[n] + 1 >= Size(n)
             THEN /\ status' = [status EXCEPT ![n] = "COMPLETED"]
                  /\ Notify(n, result) /\ StateChange(n)
             ELSE Absorb /\ UNCHANGED <<status, feed>>
       \/ /\ status[n] = "UNDOING" /\ index[n] < 0
          /\ status' = [status EXCEPT ![n] = "UNDO_COMPLETE"]
          /\ Notify(n, result) /\ StateChange(n)
          /\ UNCHANGED index
       \/ /\ status[n] # "EXECUTING"
          /\ ~(status[n] = "UNDOING" /\ index[n] < 0)
          /\ Absorb
          /\ UNCHANGED <<status, index, feed>>
    /\ UNCHANGED <<children, timeout, executionTime, links>>

-----------------------------------------------------------------------------
(* undo() *)

\* What undo() starts on: an action that has failed, or has succeeded.
MutUndoableFailed(n) == status[n] \in {"ERROR_STOPPED", "COMPLETED"}
Undoable(n) == \/ status[n] = "ERROR_STOPPED"
               \/ status[n] = "COMPLETED" /\ error[n] = E_OK

MutClipShort(n) == IF HasChild(n) THEN index[n] ELSE Size(n) - 2
Clip(n) == IF HasChild(n) THEN index[n] ELSE Size(n) - 1

UndoContainer(n) ==
    /\ Running("undo", n) /\ n \in Containers
    /\ LET first == Undoable(n)
           now   == IF first THEN IF Size(n) > 0 THEN "UNDOING" ELSE "UNDO_COMPLETE"
                    ELSE status[n]
       IN  /\ status' = [status EXCEPT ![n] = now]
           /\ IF first /\ n \in UndoRequired
              THEN error' = [error EXCEPT ![n] = E_OK] /\ StateChange(n)
              ELSE UNCHANGED <<error, feed>>
           /\ IF now = "UNDOING"
              THEN index' = [index EXCEPT ![n] = Clip(n)] /\ Goto("undoLoop", n)
              ELSE UNCHANGED index /\ Goto("undone", n)
    /\ UNCHANGED <<children, timeout, executionTime, links>>

NeedsUndo(k) == Undoable(k) \/ status[k] = "UNDOING"

\* One turn of the loop, from the last child back to the first.
LoopUndo(n) ==
    /\ Running("undoLoop", n) /\ n \in Containers
    /\ \/ /\ index[n] < 0
          /\ GotoUpdate(n, error[n], Call("undone", n))
          /\ UNCHANGED index
       \/ /\ HasChild(n)
          /\ NeedsUndo(Child(n))
          /\ Goto("undo", Child(n))
          /\ UNCHANGED index
       \/ /\ HasChild(n)
          /\ ~NeedsUndo(Child(n))
          /\ index' = [index EXCEPT ![n] = @ - 1]
          /\ Goto("undoLoop", n)
    /\ UNCHANGED <<status, error, children, timeout, executionTime, links, feed>>

\* CAmActionCommand::undo(): only a completed action has something to undo.
UndoLeaf(l, r) ==
    /\ Running("undo", l) /\ l \in Leaves /\ status[l] = "COMPLETED"
    /\ l \notin UndoRequired => r = error[l]
    /\ error' = [error EXCEPT ![l] = r]
    /\ IF Finished(r)
       THEN /\ status' = [status EXCEPT ![l] = "UNDO_COMPLETE"]
            /\ GotoUpdate(Parent[l], r, Call("undone", l))
            /\ UNCHANGED links
       ELSE /\ l \notin Synchronous
            /\ status' = [status EXCEPT ![l] = "UNDOING"]
            /\ handles' = handles \cup {<<l, "undo">>}
            /\ timers' = timers \cup {l}
            /\ Goto("undone", l)
    /\ UNCHANGED <<index, children, timeout, executionTime, feed>>

SkipUndoLeaf(l) ==
    /\ Running("undo", l) /\ l \in Leaves /\ status[l] # "COMPLETED"
    /\ Goto("undone", l)
    /\ UNCHANGED <<tree, links, feed>>

UndoGoesOn(n) == status[n] = "UNDO_COMPLETE"

Undone(n) ==
    /\ Running("undone", n)
    /\ \/ n = Root /\ Goto("cleanup", Root) /\ UNCHANGED index
       \/ /\ n # Root /\ UndoGoesOn(n)
          /\ index' = [index EXCEPT ![Parent[n]] = @ - 1]
          /\ Goto("undoLoop", Parent[n])
       \/ /\ n # Root /\ ~UndoGoesOn(n)
          /\ Goto("undone", Parent[n])
          /\ UNCHANGED index
    /\ UNCHANGED <<status, error, children, timeout, executionTime, links, feed>>

-----------------------------------------------------------------------------
(* cleanup() and the end of iterateActions() *)

MutDisposableCompleted(n, k) == status[k] = "COMPLETED"
Disposable(n, k) == \/ status[k] \in {"UNDO_COMPLETE", "COMPLETED"}
                    \/ status[k] = "NOT_STARTED" /\ status[n] = "UNDO_COMPLETE"

\* Clean up the leading finished children, depth first; then the container itself.
CleanupChild(n) ==
    /\ Running("cleanup", n) /\ n \in Containers
    /\ children[n] # <<>> /\ Disposable(n, Head(children[n]))
    /\ Goto(IF Head(children[n]) \in Leaves THEN "delete" ELSE "cleanup",
            Head(children[n]))
    /\ UNCHANGED <<tree, links, feed>>

CleanupSelf(n) ==
    /\ Running("cleanup", n) /\ n \in Containers
    /\ children[n] # <<>> => ~Disposable(n, Head(children[n]))
    /\ index' = [index EXCEPT ![n] = 0]
    /\ IF n = Root
       THEN /\ IF children[Root] = <<>>
               THEN /\ status' = [status EXCEPT ![Root] = "NOT_STARTED"]
                    /\ error' = [error EXCEPT ![Root] = E_OK]
               ELSE UNCHANGED <<status, error>>
            /\ Goto("dispatch", Root)
       ELSE /\ Goto("delete", n)
            /\ UNCHANGED <<status, error>>
    /\ UNCHANGED <<children, timeout, executionTime, links, feed>>

\* delete: the object is gone, and with it the list of the children it still had.
\* What the model keeps for it is what the constructor of its successor sets.
Delete(n) ==
    /\ Running("delete", n) /\ n # Root
    /\ children[Parent[n]] # <<>> /\ Head(children[Parent[n]]) = n
    /\ status' = [status EXCEPT ![n] = "FREE"]
    /\ error' = [error EXCEPT ![n] = E_OK]
    /\ timeout' = [timeout EXCEPT ![n] = OwnTimeout[n]]
    /\ executionTime' = [l \in Leaves |-> IF l = n THEN 0 ELSE executionTime[l]]
    /\ index' = [k \in Containers |-> IF k = n THEN 0 ELSE index[k]]
    /\ children' = [k \in Containers |-> IF k = n THEN <<>>
                                         ELSE IF k = Parent[n] THEN Tail(children[k])
                                         ELSE children[k]]
    /\ Goto("cleanup", Parent[n])
    /\ UNCHANGED <<links, feed>>

Dequeue(t) ==
    \/ /\ priority # <<>> /\ t = Head(priority)
       /\ priority' = Tail(priority) /\ UNCHANGED queue
    \/ /\ priority = <<>> /\ queue # <<>> /\ t = Head(queue)
       /\ queue' = Tail(queue) /\ UNCHANGED priority

\* _forwardTriggertoPolicyEngine() and setListActions(): the policies answer a trigger
\* with no action list or with one policy action below the root.
Forward(t) ==
    \/ UNCHANGED <<status, children>>
    \/ \E p \in PolicyActions[t] :
          /\ status[p] = "FREE"
          /\ status' = [status EXCEPT ![p] = "NOT_STARTED"]
          /\ children' = [children EXCEPT ![Root] = Append(@, p)]

Dispatch(t) ==
    /\ Running("dispatch", Root)
    /\ status[Root] = "NOT_STARTED" /\ children[Root] = <<>>
    /\ Dequeue(t) /\ Forward(t)
    /\ Goto("execute", Root)
    /\ UNCHANGED <<error, index, timeout, executionTime, links>>

\* Nothing to dequeue, or actions still in progress: back to the event loop.
Return ==
    /\ Running("dispatch", Root)
    /\ ~(/\ status[Root] = "NOT_STARTED" /\ children[Root] = <<>>
         /\ priority \o queue # <<>>)
    /\ Goto("idle", Root)
    /\ UNCHANGED <<tree, links, feed>>

-----------------------------------------------------------------------------
ContainerStep(n) ==
    \/ \E s \in Plans[n], r \in Failures \cup {E_OK} : StartContainer(n, s, r)
    \/ ResumeContainer(n) \/ LoopChildren(n) \/ Update(n)
    \/ UndoContainer(n) \/ LoopUndo(n)
    \/ CleanupChild(n) \/ CleanupSelf(n)

LeafStep(l) ==
    \/ \E r \in Results, spent \in 0 .. MaxTime : StartLeaf(l, r, spent)
    \/ ResumeLeaf(l)
    \/ \E r \in Results : UndoLeaf(l, r)
    \/ SkipUndoLeaf(l)

\* What the running handler does next.
Step == \/ \E n \in Containers : ContainerStep(n)
        \/ \E l \in Leaves : LeafStep(l)
        \/ \E n \in Nodes : Executed(n) \/ Undone(n) \/ Delete(n)
        \/ \E t \in Triggers : Dispatch(t)
        \/ Return

\* What happens to the controller.
Event == \/ \E t \in Triggers : RaiseTrigger(t)
         \/ \E q \in Requests, r \in Failures \cup {E_OK}, spent \in 0 .. MaxTime :
               Answer(q, r, spent)
         \/ UnknownAnswer
         \/ \E l \in Leaves : Timeout(l)

Next == Step \/ Event

Spec == Init /\ [][Next]_vars

\* The handler that runs goes on running.  A timer that is due is dispatched however
\* many other events come in between, since each turn of the event loop serves the
\* expired timers (hence SF: every event disables Timeout until its handler has
\* returned).  Nothing is assumed of the routing side.
Fairness == WF_vars(Step) /\ \A l \in Leaves : SF_vars(Timeout(l))
FairSpec == Spec /\ Fairness

-----------------------------------------------------------------------------
(* Properties *)

\* The shape of the state: every member of the C++ objects in its range.
TypeOK ==
    /\ status \in [Nodes -> States]
    /\ error \in [Nodes -> Results]
    /\ \A n \in Containers : error[n] # E_WAIT_FOR_CHILD_COMPLETION
    /\ index \in [Containers -> Int]
    /\ children \in [Containers -> Seq(Nodes \ {Root})]
    /\ DOMAIN timeout = Nodes
    /\ executionTime \in [Leaves -> Nat]
    /\ handles \subseteq Requests
    /\ timers \subseteq Leaves
    /\ queue \in Seq(Triggers)
    /\ priority \in Seq(Triggers)
    /\ call \in Calls
    /\ cont \in Calls
    /\ result \in Failures \cup {E_OK}

Waiting(l) == status[l] \in {"EXECUTING", "UNDOING"}

\* The handle store knows exactly the leaves that wait for an answer, under the
\* request of their current phase, and a timer runs for none but them: neither an
\* answer nor a timer can reach an action that has finished or is deleted
\* (CAmHandleStore::notifyAsyncResult and CAmTimerEvent::timerCallback call the
\* stored pointer without any check).
HandlesMatchWaitingLeaves ==
    /\ \A l \in Leaves : /\ <<l, "do">> \in handles <=> status[l] = "EXECUTING"
                         /\ <<l, "undo">> \in handles <=> status[l] = "UNDOING"
    /\ \A l \in timers : Waiting(l)
    /\ \A l \in Leaves : status[l] = "UNDOING" => l \in timers

\* iterateActions() returns to the event loop in two cases only: some leaf waits for
\* an answer, or the root has no children and no trigger is queued.  Nothing that
\* could go on is left behind.
NothingLeftBehind ==
    Idle => \/ \E l \in Leaves : Waiting(l)
            \/ /\ status[Root] = "NOT_STARTED" /\ children[Root] = <<>>
               /\ queue = <<>> /\ priority = <<>>

\* A rolled back container leaves nothing in force below it: no child that succeeded,
\* is in progress or has failed without having been rolled back itself.
RollbackIsComplete ==
    \A n \in Containers \ {Root} :
        status[n] = "UNDO_COMPLETE" =>
            \A k \in Elements(children[n]) :
                /\ status[k] \notin {"EXECUTING", "UNDOING", "ERROR_STOPPED"}
                /\ status[k] = "COMPLETED" => k \in Leaves /\ error[k] # E_OK

\* Whatever the routing side does, every trigger is handled in the end, and every saga of
\* actions ends: the controller is not stuck with an action.
EveryTriggerIsHandled ==
    /\ \A t \in Triggers : t \in Elements(queue) ~> t \notin Elements(queue)
    /\ children[Root] # <<>> ~> children[Root] = <<>>
=============================================================================
