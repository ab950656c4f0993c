------------------------ MODULE ActionEngine_proofs ------------------------
(***************************************************************************)
(* Theorems about the action engine, for every tree of actions, every      *)
(* choice of time limits and every set of triggers.                        *)
(***************************************************************************)
EXTENDS ActionEngine, SequenceTheorems, TLAPS

-----------------------------------------------------------------------------
(* Facts about the constants and the operators of the model *)

LEMMA NodeFacts ==
    /\ Root \in Containers /\ Root \in Nodes /\ Root \notin Leaves
    /\ \A n \in Nodes \ {Root} : Parent[n] \in Containers /\ Parent[n] \in Nodes
    /\ \A l \in Leaves : l \in Nodes /\ l \notin Containers /\ Parent[l] \in Containers
    /\ \A n \in Containers : n \in Nodes /\ n \notin Leaves
BY TreeAssumption DEF Nodes

\* A plan is a list of nodes other than the root, each with the planning container
\* as its parent.
LEMMA PlanFacts ==
    ASSUME NEW n \in Containers, NEW s \in Plans[n]
    PROVE  /\ s \in Seq(Nodes \ {Root})
           /\ Elements(s) \subseteq Nodes \ {Root}
           /\ \A k \in Elements(s) : Parent[k] = n
<1>1. s \in Seq(Nodes \ {Root})
  BY TreeAssumption
<1>2. QED
  BY <1>1, TreeAssumption DEF Elements

\* The codes an action can end with are results, and so is the waiting code.
LEMMA ResultFacts ==
    /\ E_OK \in Results /\ E_ABORTED \in Results /\ E_ABORTED \in Failures
    /\ Failures \subseteq Results /\ Failures \cup {E_OK} \subseteq Results
    /\ \A r \in Results : Finished(r) => r \in Failures \cup {E_OK}
BY ErrorAssumption DEF Results, Finished, E_OK, E_WAIT_FOR_CHILD_COMPLETION

\* The child an index inside the list designates is a node other than the root.
LEMMA ChildIsNode ==
    ASSUME TypeOK, NEW n \in Containers, HasChild(n)
    PROVE  Child(n) \in Nodes \ {Root}
<1>1. children[n] \in Seq(Nodes \ {Root}) /\ index[n] \in Int
  BY DEF TypeOK
<1>2. index[n] + 1 \in 1 .. Len(children[n])
  BY <1>1, LenProperties DEF HasChild, Size
<1>3. QED
  BY <1>1, <1>2, ElementOfSeq DEF Child

\* Calls to nodes are well-formed.
LEMMA CallIsCall ==
    ASSUME NEW o \in Ops, NEW n \in Nodes
    PROVE  Call(o, n) \in Calls /\ Call(o, n).op = o /\ Call(o, n).node = n
BY DEF Call, Calls

-----------------------------------------------------------------------------
(* Type correctness *)

LEMMA InitTypeOK == Init => TypeOK
<1> SUFFICES ASSUME Init PROVE TypeOK
  OBVIOUS
<1>1. status \in [Nodes -> States] /\ error \in [Nodes -> Results]
      /\ \A n \in Containers : error[n] # E_WAIT_FOR_CHILD_COMPLETION
      /\ result \in Failures \cup {E_OK}
  BY ResultFacts, NodeFacts DEF Init, States, E_OK, E_WAIT_FOR_CHILD_COMPLETION
<1>2. index \in [Containers -> Int] /\ children \in [Containers -> Seq(Nodes \ {Root})]
  BY EmptySeq DEF Init
<1>3. DOMAIN timeout = Nodes
  BY TreeAssumption DEF Init
<1>4. executionTime \in [Leaves -> Nat]
  BY DEF Init
<1>5. queue \in Seq(Triggers) /\ priority \in Seq(Triggers)
  BY EmptySeq DEF Init
<1>6. call \in Calls /\ cont \in Calls
  BY NodeFacts DEF Init, Call, Calls, Ops
<1>7. QED
  BY <1>1, <1>2, <1>3, <1>4, <1>5, <1>6 DEF Init, TypeOK, Requests

\* A leaf that takes its result leaves every member in its range.
LEMMA LeafUpdateTypeOK ==
    ASSUME TypeOK, NEW l \in Leaves, NEW r \in Failures \cup {E_OK}, NEW spent \in Nat,
           LeafUpdate(l, r, spent), UNCHANGED feed
    PROVE  TypeOK'
<1>1. l \in Nodes /\ Parent[l] \in Nodes /\ Root \in Nodes /\ r \in Results
  BY NodeFacts, ResultFacts
<1>2. status' \in [Nodes -> States] /\ error' \in [Nodes -> Results]
      /\ \A n \in Containers : error'[n] # E_WAIT_FOR_CHILD_COMPLETION
      /\ executionTime' \in [Leaves -> Nat]
  BY <1>1, NodeFacts DEF TypeOK, LeafUpdate, States
<1>3. handles' \subseteq Requests /\ timers' \subseteq Leaves
  BY DEF TypeOK, LeafUpdate, DropHandle
<1>4. call' \in Calls /\ cont' \in Calls /\ result' = r
  BY <1>1 DEF LeafUpdate, GotoUpdate, Call, Calls, Ops
<1>5. QED
  BY <1>2, <1>3, <1>4 DEF TypeOK, LeafUpdate, feed

LEMMA EventTypeOK == TypeOK /\ Event => TypeOK'
<1> SUFFICES ASSUME TypeOK, Event PROVE TypeOK'
  OBVIOUS
<1>1. ASSUME NEW t \in Triggers, RaiseTrigger(t) PROVE TypeOK'
  <2>1. queue' \in Seq(Triggers)
    BY <1>1 DEF TypeOK, RaiseTrigger
  <2>2. call' \in Calls
    BY <1>1, NodeFacts DEF RaiseTrigger, Goto, Call, Calls, Ops
  <2>3. QED
    BY <1>1, <2>1, <2>2 DEF TypeOK, RaiseTrigger, Goto, tree, links
<1>2. ASSUME NEW q \in Requests, NEW r \in Failures \cup {E_OK}, NEW spent \in 0 .. MaxTime,
             Answer(q, r, spent)
      PROVE  TypeOK'
  <2>1. q[1] \in Leaves /\ spent \in Nat
    BY TimeAssumption DEF Requests
  <2>2. QED
    BY <1>2, <2>1, LeafUpdateTypeOK DEF Answer
<1>3. ASSUME UnknownAnswer PROVE TypeOK'
  <2>1. call' \in Calls
    BY <1>3, NodeFacts DEF UnknownAnswer, Goto, Call, Calls, Ops
  <2>2. QED
    BY <1>3, <2>1 DEF TypeOK, UnknownAnswer, Goto, tree, links, feed
<1>4. ASSUME NEW l \in Leaves, Timeout(l) PROVE TypeOK'
  <2>1. PICK spent \in 0 .. MaxTime : LeafUpdate(l, E_ABORTED, spent)
    BY <1>4 DEF Timeout
  <2>2. spent \in Nat
    BY TimeAssumption
  <2>3. QED
    BY <1>4, <2>1, <2>2, ResultFacts, LeafUpdateTypeOK DEF Timeout
<1>5. QED
  BY <1>1, <1>2, <1>3, <1>4 DEF Event

LEMMA StateChangeTypeOK ==
    ASSUME TypeOK, NEW n \in Containers, StateChange(n)
    PROVE  queue' \in Seq(Triggers) /\ priority' \in Seq(Triggers)
<1>1. PICK s \in Reports(n) : priority' = priority \o s /\ UNCHANGED queue
  BY DEF StateChange
<1>2. PICK k \in 0 .. 2 : s \in [1 .. k -> StateTriggers[n]]
  BY <1>1 DEF Reports
<1>3. StateTriggers[n] \subseteq Triggers
  BY TriggerAssumption
<1>4. s \in Seq(Triggers)
  BY <1>2, <1>3, SeqDef
<1>5. QED
  BY <1>1, <1>4, ConcatProperties DEF TypeOK

LEMMA FeedUnchangedTypeOK ==
    ASSUME TypeOK, UNCHANGED feed
    PROVE  queue' \in Seq(Triggers) /\ priority' \in Seq(Triggers)
  BY DEF TypeOK, feed

LEMMA StartContainerTypeOK ==
    ASSUME TypeOK, NEW n \in Containers, NEW s \in Plans[n], NEW r \in Failures \cup {E_OK},
           StartContainer(n, s, r)
    PROVE  TypeOK'
<1>1. n \in Nodes /\ r \in Results /\ s \in Seq(Nodes \ {Root})
  BY NodeFacts, PlanFacts, ResultFacts
<1>2. status' \in [Nodes -> States]
  BY DEF TypeOK, StartContainer, States
<1>3. children[n] \o s \in Seq(Nodes \ {Root})
  BY <1>1, ConcatProperties DEF TypeOK
<1>4. children' \in [Containers -> Seq(Nodes \ {Root})]
  BY <1>3 DEF TypeOK, StartContainer
<1>5. call' \in Calls /\ cont' \in Calls /\ result' \in Failures \cup {E_OK}
  BY <1>1 DEF TypeOK, StartContainer, Goto, GotoUpdate, Call, Calls, Ops
<1>6. queue' \in Seq(Triggers) /\ priority' \in Seq(Triggers)
  BY StateChangeTypeOK DEF StartContainer
<1>7. QED
  BY <1>2, <1>4, <1>5, <1>6 DEF TypeOK, StartContainer, links

LEMMA ResumeTypeOK ==
    ASSUME TypeOK, NEW n \in Nodes,
           \/ n \in Containers /\ (ResumeContainer(n) \/ CleanupChild(n))
           \/ n \in Leaves /\ (ResumeLeaf(n) \/ SkipUndoLeaf(n))
           \/ Executed(n)
           \/ Return
    PROVE  TypeOK'
<1>1. UNCHANGED <<tree, links, feed, cont, result>>
  BY DEF ResumeContainer, CleanupChild, ResumeLeaf, SkipUndoLeaf, Executed, Return, Goto
<1>2. call' \in Calls
  <2>1. ASSUME n \in Containers, CleanupChild(n) PROVE call' \in Calls
    <3>1. Head(children[n]) \in Nodes
      BY <2>1, HeadTailProperties DEF TypeOK, CleanupChild
    <3>2. QED
      BY <2>1, <3>1 DEF CleanupChild, Goto, Call, Calls, Ops
  <2>2. ASSUME Executed(n) PROVE call' \in Calls
    BY <2>2, NodeFacts DEF Executed, Goto, Call, Calls, Ops
  <2>3. ASSUME \/ n \in Containers /\ ResumeContainer(n)
               \/ n \in Leaves /\ (ResumeLeaf(n) \/ SkipUndoLeaf(n))
               \/ Return
        PROVE  call' \in Calls
    BY <2>3, NodeFacts
       DEF ResumeContainer, ResumeLeaf, SkipUndoLeaf, Return, Goto, Call, Calls, Ops
  <2>4. QED
    BY <2>1, <2>2, <2>3
<1>3. QED
  BY <1>1, <1>2 DEF TypeOK, tree, links, feed

LEMMA LoopTypeOK ==
    ASSUME TypeOK, NEW n \in Containers, LoopChildren(n) \/ LoopUndo(n)
    PROVE  TypeOK'
<1>1. UNCHANGED <<status, error, children, executionTime, links, feed>>
  BY DEF LoopChildren, LoopUndo
<1>2. n \in Nodes /\ error[n] \in Failures \cup {E_OK} /\ E_ABORTED \in Failures
  BY NodeFacts, ErrorAssumption DEF TypeOK, Results
<1>3. DOMAIN timeout' = Nodes
  BY DEF TypeOK, LoopChildren, LoopUndo
<1>4. index' \in [Containers -> Int]
  BY DEF TypeOK, LoopChildren, LoopUndo
<1>5. HasChild(n) => Child(n) \in Nodes
  BY ChildIsNode
<1>6. call' \in Calls /\ cont' \in Calls /\ result' \in Failures \cup {E_OK}
  BY <1>2, <1>5 DEF TypeOK, LoopChildren, LoopUndo, Goto, GotoUpdate, Call, Calls, Ops
<1>7. QED
  BY <1>1, <1>3, <1>4, <1>6 DEF TypeOK, links, feed

LEMMA UpdateTypeOK ==
    ASSUME TypeOK, NEW n \in Containers, Update(n)
    PROVE  TypeOK'
<1>1. n \in Nodes /\ Root \in Nodes /\ (n # Root => Parent[n] \in Nodes)
      /\ result \in Results /\ result # E_WAIT_FOR_CHILD_COMPLETION
  BY NodeFacts, ErrorAssumption DEF TypeOK, Results, E_OK, E_WAIT_FOR_CHILD_COMPLETION
<1>2. status' \in [Nodes -> States]
  BY <1>1 DEF TypeOK, Update, States
<1>3. error' \in [Nodes -> Results] /\ \A k \in Containers : error'[k] # E_WAIT_FOR_CHILD_COMPLETION
  BY <1>1 DEF TypeOK, Update
<1>4. index' \in [Containers -> Int]
  BY DEF TypeOK, Update
<1>5. queue' \in Seq(Triggers) /\ priority' \in Seq(Triggers)
  <2>1. StateChange(n) \/ UNCHANGED feed
    BY DEF Update
  <2>2. QED
    BY <2>1, StateChangeTypeOK, FeedUnchangedTypeOK
<1>6. call' \in Calls /\ cont' \in Calls /\ result' \in Failures \cup {E_OK}
  BY <1>1 DEF TypeOK, Update, Notify, Absorb, GotoUpdate, Call, Calls, Ops
<1>7. QED
  BY <1>2, <1>3, <1>4, <1>5, <1>6 DEF TypeOK, Update, links

LEMMA UndoContainerTypeOK ==
    ASSUME TypeOK, NEW n \in Containers, UndoContainer(n)
    PROVE  TypeOK'
<1>1. n \in Nodes /\ E_OK \in Results /\ E_OK # E_WAIT_FOR_CHILD_COMPLETION
  BY NodeFacts, ResultFacts DEF E_OK, E_WAIT_FOR_CHILD_COMPLETION
<1>2. status' \in [Nodes -> States]
  BY DEF TypeOK, UndoContainer, States
<1>3. error' \in [Nodes -> Results] /\ \A k \in Containers : error'[k] # E_WAIT_FOR_CHILD_COMPLETION
  <2>1. error' = error \/ error' = [error EXCEPT ![n] = E_OK]
    BY DEF UndoContainer
  <2>2. error \in [Nodes -> Results] /\ \A k \in Containers : error[k] # E_WAIT_FOR_CHILD_COMPLETION
    BY DEF TypeOK
  <2>3. QED
    BY <1>1, <2>1, <2>2, NodeFacts
<1>4. Clip(n) \in Int
  BY LenProperties DEF TypeOK, Clip, HasChild, Size
<1>5. index' \in [Containers -> Int]
  BY <1>4 DEF TypeOK, UndoContainer
<1>6. call' \in Calls /\ UNCHANGED <<cont, result>>
  BY <1>1 DEF UndoContainer, Goto, Call, Calls, Ops
<1>7. queue' \in Seq(Triggers) /\ priority' \in Seq(Triggers)
  <2>1. StateChange(n) \/ UNCHANGED feed
    BY DEF UndoContainer
  <2>2. QED
    BY <2>1, StateChangeTypeOK, FeedUnchangedTypeOK
<1>8. QED
  BY <1>2, <1>3, <1>5, <1>6, <1>7 DEF TypeOK, UndoContainer, links

LEMMA CleanupSelfTypeOK ==
    ASSUME TypeOK, NEW n \in Containers, CleanupSelf(n)
    PROVE  TypeOK'
<1>1. n \in Nodes /\ E_OK \in Results /\ E_OK # E_WAIT_FOR_CHILD_COMPLETION
  BY NodeFacts, ResultFacts DEF E_OK, E_WAIT_FOR_CHILD_COMPLETION
<1>2. status' \in [Nodes -> States]
  BY DEF TypeOK, CleanupSelf, States
<1>3. error' \in [Nodes -> Results] /\ \A k \in Containers : error'[k] # E_WAIT_FOR_CHILD_COMPLETION
  <2>1. error' = error \/ error' = [error EXCEPT ![Root] = E_OK]
    BY DEF CleanupSelf
  <2>2. error \in [Nodes -> Results] /\ \A k \in Containers : error[k] # E_WAIT_FOR_CHILD_COMPLETION
    BY DEF TypeOK
  <2>3. QED
    BY <1>1, <2>1, <2>2, NodeFacts
<1>4. index' \in [Containers -> Int]
  BY DEF TypeOK, CleanupSelf
<1>5. call' \in Calls /\ UNCHANGED <<cont, result>>
  BY <1>1, NodeFacts DEF CleanupSelf, Goto, Call, Calls, Ops
<1>6. QED
  BY <1>2, <1>3, <1>4, <1>5 DEF TypeOK, CleanupSelf, links, feed

LEMMA StartLeafTypeOK ==
    ASSUME TypeOK, NEW l \in Leaves, NEW r \in Results, NEW spent \in 0 .. MaxTime,
           StartLeaf(l, r, spent)
    PROVE  TypeOK'
<1>1. l \in Nodes /\ Parent[l] \in Nodes /\ spent \in Nat
  BY NodeFacts, TimeAssumption
<1>2. status' \in [Nodes -> States] /\ executionTime' \in [Leaves -> Nat]
  BY <1>1 DEF TypeOK, StartLeaf, States
<1>3. error' \in [Nodes -> Results] /\ \A k \in Containers : error'[k] # E_WAIT_FOR_CHILD_COMPLETION
  BY NodeFacts DEF TypeOK, StartLeaf
<1>4. handles' \subseteq Requests /\ timers' \subseteq Leaves
  BY DEF TypeOK, StartLeaf, links, Requests
<1>5. call' \in Calls /\ cont' \in Calls /\ result' \in Failures \cup {E_OK}
  BY <1>1, ResultFacts DEF TypeOK, StartLeaf, Goto, GotoUpdate, Call, Calls, Ops
<1>6. QED
  BY <1>2, <1>3, <1>4, <1>5 DEF TypeOK, StartLeaf, feed

LEMMA UndoLeafTypeOK ==
    ASSUME TypeOK, NEW l \in Leaves, NEW r \in Results, UndoLeaf(l, r)
    PROVE  TypeOK'
<1>1. l \in Nodes /\ Parent[l] \in Nodes
  BY NodeFacts
<1>2. status' \in [Nodes -> States]
  BY <1>1 DEF TypeOK, UndoLeaf, States
<1>3. error' \in [Nodes -> Results] /\ \A k \in Containers : error'[k] # E_WAIT_FOR_CHILD_COMPLETION
  BY NodeFacts DEF TypeOK, UndoLeaf
<1>4. handles' \subseteq Requests /\ timers' \subseteq Leaves
  BY DEF TypeOK, UndoLeaf, links, Requests
<1>5. call' \in Calls /\ cont' \in Calls /\ result' \in Failures \cup {E_OK}
  BY <1>1, ResultFacts DEF TypeOK, UndoLeaf, Goto, GotoUpdate, Call, Calls, Ops
<1>6. QED
  BY <1>2, <1>3, <1>4, <1>5 DEF TypeOK, UndoLeaf, feed

LEMMA UndoneTypeOK ==
    ASSUME TypeOK, NEW n \in Nodes, Undone(n)
    PROVE  TypeOK'
<1>1. n # Root => Parent[n] \in Containers /\ Parent[n] \in Nodes
  BY NodeFacts
<1>2. index' \in [Containers -> Int]
  BY <1>1 DEF TypeOK, Undone
<1>3. call' \in Calls /\ UNCHANGED <<cont, result>>
  BY <1>1, NodeFacts DEF Undone, Goto, Call, Calls, Ops
<1>4. QED
  BY <1>2, <1>3 DEF TypeOK, Undone, links, feed

LEMMA DeleteTypeOK ==
    ASSUME TypeOK, NEW n \in Nodes, Delete(n)
    PROVE  TypeOK'
<1>1. Parent[n] \in Containers /\ Parent[n] \in Nodes /\ E_OK \in Results
      /\ E_OK # E_WAIT_FOR_CHILD_COMPLETION
  BY NodeFacts, ResultFacts DEF Delete, E_OK, E_WAIT_FOR_CHILD_COMPLETION
<1>2. status' \in [Nodes -> States]
  BY DEF TypeOK, Delete, States
<1>3. error' \in [Nodes -> Results] /\ \A k \in Containers : error'[k] # E_WAIT_FOR_CHILD_COMPLETION
  BY <1>1 DEF TypeOK, Delete
<1>4. DOMAIN timeout' = Nodes /\ executionTime' \in [Leaves -> Nat]
      /\ index' \in [Containers -> Int]
  BY DEF TypeOK, Delete
<1>5. Tail(children[Parent[n]]) \in Seq(Nodes \ {Root})
  BY <1>1, HeadTailProperties DEF TypeOK, Delete
<1>6. children' \in [Containers -> Seq(Nodes \ {Root})]
  BY <1>5, EmptySeq DEF TypeOK, Delete
<1>7. call' \in Calls /\ UNCHANGED <<cont, result>>
  BY <1>1 DEF Delete, Goto, Call, Calls, Ops
<1>8. QED
  BY <1>2, <1>3, <1>4, <1>6, <1>7 DEF TypeOK, Delete, links, feed

LEMMA DispatchTypeOK ==
    ASSUME TypeOK, NEW t \in Triggers, Dispatch(t)
    PROVE  TypeOK'
<1>1. queue' \in Seq(Triggers) /\ priority' \in Seq(Triggers)
  BY HeadTailProperties DEF TypeOK, Dispatch, Dequeue
<1>2. status' \in [Nodes -> States]
  BY DEF TypeOK, Dispatch, Forward, States
<1>3. children' \in [Containers -> Seq(Nodes \ {Root})]
  <2>1. ASSUME NEW p \in PolicyActions[t]
        PROVE  Append(children[Root], p) \in Seq(Nodes \ {Root})
    BY TriggerAssumption, NodeFacts, AppendProperties DEF TypeOK
  <2>2. QED
    BY <2>1 DEF TypeOK, Dispatch, Forward
<1>4. call' \in Calls /\ UNCHANGED <<cont, result>>
  BY NodeFacts DEF Dispatch, Goto, Call, Calls, Ops
<1>5. QED
  BY <1>1, <1>2, <1>3, <1>4 DEF TypeOK, Dispatch, links

LEMMA StepTypeOK == TypeOK /\ Step => TypeOK'
<1> SUFFICES ASSUME TypeOK, Step PROVE TypeOK'
  OBVIOUS
<1>1. ASSUME NEW n \in Containers, ContainerStep(n) PROVE TypeOK'
  BY <1>1, NodeFacts, StartContainerTypeOK, ResumeTypeOK, LoopTypeOK, UpdateTypeOK,
     UndoContainerTypeOK, CleanupSelfTypeOK DEF ContainerStep
<1>2. ASSUME NEW l \in Leaves, LeafStep(l) PROVE TypeOK'
  BY <1>2, NodeFacts, StartLeafTypeOK, ResumeTypeOK, UndoLeafTypeOK DEF LeafStep
<1>3. ASSUME NEW n \in Nodes, Executed(n) \/ Undone(n) \/ Delete(n) PROVE TypeOK'
  BY <1>3, ResumeTypeOK, UndoneTypeOK, DeleteTypeOK
<1>4. ASSUME NEW t \in Triggers, Dispatch(t) PROVE TypeOK'
  BY <1>4, DispatchTypeOK
<1>5. ASSUME Return PROVE TypeOK'
  BY <1>5, NodeFacts, ResumeTypeOK
<1>6. QED
  BY <1>1, <1>2, <1>3, <1>4, <1>5 DEF Step

\* Every member of the actions, the queue and the stores stays in its range, whatever
\* the policies, the routing side and the timers do.
THEOREM TypeCorrect == Spec => []TypeOK
<1>1. Init => TypeOK
  BY InitTypeOK
<1>2. TypeOK /\ [Next]_vars => TypeOK'
  <2>1. TypeOK /\ UNCHANGED vars => TypeOK'
    BY DEF TypeOK, vars, tree, links, feed
  <2>2. QED
    BY <2>1, StepTypeOK, EventTypeOK DEF Next
<1>3. QED
  BY <1>1, <1>2, PTL DEF Spec

-----------------------------------------------------------------------------
(* The stored pointers *)

\* HandlesMatchWaitingLeaves is not inductive: it says nothing of the leaf that
\* cleanup() is about to delete.  That leaf does not wait, and no chain of
\* notifications ends in a delete.
NoDangling ==
    /\ HandlesMatchWaitingLeaves
    /\ call.op = "delete" /\ call.node \in Leaves => ~Waiting(call.node)
    /\ cont.op # "delete"

\* A step that leaves the stores alone and moves no leaf into or out of a waiting
\* state keeps them in agreement.
LEMMA WaitingLeavesUntouched ==
    ASSUME TypeOK, HandlesMatchWaitingLeaves, UNCHANGED links,
           \A l \in Leaves : Waiting(l) \/ Waiting(l)' => status'[l] = status[l]
    PROVE  HandlesMatchWaitingLeaves'
<1>1. \A l \in Leaves : /\ Waiting(l)' <=> Waiting(l)
                        /\ status'[l] = "EXECUTING" <=> status[l] = "EXECUTING"
                        /\ status'[l] = "UNDOING" <=> status[l] = "UNDOING"
  BY DEF Waiting
<1>2. timers' = timers /\ handles' = handles
  BY DEF links
<1>3. \A l \in Leaves : /\ <<l, "do">> \in handles' <=> status'[l] = "EXECUTING"
                        /\ <<l, "undo">> \in handles' <=> status'[l] = "UNDOING"
  BY <1>1, <1>2 DEF HandlesMatchWaitingLeaves
<1>4. /\ \A l \in timers' : Waiting(l)'
      /\ \A l \in Leaves : status'[l] = "UNDOING" => l \in timers'
  BY <1>1, <1>2 DEF TypeOK, HandlesMatchWaitingLeaves
<1>5. QED
  BY <1>3, <1>4 DEF HandlesMatchWaitingLeaves

\* A step that makes l wait, and enters it in the handle store, keeps them in agreement.
LEMMA LeafStartsWaiting ==
    ASSUME TypeOK, HandlesMatchWaitingLeaves, NEW l \in Leaves, ~Waiting(l), Waiting(l)',
           handles' = handles \cup {<<l, IF status'[l] = "UNDOING" THEN "undo" ELSE "do">>},
           timers \subseteq timers', timers' \subseteq timers \cup {l},
           status'[l] = "UNDOING" => l \in timers',
           \A k \in Leaves \ {l} : status'[k] = status[k]
    PROVE  HandlesMatchWaitingLeaves'
<1>1. \A k \in Leaves : /\ <<k, "do">> \in handles' <=> status'[k] = "EXECUTING"
                        /\ <<k, "undo">> \in handles' <=> status'[k] = "UNDOING"
  BY DEF HandlesMatchWaitingLeaves, Waiting
<1>2. \A k \in timers' : Waiting(k)'
  BY DEF TypeOK, HandlesMatchWaitingLeaves, Waiting
<1>3. \A k \in Leaves : status'[k] = "UNDOING" => k \in timers'
  BY DEF HandlesMatchWaitingLeaves, Waiting
<1>4. QED
  BY <1>1, <1>2, <1>3 DEF HandlesMatchWaitingLeaves

\* A step that ends the waiting of l, and drops its handle and its timer, too.
LEMMA LeafStopsWaiting ==
    ASSUME TypeOK, HandlesMatchWaitingLeaves, NEW l \in Leaves, Waiting(l), ~Waiting(l)',
           handles' = handles \ {Handle(l)},
           timers' = timers \ {l},
           \A k \in Leaves \ {l} : status'[k] = status[k]
    PROVE  HandlesMatchWaitingLeaves'
<1>1. \A k \in Leaves : /\ <<k, "do">> \in handles' <=> status'[k] = "EXECUTING"
                        /\ <<k, "undo">> \in handles' <=> status'[k] = "UNDOING"
  BY DEF HandlesMatchWaitingLeaves, Waiting, Handle
<1>2. \A k \in timers' : Waiting(k)'
  BY DEF TypeOK, HandlesMatchWaitingLeaves, Waiting
<1>3. \A k \in Leaves : status'[k] = "UNDOING" => k \in timers'
  BY DEF HandlesMatchWaitingLeaves, Waiting
<1>4. QED
  BY <1>1, <1>2, <1>3 DEF HandlesMatchWaitingLeaves

\* update() of a waiting leaf, by an answer or by its timer.
LEMMA LeafUpdateNoDangling ==
    ASSUME TypeOK, NoDangling, NEW l \in Leaves, Waiting(l), NEW r, NEW spent,
           LeafUpdate(l, r, spent)
    PROVE  NoDangling'
<1>1. ~Waiting(l)' /\ \A k \in Leaves \ {l} : status'[k] = status[k]
  BY NodeFacts DEF TypeOK, LeafUpdate, Waiting
<1>2. HandlesMatchWaitingLeaves'
  BY <1>1, LeafStopsWaiting DEF NoDangling, LeafUpdate, DropHandle
<1>3. call'.op = "update" /\ cont'.op = "execute"
  BY DEF LeafUpdate, GotoUpdate, Call
<1>4. QED
  BY <1>2, <1>3 DEF NoDangling

LEMMA EventNoDangling == TypeOK /\ NoDangling /\ Event => NoDangling'
<1> SUFFICES ASSUME TypeOK, NoDangling, Event PROVE NoDangling'
  OBVIOUS
<1>1. ASSUME NEW q \in Requests, NEW r \in Failures \cup {E_OK}, NEW spent \in 0 .. MaxTime,
             Answer(q, r, spent)
      PROVE  NoDangling'
  <2>1. PICK l \in Leaves, phase \in {"do", "undo"} : q = <<l, phase>>
    BY DEF Requests
  <2>2. q \in handles
    BY <1>1 DEF Answer
  <2>3. Waiting(l)
    BY <2>1, <2>2 DEF NoDangling, HandlesMatchWaitingLeaves, Waiting
  <2>4. QED
    BY <1>1, <2>1, <2>3, LeafUpdateNoDangling DEF Answer
<1>2. ASSUME NEW l \in Leaves, Timeout(l) PROVE NoDangling'
  <2>1. Waiting(l)
    BY <1>2 DEF Timeout, NoDangling, HandlesMatchWaitingLeaves
  <2>2. QED
    BY <1>2, <2>1, LeafUpdateNoDangling DEF Timeout
<1>3. ASSUME UnknownAnswer \/ \E t \in Triggers : RaiseTrigger(t) PROVE NoDangling'
  <2>1. UNCHANGED <<status, links, cont>> /\ call'.op = "execute"
    BY <1>3 DEF UnknownAnswer, RaiseTrigger, Goto, Call, tree
  <2>2. HandlesMatchWaitingLeaves'
    BY <2>1, WaitingLeavesUntouched DEF NoDangling
  <2>3. QED
    BY <2>1, <2>2 DEF NoDangling
<1>4. QED
  BY <1>1, <1>2, <1>3 DEF Event

\* The steps of a running handler that touch neither the leaves nor the stores.
LEMMA ControlNoDangling ==
    ASSUME TypeOK, NoDangling, UNCHANGED links,
           \A l \in Leaves : Waiting(l) \/ Waiting(l)' => status'[l] = status[l],
           call'.op = "delete" => call' = cont \/ call'.node \notin Leaves,
           cont' = cont \/ cont'.op # "delete"
    PROVE  NoDangling'
<1>1. HandlesMatchWaitingLeaves'
  BY WaitingLeavesUntouched DEF NoDangling
<1>2. QED
  BY <1>1 DEF NoDangling

LEMMA ContainerStepNoDangling ==
    ASSUME TypeOK, NoDangling, NEW n \in Containers, ContainerStep(n)
    PROVE  NoDangling'
<1>1. n \in Nodes /\ n \notin Leaves
  BY NodeFacts
<1>2. ASSUME NEW s \in Plans[n], NEW r \in Failures \cup {E_OK}, StartContainer(n, s, r)
      PROVE  NoDangling'
  <2>1. \A l \in Leaves : \/ status'[l] = status[l]
                          \/ status[l] = "FREE" /\ status'[l] = "NOT_STARTED"
    BY <1>1, <1>2, NodeFacts DEF StartContainer
  <2>2. call'.op \in {"loop", "update"} /\ (cont' = cont \/ cont'.op = "executed")
    BY <1>2 DEF StartContainer, Goto, GotoUpdate, Call
  <2>3. QED
    BY <1>2, <2>1, <2>2, ControlNoDangling DEF StartContainer, Waiting
<1>3. ASSUME ResumeContainer(n) \/ LoopChildren(n) \/ LoopUndo(n) PROVE NoDangling'
  <2>1. UNCHANGED <<status, links>>
    BY <1>3 DEF ResumeContainer, LoopChildren, LoopUndo, tree
  <2>2. call'.op # "delete" /\ (cont' = cont \/ cont'.op # "delete")
    BY <1>3 DEF ResumeContainer, LoopChildren, LoopUndo, Goto, GotoUpdate, Call
  <2>3. QED
    BY <2>1, <2>2, ControlNoDangling
<1>4. ASSUME Update(n) PROVE NoDangling'
  <2>1. \A l \in Leaves : status'[l] = status[l]
    BY <1>1, <1>4, NodeFacts DEF TypeOK, Update, feed
  <2>2. /\ call'.op = "delete" => call' = cont
        /\ cont' = cont \/ cont'.op # "delete"
    BY <1>4 DEF Update, Notify, Absorb, GotoUpdate, Call
  <2>3. QED
    BY <1>4, <2>1, <2>2, ControlNoDangling DEF Update
<1>5. ASSUME UndoContainer(n) PROVE NoDangling'
  <2>1. \A l \in Leaves : status'[l] = status[l]
    BY <1>1, <1>5, NodeFacts DEF UndoContainer
  <2>2. call'.op # "delete" /\ cont' = cont
    BY <1>5 DEF UndoContainer, Goto, Call
  <2>3. QED
    BY <1>5, <2>1, <2>2, ControlNoDangling DEF UndoContainer
<1>6. ASSUME CleanupChild(n) PROVE NoDangling'
  <2>1. UNCHANGED <<status, links, cont>>
    BY <1>6 DEF CleanupChild, Goto, tree
  <2>2. ~Waiting(Head(children[n]))
    BY <1>6 DEF CleanupChild, Disposable, Waiting
  <2>3. call'.op = "delete" => call'.node = Head(children[n])
    BY <1>6 DEF CleanupChild, Goto, Call
  <2>4. HandlesMatchWaitingLeaves'
    BY <2>1, WaitingLeavesUntouched DEF NoDangling
  <2>5. QED
    BY <2>1, <2>2, <2>3, <2>4 DEF NoDangling, Waiting
<1>7. ASSUME CleanupSelf(n) PROVE NoDangling'
  <2>1. status' = status \/ status' = [status EXCEPT ![Root] = "NOT_STARTED"]
    BY <1>7 DEF CleanupSelf
  <2>2. \A l \in Leaves : status'[l] = status[l]
    BY <2>1, NodeFacts DEF TypeOK
  <2>3. (call'.op = "delete" => call'.node = n) /\ cont' = cont
    BY <1>7 DEF CleanupSelf, Goto, Call
  <2>4. QED
    BY <1>1, <1>7, <2>2, <2>3, ControlNoDangling DEF CleanupSelf
<1>8. QED
  BY <1>2, <1>3, <1>4, <1>5, <1>6, <1>7 DEF ContainerStep

LEMMA LeafStepNoDangling ==
    ASSUME TypeOK, NoDangling, NEW l \in Leaves, LeafStep(l)
    PROVE  NoDangling'
<1>1. l \in Nodes
  BY NodeFacts
<1>2. ASSUME NEW r \in Results, NEW spent \in 0 .. MaxTime, StartLeaf(l, r, spent)
      PROVE  NoDangling'
  <2>1. /\ status[l] = "NOT_STARTED" /\ \A k \in Leaves \ {l} : status'[k] = status[k]
        /\ status'[l] = IF Finished(r) THEN "COMPLETED" ELSE "EXECUTING"
    BY <1>1, <1>2, NodeFacts DEF TypeOK, StartLeaf
  <2>2. call'.op # "delete" /\ (cont' = cont \/ cont'.op = "executed")
    BY <1>2 DEF StartLeaf, Goto, GotoUpdate, Call
  <2>3. CASE Finished(r)
    BY <1>2, <2>1, <2>2, <2>3, ControlNoDangling DEF StartLeaf, Waiting
  <2>4. CASE ~Finished(r)
    <3>1. /\ handles' = handles \cup {<<l, "do">>}
          /\ timers \subseteq timers' /\ timers' \subseteq timers \cup {l}
      BY <1>2, <2>4 DEF StartLeaf
    <3>2. HandlesMatchWaitingLeaves'
      BY <2>1, <2>4, <3>1, LeafStartsWaiting DEF NoDangling, Waiting
    <3>3. QED
      BY <2>2, <3>2 DEF NoDangling
  <2>5. QED
    BY <2>3, <2>4
<1>3. ASSUME NEW r \in Results, UndoLeaf(l, r) PROVE NoDangling'
  <2>1. /\ status[l] = "COMPLETED" /\ \A k \in Leaves \ {l} : status'[k] = status[k]
        /\ status'[l] = IF Finished(r) THEN "UNDO_COMPLETE" ELSE "UNDOING"
    BY <1>1, <1>3, NodeFacts DEF TypeOK, UndoLeaf
  <2>2. call'.op # "delete" /\ (cont' = cont \/ cont'.op = "undone")
    BY <1>3 DEF UndoLeaf, Goto, GotoUpdate, Call
  <2>3. CASE Finished(r)
    BY <1>3, <2>1, <2>2, <2>3, ControlNoDangling DEF UndoLeaf, Waiting
  <2>4. CASE ~Finished(r)
    <3>1. handles' = handles \cup {<<l, "undo">>} /\ timers' = timers \cup {l}
      BY <1>3, <2>4 DEF UndoLeaf
    <3>2. HandlesMatchWaitingLeaves'
      BY <2>1, <2>4, <3>1, LeafStartsWaiting DEF NoDangling, Waiting
    <3>3. QED
      BY <2>2, <3>2 DEF NoDangling
  <2>5. QED
    BY <2>3, <2>4
<1>4. ASSUME ResumeLeaf(l) \/ SkipUndoLeaf(l) PROVE NoDangling'
  <2>1. UNCHANGED <<status, links, cont>> /\ call'.op # "delete"
    BY <1>4 DEF ResumeLeaf, SkipUndoLeaf, Goto, Call, tree
  <2>2. QED
    BY <2>1, ControlNoDangling
<1>5. QED
  BY <1>2, <1>3, <1>4 DEF LeafStep

LEMMA StepNoDangling == TypeOK /\ NoDangling /\ Step => NoDangling'
<1> SUFFICES ASSUME TypeOK, NoDangling, Step PROVE NoDangling'
  OBVIOUS
<1>1. ASSUME NEW n \in Nodes, Executed(n) \/ Undone(n) PROVE NoDangling'
  <2>1. UNCHANGED <<status, links, cont>> /\ call'.op # "delete"
    BY <1>1 DEF Executed, Undone, Goto, Call, tree
  <2>2. QED
    BY <2>1, ControlNoDangling
<1>2. ASSUME NEW n \in Nodes, Delete(n) PROVE NoDangling'
  <2>1. n \in Leaves => ~Waiting(n)
    BY <1>2 DEF NoDangling, Delete, Running, Call
  <2>2. \A l \in Leaves : \/ status'[l] = status[l]
                          \/ l = n /\ status'[l] = "FREE"
    BY <1>2, NodeFacts DEF TypeOK, Delete
  <2>3. UNCHANGED <<links, cont>> /\ call'.op # "delete"
    BY <1>2 DEF Delete, Goto, Call
  <2>4. QED
    BY <2>1, <2>2, <2>3, ControlNoDangling DEF Waiting
<1>3. ASSUME NEW t \in Triggers, Dispatch(t) PROVE NoDangling'
  <2>1. \A l \in Leaves : status'[l] = status[l]
    BY <1>3, TriggerAssumption, NodeFacts DEF TypeOK, Dispatch, Forward
  <2>2. UNCHANGED <<links, cont>> /\ call'.op # "delete"
    BY <1>3 DEF Dispatch, Goto, Call
  <2>3. QED
    BY <2>1, <2>2, ControlNoDangling
<1>4. ASSUME Return PROVE NoDangling'
  <2>1. UNCHANGED <<status, links, cont>> /\ call'.op # "delete"
    BY <1>4 DEF Return, Goto, Call, tree
  <2>2. QED
    BY <2>1, ControlNoDangling
<1>5. QED
  BY <1>1, <1>2, <1>3, <1>4, ContainerStepNoDangling, LeafStepNoDangling DEF Step

LEMMA PointersValid == Spec => []NoDangling
<1>1. Init => NoDangling
  BY NodeFacts DEF Init, NoDangling, HandlesMatchWaitingLeaves, Waiting, Call
<1>2. TypeOK /\ NoDangling /\ [Next]_vars => NoDangling'
  <2>1. ASSUME TypeOK, NoDangling, UNCHANGED vars PROVE NoDangling'
    <3>1. UNCHANGED <<status, links, call, cont>>
      BY <2>1 DEF vars, tree
    <3>2. HandlesMatchWaitingLeaves'
      BY <2>1, <3>1, WaitingLeavesUntouched DEF NoDangling
    <3>3. QED
      BY <2>1, <3>1, <3>2 DEF NoDangling, Waiting
  <2>2. QED
    BY <2>1, StepNoDangling, EventNoDangling DEF Next
<1>3. QED
  BY <1>1, <1>2, TypeCorrect, PTL DEF Spec

\* Neither an answer nor a timer ever reaches an action that is not waiting for it:
\* notifyAsyncResult() and timerCallback() never use a stale pointer.
THEOREM StoresAgree == Spec => []HandlesMatchWaitingLeaves
<1>1. NoDangling => HandlesMatchWaitingLeaves
  BY DEF NoDangling
<1>2. QED
  BY <1>1, PointersValid, PTL

-----------------------------------------------------------------------------
(* Nothing is left behind *)

(***************************************************************************)
(* NothingLeftBehind speaks of the event loop only; the invariant follows  *)
(* a handler on its way there.  execute() walks down from the root and     *)
(* comes back up from an action that waits or is through; undo() walks     *)
(* down a path of actions that are being undone; cleanup() starts when     *)
(* neither has anything left to do.  Objects whose parent has been deleted *)
(* may still wait, and their answers reach containers that know nothing of *)
(* them: the invariant makes no claim about the inside of the tree but for *)
(* the way the handler is on, and for the one child the root can have.     *)
(***************************************************************************)
LeafWaits == \E l \in Leaves : Waiting(l)
Undoing == {"UNDOING", "UNDO_COMPLETE"}

\* The lists of children.  No object but its current child has the root for its parent.
ChildrenFit ==
    /\ \A n \in Containers : \A k \in Elements(children[n]) : Parent[k] = n
    /\ Len(children[Root]) <= 1
    /\ Elements(children[Root]) \subseteq Containers
    /\ \A k \in Elements(children[Root]) : status[k] # "FREE"
    /\ \A k \in Nodes \ {Root} :
          Parent[k] = Root /\ status[k] # "FREE" => k \in Elements(children[Root])
    /\ status[Root] # "FREE" /\ timeout[Root] = INFINITE_TIMEOUT
    /\ \A l \in Leaves : status[l] # "ERROR_STOPPED"

\* All actions above n, the members of A, are being undone.
Above(n, A) ==
    /\ n # Root => Parent[n] \in A
    /\ \A a \in A : status[a] \in Undoing /\ (a # Root => Parent[a] \in A)
OnUndoPath(n) == \E A \in SUBSET Containers : Above(n, A)

\* The activation that runs next has been called by an action in the right state.
ControlFits ==
    /\ call.op = "loop" => status[call.node] = "EXECUTING"
    /\ call.op = "execute" /\ call.node # Root => status[Parent[call.node]] = "EXECUTING"
    /\ call.op = "undo" => NeedsUndo(call.node)
    /\ call.op \in {"undoLoop", "undone"} => status[call.node] \in Undoing
    /\ call.op \in {"undo", "undoLoop", "undone"} => OnUndoPath(call.node)

\* So has the one that runs when the notifications are through; the action it is about is
\* through by then.
ContFits ==
    call.op = "update" =>
        /\ cont.op \in {"execute", "executed", "undone"}
        /\ cont.op = "execute" => cont.node = Root
        /\ cont.op = "executed" /\ status[cont.node] = "EXECUTING" =>
              call.node = cont.node /\ (result > 0 \/ index[cont.node] + 1 >= Size(cont.node))
        /\ cont.op = "undone" =>
              /\ status[cont.node] \in Undoing /\ OnUndoPath(cont.node)
              /\ status[cont.node] = "UNDOING" => call.node = cont.node /\ index[cont.node] < 0

\* The handler is between the start of the root's execute() and the end of its cleanup().
Walking ==
    \/ call.op \in {"loop", "executed", "undo", "undoLoop", "undone", "cleanup", "delete"}
    \/ call.op = "execute" /\ call.node # Root
    \/ call.op = "update" /\ cont.op # "execute"

\* The state of the root agrees with that of its child p, but for a notification under way.
RootAgrees(p) ==
    /\ index[Root] < 0 => status[p] = "UNDO_COMPLETE"
    /\ status[Root] = "NOT_STARTED" => status[p] = "NOT_STARTED"
    /\ status[Root] = "EXECUTING" =>
          IF call = Call("update", Root)
          THEN IF result > 0 THEN status[p] = "ERROR_STOPPED" ELSE status[p] = "COMPLETED"
          ELSE status[p] \in {"NOT_STARTED", "EXECUTING"}
    /\ status[Root] = "UNDOING" => status[p] \in {"ERROR_STOPPED", "UNDOING", "UNDO_COMPLETE"}
    /\ status[Root] \in {"COMPLETED", "ERROR_STOPPED", "UNDO_COMPLETE"} => status[p] = status[Root]

RootFits ==
    /\ Walking => status[Root] # "NOT_STARTED"
    /\ call = Call("undo", Root) => status[Root] \in {"ERROR_STOPPED", "UNDOING"}
    /\ status[Root] \in {"NOT_STARTED", "EXECUTING"} => index[Root] = 0
    /\ \A p \in Elements(children[Root]) : RootAgrees(p)

\* Unless some leaf waits, the handler goes on until there is nothing left to do.
GoesOn ==
    /\ call.op = "executed" => status[call.node] # "EXECUTING"
    /\ call.op = "undone" => status[call.node] # "UNDOING"
    /\ call.op \in {"cleanup", "delete"} => status[Root] \in {"COMPLETED", "UNDO_COMPLETE"}
    /\ call.op \in {"dispatch", "idle"} => status[Root] = "NOT_STARTED" /\ children[Root] = <<>>
    /\ call.op = "idle" => queue = <<>> /\ priority = <<>>

EngineInv == ChildrenFit /\ ControlFits /\ ContFits /\ RootFits /\ (LeafWaits \/ GoesOn)

\* Elements of the lists that the engine makes.
LEMMA ElementsFacts ==
    ASSUME NEW S, NEW s \in Seq(S)
    PROVE  /\ Elements(s) \subseteq S
           /\ \A i \in 1 .. Len(s) : s[i] \in Elements(s)
           /\ \A t \in Seq(S) : Elements(s \o t) = Elements(s) \cup Elements(t)
           /\ s # <<>> => Head(s) \in Elements(s) /\ Elements(Tail(s)) \subseteq Elements(s)
           /\ Len(s) <= 1 => \A x, y \in Elements(s) : x = y
<1>1. DOMAIN s = 1 .. Len(s) /\ Len(s) \in Nat
  OBVIOUS
<1>2. Elements(s) \subseteq S /\ \A i \in 1 .. Len(s) : s[i] \in Elements(s)
  BY <1>1 DEF Elements
<1>3. ASSUME NEW t \in Seq(S) PROVE Elements(s \o t) = Elements(s) \cup Elements(t)
  <2>1. /\ s \o t \in Seq(S) /\ Len(s \o t) = Len(s) + Len(t)
        /\ \A i \in 1 .. Len(s) + Len(t) :
              (s \o t)[i] = IF i <= Len(s) THEN s[i] ELSE t[i - Len(s)]
    BY ConcatProperties
  <2>2. /\ DOMAIN (s \o t) = 1 .. Len(s) + Len(t)
        /\ DOMAIN t = 1 .. Len(t) /\ Len(t) \in Nat
    BY <2>1
  <2>3. ASSUME NEW x \in Elements(s \o t) PROVE x \in Elements(s) \cup Elements(t)
    <3>1. PICK i \in 1 .. Len(s) + Len(t) : x = (s \o t)[i]
      BY <2>2 DEF Elements
    <3>2. CASE i <= Len(s)
      BY <1>1, <2>1, <3>1, <3>2 DEF Elements
    <3>3. CASE ~(i <= Len(s))
      <4>1. i - Len(s) \in 1 .. Len(t) /\ x = t[i - Len(s)]
        BY <1>1, <2>1, <2>2, <3>1, <3>3
      <4>2. QED
        BY <2>2, <4>1 DEF Elements
    <3>4. QED
      BY <3>2, <3>3
  <2>4. ASSUME NEW x \in Elements(s) PROVE x \in Elements(s \o t)
    <3>1. PICK i \in 1 .. Len(s) : x = s[i]
      BY <1>1 DEF Elements
    <3>2. i \in 1 .. Len(s) + Len(t) /\ x = (s \o t)[i]
      BY <1>1, <2>1, <2>2, <3>1
    <3>3. QED
      BY <2>2, <3>2 DEF Elements
  <2>5. ASSUME NEW x \in Elements(t) PROVE x \in Elements(s \o t)
    <3>1. PICK i \in 1 .. Len(t) : x = t[i]
      BY <2>2 DEF Elements
    <3>2. Len(s) + i \in 1 .. Len(s) + Len(t) /\ x = (s \o t)[Len(s) + i]
      <4>1. Len(s) + i \in 1 .. Len(s) + Len(t) /\ ~(Len(s) + i <= Len(s)) /\ (Len(s) + i) - Len(s) = i
        BY <1>1, <2>2
      <4>2. QED
        BY <2>1, <3>1, <4>1
    <3>3. QED
      BY <2>2, <3>2 DEF Elements
  <2>6. QED
    BY <2>3, <2>4, <2>5
<1>4. ASSUME s # <<>> PROVE Head(s) \in Elements(s) /\ Elements(Tail(s)) \subseteq Elements(s)
  <2>1. Len(s) >= 1
    BY <1>1, <1>4, EmptySeq
  <2>2. Head(s) = s[1]
    BY <1>4
  <2>3. /\ Tail(s) \in Seq(S) /\ Len(Tail(s)) = Len(s) - 1
        /\ \A i \in 1 .. Len(Tail(s)) : Tail(s)[i] = s[i + 1]
    BY <1>4, HeadTailProperties
  <2>4. DOMAIN Tail(s) = 1 .. Len(s) - 1
    BY <2>3
  <2>5. ASSUME NEW x \in Elements(Tail(s)) PROVE x \in Elements(s)
    <3>1. PICK i \in 1 .. Len(s) - 1 : x = Tail(s)[i]
      BY <2>4 DEF Elements
    <3>2. i + 1 \in 1 .. Len(s) /\ x = s[i + 1]
      BY <1>1, <2>3, <3>1
    <3>3. QED
      BY <1>2, <3>2
  <2>6. 1 \in 1 .. Len(s)
    BY <1>1, <2>1
  <2>7. QED
    BY <1>2, <2>2, <2>5, <2>6
<1>5. ASSUME Len(s) <= 1, NEW x \in Elements(s), NEW y \in Elements(s) PROVE x = y
  <2>1. PICK i \in 1 .. Len(s), j \in 1 .. Len(s) : x = s[i] /\ y = s[j]
    BY <1>1 DEF Elements
  <2>2. i = j
    BY <1>1, <1>5, <2>1
  <2>3. QED
    BY <2>1, <2>2
<1>6. QED
  BY <1>2, <1>3, <1>4, <1>5

\* The children of the root.
LEMMA RootChild ==
    ASSUME TypeOK, ChildrenFit, NEW p \in Elements(children[Root])
    PROVE  /\ p \in Containers /\ p \in Nodes \ {Root} /\ Parent[p] = Root /\ status[p] # "FREE"
           /\ Elements(children[Root]) = {p} /\ Size(Root) = 1
<1>1. children[Root] \in Seq(Nodes \ {Root}) /\ Len(children[Root]) <= 1
  BY NodeFacts DEF TypeOK, ChildrenFit
<1>2. p \in Nodes \ {Root} /\ \A q \in Elements(children[Root]) : q = p
  BY <1>1, ElementsFacts
<1>3. Len(children[Root]) = 1
  <2> DEFINE m == Len(children[Root])
  <2>1. DOMAIN children[Root] = 1 .. m /\ m \in Nat /\ m <= 1
    BY <1>1
  <2>2. 1 .. m # {}
    BY <2>1 DEF Elements
  <2> HIDE DEF m
  <2>3. m = 1
    BY <2>1, <2>2
  <2>4. QED
    BY <2>3 DEF m
<1>4. QED
  BY <1>2, <1>3, NodeFacts DEF ChildrenFit, Size

\* An object that has the root for its parent is its child, and no leaf.
LEMMA BelowRoot ==
    ASSUME TypeOK, ChildrenFit, NEW k \in Nodes \ {Root}, Parent[k] = Root, status[k] # "FREE"
    PROVE  k \in Elements(children[Root]) /\ k \in Containers /\ k \notin Leaves
BY NodeFacts DEF ChildrenFit

\* The path to an action that is undone.
LEMMA PathKept ==
    ASSUME NEW n, OnUndoPath(n),
           \A a \in Containers : status[a] \in Undoing => status'[a] \in Undoing
    PROVE  OnUndoPath(n)'
<1>1. PICK A \in SUBSET Containers : Above(n, A)
  BY DEF OnUndoPath
<1>2. Above(n, A)'
  BY <1>1 DEF Above
<1>3. QED
  BY <1>2 DEF OnUndoPath

LEMMA PathDown ==
    ASSUME NEW n \in Containers, OnUndoPath(n), status[n] \in Undoing, NEW k, Parent[k] = n
    PROVE  OnUndoPath(k)
<1>1. PICK A \in SUBSET Containers : Above(n, A)
  BY DEF OnUndoPath
<1>2. Above(k, A \cup {n})
  BY <1>1 DEF Above
<1>3. A \cup {n} \in SUBSET Containers
  BY <1>1
<1>4. QED
  BY <1>2, <1>3 DEF OnUndoPath

LEMMA PathUp ==
    ASSUME NEW k, k # Root, OnUndoPath(k)
    PROVE  status[Parent[k]] \in Undoing /\ OnUndoPath(Parent[k])
<1>1. PICK A \in SUBSET Containers : Above(k, A)
  BY DEF OnUndoPath
<1>2. Parent[k] \in A /\ status[Parent[k]] \in Undoing
  BY <1>1 DEF Above
<1>3. Above(Parent[k], A)
  BY <1>1, <1>2 DEF Above
<1>4. QED
  BY <1>2, <1>3 DEF OnUndoPath

LEMMA PathOfRoot == OnUndoPath(Root)
<1>1. Above(Root, {})
  BY DEF Above
<1>2. QED
  BY <1>1 DEF OnUndoPath

\* What a step has to leave alone for the parts of the invariant it does not touch.
LEMMA CallFacts ==
    /\ \A o, n : Call(o, n).op = o /\ Call(o, n).node = n
    /\ \A o, p, n, m : Call(o, n) = Call(p, m) => o = p /\ n = m
BY DEF Call

LEMMA ChildrenKept ==
    ASSUME ChildrenFit, children' = children, timeout'[Root] = timeout[Root],
           \A k \in Nodes : status'[k] = "FREE" <=> status[k] = "FREE",
           \A l \in Leaves : status'[l] # "ERROR_STOPPED"
    PROVE  ChildrenFit'
<1>1. \A k \in Elements(children[Root]) : k \in Nodes
  BY NodeFacts DEF ChildrenFit
<1>2. Root \in Nodes
  BY NodeFacts
<1>3. QED
  BY <1>1, <1>2 DEF ChildrenFit, Elements

LEMMA RootKept ==
    ASSUME RootFits, children'[Root] = children[Root], index'[Root] = index[Root],
           status'[Root] = status[Root],
           \A p \in Elements(children[Root]) : status'[p] = status[p],
           call # Call("update", Root), call' # Call("update", Root), call' # Call("undo", Root),
           Walking' => Walking \/ status[Root] # "NOT_STARTED"
    PROVE  RootFits'
<1>1. ASSUME NEW p \in Elements(children[Root]) PROVE RootAgrees(p)'
  <2>1. RootAgrees(p)
    BY DEF RootFits
  <2>2. QED
    BY <2>1 DEF RootAgrees
<1>2. Elements(children'[Root]) = Elements(children[Root])
  BY DEF Elements
<1>3. QED
  BY <1>1, <1>2 DEF RootFits

LEMMA HandlerGoesOn ==
    ASSUME call'.op \in {"execute", "loop", "undo", "undoLoop", "update"}
    PROVE  GoesOn'
BY DEF GoesOn

-----------------------------------------------------------------------------

LEMMA InitEngineInv == Init => EngineInv
<1> SUFFICES ASSUME Init PROVE EngineInv
  OBVIOUS
<1>1. children = [n \in Containers |-> <<>>] /\ call = Call("idle", Root)
      /\ index[Root] = 0 /\ status[Root] = "NOT_STARTED"
      /\ \A n \in Nodes \ {Root} : status[n] = "FREE"
  BY NodeFacts DEF Init
<1>2. \A n \in Containers : children[n] = <<>>
  BY <1>1
<1>3. Elements(<<>>) = {} /\ Len(<<>>) = 0
  BY DEF Elements
<1>4. children[Root] = <<>> /\ timeout[Root] = INFINITE_TIMEOUT
  BY <1>2, NodeFacts, TreeAssumption DEF Init
<1>5. ChildrenFit
  BY <1>1, <1>2, <1>3, <1>4, NodeFacts DEF ChildrenFit
<1>6. call.op = "idle" /\ call.node = Root
  BY <1>1, CallFacts
<1>7. ControlFits /\ ContFits
  BY <1>6 DEF ControlFits, ContFits
<1>8. RootFits
  BY <1>1, <1>3, <1>4, <1>6, CallFacts DEF RootFits, Walking
<1>9. GoesOn
  BY <1>1, <1>4, <1>6 DEF GoesOn, Init
<1>10. QED
  BY <1>5, <1>7, <1>8, <1>9 DEF EngineInv

\* An event that calls no action but the root.
LEMMA EventStartsEngineInv ==
    ASSUME TypeOK, EngineInv, Idle, UNCHANGED tree, call' = Call("execute", Root)
    PROVE  EngineInv'
<1>1. UNCHANGED <<status, index, children, timeout>>
  BY DEF tree
<1>2. call'.op = "execute" /\ call'.node = Root /\ call.op = "idle"
  BY CallFacts DEF Idle
<1>3. ChildrenFit'
  BY <1>1, ChildrenKept DEF EngineInv, ChildrenFit
<1>4. ControlFits' /\ ContFits' /\ GoesOn'
  BY <1>2 DEF ControlFits, ContFits, GoesOn
<1>5. RootFits'
  BY <1>1, <1>2, CallFacts, RootKept DEF EngineInv, Walking
<1>6. QED
  BY <1>3, <1>4, <1>5 DEF EngineInv

LEMMA LeafUpdateEngineInv ==
    ASSUME TypeOK, EngineInv, Idle, NEW l \in Leaves, Waiting(l), NEW r, NEW spent,
           LeafUpdate(l, r, spent)
    PROVE  EngineInv'
<1>1. /\ call'.op = "update" /\ call'.node = Parent[l] /\ cont' = Call("execute", Root)
      /\ cont'.op = "execute" /\ cont'.node = Root /\ call.op = "idle"
      /\ UNCHANGED <<index, children, timeout>>
  BY CallFacts DEF LeafUpdate, GotoUpdate, Idle
<1>2. /\ l \in Nodes \ {Root} /\ status[l] # "FREE"
      /\ status'[l] \in {"COMPLETED", "UNDO_COMPLETE"}
      /\ \A k \in Nodes : k # l => status'[k] = status[k]
  BY NodeFacts DEF LeafUpdate, Waiting, TypeOK
<1>3. Parent[l] # Root /\ l \notin Elements(children[Root])
  BY <1>2, BelowRoot, RootChild, NodeFacts DEF EngineInv
<1>4. ChildrenFit'
  <2>1. \A k \in Nodes : status'[k] = "FREE" <=> status[k] = "FREE"
    BY <1>2
  <2>2. \A k \in Leaves : status'[k] # "ERROR_STOPPED"
    BY <1>2, NodeFacts DEF EngineInv, ChildrenFit
  <2>3. QED
    BY <1>1, <2>1, <2>2, ChildrenKept DEF EngineInv
<1>5. ControlFits' /\ ContFits' /\ GoesOn'
  BY <1>1 DEF ControlFits, ContFits, GoesOn
<1>6. RootFits'
  <2>1. \A p \in Elements(children[Root]) : status'[p] = status[p]
    BY <1>2, <1>3, RootChild DEF EngineInv
  <2>2. status'[Root] = status[Root]
    BY <1>2, NodeFacts
  <2>3. ~Walking' /\ call' # Call("update", Root) /\ call' # Call("undo", Root)
        /\ call # Call("update", Root)
    BY <1>1, <1>3, CallFacts DEF Walking
  <2>4. QED
    BY <1>1, <2>1, <2>2, <2>3, RootKept DEF EngineInv
<1>7. QED
  BY <1>4, <1>5, <1>6 DEF EngineInv

LEMMA EventEngineInv == TypeOK /\ NoDangling /\ EngineInv /\ Event => EngineInv'
<1> SUFFICES ASSUME TypeOK, NoDangling, EngineInv, Event PROVE EngineInv'
  OBVIOUS
<1>1. ASSUME NEW q \in Requests, NEW r \in Failures \cup {E_OK}, NEW spent \in 0 .. MaxTime,
             Answer(q, r, spent)
      PROVE  EngineInv'
  <2>1. PICK l \in Leaves, phase \in {"do", "undo"} : q = <<l, phase>>
    BY DEF Requests
  <2>2. q \in handles /\ Idle
    BY <1>1 DEF Answer
  <2>3. Waiting(l)
    BY <2>1, <2>2 DEF NoDangling, HandlesMatchWaitingLeaves, Waiting
  <2>4. QED
    BY <1>1, <2>1, <2>2, <2>3, LeafUpdateEngineInv DEF Answer
<1>2. ASSUME NEW l \in Leaves, Timeout(l) PROVE EngineInv'
  <2>1. Waiting(l)
    BY <1>2 DEF Timeout, NoDangling, HandlesMatchWaitingLeaves
  <2>2. QED
    BY <1>2, <2>1, LeafUpdateEngineInv DEF Timeout
<1>3. ASSUME UnknownAnswer \/ \E t \in Triggers : RaiseTrigger(t) PROVE EngineInv'
  <2>1. UNCHANGED tree /\ Idle /\ call' = Call("execute", Root)
    BY <1>3 DEF UnknownAnswer, RaiseTrigger, Goto
  <2>2. QED
    BY <2>1, EventStartsEngineInv
<1>4. QED
  BY <1>1, <1>2, <1>3 DEF Event

-----------------------------------------------------------------------------

LEMMA StartContainerEngineInv ==
    ASSUME TypeOK, EngineInv, NEW n \in Containers, NEW s \in Plans[n],
           NEW r \in Failures \cup {E_OK}, StartContainer(n, s, r)
    PROVE  EngineInv'
<1>1. /\ call = Call("execute", n) /\ call.op = "execute" /\ call.node = n
      /\ status[n] = "NOT_STARTED"
      /\ \A k \in Elements(s) : status[k] = "FREE"
      /\ children' = [children EXCEPT ![n] = @ \o s] /\ UNCHANGED <<index, timeout>>
      /\ n = Root => r = E_OK
  BY CallFacts DEF StartContainer, Running
<1>2. /\ n \in Nodes /\ n \notin Leaves /\ s \in Seq(Nodes \ {Root})
      /\ Elements(s) \subseteq Nodes \ {Root} /\ \A k \in Elements(s) : Parent[k] = n
      /\ Root \in Nodes /\ Root \in Containers /\ Root \notin Leaves
  BY NodeFacts, PlanFacts
<1>3. /\ status'[n] = "EXECUTING"
      /\ \A k \in Nodes : /\ k \in Elements(s) => k # n /\ status'[k] = "NOT_STARTED"
                          /\ k # n /\ k \notin Elements(s) => status'[k] = status[k]
  BY <1>1, <1>2 DEF StartContainer
<1>4. /\ r = E_OK => call'.op = "loop" /\ call'.node = n
      /\ r # E_OK => /\ call'.op = "update" /\ call'.node = n /\ result' = r /\ r > 0
                     /\ cont'.op = "executed" /\ cont'.node = n
      /\ call'.op \in {"loop", "update"} /\ call'.node = n
  <2>1. r # E_OK => r > 0
    BY ErrorAssumption
  <2>2. QED
    BY <2>1, CallFacts DEF StartContainer, Goto, GotoUpdate
<1>5. children'[Root] = children[Root]
  <2>1. CASE n = Root
    <3>1. s = <<>>
      BY <2>1, TreeAssumption
    <3>2. children[Root] \in Seq(Nodes \ {Root})
      BY <1>2 DEF TypeOK
    <3>3. children[Root] \o <<>> = children[Root]
      BY <3>2, ConcatEmptySeq
    <3>4. children'[Root] = children[Root] \o s
      BY <1>1, <1>2, <2>1 DEF TypeOK
    <3>5. QED
      BY <3>1, <3>3, <3>4
  <2>2. CASE n # Root
    BY <1>1, <1>2, <2>2 DEF TypeOK
  <2>3. QED
    BY <2>1, <2>2
<1>6. ASSUME NEW k \in Elements(s) PROVE n # Root /\ Parent[k] # Root
  <2>1. n = Root => s = <<>>
    BY TreeAssumption
  <2>2. Elements(<<>>) = {}
    BY DEF Elements
  <2>3. QED
    BY <1>2, <2>1, <2>2
<1>7. ChildrenFit'
  <2>1. ASSUME NEW m \in Containers, NEW k \in Elements(children'[m]) PROVE Parent[k] = m
    <3>1. CASE m = n
      <4>1. children[n] \in Seq(Nodes \ {Root})
        BY DEF TypeOK
      <4>2. children'[n] = children[n] \o s
        BY <1>1 DEF TypeOK
      <4>3. k \in Elements(children[n]) \cup Elements(s)
        BY <1>2, <2>1, <3>1, <4>1, <4>2, ElementsFacts
      <4>4. QED
        BY <1>2, <3>1, <4>3 DEF EngineInv, ChildrenFit
    <3>2. CASE m # n
      BY <1>1, <2>1, <3>2 DEF TypeOK, EngineInv, ChildrenFit
    <3>3. QED
      BY <3>1, <3>2
  <2>2. \A k \in Elements(children'[Root]) : k \in Nodes /\ k \in Containers /\ status[k] # "FREE"
    BY <1>5, NodeFacts DEF EngineInv, ChildrenFit
  <2>3. \A k \in Elements(children'[Root]) : status'[k] # "FREE"
    BY <1>1, <1>3, <2>2
  <2>4. ASSUME NEW k \in Nodes \ {Root}, Parent[k] = Root, status'[k] # "FREE"
        PROVE  k \in Elements(children'[Root])
    <3>1. k \notin Elements(s)
      BY <1>6, <2>4
    <3>2. status[k] # "FREE"
      BY <1>1, <1>3, <2>4, <3>1
    <3>3. QED
      BY <1>5, <2>4, <3>2 DEF EngineInv, ChildrenFit
  <2>5. status'[Root] # "FREE"
    BY <1>2, <1>3 DEF EngineInv, ChildrenFit
  <2>6. \A l \in Leaves : status'[l] # "ERROR_STOPPED"
    BY <1>2, <1>3, NodeFacts DEF EngineInv, ChildrenFit
  <2>7. Len(children'[Root]) <= 1 /\ timeout'[Root] = INFINITE_TIMEOUT
    BY <1>1, <1>5 DEF EngineInv, ChildrenFit
  <2>8. QED
    BY <2>1, <2>2, <2>3, <2>4, <2>5, <2>6, <2>7 DEF ChildrenFit
<1>8. ControlFits' /\ ContFits' /\ GoesOn'
  BY <1>3, <1>4 DEF ControlFits, ContFits, GoesOn
<1>9. RootFits'
  <2>1. /\ call # Call("update", Root) /\ call' # Call("undo", Root)
        /\ call' = Call("update", Root) => n = Root
    BY <1>1, <1>4, CallFacts
  <2>2. CASE n = Root
    <3>1. /\ call'.op = "loop" /\ index'[Root] = 0 /\ index[Root] = 0 /\ status'[Root] = "EXECUTING"
      BY <1>1, <1>3, <1>4, <2>2 DEF EngineInv, RootFits
    <3>2. ASSUME NEW p \in Elements(children'[Root]) PROVE RootAgrees(p)'
      <4>1. p \in Elements(children[Root]) /\ RootAgrees(p) /\ status[p] = "NOT_STARTED"
        BY <1>1, <1>5, <2>2, <3>2 DEF EngineInv, RootFits, RootAgrees
      <4>2. p \in Nodes /\ p # n /\ p \notin Elements(s)
        BY <1>1, <2>2, <4>1, RootChild DEF EngineInv
      <4>3. status'[p] = "NOT_STARTED"
        BY <1>3, <4>1, <4>2
      <4>4. call' # Call("update", Root)
        BY <3>1, CallFacts
      <4>5. QED
        BY <3>1, <4>3, <4>4 DEF RootAgrees
    <3>3. QED
      BY <2>1, <3>1, <3>2 DEF RootFits
  <2>3. CASE n # Root
    <3>1. /\ status'[Root] = status[Root] /\ index'[Root] = index[Root]
          /\ status[Root] # "NOT_STARTED"
      BY <1>1, <1>2, <1>3, <2>3 DEF EngineInv, RootFits, Walking
    <3>2. call' # Call("update", Root)
      BY <2>1, <2>3
    <3>3. ASSUME NEW p \in Elements(children'[Root]) PROVE RootAgrees(p)'
      <4>1. /\ p \in Elements(children[Root]) /\ RootAgrees(p)
            /\ p \in Nodes /\ Parent[p] = Root /\ p \notin Elements(s)
        BY <1>1, <1>5, <3>3, RootChild DEF EngineInv, RootFits
      <4>2. CASE p = n
        <5>1. status[Root] = "EXECUTING" /\ index[Root] = 0
          BY <1>1, <2>3, <4>1, <4>2 DEF EngineInv, ControlFits, RootFits
        <5>2. QED
          BY <1>3, <3>1, <3>2, <4>2, <5>1 DEF RootAgrees
      <4>3. CASE p # n
        <5>1. status'[p] = status[p]
          BY <1>3, <4>1, <4>3
        <5>2. QED
          BY <2>1, <3>1, <3>2, <4>1, <5>1 DEF RootAgrees
      <4>4. QED
        BY <4>2, <4>3
    <3>4. QED
      BY <2>1, <3>1, <3>3 DEF EngineInv, RootFits
  <2>4. QED
    BY <2>2, <2>3
<1>10. QED
  BY <1>7, <1>8, <1>9 DEF EngineInv

LEMMA ResumeContainerEngineInv ==
    ASSUME TypeOK, EngineInv, NEW n \in Containers, ResumeContainer(n)
    PROVE  EngineInv'
<1>1. /\ call = Call("execute", n) /\ call.op = "execute" /\ call.node = n
      /\ status[n] # "NOT_STARTED" /\ UNCHANGED <<status, index, children, timeout>>
  BY CallFacts DEF ResumeContainer, Running, tree
<1>2. /\ status[n] = "EXECUTING" => call'.op = "loop"
      /\ status[n] # "EXECUTING" => call'.op = "executed"
      /\ call'.op \in {"loop", "executed"} /\ call'.node = n
  BY CallFacts DEF ResumeContainer, Goto
<1>3. ChildrenFit'
  BY <1>1, ChildrenKept DEF EngineInv, ChildrenFit
<1>4. ControlFits' /\ ContFits' /\ GoesOn'
  BY <1>1, <1>2 DEF ControlFits, ContFits, GoesOn
<1>5. RootFits'
  <2>1. Walking \/ status[Root] # "NOT_STARTED"
    BY <1>1 DEF Walking
  <2>2. QED
    BY <1>1, <1>2, <2>1, CallFacts, RootKept DEF EngineInv
<1>6. QED
  BY <1>3, <1>4, <1>5 DEF EngineInv

LEMMA CurrentChild ==
    ASSUME TypeOK, ChildrenFit, NEW n \in Containers, HasChild(n)
    PROVE  Child(n) \in Nodes \ {Root} /\ Parent[Child(n)] = n /\ Child(n) \in Elements(children[n])
<1>1. Child(n) \in Nodes \ {Root}
  BY ChildIsNode
<1>2. children[n] \in Seq(Nodes \ {Root}) /\ index[n] \in Int
  BY DEF TypeOK
<1>3. index[n] + 1 \in 1 .. Len(children[n])
  BY <1>2, LenProperties DEF HasChild, Size
<1>4. Child(n) \in Elements(children[n])
  BY <1>2, <1>3, ElementsFacts DEF Child
<1>5. QED
  BY <1>1, <1>4 DEF ChildrenFit

LEMMA LoopChildrenEngineInv ==
    ASSUME TypeOK, EngineInv, NEW n \in Containers, LoopChildren(n)
    PROVE  EngineInv'
<1>1. /\ call = Call("loop", n) /\ call.op = "loop" /\ call.node = n
      /\ UNCHANGED <<status, index, children>>
  BY CallFacts DEF LoopChildren, Running
<1>2. status[n] = "EXECUTING"
  BY <1>1 DEF EngineInv, ControlFits
<1>3. ASSUME HasChild(n) PROVE Child(n) \in Nodes \ {Root} /\ Parent[Child(n)] = n
  BY <1>3, CurrentChild DEF EngineInv
<1>4. \/ /\ index[n] >= Size(n)
         /\ call'.op = "update" /\ call'.node = n
         /\ cont'.op = "executed" /\ cont'.node = n
      \/ /\ HasChild(n) /\ timeout[n] # INFINITE_TIMEOUT
         /\ call'.op = "update" /\ call'.node = n /\ result' = E_ABORTED
         /\ cont'.op = "executed" /\ cont'.node = n
      \/ HasChild(n) /\ call'.op = "execute" /\ call'.node = Child(n)
  BY CallFacts DEF LoopChildren, Expired, Goto, GotoUpdate
<1>5. timeout'[Root] = timeout[Root]
  BY <1>3, NodeFacts DEF LoopChildren, TypeOK
<1>6. ChildrenFit'
  BY <1>1, <1>5, ChildrenKept DEF EngineInv, ChildrenFit
<1>7. ControlFits' /\ GoesOn'
  BY <1>1, <1>2, <1>3, <1>4 DEF ControlFits, GoesOn
<1>8. ContFits'
  <2>1. CASE index[n] >= Size(n) /\ call'.op = "update" /\ call'.node = n
             /\ cont'.op = "executed" /\ cont'.node = n
    <3>1. index[n] \in Int /\ Size(n) \in Nat
      BY LenProperties DEF TypeOK, Size
    <3>2. index'[n] + 1 >= Size(n)'
      BY <1>1, <2>1, <3>1 DEF Size
    <3>3. QED
      BY <2>1, <3>2 DEF ContFits
  <2>2. CASE call'.op = "update" /\ call'.node = n /\ result' = E_ABORTED
             /\ cont'.op = "executed" /\ cont'.node = n
    <3>1. result' > 0
      <4>1. E_ABORTED \in Nat \ {0}
        BY ErrorAssumption
      <4>2. E_ABORTED > 0
        BY <4>1
      <4>3. QED
        BY <2>2, <4>2
    <3>2. QED
      BY <2>2, <3>1 DEF ContFits
  <2>3. CASE call'.op = "execute"
    BY <2>3 DEF ContFits
  <2>4. QED
    BY <1>4, <2>1, <2>2, <2>3
<1>9. RootFits'
  <2>1. status[Root] # "NOT_STARTED" /\ Walking
    BY <1>1 DEF EngineInv, RootFits, Walking
  <2>2. CASE n = Root /\ call' = Call("update", Root)
    <3>1. timeout[Root] = INFINITE_TIMEOUT /\ index[Root] = 0
      BY <1>2, <2>2 DEF EngineInv, ChildrenFit, RootFits
    <3>2. index[Root] >= Size(Root)
      BY <1>4, <2>2, <3>1, CallFacts
    <3>3. Elements(children[Root]) = {}
      <4>1. ASSUME NEW p \in Elements(children[Root]) PROVE FALSE
        BY <3>1, <3>2, RootChild DEF EngineInv
      <4>2. QED
        BY <4>1
    <3>4. Elements(children'[Root]) = {}
      BY <1>1, <3>3 DEF Elements
    <3>5. QED
      BY <1>1, <2>1, <2>2, <3>1, <3>4, CallFacts DEF RootFits
  <2>3. CASE ~(n = Root /\ call' = Call("update", Root))
    <3>1. call # Call("update", Root) /\ call' # Call("undo", Root)
      BY <1>1, <1>4, CallFacts
    <3>2. call' # Call("update", Root)
      BY <1>4, <2>3, CallFacts
    <3>3. QED
      BY <1>1, <2>1, <3>1, <3>2, RootKept DEF EngineInv
  <2>4. QED
    BY <2>2, <2>3
<1>10. QED
  BY <1>6, <1>7, <1>8, <1>9 DEF EngineInv

\* What an update() leaves for the one that has started the notifications.
LEMMA UpdateContFits ==
    ASSUME TypeOK, EngineInv, NEW n \in Containers, Update(n)
    PROVE  /\ cont.op \in {"execute", "executed", "undone"}
           /\ cont.op = "execute" => cont.node = Root
           /\ cont.op = "executed" => status'[cont.node] # "EXECUTING"
           /\ cont.op = "undone" => /\ status'[cont.node] = "UNDO_COMPLETE"
                                    /\ OnUndoPath(cont.node)
           /\ \A a \in Containers : status[a] \in Undoing => status'[a] \in Undoing
<1>1. /\ call = Call("update", n) /\ call.op = "update" /\ call.node = n /\ n \in Nodes
      /\ cont.node \in Nodes
  BY CallFacts, NodeFacts DEF Update, Running, TypeOK, Calls
<1>2. \A k \in Nodes : k # n => status'[k] = status[k]
  BY <1>1 DEF Update, TypeOK
<1>3. /\ status[n] = "EXECUTING" /\ result > 0 => status'[n] = "ERROR_STOPPED"
      /\ status[n] = "EXECUTING" /\ result <= 0 /\ index[n] + 1 >= Size(n) => status'[n] = "COMPLETED"
      /\ status[n] = "UNDOING" /\ index[n] < 0 => status'[n] = "UNDO_COMPLETE"
      /\ status[n] # "EXECUTING" /\ ~(status[n] = "UNDOING" /\ index[n] < 0) => status'[n] = status[n]
  <2>1. result \in Int
    BY ErrorAssumption DEF TypeOK, E_OK
  <2>2. ~(result > 0 /\ result <= 0)
    BY <2>1
  <2>3. QED
    BY <1>1, <2>2 DEF Update, TypeOK
<1>4. /\ cont.op \in {"execute", "executed", "undone"}
      /\ cont.op = "execute" => cont.node = Root
      /\ cont.op = "executed" /\ status[cont.node] = "EXECUTING" =>
            n = cont.node /\ (result > 0 \/ index[n] + 1 >= Size(n))
      /\ cont.op = "undone" => /\ status[cont.node] \in Undoing /\ OnUndoPath(cont.node)
                               /\ status[cont.node] = "UNDOING" => n = cont.node /\ index[n] < 0
  BY <1>1 DEF EngineInv, ContFits
<1>5. ASSUME cont.op = "executed" PROVE status'[cont.node] # "EXECUTING"
  <2>1. CASE status[cont.node] = "EXECUTING"
    <3>1. n = cont.node /\ (result > 0 \/ index[n] + 1 >= Size(n))
      BY <1>4, <1>5, <2>1
    <3>2. result > 0 \/ result <= 0
      BY ErrorAssumption DEF TypeOK, E_OK
    <3>3. QED
      BY <1>3, <2>1, <3>1, <3>2
  <2>2. CASE status[cont.node] # "EXECUTING"
    BY <1>1, <1>2, <1>3, <2>2
  <2>3. QED
    BY <2>1, <2>2
<1>6. ASSUME cont.op = "undone" PROVE status'[cont.node] = "UNDO_COMPLETE"
  BY <1>1, <1>2, <1>3, <1>4, <1>6 DEF Undoing
<1>7. \A a \in Containers : status[a] \in Undoing => status'[a] \in Undoing
  BY <1>2, <1>3, NodeFacts DEF Undoing
<1>8. QED
  BY <1>4, <1>5, <1>6, <1>7

\* The ways an update() of n can go.
LEMMA UpdateFacts ==
    ASSUME TypeOK, NEW n \in Containers, Update(n)
    PROVE  /\ call = Call("update", n) /\ call.op = "update" /\ call.node = n
           /\ UNCHANGED <<children, timeout>>
           /\ \A k \in Nodes : k # n => status'[k] = status[k]
           /\ \A k \in Containers : k # n => index'[k] = index[k]
           /\ \/ /\ status[n] = "EXECUTING" /\ result > 0 /\ status'[n] = "ERROR_STOPPED"
                 /\ index'[n] = index[n] /\ Notify(n, result)
              \/ /\ status[n] = "EXECUTING" /\ result <= 0 /\ status'[n] = "COMPLETED"
                 /\ index'[n] = index[n] + 1 /\ Notify(n, result)
              \/ /\ status[n] = "EXECUTING" /\ status'[n] = "EXECUTING"
                 /\ index[n] + 1 < Size(n) /\ Absorb
              \/ /\ status[n] = "UNDOING" /\ index[n] < 0 /\ status'[n] = "UNDO_COMPLETE"
                 /\ index'[n] = index[n] /\ Notify(n, result)
              \/ /\ status[n] # "EXECUTING" /\ status'[n] = status[n]
                 /\ index'[n] = index[n] /\ Absorb
<1>1. n \in Nodes /\ n \in DOMAIN status /\ n \in DOMAIN index /\ index[n] \in Int /\ Size(n) \in Nat
  BY NodeFacts, LenProperties DEF TypeOK, Size
<1>2. CASE status[n] = "EXECUTING" /\ result > 0 /\ status' = [status EXCEPT ![n] = "ERROR_STOPPED"]
           /\ Notify(n, result) /\ index' = index
  BY <1>1, <1>2, CallFacts DEF Update, Running, TypeOK
<1>3. CASE /\ status[n] = "EXECUTING" /\ result <= 0
           /\ index' = [index EXCEPT ![n] = @ + 1]
           /\ IF index[n] + 1 >= Size(n)
              THEN status' = [status EXCEPT ![n] = "COMPLETED"] /\ Notify(n, result)
              ELSE Absorb /\ UNCHANGED status
  <2>1. CASE index[n] + 1 >= Size(n)
    BY <1>1, <1>3, <2>1, CallFacts DEF Update, Running, TypeOK
  <2>2. CASE ~(index[n] + 1 >= Size(n))
    <3>1. index[n] + 1 < Size(n)
      BY <1>1, <2>2
    <3>2. QED
      BY <1>1, <1>3, <2>2, <3>1, CallFacts DEF Update, Running, TypeOK
  <2>3. QED
    BY <2>1, <2>2
<1>4. CASE status[n] = "UNDOING" /\ index[n] < 0 /\ status' = [status EXCEPT ![n] = "UNDO_COMPLETE"]
           /\ Notify(n, result) /\ index' = index
  BY <1>1, <1>4, CallFacts DEF Update, Running, TypeOK
<1>5. CASE status[n] # "EXECUTING" /\ Absorb /\ status' = status /\ index' = index
  BY <1>1, <1>5, CallFacts DEF Update, Running, TypeOK
<1>6. QED
  BY <1>2, <1>3, <1>4, <1>5 DEF Update

LEMMA UpdateEngineInv ==
    ASSUME TypeOK, EngineInv, NEW n \in Containers, Update(n)
    PROVE  EngineInv'
<1>1. /\ call = Call("update", n) /\ call.op = "update" /\ call.node = n
      /\ n \in Nodes /\ n \notin Leaves /\ Root \in Nodes /\ Root \in Containers /\ Root \notin Leaves
      /\ UNCHANGED <<children, timeout>>
      /\ \A k \in Nodes : k # n => status'[k] = status[k]
      /\ \A k \in Containers : k # n => index'[k] = index[k]
  BY UpdateFacts, NodeFacts
<1>2. /\ cont.op \in {"execute", "executed", "undone"}
      /\ cont.op = "execute" => cont.node = Root
      /\ cont.op = "executed" => status'[cont.node] # "EXECUTING"
      /\ cont.op = "undone" => status'[cont.node] = "UNDO_COMPLETE" /\ OnUndoPath(cont.node)
      /\ \A a \in Containers : status[a] \in Undoing => status'[a] \in Undoing
  BY UpdateContFits
<1>3. status'[n] = "FREE" <=> status[n] = "FREE"
  BY UpdateFacts
<1>4. ChildrenFit'
  <2>1. \A k \in Nodes : status'[k] = "FREE" <=> status[k] = "FREE"
    BY <1>1, <1>3
  <2>2. \A l \in Leaves : status'[l] # "ERROR_STOPPED"
    BY <1>1, NodeFacts DEF EngineInv, ChildrenFit
  <2>3. QED
    BY <1>1, <2>1, <2>2, ChildrenKept DEF EngineInv
<1>5. \/ call' = cont /\ call'.op # "update"
      \/ /\ n # Root /\ status[n] \in {"EXECUTING", "UNDOING"}
         /\ call' = Call("update", Parent[n]) /\ call'.op = "update" /\ call'.node = Parent[n]
         /\ result' = result /\ cont' = cont
  BY <1>2, UpdateFacts, CallFacts DEF Notify, Absorb, GotoUpdate
<1>6. PICK m : m = cont.node
  OBVIOUS
<1>7. cont.op = "undone" => OnUndoPath(m)'
  BY <1>2, <1>6, PathKept
<1>8. ControlFits' /\ ContFits' /\ GoesOn'
  <2>1. CASE call' = cont /\ call'.op # "update"
    <3>1. /\ call'.op \in {"execute", "executed", "undone"} /\ call'.node = m
          /\ call'.op = "execute" => call'.node = Root
          /\ call'.op = "executed" => status'[call'.node] # "EXECUTING"
          /\ call'.op = "undone" => status'[call'.node] = "UNDO_COMPLETE" /\ OnUndoPath(m)'
      BY <1>2, <1>6, <1>7, <2>1
    <3>2. call'.op = "undone" => OnUndoPath(call.node)'
      BY <3>1
    <3>3. QED
      BY <3>1, <3>2 DEF ControlFits, ContFits, GoesOn, Undoing
  <2>2. CASE call'.op = "update" /\ cont' = cont
    <3>1. cont.op = "undone" => OnUndoPath(cont.node)'
      BY <1>6, <1>7, <2>2
    <3>2. QED
      BY <1>2, <2>2, <3>1 DEF ControlFits, ContFits, GoesOn, Undoing
  <2>3. QED
    BY <1>5, <2>1, <2>2
<1>9. Walking' => Walking
  BY <1>1, <1>2, <1>5 DEF Walking
<1>10. call' # Call("undo", Root)
  BY <1>2, <1>5, CallFacts
<1>11. RootFits'
  <2>1. CASE n = Root
    <3>1. call' # Call("update", Root)
      BY <1>5, <2>1, CallFacts
    <3>2. \/ /\ status[n] = "EXECUTING" /\ result > 0 /\ status'[n] = "ERROR_STOPPED"
             /\ index'[n] = index[n]
          \/ /\ status[n] = "EXECUTING" /\ result <= 0 /\ status'[n] = "COMPLETED"
             /\ index'[n] = index[n] + 1
          \/ /\ status[n] = "UNDOING" /\ index[n] < 0 /\ status'[n] = "UNDO_COMPLETE"
             /\ index'[n] = index[n]
          \/ /\ status[n] # "EXECUTING" /\ status'[n] = status[n]
             /\ index'[n] = index[n]
      <4>1. ~(status[n] = "EXECUTING" /\ index[n] + 1 < Size(n))
        <5>1. status[Root] = "EXECUTING" => index[Root] = 0
          BY DEF EngineInv, RootFits
        <5>2. Size(Root) \in Nat /\ Size(Root) <= 1
          BY <1>1, LenProperties DEF EngineInv, ChildrenFit, TypeOK, Size
        <5>3. ~(0 + 1 < Size(Root))
          BY <5>2
        <5>4. QED
          BY <2>1, <5>1, <5>3
      <4>2. QED
        BY <4>1, UpdateFacts
    <3>3. status'[Root] # "NOT_STARTED" \/ status[Root] = "NOT_STARTED"
      BY <2>1, <3>2
    <3>4. status'[Root] \in {"NOT_STARTED", "EXECUTING"} => index'[Root] = 0
      BY <2>1, <3>2 DEF EngineInv, RootFits
    <3>5. ASSUME NEW p \in Elements(children'[Root]) PROVE RootAgrees(p)'
      <4>1. /\ p \in Elements(children[Root]) /\ RootAgrees(p) /\ p \in Nodes \ {Root}
        BY <1>1, <3>5, RootChild DEF EngineInv, RootFits
      <4>2. status'[p] = status[p]
        BY <1>1, <2>1, <4>1
      <4>3. CASE status[n] = "EXECUTING" /\ result > 0 /\ status'[n] = "ERROR_STOPPED"
                 /\ index'[n] = index[n]
        BY <1>1, <2>1, <3>1, <4>1, <4>2, <4>3 DEF RootAgrees
      <4>4. CASE status[n] = "EXECUTING" /\ result <= 0 /\ status'[n] = "COMPLETED"
                 /\ index'[n] = index[n] + 1
        <5>1. index[Root] = 0 /\ ~(index'[Root] < 0)
          BY <2>1, <4>4 DEF EngineInv, RootFits
        <5>2. ~(result > 0)
          <6>1. result \in Int
            BY ErrorAssumption DEF TypeOK, E_OK
          <6>2. QED
            BY <4>4, <6>1
        <5>3. QED
          BY <1>1, <2>1, <3>1, <4>1, <4>2, <4>4, <5>1, <5>2 DEF RootAgrees
      <4>5. CASE status[n] = "UNDOING" /\ index[n] < 0 /\ status'[n] = "UNDO_COMPLETE"
                 /\ index'[n] = index[n]
        BY <1>1, <2>1, <3>1, <4>1, <4>2, <4>5 DEF RootAgrees
      <4>6. CASE status[n] # "EXECUTING" /\ status'[n] = status[n] /\ index'[n] = index[n]
        BY <1>1, <2>1, <3>1, <4>1, <4>2, <4>6 DEF RootAgrees
      <4>7. QED
        BY <3>2, <4>3, <4>4, <4>5, <4>6
    <3>6. QED
      BY <1>9, <1>10, <3>3, <3>4, <3>5 DEF EngineInv, RootFits
  <2>2. CASE n # Root /\ n \in Elements(children[Root])
    <3>1. /\ status'[Root] = status[Root] /\ index'[Root] = index[Root]
          /\ call # Call("update", Root) /\ Parent[n] = Root /\ RootAgrees(n)
          /\ Elements(children[Root]) = {n} /\ status[Root] \in States /\ status[Root] # "FREE"
      BY <1>1, <2>2, RootChild, CallFacts DEF EngineInv, RootFits, ChildrenFit, TypeOK
    <3>2. /\ status[n] = "EXECUTING" => status[Root] = "EXECUTING" /\ index[Root] = 0
          /\ status[n] = "UNDOING" => status[Root] = "UNDOING"
      BY <3>1 DEF RootAgrees, States, EngineInv, RootFits
    <3>3. result \in Int
      BY ErrorAssumption DEF TypeOK, E_OK
    <3>4. RootAgrees(n)'
      <4>1. CASE status[n] = "EXECUTING" /\ result > 0 /\ status'[n] = "ERROR_STOPPED"
                 /\ Notify(n, result)
        <5>1. result' > 0 /\ call' = Call("update", Root)
          BY <2>2, <3>1, <4>1 DEF Notify, GotoUpdate
        <5>2. QED
          BY <3>1, <3>2, <4>1, <5>1 DEF RootAgrees
      <4>2. CASE status[n] = "EXECUTING" /\ result <= 0 /\ status'[n] = "COMPLETED"
                 /\ Notify(n, result)
        <5>1. ~(result' > 0) /\ call' = Call("update", Root)
          BY <2>2, <3>1, <3>3, <4>2 DEF Notify, GotoUpdate
        <5>2. QED
          BY <3>1, <3>2, <4>2, <5>1 DEF RootAgrees
      <4>3. CASE status[n] = "UNDOING" /\ status'[n] = "UNDO_COMPLETE"
        BY <3>1, <3>2, <4>3 DEF RootAgrees
      <4>4. CASE status'[n] = status[n] /\ Absorb
        <5>1. call' # Call("update", Root)
          BY <1>2, <4>4, CallFacts DEF Absorb
        <5>2. QED
          BY <3>1, <4>4, <5>1 DEF RootAgrees
      <4>5. QED
        BY <4>1, <4>2, <4>3, <4>4, UpdateFacts
    <3>5. QED
      BY <1>1, <1>9, <1>10, <3>1, <3>4 DEF EngineInv, RootFits
  <2>3. CASE n # Root /\ n \notin Elements(children[Root])
    <3>1. call # Call("update", Root)
      BY <1>1, <2>3, CallFacts
    <3>2. call' # Call("update", Root)
      <4>1. CASE call'.op # "update"
        BY <4>1, CallFacts
      <4>2. CASE status[n] \in {"EXECUTING", "UNDOING"} /\ call'.node = Parent[n]
        <5>1. Parent[n] # Root
          BY <1>1, <2>3, <4>2, BelowRoot DEF EngineInv
        <5>2. QED
          BY <4>2, <5>1, CallFacts
      <4>3. QED
        BY <1>5, <4>1, <4>2
    <3>3. \A p \in Elements(children[Root]) : status'[p] = status[p]
      BY <1>1, <2>3, RootChild DEF EngineInv
    <3>4. QED
      BY <1>1, <1>9, <1>10, <2>3, <3>1, <3>2, <3>3, RootKept DEF EngineInv
  <2>4. QED
    BY <2>1, <2>2, <2>3
<1>12. QED
  <2>1. EngineInv' <=> ChildrenFit' /\ ControlFits' /\ ContFits' /\ RootFits' /\ (LeafWaits \/ GoesOn)'
    BY DEF EngineInv
  <2>2. QED
    BY <1>4, <1>8, <1>11, <2>1

LEMMA UndoContainerEngineInv ==
    ASSUME TypeOK, EngineInv, NEW n \in Containers, UndoContainer(n)
    PROVE  EngineInv'
<1>1. /\ call = Call("undo", n) /\ call.op = "undo" /\ call.node = n
      /\ n \in Nodes /\ n \notin Leaves /\ Root \in Nodes /\ Root \in Containers /\ Root \notin Leaves
      /\ UNCHANGED <<children, timeout>>
  BY CallFacts, NodeFacts DEF UndoContainer, Running
<1>2. NeedsUndo(n) /\ OnUndoPath(n)
  BY <1>1 DEF EngineInv, ControlFits
<1>3. /\ \A k \in Nodes : k # n => status'[k] = status[k]
      /\ \A k \in Containers : k # n => index'[k] = index[k]
      /\ \/ /\ status'[n] = "UNDOING" /\ index'[n] = Clip(n)
            /\ call'.op = "undoLoop" /\ call'.node = n
         \/ /\ status'[n] = "UNDO_COMPLETE" /\ index'[n] = index[n] /\ ~(Size(n) > 0)
            /\ call'.op = "undone" /\ call'.node = n
  <2>1. \/ /\ status' = [status EXCEPT ![n] = "UNDOING"]
           /\ index' = [index EXCEPT ![n] = Clip(n)] /\ Goto("undoLoop", n)
        \/ /\ ~(Size(n) > 0)
           /\ status' = [status EXCEPT ![n] = "UNDO_COMPLETE"]
           /\ index' = index /\ Goto("undone", n)
    <3>1. CASE Undoable(n) /\ Size(n) > 0
      BY <3>1 DEF UndoContainer
    <3>2. CASE Undoable(n) /\ ~(Size(n) > 0)
      BY <3>2 DEF UndoContainer
    <3>3. CASE ~Undoable(n)
      <4>1. status[n] = "UNDOING"
        BY <1>2, <3>3 DEF NeedsUndo
      <4>2. QED
        BY <3>3, <4>1 DEF UndoContainer
    <3>4. QED
      BY <3>1, <3>2, <3>3
  <2>2. n \in DOMAIN status /\ n \in DOMAIN index /\ DOMAIN status = Nodes /\ DOMAIN index = Containers
    BY <1>1 DEF TypeOK
  <2>3. CASE status' = [status EXCEPT ![n] = "UNDOING"]
             /\ index' = [index EXCEPT ![n] = Clip(n)] /\ Goto("undoLoop", n)
    BY <2>2, <2>3, CallFacts DEF Goto
  <2>4. CASE ~(Size(n) > 0) /\ status' = [status EXCEPT ![n] = "UNDO_COMPLETE"]
             /\ index' = index /\ Goto("undone", n)
    BY <2>2, <2>4, CallFacts DEF Goto
  <2>5. QED
    BY <2>1, <2>3, <2>4
<1>4. status'[n] \in Undoing /\ call'.op \in {"undoLoop", "undone"} /\ call'.node = n
  BY <1>3 DEF Undoing
<1>5. status[n] # "FREE" /\ status[n] # "UNDO_COMPLETE"
  BY <1>2 DEF NeedsUndo, Undoable
<1>6. ChildrenFit'
  <2>1. \A k \in Nodes : status'[k] = "FREE" <=> status[k] = "FREE"
    BY <1>3, <1>4, <1>5 DEF Undoing
  <2>2. \A l \in Leaves : status'[l] # "ERROR_STOPPED"
    BY <1>1, <1>3, NodeFacts DEF EngineInv, ChildrenFit
  <2>3. QED
    BY <1>1, <2>1, <2>2, ChildrenKept DEF EngineInv
<1>7. OnUndoPath(n)'
  <2>1. \A a \in Containers : status[a] \in Undoing => status'[a] \in Undoing
    BY <1>3, <1>4, NodeFacts
  <2>2. QED
    BY <1>2, <2>1, PathKept
<1>8. ControlFits' /\ ContFits' /\ GoesOn'
  <2>1. OnUndoPath(call.node)'
    BY <1>4, <1>7
  <2>2. call'.op = "undone" => status'[n] # "UNDOING"
    BY <1>3
  <2>3. QED
    BY <1>4, <2>1, <2>2 DEF ControlFits, ContFits, GoesOn
<1>9. call # Call("update", Root) /\ call' # Call("update", Root) /\ call' # Call("undo", Root)
      /\ Walking /\ status[Root] # "NOT_STARTED"
  BY <1>1, <1>4, CallFacts DEF Walking, EngineInv, RootFits
<1>10. RootFits'
  <2>1. CASE n = Root
    <3>1. status[Root] \in {"ERROR_STOPPED", "UNDOING"}
      BY <1>1, <2>1 DEF EngineInv, RootFits
    <3>2. ASSUME NEW p \in Elements(children'[Root]) PROVE RootAgrees(p)'
      <4>1. /\ p \in Elements(children[Root]) /\ RootAgrees(p) /\ p \in Nodes \ {Root} /\ Size(Root) = 1
        BY <1>1, <3>2, RootChild DEF EngineInv, RootFits
      <4>2. status'[p] = status[p] /\ status[p] \in {"ERROR_STOPPED", "UNDOING", "UNDO_COMPLETE"}
        BY <1>3, <2>1, <3>1, <4>1 DEF RootAgrees
      <4>3. status'[Root] = "UNDOING" /\ ~(index'[Root] < 0)
        <5>1. Clip(Root) \in {0} /\ Size(Root) > 0
          <6>1. index[Root] \in Int /\ 1 - 1 = 0 /\ 1 > 0
            BY <1>1 DEF TypeOK
          <6>2. index[Root] \in 0 .. 0 => index[Root] = 0
            BY <6>1
          <6>3. QED
            BY <4>1, <6>1, <6>2 DEF Clip, HasChild
        <5>2. QED
          BY <1>3, <2>1, <5>1
      <4>4. QED
        BY <4>2, <4>3 DEF RootAgrees
    <3>3. QED
      BY <1>4, <1>9, <2>1, <3>2 DEF RootFits, Undoing
  <2>2. CASE n # Root /\ n \in Elements(children[Root])
    <3>1. /\ status'[Root] = status[Root] /\ index'[Root] = index[Root]
          /\ Parent[n] = Root /\ RootAgrees(n) /\ Elements(children[Root]) = {n}
      BY <1>1, <1>3, <2>2, RootChild DEF EngineInv, RootFits
    <3>2. status[Root] \in Undoing
      BY <1>2, <2>2, <3>1, PathUp
    <3>3. status[Root] = "UNDOING" /\ ~(index[Root] < 0)
      BY <1>5, <3>1, <3>2 DEF RootAgrees, Undoing
    <3>4. RootAgrees(n)'
      BY <1>4, <3>1, <3>3 DEF RootAgrees, Undoing
    <3>5. QED
      BY <1>1, <1>9, <3>1, <3>3, <3>4 DEF EngineInv, RootFits
  <2>3. CASE n # Root /\ n \notin Elements(children[Root])
    <3>1. \A p \in Elements(children[Root]) : status'[p] = status[p]
      BY <1>3, <2>3, RootChild DEF EngineInv
    <3>2. QED
      BY <1>1, <1>3, <1>9, <2>3, <3>1, RootKept DEF EngineInv
  <2>4. QED
    BY <2>1, <2>2, <2>3
<1>11. QED
  <2>1. EngineInv' <=> ChildrenFit' /\ ControlFits' /\ ContFits' /\ RootFits' /\ (LeafWaits \/ GoesOn)'
    BY DEF EngineInv
  <2>2. QED
    BY <1>6, <1>8, <1>10, <2>1

LEMMA LoopUndoEngineInv ==
    ASSUME TypeOK, EngineInv, NEW n \in Containers, LoopUndo(n)
    PROVE  EngineInv'
<1>1. /\ call = Call("undoLoop", n) /\ call.op = "undoLoop" /\ call.node = n
      /\ n \in Nodes /\ Root \in Nodes /\ Root \in Containers
      /\ UNCHANGED <<status, error, children, timeout>>
      /\ \A k \in Containers : k # n => index'[k] = index[k]
  BY CallFacts, NodeFacts DEF LoopUndo, Running, TypeOK
<1>2. status[n] \in Undoing /\ OnUndoPath(n)
  BY <1>1 DEF EngineInv, ControlFits
<1>3. ChildrenFit'
  BY <1>1, ChildrenKept DEF EngineInv, ChildrenFit
<1>4. Walking /\ status[Root] # "NOT_STARTED" /\ call # Call("update", Root)
  BY <1>1, CallFacts DEF EngineInv, RootFits, Walking
<1>5. OnUndoPath(n)'
  BY <1>1, <1>2, PathKept
<1>6. CASE /\ index[n] < 0 /\ index' = index
           /\ GotoUpdate(n, error[n], Call("undone", n))
  <2>1. /\ call' = Call("update", n) /\ call'.op = "update" /\ call'.node = n
        /\ cont'.op = "undone" /\ cont'.node = n
    BY <1>6, CallFacts DEF GotoUpdate
  <2>2. ControlFits' /\ GoesOn'
    BY <2>1 DEF ControlFits, GoesOn
  <2>3. ContFits'
    <3>1. OnUndoPath(cont.node)'
      BY <1>5, <2>1
    <3>2. QED
      BY <1>1, <1>2, <1>6, <2>1, <3>1 DEF ContFits
  <2>4. RootFits'
    <3>1. CASE n = Root
      <4>1. ASSUME NEW p \in Elements(children'[Root]) PROVE RootAgrees(p)'
        <5>1. RootAgrees(p)
          BY <1>1, <4>1 DEF EngineInv, RootFits
        <5>2. QED
          BY <1>1, <1>2, <1>6, <3>1, <5>1 DEF RootAgrees, Undoing
      <4>2. QED
        BY <1>1, <1>2, <1>4, <2>1, <3>1, <4>1, CallFacts DEF RootFits, Undoing
    <3>2. CASE n # Root
      BY <1>1, <1>4, <1>6, <2>1, <3>2, CallFacts, RootKept DEF EngineInv
    <3>3. QED
      BY <3>1, <3>2
  <2>5. QED
    BY <1>3, <2>2, <2>3, <2>4 DEF EngineInv
<1>7. CASE /\ HasChild(n) /\ NeedsUndo(Child(n)) /\ index' = index
           /\ Goto("undo", Child(n))
  <2> DEFINE k == Child(n)
  <2>1. PICK m \in Nodes \ {Root} : m = k /\ Parent[m] = n
    BY <1>7, CurrentChild DEF EngineInv
  <2>2. call'.op = "undo" /\ call'.node = m /\ NeedsUndo(m)
    BY <1>7, <2>1, CallFacts DEF Goto
  <2>3. OnUndoPath(m)'
    BY <1>1, <1>2, <2>1, PathDown, PathKept
  <2>4. ControlFits' /\ ContFits' /\ GoesOn'
    <3>1. OnUndoPath(call.node)'
      BY <2>2, <2>3
    <3>2. NeedsUndo(call.node)'
      BY <1>1, <2>2 DEF NeedsUndo, Undoable
    <3>3. QED
      BY <2>2, <3>1, <3>2 DEF ControlFits, ContFits, GoesOn
  <2>5. RootFits'
    BY <1>1, <1>4, <1>7, <2>1, <2>2, CallFacts, RootKept DEF EngineInv
  <2>6. QED
    BY <1>3, <2>4, <2>5 DEF EngineInv
<1>8. CASE /\ HasChild(n) /\ ~NeedsUndo(Child(n))
           /\ index' = [index EXCEPT ![n] = @ - 1] /\ Goto("undoLoop", n)
  <2>1. call' = Call("undoLoop", n) /\ call'.op = "undoLoop" /\ call'.node = n
    BY <1>8, CallFacts DEF Goto
  <2>2. ControlFits' /\ ContFits' /\ GoesOn'
    <3>1. OnUndoPath(call.node)'
      BY <1>5, <2>1
    <3>2. QED
      BY <1>1, <1>2, <2>1, <3>1 DEF ControlFits, ContFits, GoesOn
  <2>3. RootFits'
    <3>1. CASE n = Root
      <4>1. ASSUME NEW p \in Elements(children'[Root]) PROVE RootAgrees(p)'
        <5>1. /\ p \in Elements(children[Root]) /\ RootAgrees(p) /\ Elements(children[Root]) = {p}
          BY <1>1, <4>1, RootChild DEF EngineInv, RootFits
        <5>2. ~NeedsUndo(p)
          BY <1>8, <3>1, <5>1, CurrentChild DEF EngineInv
        <5>3. status[p] = "UNDO_COMPLETE"
          BY <1>2, <3>1, <5>1, <5>2 DEF RootAgrees, NeedsUndo, Undoable, Undoing
        <5>4. QED
          BY <1>1, <1>2, <3>1, <5>1, <5>3 DEF RootAgrees, Undoing
      <4>2. QED
        BY <1>1, <1>2, <1>4, <2>1, <3>1, <4>1, CallFacts DEF RootFits, Undoing
    <3>2. CASE n # Root
      BY <1>1, <1>4, <2>1, <3>2, CallFacts, RootKept DEF EngineInv
    <3>3. QED
      BY <3>1, <3>2
  <2>4. QED
    BY <1>3, <2>2, <2>3 DEF EngineInv
<1>9. QED
  BY <1>6, <1>7, <1>8 DEF LoopUndo

\* A leaf that moves on is not below the root itself.
LEMMA LeafStepKeeps ==
    ASSUME TypeOK, EngineInv, NEW l \in Leaves, status[l] # "FREE",
           UNCHANGED <<index, children, timeout>>,
           \A k \in Nodes : k # l => status'[k] = status[k],
           status'[l] \in {"EXECUTING", "COMPLETED", "UNDOING", "UNDO_COMPLETE"},
           call # Call("update", Root), call' # Call("undo", Root), Walking,
           call' = Call("update", Parent[l]) \/ call'.op # "update"
    PROVE  ChildrenFit' /\ RootFits'
<1>1. /\ l \in Nodes \ {Root} /\ Root \in Nodes /\ Root # l
      /\ Parent[l] # Root /\ l \notin Elements(children[Root])
  <2>1. l \in Nodes \ {Root} /\ Root \in Nodes
    BY NodeFacts
  <2>2. Parent[l] # Root
    BY <2>1, BelowRoot DEF EngineInv
  <2>3. QED
    BY <2>1, <2>2, RootChild DEF EngineInv
<1>2. ChildrenFit'
  <2>1. \A k \in Nodes : status'[k] = "FREE" <=> status[k] = "FREE"
    BY <1>1
  <2>2. \A k \in Leaves : status'[k] # "ERROR_STOPPED"
    BY NodeFacts DEF EngineInv, ChildrenFit
  <2>3. QED
    BY <2>1, <2>2, ChildrenKept DEF EngineInv
<1>3. call' # Call("update", Root)
  BY <1>1, CallFacts
<1>4. \A p \in Elements(children[Root]) : status'[p] = status[p]
  BY <1>1, RootChild DEF EngineInv
<1>5. QED
  BY <1>1, <1>2, <1>3, <1>4, RootKept DEF EngineInv

LEMMA StartLeafEngineInv ==
    ASSUME TypeOK, EngineInv, NEW l \in Leaves, NEW r \in Results, NEW spent, StartLeaf(l, r, spent)
    PROVE  EngineInv'
<1>1. /\ call = Call("execute", l) /\ call.op = "execute" /\ call.node = l /\ l # Root
      /\ l \in Nodes /\ status[l] = "NOT_STARTED" /\ UNCHANGED <<index, children, timeout>>
  BY CallFacts, NodeFacts DEF StartLeaf, Running
<1>2. \/ /\ status' = [status EXCEPT ![l] = "COMPLETED"]
         /\ call' = Call("update", Parent[l]) /\ cont' = Call("executed", l)
      \/ /\ status' = [status EXCEPT ![l] = "EXECUTING"] /\ call' = Call("executed", l)
  BY DEF StartLeaf, Goto, GotoUpdate
<1>3. \A k \in Nodes : k # l => status'[k] = status[k]
  BY <1>2 DEF TypeOK
<1>4. \/ /\ status'[l] = "COMPLETED" /\ call' = Call("update", Parent[l]) /\ call'.op = "update"
         /\ cont'.op = "executed" /\ cont'.node = l
      \/ /\ status'[l] = "EXECUTING" /\ call'.op = "executed"
  BY <1>1, <1>2, CallFacts DEF TypeOK
<1>5. ChildrenFit' /\ RootFits'
  <2>1. /\ call # Call("update", Root) /\ call' # Call("undo", Root) /\ Walking
        /\ call' = Call("update", Parent[l]) \/ call'.op # "update"
        /\ status'[l] \in {"EXECUTING", "COMPLETED", "UNDOING", "UNDO_COMPLETE"}
    BY <1>1, <1>4, CallFacts DEF Walking
  <2>2. QED
    BY <1>1, <1>3, <2>1, LeafStepKeeps
<1>6. ControlFits' /\ ContFits' /\ (LeafWaits' \/ GoesOn')
  BY <1>4 DEF ControlFits, ContFits, GoesOn, LeafWaits, Waiting
<1>7. QED
  BY <1>5, <1>6 DEF EngineInv

LEMMA UndoLeafEngineInv ==
    ASSUME TypeOK, EngineInv, NEW l \in Leaves, NEW r \in Results, UndoLeaf(l, r)
    PROVE  EngineInv'
<1>1. /\ call = Call("undo", l) /\ call.op = "undo" /\ call.node = l
      /\ l \in Nodes /\ status[l] = "COMPLETED" /\ UNCHANGED <<index, children, timeout>>
  BY CallFacts, NodeFacts DEF UndoLeaf, Running
<1>2. \/ /\ status' = [status EXCEPT ![l] = "UNDO_COMPLETE"]
         /\ call' = Call("update", Parent[l]) /\ cont' = Call("undone", l)
      \/ /\ status' = [status EXCEPT ![l] = "UNDOING"] /\ call' = Call("undone", l)
  BY DEF UndoLeaf, Goto, GotoUpdate
<1>3. \A k \in Nodes : k # l => status'[k] = status[k]
  BY <1>2 DEF TypeOK
<1>4. \/ /\ status'[l] = "UNDO_COMPLETE" /\ call' = Call("update", Parent[l]) /\ call'.op = "update"
         /\ cont'.op = "undone" /\ cont'.node = l
      \/ /\ status'[l] = "UNDOING" /\ call'.op = "undone" /\ call'.node = l
  BY <1>1, <1>2, CallFacts DEF TypeOK
<1>5. ChildrenFit' /\ RootFits'
  <2>1. /\ call # Call("update", Root) /\ call' # Call("undo", Root) /\ Walking
        /\ call' = Call("update", Parent[l]) \/ call'.op # "update"
        /\ status'[l] \in {"EXECUTING", "COMPLETED", "UNDOING", "UNDO_COMPLETE"}
    BY <1>1, <1>4, CallFacts DEF Walking
  <2>2. QED
    BY <1>1, <1>3, <2>1, LeafStepKeeps
<1>6. OnUndoPath(l)'
  <2>1. OnUndoPath(l)
    BY <1>1 DEF EngineInv, ControlFits
  <2>2. \A a \in Containers : status'[a] = status[a]
    BY <1>3, NodeFacts
  <2>3. QED
    BY <2>1, <2>2, PathKept
<1>7. ControlFits' /\ ContFits' /\ (LeafWaits' \/ GoesOn')
  <2>1. CASE status'[l] = "UNDO_COMPLETE" /\ call'.op = "update"
             /\ cont'.op = "undone" /\ cont'.node = l
    <3>1. OnUndoPath(cont.node)'
      BY <1>6, <2>1
    <3>2. QED
      BY <2>1, <3>1 DEF ControlFits, ContFits, GoesOn, Undoing
  <2>2. CASE status'[l] = "UNDOING" /\ call'.op = "undone" /\ call'.node = l
    <3>1. OnUndoPath(call.node)'
      BY <1>6, <2>2
    <3>2. QED
      BY <2>2, <3>1 DEF ControlFits, ContFits, LeafWaits, Waiting, Undoing
  <2>3. QED
    BY <1>4, <2>1, <2>2
<1>8. QED
  BY <1>5, <1>7 DEF EngineInv

\* Steps that only move control.
LEMMA ControlEngineInv ==
    ASSUME TypeOK, EngineInv, UNCHANGED tree,
           call # Call("update", Root), call'.op # "update",
           call' = Call("undo", Root) => status[Root] \in {"ERROR_STOPPED", "UNDOING"},
           Walking' => Walking
    PROVE  ChildrenFit' /\ ContFits' /\ RootFits' /\ (LeafWaits => LeafWaits')
<1>1. UNCHANGED <<status, index, children, timeout>>
  BY DEF tree
<1>2. ChildrenFit'
  BY <1>1, ChildrenKept DEF EngineInv, ChildrenFit
<1>3. RootFits'
  <2>1. call' # Call("update", Root)
    BY CallFacts
  <2>2. CASE call' # Call("undo", Root)
    BY <1>1, <2>1, <2>2, RootKept DEF EngineInv
  <2>3. CASE call' = Call("undo", Root)
    <3>1. ASSUME NEW p \in Elements(children'[Root]) PROVE RootAgrees(p)'
      <4>1. RootAgrees(p)
        BY <1>1, <3>1 DEF EngineInv, RootFits
      <4>2. QED
        BY <1>1, <2>1, <4>1 DEF RootAgrees
    <3>2. QED
      BY <1>1, <2>3, <3>1 DEF EngineInv, RootFits
  <2>4. QED
    BY <2>2, <2>3
<1>4. QED
  BY <1>1, <1>2, <1>3 DEF ContFits, LeafWaits, Waiting

LEMMA LeafControlEngineInv ==
    ASSUME TypeOK, EngineInv, NEW l \in Leaves, ResumeLeaf(l) \/ SkipUndoLeaf(l)
    PROVE  EngineInv'
<1>1. l \in Nodes /\ l # Root /\ status[l] # "ERROR_STOPPED"
  BY NodeFacts DEF EngineInv, ChildrenFit
<1>2. UNCHANGED <<status, index, children, timeout>> /\ UNCHANGED tree
  BY DEF ResumeLeaf, SkipUndoLeaf, tree
<1>3. \/ call = Call("execute", l) /\ call.op = "execute" /\ call' = Call("executed", l)
      \/ call = Call("undo", l) /\ call.op = "undo" /\ call' = Call("undone", l) /\ status[l] # "COMPLETED"
  BY CallFacts DEF ResumeLeaf, SkipUndoLeaf, Running, Goto
<1>4. ChildrenFit' /\ ContFits' /\ RootFits' /\ (LeafWaits => LeafWaits')
  <2>1. call # Call("update", Root) /\ call'.op # "update" /\ call' # Call("undo", Root) /\ Walking
    BY <1>1, <1>3, CallFacts DEF Walking
  <2>2. QED
    BY <1>2, <2>1, ControlEngineInv
<1>5. CASE call' = Call("executed", l)
  <2>1. call'.op = "executed" /\ call'.node = l
    BY <1>5, CallFacts
  <2>2. ControlFits' /\ (LeafWaits' \/ GoesOn')
    BY <2>1, <1>2 DEF ControlFits, GoesOn, LeafWaits, Waiting
  <2>3. QED
    BY <1>4, <2>2 DEF EngineInv
<1>6. CASE call = Call("undo", l) /\ call.op = "undo" /\ call' = Call("undone", l) /\ status[l] # "COMPLETED"
  <2>1. call'.op = "undone" /\ call'.node = l /\ call.node = l
    BY <1>6, CallFacts
  <2>2. status[l] = "UNDOING" /\ OnUndoPath(l)
    BY <1>1, <1>6, <2>1 DEF EngineInv, ControlFits, NeedsUndo, Undoable
  <2>3. OnUndoPath(l)'
    BY <1>2, <2>2, PathKept
  <2>4. ControlFits' /\ LeafWaits'
    <3>1. OnUndoPath(call.node)'
      BY <2>1, <2>3
    <3>2. QED
      BY <1>2, <2>1, <2>2, <3>1 DEF ControlFits, LeafWaits, Waiting, Undoing
  <2>5. QED
    BY <1>4, <2>4 DEF EngineInv
<1>7. QED
  BY <1>3, <1>5, <1>6

LEMMA ExecutedEngineInv ==
    ASSUME TypeOK, EngineInv, NEW n \in Nodes, Executed(n)
    PROVE  EngineInv'
<1>1. call = Call("executed", n) /\ call.op = "executed" /\ call.node = n
  BY CallFacts DEF Executed, Running
<1>2. UNCHANGED <<status, index, children, timeout>> /\ UNCHANGED tree
  BY DEF Executed, tree
<1>3. /\ status[Root] \notin {"FREE", "NOT_STARTED"} /\ status[Root] \in States
      /\ call # Call("update", Root) /\ Walking
  BY <1>1, NodeFacts, CallFacts DEF Walking, EngineInv, RootFits, ChildrenFit, TypeOK
<1>4. CASE n = Root /\ status[Root] \in {"ERROR_STOPPED", "UNDOING"} /\ call' = Call("undo", Root)
  <2>1. call'.op = "undo" /\ call'.node = Root
    BY <1>4, CallFacts
  <2>2. ChildrenFit' /\ ContFits' /\ RootFits'
    BY <1>2, <1>3, <1>4, <2>1, ControlEngineInv
  <2>3. ControlFits' /\ GoesOn'
    <3>1. OnUndoPath(Root)'
      BY <1>2, PathOfRoot, PathKept
    <3>2. OnUndoPath(call.node)'
      BY <2>1, <3>1
    <3>3. QED
      BY <1>2, <1>4, <2>1, <3>2 DEF ControlFits, GoesOn, NeedsUndo, Undoable
  <2>4. QED
    BY <2>2, <2>3 DEF EngineInv
<1>5. CASE n = Root /\ status[Root] \notin {"ERROR_STOPPED", "UNDOING"} /\ call' = Call("cleanup", Root)
  <2>1. call'.op = "cleanup" /\ call' # Call("undo", Root)
    BY <1>5, CallFacts
  <2>2. ChildrenFit' /\ ContFits' /\ RootFits' /\ (LeafWaits => LeafWaits')
    BY <1>2, <1>3, <2>1, ControlEngineInv
  <2>3. GoesOn => GoesOn'
    BY <1>1, <1>2, <1>3, <1>5, <2>1 DEF GoesOn, States
  <2>4. ControlFits'
    BY <2>1 DEF ControlFits
  <2>5. QED
    BY <2>2, <2>3, <2>4 DEF EngineInv
<1>6. CASE n # Root /\ LoopGoesOn(n) /\ call' = Call("loop", Parent[n])
  <2>1. call'.op = "loop" /\ call'.node = Parent[n] /\ call' # Call("undo", Root)
    BY <1>6, CallFacts
  <2>2. ChildrenFit' /\ ContFits' /\ RootFits'
    BY <1>2, <1>3, <2>1, ControlEngineInv
  <2>3. ControlFits' /\ GoesOn'
    BY <1>2, <1>6, <2>1 DEF ControlFits, GoesOn, LoopGoesOn
  <2>4. QED
    BY <2>2, <2>3 DEF EngineInv
<1>7. CASE n # Root /\ ~LoopGoesOn(n) /\ call' = Call("executed", Parent[n])
  <2>1. call'.op = "executed" /\ call'.node = Parent[n] /\ call' # Call("undo", Root)
    BY <1>7, CallFacts
  <2>2. ChildrenFit' /\ ContFits' /\ RootFits' /\ (LeafWaits => LeafWaits')
    BY <1>2, <1>3, <2>1, ControlEngineInv
  <2>3. GoesOn => GoesOn'
    BY <1>1, <1>2, <1>7, <2>1 DEF GoesOn, LoopGoesOn
  <2>4. ControlFits'
    BY <2>1 DEF ControlFits
  <2>5. QED
    BY <2>2, <2>3, <2>4 DEF EngineInv
<1>8. QED
  BY <1>4, <1>5, <1>6, <1>7 DEF Executed, Goto

LEMMA UndoneEngineInv ==
    ASSUME TypeOK, EngineInv, NEW n \in Nodes, Undone(n)
    PROVE  EngineInv'
<1>1. /\ call = Call("undone", n) /\ call.op = "undone" /\ call.node = n
      /\ UNCHANGED <<status, children, timeout>>
  BY CallFacts DEF Undone, Running
<1>2. status[n] \in Undoing /\ OnUndoPath(n)
  BY <1>1 DEF EngineInv, ControlFits
<1>3. /\ status[Root] # "NOT_STARTED" /\ call # Call("update", Root) /\ Walking
  BY <1>1, CallFacts DEF Walking, EngineInv, RootFits
<1>4. CASE n = Root /\ call' = Call("cleanup", Root) /\ UNCHANGED tree
  <2>1. call'.op = "cleanup" /\ call' # Call("undo", Root)
    BY <1>4, CallFacts
  <2>2. ChildrenFit' /\ ContFits' /\ RootFits' /\ (LeafWaits => LeafWaits')
    BY <1>3, <1>4, <2>1, ControlEngineInv
  <2>3. GoesOn => GoesOn'
    BY <1>1, <1>2, <1>4, <2>1 DEF GoesOn, Undoing
  <2>4. ControlFits'
    BY <2>1 DEF ControlFits
  <2>5. QED
    BY <2>2, <2>3, <2>4 DEF EngineInv
<1>5. CASE /\ n # Root /\ UndoGoesOn(n) /\ index' = [index EXCEPT ![Parent[n]] = @ - 1]
           /\ call' = Call("undoLoop", Parent[n])
  <2>1. PICK m \in Containers : m = Parent[n]
    BY <1>5, NodeFacts
  <2>2. call'.op = "undoLoop" /\ call'.node = m /\ call' # Call("undo", Root)
        /\ call' # Call("update", Root)
    BY <1>5, <2>1, CallFacts
  <2>3. status[m] \in Undoing /\ OnUndoPath(m)
    BY <1>2, <1>5, <2>1, PathUp
  <2>4. OnUndoPath(m)'
    BY <1>1, <2>3, PathKept
  <2>5. ControlFits' /\ ContFits' /\ GoesOn'
    <3>1. OnUndoPath(call.node)'
      BY <2>2, <2>4
    <3>2. QED
      BY <1>1, <2>2, <2>3, <3>1 DEF ControlFits, ContFits, GoesOn
  <2>6. ChildrenFit'
    BY <1>1, ChildrenKept DEF EngineInv, ChildrenFit
  <2>7. RootFits'
    <3>1. CASE m = Root
      <4>1. n \in Elements(children[Root])
        BY <1>2, <1>5, <2>1, <3>1, BelowRoot DEF EngineInv, Undoing
      <4>2. ASSUME NEW p \in Elements(children'[Root]) PROVE RootAgrees(p)'
        <5>1. p = n
          BY <1>1, <4>1, <4>2, RootChild DEF EngineInv
        <5>2. RootAgrees(n) /\ status[n] = "UNDO_COMPLETE"
          BY <1>5, <4>1 DEF EngineInv, RootFits, UndoGoesOn
        <5>3. QED
          BY <1>1, <2>3, <3>1, <5>1, <5>2 DEF RootAgrees, Undoing
      <4>3. QED
        BY <1>1, <1>3, <2>2, <2>3, <3>1, <4>2 DEF RootFits, Undoing
    <3>2. CASE m # Root
      <4>1. index'[Root] = index[Root]
        BY <1>5, <2>1, <3>2, NodeFacts DEF TypeOK
      <4>2. QED
        BY <1>1, <1>3, <2>2, <4>1, RootKept DEF EngineInv
    <3>3. QED
      BY <3>1, <3>2
  <2>8. QED
    BY <2>5, <2>6, <2>7 DEF EngineInv
<1>6. CASE /\ n # Root /\ ~UndoGoesOn(n) /\ call' = Call("undone", Parent[n]) /\ UNCHANGED tree
  <2>1. PICK m : m = Parent[n]
    OBVIOUS
  <2>2. call'.op = "undone" /\ call'.node = m /\ call' # Call("undo", Root)
    BY <1>6, <2>1, CallFacts
  <2>3. status[m] \in Undoing /\ OnUndoPath(m)
    BY <1>2, <1>6, <2>1, PathUp
  <2>4. OnUndoPath(m)'
    BY <1>1, <2>3, PathKept
  <2>5. ControlFits'
    <3>1. OnUndoPath(call.node)'
      BY <2>2, <2>4
    <3>2. QED
      BY <1>1, <2>2, <2>3, <3>1 DEF ControlFits
  <2>6. ChildrenFit' /\ ContFits' /\ RootFits' /\ (LeafWaits => LeafWaits')
    BY <1>3, <1>6, <2>2, ControlEngineInv
  <2>7. LeafWaits
    BY <1>1, <1>2, <1>6 DEF EngineInv, GoesOn, UndoGoesOn, Undoing
  <2>8. QED
    BY <2>5, <2>6, <2>7 DEF EngineInv
<1>7. QED
  BY <1>4, <1>5, <1>6 DEF Undone, Goto, tree

LEMMA CleanupChildEngineInv ==
    ASSUME TypeOK, EngineInv, NEW n \in Containers, CleanupChild(n)
    PROVE  EngineInv'
<1>1. call = Call("cleanup", n) /\ call.op = "cleanup" /\ UNCHANGED tree
      /\ UNCHANGED <<status, children>>
  BY CallFacts DEF CleanupChild, Running, tree
<1>2. call'.op \in {"cleanup", "delete"}
  BY CallFacts DEF CleanupChild, Goto
<1>3. Walking /\ call # Call("update", Root) /\ call' # Call("undo", Root)
  BY <1>1, <1>2, CallFacts DEF Walking
<1>4. ChildrenFit' /\ ContFits' /\ RootFits' /\ (LeafWaits => LeafWaits')
  BY <1>1, <1>2, <1>3, ControlEngineInv
<1>5. ControlFits' /\ (GoesOn => GoesOn')
  BY <1>1, <1>2 DEF ControlFits, GoesOn
<1>6. QED
  BY <1>4, <1>5 DEF EngineInv

LEMMA CleanupSelfEngineInv ==
    ASSUME TypeOK, EngineInv, NEW n \in Containers, CleanupSelf(n)
    PROVE  EngineInv'
<1>1. /\ call = Call("cleanup", n) /\ call.op = "cleanup" /\ Walking
      /\ Root \in Containers /\ Root \in Nodes /\ Root \notin Leaves
      /\ UNCHANGED <<children, timeout>> /\ call # Call("update", Root)
      /\ index' = [index EXCEPT ![n] = 0]
  BY CallFacts, NodeFacts DEF CleanupSelf, Running, Walking
<1>2. CASE n = Root /\ children[Root] = <<>>
  <2>1. status' = [status EXCEPT ![Root] = "NOT_STARTED"] /\ call' = Call("dispatch", Root)
    BY <1>2 DEF CleanupSelf, Goto
  <2>2. /\ call'.op = "dispatch" /\ status'[Root] = "NOT_STARTED" /\ index'[Root] = 0
        /\ \A k \in Nodes : k # Root => status'[k] = status[k]
    BY <1>1, <1>2, <2>1, CallFacts DEF TypeOK
  <2>3. ChildrenFit'
    <3>1. \A k \in Nodes : status'[k] = "FREE" <=> status[k] = "FREE"
      BY <2>2 DEF EngineInv, ChildrenFit
    <3>2. \A l \in Leaves : status'[l] # "ERROR_STOPPED"
      BY <1>1, <2>2, NodeFacts DEF EngineInv, ChildrenFit
    <3>3. QED
      BY <1>1, <3>1, <3>2, ChildrenKept DEF EngineInv
  <2>4. ControlFits' /\ ContFits' /\ GoesOn'
    BY <1>1, <1>2, <2>2 DEF ControlFits, ContFits, GoesOn
  <2>5. RootFits'
    <3>1. Elements(children'[Root]) = {}
      BY <1>1, <1>2 DEF Elements
    <3>2. QED
      BY <2>2, <3>1, CallFacts DEF RootFits, Walking
  <2>6. QED
    BY <2>3, <2>4, <2>5 DEF EngineInv
<1>3. CASE n = Root /\ children[Root] # <<>>
  <2>1. status' = status /\ call' = Call("dispatch", Root) /\ ~Disposable(Root, Head(children[Root]))
    BY <1>3 DEF CleanupSelf, Goto
  <2>2. call'.op = "dispatch" /\ index'[Root] = 0 /\ call' # Call("update", Root)
        /\ call' # Call("undo", Root)
    BY <1>1, <1>3, <2>1, CallFacts DEF TypeOK
  <2>3. PICK p \in Elements(children[Root]) : p = Head(children[Root])
    BY <1>1, <1>3, ElementsFacts DEF TypeOK
  <2>4. LeafWaits
    <3>1. RootAgrees(p)
      BY <2>3 DEF EngineInv, RootFits
    <3>2. ~(status[Root] \in {"COMPLETED", "UNDO_COMPLETE"})
      BY <2>1, <2>3, <3>1 DEF RootAgrees, Disposable
    <3>3. QED
      BY <1>1, <3>2 DEF EngineInv, GoesOn
  <2>5. ChildrenFit' /\ LeafWaits'
    BY <1>1, <2>1, <2>4, ChildrenKept DEF EngineInv, ChildrenFit, LeafWaits, Waiting
  <2>6. ControlFits' /\ ContFits'
    BY <2>2 DEF ControlFits, ContFits
  <2>7. RootFits'
    <3>1. ASSUME NEW q \in Elements(children'[Root]) PROVE RootAgrees(q)'
      <4>1. RootAgrees(q)
        BY <1>1, <3>1 DEF EngineInv, RootFits
      <4>2. QED
        BY <1>1, <2>1, <2>2, <4>1 DEF RootAgrees
    <3>2. QED
      BY <1>1, <2>1, <2>2, <3>1 DEF RootFits, EngineInv
  <2>8. QED
    BY <2>5, <2>6, <2>7 DEF EngineInv
<1>4. CASE n # Root
  <2>1. status' = status /\ call' = Call("delete", n) /\ index'[Root] = index[Root]
    BY <1>1, <1>4 DEF CleanupSelf, Goto, TypeOK
  <2>2. call'.op = "delete" /\ call' # Call("update", Root) /\ call' # Call("undo", Root)
    BY <2>1, CallFacts
  <2>3. ChildrenFit' /\ (LeafWaits => LeafWaits')
    BY <1>1, <2>1, ChildrenKept DEF EngineInv, ChildrenFit, LeafWaits, Waiting
  <2>4. ControlFits' /\ ContFits' /\ (GoesOn => GoesOn')
    BY <1>1, <2>1, <2>2 DEF ControlFits, ContFits, GoesOn
  <2>5. RootFits'
    BY <1>1, <2>1, <2>2, RootKept DEF EngineInv
  <2>6. QED
    BY <2>3, <2>4, <2>5 DEF EngineInv
<1>5. QED
  BY <1>2, <1>3, <1>4

LEMMA DeleteEngineInv ==
    ASSUME TypeOK, NoDangling, EngineInv, NEW n \in Nodes, Delete(n)
    PROVE  EngineInv'
<1>1. /\ call = Call("delete", n) /\ call.op = "delete" /\ call.node = n /\ Walking
      /\ n \in Nodes \ {Root} /\ Root \in Containers /\ Root \in Nodes /\ Root \notin Leaves
      /\ children[Parent[n]] # <<>> /\ Head(children[Parent[n]]) = n
      /\ call # Call("update", Root) /\ call' = Call("cleanup", Parent[n]) /\ call'.op = "cleanup"
      /\ call' # Call("update", Root) /\ call' # Call("undo", Root)
  BY CallFacts, NodeFacts DEF Delete, Running, Walking, Goto
<1>2. /\ status'[n] = "FREE" /\ \A k \in Nodes : k # n => status'[k] = status[k]
      /\ index'[Root] = index[Root] /\ timeout'[Root] = timeout[Root]
  BY <1>1 DEF Delete, TypeOK
<1>3. \A k \in Containers : children'[k] = IF k = n THEN <<>>
                                           ELSE IF k = Parent[n] THEN Tail(children[k])
                                           ELSE children[k]
  BY DEF Delete
<1>4. \A k \in Containers : Elements(children'[k]) \subseteq Elements(children[k])
  <2>1. ASSUME NEW k \in Containers PROVE Elements(children'[k]) \subseteq Elements(children[k])
    <3>1. CASE k = n
      BY <1>3, <3>1 DEF Elements
    <3>2. CASE k # n /\ k = Parent[n]
      <4>1. children[k] \in Seq(Nodes \ {Root}) /\ children[k] # <<>>
        BY <1>1, <3>2 DEF TypeOK
      <4>2. QED
        BY <1>3, <3>2, <4>1, ElementsFacts
    <3>3. CASE k # n /\ k # Parent[n]
      BY <1>3, <3>3
    <3>4. QED
      BY <3>1, <3>2, <3>3
  <2>2. QED
    BY <2>1
<1>5. /\ Parent[n] = Root => children'[Root] = <<>> /\ Elements(children[Root]) = {n}
      /\ Parent[n] # Root => children'[Root] = children[Root] /\ n \notin Elements(children[Root])
  <2>1. CASE Parent[n] = Root
    <3>1. children[Root] \in Seq(Nodes \ {Root}) /\ children[Root] # <<>> /\ n = Head(children[Root])
          /\ children'[Root] = Tail(children[Root])
      BY <1>1, <1>3, <2>1 DEF TypeOK
    <3>2. n \in Elements(children[Root])
      BY <3>1, ElementsFacts
    <3>3. Elements(children[Root]) = {n} /\ Len(children[Root]) = 1
      BY <3>2, RootChild DEF EngineInv, Size
    <3>4. Tail(children[Root]) \in Seq(Nodes \ {Root}) /\ Len(Tail(children[Root])) = 1 - 1
      BY <3>1, <3>3, HeadTailProperties
    <3>5. Tail(children[Root]) = <<>>
      <4> DEFINE s == Tail(children[Root])
      <4>1. s \in Seq(Nodes \ {Root}) /\ Len(s) = 0
        BY <3>4
      <4> HIDE DEF s
      <4>2. s = <<>>
        BY <4>1, EmptySeq
      <4>3. QED
        BY <4>2 DEF s
    <3>6. QED
      BY <2>1, <3>1, <3>3, <3>5
  <2>2. CASE Parent[n] # Root
    BY <1>1, <1>3, <2>2, RootChild DEF EngineInv
  <2>3. QED
    BY <2>1, <2>2
<1>6. Elements(<<>>) = {} /\ Len(<<>>) = 0
  BY DEF Elements
<1>7. ChildrenFit'
  <2>1. \A m \in Containers : \A k \in Elements(children'[m]) : Parent[k] = m
    BY <1>4 DEF EngineInv, ChildrenFit
  <2>2. /\ Len(children'[Root]) <= 1
        /\ Elements(children'[Root]) \subseteq Containers
        /\ \A k \in Elements(children'[Root]) : status'[k] # "FREE"
    <3>1. CASE Parent[n] = Root
      BY <1>5, <1>6, <3>1
    <3>2. CASE Parent[n] # Root
      BY <1>2, <1>5, <3>2, RootChild DEF EngineInv, ChildrenFit
    <3>3. QED
      BY <3>1, <3>2
  <2>3. ASSUME NEW k \in Nodes \ {Root}, Parent[k] = Root, status'[k] # "FREE"
        PROVE  k \in Elements(children'[Root])
    <3>1. k # n /\ status[k] # "FREE"
      BY <1>2, <2>3
    <3>2. k \in Elements(children[Root])
      BY <2>3, <3>1 DEF EngineInv, ChildrenFit
    <3>3. QED
      BY <1>5, <3>1, <3>2
  <2>4. status'[Root] # "FREE" /\ timeout'[Root] = INFINITE_TIMEOUT
    BY <1>1, <1>2 DEF EngineInv, ChildrenFit
  <2>5. \A l \in Leaves : status'[l] # "ERROR_STOPPED"
    BY <1>2, NodeFacts DEF EngineInv, ChildrenFit
  <2>6. QED
    BY <2>1, <2>2, <2>3, <2>4, <2>5 DEF ChildrenFit
<1>8. ControlFits' /\ ContFits' /\ (GoesOn => GoesOn')
  BY <1>1, <1>2 DEF ControlFits, ContFits, GoesOn
<1>9. LeafWaits => LeafWaits'
  <2>1. n \in Leaves => ~Waiting(n)
    BY <1>1 DEF NoDangling
  <2>2. QED
    BY <1>2, <2>1, NodeFacts DEF LeafWaits, Waiting
<1>10. RootFits'
  <2>1. status'[Root] = status[Root] /\ status[Root] # "NOT_STARTED"
    BY <1>1, <1>2 DEF EngineInv, RootFits
  <2>2. CASE Parent[n] = Root
    BY <1>1, <1>2, <1>5, <1>6, <2>1, <2>2 DEF EngineInv, RootFits
  <2>3. CASE Parent[n] # Root
    <3>1. \A p \in Elements(children[Root]) : status'[p] = status[p]
      BY <1>2, <1>5, <2>3, RootChild DEF EngineInv
    <3>2. QED
      BY <1>1, <1>2, <1>5, <2>1, <2>3, <3>1, RootKept DEF EngineInv
  <2>4. QED
    BY <2>2, <2>3
<1>11. QED
  BY <1>7, <1>8, <1>9, <1>10 DEF EngineInv

LEMMA DispatchEngineInv ==
    ASSUME TypeOK, EngineInv, NEW t \in Triggers, Dispatch(t)
    PROVE  EngineInv'
<1>1. /\ status[Root] = "NOT_STARTED" /\ children[Root] = <<>> /\ index[Root] = 0
      /\ UNCHANGED <<index, timeout>> /\ Root \in Containers /\ Root \in Nodes /\ Root \notin Leaves
  BY NodeFacts DEF Dispatch, EngineInv, RootFits
<1>2. /\ call'.op = "execute" /\ call'.node = Root /\ call' # Call("update", Root)
      /\ call' # Call("undo", Root)
  BY CallFacts DEF Dispatch, Goto
<1>3. ControlFits' /\ ContFits' /\ GoesOn' /\ ~Walking'
  BY <1>2 DEF ControlFits, ContFits, GoesOn, Walking
<1>4. Elements(<<>>) = {} /\ Len(<<>>) = 0
  BY DEF Elements
<1>5. CASE UNCHANGED <<status, children>>
  <2>1. ChildrenFit'
    BY <1>1, <1>5, ChildrenKept DEF EngineInv, ChildrenFit
  <2>2. RootFits'
    BY <1>1, <1>2, <1>3, <1>4, <1>5 DEF RootFits
  <2>3. QED
    BY <1>3, <2>1, <2>2 DEF EngineInv
<1>6. ASSUME NEW p \in PolicyActions[t], status[p] = "FREE",
             status' = [status EXCEPT ![p] = "NOT_STARTED"],
             children' = [children EXCEPT ![Root] = Append(@, p)]
      PROVE  EngineInv'
  <2>1. p \in Containers /\ p # Root /\ p \in Nodes /\ p \notin Leaves /\ Parent[p] = Root
    BY NodeFacts, TriggerAssumption
  <2>2. /\ children'[Root] = <<p>> /\ Elements(<<p>>) = {p} /\ Len(<<p>>) = 1
        /\ \A n \in Containers : n # Root => children'[n] = children[n]
    <3>1. children'[Root] = Append(<<>>, p)
      BY <1>1, <1>6 DEF TypeOK
    <3>2. Append(<<>>, p) = <<p>>
      OBVIOUS
    <3>3. Elements(<<p>>) = {p} /\ Len(<<p>>) = 1
      BY DEF Elements
    <3>4. QED
      BY <1>6, <3>1, <3>2, <3>3 DEF TypeOK
  <2>3. status'[p] = "NOT_STARTED" /\ \A k \in Nodes : k # p => status'[k] = status[k]
    BY <1>6, <2>1 DEF TypeOK
  <2>4. ChildrenFit'
    <3>1. \A n \in Containers : \A k \in Elements(children'[n]) : Parent[k] = n
      BY <2>1, <2>2 DEF EngineInv, ChildrenFit
    <3>2. ASSUME NEW k \in Nodes \ {Root}, Parent[k] = Root, status'[k] # "FREE"
          PROVE  k \in Elements(children'[Root])
      <4>1. CASE k = p
        BY <2>2, <4>1
      <4>2. CASE k # p
        <5>1. k \in Elements(children[Root])
          BY <2>3, <3>2, <4>2 DEF EngineInv, ChildrenFit
        <5>2. QED
          BY <1>1, <1>4, <5>1
      <4>3. QED
        BY <4>1, <4>2
    <3>3. status'[Root] # "FREE" /\ timeout'[Root] = INFINITE_TIMEOUT
      BY <1>1, <2>1, <2>3 DEF EngineInv, ChildrenFit
    <3>4. \A l \in Leaves : status'[l] # "ERROR_STOPPED"
      BY <2>3, NodeFacts DEF EngineInv, ChildrenFit
    <3>5. /\ Len(children'[Root]) <= 1 /\ Elements(children'[Root]) \subseteq Containers
          /\ \A k \in Elements(children'[Root]) : status'[k] # "FREE"
      BY <2>1, <2>2, <2>3
    <3>6. QED
      BY <3>1, <3>2, <3>3, <3>4, <3>5 DEF ChildrenFit
  <2>5. RootFits'
    <3>1. status'[Root] = "NOT_STARTED" /\ index'[Root] = 0
      BY <1>1, <2>1, <2>3
    <3>2. RootAgrees(p)'
      BY <2>3, <3>1 DEF RootAgrees
    <3>3. QED
      BY <1>2, <1>3, <2>2, <3>1, <3>2 DEF RootFits
  <2>6. QED
    BY <1>3, <2>4, <2>5 DEF EngineInv
<1>7. QED
  BY <1>5, <1>6 DEF Dispatch, Forward

LEMMA ReturnEngineInv ==
    ASSUME TypeOK, EngineInv, Return
    PROVE  EngineInv'
<1>1. /\ call = Call("dispatch", Root) /\ call.op = "dispatch" /\ call' = Call("idle", Root)
      /\ call'.op = "idle" /\ UNCHANGED <<status, children, queue, priority>> /\ UNCHANGED tree
  BY CallFacts DEF Return, Running, Goto, tree, feed
<1>2. call # Call("update", Root) /\ call' # Call("undo", Root) /\ ~Walking'
  BY <1>1, CallFacts DEF Walking
<1>3. ChildrenFit' /\ ContFits' /\ RootFits' /\ (LeafWaits => LeafWaits')
  BY <1>1, <1>2, ControlEngineInv
<1>4. GoesOn => GoesOn'
  <2>1. SUFFICES ASSUME GoesOn PROVE GoesOn'
    OBVIOUS
  <2>2. status[Root] = "NOT_STARTED" /\ children[Root] = <<>>
    BY <1>1, <2>1 DEF GoesOn
  <2>3. priority \o queue = <<>>
    BY <2>2 DEF Return
  <2>4. priority = <<>> /\ queue = <<>>
    <3>1. priority \in Seq(Triggers) /\ queue \in Seq(Triggers)
      BY DEF TypeOK
    <3>2. Len(priority) + Len(queue) = 0 /\ Len(priority) \in Nat /\ Len(queue) \in Nat
      BY <2>3, <3>1, ConcatProperties, LenProperties, EmptySeq
    <3>3. Len(priority) = 0 /\ Len(queue) = 0
      BY <3>2
    <3>4. QED
      BY <3>1, <3>3, EmptySeq
  <2>5. QED
    BY <1>1, <2>2, <2>4 DEF GoesOn
<1>5. ControlFits'
  BY <1>1 DEF ControlFits
<1>6. QED
  BY <1>3, <1>4, <1>5 DEF EngineInv

LEMMA StepEngineInv == TypeOK /\ NoDangling /\ EngineInv /\ Step => EngineInv'
<1> SUFFICES ASSUME TypeOK, NoDangling, EngineInv, Step PROVE EngineInv'
  OBVIOUS
<1>1. ASSUME NEW n \in Containers, ContainerStep(n) PROVE EngineInv'
  BY <1>1, StartContainerEngineInv, ResumeContainerEngineInv, LoopChildrenEngineInv, UpdateEngineInv,
     UndoContainerEngineInv, LoopUndoEngineInv, CleanupChildEngineInv, CleanupSelfEngineInv
     DEF ContainerStep
<1>2. ASSUME NEW l \in Leaves, LeafStep(l) PROVE EngineInv'
  BY <1>2, StartLeafEngineInv, UndoLeafEngineInv, LeafControlEngineInv DEF LeafStep
<1>3. ASSUME NEW n \in Nodes, Executed(n) \/ Undone(n) \/ Delete(n) PROVE EngineInv'
  BY <1>3, ExecutedEngineInv, UndoneEngineInv, DeleteEngineInv
<1>4. ASSUME NEW t \in Triggers, Dispatch(t) PROVE EngineInv'
  BY <1>4, DispatchEngineInv
<1>5. ASSUME Return PROVE EngineInv'
  BY <1>5, ReturnEngineInv
<1>6. QED
  BY <1>1, <1>2, <1>3, <1>4, <1>5 DEF Step

LEMMA StutterEngineInv == EngineInv /\ UNCHANGED vars => EngineInv'
<1> SUFFICES ASSUME EngineInv, UNCHANGED vars PROVE EngineInv'
  OBVIOUS
<1>1. UNCHANGED <<status, error, index, children, timeout, call, cont, result, queue, priority>>
  BY DEF vars, tree, feed
<1>2. ChildrenFit' /\ ControlFits'
  BY <1>1 DEF EngineInv, ChildrenFit, ControlFits, NeedsUndo, Undoable, OnUndoPath, Above
<1>3. ContFits' /\ RootFits'
  BY <1>1 DEF EngineInv, ContFits, OnUndoPath, Above, Size, RootFits, RootAgrees, Walking
<1>4. (LeafWaits \/ GoesOn)'
  BY <1>1 DEF EngineInv, LeafWaits, Waiting, GoesOn
<1>5. QED
  BY <1>2, <1>3, <1>4 DEF EngineInv

\* Whatever tree of actions the policies append, whatever fails, expires or is answered
\* late: when iterateActions() returns to the event loop, some action waits for an answer
\* of the routing side, or the root is idle and no trigger is left in the queues
\* (CAmControllerPlugin::iterateActions, CAmRootAction).
THEOREM HandlersComplete == Spec => []NothingLeftBehind
<1>1. TypeOK /\ NoDangling /\ EngineInv /\ [Next]_vars => EngineInv'
  BY StepEngineInv, EventEngineInv, StutterEngineInv DEF Next
<1>2. EngineInv => NothingLeftBehind
  BY DEF EngineInv, GoesOn, LeafWaits, NothingLeftBehind, Idle
<1>3. QED
  BY <1>1, <1>2, InitEngineInv, TypeCorrect, PointersValid, PTL DEF Spec
=============================================================================
