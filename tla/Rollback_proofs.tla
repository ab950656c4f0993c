-------------------------- MODULE Rollback_proofs --------------------------
(***************************************************************************)
(* The rollback of the action engine is complete, for every tree of        *)
(* actions whose containers have no time limit, which is what              *)
(* CAmActionContainer sets by default.  Commands may have one.             *)
(*                                                                         *)
(* RollbackIsComplete speaks of containers that have been rolled back.     *)
(* What makes it inductive is what it takes for the other ones: the        *)
(* children before the current one of a container that executes have       *)
(* succeeded, those after it have not started; those after the current     *)
(* one of a container that is being undone have nothing left to undo; and  *)
(* no list of children is deleted before it is empty.                      *)
(***************************************************************************)
EXTENDS ActionEngine_proofs

NoTimeLimits == \A n \in Containers : OwnTimeout[n] = INFINITE_TIMEOUT

Untimed == \A n \in Containers : timeout[n] = INFINITE_TIMEOUT

\* The objects that exist are in the list of their parent, once.
Listed ==
    /\ \A k \in Nodes \ {Root} : status[k] # "FREE" <=> k \in Elements(children[Parent[k]])
    /\ \A n \in Containers : \A i, j \in 1 .. Size(n) : children[n][i] = children[n][j] => i = j
    /\ \A n \in Containers : n \notin Elements(children[n])

Quiet(k) == status[k] \notin {"EXECUTING", "UNDOING"}

\* Nothing is left to undo.
Settled(k) ==
    /\ status[k] \notin {"EXECUTING", "UNDOING", "ERROR_STOPPED"}
    /\ status[k] = "COMPLETED" => k \in Leaves /\ error[k] # E_OK

\* What the state of n and the position j say about the child k there.
ChildFits(n, j, k) ==
    /\ status[n] # "EXECUTING" => status[k] # "EXECUTING"
    /\ status[n] # "UNDOING" => status[k] # "UNDOING"
    /\ j # index[n] + 1 => Quiet(k)
    /\ status[n] = "EXECUTING" /\ j <= index[n] => status[k] = "COMPLETED"
    /\ status[n] = "COMPLETED" => status[k] = "COMPLETED"
    /\ status[n] \in {"EXECUTING", "ERROR_STOPPED"} /\ j > index[n] + 1 => status[k] = "NOT_STARTED"
    /\ status[n] = "UNDOING" /\ j > index[n] + 1 => Settled(k)
    /\ status[n] = "UNDO_COMPLETE" => Settled(k)

ContainerFits(n) ==
    /\ status[n] \in {"FREE", "NOT_STARTED"} => children[n] = <<>> /\ index[n] = 0
    /\ status[n] \in {"EXECUTING", "ERROR_STOPPED"} => index[n] >= 0
    /\ status[n] = "COMPLETED" => index[n] >= Size(n) /\ error[n] = E_OK
    /\ \A j \in 1 .. Size(n) : ChildFits(n, j, children[n][j])

TreeFits == \A n \in Containers \ {Root} : ContainerFits(n)

\* The child n is the one its parent is at.
IsCurrent(n) == HasChild(Parent[n]) /\ Child(Parent[n]) = n
Inner(n) == n # Root /\ Parent[n] # Root

\* cleanup() walks down through actions that are through.
Cleanable == {"COMPLETED", "UNDO_COMPLETE", "NOT_STARTED"}
CleanAbove(n, A) ==
    /\ n # Root => Parent[n] \in A
    /\ \A a \in A : a # Root => status[a] \in Cleanable /\ Parent[a] \in A
OnCleanPath(n) == \E A \in SUBSET Containers : CleanAbove(n, A)

BeingUndone(n) == Inner(n) => status[Parent[n]] = "UNDOING" /\ IsCurrent(n)

\* update() of n is called when a child has reached its end, or the loop over them has.
UpdateFits(n) ==
    /\ status[n] \in {"EXECUTING", "UNDOING"}
    /\ status[n] = "EXECUTING" /\ HasChild(n) =>
          Quiet(Child(n)) /\ (result = E_OK => status[Child(n)] = "COMPLETED")

CallsFit ==
    /\ call.op = "execute" /\ Inner(call.node) => status[Parent[call.node]] = "EXECUTING" /\ IsCurrent(call.node)
    /\ call.op = "update" /\ call.node # Root => UpdateFits(call.node)
    /\ call.op = "undoLoop" /\ call.node # Root => status[call.node] = "UNDOING"
    /\ call.op \in {"undo", "undone"} => BeingUndone(call.node)
    /\ call.op = "update" /\ cont.op = "undone" => BeingUndone(cont.node)
    /\ call.op \in {"cleanup", "delete"} =>
          OnCleanPath(call.node) /\ (call.node # Root => status[call.node] \in Cleanable)
    /\ call.op = "delete" /\ call.node \in Containers => children[call.node] = <<>>

RollbackInv == Untimed /\ Listed /\ TreeFits /\ CallsFit

-----------------------------------------------------------------------------
(* What a step that leaves most of the tree alone keeps *)

LEMMA ListFacts ==
    ASSUME TypeOK, NEW n \in Containers
    PROVE  /\ Size(n) \in Nat /\ index[n] \in Int /\ DOMAIN children[n] = 1 .. Size(n)
           /\ \A j \in 1 .. Size(n) : children[n][j] \in Elements(children[n])
                                      /\ children[n][j] \in Nodes \ {Root}
           /\ \A k \in Elements(children[n]) : \E j \in 1 .. Size(n) : k = children[n][j]
           /\ \A k \in Elements(children[n]) : k \in Nodes \ {Root}
           /\ HasChild(n) <=> 0 <= index[n] /\ index[n] < Size(n)
<1>1. children[n] \in Seq(Nodes \ {Root}) /\ index[n] \in Int
  BY DEF TypeOK
<1>2. Size(n) \in Nat /\ DOMAIN children[n] = 1 .. Size(n)
  BY <1>1 DEF Size
<1>3. \A j \in 1 .. Size(n) : children[n][j] \in Elements(children[n])
  BY <1>2 DEF Elements
<1>4. \A j \in 1 .. Size(n) : children[n][j] \in Nodes \ {Root}
  BY <1>1, <1>2, ElementOfSeq DEF Size
<1>5. \A k \in Elements(children[n]) : \E j \in 1 .. Size(n) : k = children[n][j]
  BY <1>2 DEF Elements
<1>6. HasChild(n) <=> 0 <= index[n] /\ index[n] < Size(n)
  BY <1>1, <1>2 DEF HasChild
<1>7. \A k \in Elements(children[n]) : k \in Nodes \ {Root}
  BY <1>1, ElementsFacts
<1> QED
  BY <1>1, <1>2, <1>3, <1>4, <1>5, <1>6, <1>7

\* A container stays in order when neither it nor its children change.
LEMMA ContainerKept ==
    ASSUME TypeOK, NEW n \in Containers, ContainerFits(n), children'[n] = children[n],
           index'[n] = index[n], status'[n] = status[n],
           status[n] = "COMPLETED" => error'[n] = error[n],
           \A k \in Elements(children[n]) :
              status'[k] = status[k] /\ (status[k] = "COMPLETED" => error'[k] = error[k])
    PROVE  ContainerFits(n)'
<1>1. Size(n)' = Size(n)
  BY DEF Size
<1>2. ASSUME NEW j \in 1 .. Size(n)
      PROVE  ChildFits(n, j, children[n][j])'
  <2> DEFINE k == children[n][j]
  <2>1. k \in Elements(children[n])
    BY ListFacts
  <2>2. ChildFits(n, j, k)
    BY DEF ContainerFits
  <2>3. k' = k
    OBVIOUS
  <2> HIDE DEF k
  <2>4. status'[k] = status[k] /\ (status[k] = "COMPLETED" => error'[k] = error[k])
    BY <2>1
  <2>5. (Quiet(k) => Quiet(k)') /\ (Settled(k) => Settled(k)')
    BY <2>3, <2>4 DEF Quiet, Settled
  <2>6. ChildFits(n, j, k)'
    BY <2>2, <2>3, <2>4, <2>5 DEF ChildFits
  <2> QED
    BY <2>6 DEF k
<1> QED
  BY <1>1, <1>2 DEF ContainerFits

\* Nor when its current child goes on: to any state but that of a child that executes below a
\* container that is undone, and the other way round.
LEMMA CurrentMoves ==
    ASSUME TypeOK, NEW n \in Containers, ContainerFits(n), HasChild(n), children'[n] = children[n],
           index'[n] = index[n], status'[n] = status[n],
           \/ status[n] = "EXECUTING" /\ status'[Child(n)] # "UNDOING"
           \/ status[n] = "UNDOING" /\ status'[Child(n)] # "EXECUTING",
           \A k \in Elements(children[n]) : k # Child(n) => status'[k] = status[k] /\ error'[k] = error[k],
           \A i, j \in 1 .. Size(n) : children[n][i] = children[n][j] => i = j
    PROVE  ContainerFits(n)'
<1>1. Size(n)' = Size(n)
  BY DEF Size
<1>2. /\ Size(n) \in Nat /\ index[n] \in Int /\ index[n] + 1 \in 1 .. Size(n)
      /\ Child(n) = children[n][index[n] + 1] /\ status[n] # "COMPLETED"
  BY ListFacts DEF Child
<1>3. ASSUME NEW j \in 1 .. Size(n)
      PROVE  ChildFits(n, j, children[n][j])'
  <2> DEFINE k == children[n][j]
  <2>1. k \in Elements(children[n])
    BY ListFacts
  <2>2. ChildFits(n, j, k)
    BY DEF ContainerFits
  <2>3. k' = k
    OBVIOUS
  <2>4. k = Child(n) <=> j = index[n] + 1
    BY <1>2
  <2> HIDE DEF k
  <2>5. CASE j = index[n] + 1
    <3>1. k = Child(n)
      BY <2>4, <2>5
    <3>2. status'[n] # "EXECUTING" => status'[k] # "EXECUTING"
      BY <3>1
    <3>3. status'[n] # "UNDOING" => status'[k] # "UNDOING"
      BY <3>1
    <3>4. ~(j # index'[n] + 1) /\ ~(j <= index'[n]) /\ ~(j > index'[n] + 1)
      BY <1>2, <2>5
    <3> QED
      BY <2>3, <3>2, <3>3, <3>4 DEF ChildFits, k
  <2>6. CASE j # index[n] + 1
    <3>1. status'[k] = status[k] /\ error'[k] = error[k]
      BY <2>1, <2>4, <2>6
    <3>2. (Quiet(k) => Quiet(k)') /\ (Settled(k) => Settled(k)')
      BY <2>3, <3>1 DEF Quiet, Settled
    <3>3. ChildFits(n, j, k)'
      BY <2>2, <2>3, <3>1, <3>2 DEF ChildFits
    <3> QED
      BY <3>3 DEF k
  <2> QED
    BY <2>5, <2>6
<1> QED
  BY <1>1, <1>2, <1>3 DEF ContainerFits

\* An object that executes or is being undone is the one its parent is at, which does the same.
LEMMA ActiveIsCurrent ==
    ASSUME TypeOK, Listed, TreeFits, NEW k \in Nodes, Inner(k), status[k] \in {"EXECUTING", "UNDOING"}
    PROVE  IsCurrent(k) /\ status[Parent[k]] = status[k] /\ Parent[k] \in Containers \ {Root}
<1> DEFINE n == Parent[k]
<1>1. n \in Containers \ {Root} /\ k \in Nodes \ {Root}
  BY NodeFacts DEF Inner
<1>2. k \in Elements(children[n])
  BY <1>1 DEF Listed
<1>3. PICK j \in 1 .. Size(n) : k = children[n][j]
  BY <1>1, <1>2, ListFacts
<1>4. ChildFits(n, j, k)
  BY <1>1, <1>3 DEF TreeFits, ContainerFits
<1>5. status[n] = status[k] /\ j = index[n] + 1
  BY <1>4 DEF ChildFits, Quiet
<1>6. HasChild(n) /\ Child(n) = k
  <2>1. Size(n) \in Nat /\ index[n] \in Int /\ (HasChild(n) <=> 0 <= index[n] /\ index[n] < Size(n))
    BY <1>1, ListFacts
  <2> QED
    BY <1>3, <1>5, <2>1 DEF Child
<1> QED
  BY <1>1, <1>5, <1>6 DEF IsCurrent

LEMMA TreeKept ==
    ASSUME TypeOK, Listed, TreeFits, UNCHANGED <<status, error, index, children>>
    PROVE  Listed' /\ TreeFits'
<1>1. Listed'
  BY DEF Listed, Size, Elements
<1>2. TreeFits'
  BY ContainerKept DEF TreeFits
<1> QED
  BY <1>1, <1>2

\* One object moves, and the rest of the tree stays as it is.
LEMMA OneMoves ==
    ASSUME TypeOK, ChildrenFit, Listed, TreeFits, NEW k \in Nodes, children' = children,
           \A i \in Containers : i # k => index'[i] = index[i],
           \A i \in Nodes : i # k => status'[i] = status[i] /\ error'[i] = error[i],
           status[k] # "FREE" /\ status'[k] # "FREE",
           Inner(k) => /\ IsCurrent(k)
                       /\ \/ status[Parent[k]] = "EXECUTING" /\ status'[k] # "UNDOING"
                          \/ status[Parent[k]] = "UNDOING" /\ status'[k] # "EXECUTING",
           k \in Containers \ {Root} => ContainerFits(k)'
    PROVE  Listed' /\ TreeFits'
<1>1. Listed'
  <2>1. \A i \in Nodes : status'[i] # "FREE" <=> status[i] # "FREE"
    OBVIOUS
  <2> QED
    BY <2>1 DEF Listed, Size, Elements
<1>2. ASSUME NEW n \in Containers \ {Root}
      PROVE  ContainerFits(n)'
  <2>1. CASE n = k
    BY <2>1
  <2>2. CASE n # k /\ k \notin Elements(children[n])
    <3>1. \A i \in Elements(children[n]) : i \in Nodes /\ i # k
      BY <2>2, ListFacts
    <3>2. n \in Nodes /\ ContainerFits(n)
      BY NodeFacts DEF TreeFits
    <3> QED
      BY <2>2, <3>1, <3>2, ContainerKept
  <2>3. CASE n # k /\ k \in Elements(children[n])
    <3>1. k \in Nodes \ {Root} /\ Parent[k] = n
      <4>1. PICK j \in 1 .. Size(n) : k = children[n][j]
        BY <2>3, ListFacts
      <4> QED
        BY <2>3, <4>1, ListFacts DEF ChildrenFit
    <3>2. Inner(k)
      BY <3>1 DEF Inner
    <3>3. HasChild(n) /\ Child(n) = k
      BY <3>1, <3>2 DEF IsCurrent
    <3>4. n \in Nodes /\ n # k /\ ContainerFits(n)
      BY <2>3, NodeFacts DEF TreeFits
    <3>5. \A i \in Elements(children[n]) : i # Child(n) => status'[i] = status[i] /\ error'[i] = error[i]
      BY <3>3, ListFacts
    <3>6. status'[n] = status[n] /\ index'[n] = index[n]
      BY <3>4
    <3>7. \A i, j \in 1 .. Size(n) : children[n][i] = children[n][j] => i = j
      BY DEF Listed
    <3>8. \/ status[n] = "EXECUTING" /\ status'[Child(n)] # "UNDOING"
          \/ status[n] = "UNDOING" /\ status'[Child(n)] # "EXECUTING"
      BY <3>1, <3>2, <3>3
    <3> QED
      BY <3>3, <3>4, <3>5, <3>6, <3>7, <3>8, CurrentMoves
  <2> QED
    BY <2>1, <2>2, <2>3
<1> QED
  BY <1>1, <1>2 DEF TreeFits

-----------------------------------------------------------------------------
(* The activations *)

LEMMA CleanPathDown ==
    ASSUME NEW n \in Containers, OnCleanPath(n), n # Root => status[n] \in Cleanable,
           NEW k, Parent[k] = n
    PROVE  OnCleanPath(k)
<1>1. PICK A \in SUBSET Containers : CleanAbove(n, A)
  BY DEF OnCleanPath
<1>2. CleanAbove(k, A \cup {n})
  BY <1>1 DEF CleanAbove
<1> QED
  BY <1>1, <1>2 DEF OnCleanPath

LEMMA CleanPathUp ==
    ASSUME NEW k, k # Root, OnCleanPath(k)
    PROVE  OnCleanPath(Parent[k]) /\ (Parent[k] # Root => status[Parent[k]] \in Cleanable)
<1>1. PICK A \in SUBSET Containers : CleanAbove(k, A)
  BY DEF OnCleanPath
<1>2. CleanAbove(Parent[k], A) /\ (Parent[k] # Root => status[Parent[k]] \in Cleanable)
  BY <1>1 DEF CleanAbove
<1> QED
  BY <1>1, <1>2 DEF OnCleanPath

\* It does not change, unless an object on it does.
LEMMA CleanPathKept ==
    ASSUME NEW n, OnCleanPath(n),
           \A a \in Containers \ {Root} : status[a] \in Cleanable => status'[a] \in Cleanable
    PROVE  OnCleanPath(n)'
<1>1. PICK A \in SUBSET Containers : CleanAbove(n, A)
  BY DEF OnCleanPath
<1>2. CleanAbove(n, A)'
  BY <1>1 DEF CleanAbove
<1> QED
  BY <1>1, <1>2 DEF OnCleanPath

LEMMA RootOnCleanPath == OnCleanPath(Root)
<1>1. CleanAbove(Root, {})
  BY DEF CleanAbove
<1> QED
  BY <1>1 DEF OnCleanPath

\* The activations that the invariant says nothing of.
LEMMA FreeCalls ==
    ASSUME \/ call'.op \in {"idle", "loop", "executed", "dispatch"}
           \/ call'.op \in {"execute", "undoLoop", "undo", "undone", "cleanup"} /\ call'.node = Root
    PROVE  CallsFit'
<1>1. OnCleanPath(Root)'
  BY RootOnCleanPath, PTL
<1> QED
  BY <1>1 DEF CallsFit, BeingUndone, Inner

\* What the position and the state of the tree decide.
LEMMA PlaceKept ==
    ASSUME UNCHANGED <<status, index, children>>
    PROVE  /\ \A n : IsCurrent(n)' <=> IsCurrent(n)
           /\ \A n : BeingUndone(n)' <=> BeingUndone(n)
           /\ \A n : OnCleanPath(n)' <=> OnCleanPath(n)
<1>1. \A n : IsCurrent(n)' <=> IsCurrent(n)
  BY DEF IsCurrent, HasChild, Child, Size
<1>2. \A n : BeingUndone(n)' <=> BeingUndone(n)
  BY <1>1 DEF BeingUndone, Inner
<1>3. \A n : OnCleanPath(n)' <=> OnCleanPath(n)
  BY DEF OnCleanPath, CleanAbove
<1> QED
  BY <1>1, <1>2, <1>3

LEMMA LoopChildrenCalls ==
    ASSUME TypeOK, EngineInv, RollbackInv, NEW n \in Containers, LoopChildren(n)
    PROVE  CallsFit'
<1>1. /\ status[n] = "EXECUTING" /\ UNCHANGED <<status, index, children>>
      /\ n \in Nodes /\ Size(n) \in Nat /\ index[n] \in Int
      /\ timeout[n] = INFINITE_TIMEOUT /\ ~Expired(n)
  BY CallFacts, NodeFacts, ListFacts
     DEF LoopChildren, Running, EngineInv, ControlFits, RollbackInv, Untimed, Expired
<1>2. CASE index[n] >= Size(n) /\ GotoUpdate(n, error[n], Call("executed", n))
  <2>1. call'.op = "update" /\ call'.node = n /\ cont'.op = "executed"
    BY <1>2, CallFacts DEF GotoUpdate
  <2>2. status'[n] = "EXECUTING" /\ ~HasChild(n)'
    BY <1>1, <1>2 DEF HasChild, Size
  <2>3. UpdateFits(n)'
    BY <2>2 DEF UpdateFits
  <2> QED
    BY <2>1, <2>3 DEF CallsFit
<1>3. CASE HasChild(n) /\ Goto("execute", Child(n))
  <2>1. call'.op = "execute" /\ call'.node = Child(n)
    BY <1>3, CallFacts DEF Goto
  <2>2. Parent[Child(n)] = n
    BY <1>3, CurrentChild DEF EngineInv
  <2>3. IsCurrent(Child(n))
    BY <1>3, <2>2 DEF IsCurrent
  <2>4. \A k : k = Child(n) => IsCurrent(k)' /\ status'[Parent[k]] = "EXECUTING"
    BY <1>1, <2>2, <2>3, PlaceKept
  <2> QED
    BY <2>1, <2>4 DEF CallsFit
<1> QED
  BY <1>1, <1>2, <1>3 DEF LoopChildren

LEMMA CleanupChildCalls ==
    ASSUME TypeOK, EngineInv, RollbackInv, NEW n \in Containers, CleanupChild(n)
    PROVE  CallsFit'
<1> DEFINE h == Head(children[n])
<1>1. /\ UNCHANGED <<status, index, children>> /\ call.op = "cleanup" /\ call.node = n
      /\ call'.op \in {"cleanup", "delete"} /\ call'.node = h
      /\ call'.op = "delete" => h \in Leaves
      /\ children[n] \in Seq(Nodes \ {Root}) /\ children[n] # <<>> /\ Disposable(n, h)
  BY CallFacts DEF CleanupChild, Running, Goto, tree, TypeOK
<1>2. h \in Elements(children[n]) /\ h \in Nodes \ {Root} /\ Parent[h] = n
  BY <1>1, ElementsFacts DEF EngineInv, ChildrenFit
<1>3. status[h] \in Cleanable
  BY <1>1 DEF Disposable, Cleanable
<1>4. OnCleanPath(n) /\ (n # Root => status[n] \in Cleanable)
  BY <1>1 DEF RollbackInv, CallsFit
<1>5. OnCleanPath(h)
  BY <1>2, <1>4, CleanPathDown
<1>6. h \notin Containers \/ call'.op # "delete"
  BY <1>1, NodeFacts
<1>7. \A k : k = h => OnCleanPath(k)' /\ status'[k] \in Cleanable
  BY <1>1, <1>3, <1>5, PlaceKept
<1> HIDE DEF h
<1> QED
  BY <1>1, <1>6, <1>7 DEF CallsFit

\* The steps that change nothing in the tree.
LEMMA ControlRollback ==
    ASSUME TypeOK, EngineInv, RollbackInv, NEW n \in Nodes,
           \/ n \in Containers /\ (ResumeContainer(n) \/ LoopChildren(n) \/ CleanupChild(n))
           \/ n \in Leaves /\ (ResumeLeaf(n) \/ SkipUndoLeaf(n))
           \/ Executed(n)
           \/ Return
           \/ \E t \in Triggers : RaiseTrigger(t)
           \/ UnknownAnswer
    PROVE  Listed' /\ TreeFits' /\ CallsFit'
<1>1. UNCHANGED <<status, error, index, children>>
  BY DEF ResumeContainer, LoopChildren, CleanupChild, ResumeLeaf, SkipUndoLeaf, Executed, Return,
         RaiseTrigger, UnknownAnswer, tree
<1>2. Listed' /\ TreeFits'
  BY <1>1, TreeKept DEF RollbackInv
<1>3. CASE n \in Containers /\ ResumeContainer(n)
  BY <1>2, <1>3, CallFacts, FreeCalls DEF ResumeContainer, Goto
<1>4. CASE n \in Leaves /\ ResumeLeaf(n)
  BY <1>2, <1>4, CallFacts, FreeCalls DEF ResumeLeaf, Goto
<1>5. CASE Executed(n)
  BY <1>2, <1>5, CallFacts, FreeCalls DEF Executed, Goto
<1>6. CASE Return
  BY <1>2, <1>6, CallFacts, FreeCalls DEF Return, Goto
<1>7. CASE (\E t \in Triggers : RaiseTrigger(t)) \/ UnknownAnswer
  BY <1>2, <1>7, CallFacts, FreeCalls DEF RaiseTrigger, UnknownAnswer, Goto
<1>8. CASE n \in Leaves /\ SkipUndoLeaf(n)
  <2>1. call.op = "undo" /\ call.node = n /\ call'.op = "undone" /\ call'.node = n
    BY <1>8, CallFacts DEF SkipUndoLeaf, Running, Goto
  <2>2. BeingUndone(n)'
    BY <1>1, <2>1, PlaceKept DEF RollbackInv, CallsFit
  <2>3. CallsFit'
    BY <2>1, <2>2 DEF CallsFit
  <2> QED
    BY <1>2, <2>3
<1> QED
  BY <1>2, <1>3, <1>4, <1>5, <1>6, <1>7, <1>8, LoopChildrenCalls, CleanupChildCalls

\* The steps of a leaf.
LEMMA LeafUpdateRollback ==
    ASSUME TypeOK, EngineInv, RollbackInv, NEW l \in Leaves, Waiting(l), NEW r, NEW spent,
           LeafUpdate(l, r, spent)
    PROVE  Listed' /\ TreeFits' /\ CallsFit'
<1> DEFINE p == Parent[l]
<1>1. /\ l \in Nodes \ {Root} /\ l \notin Containers /\ status[l] \in {"EXECUTING", "UNDOING"}
      /\ children' = children /\ index' = index
      /\ \A i \in Nodes : i # l => status'[i] = status[i] /\ error'[i] = error[i]
      /\ status'[l] \in {"COMPLETED", "UNDO_COMPLETE"}
      /\ status[l] = "EXECUTING" => status'[l] = "COMPLETED"
      /\ call'.op = "update" /\ call'.node = p /\ cont'.op = "execute"
  BY NodeFacts, CallFacts DEF TypeOK, LeafUpdate, Waiting, GotoUpdate
<1>2. Inner(l)
  BY <1>1, BelowRoot DEF Inner, EngineInv
<1>3. IsCurrent(l) /\ status[p] = status[l] /\ p \in Containers \ {Root} /\ p \in Nodes
  BY <1>1, <1>2, ActiveIsCurrent, NodeFacts DEF RollbackInv
<1>4. Listed' /\ TreeFits'
  <2>1. /\ \A i \in Containers : i # l => index'[i] = index[i]
        /\ status[l] # "FREE" /\ status'[l] # "FREE"
        /\ \/ status[p] = "EXECUTING" /\ status'[l] # "UNDOING"
           \/ status[p] = "UNDOING" /\ status'[l] # "EXECUTING"
    BY <1>1, <1>3
  <2> QED
    BY <1>1, <1>2, <1>3, <2>1, OneMoves DEF RollbackInv, EngineInv
<1>5. UpdateFits(p)'
  <2>1. status'[p] = status[p] /\ Child(p)' = l
    BY <1>1, <1>3, NodeFacts DEF IsCurrent, Child
  <2> QED
    BY <1>1, <1>3, <2>1 DEF UpdateFits, Quiet
<1> HIDE DEF p
<1>6. CallsFit'
  BY <1>1, <1>5 DEF CallsFit
<1> QED
  BY <1>4, <1>6

LEMMA StartLeafRollback ==
    ASSUME TypeOK, EngineInv, RollbackInv, NEW l \in Leaves, NEW r \in Results,
           NEW spent \in 0 .. MaxTime, StartLeaf(l, r, spent)
    PROVE  Listed' /\ TreeFits' /\ CallsFit'
<1> DEFINE p == Parent[l]
<1>1. /\ l \in Nodes \ {Root} /\ l \notin Containers /\ status[l] = "NOT_STARTED"
      /\ call.op = "execute" /\ call.node = l
      /\ children' = children /\ index' = index
      /\ \A i \in Nodes : i # l => status'[i] = status[i] /\ error'[i] = error[i]
      /\ status'[l] \in {"COMPLETED", "EXECUTING"}
      /\ \/ call'.op = "executed"
         \/ status'[l] = "COMPLETED" /\ call'.op = "update" /\ call'.node = p /\ cont'.op = "executed"
  BY NodeFacts, CallFacts DEF TypeOK, StartLeaf, Running, Goto, GotoUpdate
<1>2. Inner(l)
  BY <1>1, BelowRoot DEF Inner, EngineInv
<1>3. IsCurrent(l) /\ status[p] = "EXECUTING" /\ p \in Containers \ {Root} /\ p \in Nodes
  BY <1>1, <1>2, NodeFacts DEF RollbackInv, CallsFit, Inner
<1>4. Listed' /\ TreeFits'
  <2>1. /\ \A i \in Containers : i # l => index'[i] = index[i]
        /\ status[l] # "FREE" /\ status'[l] # "FREE"
        /\ status[p] = "EXECUTING" /\ status'[l] # "UNDOING"
    BY <1>1, <1>3
  <2> QED
    BY <1>1, <1>2, <1>3, <2>1, OneMoves DEF RollbackInv, EngineInv
<1>5. status'[l] = "COMPLETED" => UpdateFits(p)'
  <2>1. status'[p] = status[p] /\ Child(p)' = l
    BY <1>1, <1>3, NodeFacts DEF IsCurrent, Child
  <2> QED
    BY <1>1, <1>3, <2>1 DEF UpdateFits, Quiet
<1> HIDE DEF p
<1>6. CallsFit'
  BY <1>1, <1>5 DEF CallsFit
<1> QED
  BY <1>4, <1>6

LEMMA UndoLeafRollback ==
    ASSUME TypeOK, EngineInv, RollbackInv, NEW l \in Leaves, NEW r \in Results, UndoLeaf(l, r)
    PROVE  Listed' /\ TreeFits' /\ CallsFit'
<1> DEFINE p == Parent[l]
<1>1. /\ l \in Nodes \ {Root} /\ l \notin Containers /\ status[l] = "COMPLETED"
      /\ call.op = "undo" /\ call.node = l
      /\ children' = children /\ index' = index
      /\ \A i \in Nodes : i # l => status'[i] = status[i] /\ error'[i] = error[i]
      /\ status'[l] \in {"UNDO_COMPLETE", "UNDOING"}
      /\ \/ call'.op = "undone" /\ call'.node = l
         \/ call'.op = "update" /\ call'.node = p /\ cont'.op = "undone" /\ cont'.node = l
  BY NodeFacts, CallFacts DEF TypeOK, UndoLeaf, Running, Goto, GotoUpdate
<1>2. Inner(l)
  BY <1>1, BelowRoot DEF Inner, EngineInv
<1>3. IsCurrent(l) /\ status[p] = "UNDOING" /\ p \in Containers \ {Root} /\ p \in Nodes
  BY <1>1, <1>2, NodeFacts DEF RollbackInv, CallsFit, BeingUndone, Inner
<1>4. Listed' /\ TreeFits'
  <2>1. /\ \A i \in Containers : i # l => index'[i] = index[i]
        /\ status[l] # "FREE" /\ status'[l] # "FREE"
        /\ status[p] = "UNDOING" /\ status'[l] # "EXECUTING"
    BY <1>1, <1>3
  <2> QED
    BY <1>1, <1>2, <1>3, <2>1, OneMoves DEF RollbackInv, EngineInv
<1>5. status'[p] = "UNDOING" /\ UpdateFits(p)'
  BY <1>1, <1>3 DEF UpdateFits
<1>6. BeingUndone(l)'
  BY <1>1, <1>3, <1>5 DEF BeingUndone, IsCurrent, HasChild, Child, Size
<1> HIDE DEF p
<1>7. CallsFit'
  BY <1>1, <1>5, <1>6 DEF CallsFit
<1> QED
  BY <1>4, <1>7

\* A container that moves, with a list of children that stay as they are.
LEMMA SelfFits ==
    ASSUME TypeOK, ChildrenFit, Listed, TreeFits, NEW n \in Containers \ {Root}, children'[n] = children[n],
           \A k \in Nodes : k # n => status'[k] = status[k] /\ error'[k] = error[k],
           status'[n] # "FREE" /\ status'[n] # "NOT_STARTED",
           status'[n] \in {"EXECUTING", "ERROR_STOPPED"} => index'[n] >= 0,
           status'[n] = "COMPLETED" => index'[n] >= Size(n) /\ error'[n] = E_OK,
           \A j \in 1 .. Size(n) :
              /\ j # index'[n] + 1 \/ status'[n] \notin {"EXECUTING", "UNDOING"} => Quiet(children[n][j])
              /\ status'[n] = "EXECUTING" => status[children[n][j]] # "UNDOING"
              /\ status'[n] = "UNDOING" => status[children[n][j]] # "EXECUTING"
              /\ status'[n] = "EXECUTING" /\ j <= index'[n] => status[children[n][j]] = "COMPLETED"
              /\ status'[n] = "COMPLETED" => status[children[n][j]] = "COMPLETED"
              /\ status'[n] \in {"EXECUTING", "ERROR_STOPPED"} /\ j > index'[n] + 1 =>
                    status[children[n][j]] = "NOT_STARTED"
              /\ status'[n] = "UNDOING" /\ j > index'[n] + 1 => Settled(children[n][j])
              /\ status'[n] = "UNDO_COMPLETE" => Settled(children[n][j])
    PROVE  ContainerFits(n)'
<1>1. Size(n)' = Size(n)
  BY DEF Size
<1>2. ASSUME NEW j \in 1 .. Size(n)
      PROVE  ChildFits(n, j, children[n][j])'
  <2> DEFINE k == children[n][j]
  <2>1. k \in Elements(children[n]) /\ k \in Nodes
    BY ListFacts
  <2>2. k # n
    BY <2>1 DEF Listed
  <2>3. k' = k /\ status'[k] = status[k] /\ error'[k] = error[k]
    BY <2>1, <2>2
  <2>4. (Quiet(k) => Quiet(k)') /\ (Settled(k) => Settled(k)')
    BY <2>3 DEF Quiet, Settled
  <2>5. Settled(k) => Quiet(k)
    BY DEF Settled, Quiet
  <2> HIDE DEF k
  <2>6. /\ j # index'[n] + 1 \/ status'[n] \notin {"EXECUTING", "UNDOING"} => Quiet(k)
        /\ status'[n] = "EXECUTING" => status[k] # "UNDOING"
        /\ status'[n] = "UNDOING" => status[k] # "EXECUTING"
    BY DEF k
  <2>7. /\ status'[n] = "EXECUTING" /\ j <= index'[n] => status[k] = "COMPLETED"
        /\ status'[n] = "COMPLETED" => status[k] = "COMPLETED"
        /\ status'[n] \in {"EXECUTING", "ERROR_STOPPED"} /\ j > index'[n] + 1 => status[k] = "NOT_STARTED"
        /\ status'[n] = "UNDOING" /\ j > index'[n] + 1 => Settled(k)
        /\ status'[n] = "UNDO_COMPLETE" => Settled(k)
    BY DEF k
  <2>8. ChildFits(n, j, k)'
    BY <2>3, <2>4, <2>6, <2>7 DEF ChildFits, Quiet
  <2> QED
    BY <2>8 DEF k
<1> QED
  BY <1>1, <1>2 DEF ContainerFits

\* update() of a container: what its caller says of it.
LEMMA UpdateMoves ==
    ASSUME TypeOK, EngineInv, RollbackInv, NEW n \in Containers \ {Root}, Update(n)
    PROVE  /\ status[n] \in {"EXECUTING", "UNDOING"} /\ status'[n] # "FREE"
           /\ status[n] = "EXECUTING" => status'[n] \in {"EXECUTING", "ERROR_STOPPED", "COMPLETED"}
           /\ status[n] = "UNDOING" => status'[n] \in {"UNDOING", "UNDO_COMPLETE"} /\ index'[n] = index[n]
           /\ status[n] = "UNDOING" /\ HasChild(n) => status'[n] = "UNDOING"
           /\ ContainerFits(n)'
<1>1. /\ n \in Nodes /\ status \in [Nodes -> States] /\ error \in [Nodes -> Results]
      /\ index \in [Containers -> Int] /\ children' = children /\ Size(n) \in Nat
      /\ \A k \in Nodes : k # n => status'[k] = status[k] /\ error'[k] = error[k]
      /\ HasChild(n) <=> 0 <= index[n] /\ index[n] < Size(n)
  BY NodeFacts, ListFacts DEF Update, TypeOK
<1>2. /\ result \in Failures \cup {0}
      /\ result > 0 <=> result # 0
  BY ErrorAssumption DEF TypeOK, E_OK
<1>3. UpdateFits(n)
  BY CallFacts DEF Update, Running, RollbackInv, CallsFit
<1>4. ContainerFits(n)
  BY DEF RollbackInv, TreeFits
<1>5. \A j \in 1 .. Size(n) : ChildFits(n, j, children[n][j])
  BY <1>4 DEF ContainerFits
<1>6. error'[n] = result
  BY <1>1 DEF Update
<1>7. CASE status[n] = "EXECUTING"
  <2>1. index[n] >= 0
    BY <1>4, <1>7 DEF ContainerFits
  <2>2. ASSUME NEW j \in 1 .. Size(n), j = index[n] + 1
        PROVE  Quiet(children[n][j]) /\ (result = 0 => status[children[n][j]] = "COMPLETED")
    <3>1. HasChild(n) /\ children[n][j] = Child(n)
      BY <1>1, <2>1, <2>2 DEF Child
    <3> QED
      BY <1>3, <1>7, <3>1 DEF UpdateFits, E_OK
  <2>3. ASSUME NEW j \in 1 .. Size(n)
        PROVE  /\ Quiet(children[n][j])
               /\ j <= index[n] => status[children[n][j]] = "COMPLETED"
               /\ j = index[n] + 1 /\ result = 0 => status[children[n][j]] = "COMPLETED"
               /\ j > index[n] + 1 => status[children[n][j]] = "NOT_STARTED"
    BY <1>5, <1>7, <2>2 DEF ChildFits
  <2>4. CASE result > 0
    <3>1. status'[n] = "ERROR_STOPPED" /\ index' = index
      <4>1. ~(result <= 0)
        BY <1>2, <2>4, ErrorAssumption
      <4>2. status' = [status EXCEPT ![n] = "ERROR_STOPPED"] /\ index' = index
        BY <1>7, <4>1 DEF Update
      <4> QED
        BY <1>1, <4>2
    <3>2. ContainerFits(n)'
      BY <1>1, <2>1, <2>3, <3>1, SelfFits DEF RollbackInv, EngineInv, Quiet
    <3> QED
      BY <1>7, <3>1, <3>2
  <2>5. CASE ~(result > 0)
    <3>1. result = 0 /\ result <= 0
      BY <1>2, <2>5
    <3>2. index'[n] = index[n] + 1
      BY <1>1, <1>7, <2>5, <3>1 DEF Update
    <3>3. CASE index[n] + 1 >= Size(n)
      <4>1. status'[n] = "COMPLETED"
        BY <1>1, <1>7, <2>5, <3>1, <3>3 DEF Update
      <4>2. \A j \in 1 .. Size(n) : status[children[n][j]] = "COMPLETED"
        <5>1. ASSUME NEW j \in 1 .. Size(n) PROVE status[children[n][j]] = "COMPLETED"
          <6>1. j <= index[n] \/ j = index[n] + 1
            BY <1>1, <3>3
          <6> QED
            BY <2>3, <3>1, <6>1
        <5> QED
          BY <5>1
      <4>3. index'[n] >= Size(n) /\ error'[n] = E_OK
        BY <1>6, <3>1, <3>2, <3>3 DEF E_OK
      <4>4. ContainerFits(n)'
        BY <1>1, <4>1, <4>2, <4>3, SelfFits DEF RollbackInv, EngineInv, Quiet
      <4> QED
        BY <1>7, <4>1, <4>4
    <3>4. CASE ~(index[n] + 1 >= Size(n))
      <4>1. status'[n] = "EXECUTING"
        BY <1>1, <1>7, <2>5, <3>1, <3>4 DEF Update
      <4>2. ASSUME NEW j \in 1 .. Size(n)
            PROVE  /\ j <= index'[n] => status[children[n][j]] = "COMPLETED"
                   /\ j > index'[n] + 1 => status[children[n][j]] = "NOT_STARTED"
        <5>1. /\ j <= index'[n] => j <= index[n] \/ j = index[n] + 1
              /\ j > index'[n] + 1 => j > index[n] + 1
          BY <1>1, <3>2
        <5> QED
          BY <2>3, <3>1, <5>1
      <4>3. index'[n] >= 0
        BY <1>1, <2>1, <3>2
      <4>4. ContainerFits(n)'
        BY <1>1, <2>3, <4>1, <4>2, <4>3, SelfFits DEF RollbackInv, EngineInv, Quiet
      <4> QED
        BY <1>7, <4>1, <4>4
    <3> QED
      BY <3>3, <3>4
  <2> QED
    BY <2>4, <2>5
<1>8. CASE status[n] = "UNDOING" /\ index[n] < 0
  <2>1. status'[n] = "UNDO_COMPLETE" /\ index' = index
    BY <1>1, <1>8 DEF Update
  <2>2. ASSUME NEW j \in 1 .. Size(n) PROVE Settled(children[n][j])
    <3>1. j > index[n] + 1
      BY <1>1, <1>8
    <3> QED
      BY <1>5, <1>8, <3>1 DEF ChildFits
  <2>3. ContainerFits(n)'
    BY <1>1, <2>1, <2>2, SelfFits DEF RollbackInv, EngineInv, Quiet, Settled
  <2> QED
    BY <1>1, <1>8, <2>1, <2>3
<1>9. CASE status[n] = "UNDOING" /\ ~(index[n] < 0)
  <2>1. status' = status /\ index' = index
    BY <1>1, <1>9 DEF Update
  <2>2. ContainerFits(n)'
    <3>1. n \notin Elements(children[n])
      BY DEF RollbackInv, Listed
    <3>2. \A k \in Elements(children[n]) : k \in Nodes
      BY ListFacts
    <3>3. \A k \in Elements(children[n]) : status'[k] = status[k] /\ error'[k] = error[k]
      BY <1>1, <3>1, <3>2
    <3> QED
      BY <1>1, <1>4, <1>9, <2>1, <3>3, ContainerKept
  <2> QED
    BY <1>9, <2>1, <2>2
<1>10. QED
  BY <1>3, <1>7, <1>8, <1>9 DEF UpdateFits

LEMMA UpdateRollback ==
    ASSUME TypeOK, EngineInv, RollbackInv, NEW n \in Containers, Update(n)
    PROVE  Listed' /\ TreeFits' /\ CallsFit'
<1> DEFINE p == Parent[n]
<1> PICK c \in Nodes : c = cont.node
  BY DEF TypeOK, Calls
<1>1. /\ n \in Nodes /\ children' = children /\ status[n] # "FREE"
      /\ status \in [Nodes -> States] /\ index \in [Containers -> Int] /\ error \in [Nodes -> Results]
      /\ call.op = "update" /\ call.node = n /\ result \in Failures \cup {0}
      /\ \A k \in Nodes : k # n => status'[k] = status[k] /\ error'[k] = error[k]
      /\ \A k \in Containers : k # n => index'[k] = index[k]
  <2>1. n \in Nodes /\ children' = children /\ call = Call("update", n)
        /\ status \in [Nodes -> States] /\ index \in [Containers -> Int] /\ error \in [Nodes -> Results]
        /\ result \in Failures \cup {0}
    BY NodeFacts DEF Update, Running, TypeOK, E_OK
  <2>2. status[n] # "FREE"
    BY CallFacts, <2>1 DEF RollbackInv, CallsFit, UpdateFits, EngineInv, ChildrenFit
  <2>3. \A k \in Nodes : k # n => status'[k] = status[k] /\ error'[k] = error[k]
    BY <2>1 DEF Update
  <2>4. \A k \in Containers : k # n => index'[k] = index[k]
    BY <2>1 DEF Update
  <2> QED
    BY <2>1, <2>2, <2>3, <2>4, CallFacts
<1>2. status'[n] # "FREE"
  BY <1>1 DEF Update
<1>3. Inner(n) => /\ IsCurrent(n) /\ status[p] = status[n] /\ p \in Containers \ {Root} /\ p \in Nodes
  BY <1>1, UpdateMoves, ActiveIsCurrent, NodeFacts DEF RollbackInv, Inner
<1>4. Listed' /\ TreeFits'
  <2>1. Inner(n) => /\ IsCurrent(n)
                    /\ \/ status[p] = "EXECUTING" /\ status'[n] # "UNDOING"
                       \/ status[p] = "UNDOING" /\ status'[n] # "EXECUTING"
    BY <1>3, UpdateMoves DEF Inner
  <2>2. n \in Containers \ {Root} => ContainerFits(n)'
    BY UpdateMoves
  <2> QED
    BY <1>1, <1>2, <2>1, <2>2, OneMoves DEF RollbackInv, EngineInv
\* Where the notifications end, an object that is undone is still the current one.
<1>5. cont.op = "undone" => BeingUndone(c)'
  <2> SUFFICES ASSUME cont.op = "undone", Inner(c) PROVE status'[Parent[c]] = "UNDOING" /\ IsCurrent(c)'
    BY DEF BeingUndone, Inner
  <2>1. status[Parent[c]] = "UNDOING" /\ HasChild(Parent[c]) /\ Child(Parent[c]) = c
    BY <1>1 DEF RollbackInv, CallsFit, BeingUndone, IsCurrent
  <2>2. Parent[c] \in Containers \ {Root} /\ Parent[c] \in Nodes
    BY NodeFacts DEF TypeOK, Calls, Inner
  <2>3. status'[Parent[c]] = "UNDOING" /\ index'[Parent[c]] = index[Parent[c]]
    <3>1. CASE Parent[c] = n
      BY <2>1, <2>2, <3>1, UpdateMoves
    <3>2. CASE Parent[c] # n
      BY <1>1, <2>1, <2>2, <3>2
    <3> QED
      BY <3>1, <3>2
  <2>4. index'[Parent[c]] = index[Parent[c]] /\ children' = children
    BY <1>1, <2>3
  <2>5. IsCurrent(c)'
    BY <2>1, <2>4 DEF IsCurrent, HasChild, Child, Size
  <2> QED
    BY <2>3, <2>5
\* The parent is told what it has to know.
<1>6. ASSUME GotoUpdate(p, result, cont), n # Root,
             status'[n] \in {"ERROR_STOPPED", "COMPLETED", "UNDO_COMPLETE"},
             status'[n] = "ERROR_STOPPED" => result # 0
      PROVE  CallsFit'
  <2>1. call'.op = "update" /\ call'.node = p /\ result' = result /\ cont' = cont
    BY <1>6, CallFacts DEF GotoUpdate
  <2>2. ASSUME p # Root PROVE UpdateFits(p)'
    <3>1. Inner(n) /\ n # p
      <4>1. Inner(n)
        BY <1>6, <2>2 DEF Inner
      <4>2. CASE n = p
        <5>1. n \in Elements(children[n])
          <6>1. HasChild(n) /\ Child(n) = n
            BY <1>3, <4>1, <4>2 DEF IsCurrent
          <6> QED
            BY <6>1, CurrentChild DEF EngineInv
        <5> QED
          BY <5>1 DEF RollbackInv, Listed
      <4> QED
        BY <4>1, <4>2
    <3>2. status'[p] = status[p] /\ index'[p] = index[p] /\ p \in Containers
      BY <1>1, <1>3, <3>1
    <3>3. Child(p)' = n
      BY <1>1, <1>3, <3>1, <3>2 DEF IsCurrent, Child
    <3>4. status[p] = "EXECUTING" => status'[n] \in {"ERROR_STOPPED", "COMPLETED"}
      BY <1>3, <1>6, <3>1, UpdateMoves
    <3>5. status[p] \in {"EXECUTING", "UNDOING"}
      BY <1>3, <1>6, <3>1, UpdateMoves
    <3> HIDE DEF p
    <3>6. status'[p] = "EXECUTING" => Quiet(n)' /\ (result' = 0 => status'[n] = "COMPLETED")
      BY <1>6, <2>1, <3>2, <3>4 DEF Quiet
    <3>7. status'[p] = "EXECUTING" => Quiet(Child(p))' /\ (result' = 0 => status'[Child(p)'] = "COMPLETED")
      BY <3>3, <3>6 DEF Quiet
    <3> QED
      BY <3>2, <3>5, <3>7 DEF UpdateFits, E_OK
  <2> HIDE DEF p
  <2>3. cont'.op = "undone" => BeingUndone(c)' /\ cont'.node = c
    BY <1>5, <2>1
  <2> QED
    BY <2>1, <2>2, <2>3 DEF CallsFit
<1>7. ASSUME Absorb PROVE CallsFit'
  <2>1. call' = cont /\ cont.op \in {"execute", "executed", "undone"}
        /\ (cont.op = "execute" => cont.node = Root)
    BY <1>1, <1>7 DEF Absorb, EngineInv, ContFits
  <2>2. CASE cont.op = "undone"
    <3>1. BeingUndone(c)' /\ call'.node = c /\ call'.op = "undone"
      BY <1>5, <2>1, <2>2
    <3> QED
      BY <3>1 DEF CallsFit
  <2>3. CASE cont.op # "undone"
    BY <2>1, <2>3, FreeCalls
  <2> QED
    BY <2>2, <2>3
\* It is told of every end, or nobody is.
<1>8. CASE Absorb
  BY <1>4, <1>7, <1>8
<1>9. CASE ~Absorb
  <2>1. /\ result > 0 => result # 0
        /\ n = Root \/ GotoUpdate(p, result, cont)
        /\ \/ status'[n] = "ERROR_STOPPED" /\ result > 0
           \/ status'[n] \in {"COMPLETED", "UNDO_COMPLETE"}
    <3>1. result > 0 => result # 0
      OBVIOUS
    <3>2. n = Root \/ GotoUpdate(p, result, cont)
      BY <1>9 DEF Update, Notify
    <3>3. \/ status' = [status EXCEPT ![n] = "ERROR_STOPPED"] /\ result > 0
          \/ status' = [status EXCEPT ![n] = "COMPLETED"]
          \/ status' = [status EXCEPT ![n] = "UNDO_COMPLETE"]
      BY <1>9 DEF Update
    <3> QED
      BY <1>1, <3>1, <3>2, <3>3
  <2>2. n # Root
    BY <1>9 DEF Update, Notify
  <2> QED
    BY <1>4, <1>6, <2>1, <2>2
<1> QED
  BY <1>8, <1>9

\* undo() of a container and the way back through its children.
LEMMA UndoContainerRollback ==
    ASSUME TypeOK, EngineInv, RollbackInv, NEW n \in Containers, UndoContainer(n)
    PROVE  Listed' /\ TreeFits' /\ CallsFit'
<1> DEFINE p == Parent[n]
<1>1. /\ n \in Nodes /\ children' = children /\ call = Call("undo", n) /\ Size(n) \in Nat
      /\ status \in [Nodes -> States] /\ index \in [Containers -> Int] /\ error \in [Nodes -> Results]
      /\ HasChild(n) <=> 0 <= index[n] /\ index[n] < Size(n)
  BY NodeFacts, ListFacts DEF UndoContainer, Running, TypeOK
<1>2. NeedsUndo(n) /\ BeingUndone(n)
  BY <1>1, CallFacts DEF EngineInv, ControlFits, RollbackInv, CallsFit
<1>3. \/ /\ Size(n) > 0 \/ ~Undoable(n)
         /\ status' = [status EXCEPT ![n] = "UNDOING"]
         /\ index' = [index EXCEPT ![n] = Clip(n)] /\ call' = Call("undoLoop", n)
      \/ /\ ~(Size(n) > 0) /\ Undoable(n)
         /\ status' = [status EXCEPT ![n] = "UNDO_COMPLETE"]
         /\ index' = index /\ call' = Call("undone", n)
  <2>1. CASE Undoable(n) /\ Size(n) > 0
    BY <2>1 DEF UndoContainer, Goto
  <2>2. CASE Undoable(n) /\ ~(Size(n) > 0)
    BY <2>2 DEF UndoContainer, Goto
  <2>3. CASE ~Undoable(n)
    <3>1. status[n] = "UNDOING"
      BY <1>2, <2>3 DEF NeedsUndo
    <3> QED
      BY <2>3, <3>1 DEF UndoContainer, Goto
  <2> QED
    BY <2>1, <2>2, <2>3
<1>4. error' = error \/ error' = [error EXCEPT ![n] = E_OK]
  BY DEF UndoContainer
<1>5. /\ \A k \in Nodes : k # n => status'[k] = status[k] /\ error'[k] = error[k]
      /\ \A k \in Containers : k # n => index'[k] = index[k]
  BY <1>1, <1>3, <1>4
<1>6. status'[n] \in {"UNDOING", "UNDO_COMPLETE"} /\ status[n] \in {"ERROR_STOPPED", "COMPLETED", "UNDOING"}
  BY <1>1, <1>2, <1>3 DEF NeedsUndo, Undoable
<1>7. Inner(n) => IsCurrent(n) /\ status[p] = "UNDOING" /\ p \in Containers
  BY <1>1, <1>2, NodeFacts DEF BeingUndone, Inner
<1>8. ASSUME n # Root PROVE ContainerFits(n)'
  <2>1. ContainerFits(n) /\ \A j \in 1 .. Size(n) : ChildFits(n, j, children[n][j])
    BY <1>8 DEF RollbackInv, TreeFits, ContainerFits
  <2>2. CASE status'[n] = "UNDOING"
    <3>1. index'[n] = Clip(n)
      BY <1>1, <1>3, <2>2
    <3>2. ASSUME NEW j \in 1 .. Size(n)
          PROVE  /\ j # index'[n] + 1 => Quiet(children[n][j])
                 /\ status[children[n][j]] # "EXECUTING"
                 /\ j > index'[n] + 1 => Settled(children[n][j])
      <4>1. ChildFits(n, j, children[n][j])
        BY <2>1
      <4>2. status[children[n][j]] # "EXECUTING"
        BY <1>6, <4>1 DEF ChildFits
      <4>3. CASE HasChild(n)
        <5>1. index'[n] = index[n] /\ status[n] # "COMPLETED"
          BY <1>1, <2>1, <3>1, <4>3 DEF Clip, ContainerFits
        <5> QED
          BY <1>6, <4>1, <4>2, <5>1 DEF ChildFits, Settled
      <4>4. CASE ~HasChild(n)
        <5>1. index'[n] = Size(n) - 1
          BY <3>1, <4>4 DEF Clip
        <5>2. j # index[n] + 1
          BY <1>1, <4>4
        <5>3. ~(j > index'[n] + 1)
          BY <1>1, <5>1
        <5> QED
          BY <4>1, <4>2, <5>2, <5>3 DEF ChildFits
      <4> QED
        BY <4>3, <4>4
    <3> QED
      BY <1>1, <1>5, <1>8, <2>2, <3>2, SelfFits DEF RollbackInv, EngineInv
  <2>3. CASE status'[n] = "UNDO_COMPLETE"
    <3>1. ~(\E j \in 1 .. Size(n) : TRUE)
      BY <1>1, <1>3, <2>3
    <3> QED
      BY <1>1, <1>5, <1>8, <2>3, <3>1, SelfFits DEF RollbackInv, EngineInv
  <2> QED
    BY <1>6, <2>2, <2>3
<1>9. Listed' /\ TreeFits'
  BY <1>1, <1>5, <1>6, <1>7, <1>8, OneMoves DEF RollbackInv, EngineInv
<1>10. CallsFit'
  <2>1. CASE call' = Call("undoLoop", n)
    <3>1. call'.op = "undoLoop" /\ call'.node = n /\ (n # Root => status'[n] = "UNDOING")
      BY <1>1, <1>3, <2>1, CallFacts
    <3> QED
      BY <3>1 DEF CallsFit
  <2>2. CASE call' = Call("undone", n)
    <3>1. call'.op = "undone" /\ call'.node = n /\ index' = index
      BY <1>3, <2>2, CallFacts
    <3>2. Inner(n) => p # n
      <4> SUFFICES ASSUME Inner(n), p = n PROVE FALSE
        OBVIOUS
      <4>1. n \in Elements(children[n])
        BY <1>7, CurrentChild DEF IsCurrent, EngineInv
      <4> QED
        BY <4>1 DEF RollbackInv, Listed
    <3>3. Inner(n) => status'[p] = "UNDOING"
      BY <1>1, <1>5, <1>7, <3>2, NodeFacts
    <3>4. IsCurrent(n)' <=> IsCurrent(n)
      BY <1>1, <3>1 DEF IsCurrent, HasChild, Child, Size
    <3>5. BeingUndone(n)'
      BY <1>7, <3>3, <3>4 DEF BeingUndone, Inner
    <3> QED
      BY <3>1, <3>5 DEF CallsFit
  <2> QED
    BY <1>3, <2>1, <2>2
<1> QED
  BY <1>9, <1>10

\* A container that is undone passes a child with nothing left to undo.
LEMMA PassedChild ==
    ASSUME TypeOK, EngineInv, RollbackInv, NEW n \in Containers, n # Root => status[n] = "UNDOING", HasChild(n),
           Settled(Child(n)), UNCHANGED <<status, error, children>>,
           index' = [index EXCEPT ![n] = @ - 1], call' = Call("undoLoop", n)
    PROVE  Listed' /\ TreeFits' /\ CallsFit'
<1>1. /\ n \in Nodes /\ index \in [Containers -> Int] /\ index[n] \in Int /\ Size(n) \in Nat
      /\ index'[n] = index[n] - 1 /\ \A k \in Containers : k # n => index'[k] = index[k]
      /\ call'.op = "undoLoop" /\ call'.node = n /\ status[n] # "FREE"
  BY NodeFacts, ListFacts, CallFacts DEF TypeOK, EngineInv, ChildrenFit
<1>2. ASSUME n # Root PROVE ContainerFits(n)'
  <2>1. \A j \in 1 .. Size(n) : ChildFits(n, j, children[n][j])
    BY <1>2 DEF RollbackInv, TreeFits, ContainerFits
  <2>2. ASSUME NEW j \in 1 .. Size(n)
        PROVE  /\ j # index'[n] + 1 => Quiet(children[n][j])
               /\ status[children[n][j]] # "EXECUTING"
               /\ j > index'[n] + 1 => Settled(children[n][j])
    <3>1. CASE j = index[n] + 1
      BY <3>1 DEF Child, Settled, Quiet
    <3>2. CASE j # index[n] + 1
      <4>1. j > index'[n] + 1 => j > index[n] + 1
        BY <1>1, <3>2
      <4> QED
        BY <1>2, <2>1, <3>2, <4>1 DEF ChildFits
    <3> QED
      BY <3>1, <3>2
  <2> QED
    BY <1>1, <1>2, <2>2, SelfFits DEF RollbackInv, EngineInv
<1>3. Inner(n) => IsCurrent(n) /\ status[Parent[n]] = "UNDOING"
  BY <1>1, ActiveIsCurrent DEF RollbackInv, Inner
<1>4. Listed' /\ TreeFits'
  <2>1. Inner(n) => IsCurrent(n) /\ status[Parent[n]] = "UNDOING" /\ status'[n] # "EXECUTING"
    BY <1>3 DEF Inner
  <2> QED
    BY <1>1, <1>2, <2>1, OneMoves DEF RollbackInv, EngineInv
<1>5. CallsFit'
  BY <1>1 DEF CallsFit
<1> QED
  BY <1>4, <1>5

LEMMA LoopUndoRollback ==
    ASSUME TypeOK, EngineInv, RollbackInv, NEW n \in Containers, LoopUndo(n)
    PROVE  Listed' /\ TreeFits' /\ CallsFit'
<1>1. /\ n \in Nodes /\ call.op = "undoLoop" /\ call.node = n
      /\ UNCHANGED <<status, error, children>>
      /\ n # Root => status[n] = "UNDOING"
  BY NodeFacts, CallFacts DEF LoopUndo, Running, RollbackInv, CallsFit
<1>2. Inner(n) => IsCurrent(n) /\ status[Parent[n]] = "UNDOING"
  BY <1>1, ActiveIsCurrent DEF RollbackInv, Inner
<1>3. CASE index' = index
  <2>1. Listed' /\ TreeFits'
    BY <1>1, <1>3, TreeKept DEF RollbackInv
  <2>2. CASE GotoUpdate(n, error[n], Call("undone", n))
    <3>1. call'.op = "update" /\ call'.node = n /\ cont'.node = n /\ cont'.op = "undone"
      BY <2>2, CallFacts DEF GotoUpdate
    <3>2. n # Root => UpdateFits(n)'
      BY <1>1 DEF UpdateFits
    <3>3. BeingUndone(n)'
      BY <1>1, <1>2, <1>3, PlaceKept DEF BeingUndone
    <3>4. CallsFit'
      BY <3>1, <3>2, <3>3 DEF CallsFit
    <3> QED
      BY <2>1, <3>4
  <2>3. CASE HasChild(n) /\ Goto("undo", Child(n))
    <3>1. call'.op = "undo" /\ call'.node = Child(n)
      BY <2>3, CallFacts DEF Goto
    <3>2. Parent[Child(n)] = n
      BY <2>3, CurrentChild DEF EngineInv
    <3>3. BeingUndone(Child(n))
      BY <1>1, <2>3, <3>2 DEF BeingUndone, IsCurrent, Inner
    <3>4. PICK k : k = Child(n)
      OBVIOUS
    <3>5. BeingUndone(k)'
      BY <1>1, <1>3, <3>3, <3>4, PlaceKept
    <3>6. CallsFit'
      BY <3>1, <3>4, <3>5 DEF CallsFit
    <3> QED
      BY <2>1, <3>6
  <2>4. CASE index' = [index EXCEPT ![n] = @ - 1]
    <3>1. index[n] - 1 = index[n] /\ index[n] \in Int
      BY <1>3, <2>4 DEF TypeOK
    <3> QED
      BY <3>1
  <2> QED
    BY <2>2, <2>3, <2>4 DEF LoopUndo
<1>4. CASE HasChild(n) /\ ~NeedsUndo(Child(n)) /\ index' = [index EXCEPT ![n] = @ - 1] /\ Goto("undoLoop", n)
  <2> DEFINE k == Child(n)
  <2>1. k \in Nodes \ {Root} /\ Parent[k] = n /\ k \in Elements(children[n])
    BY <1>4, CurrentChild DEF EngineInv
  <2>2. CASE n = Root
    <3>1. Inner(n) => FALSE
      BY <2>2 DEF Inner
    <3>2. /\ \A i \in Containers : i # n => index'[i] = index[i]
          /\ status[n] # "FREE" /\ status'[n] # "FREE"
      BY <1>1, <1>4, <2>2 DEF TypeOK, EngineInv, ChildrenFit
    <3>3. Listed' /\ TreeFits'
      BY <1>1, <2>2, <3>1, <3>2, OneMoves DEF RollbackInv, EngineInv
    <3>4. CallsFit'
      BY <1>4, <2>2, CallFacts, FreeCalls DEF Goto
    <3> QED
      BY <3>3, <3>4
  <2>3. CASE n # Root
    <3>1. status[k] \notin {"EXECUTING", "UNDOING", "ERROR_STOPPED"} /\ ~(status[k] = "COMPLETED" /\ error[k] = E_OK)
      <4>1. PICK j \in 1 .. Size(n) : k = children[n][j]
        BY <2>1, ListFacts
      <4>2. ChildFits(n, j, k)
        BY <2>3, <4>1 DEF RollbackInv, TreeFits, ContainerFits
      <4> QED
        BY <1>1, <1>4, <2>3, <4>2 DEF ChildFits, NeedsUndo, Undoable
    <3>2. status[k] = "COMPLETED" => k \in Leaves
      <4>1. ASSUME status[k] = "COMPLETED", k \in Containers PROVE FALSE
        <5>1. ContainerFits(k)
          BY <2>1, <4>1 DEF RollbackInv, TreeFits
        <5> QED
          BY <3>1, <4>1, <5>1 DEF ContainerFits
      <4> QED
        BY <2>1, <4>1 DEF Nodes
    <3>3. Settled(k)
      BY <3>1, <3>2 DEF Settled
    <3> QED
      BY <1>1, <1>4, <3>3, PassedChild DEF Goto
  <2> QED
    BY <2>2, <2>3
<1> QED
  BY <1>3, <1>4 DEF LoopUndo

LEMMA UndoneRollback ==
    ASSUME TypeOK, EngineInv, RollbackInv, NEW n \in Nodes, Undone(n)
    PROVE  Listed' /\ TreeFits' /\ CallsFit'
<1> DEFINE p == Parent[n]
<1>1. /\ call.op = "undone" /\ call.node = n /\ UNCHANGED <<status, error, children>>
      /\ BeingUndone(n)
  BY CallFacts DEF Undone, Running, RollbackInv, CallsFit
<1>2. CASE n = Root /\ Goto("cleanup", Root) /\ UNCHANGED index
  <2>1. Listed' /\ TreeFits'
    BY <1>1, <1>2, TreeKept DEF RollbackInv
  <2> QED
    BY <1>2, <2>1, CallFacts, FreeCalls DEF Goto
<1>3. CASE /\ n # Root /\ UndoGoesOn(n) /\ index' = [index EXCEPT ![p] = @ - 1]
           /\ Goto("undoLoop", p)
  <2>1. p \in Containers /\ p \in Nodes
    BY <1>3, NodeFacts
  <2>2. CASE p = Root
    <3>1. Inner(p) => FALSE
      BY <2>2 DEF Inner
    <3>2. /\ \A i \in Containers : i # p => index'[i] = index[i]
          /\ status[p] # "FREE" /\ status'[p] # "FREE"
      BY <1>1, <1>3, <2>2 DEF TypeOK, EngineInv, ChildrenFit
    <3>3. Listed' /\ TreeFits'
      BY <1>1, <2>1, <2>2, <3>1, <3>2, OneMoves DEF RollbackInv, EngineInv
    <3>4. CallsFit'
      BY <1>3, <2>2, CallFacts, FreeCalls DEF Goto
    <3> QED
      BY <3>3, <3>4
  <2>3. CASE p # Root
    <3>1. status[p] = "UNDOING" /\ HasChild(p) /\ Child(p) = n
      BY <1>1, <1>3, <2>3 DEF BeingUndone, IsCurrent, Inner
    <3>2. Settled(Child(p))
      BY <1>3, <3>1 DEF Settled, UndoGoesOn
    <3> QED
      BY <1>1, <1>3, <2>1, <3>1, <3>2, PassedChild DEF Goto
  <2> QED
    BY <2>2, <2>3
<1>4. CASE n # Root /\ Goto("undone", p) /\ UNCHANGED index
  <2>1. Listed' /\ TreeFits'
    BY <1>1, <1>4, TreeKept DEF RollbackInv
  <2>2. call'.op = "undone" /\ call'.node = p
    BY <1>4, CallFacts DEF Goto
  <2>3. ASSUME Inner(p) PROVE BeingUndone(p)'
    <3>1. p \in Nodes /\ status[p] = "UNDOING"
      BY <1>1, <1>4, <2>3, NodeFacts DEF BeingUndone, Inner
    <3>2. BeingUndone(p)
      BY <2>3, <3>1, ActiveIsCurrent DEF RollbackInv, BeingUndone
    <3> QED
      BY <1>1, <1>4, <3>2, PlaceKept
  <2>4. BeingUndone(p)'
    BY <2>3 DEF BeingUndone, Inner
  <2>5. CallsFit'
    BY <2>2, <2>4 DEF CallsFit
  <2> QED
    BY <2>1, <2>5
<1> QED
  BY <1>2, <1>3, <1>4 DEF Undone

-----------------------------------------------------------------------------
(* cleanup() and delete *)

\* What cleanup() leaves without a child to clean up has no child.
LEMMA CleanedIsEmpty ==
    ASSUME TypeOK, EngineInv, RollbackInv, NEW n \in Containers \ {Root}, status[n] \in Cleanable,
           children[n] # <<>> => ~Disposable(n, Head(children[n]))
    PROVE  children[n] = <<>>
<1> SUFFICES ASSUME children[n] # <<>> PROVE FALSE
  OBVIOUS
<1> DEFINE h == Head(children[n])
<1>1. children[n] \in Seq(Nodes \ {Root}) /\ n \in Nodes
  BY NodeFacts DEF TypeOK
<1>2. 1 \in 1 .. Size(n) /\ h = children[n][1]
  BY <1>1, EmptySeq DEF Size
<1>3. h \in Elements(children[n]) /\ h \in Nodes \ {Root} /\ Parent[h] = n
  BY <1>2, ListFacts DEF EngineInv, ChildrenFit
<1>4. status[h] \in States
  BY <1>3 DEF TypeOK
<1>5. ContainerFits(n) /\ ChildFits(n, 1, h)
  BY <1>2 DEF RollbackInv, TreeFits, ContainerFits
<1>6. CASE status[n] = "COMPLETED"
  BY <1>5, <1>6 DEF ChildFits, Disposable
<1>7. CASE status[n] = "NOT_STARTED"
  BY <1>5, <1>7 DEF ContainerFits
<1>8. CASE status[n] = "UNDO_COMPLETE"
  <2>1. Settled(h) /\ ~Disposable(n, h)
    BY <1>5, <1>8 DEF ChildFits
  <2>2. status[h] = "FREE"
    BY <1>4, <1>8, <2>1 DEF Settled, Disposable, States
  <2> QED
    BY <1>3, <2>2 DEF RollbackInv, Listed
<1> QED
  BY <1>6, <1>7, <1>8 DEF Cleanable

LEMMA CleanupSelfRollback ==
    ASSUME TypeOK, EngineInv, RollbackInv, NEW n \in Containers, CleanupSelf(n)
    PROVE  Listed' /\ TreeFits' /\ CallsFit'
<1>1. /\ n \in Nodes /\ children' = children /\ index' = [index EXCEPT ![n] = 0]
      /\ call.op = "cleanup" /\ call.node = n /\ index \in [Containers -> Int]
      /\ children[n] # <<>> => ~Disposable(n, Head(children[n]))
      /\ status[Root] # "FREE"
  BY NodeFacts, CallFacts DEF CleanupSelf, Running, TypeOK, EngineInv, ChildrenFit
<1>2. CASE n = Root
  <2>1. /\ \A k \in Nodes : k # n => status'[k] = status[k] /\ error'[k] = error[k]
        /\ status'[n] # "FREE" /\ call' = Call("dispatch", Root)
    BY <1>1, <1>2 DEF CleanupSelf, Goto, TypeOK
  <2>2. Inner(n) => FALSE
    BY <1>2 DEF Inner
  <2>3. Listed' /\ TreeFits'
    BY <1>1, <1>2, <2>1, <2>2, OneMoves DEF RollbackInv, EngineInv
  <2>4. CallsFit'
    BY <2>1, CallFacts, FreeCalls
  <2> QED
    BY <2>3, <2>4
<1>3. CASE n # Root
  <2>1. status' = status /\ error' = error /\ call'.op = "delete" /\ call'.node = n
    BY <1>3, CallFacts DEF CleanupSelf, Goto
  <2>2. status[n] \in Cleanable /\ OnCleanPath(n)
    BY <1>1, <1>3 DEF RollbackInv, CallsFit
  <2>3. children[n] = <<>>
    BY <1>1, <1>3, <2>2, CleanedIsEmpty
  <2>4. Listed'
    BY <1>1, <2>1 DEF RollbackInv, Listed, Size, Elements
  <2>5. ASSUME NEW k \in Containers \ {Root} PROVE ContainerFits(k)'
    <3>1. CASE k = n
      <4>1. Size(n)' = 0 /\ children'[n] = <<>> /\ index'[n] = 0 /\ status'[n] \in Cleanable
        BY <1>1, <2>1, <2>2, <2>3 DEF Size
      <4>2. ContainerFits(n)
        BY <1>3 DEF RollbackInv, TreeFits
      <4> QED
        BY <2>1, <3>1, <4>1, <4>2 DEF ContainerFits, Cleanable
    <3>2. CASE k # n
      BY <1>1, <2>1, <3>2, ContainerKept DEF RollbackInv, TreeFits
    <3> QED
      BY <3>1, <3>2
  <2>6. OnCleanPath(n)'
    BY <2>1, <2>2 DEF OnCleanPath, CleanAbove
  <2>7. CallsFit'
    BY <1>1, <2>1, <2>2, <2>3, <2>6 DEF CallsFit
  <2> QED
    BY <2>4, <2>5, <2>7 DEF TreeFits
<1> QED
  BY <1>2, <1>3

\* The path above an object that is deleted does not lead through it.
LEMMA DeletedOffPath ==
    ASSUME TypeOK, RollbackInv, NEW n \in Nodes \ {Root}, n \in Containers => children[n] = <<>>,
           NEW k \in Containers, k # n, k # Root => status[k] \in Cleanable, OnCleanPath(k),
           \A a \in Nodes : a # n => status'[a] = status[a]
    PROVE  OnCleanPath(k)'
<1>1. PICK A \in SUBSET Containers : CleanAbove(k, A)
  BY DEF OnCleanPath
<1>2. ASSUME NEW a \in Containers \ {Root}, status[a] \in Cleanable PROVE Parent[a] # n
  <2> SUFFICES ASSUME Parent[a] = n PROVE FALSE
    OBVIOUS
  <2>1. a \in Elements(children[Parent[a]]) /\ n \in Containers
    BY <1>2, NodeFacts DEF RollbackInv, Listed, Cleanable
  <2>2. Elements(children[n]) = {}
    BY <2>1 DEF Elements
  <2> QED
    BY <2>1, <2>2
<1>3. CleanAbove(k, A \ {n})'
  <2>1. k # Root => Parent[k] \in A \ {n}
    BY <1>1, <1>2 DEF CleanAbove
  <2>2. ASSUME NEW a \in A \ {n}, a # Root PROVE status'[a] \in Cleanable /\ Parent[a] \in A \ {n}
    <3>1. status[a] \in Cleanable /\ Parent[a] \in A /\ a \in Containers \ {Root} /\ a \in Nodes
      BY <1>1, <2>2, NodeFacts DEF CleanAbove
    <3> QED
      BY <1>2, <2>2, <3>1
  <2> QED
    BY <2>1, <2>2 DEF CleanAbove
<1>4. A \ {n} \in SUBSET Containers
  BY <1>1
<1> QED
  BY <1>3, <1>4 DEF OnCleanPath

LEMMA TailFacts ==
    ASSUME NEW S, NEW s \in Seq(S), s # <<>>,
           \A i, j \in 1 .. Len(s) : s[i] = s[j] => i = j
    PROVE  /\ Tail(s) \in Seq(S) /\ Len(s) \in Nat /\ Len(Tail(s)) = Len(s) - 1
           /\ \A j \in 1 .. Len(s) - 1 : j + 1 \in 1 .. Len(s) /\ Tail(s)[j] = s[j + 1] /\ Tail(s)[j] # Head(s)
           /\ \A i, j \in 1 .. Len(s) - 1 : Tail(s)[i] = Tail(s)[j] => i = j
           /\ Elements(Tail(s)) = Elements(s) \ {Head(s)}
<1>1. /\ Tail(s) \in Seq(S) /\ Len(s) \in Nat /\ Len(s) >= 1 /\ Len(Tail(s)) = Len(s) - 1
      /\ DOMAIN s = 1 .. Len(s) /\ DOMAIN Tail(s) = 1 .. Len(s) - 1 /\ Head(s) = s[1]
      /\ \A j \in 1 .. Len(s) - 1 : Tail(s)[j] = s[j + 1]
  BY EmptySeq, HeadTailProperties
<1>2. ASSUME NEW j \in 1 .. Len(s) - 1
      PROVE  j + 1 \in 1 .. Len(s) /\ Tail(s)[j] = s[j + 1] /\ Tail(s)[j] # Head(s)
  <2>1. j + 1 \in 1 .. Len(s) /\ 1 \in 1 .. Len(s) /\ j + 1 # 1
    BY <1>1
  <2> QED
    BY <1>1, <2>1
<1>3. ASSUME NEW i \in 1 .. Len(s) - 1, NEW j \in 1 .. Len(s) - 1, Tail(s)[i] = Tail(s)[j]
      PROVE  i = j
  <2>1. i + 1 = j + 1
    BY <1>2, <1>3
  <2> QED
    BY <2>1
<1>4. ASSUME NEW x \in Elements(s), x # Head(s) PROVE x \in Elements(Tail(s))
  <2>1. PICK i \in 1 .. Len(s) : x = s[i]
    BY <1>1 DEF Elements
  <2>2. i - 1 \in 1 .. Len(s) - 1 /\ (i - 1) + 1 = i
    BY <1>1, <1>4, <2>1
  <2>3. x = Tail(s)[i - 1]
    BY <1>1, <2>1, <2>2
  <2> QED
    BY <1>1, <2>2, <2>3 DEF Elements
<1>5. ASSUME NEW x \in Elements(Tail(s)) PROVE x \in Elements(s) /\ x # Head(s)
  <2>1. PICK i \in 1 .. Len(s) - 1 : x = Tail(s)[i]
    BY <1>1 DEF Elements
  <2>2. i + 1 \in 1 .. Len(s) /\ x = s[i + 1] /\ x # Head(s)
    BY <1>2, <2>1
  <2> QED
    BY <1>1, <2>2 DEF Elements
<1>6. Elements(Tail(s)) = Elements(s) \ {Head(s)}
  BY <1>4, <1>5
<1> QED
  BY <1>1, <1>2, <1>3, <1>6

LEMMA DeleteRollback ==
    ASSUME TypeOK, EngineInv, RollbackInv, NEW n \in Nodes, Delete(n)
    PROVE  Listed' /\ TreeFits' /\ CallsFit'
<1> DEFINE p == Parent[n]
           s == children[p]
<1>1. /\ n \in Nodes \ {Root} /\ p \in Containers /\ p \in Nodes /\ s # <<>> /\ Head(s) = n
      /\ call.op = "delete" /\ call.node = n /\ call' = Call("cleanup", p)
  BY NodeFacts, CallFacts DEF Delete, Running, Goto
<1>2. /\ OnCleanPath(n) /\ status[n] \in Cleanable /\ (n \in Containers => children[n] = <<>>)
  BY <1>1 DEF RollbackInv, CallsFit
<1>3. n # p
  BY <1>1, <1>2
<1>4. /\ status'[n] = "FREE" /\ \A k \in Nodes : k # n => status'[k] = status[k] /\ error'[k] = error[k]
      /\ \A k \in Containers : index'[k] = (IF k = n THEN 0 ELSE index[k])
      /\ \A k \in Containers : k # n /\ k # p => children'[k] = children[k]
      /\ children'[p] = Tail(s) /\ (n \in Containers => children'[n] = <<>>)
  <2>1. status'[n] = "FREE" /\ \A k \in Nodes : k # n => status'[k] = status[k] /\ error'[k] = error[k]
    BY DEF Delete, TypeOK
  <2>2. \A k \in Containers : index'[k] = (IF k = n THEN 0 ELSE index[k])
    BY DEF Delete
  <2> QED
    BY <1>1, <1>3, <2>1, <2>2 DEF Delete
<1>5. s \in Seq(Nodes \ {Root}) /\ \A i, j \in 1 .. Len(s) : s[i] = s[j] => i = j
  BY <1>1 DEF TypeOK, RollbackInv, Listed, Size
<1>6. /\ Len(s) \in Nat /\ Len(Tail(s)) = Len(s) - 1 /\ Elements(Tail(s)) = Elements(s) \ {n}
      /\ \A j \in 1 .. Len(s) - 1 : j + 1 \in 1 .. Len(s) /\ Tail(s)[j] = s[j + 1] /\ Tail(s)[j] # n
      /\ \A i, j \in 1 .. Len(s) - 1 : Tail(s)[i] = Tail(s)[j] => i = j
  BY <1>1, <1>5, TailFacts
<1>7. ASSUME NEW k \in Containers, k # p PROVE n \notin Elements(children[k])
  BY <1>7 DEF EngineInv, ChildrenFit
<1> PICK q \in Containers : q = p
  BY <1>1
<1> HIDE DEF s, p
<1>8. Listed'
  <2>1. ASSUME NEW k \in Nodes \ {Root} PROVE status'[k] # "FREE" <=> k \in Elements(children'[Parent[k]])
    <3>1. status[k] # "FREE" <=> k \in Elements(children[Parent[k]])
      BY DEF RollbackInv, Listed
    <3>2. Parent[k] \in Containers
      BY NodeFacts
    <3>3. CASE k = n
      BY <1>4, <1>6, <3>3 DEF p
    <3>4. CASE k # n /\ Parent[k] = p
      BY <1>4, <1>6, <3>1, <3>4 DEF s
    <3>5. CASE k # n /\ Parent[k] = n
      <4>1. children'[n] = <<>> /\ children[n] = <<>>
        BY <1>2, <1>4, <3>2, <3>5
      <4> QED
        BY <1>4, <3>1, <3>5, <4>1
    <3>6. CASE k # n /\ Parent[k] # n /\ Parent[k] # p
      BY <1>4, <3>1, <3>2, <3>6
    <3> QED
      BY <3>3, <3>4, <3>5, <3>6
  <2>2. ASSUME NEW k \in Containers
        PROVE  /\ \A i, j \in 1 .. Len(children'[k]) : children'[k][i] = children'[k][j] => i = j
               /\ k \notin Elements(children'[k])
    <3>1. /\ \A i, j \in 1 .. Len(children[k]) : children[k][i] = children[k][j] => i = j
          /\ k \notin Elements(children[k])
      BY DEF RollbackInv, Listed, Size
    <3>2. CASE k = n
      <4>1. children'[k] = <<>>
        BY <1>4, <3>2
      <4> QED
        BY <4>1 DEF Elements
    <3>3. CASE k # n /\ k = p
      <4>1. children'[k] = Tail(s) /\ children[k] = s
        BY <1>4, <3>3 DEF s
      <4>2. \A i, j \in 1 .. Len(Tail(s)) : Tail(s)[i] = Tail(s)[j] => i = j
        BY <1>6
      <4>3. k \notin Elements(Tail(s))
        BY <1>6, <3>1, <4>1
      <4> QED
        BY <4>1, <4>2, <4>3
    <3>4. CASE k # n /\ k # p
      BY <1>4, <3>1, <3>4
    <3> QED
      BY <3>2, <3>3, <3>4
  <2> QED
    BY <2>1, <2>2 DEF Listed, Size
<1>9. ASSUME NEW k \in Containers \ {Root} PROVE ContainerFits(k)'
  <2>1. ContainerFits(k) /\ k \in Nodes
    BY NodeFacts DEF RollbackInv, TreeFits
  <2>2. CASE k = n
    <3>1. status'[k] = "FREE" /\ children'[k] = <<>> /\ index'[k] = 0 /\ Size(k)' = 0
      BY <1>4, <2>2 DEF Size
    <3> QED
      BY <3>1 DEF ContainerFits
  <2>3. CASE k # n /\ k = p
    <3>1. /\ status'[k] = status[k] /\ error'[k] = error[k] /\ index'[k] = index[k] /\ children[k] = s
          /\ Size(k)' = Len(s) - 1 /\ Size(k) = Len(s) /\ children'[k] = Tail(s) /\ index[k] \in Int
      BY <1>4, <1>6, <2>1, <2>3 DEF s, Size, TypeOK
    <3>2. status[k] \in Cleanable
      BY <1>1, <1>2, <2>3, CleanPathUp DEF p
    <3>3. status[k] \in {"COMPLETED", "UNDO_COMPLETE"}
      BY <1>1, <2>1, <3>1, <3>2 DEF ContainerFits, Cleanable
    <3>4. ASSUME NEW j \in 1 .. Len(s) - 1
          PROVE  ChildFits(k, j, children[k][j])'
      <4>1. PICK c : c = Tail(s)[j]
        OBVIOUS
      <4>2. j + 1 \in 1 .. Len(s) /\ c = s[j + 1] /\ c # n
        BY <1>6, <4>1
      <4>3. c \in Nodes
        BY <1>5, <4>2, ElementOfSeq DEF s
      <4>4. ChildFits(k, j + 1, c)
        BY <2>1, <3>1, <4>2 DEF ContainerFits
      <4>5. status'[c] = status[c] /\ error'[c] = error[c]
        BY <1>4, <4>2, <4>3
      <4>6. status[k] = "COMPLETED" => status[c] = "COMPLETED"
        BY <4>4 DEF ChildFits
      <4>7. status[k] = "UNDO_COMPLETE" => Settled(c)
        BY <4>4 DEF ChildFits
      <4>8. (Settled(c) => Settled(c)' /\ Quiet(c)') /\ (status[c] = "COMPLETED" => Quiet(c)')
        BY <4>5 DEF Settled, Quiet
      <4>9. ChildFits(k, j, c)'
        BY <3>1, <3>3, <4>5, <4>6, <4>7, <4>8 DEF ChildFits, Quiet
      <4>10. children'[k][j] = c
        BY <3>1, <4>1
      <4> QED
        BY <4>9, <4>10
    <3>5. status[k] = "COMPLETED" => index[k] >= Len(s) - 1 /\ error[k] = E_OK
      BY <1>6, <2>1, <3>1 DEF ContainerFits
    <3> QED
      BY <3>1, <3>3, <3>4, <3>5 DEF ContainerFits
  <2>4. CASE k # n /\ k # p
    <3>1. (\A c \in Elements(children[k]) : c \in Nodes) /\ n \notin Elements(children[k])
      <4>1. \A c \in Elements(children[k]) : c \in Nodes
        BY ListFacts
      <4> QED
        BY <1>7, <2>4, <4>1
    <3>2. /\ children'[k] = children[k] /\ index'[k] = index[k] /\ status'[k] = status[k]
          /\ error'[k] = error[k]
      BY <1>4, <2>1, <2>4
    <3>3. \A c \in Elements(children[k]) : status'[c] = status[c] /\ error'[c] = error[c]
      BY <1>4, <3>1
    <3> QED
      BY <2>1, <3>2, <3>3, ContainerKept
  <2> QED
    BY <2>2, <2>3, <2>4
<1>10. CallsFit'
  <2>1. OnCleanPath(p) /\ (p # Root => status[p] \in Cleanable)
    BY <1>1, <1>2, CleanPathUp DEF p
  <2>2. OnCleanPath(q)'
    BY <1>1, <1>2, <1>3, <1>4, <2>1, DeletedOffPath
  <2>3. call'.op = "cleanup" /\ call'.node = q /\ (q # Root => status'[q] \in Cleanable)
    BY <1>1, <1>3, <1>4, <2>1, CallFacts
  <2> QED
    BY <2>2, <2>3 DEF CallsFit
<1> QED
  BY <1>8, <1>9, <1>10 DEF TreeFits

-----------------------------------------------------------------------------
(* execute() of a container, and a new policy action *)

LEMMA StartContainerRollback ==
    ASSUME TypeOK, EngineInv, RollbackInv, NEW n \in Containers, NEW s \in Plans[n],
           NEW r \in Failures \cup {E_OK}, StartContainer(n, s, r)
    PROVE  Listed' /\ TreeFits' /\ CallsFit'
<1>1. /\ n \in Nodes /\ call.op = "execute" /\ call.node = n /\ status[n] = "NOT_STARTED"
      /\ s \in Seq(Nodes \ {Root}) /\ children[n] \in Seq(Nodes \ {Root})
      /\ children \in [Containers -> Seq(Nodes \ {Root})]
      /\ \A k \in Elements(s) : k \in Nodes \ {Root} /\ Parent[k] = n /\ status[k] = "FREE"
      /\ children' = [children EXCEPT ![n] = @ \o s] /\ index' = index /\ error' = error
  BY NodeFacts, CallFacts, PlanFacts DEF StartContainer, Running, TypeOK
<1>2. /\ \A k \in Nodes : k \in Elements(s) => status'[k] = "NOT_STARTED"
      /\ \A k \in Nodes : k # n /\ k \notin Elements(s) => status'[k] = status[k]
      /\ status'[n] = "EXECUTING" /\ n \notin Elements(s)
  BY <1>1 DEF StartContainer
<1>3. children'[n] = children[n] \o s /\ \A k \in Containers : k # n => children'[k] = children[k]
  BY <1>1
<1>4. children[n] = <<>> \/ s = <<>>
  <2>1. CASE n = Root
    BY <2>1, TreeAssumption
  <2>2. CASE n # Root
    BY <1>1, <2>2 DEF RollbackInv, TreeFits, ContainerFits
  <2> QED
    BY <2>1, <2>2
<1>5. \/ children'[n] = s
      \/ s = <<>> /\ children'[n] = children[n]
  <2>1. <<>> \o s = s /\ children[n] \o <<>> = children[n]
    BY <1>1, ConcatEmptySeq
  <2>2. CASE children[n] = <<>>
    BY <1>3, <2>1, <2>2
  <2>3. CASE s = <<>>
    BY <1>3, <2>1, <2>3
  <2> QED
    BY <1>4, <2>2, <2>3
<1>6. /\ Elements(children'[n]) = Elements(children[n]) \cup Elements(s)
      /\ \A i, j \in 1 .. Len(children'[n]) : children'[n][i] = children'[n][j] => i = j
  <2>1. Elements(children'[n]) = Elements(children[n]) \cup Elements(s)
    BY <1>1, <1>3, ElementsFacts
  <2>2. CASE children'[n] = s
    <3>1. DOMAIN s = 1 .. Len(s) /\ \A i, j \in DOMAIN s : s[i] = s[j] => i = j
      BY <1>1, TreeAssumption
    <3> QED
      BY <2>1, <2>2, <3>1
  <2>3. CASE children'[n] = children[n]
    BY <2>1, <2>3 DEF RollbackInv, Listed, Size
  <2> QED
    BY <1>5, <2>2, <2>3
<1>7. Listed'
  <2>1. ASSUME NEW k \in Nodes \ {Root} PROVE status'[k] # "FREE" <=> k \in Elements(children'[Parent[k]])
    <3>1. (status[k] # "FREE" <=> k \in Elements(children[Parent[k]])) /\ Parent[k] \in Containers
      BY NodeFacts DEF RollbackInv, Listed
    <3>2. status'[k] # "FREE" <=> status[k] # "FREE" \/ k \in Elements(s)
      BY <1>1, <1>2
    <3>3. CASE Parent[k] = n
      BY <1>6, <3>1, <3>2, <3>3
    <3>4. CASE Parent[k] # n
      BY <1>1, <1>3, <3>1, <3>2, <3>4
    <3> QED
      BY <3>3, <3>4
  <2>2. ASSUME NEW k \in Containers
        PROVE  /\ \A i, j \in 1 .. Len(children'[k]) : children'[k][i] = children'[k][j] => i = j
               /\ k \notin Elements(children'[k])
    BY <1>2, <1>3, <1>6 DEF RollbackInv, Listed, Size
  <2> QED
    BY <2>1, <2>2 DEF Listed, Size
<1>8. Inner(n) => IsCurrent(n) /\ status[Parent[n]] = "EXECUTING"
  BY <1>1 DEF RollbackInv, CallsFit
<1>9. ASSUME NEW k \in Containers \ {Root} PROVE ContainerFits(k)'
  <2>1. ContainerFits(k) /\ k \in Nodes
    BY NodeFacts DEF RollbackInv, TreeFits
  <2>2. CASE k = n
    <3>1. children'[k] = s /\ index'[k] = 0 /\ status'[k] = "EXECUTING"
      BY <1>1, <1>2, <1>3, <1>5, <2>1, <2>2 DEF ContainerFits
    <3>2. ASSUME NEW j \in 1 .. Len(s) PROVE ChildFits(k, j, children[k][j])'
      <4>1. s[j] \in Elements(s) /\ s[j] \in Nodes
        BY <1>1, ElementsFacts, ElementOfSeq
      <4>2. status'[s[j]] = "NOT_STARTED" /\ ~(j <= 0)
        BY <1>2, <4>1
      <4> QED
        BY <3>1, <4>2 DEF ChildFits, Quiet
    <3> QED
      BY <3>1, <3>2 DEF ContainerFits, Size
  <2>3. CASE k \in Elements(s)
    <3>1. /\ children'[k] = children[k] /\ status[k] = "FREE" /\ status'[k] = "NOT_STARTED"
          /\ index'[k] = index[k]
      BY <1>1, <1>2, <1>3, <2>1, <2>3
    <3>2. children[k] = <<>> /\ index[k] = 0
      BY <2>1, <3>1 DEF ContainerFits
    <3>3. Size(k)' = 0
      BY <3>1, <3>2 DEF Size
    <3> QED
      BY <3>1, <3>2, <3>3 DEF ContainerFits
  <2>4. CASE k # n /\ k \notin Elements(s)
    <3>1. /\ children'[k] = children[k] /\ status'[k] = status[k] /\ error'[k] = error[k]
          /\ index'[k] = index[k]
      BY <1>1, <1>2, <1>3, <2>1, <2>4
    <3>2. ASSUME NEW c \in Elements(children[k])
          PROVE  c \in Nodes \ {Root} /\ Parent[c] = k /\ c \notin Elements(s) /\ error'[c] = error[c]
                 /\ (c # n => status'[c] = status[c])
      <4>1. c \in Nodes \ {Root}
        BY ListFacts
      <4>2. Parent[c] = k
        BY DEF EngineInv, ChildrenFit
      <4> QED
        BY <1>1, <1>2, <2>4, <4>1, <4>2
    <3>3. CASE n \notin Elements(children[k])
      BY <2>1, <3>1, <3>2, <3>3, ContainerKept
    <3>4. CASE n \in Elements(children[k])
      <4>1. Inner(n) /\ Parent[n] = k
        BY <3>2, <3>4 DEF Inner
      <4>2. HasChild(k) /\ Child(k) = n /\ status[k] = "EXECUTING"
        BY <1>8, <4>1 DEF IsCurrent
      <4>3. \A c \in Elements(children[k]) : c # Child(k) => status'[c] = status[c] /\ error'[c] = error[c]
        BY <3>2, <4>2
      <4>4. status'[Child(k)] # "UNDOING"
        BY <1>2, <4>2
      <4>5. \A i, j \in 1 .. Size(k) : children[k][i] = children[k][j] => i = j
        BY DEF RollbackInv, Listed
      <4> QED
        BY <2>1, <3>1, <4>2, <4>3, <4>4, <4>5, CurrentMoves
    <3> QED
      BY <3>3, <3>4
  <2> QED
    BY <2>2, <2>3, <2>4
<1>10. CallsFit'
  <2>1. CASE r = E_OK
    BY <2>1, CallFacts, FreeCalls DEF StartContainer, Goto
  <2>2. CASE r # E_OK
    <3>1. call'.op = "update" /\ call'.node = n /\ cont'.op = "executed" /\ result' = r /\ n # Root
      BY <2>2, CallFacts DEF StartContainer, GotoUpdate
    <3>2. children'[n] = s /\ index'[n] = 0
      BY <1>1, <1>3, <1>5, <3>1 DEF RollbackInv, TreeFits, ContainerFits
    <3>3. Len(s) > 0 => status'[s[1]] = "NOT_STARTED"
      <4>1. Len(s) \in Nat
        BY <1>1
      <4>2. Len(s) > 0 => s[1] \in Elements(s) /\ s[1] \in Nodes
        BY <1>1, <4>1, ElementsFacts, ElementOfSeq
      <4> QED
        BY <1>2, <4>2
    <3>4. HasChild(n)' => Len(s) > 0 /\ Child(n)' = s[1]
      BY <1>1, <3>2 DEF HasChild, Child, Size
    <3>5. UpdateFits(n)'
      BY <1>2, <2>2, <3>1, <3>3, <3>4 DEF UpdateFits, Quiet
    <3> QED
      BY <3>1, <3>5 DEF CallsFit
  <2> QED
    BY <2>1, <2>2
<1> QED
  BY <1>7, <1>9, <1>10 DEF TreeFits

LEMMA DispatchRollback ==
    ASSUME TypeOK, EngineInv, RollbackInv, NEW t \in Triggers, Dispatch(t)
    PROVE  Listed' /\ TreeFits' /\ CallsFit'
<1>1. CallsFit' /\ UNCHANGED <<error, index>> /\ children[Root] = <<>>
  BY CallFacts, FreeCalls DEF Dispatch, Goto
<1>2. CASE UNCHANGED <<status, children>>
  BY <1>1, <1>2, TreeKept DEF RollbackInv
<1>3. ASSUME NEW p \in PolicyActions[t], status[p] = "FREE",
             status' = [status EXCEPT ![p] = "NOT_STARTED"],
             children' = [children EXCEPT ![Root] = Append(@, p)]
      PROVE  Listed' /\ TreeFits'
  <2>1. p \in Containers /\ p \in Nodes \ {Root} /\ Parent[p] = Root /\ Root \in Containers
    BY NodeFacts, TriggerAssumption
  <2>2. children'[Root] = <<p>> /\ \A n \in Containers : n # Root => children'[n] = children[n]
    <3>1. children'[Root] = Append(<<>>, p)
      BY <1>1, <1>3, <2>1 DEF TypeOK
    <3>2. Append(<<>>, p) = <<p>>
      OBVIOUS
    <3> QED
      BY <1>3, <2>1, <3>1, <3>2 DEF TypeOK
  <2>3. status'[p] = "NOT_STARTED" /\ \A k \in Nodes : k # p => status'[k] = status[k]
    BY <1>3, <2>1 DEF TypeOK
  <2>4. Elements(<<p>>) = {p} /\ Len(<<p>>) = 1 /\ Elements(<<>>) = {}
    BY DEF Elements
  <2>5. Listed'
    <3>1. ASSUME NEW k \in Nodes \ {Root} PROVE status'[k] # "FREE" <=> k \in Elements(children'[Parent[k]])
      <4>1. (status[k] # "FREE" <=> k \in Elements(children[Parent[k]])) /\ Parent[k] \in Containers
        BY NodeFacts DEF RollbackInv, Listed
      <4>2. CASE Parent[k] = Root
        BY <1>1, <2>2, <2>3, <2>4, <4>1, <4>2
      <4>3. CASE Parent[k] # Root
        BY <2>1, <2>2, <2>3, <4>1, <4>3
      <4> QED
        BY <4>2, <4>3
    <3>2. ASSUME NEW k \in Containers
          PROVE  /\ \A i, j \in 1 .. Len(children'[k]) : children'[k][i] = children'[k][j] => i = j
                 /\ k \notin Elements(children'[k])
      <4>1. CASE k = Root
        BY <2>1, <2>2, <2>4, <4>1
      <4>2. CASE k # Root
        BY <2>2, <4>2 DEF RollbackInv, Listed, Size
      <4> QED
        BY <4>1, <4>2
    <3> QED
      BY <3>1, <3>2 DEF Listed, Size
  <2>6. ASSUME NEW k \in Containers \ {Root} PROVE ContainerFits(k)'
    <3>1. ContainerFits(k) /\ k \in Nodes /\ children'[k] = children[k] /\ index'[k] = index[k]
      BY <1>1, <2>2, NodeFacts DEF RollbackInv, TreeFits
    <3>2. CASE k = p
      <4>1. status[k] = "FREE" /\ status'[k] = "NOT_STARTED"
        BY <1>3, <2>3, <3>2
      <4>2. children[k] = <<>> /\ index[k] = 0 /\ Size(k)' = 0
        BY <3>1, <4>1 DEF ContainerFits, Size
      <4> QED
        BY <3>1, <4>1, <4>2 DEF ContainerFits
    <3>3. CASE k # p
      <4>1. \A c \in Elements(children[k]) : c \in Nodes
        BY ListFacts
      <4>2. p \notin Elements(children[k])
        BY <2>1 DEF EngineInv, ChildrenFit
      <4>3. \A c \in Elements(children[k]) : status'[c] = status[c] /\ error'[c] = error[c]
        BY <1>1, <2>3, <4>1, <4>2
      <4> QED
        BY <1>1, <2>3, <3>1, <3>3, <4>3, ContainerKept
    <3> QED
      BY <3>2, <3>3
  <2> QED
    BY <2>5, <2>6 DEF TreeFits
<1> QED
  BY <1>1, <1>2, <1>3 DEF Dispatch, Forward

-----------------------------------------------------------------------------
(* The theorem *)

LEMMA InitRollbackInv == NoTimeLimits /\ Init => RollbackInv
<1> SUFFICES ASSUME NoTimeLimits, Init PROVE RollbackInv
  OBVIOUS
<1>1. Untimed
  BY DEF NoTimeLimits, Init, Untimed
<1>2. /\ \A n \in Containers : children[n] = <<>> /\ index[n] = 0
      /\ \A n \in Nodes \ {Root} : status[n] = "FREE"
      /\ call.op = "idle"
  BY CallFacts DEF Init
<1>3. Elements(<<>>) = {} /\ Len(<<>>) = 0
  BY DEF Elements
<1>4. Listed
  BY <1>2, <1>3, NodeFacts DEF Listed, Size
<1>5. TreeFits
  <2>1. ASSUME NEW n \in Containers \ {Root} PROVE ContainerFits(n)
    <3>1. children[n] = <<>> /\ index[n] = 0 /\ status[n] = "FREE" /\ Size(n) = 0
      BY <1>2, <1>3, NodeFacts DEF Size
    <3> QED
      BY <3>1 DEF ContainerFits
  <2> QED
    BY <2>1 DEF TreeFits
<1>6. CallsFit
  BY <1>2 DEF CallsFit
<1> QED
  BY <1>1, <1>4, <1>5, <1>6 DEF RollbackInv

\* A container without a time limit keeps having none.
LEMMA StaysUntimed ==
    ASSUME NoTimeLimits, TypeOK, EngineInv, RollbackInv, Step \/ Event
    PROVE  Untimed'
<1>1. ASSUME NEW n \in Containers PROVE timeout[n] = INFINITE_TIMEOUT /\ OwnTimeout[n] = INFINITE_TIMEOUT
  BY DEF NoTimeLimits, RollbackInv, Untimed
<1>2. CASE timeout' = timeout
  BY <1>1, <1>2 DEF Untimed
<1>3. ASSUME NEW n \in Nodes, Delete(n) PROVE Untimed'
  <2>1. timeout' = [timeout EXCEPT ![n] = OwnTimeout[n]] /\ DOMAIN timeout = Nodes
    BY <1>3 DEF Delete, TypeOK
  <2> QED
    BY <1>1, <2>1, NodeFacts DEF Untimed
<1>4. ASSUME NEW n \in Containers, LoopChildren(n) PROVE timeout' = timeout
  BY <1>1, <1>4 DEF LoopChildren
<1>5. CASE Event
  BY <1>2, <1>5 DEF Event, RaiseTrigger, Answer, UnknownAnswer, Timeout, LeafUpdate, tree
<1>6. ASSUME NEW n \in Containers, ContainerStep(n) PROVE timeout' = timeout
  BY <1>4, <1>6 DEF ContainerStep, StartContainer, ResumeContainer, Update, UndoContainer, LoopUndo,
                    CleanupChild, CleanupSelf, tree
<1>7. ASSUME NEW l \in Leaves, LeafStep(l) PROVE timeout' = timeout
  BY <1>7 DEF LeafStep, StartLeaf, ResumeLeaf, UndoLeaf, SkipUndoLeaf, tree
<1>8. ASSUME NEW n \in Nodes, Executed(n) \/ Undone(n) PROVE timeout' = timeout
  BY <1>8 DEF Executed, Undone, tree
<1>9. ASSUME NEW t \in Triggers, Dispatch(t) PROVE timeout' = timeout
  BY <1>9 DEF Dispatch
<1>10. ASSUME Return PROVE timeout' = timeout
  BY <1>10 DEF Return, tree
<1> QED
  BY <1>2, <1>3, <1>5, <1>6, <1>7, <1>8, <1>9, <1>10 DEF Step

LEMMA StepRollback ==
    ASSUME TypeOK, NoDangling, EngineInv, RollbackInv, Step \/ Event
    PROVE  Listed' /\ TreeFits' /\ CallsFit'
<1>1. ASSUME NEW n \in Containers, ContainerStep(n) PROVE Listed' /\ TreeFits' /\ CallsFit'
  <2>1. n \in Nodes
    BY NodeFacts
  <2>2. CASE ResumeContainer(n) \/ LoopChildren(n) \/ CleanupChild(n)
    BY <2>1, <2>2, ControlRollback
  <2> QED
    BY <1>1, <2>2, StartContainerRollback, UpdateRollback, UndoContainerRollback, LoopUndoRollback,
       CleanupSelfRollback DEF ContainerStep
<1>2. ASSUME NEW l \in Leaves, LeafStep(l) PROVE Listed' /\ TreeFits' /\ CallsFit'
  <2>1. l \in Nodes
    BY NodeFacts
  <2>2. CASE ResumeLeaf(l) \/ SkipUndoLeaf(l)
    BY <2>1, <2>2, ControlRollback
  <2> QED
    BY <1>2, <2>2, StartLeafRollback, UndoLeafRollback DEF LeafStep
<1>3. ASSUME NEW n \in Nodes, Executed(n) \/ Undone(n) \/ Delete(n) PROVE Listed' /\ TreeFits' /\ CallsFit'
  BY <1>3, ControlRollback, UndoneRollback, DeleteRollback
<1>4. ASSUME NEW t \in Triggers, Dispatch(t) PROVE Listed' /\ TreeFits' /\ CallsFit'
  BY <1>4, DispatchRollback
<1>5. CASE Return
  BY <1>5, ControlRollback, NodeFacts
<1>6. CASE (\E t \in Triggers : RaiseTrigger(t)) \/ UnknownAnswer
  BY <1>6, ControlRollback, NodeFacts
<1>7. ASSUME NEW q \in Requests, NEW r, NEW spent, Answer(q, r, spent) PROVE Listed' /\ TreeFits' /\ CallsFit'
  <2>1. PICK l \in Leaves, phase \in {"do", "undo"} : q = <<l, phase>>
    BY DEF Requests
  <2>2. Waiting(l) /\ LeafUpdate(l, r, spent)
    BY <1>7, <2>1 DEF Answer, NoDangling, HandlesMatchWaitingLeaves, Waiting
  <2> QED
    BY <2>2, LeafUpdateRollback
<1>8. ASSUME NEW l \in Leaves, Timeout(l) PROVE Listed' /\ TreeFits' /\ CallsFit'
  <2>1. Waiting(l)
    BY <1>8 DEF Timeout, NoDangling, HandlesMatchWaitingLeaves
  <2>2. PICK spent : LeafUpdate(l, E_ABORTED, spent)
    BY <1>8 DEF Timeout
  <2> QED
    BY <2>1, <2>2, LeafUpdateRollback
<1> QED
  BY <1>1, <1>2, <1>3, <1>4, <1>5, <1>6, <1>7, <1>8 DEF Step, Event

LEMMA StutterRollbackInv ==
    ASSUME TypeOK, RollbackInv, UNCHANGED vars
    PROVE  RollbackInv'
<1>1. UNCHANGED <<status, error, index, children, timeout, call, cont, result>>
  BY DEF vars, tree
<1>2. Listed' /\ TreeFits' /\ Untimed'
  BY <1>1, TreeKept DEF RollbackInv, Untimed
<1>3. PICK n \in Nodes, c \in Nodes : n = call.node /\ c = cont.node
  BY DEF TypeOK, Calls
<1>4. /\ IsCurrent(n)' <=> IsCurrent(n)
      /\ BeingUndone(n)' <=> BeingUndone(n)
      /\ BeingUndone(c)' <=> BeingUndone(c)
      /\ OnCleanPath(n)' <=> OnCleanPath(n)
  BY <1>1, PlaceKept
<1>5. UpdateFits(n)' <=> UpdateFits(n)
  BY <1>1 DEF UpdateFits, HasChild, Child, Size, Quiet
<1>6. CallsFit'
  BY <1>1, <1>3, <1>4, <1>5 DEF CallsFit, RollbackInv
<1> QED
  BY <1>2, <1>6 DEF RollbackInv

\* When the containers have no time limits, a container that CAmActionContainer::undo() and the
\* notifications of its children have brought to the end of its rollback leaves nothing in
\* force below it, whatever the tree is, whichever commands fail or run into their own time
\* limits, and whatever the routing side answers to requests in either direction.
THEOREM RollbackCompletes == NoTimeLimits => (Spec => []RollbackIsComplete)
<1> SUFFICES ASSUME NoTimeLimits PROVE Spec => []RollbackIsComplete
  OBVIOUS
<1>1. Init => RollbackInv
  BY InitRollbackInv
<1>2. TypeOK /\ NoDangling /\ EngineInv /\ RollbackInv /\ [Next]_vars => RollbackInv'
  <2> SUFFICES ASSUME TypeOK, NoDangling, EngineInv, RollbackInv, [Next]_vars PROVE RollbackInv'
    OBVIOUS
  <2>1. CASE Step \/ Event
    BY <2>1, StaysUntimed, StepRollback DEF RollbackInv
  <2>2. CASE UNCHANGED vars
    BY <2>2, StutterRollbackInv
  <2> QED
    BY <2>1, <2>2 DEF Next
<1>3. TypeOK /\ NoDangling /\ EngineInv /\ [Next]_vars => EngineInv'
  BY StepEngineInv, EventEngineInv, StutterEngineInv DEF Next
<1>4. TypeOK /\ RollbackInv => RollbackIsComplete
  <2> SUFFICES ASSUME TypeOK, RollbackInv,
                      NEW n \in Containers \ {Root}, status[n] = "UNDO_COMPLETE",
                      NEW k \in Elements(children[n])
               PROVE  Settled(k)
    BY DEF RollbackIsComplete, Settled
  <2>1. PICK j \in 1 .. Size(n) : k = children[n][j]
    BY ListFacts
  <2> QED
    BY <2>1 DEF RollbackInv, TreeFits, ContainerFits, ChildFits
<1> QED
  BY <1>1, <1>2, <1>3, <1>4, InitEngineInv, TypeCorrect, PointersValid, PTL DEF Spec
=============================================================================
