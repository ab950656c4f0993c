--------------------------- MODULE MCActionEngine ---------------------------
(***************************************************************************)
(* A small instance of the action engine.  Trigger t1 makes the policy     *)
(* action P1 with a nested action of finite duration, the shape of a       *)
(* CAmActionConnect: l3 sets the volume, C1 stands for                     *)
(* CAmMainConnectionActionConnect with two commands; l5 is a second,       *)
(* synchronous action of the list.  t3 is the state change that is         *)
(* reported with priority, by C1 and by A1, which constructs C1; the       *)
(* policies answer t2 and t3 with P2.                                      *)
(***************************************************************************)
EXTENDS ActionEngine, TLC

MCContainers == {"Root", "P1", "A1", "C1", "P2"}
MCLeaves == {"l1", "l2", "l3", "l4", "l5"}
MCParent == "P1" :> "Root" @@ "P2" :> "Root" @@ "A1" :> "P1" @@ "C1" :> "A1"
            @@ "l1" :> "C1" @@ "l2" :> "C1" @@ "l3" :> "A1" @@ "l4" :> "P2" @@ "l5" :> "P1"
MCPlans == "Root" :> {<<>>} @@ "P1" :> {<<"A1", "l5">>} @@ "A1" :> {<<"l3", "C1">>}
           @@ "C1" :> {<<>>, <<"l1", "l2">>} @@ "P2" :> {<<"l4">>}
MCSynchronous == {"l5"}
MCUndoRequired == {"C1", "l1", "l3"}
MCTriggers == {"t1", "t2", "t3"}
MCPolicyActions == "t1" :> {"P1"} @@ "t2" :> {"P2"} @@ "t3" :> {"P2"}
MCStateTriggers == [n \in MCContainers |-> IF n \in {"A1", "C1"} THEN {"t3"} ELSE {}]

\* The XML parameter timeOut of the two user actions: A1 below P1, l4 below P2.
MCShortTimeouts ==
    [n \in MCContainers \cup MCLeaves |-> CASE n = "A1" -> 1 [] n = "l4" -> 1 [] OTHER -> -1]

-----------------------------------------------------------------------------
(* The abstract specification.  A step of the saga is a leaf of the tree; the *)
(* list of the applied ones is read off the tree in the order of the plans.   *)

Standing(l) == \/ status[l] = "COMPLETED" /\ error[l] = E_OK
               \/ status[l] = "UNDOING"

AppliedLeaves == SelectSeq(<<"l3", "l1", "l2", "l4", "l5">>, Standing)

Failed == \E n \in Nodes : \/ status[n] \in {"ERROR_STOPPED", "UNDOING", "UNDO_COMPLETE"}
                           \/ n \in Leaves /\ status[n] = "COMPLETED" /\ error[n] # E_OK

SagaPhase == IF status[Root] \in {"NOT_STARTED", "COMPLETED", "UNDO_COMPLETE"} THEN "idle"
             ELSE IF Failed THEN "backward" ELSE "forward"

SagaApplied == IF SagaPhase = "idle" THEN <<>> ELSE AppliedLeaves

Abstract == INSTANCE Saga WITH Steps <- Leaves, phase <- SagaPhase, applied <- SagaApplied

\* The engine carries out each policy action as a saga: commands in list order,
\* complete rollback in reverse order (CAmActionContainer::execute, undo, update).
ImplementsSaga == Abstract!SagaSpec
=============================================================================
