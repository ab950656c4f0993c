-------------------------------- MODULE Saga --------------------------------
(***************************************************************************)
(* What the action engine promises its users: the policy actions are       *)
(* carried out one after the other, each as a saga.  Its steps are applied *)
(* in the order of the action list; when one of them fails, the steps that *)
(* have been applied are compensated, the last one first, and the saga     *)
(* only ends when none of them is left.                                    *)
(***************************************************************************)
EXTENDS Sequences, SequencesExt

CONSTANT Steps

VARIABLES
    phase,     \* "idle", "forward" or "backward"
    applied    \* the steps applied and not compensated, in the order of application

sagaVars == <<phase, applied>>

SagaInit == phase = "idle" /\ applied = <<>>

Begin == phase = "idle" /\ phase' = "forward" /\ UNCHANGED applied

Apply(s) == /\ phase = "forward" /\ ~Contains(applied, s)
            /\ applied' = Append(applied, s)
            /\ UNCHANGED phase

Fail == phase = "forward" /\ phase' = "backward" /\ UNCHANGED applied

Compensate == /\ phase = "backward" /\ applied # <<>>
              /\ applied' = Front(applied)
              /\ UNCHANGED phase

\* The saga ends: with all its steps applied, or with none of them.
End == /\ \/ phase = "forward"
          \/ phase = "backward" /\ applied = <<>>
       /\ phase' = "idle" /\ applied' = <<>>

SagaNext == \/ Begin \/ Fail \/ Compensate \/ End
            \/ \E s \in Steps : Apply(s)

SagaSpec == SagaInit /\ [][SagaNext]_sagaVars

=============================================================================
