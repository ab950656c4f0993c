---------------------------- MODULE AsyncService ----------------------------
(***************************************************************************)
(* What an asynchronous routing plugin promises the daemon: a request it   *)
(* has accepted is answered once, a request it has refused never, and what *)
(* a positive answer to a connect says is true.                            *)
(***************************************************************************)
EXTENDS FiniteSets

CONSTANTS Requests, Connects

VARIABLES
    state,       \* [Requests -> {"new", "refused", "accepted", "done", "aborted"}]
    connected    \* the connects that are in force

serviceVars == <<state, connected>>

ServiceInit == /\ state = [r \in Requests |-> "new"]
               /\ connected = {}

Become(r, s) == state' = [state EXCEPT ![r] = s]

Accept(r) == state[r] = "new" /\ Become(r, "accepted") /\ UNCHANGED connected
Refuse(r) == state[r] = "new" /\ Become(r, "refused") /\ UNCHANGED connected

\* A connection may come into force before its answer.
Establish(r) == /\ r \in Connects /\ state[r] \in {"new", "accepted"}
                /\ connected' = connected \cup {r}
                /\ UNCHANGED state

AnswerDone(r) == /\ state[r] = "accepted" /\ (r \in Connects => r \in connected)
                 /\ Become(r, "done") /\ UNCHANGED connected
AnswerAborted(r) == state[r] = "accepted" /\ Become(r, "aborted") /\ UNCHANGED connected

ServiceNext == \E r \in Requests :
    \/ Accept(r) \/ Refuse(r) \/ Establish(r) \/ AnswerDone(r) \/ AnswerAborted(r)

ServiceSpec == ServiceInit /\ [][ServiceNext]_serviceVars
=============================================================================
