-------------------------------- MODULE Rundown --------------------------------
(***************************************************************************)
(* The rundown of the generic controller: CAmActionRundown offers every    *)
(* connection that is up to the domains that outlive the daemon, one after *)
(* the other, until one of them takes it over, and then finalises the      *)
(* rundown.                                                                *)
(*                                                                         *)
(* The action is a container of its own, no child of the root action: only *)
(* setControllerRundown() executes it.                                     *)
(***************************************************************************)
EXTENDS Naturals, Sequences, FiniteSets, Functions

CONSTANTS
    RundownDomains,      \* Seq of the domains, in the order of the factory's list
    RundownConnections   \* Seq of the main connections, in the order of the factory's list

\* The lists hold every domain and every connection once.
ASSUME RundownAssumption ==
    /\ RundownDomains \in Seq(Range(RundownDomains)) /\ IsInjective(RundownDomains)
    /\ RundownConnections \in Seq(Range(RundownConnections)) /\ IsInjective(RundownConnections)

VARIABLES
    phase,       \* "running", "rundown" (the action is executing), "finalised"
    candidates,  \* mListDomains: the domains that are offered connections
    transfers,   \* the children: Seq of [connection, at, status], at: mDomainIterator
    child,       \* mIndex of the container, from 1
    offers,      \* the handle store: [child, domain] of every offer under way
    takenBy      \* what the domains have agreed to: set of [connection, domain]

rundownVars == <<phase, candidates, transfers, child, offers, takenBy>>

States == {"CONNECTED", "CONNECTING", "SUSPENDED", "DISCONNECTING", "DISCONNECTED"}
Survives(state) == state \in {"CONNECTED", "CONNECTING", "SUSPENDED"}

\* The places in S, in the order of the list (the one sequence of them that is ascending).
InOrder(S) ==
    {f \in [1..Cardinality(S) -> S] :
        Range(f) = S /\ \A i, j \in DOMAIN f : i < j => f[i] < f[j]}

RundownInit ==
    /\ phase = "running" /\ candidates = <<>> /\ transfers = <<>>
    /\ child = 1 /\ offers = {} /\ takenBy = {}

-----------------------------------------------------------------------------
(* The transfer of one connection *)

\* CAmActionTransfer::_execute(): transfer t with its iterator at domain k.  Domains for
\* which transferConnection() fails are passed over; which ones do is the daemon's choice.
Offered(t, k) ==
    {[t EXCEPT !.at = j, !.status = IF j <= Len(candidates') THEN "executing" ELSE "completed"] :
        j \in k..Len(candidates') + 1}

\* CAmActionContainer::execute(): children from i on are executed until one has to wait.
ExecutedFrom(ts, i) ==
    {us \in [DOMAIN ts -> UNION {Offered(ts[j], 1) : j \in DOMAIN ts} \cup {ts[j] : j \in DOMAIN ts}] :
        \E last \in i..Len(ts) :
            /\ \A j \in DOMAIN ts : us[j] \in IF j \in i..last THEN Offered(ts[j], 1) ELSE {ts[j]}
            /\ \A j \in i..last - 1 : us[j].status = "completed"
            /\ last < Len(ts) => us[last].status = "executing"}

\* CAmActionContainer::update() of a child that is done: the last one completes the
\* container, whose _update() finalises the rundown.
Finalised(index, ts) == index > Len(ts)

\* The offers under way for transfers ts.
OffersOf(ts) ==
    {[child |-> i, domain |-> candidates'[ts[i].at]] :
        i \in {j \in DOMAIN ts : ts[j].status = "executing"}}

-----------------------------------------------------------------------------
(* Operations *)

\* setControllerRundown(), with the domains and connections as they are at that time: the
\* constructor picks those of either that matter, and the action is executed at once.
SetControllerRundown ==
    /\ phase = "running"
    /\ \E survivors \in SUBSET DOMAIN RundownDomains, states \in [DOMAIN RundownConnections -> States] :
       \E ds \in InOrder(survivors),
          up \in InOrder({i \in DOMAIN RundownConnections : Survives(states[i])}) :
            LET ts == [i \in DOMAIN up |->
                        [connection |-> RundownConnections[up[i]], at |-> 1, status |-> "not started"]]
            IN /\ candidates' = [i \in DOMAIN ds |-> RundownDomains[ds[i]]]
               /\ \E us \in IF ts = <<>> THEN {ts} ELSE ExecutedFrom(ts, 1) :
                    /\ transfers' = us
                    /\ child' = Cardinality({i \in DOMAIN us : us[i].status = "completed"}) + 1
                    /\ offers' = OffersOf(us)
    /\ phase' = IF Finalised(child', transfers') THEN "finalised" ELSE "rundown"
    /\ UNCHANGED takenBy

\* CAmActionTransfer::update(), by way of cbAckTransferConnection() and the handle store.
\* A refusal goes on to the next domain.  When the transfer is done the container counts on,
\* but nobody executes the child it has come to: iterateActions() knows the root action only.
AckThen(o, taken, next) ==
    /\ o \in offers
    /\ takenBy' = IF taken
                  THEN takenBy \cup {[connection |-> transfers[o.child].connection, domain |-> o.domain]}
                  ELSE takenBy
    /\ UNCHANGED candidates
    /\ \E t \in next :
            /\ transfers' = [transfers EXCEPT ![o.child] = t]
            /\ offers' = OffersOf(transfers')
            /\ child' = IF t.status = "completed" THEN child + 1 ELSE child
    /\ phase' = IF Finalised(child', transfers) THEN "finalised" ELSE phase
MutAckAlwaysNext(o, taken) ==
    AckThen(o, taken, Offered(transfers[o.child], transfers[o.child].at + 1))
AckTransfer(o, taken) ==
    AckThen(o, taken, IF taken THEN {[transfers[o.child] EXCEPT !.status = "completed"]}
                      ELSE Offered(transfers[o.child], transfers[o.child].at + 1))

RundownNext ==
    \/ SetControllerRundown
    \/ \E o \in offers, taken \in BOOLEAN : AckTransfer(o, taken)

RundownSpec == RundownInit /\ [][RundownNext]_rundownVars

-----------------------------------------------------------------------------
(* Properties *)

\* No two domains take over the same connection, no connection is offered by two handles at
\* a time, and the controller frees itself only when no domain is asked any more: an answer
\* would find its action gone.
OneDomainTakesOver ==
    /\ \A x, y \in takenBy : x.connection = y.connection => x = y
    /\ \A o \in offers : \A x \in takenBy : x.connection # transfers[o.child].connection
    /\ \A o, p \in offers : o.child = p.child => o = p
    /\ phase = "finalised" => offers = {}

\* The class comment of CAmActionRundown: finally, completion of the rundown is delegated
\* back to the controller.  Once all domains asked have answered it must have been.
\* (Violated: nobody executes the action again.)
RundownCompletes == phase = "rundown" => offers # {}
=============================================================================
