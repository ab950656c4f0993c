-------------------------- MODULE AsyncWorkerPool --------------------------
(***************************************************************************)
(* The asynchronous routing plugin (PluginRoutingInterfaceAsync): the      *)
(* daemon's thread calls async*(), every accepted job runs on a thread of  *)
(* CAmWorkerThreadPool, and the answers come back to the daemon's thread   *)
(* through a serializer.  One action is what a thread does between two     *)
(* points at which another one can see it: a region under a mutex, a       *)
(* semaphore operation, a call of the serializer.                          *)
(***************************************************************************)
EXTENDS Integers, Sequences, FiniteSets, FiniteSetsExt

CONSTANTS
    Workers,      \* the workerIDs: mListWorkers, in the order startWork() searches it
    Jobs,         \* the jobs, known by their handle (mMapHandleWorker is sorted by it)
    Kind,         \* [Jobs -> Kinds]
    Subject,      \* the connection, or the sink or source, a job is about
    Target,       \* [Jobs -> volumes], for the jobs of kind "volume"
    MaxTokens     \* bound on the tokens of a cancel semaphore

Kinds == {"connect", "disconnect", "volume", "state", "property", "domain"}

ASSUME PoolAssumption ==
    /\ Workers \subseteq Nat \ {0} /\ Jobs \subseteq Nat \ {0}
    /\ Kind \in [Jobs -> Kinds] /\ Target \in [Jobs -> Nat]
    /\ DOMAIN Subject = Jobs /\ MaxTokens \in Nat

Subjects == {Subject[j] : j \in Jobs}
NoJob == 0

VARIABLES
    main,          \* what the daemon's thread is in the middle of: [op, job, arg]
    job,           \* threadInfo_s::worker, NoJob before the first
    busy,          \* threadInfo_s::busy
    block,         \* the count of threadInfo_s::block
    cancel,        \* the count of threadInfo_s::cancel
    pc,            \* where the thread is
    todo,          \* what start2work() or cancelWork() still has to do
    code,          \* the error code of the answer
    current,       \* mCurrentVolume of the volume jobs
    handleWorker,  \* mMapHandleWorker, a set of <<handle, workerID>>
    connections,   \* mMapConnectionIDRoute
    volume,        \* the volume in mSinks and mSources
    stage,         \* what became of a job: new, refused, accepted or deleted
    mailbox,       \* calls in the serializer: <<job, code>>
    answers,       \* [Jobs -> Seq(Codes)]: the calls that have reached the daemon
    aborted        \* handles whose asyncAbort() has returned E_OK

threads == <<job, busy, block, cancel, pc, todo, code, current>>
tables  == <<handleWorker, connections, volume>>
daemon  == <<stage, mailbox, answers, aborted>>
vars    == <<main, threads, tables, daemon>>

-----------------------------------------------------------------------------
Codes == {"E_OK", "E_ABORTED"}
Main(op, j, arg) == [op |-> op, job |-> j, arg |-> arg]
NotBusy == Main("idle", NoJob, 0)
Idle == main = NotBusy

\* Each kind of job but "domain" has a handle in the map while it runs.
HasHandle(j) == Kind[j] # "domain"
Handles == {p[1] : p \in handleWorker}

Completion(j) ==
    IF HasHandle(j) THEN <<"apply", "answer", "remove">> ELSE <<"apply", "answer">>

\* cancelWork(), after which start2work() returns.
MutCancellationForgets(j) == <<"remove", "answer">>
MutCancellationGoesOn(j) == <<"answer">> \o Completion(j)
Cancellation(j) ==
    CASE Kind[j] \in {"connect", "disconnect"} -> <<"remove", "answer">>
      [] Kind[j] = "volume" -> <<"apply", "remove", "answer">>
      [] Kind[j] \in {"state", "property"} -> <<"answer", "remove">>
      [] Kind[j] = "domain" -> <<"answer">>

\* The code of that answer: the sound property workers send E_OK, too, and the domain
\* state has no code.
MutCancelCodeOK(j) == "E_OK"
CancelCode(j) == IF Kind[j] \in {"property", "domain"} THEN "E_OK" ELSE "E_ABORTED"

Init ==
    /\ main = NotBusy
    /\ job = [w \in Workers |-> NoJob]
    /\ busy = [w \in Workers |-> FALSE]
    /\ block = [w \in Workers |-> 0] /\ cancel = [w \in Workers |-> 0]
    /\ pc = [w \in Workers |-> "blocked"]
    /\ todo = [w \in Workers |-> <<>>]
    /\ code = [w \in Workers |-> "E_OK"]
    /\ current = [j \in Jobs |-> 0]
    /\ handleWorker = {} /\ connections = {}
    /\ volume = [s \in Subjects |-> 0]
    /\ stage = [j \in Jobs |-> "new"]
    /\ mailbox = <<>>
    /\ answers = [j \in Jobs |-> <<>>]
    /\ aborted = {}

-----------------------------------------------------------------------------
(* The daemon's thread *)

Candidates == {w \in Workers : ~busy[w]}

MutPostForgotten(w) == block' = block
Post(w) == block' = [block EXCEPT ![w] = @ + 1]

StartWork(j, w) ==
    /\ w = Min(Candidates)
    /\ job' = [job EXCEPT ![w] = j]
    /\ busy' = [busy EXCEPT ![w] = TRUE]
    /\ Post(w)

\* What async*() checks first.  (Unknown sinks and sources, and formats they do not
\* have, are refused in the same way.)
Acceptable(j) == Kind[j] = "disconnect" => Subject[j] \in connections

\* asyncConnect(), asyncDisconnect(), asyncSet*(), setDomainState()
Request(j) ==
    /\ Idle /\ stage[j] = "new"
    /\ \/ /\ Acceptable(j)
          /\ \E w \in Candidates :
                /\ StartWork(j, w)
                /\ main' = IF HasHandle(j) THEN Main("save", j, w) ELSE main
          /\ current' = [current EXCEPT ![j] = volume[Subject[j]]]
          /\ stage' = [stage EXCEPT ![j] = "accepted"]
       \/ /\ ~Acceptable(j) \/ Candidates = {}
          /\ stage' = [stage EXCEPT ![j] = "refused"]
          /\ UNCHANGED <<main, job, busy, block, current>>
    /\ UNCHANGED <<cancel, pc, todo, code, tables, mailbox, answers, aborted>>

\* "save the handle related to the workerID": a critical section of its own.
SaveHandle ==
    /\ main.op = "save"
    /\ handleWorker' = handleWorker \cup {<<main.job, main.arg>>}
    /\ main' = NotBusy
    /\ UNCHANGED <<threads, connections, volume, daemon>>

\* asyncAbort() of a handle in the map takes an iterator to the first entry ...
FindHandle(h) ==
    /\ Idle /\ h \in Handles
    /\ \A w \in Workers : cancel[w] < MaxTokens
    /\ main' = Main("cancel", h, Min(Handles))
    /\ UNCHANGED <<threads, tables, daemon>>

\* ... and reads it after the mutex has been released.  If the entry has been erased
\* in the meantime that is undefined: any thread, or none, may be meant.
CancelWork ==
    /\ main.op = "cancel"
    /\ \/ \E w \in Workers :
             /\ main.arg \in Handles => <<main.arg, w>> \in handleWorker
             /\ IF busy[w]
                THEN /\ cancel' = [cancel EXCEPT ![w] = @ + 1]
                     /\ aborted' = aborted \cup {main.job}
                ELSE UNCHANGED <<cancel, aborted>>
       \/ main.arg \notin Handles /\ UNCHANGED <<cancel, aborted>>
    /\ main' = NotBusy
    /\ UNCHANGED <<job, busy, block, pc, todo, code, current, tables, stage, mailbox, answers>>

\* The serializer hands the next call over to the daemon.
Deliver ==
    /\ Idle /\ mailbox # <<>>
    /\ LET a == Head(mailbox) IN answers' = [answers EXCEPT ![a[1]] = Append(@, a[2])]
    /\ mailbox' = Tail(mailbox)
    /\ UNCHANGED <<main, threads, tables, stage, aborted>>

-----------------------------------------------------------------------------
(* A thread of the pool *)

\* The loop of a volume worker takes one step and waits again; the other workers wait
\* once.
GoOn(w) ==
    LET j == job[w] IN
    IF Kind[j] = "volume" /\ current[j] # Target[j]
    THEN /\ current' = [current EXCEPT ![j] = IF @ < Target[j] THEN @ + 1 ELSE @ - 1]
         /\ pc' = [pc EXCEPT ![w] = "waiting"]
         /\ UNCHANGED <<todo, code>>
    ELSE /\ pc' = [pc EXCEPT ![w] = "ending"]
         /\ todo' = [todo EXCEPT ![w] = Completion(j)]
         /\ code' = [code EXCEPT ![w] = "E_OK"]
         /\ UNCHANGED current

\* CAmWorkerThread() comes out of sem_wait() and calls start2work().
Wake(w) ==
    /\ pc[w] = "blocked" /\ block[w] > 0
    /\ block' = [block EXCEPT ![w] = @ - 1]
    /\ IF Kind[job[w]] = "volume"
       THEN GoOn(w)
       ELSE pc' = [pc EXCEPT ![w] = "waiting"] /\ UNCHANGED <<todo, code, current>>
    /\ UNCHANGED <<main, job, busy, cancel, tables, daemon>>

\* timedWait(): nobody has cancelled ...
TimedOut(w) ==
    /\ pc[w] = "waiting" /\ cancel[w] = 0
    /\ GoOn(w)
    /\ UNCHANGED <<main, job, busy, block, cancel, tables, daemon>>

\* ... or the semaphore has a token.
Cancelled(w) ==
    /\ pc[w] = "waiting" /\ cancel[w] > 0
    /\ cancel' = [cancel EXCEPT ![w] = @ - 1]
    /\ pc' = [pc EXCEPT ![w] = "ending"]
    /\ todo' = [todo EXCEPT ![w] = Cancellation(job[w])]
    /\ code' = [code EXCEPT ![w] = CancelCode(job[w])]
    /\ UNCHANGED <<main, job, busy, block, current, tables, daemon>>

\* insertConnectionSafe() (of a connection that is to be disconnected, as well),
\* updateSinkVolumeSafe(), updateSourceVolumeSafe() and their like.
Apply(j) ==
    /\ connections' = IF Kind[j] \in {"connect", "disconnect"}
                      THEN connections \cup {Subject[j]} ELSE connections
    /\ volume' = IF Kind[j] = "volume"
                 THEN [volume EXCEPT ![Subject[j]] = current[j]] ELSE volume

\* The next thing on the list, each in a critical section of its own.
Do(w) ==
    /\ pc[w] = "ending" /\ todo[w] # <<>>
    /\ todo' = [todo EXCEPT ![w] = Tail(@)]
    /\ \/ /\ Head(todo[w]) = "apply"
          /\ Apply(job[w])
          /\ UNCHANGED <<handleWorker, mailbox>>
       \/ /\ Head(todo[w]) = "answer"
          /\ mailbox' = Append(mailbox, <<job[w], code[w]>>)
          /\ UNCHANGED tables
       \/ /\ Head(todo[w]) = "remove"
          /\ handleWorker' = {p \in handleWorker : p[1] # job[w]}
          /\ UNCHANGED <<connections, volume, mailbox>>
    /\ UNCHANGED <<main, job, busy, block, cancel, pc, code, current, stage, answers, aborted>>

Release(w) == busy' = [busy EXCEPT ![w] = FALSE]

Finish(w) ==
    /\ pc[w] = "ending" /\ todo[w] = <<>>
    /\ Release(w)
    /\ stage' = [stage EXCEPT ![job[w]] = "deleted"]
    /\ pc' = [pc EXCEPT ![w] = "blocked"]
    /\ UNCHANGED <<main, job, block, cancel, todo, code, current, tables, mailbox, answers, aborted>>

-----------------------------------------------------------------------------
Daemon == SaveHandle \/ CancelWork \/ Deliver
Thread(w) == Wake(w) \/ TimedOut(w) \/ Cancelled(w) \/ Do(w) \/ Finish(w)

Next == \/ \E j \in Jobs : Request(j) \/ FindHandle(j)
        \/ Daemon
        \/ \E w \in Workers : Thread(w)

Spec == Init /\ [][Next]_vars

\* Every thread is scheduled, sem_timedwait() returns.  A function of the plugin that the
\* daemon has called returns, and each turn of its event loop serves the pipe of the
\* serializer, whatever else it is busy with.
Fairness ==
    /\ WF_vars(SaveHandle) /\ WF_vars(CancelWork) /\ SF_vars(Deliver)
    /\ \A w \in Workers : WF_vars(Thread(w))

FairSpec == Spec /\ Fairness

-----------------------------------------------------------------------------
(* Properties *)

\* The shape of the state.  No thread is posted twice for one job, nor a second job before
\* it has woken up for the first.
TypeOK ==
    /\ main \in [op : {"idle", "save", "cancel"}, job : Jobs \cup {NoJob},
                 arg : Workers \cup Jobs \cup {0}]
    /\ job \in [Workers -> Jobs \cup {NoJob}]
    /\ busy \in [Workers -> BOOLEAN]
    /\ block \in [Workers -> {0, 1}]
    /\ cancel \in [Workers -> Nat]
    /\ pc \in [Workers -> {"blocked", "waiting", "ending"}]
    /\ todo \in [Workers -> Seq({"apply", "answer", "remove"})]
    /\ code \in [Workers -> Codes]
    /\ current \in [Jobs -> Nat]
    /\ handleWorker \subseteq Jobs \X Workers
    /\ connections \subseteq Subjects
    /\ volume \in [Subjects -> Nat]
    /\ stage \in [Jobs -> {"new", "refused", "accepted", "deleted"}]
    /\ mailbox \in Seq(Jobs \X Codes)
    /\ answers \in [Jobs -> Seq(Codes)]
    /\ aborted \subseteq Jobs

\* The answers of a job, on their way or with the daemon.
InMailbox(j) == {i \in DOMAIN mailbox : mailbox[i][1] = j}
Sent(j) == Len(answers[j]) + Cardinality(InMailbox(j))

\* A job is answered at most once, and has been by the time its thread is free again:
\* cancelled, completed, or cancelled by a token meant for an earlier job.
AnsweredOnce ==
    \A j \in Jobs : /\ Sent(j) <= 1
                    /\ stage[j] = "deleted" => Sent(j) = 1
                    /\ stage[j] \in {"new", "refused"} => Sent(j) = 0

Replied(j, c) == \/ \E i \in DOMAIN answers[j] : answers[j][i] = c
                 \/ \E i \in DOMAIN mailbox : mailbox[i] = <<j, c>>

\* Once the volume jobs of a sink or source have all been answered, the table holds the
\* volume one of them has reported, even if they overlapped or were cancelled.
VolumeJobs(s) == {j \in Jobs : Kind[j] = "volume" /\ Subject[j] = s
                               /\ stage[j] \in {"accepted", "deleted"}}
VolumesMatchAnswers ==
    \A s \in Subjects :
        (VolumeJobs(s) # {} /\ \A j \in VolumeJobs(s) : Sent(j) > 0)
            => \E j \in VolumeJobs(s) : volume[s] = current[j]

\* Every accepted job is answered in the end.
EveryJobIsAnswered == \A j \in Jobs : stage[j] = "accepted" ~> answers[j] # <<>>

\* What asyncAbort() and its comments say: only the action whose handle is given is
\* cancelled.
OnlyAbortedJobsAreCancelled ==
    \A j \in Jobs : Replied(j, "E_ABORTED") =>
        j \in aborted \/ (main.op = "cancel" /\ main.job = j)

\* What the tests say of asyncDisconnect(): a connection that does not exist (any more)
\* cannot be disconnected.  (Violated: the disconnect worker inserts the connection.)
DisconnectedIsGone ==
    \A j \in Jobs : Kind[j] = "disconnect" /\ Replied(j, "E_OK") => Subject[j] \notin connections

-----------------------------------------------------------------------------
(* The service as its user sees it: what has been delivered counts. *)
ServiceState ==
    [j \in Jobs |-> IF answers[j] = <<>>
                    THEN IF stage[j] = "deleted" THEN "accepted" ELSE stage[j]
                    ELSE IF answers[j][1] = "E_OK" THEN "done" ELSE "aborted"]
Connects == {j \in Jobs : Kind[j] = "connect"}
ServiceConnected == {j \in Connects : Subject[j] \in connections}

Service == INSTANCE AsyncService WITH
               Requests <- Jobs, state <- ServiceState, connected <- ServiceConnected

\* The pool answers like the service it implements, whatever is aborted when.
ImplementsService == Service!ServiceSpec
=============================================================================
