---------------------- MODULE AsyncWorkerPool_proofs ----------------------
(***************************************************************************)
(* Theorems about the worker pool of the asynchronous plug-in, for every   *)
(* number of threads, every set of jobs and every choice of their kinds.   *)
(***************************************************************************)
EXTENDS AsyncWorkerPool, FiniteSetTheorems, SequenceTheorems, WellFoundedInduction, TLAPS

-----------------------------------------------------------------------------
(* Facts about the operators *)

LEMMA NonemptySetHasMin ==
    ASSUME NEW S, S \subseteq Nat, S # {}
    PROVE  Min(S) \in S
<1>1. PICK x \in S : \A y \in S : ~(<<y, x>> \in OpToRel(<, Nat))
  BY NatLessThanWellFounded, WFMin
<1>2. ASSUME NEW y \in S
      PROVE  ~(y < x)
  <2>1. y \in Nat /\ x \in Nat /\ <<y, x>> \in Nat \X Nat
    OBVIOUS
  <2>2. QED
    BY <1>1, <2>1, Zenon DEF OpToRel
<1>3. \A y \in S : x =< y
  BY <1>2
<1>4. QED
  BY <1>3 DEF Min

\* What a thread has left to do once its work is over: an end of one of the lists.
Applying  == {<<"apply", "answer", "remove">>, <<"apply", "answer">>,
              <<"apply", "remove", "answer">>}
Answering == {<<"answer", "remove">>, <<"answer">>, <<"remove", "answer">>}
Answered  == {<<"remove">>, <<>>}
Lists     == Applying \cup Answering \cup Answered

Chores == {"apply", "answer", "remove"}

LEMMA ListsAreSeqs == Lists \subseteq Seq(Chores)
BY DEF Lists, Applying, Answering, Answered, Chores

\* What the head and the tail of such a list can be.
LEMMA ListSteps ==
    ASSUME NEW l \in Lists, l # <<>>
    PROVE  /\ Tail(l) \in Lists
           /\ Head(l) \in Chores
           /\ Head(l) = "apply" <=> l \in Applying
           /\ l \in Applying => Tail(l) \in Answering
           /\ Head(l) = "answer" => l \in Answering /\ Tail(l) \in Answered
           /\ Head(l) = "remove" => (l \in Answering => Tail(l) \in Answering)
                                    /\ (l \in Answered => Tail(l) \in Answered)
<1>1. Tail(<<"apply", "answer", "remove">>) = <<"answer", "remove">>
      /\ Tail(<<"apply", "answer">>) = <<"answer">>
      /\ Tail(<<"apply", "remove", "answer">>) = <<"remove", "answer">>
      /\ Tail(<<"answer", "remove">>) = <<"remove">>
      /\ Tail(<<"answer">>) = <<>>
      /\ Tail(<<"remove", "answer">>) = <<"answer">>
      /\ Tail(<<"remove">>) = <<>>
  OBVIOUS
<1>2. Head(<<"apply", "answer", "remove">>) = "apply"
      /\ Head(<<"apply", "answer">>) = "apply"
      /\ Head(<<"apply", "remove", "answer">>) = "apply"
      /\ Head(<<"answer", "remove">>) = "answer"
      /\ Head(<<"answer">>) = "answer"
      /\ Head(<<"remove", "answer">>) = "remove"
      /\ Head(<<"remove">>) = "remove"
  OBVIOUS
<1>3. QED
  BY <1>1, <1>2 DEF Lists, Applying, Answering, Answered, Chores

LEMMA StartsOfLists ==
    ASSUME NEW j \in Jobs
    PROVE  /\ Completion(j) \in Applying
           /\ Cancellation(j) \in Applying \cup Answering
           /\ Kind[j] = "volume" => Cancellation(j) \in Applying
           /\ CancelCode(j) \in Codes
           /\ Kind[j] = "connect" => CancelCode(j) = "E_ABORTED"
<1>1. Kind[j] \in Kinds
  BY PoolAssumption
<1>2. QED
  BY <1>1 DEF Completion, Cancellation, CancelCode, Codes, Applying, Answering, Kinds

\* The lists are disjoint.
LEMMA ListsDiffer ==
    /\ Applying \cap Answering = {} /\ Applying \cap Answered = {} /\ Answering \cap Answered = {}
    /\ <<>> \in Answered
<1>1. \A l \in Answered : Len(l) < 2
  BY DEF Answered
<1>2. \A l \in Applying : Len(l) > 1 /\ l[1] = "apply"
  BY DEF Applying
<1>3. \A l \in Answering : l[1] \in {"answer", "remove"} /\ (Len(l) = 1 => l[1] = "answer")
                           /\ Len(l) # 0
  BY DEF Answering
<1>4. \A l \in Answered : Len(l) = 1 => l[1] = "remove"
  BY DEF Answered
<1>5. \A l \in Answering \cap Answered : FALSE
  BY <1>1, <1>3, <1>4 DEF Answered
<1>6. QED
  BY <1>1, <1>2, <1>3, <1>5 DEF Answered

-----------------------------------------------------------------------------
(* Type correctness *)

\* What the threads are at, and what the daemon's thread has read so far.  A thread that
\* is busy has a job of its own, which nobody else works on; it has been posted or is
\* under way, and an accepted job has a thread.
Scheduled ==
    /\ main.op = "save" => main.job \in Jobs /\ main.arg \in Workers
    /\ main.op = "cancel" => main.job \in Jobs
    /\ \A w \in Workers :
          /\ pc[w] = "blocked" => (busy[w] <=> block[w] = 1)
          /\ pc[w] # "blocked" => busy[w] /\ block[w] = 0
          /\ busy[w] => job[w] \in Jobs /\ stage[job[w]] = "accepted"
          /\ todo[w] \in Lists
    /\ \A v, w \in Workers : busy[v] /\ busy[w] /\ job[v] = job[w] => v = w
    /\ \A j \in Jobs : stage[j] = "accepted" => \E w \in Workers : busy[w] /\ job[w] = j

LEMMA InitScheduled == Init => TypeOK /\ Scheduled
<1> SUFFICES ASSUME Init PROVE TypeOK /\ Scheduled
  OBVIOUS
<1>1. <<>> \in Lists /\ <<>> \in Seq(Chores)
  BY DEF Lists, Answered
<1>2. Scheduled
  BY <1>1 DEF Init, Scheduled, NotBusy, Main
<1>3. TypeOK
  BY <1>1 DEF Init, TypeOK, NotBusy, Main, Codes, Chores
<1>4. QED
  BY <1>2, <1>3

\* The handles are handles, so that the first of them is one.
LEMMA HandlesAreJobs ==
    ASSUME TypeOK
    PROVE  Handles \subseteq Jobs /\ (Handles # {} => Min(Handles) \in Jobs)
<1>1. Handles \subseteq Jobs
  BY DEF TypeOK, Handles
<1>2. Handles \subseteq Nat
  BY <1>1, PoolAssumption
<1>3. QED
  BY <1>1, <1>2, NonemptySetHasMin

LEMMA RequestScheduled ==
    ASSUME TypeOK, Scheduled, NEW j \in Jobs, Request(j)
    PROVE  TypeOK' /\ Scheduled'
<1>1. CASE /\ Acceptable(j)
           /\ \E w \in Candidates :
                 /\ StartWork(j, w)
                 /\ main' = IF HasHandle(j) THEN Main("save", j, w) ELSE main
           /\ current' = [current EXCEPT ![j] = volume[Subject[j]]]
           /\ stage' = [stage EXCEPT ![j] = "accepted"]
  <2>1. PICK w \in Candidates :
            /\ StartWork(j, w)
            /\ main' = IF HasHandle(j) THEN Main("save", j, w) ELSE main
    BY <1>1
  <2>2. w \in Workers /\ ~busy[w] /\ pc[w] = "blocked" /\ block[w] = 0
    BY DEF Candidates, Scheduled, TypeOK
  <2>3. /\ job' = [job EXCEPT ![w] = j] /\ busy' = [busy EXCEPT ![w] = TRUE]
        /\ block' = [block EXCEPT ![w] = 1]
    BY <2>1, <2>2 DEF StartWork, Post, TypeOK
  <2>4. main' = Main("save", j, w) \/ main' = main
    BY <2>1
  <2>5. volume[Subject[j]] \in Nat
    BY DEF TypeOK, Subjects
  <2>6. TypeOK'
    <3>1. main' \in [op : {"idle", "save", "cancel"}, job : Jobs \cup {NoJob},
                     arg : Workers \cup Jobs \cup {0}]
      BY <2>2, <2>4 DEF TypeOK, Main
    <3>2. QED
      BY <1>1, <2>2, <2>3, <2>5, <3>1 DEF TypeOK, Request, tables
  <2>7. stage[j] = "new"
    BY DEF Request
  <2>8. \A v \in Workers : busy[v] => job[v] # j
    BY <2>7 DEF Scheduled
  <2>9. Scheduled'
    <3>1. /\ main'.op = "save" => main'.job \in Jobs /\ main'.arg \in Workers
          /\ main'.op = "cancel" => main'.job \in Jobs
      BY <2>2, <2>4 DEF Scheduled, Main
    <3>2. \A v \in Workers :
             /\ pc'[v] = "blocked" => (busy'[v] <=> block'[v] = 1)
             /\ pc'[v] # "blocked" => busy'[v] /\ block'[v] = 0
             /\ busy'[v] => job'[v] \in Jobs /\ stage'[job'[v]] = "accepted"
             /\ todo'[v] \in Lists
      BY <1>1, <2>2, <2>3 DEF Scheduled, Request, TypeOK
    <3>3. \A v, x \in Workers : busy'[v] /\ busy'[x] /\ job'[v] = job'[x] => v = x
      BY <2>2, <2>3, <2>8 DEF Scheduled, TypeOK
    <3>4. \A k \in Jobs : stage'[k] = "accepted" => \E v \in Workers : busy'[v] /\ job'[v] = k
      BY <1>1, <2>2, <2>3 DEF Scheduled, TypeOK
    <3>5. QED
      BY <3>1, <3>2, <3>3, <3>4 DEF Scheduled
  <2>10. QED
    BY <2>6, <2>9
<1>2. CASE /\ ~Acceptable(j) \/ Candidates = {}
           /\ stage' = [stage EXCEPT ![j] = "refused"]
           /\ UNCHANGED <<main, job, busy, block, current>>
  <2>1. TypeOK'
    BY <1>2 DEF TypeOK, Request, tables
  <2>2. \A v \in Workers : busy[v] => job[v] # j
    BY DEF Scheduled, Request
  <2>3. Scheduled'
    BY <1>2, <2>2 DEF Scheduled, Request, TypeOK
  <2>4. QED
    BY <2>1, <2>3
<1>3. QED
  BY <1>1, <1>2 DEF Request

LEMMA DaemonScheduled ==
    ASSUME TypeOK, Scheduled, Daemon \/ \E h \in Jobs : FindHandle(h)
    PROVE  TypeOK' /\ Scheduled'
<1>1. CASE SaveHandle
  <2>1. main.job \in Jobs /\ main.arg \in Workers
    BY <1>1 DEF SaveHandle, Scheduled
  <2>2. TypeOK'
    BY <1>1, <2>1 DEF SaveHandle, TypeOK, NotBusy, Main, threads, daemon
  <2>3. Scheduled'
    BY <1>1 DEF SaveHandle, Scheduled, NotBusy, Main, threads, daemon
  <2>4. QED
    BY <2>2, <2>3
<1>2. CASE CancelWork
  <2>1. main.job \in Jobs
    BY <1>2 DEF CancelWork, Scheduled
  <2>2. aborted' \subseteq Jobs /\ cancel' \in [Workers -> Nat]
    <3>1. CASE UNCHANGED <<cancel, aborted>>
      BY <3>1 DEF TypeOK
    <3>2. CASE \E w \in Workers : /\ cancel' = [cancel EXCEPT ![w] = @ + 1]
                                  /\ aborted' = aborted \cup {main.job}
      BY <2>1, <3>2 DEF TypeOK
    <3>3. QED
      BY <1>2, <3>1, <3>2 DEF CancelWork
  <2>3. TypeOK'
    BY <1>2, <2>2 DEF CancelWork, TypeOK, NotBusy, Main, tables
  <2>4. Scheduled'
    BY <1>2 DEF CancelWork, Scheduled, NotBusy, Main, tables
  <2>5. QED
    BY <2>3, <2>4
<1>3. CASE Deliver
  <2>1. Head(mailbox) \in Jobs \X Codes /\ Tail(mailbox) \in Seq(Jobs \X Codes)
    BY <1>3 DEF Deliver, TypeOK
  <2>2. Head(mailbox)[1] \in Jobs /\ Head(mailbox)[2] \in Codes
    BY <2>1
  <2>3. answers' \in [Jobs -> Seq(Codes)]
    BY <1>3, <2>2 DEF Deliver, TypeOK
  <2>4. TypeOK'
    BY <1>3, <2>1, <2>3 DEF Deliver, TypeOK, tables, threads
  <2>5. Scheduled'
    BY <1>3 DEF Deliver, Scheduled, tables, threads
  <2>6. QED
    BY <2>4, <2>5
<1>4. CASE \E h \in Jobs : FindHandle(h)
  <2>1. PICK h \in Jobs : FindHandle(h)
    BY <1>4
  <2>2. Min(Handles) \in Jobs
    BY <2>1, HandlesAreJobs DEF FindHandle
  <2>3. TypeOK'
    BY <2>1, <2>2 DEF FindHandle, TypeOK, Main, threads, tables, daemon
  <2>4. Scheduled'
    BY <2>1 DEF FindHandle, Scheduled, Main, threads, tables, daemon
  <2>5. QED
    BY <2>3, <2>4
<1>5. QED
  BY <1>1, <1>2, <1>3, <1>4 DEF Daemon

\* GoOn() waits again, or ends the job with what its completion has to do.
LEMMA GoOnCases ==
    ASSUME TypeOK, NEW w \in Workers, job[w] \in Jobs, GoOn(w)
    PROVE  \/ /\ Kind[job[w]] = "volume"
              /\ \E c \in Nat : current' = [current EXCEPT ![job[w]] = c]
              /\ pc' = [pc EXCEPT ![w] = "waiting"]
              /\ UNCHANGED <<todo, code>>
           \/ /\ pc' = [pc EXCEPT ![w] = "ending"]
              /\ todo' = [todo EXCEPT ![w] = Completion(job[w])]
              /\ code' = [code EXCEPT ![w] = "E_OK"]
              /\ UNCHANGED current
<1>1. CASE Kind[job[w]] = "volume" /\ current[job[w]] # Target[job[w]]
  <2>1. current[job[w]] \in Nat /\ Target[job[w]] \in Nat
    BY PoolAssumption DEF TypeOK
  <2>2. \E c \in Nat : current' = [current EXCEPT ![job[w]] = c]
    <3>1. CASE current[job[w]] < Target[job[w]]
      BY <1>1, <2>1, <3>1 DEF GoOn, TypeOK
    <3>2. CASE ~(current[job[w]] < Target[job[w]])
      <4>1. current[job[w]] - 1 \in Nat
        BY <1>1, <2>1, <3>2
      <4>2. QED
        BY <1>1, <4>1, <3>2 DEF GoOn, TypeOK
    <3>3. QED
      BY <3>1, <3>2
  <2>3. QED
    BY <1>1, <2>2 DEF GoOn
<1>2. CASE ~(Kind[job[w]] = "volume" /\ current[job[w]] # Target[job[w]])
  BY <1>2 DEF GoOn
<1>3. QED
  BY <1>1, <1>2

\* What is left of a thread that goes on with its job or ends it.
LEMMA ThreadMovesScheduled ==
    ASSUME TypeOK, Scheduled, NEW w \in Workers, busy[w],
           pc' \in {[pc EXCEPT ![w] = "waiting"], [pc EXCEPT ![w] = "ending"]},
           block' = [block EXCEPT ![w] = 0],
           todo' = todo \/ \E l \in Lists : todo' = [todo EXCEPT ![w] = l],
           UNCHANGED <<main, job, busy, stage>>
    PROVE  Scheduled' /\ pc' \in [Workers -> {"blocked", "waiting", "ending"}]
           /\ block' \in [Workers -> {0, 1}]
           /\ todo' \in [Workers -> Seq(Chores)]
<1>1. \A v \in Workers : todo'[v] \in Lists
  <2>1. CASE todo' = todo
    BY <2>1 DEF Scheduled
  <2>2. CASE \E l \in Lists : todo' = [todo EXCEPT ![w] = l]
    BY <2>2 DEF Scheduled, TypeOK
  <2>3. QED
    BY <2>1, <2>2
<1>2. todo' \in [Workers -> Seq(Chores)]
  <2>1. DOMAIN todo' = Workers /\ todo' = [v \in Workers |-> todo'[v]]
    BY DEF TypeOK
  <2>2. QED
    BY <1>1, <2>1, ListsAreSeqs
<1>3. \A v \in Workers : /\ pc'[v] = "blocked" => (busy'[v] <=> block'[v] = 1)
                         /\ pc'[v] # "blocked" => busy'[v] /\ block'[v] = 0
  BY DEF Scheduled, TypeOK
<1>4. Scheduled'
  BY <1>1, <1>3 DEF Scheduled
<1>5. QED
  BY <1>2, <1>4 DEF TypeOK

LEMMA WorkScheduled ==
    ASSUME TypeOK, Scheduled, NEW w \in Workers, Wake(w) \/ TimedOut(w) \/ Cancelled(w)
    PROVE  TypeOK' /\ Scheduled' /\ busy[w] /\ job[w] \in Jobs /\ stage[job[w]] = "accepted"
           /\ pc[w] # "ending"
<1>1. busy[w] /\ job[w] \in Jobs /\ stage[job[w]] = "accepted" /\ pc[w] # "ending"
  BY DEF Wake, TimedOut, Cancelled, Scheduled, TypeOK
<1>2. CASE Wake(w) \/ TimedOut(w)
  <2>1. block' = [block EXCEPT ![w] = 0]
    BY <1>2 DEF Wake, TimedOut, Scheduled, TypeOK
  <2>2. /\ pc' \in {[pc EXCEPT ![w] = "waiting"], [pc EXCEPT ![w] = "ending"]}
        /\ todo' = todo \/ \E l \in Lists : todo' = [todo EXCEPT ![w] = l]
        /\ current' \in [Jobs -> Nat] /\ code' \in [Workers -> Codes]
    <3>1. CASE pc' = [pc EXCEPT ![w] = "waiting"] /\ UNCHANGED <<todo, code, current>>
      BY <3>1 DEF TypeOK
    <3>2. CASE GoOn(w)
      <4>1. Completion(job[w]) \in Lists /\ "E_OK" \in Codes
        BY <1>1, StartsOfLists DEF Lists, Codes
      <4>2. CASE /\ \E c \in Nat : current' = [current EXCEPT ![job[w]] = c]
                 /\ pc' = [pc EXCEPT ![w] = "waiting"]
                 /\ UNCHANGED <<todo, code>>
        <5>1. current' \in [Jobs -> Nat]
          BY <1>1, <4>2 DEF TypeOK
        <5>2. QED
          BY <4>2, <5>1 DEF TypeOK
      <4>3. CASE /\ pc' = [pc EXCEPT ![w] = "ending"]
                 /\ todo' = [todo EXCEPT ![w] = Completion(job[w])]
                 /\ code' = [code EXCEPT ![w] = "E_OK"]
                 /\ UNCHANGED current
        BY <4>1, <4>3 DEF TypeOK
      <4>4. QED
        BY <1>1, <3>2, <4>2, <4>3, GoOnCases
    <3>3. QED
      BY <1>2, <3>1, <3>2 DEF Wake, TimedOut
  <2>3. UNCHANGED <<main, job, busy, cancel, tables, daemon>>
    BY <1>2 DEF Wake, TimedOut
  <2>4. Scheduled' /\ pc' \in [Workers -> {"blocked", "waiting", "ending"}]
        /\ block' \in [Workers -> {0, 1}] /\ todo' \in [Workers -> Seq(Chores)]
    BY <1>1, <2>1, <2>2, <2>3, ThreadMovesScheduled DEF daemon
  <2>5. TypeOK'
    BY <2>2, <2>3, <2>4 DEF TypeOK, tables, daemon, Chores
  <2>6. QED
    BY <1>1, <2>4, <2>5
<1>3. CASE Cancelled(w)
  <2>1. block' = [block EXCEPT ![w] = 0]
    BY <1>3 DEF Cancelled, Scheduled, TypeOK
  <2>2. Cancellation(job[w]) \in Lists /\ CancelCode(job[w]) \in Codes
    BY <1>1, StartsOfLists DEF Lists
  <2>3. Scheduled' /\ pc' \in [Workers -> {"blocked", "waiting", "ending"}]
        /\ block' \in [Workers -> {0, 1}] /\ todo' \in [Workers -> Seq(Chores)]
    BY <1>1, <1>3, <2>1, <2>2, ThreadMovesScheduled DEF Cancelled, daemon
  <2>4. cancel' \in [Workers -> Nat]
    BY <1>3 DEF Cancelled, TypeOK
  <2>5. TypeOK'
    BY <1>3, <2>2, <2>3, <2>4 DEF Cancelled, TypeOK, tables, daemon, Chores
  <2>6. QED
    BY <1>1, <2>3, <2>5
<1>4. QED
  BY <1>2, <1>3

LEMMA DoScheduled ==
    ASSUME TypeOK, Scheduled, NEW w \in Workers, Do(w)
    PROVE  TypeOK' /\ Scheduled'
<1>1. /\ busy[w] /\ job[w] \in Jobs /\ block[w] = 0 /\ pc[w] = "ending"
      /\ todo[w] \in Lists /\ todo[w] # <<>> /\ code[w] \in Codes
  BY DEF Do, Scheduled, TypeOK
<1>2. Tail(todo[w]) \in Lists
  BY <1>1, ListSteps
<1>3. pc' = [pc EXCEPT ![w] = "ending"] /\ block' = [block EXCEPT ![w] = 0]
  BY <1>1 DEF Do, TypeOK
<1>4. todo' = [todo EXCEPT ![w] = Tail(todo[w])] /\ UNCHANGED <<main, job, busy, stage>>
  BY DEF Do
<1>5. Scheduled' /\ todo' \in [Workers -> Seq(Chores)]
  BY <1>1, <1>2, <1>3, <1>4, ThreadMovesScheduled
<1>6. /\ connections' \subseteq Subjects /\ volume' \in [Subjects -> Nat]
      /\ handleWorker' \subseteq Jobs \X Workers
      /\ mailbox' \in Seq(Jobs \X Codes)
  <2>1. CASE Apply(job[w]) /\ UNCHANGED <<handleWorker, mailbox>>
    BY <1>1, <2>1 DEF Apply, TypeOK, Subjects
  <2>2. CASE mailbox' = Append(mailbox, <<job[w], code[w]>>) /\ UNCHANGED tables
    <3>1. <<job[w], code[w]>> \in Jobs \X Codes
      BY <1>1
    <3>2. QED
      BY <2>2, <3>1 DEF TypeOK, tables
  <2>3. CASE /\ handleWorker' = {p \in handleWorker : p[1] # job[w]}
             /\ UNCHANGED <<connections, volume, mailbox>>
    BY <2>3 DEF TypeOK
  <2>4. QED
    BY <2>1, <2>2, <2>3 DEF Do
<1>7. TypeOK'
  BY <1>5, <1>6 DEF TypeOK, Do, Chores
<1>8. QED
  BY <1>5, <1>7

LEMMA FinishScheduled ==
    ASSUME TypeOK, Scheduled, NEW w \in Workers, Finish(w)
    PROVE  TypeOK' /\ Scheduled'
<1>1. busy[w] /\ job[w] \in Jobs /\ block[w] = 0
  BY DEF Finish, Scheduled
<1>2. TypeOK'
  BY <1>1 DEF Finish, Release, TypeOK, tables
<1>3. \A v \in Workers \ {w} : busy[v] => job[v] # job[w]
  BY <1>1 DEF Scheduled
<1>4. Scheduled'
  BY <1>1, <1>3 DEF Finish, Release, Scheduled, TypeOK
<1>5. QED
  BY <1>2, <1>4

LEMMA NextScheduled == TypeOK /\ Scheduled /\ [Next]_vars => TypeOK' /\ Scheduled'
<1> SUFFICES ASSUME TypeOK, Scheduled, [Next]_vars PROVE TypeOK' /\ Scheduled'
  OBVIOUS
<1>1. CASE UNCHANGED vars
  BY <1>1 DEF vars, threads, tables, daemon, TypeOK, Scheduled
<1>2. ASSUME NEW w \in Workers, Thread(w) PROVE TypeOK' /\ Scheduled'
  BY <1>2, WorkScheduled, DoScheduled, FinishScheduled DEF Thread
<1>3. QED
  BY <1>1, <1>2, RequestScheduled, DaemonScheduled DEF Next

\* No thread of the pool is posted twice for one job, nor handed a second one before it has
\* woken up for the first (CAmWorkerThreadPool::startWork), and the tables keep their shape.
THEOREM PoolTypeCorrect == Spec => []TypeOK
<1>1. TypeOK /\ Scheduled /\ [Next]_vars => (TypeOK /\ Scheduled)'
  BY NextScheduled
<1>2. QED
  BY <1>1, InitScheduled, PTL DEF Spec

-----------------------------------------------------------------------------
(* Each job is answered once *)

\* A job nobody has answered, and one with a single answer, under way or delivered.
Silent(j)   == answers[j] = <<>> /\ InMailbox(j) = {}
Underway(j) == answers[j] = <<>> /\ \E i \in DOMAIN mailbox : InMailbox(j) = {i}
Arrived(j)  == Len(answers[j]) = 1 /\ InMailbox(j) = {}
Told(j)     == Underway(j) \/ Arrived(j)

\* The thread has answered, and has at most the handle to remove.
Finishing(w) == pc[w] = "ending" /\ todo[w] \in Answered

\* A job is silent until its thread has been through the "answer" of its list.
Accounted ==
    /\ \A j \in Jobs : /\ stage[j] \in {"new", "refused"} => Silent(j)
                       /\ stage[j] = "deleted" => Told(j)
    /\ \A w \in Workers : busy[w] => IF Finishing(w) THEN Told(job[w]) ELSE Silent(job[w])

\* The serializer takes a call of a job ...
LEMMA MailboxAppend ==
    ASSUME TypeOK, NEW k \in Jobs, NEW c \in Codes, mailbox' = Append(mailbox, <<k, c>>)
    PROVE  /\ \A j \in Jobs \ {k} : InMailbox(j)' = InMailbox(j)
           /\ InMailbox(k)' = InMailbox(k) \cup {Len(mailbox) + 1}
           /\ Len(mailbox) + 1 \in DOMAIN mailbox' /\ DOMAIN mailbox \subseteq DOMAIN mailbox'
<1>1. /\ Len(mailbox') = Len(mailbox) + 1
      /\ \A i \in 1 .. Len(mailbox) : mailbox'[i] = mailbox[i]
      /\ mailbox'[Len(mailbox) + 1] = <<k, c>>
      /\ Len(mailbox) \in Nat
      /\ DOMAIN mailbox = 1 .. Len(mailbox) /\ DOMAIN mailbox' = 1 .. Len(mailbox')
  <2>1. mailbox \in Seq(Jobs \X Codes) /\ <<k, c>> \in Jobs \X Codes
    BY DEF TypeOK
  <2>2. QED
    BY <2>1
<1>2. DOMAIN mailbox' = DOMAIN mailbox \cup {Len(mailbox) + 1}
  BY <1>1
<1>3. QED
  BY <1>1, <1>2 DEF InMailbox

\* ... and hands the first one over.
LEMMA MailboxTail ==
    ASSUME TypeOK, mailbox # <<>>, mailbox' = Tail(mailbox), NEW j \in Jobs
    PROVE  /\ 1 \in InMailbox(Head(mailbox)[1])
           /\ InMailbox(j) = {} => InMailbox(j)' = {}
           /\ \A i \in DOMAIN mailbox : InMailbox(j) = {i} =>
                  IF Head(mailbox)[1] = j
                  THEN InMailbox(j)' = {}
                  ELSE i - 1 \in DOMAIN mailbox' /\ InMailbox(j)' = {i - 1}
<1>1. /\ mailbox \in Seq(Jobs \X Codes)
      /\ Len(mailbox) \in Nat /\ Len(mailbox) > 0
      /\ DOMAIN mailbox = 1 .. Len(mailbox)
      /\ Head(mailbox) = mailbox[1]
  BY DEF TypeOK
<1>2. /\ DOMAIN mailbox' = 1 .. Len(mailbox) - 1
      /\ \A i \in 1 .. Len(mailbox) - 1 : mailbox'[i] = mailbox[i + 1]
  BY <1>1
<1>3. InMailbox(j)' = {i \in 1 .. Len(mailbox) - 1 : mailbox[i + 1][1] = j}
  BY <1>2 DEF InMailbox
<1>4. InMailbox(j) = {i \in 1 .. Len(mailbox) : mailbox[i][1] = j}
  BY <1>1 DEF InMailbox
<1>5. 1 \in InMailbox(Head(mailbox)[1])
  BY <1>1 DEF InMailbox
<1>6. \A i \in InMailbox(j)' : i + 1 \in InMailbox(j)
  BY <1>1, <1>3, <1>4
<1>7. \A i \in InMailbox(j) : i # 1 => i - 1 \in InMailbox(j)'
  BY <1>1, <1>3, <1>4
<1>8. ASSUME NEW i \in DOMAIN mailbox, InMailbox(j) = {i}
      PROVE  IF Head(mailbox)[1] = j
             THEN InMailbox(j)' = {}
             ELSE i - 1 \in DOMAIN mailbox' /\ InMailbox(j)' = {i - 1}
  <2>1. \A k \in InMailbox(j)' : k + 1 = i /\ k \in 1 .. Len(mailbox) - 1
    BY <1>3, <1>6, <1>8
  <2>2. CASE Head(mailbox)[1] = j
    <3>1. i = 1
      BY <1>5, <1>8, <2>2
    <3>2. QED
      BY <1>1, <2>1, <2>2, <3>1
  <2>3. CASE Head(mailbox)[1] # j
    <3>1. i # 1
      BY <1>1, <1>4, <1>8, <2>3
    <3>2. i - 1 \in InMailbox(j)'
      BY <1>7, <1>8, <3>1
    <3>3. InMailbox(j)' = {i - 1}
      BY <1>1, <1>3, <2>1, <3>2
    <3>4. QED
      BY <1>2, <1>3, <2>3, <3>2, <3>3
  <2>4. QED
    BY <2>2, <2>3
<1>9. QED
  BY <1>5, <1>6, <1>8

\* Delivery leaves a silent job silent and an answered one answered once.
LEMMA DeliverKeeps ==
    ASSUME TypeOK, Deliver, NEW j \in Jobs
    PROVE  (Silent(j) => Silent(j)') /\ (Told(j) => Told(j)')
<1> DEFINE k == Head(mailbox)[1]
           c == Head(mailbox)[2]
<1>1. k \in Jobs /\ c \in Codes /\ answers' = [answers EXCEPT ![k] = Append(@, c)]
  <2>1. Head(mailbox) \in Jobs \X Codes
    BY DEF Deliver, TypeOK
  <2>2. QED
    BY <2>1 DEF Deliver
<1>2. mailbox # <<>> /\ mailbox' = Tail(mailbox)
  BY DEF Deliver
<1>3. CASE k # j
  <2>1. answers'[j] = answers[j]
    BY <1>1, <1>3 DEF TypeOK
  <2>2. QED
    BY <1>2, <1>3, <2>1, MailboxTail DEF Silent, Told, Underway, Arrived
<1>4. CASE k = j
  <2>1. 1 \in InMailbox(j)
    BY <1>2, <1>4, MailboxTail
  <2>2. ASSUME Underway(j) PROVE Arrived(j)'
    <3>1. answers'[j] = <<c>>
      <4>1. answers'[j] = Append(answers[j], c)
        BY <1>1, <1>4 DEF TypeOK
      <4>2. answers[j] = <<>>
        BY <2>2 DEF Underway
      <4>3. QED
        BY <4>1, <4>2
    <3>2. InMailbox(j)' = {}
      BY <1>2, <1>4, <2>2, MailboxTail DEF Underway
    <3>3. QED
      BY <3>1, <3>2 DEF Arrived
  <2>3. QED
    BY <2>1, <2>2 DEF Silent, Told, Arrived
<1>5. QED
  BY <1>3, <1>4

\* Steps that touch neither the mailbox nor the answers keep what is known of a job.
LEMMA NothingSaid ==
    ASSUME UNCHANGED <<mailbox, answers>>, NEW j
    PROVE  Silent(j)' = Silent(j) /\ Told(j)' = Told(j) /\ Underway(j)' = Underway(j)
           /\ Arrived(j)' = Arrived(j)
BY DEF Silent, Told, Underway, Arrived, InMailbox

LEMMA NextAccounted ==
    ASSUME TypeOK, Scheduled, Accounted, [Next]_vars
    PROVE  Accounted'
<1>1. CASE UNCHANGED vars
  BY <1>1, NothingSaid DEF vars, threads, daemon, Accounted, Finishing
<1>2. ASSUME NEW j \in Jobs, Request(j) PROVE Accounted'
  <2>1. Silent(j) /\ stage[j] = "new" /\ UNCHANGED <<mailbox, answers, pc, todo>>
    BY <1>2 DEF Request, Accounted
  <2>2. CASE \E w \in Candidates : StartWork(j, w) /\ stage' = [stage EXCEPT ![j] = "accepted"]
    <3>1. PICK w \in Candidates : StartWork(j, w) /\ stage' = [stage EXCEPT ![j] = "accepted"]
      BY <2>2
    <3>2. w \in Workers /\ pc[w] = "blocked"
      BY DEF Candidates, Scheduled, TypeOK
    <3>3. \A v \in Workers \ {w} : busy'[v] = busy[v] /\ job'[v] = job[v]
      BY <3>1, <3>2 DEF StartWork, TypeOK
    <3>4. job'[w] = j /\ ~Finishing(w)'
      BY <2>1, <3>1, <3>2 DEF StartWork, TypeOK, Finishing
    <3>5. \A v \in Workers : busy'[v] =>
              IF Finishing(v)' THEN Told(job[v])' ELSE Silent(job[v])'
      <4>1. ASSUME NEW v \in Workers \ {w}, busy'[v]
            PROVE  IF Finishing(v)' THEN Told(job[v])' ELSE Silent(job[v])'
        BY <2>1, <3>3, <4>1, NothingSaid DEF Accounted, Finishing
      <4>2. Silent(job[w])'
        BY <2>1, <3>4, NothingSaid
      <4>3. QED
        BY <3>4, <4>1, <4>2
    <3>6. QED
      BY <2>1, <3>1, <3>5, NothingSaid DEF Accounted, TypeOK
  <2>3. CASE /\ stage' = [stage EXCEPT ![j] = "refused"]
             /\ UNCHANGED <<job, busy>>
    BY <2>1, <2>3, NothingSaid DEF Accounted, TypeOK, Finishing
  <2>4. QED
    BY <1>2, <2>2, <2>3 DEF Request
<1>3. CASE SaveHandle \/ CancelWork \/ \E h \in Jobs : FindHandle(h)
  <2>1. UNCHANGED <<mailbox, answers, stage, pc, todo, busy, job>>
    BY <1>3 DEF SaveHandle, CancelWork, FindHandle, threads, daemon
  <2>2. QED
    BY <2>1, NothingSaid DEF Accounted, Finishing
<1>4. CASE Deliver
  <2>1. UNCHANGED <<stage, pc, todo, busy, job>>
    BY <1>4 DEF Deliver, threads
  <2>2. \A w \in Workers : busy[w] => job[w] \in Jobs
    BY DEF Scheduled
  <2>3. QED
    BY <1>4, <2>1, <2>2, DeliverKeeps DEF Accounted, Finishing
<1>5. ASSUME NEW w \in Workers, Wake(w) \/ TimedOut(w) \/ Cancelled(w) PROVE Accounted'
  <2>1. /\ busy[w] /\ job[w] \in Jobs /\ pc[w] # "ending"
        /\ UNCHANGED <<mailbox, answers, stage, busy, job>>
    BY <1>5, WorkScheduled DEF Wake, TimedOut, Cancelled, daemon
  <2>2. ~Finishing(w)'
    <3>1. CASE GoOn(w)
      <4>1. Completion(job[w]) \notin Answered
        BY <2>1, StartsOfLists, ListsDiffer
      <4>2. CASE pc' = [pc EXCEPT ![w] = "waiting"]
        BY <4>2 DEF Finishing, TypeOK
      <4>3. CASE todo' = [todo EXCEPT ![w] = Completion(job[w])]
        BY <4>1, <4>3 DEF Finishing, TypeOK
      <4>4. QED
        BY <2>1, <3>1, <4>2, <4>3, GoOnCases
    <3>2. CASE pc' = [pc EXCEPT ![w] = "waiting"]
      BY <3>2 DEF Finishing, TypeOK
    <3>3. CASE todo' = [todo EXCEPT ![w] = Cancellation(job[w])]
      <4>1. Cancellation(job[w]) \notin Answered
        BY <2>1, StartsOfLists, ListsDiffer
      <4>2. QED
        BY <3>3, <4>1 DEF Finishing, TypeOK
    <3>4. QED
      BY <1>5, <3>1, <3>2, <3>3 DEF Wake, TimedOut, Cancelled
  <2>3. \A v \in Workers \ {w} : Finishing(v)' = Finishing(v)
    BY <1>5 DEF Wake, TimedOut, Cancelled, GoOn, Finishing, TypeOK
  <2>4. Silent(job[w])
    BY <2>1 DEF Accounted, Finishing
  <2>5. QED
    BY <2>1, <2>2, <2>3, <2>4, NothingSaid DEF Accounted
<1>6. ASSUME NEW w \in Workers, Do(w) PROVE Accounted'
  <2>1. /\ busy[w] /\ job[w] \in Jobs /\ pc[w] = "ending" /\ stage[job[w]] = "accepted"
        /\ todo[w] \in Lists /\ todo[w] # <<>> /\ code[w] \in Codes
    BY <1>6 DEF Do, Scheduled, TypeOK
  <2>2. /\ UNCHANGED <<pc, stage, busy, job, answers>>
        /\ todo' = [todo EXCEPT ![w] = Tail(todo[w])]
    BY <1>6 DEF Do
  <2>3. \A v \in Workers \ {w} : Finishing(v)' = Finishing(v)
    BY <2>2 DEF Finishing, TypeOK
  <2>4. \A v \in Workers \ {w} : busy[v] => job[v] # job[w] /\ job[v] \in Jobs
    BY <2>1 DEF Scheduled
  <2>5. todo'[w] = Tail(todo[w])
    BY <2>2 DEF TypeOK
  <2>6. CASE Head(todo[w]) = "answer"
    <3>1. ~Finishing(w) /\ Finishing(w)'
      BY <2>1, <2>2, <2>5, <2>6, ListSteps, ListsDiffer DEF Finishing
    <3>2. mailbox' = Append(mailbox, <<job[w], code[w]>>)
      BY <1>6, <2>6 DEF Do
    <3>3. Silent(job[w])
      BY <2>1, <3>1 DEF Accounted
    <3>4. Told(job[w])'
      BY <2>1, <2>2, <3>2, <3>3, MailboxAppend DEF Silent, Told, Underway
    <3>5. \A j \in Jobs \ {job[w]} : InMailbox(j)' = InMailbox(j) /\ DOMAIN mailbox \subseteq DOMAIN mailbox'
      BY <2>1, <3>2, MailboxAppend
    <3>6. \A j \in Jobs \ {job[w]} : (Silent(j) => Silent(j)') /\ (Told(j) => Told(j)')
      BY <2>2, <3>5 DEF Silent, Told, Underway, Arrived
    <3>7. QED
      BY <2>1, <2>2, <2>3, <2>4, <3>1, <3>4, <3>6 DEF Accounted
  <2>7. CASE Head(todo[w]) # "answer"
    <3>1. UNCHANGED <<mailbox, answers>>
      BY <1>6, <2>7 DEF Do, Apply
    <3>2. Finishing(w)' = Finishing(w)
      BY <2>1, <2>2, <2>5, <2>7, ListSteps, ListsDiffer DEF Finishing, Lists, Chores
    <3>3. QED
      BY <2>2, <2>3, <3>1, <3>2, NothingSaid DEF Accounted
  <2>8. QED
    BY <2>6, <2>7
<1>7. ASSUME NEW w \in Workers, Finish(w) PROVE Accounted'
  <2>1. busy[w] /\ job[w] \in Jobs /\ Finishing(w)
    BY <1>7, ListsDiffer DEF Finish, Scheduled, Finishing
  <2>2. UNCHANGED <<mailbox, answers, todo, job>> /\ busy' = [busy EXCEPT ![w] = FALSE]
        /\ stage' = [stage EXCEPT ![job[w]] = "deleted"] /\ pc' = [pc EXCEPT ![w] = "blocked"]
    BY <1>7 DEF Finish, Release
  <2>3. Told(job[w])
    BY <2>1 DEF Accounted
  <2>4. \A v \in Workers \ {w} : Finishing(v)' = Finishing(v) /\ busy'[v] = busy[v]
    BY <2>2 DEF Finishing, TypeOK
  <2>5. QED
    BY <2>1, <2>2, <2>3, <2>4, NothingSaid DEF Accounted, TypeOK
<1>8. QED
  BY <1>1, <1>2, <1>3, <1>4, <1>5, <1>6, <1>7 DEF Next, Daemon, Thread

PoolInv == TypeOK /\ Scheduled /\ Accounted

LEMMA PoolInvariant == Spec => []PoolInv
<1>1. Init => Accounted
  BY DEF Init, Accounted, Silent, InMailbox
<1>2. PoolInv /\ [Next]_vars => PoolInv'
  BY NextScheduled, NextAccounted DEF PoolInv
<1>3. QED
  BY <1>1, <1>2, InitScheduled, PTL DEF Spec, PoolInv

LEMMA SentCounts ==
    ASSUME NEW j \in Jobs
    PROVE  (Silent(j) => Sent(j) = 0) /\ (TypeOK /\ Told(j) => Sent(j) = 1)
<1>1. Cardinality({}) = 0 /\ \A i \in DOMAIN mailbox : Cardinality({i}) = 1
  BY FS_EmptySet, FS_Singleton
<1>2. ASSUME Silent(j) PROVE Sent(j) = 0
  BY <1>1, <1>2 DEF Silent, Sent
<1>3. ASSUME TypeOK, Told(j) PROVE Sent(j) = 1
  <2>1. CASE Underway(j)
    <3>1. Len(answers[j]) = 0 /\ Cardinality(InMailbox(j)) = 1
      BY <1>1, <2>1 DEF Underway
    <3>2. QED
      BY <3>1 DEF Sent
  <2>2. CASE Arrived(j)
    <3>1. Len(answers[j]) = 1 /\ Cardinality(InMailbox(j)) = 0
      BY <1>1, <2>2 DEF Arrived
    <3>2. QED
      BY <3>1 DEF Sent
  <2>3. QED
    BY <1>3, <2>1, <2>2 DEF Told
<1>4. QED
  BY <1>2, <1>3

\* What stage a job is in says how often it has been answered.
LEMMA StageTells ==
    ASSUME PoolInv, NEW j \in Jobs
    PROVE  /\ Silent(j) \/ Told(j)
           /\ stage[j] \in {"new", "refused"} => Silent(j)
           /\ stage[j] = "deleted" => Told(j)
<1>1. stage[j] \in {"new", "refused", "accepted", "deleted"}
  BY DEF PoolInv, TypeOK
<1>2. stage[j] = "accepted" => \E w \in Workers : busy[w] /\ job[w] = j
  BY DEF PoolInv, Scheduled
<1>3. QED
  BY <1>1, <1>2 DEF PoolInv, Accounted

\* A job of the asynchronous plug-in is answered at most once, whichever thread it runs on
\* and whatever is aborted meanwhile, and has been by the time its thread is free again
\* (CAmWorkerThreadPool, CAmWorker::start2work, cancelWork).
THEOREM PoolAnswersOnce == Spec => []AnsweredOnce
<1>1. PoolInv => AnsweredOnce
  <2> SUFFICES ASSUME PoolInv, NEW j \in Jobs
               PROVE  /\ Sent(j) <= 1
                      /\ stage[j] = "deleted" => Sent(j) = 1
                      /\ stage[j] \in {"new", "refused"} => Sent(j) = 0
    BY DEF AnsweredOnce
  <2>1. TypeOK
    BY DEF PoolInv
  <2>2. QED
    BY <2>1, StageTells, SentCounts
<1>2. QED
  BY <1>1, PoolInvariant, PTL

-----------------------------------------------------------------------------
(* The table agrees with the answers *)

\* The volume job has reported its volume to the table, and will not change it any more.
Reported(j) ==
    /\ Kind[j] = "volume"
    /\ \/ stage[j] = "deleted"
       \/ \E w \in Workers : busy[w] /\ job[w] = j /\ pc[w] = "ending" /\ todo[w] \notin Applying

\* The volume of a sink or source is the one some job has reported to it last.
VolumesReported ==
    \A s \in Subjects :
        (\E j \in Jobs : Subject[j] = s /\ Reported(j)) =>
            \E j \in Jobs : Subject[j] = s /\ Reported(j) /\ volume[s] = current[j]

\* What has been reported stays reported, and the volume of the job stays what it was.
LEMMA ReportedStays ==
    ASSUME PoolInv, [Next]_vars, NEW j \in Jobs, Reported(j)
    PROVE  Reported(j)' /\ current'[j] = current[j]
<1> USE DEF PoolInv
<1>1. stage[j] \in {"accepted", "deleted"}
  BY DEF Reported, Scheduled
<1>2. CASE UNCHANGED vars
  BY <1>2 DEF vars, threads, daemon, Reported
<1>3. ASSUME NEW k \in Jobs, Request(k) PROVE Reported(j)' /\ current'[j] = current[j]
  <2>1. k # j /\ UNCHANGED <<pc, todo>>
    BY <1>1, <1>3 DEF Request
  <2>2. stage'[j] = stage[j] /\ current'[j] = current[j]
    BY <1>3, <2>1 DEF Request, TypeOK
  <2>3. \A w \in Workers : busy[w] => busy'[w] /\ job'[w] = job[w]
    BY <1>3 DEF Request, StartWork, Candidates, TypeOK
  <2>4. QED
    BY <2>1, <2>2, <2>3 DEF Reported
<1>4. CASE Daemon \/ \E h \in Jobs : FindHandle(h)
  BY <1>4 DEF Daemon, SaveHandle, CancelWork, Deliver, FindHandle, threads, daemon, Reported
<1>5. ASSUME NEW w \in Workers, Thread(w) PROVE Reported(j)' /\ current'[j] = current[j]
  <2>1. CASE Wake(w) \/ TimedOut(w) \/ Cancelled(w)
    <3>1. busy[w] /\ job[w] \in Jobs /\ pc[w] # "ending" /\ stage[job[w]] = "accepted"
          /\ UNCHANGED <<stage, busy, job>>
      BY <2>1, WorkScheduled DEF Wake, TimedOut, Cancelled, daemon
    <3>2. job[w] # j
      BY <1>1, <3>1 DEF Reported, Scheduled
    <3>3. current'[j] = current[j]
      BY <2>1, <3>1, <3>2 DEF Wake, TimedOut, Cancelled, GoOn, TypeOK
    <3>4. \A v \in Workers \ {w} : pc'[v] = pc[v] /\ todo'[v] = todo[v]
      BY <2>1 DEF Wake, TimedOut, Cancelled, GoOn, TypeOK
    <3>5. QED
      BY <3>1, <3>2, <3>3, <3>4 DEF Reported
  <2>2. CASE Do(w)
    <3>1. /\ todo[w] \in Lists /\ todo[w] # <<>>
          /\ UNCHANGED <<pc, busy, job, stage, current>>
      BY <2>2 DEF Do, Scheduled
    <3>2. todo'[w] = Tail(todo[w]) /\ \A v \in Workers \ {w} : todo'[v] = todo[v]
      BY <2>2 DEF Do, TypeOK
    <3>3. todo[w] \notin Applying => Tail(todo[w]) \notin Applying
      BY <3>1, ListSteps, ListsDiffer DEF Lists, Chores
    <3>4. QED
      BY <3>1, <3>2, <3>3 DEF Reported
  <2>3. CASE Finish(w)
    <3>1. /\ busy[w] /\ job[w] \in Jobs /\ UNCHANGED <<todo, job, current>>
          /\ stage' = [stage EXCEPT ![job[w]] = "deleted"]
          /\ \A v \in Workers \ {w} : pc'[v] = pc[v] /\ busy'[v] = busy[v]
      BY <2>3 DEF Finish, Release, Scheduled, TypeOK
    <3>2. CASE job[w] = j
      BY <3>1, <3>2 DEF Reported, TypeOK
    <3>3. CASE job[w] # j
      <4>1. stage'[j] = stage[j]
        BY <3>1, <3>3 DEF TypeOK
      <4>2. QED
        BY <3>1, <3>3, <4>1 DEF Reported
    <3>4. QED
      BY <3>2, <3>3
  <2>4. QED
    BY <1>5, <2>1, <2>2, <2>3 DEF Thread
<1>6. QED
  BY <1>2, <1>3, <1>4, <1>5 DEF Next

\* A job is reported, and the table changes, when a volume worker applies its volume.
LEMMA ReportIsWritten ==
    ASSUME PoolInv, [Next]_vars, NEW s \in Subjects
    PROVE  /\ \A j \in Jobs : Subject[j] = s /\ Reported(j)' /\ ~Reported(j) =>
                  volume'[s] = current'[j]
           /\ volume'[s] # volume[s] =>
                  \E j \in Jobs : Subject[j] = s /\ Reported(j)' /\ volume'[s] = current'[j]
<1> USE DEF PoolInv
<1> DEFINE Goal == /\ volume' = volume
                   /\ \A j \in Jobs : Reported(j)' => Reported(j)
<1>1. Goal => /\ \A j \in Jobs : Subject[j] = s /\ Reported(j)' /\ ~Reported(j) =>
                  volume'[s] = current'[j]
              /\ volume'[s] # volume[s] =>
                  \E j \in Jobs : Subject[j] = s /\ Reported(j)' /\ volume'[s] = current'[j]
  OBVIOUS
<1>2. CASE UNCHANGED vars
  <2>1. Goal
    BY <1>2 DEF vars, threads, tables, daemon, Reported
  <2>2. QED
    BY <1>1, <2>1
<1>3. ASSUME NEW k \in Jobs, Request(k) PROVE Goal
  <2>1. UNCHANGED <<volume, pc, todo>>
    BY <1>3 DEF Request, tables
  <2>2. ASSUME NEW j \in Jobs, Reported(j)' PROVE Reported(j)
    <3>1. stage'[j] = "deleted" => stage[j] = "deleted"
      BY <1>3 DEF Request, TypeOK
    <3>2. \A w \in Workers : busy'[w] /\ pc'[w] = "ending" => busy[w] /\ job'[w] = job[w]
      <4>1. CASE UNCHANGED <<job, busy>>
        BY <2>1, <4>1
      <4>2. ASSUME NEW v \in Candidates, StartWork(k, v)
            PROVE  \A w \in Workers : busy'[w] /\ pc'[w] = "ending" => busy[w] /\ job'[w] = job[w]
        <5>1. v \in Workers /\ pc[v] = "blocked"
          BY DEF Candidates, Scheduled, TypeOK
        <5>2. \A w \in Workers \ {v} : busy'[w] = busy[w] /\ job'[w] = job[w]
          BY <4>2, <5>1 DEF StartWork, TypeOK
        <5>3. QED
          BY <2>1, <5>1, <5>2
      <4>3. QED
        BY <1>3, <4>1, <4>2 DEF Request
    <3>3. QED
      BY <2>1, <2>2, <3>1, <3>2 DEF Reported
  <2>3. QED
    BY <2>1, <2>2
<1>4. CASE Daemon \/ \E h \in Jobs : FindHandle(h)
  <2>1. Goal
    BY <1>4 DEF Daemon, SaveHandle, CancelWork, Deliver, FindHandle, threads, daemon, tables,
                Reported
  <2>2. QED
    BY <1>1, <2>1
<1>5. ASSUME NEW w \in Workers, Wake(w) \/ TimedOut(w) \/ Cancelled(w) PROVE Goal
  <2>1. /\ busy[w] /\ job[w] \in Jobs /\ pc[w] # "ending"
        /\ UNCHANGED <<stage, busy, job, volume>>
    BY <1>5, WorkScheduled DEF Wake, TimedOut, Cancelled, daemon, tables
  <2>2. Kind[job[w]] = "volume" /\ pc'[w] = "ending" => todo'[w] \in Applying
    <3>1. CASE GoOn(w)
      <4>1. Completion(job[w]) \in Applying
        BY <2>1, StartsOfLists
      <4>2. CASE pc' = [pc EXCEPT ![w] = "waiting"]
        BY <4>2 DEF TypeOK
      <4>3. CASE todo' = [todo EXCEPT ![w] = Completion(job[w])]
        BY <4>1, <4>3 DEF TypeOK
      <4>4. QED
        BY <2>1, <3>1, <4>2, <4>3, GoOnCases
    <3>2. CASE pc' = [pc EXCEPT ![w] = "waiting"]
      BY <3>2 DEF TypeOK
    <3>3. CASE todo' = [todo EXCEPT ![w] = Cancellation(job[w])]
      <4>1. Kind[job[w]] = "volume" => Cancellation(job[w]) \in Applying
        BY <2>1, StartsOfLists
      <4>2. QED
        BY <3>3, <4>1 DEF TypeOK
    <3>4. QED
      BY <1>5, <3>1, <3>2, <3>3 DEF Wake, TimedOut, Cancelled
  <2>3. \A v \in Workers \ {w} : pc'[v] = pc[v] /\ todo'[v] = todo[v]
    BY <1>5 DEF Wake, TimedOut, Cancelled, GoOn, TypeOK
  <2>4. \A j \in Jobs : Reported(j)' => Reported(j)
    BY <2>1, <2>2, <2>3 DEF Reported
  <2>5. QED
    BY <2>1, <2>4
<1>6. ASSUME NEW w \in Workers, Finish(w) PROVE Goal
  <2>1. /\ busy[w] /\ job[w] \in Jobs /\ pc[w] = "ending" /\ todo[w] = <<>>
        /\ UNCHANGED <<todo, job, volume>> /\ busy' = [busy EXCEPT ![w] = FALSE]
        /\ stage' = [stage EXCEPT ![job[w]] = "deleted"] /\ pc' = [pc EXCEPT ![w] = "blocked"]
    BY <1>6 DEF Finish, Release, Scheduled, tables
  <2>2. todo[w] \notin Applying
    BY <2>1, ListsDiffer
  <2>3. \A v \in Workers : pc'[v] = "ending" /\ busy'[v] => pc[v] = "ending" /\ busy[v]
    BY <2>1 DEF TypeOK
  <2>4. \A j \in Jobs : stage'[j] = "deleted" => stage[j] = "deleted" \/ j = job[w]
    BY <2>1 DEF TypeOK
  <2>5. QED
    BY <2>1, <2>2, <2>3, <2>4 DEF Reported
<1>7. ASSUME NEW w \in Workers, Do(w), Head(todo[w]) # "apply" \/ Kind[job[w]] # "volume"
      PROVE  Goal
  <2>1. /\ todo[w] \in Lists /\ todo[w] # <<>> /\ busy[w] /\ pc[w] = "ending"
        /\ UNCHANGED <<pc, busy, job, stage, volume>>
    BY <1>7 DEF Do, Scheduled, Apply, tables
  <2>2. todo'[w] = Tail(todo[w]) /\ \A v \in Workers \ {w} : todo'[v] = todo[v]
    BY <1>7 DEF Do, TypeOK
  <2>3. Kind[job[w]] = "volume" => todo[w] \notin Applying
    BY <1>7, <2>1, ListSteps
  <2>4. \A j \in Jobs : Reported(j)' => Reported(j)
    BY <2>1, <2>2, <2>3 DEF Reported
  <2>5. QED
    BY <2>1, <2>4
<1>8. ASSUME NEW w \in Workers, Do(w), Head(todo[w]) = "apply", Kind[job[w]] = "volume"
      PROVE  /\ volume' = [volume EXCEPT ![Subject[job[w]]] = current[job[w]]]
             /\ UNCHANGED <<job, current>> /\ job[w] \in Jobs /\ Reported(job[w])'
             /\ \A j \in Jobs : Reported(j)' => Reported(j) \/ j = job[w]
  <2>1. /\ todo[w] \in Lists /\ todo[w] # <<>> /\ busy[w] /\ pc[w] = "ending" /\ job[w] \in Jobs
        /\ UNCHANGED <<pc, busy, job, stage, current>>
    BY <1>8 DEF Do, Scheduled
  <2>2. volume' = [volume EXCEPT ![Subject[job[w]]] = current[job[w]]]
    BY <1>8 DEF Do, Apply
  <2>3. todo'[w] = Tail(todo[w]) /\ \A v \in Workers \ {w} : todo'[v] = todo[v]
    BY <1>8 DEF Do, TypeOK
  <2>4. Tail(todo[w]) \notin Applying
    BY <1>8, <2>1, ListSteps, ListsDiffer
  <2>5. Reported(job[w])'
    BY <1>8, <2>1, <2>3, <2>4 DEF Reported
  <2>6. \A j \in Jobs : Reported(j)' => Reported(j) \/ j = job[w]
    BY <2>1, <2>3 DEF Reported
  <2>7. QED
    BY <2>1, <2>2, <2>5, <2>6
<1>9. ASSUME NEW w \in Workers, Do(w), Head(todo[w]) = "apply", Kind[job[w]] = "volume"
      PROVE  /\ \A j \in Jobs : Subject[j] = s /\ Reported(j)' /\ ~Reported(j) =>
                  volume'[s] = current'[j]
             /\ volume'[s] # volume[s] =>
                  \E j \in Jobs : Subject[j] = s /\ Reported(j)' /\ volume'[s] = current'[j]
  <2>1. Subject[job[w]] \in Subjects
    BY <1>8, <1>9 DEF Subjects
  <2>2. volume'[Subject[job[w]]] = current'[job[w]]
        /\ \A t \in Subjects : t # Subject[job[w]] => volume'[t] = volume[t]
    BY <1>8, <1>9, <2>1 DEF TypeOK
  <2>3. \A j \in Jobs : Subject[j] = s /\ Reported(j)' /\ ~Reported(j) =>
            volume'[s] = current'[j]
    BY <1>8, <1>9, <2>2
  <2>4. volume'[s] # volume[s] =>
            Subject[job'[w]] = s /\ Reported(job[w])' /\ volume'[s] = current'[job'[w]]
    BY <1>8, <1>9, <2>2
  <2>5. job'[w] \in Jobs
    BY <1>8, <1>9
  <2>6. QED
    BY <2>3, <2>4, <2>5
<1>10. QED
  BY <1>1, <1>2, <1>3, <1>4, <1>5, <1>6, <1>7, <1>9 DEF Next, Thread

\* Once the volume jobs of a sink or source have all been answered, the table of the plug-in
\* holds the volume one of them has reported, whatever their order and however many of
\* them were cancelled (updateSinkVolumeSafe, updateSourceVolumeSafe).
THEOREM VolumesAgree == Spec => []VolumesMatchAnswers
<1>1. Init => VolumesReported
  BY DEF Init, VolumesReported, Reported
<1>2. PoolInv /\ VolumesReported /\ [Next]_vars => VolumesReported'
  <2> SUFFICES ASSUME PoolInv, VolumesReported, [Next]_vars, NEW s \in Subjects,
                      NEW j \in Jobs, Subject[j] = s, Reported(j)'
               PROVE  \E k \in Jobs : Subject[k] = s /\ Reported(k)' /\ volume'[s] = current'[k]
    BY DEF VolumesReported
  <2>1. CASE volume'[s] # volume[s]
    BY <2>1, ReportIsWritten
  <2>2. CASE volume'[s] = volume[s] /\ Reported(j)
    <3>1. PICK k \in Jobs : Subject[k] = s /\ Reported(k) /\ volume[s] = current[k]
      BY <2>2 DEF VolumesReported
    <3>2. QED
      BY <2>2, <3>1, ReportedStays
  <2>3. CASE ~Reported(j)
    BY <2>3, ReportIsWritten
  <2>4. QED
    BY <2>1, <2>2, <2>3
<1>3. PoolInv /\ VolumesReported => VolumesMatchAnswers
  <2> SUFFICES ASSUME PoolInv, VolumesReported, NEW s \in Subjects, VolumeJobs(s) # {},
                      \A j \in VolumeJobs(s) : Sent(j) > 0
               PROVE  \E j \in VolumeJobs(s) : volume[s] = current[j]
    BY DEF VolumesMatchAnswers
  <2>1. ASSUME NEW j \in VolumeJobs(s) PROVE j \in Jobs /\ Subject[j] = s /\ Reported(j)
    <3>1. j \in Jobs /\ Kind[j] = "volume" /\ Subject[j] = s /\ stage[j] \in {"accepted", "deleted"}
      BY DEF VolumeJobs
    <3>2. ~Silent(j)
      <4>1. Sent(j) > 0
        OBVIOUS
      <4>2. QED
        BY <3>1, <4>1, SentCounts
    <3>3. CASE stage[j] = "accepted"
      <4>1. PICK w \in Workers : busy[w] /\ job[w] = j
        BY <3>1, <3>3 DEF PoolInv, Scheduled
      <4>2. Finishing(w)
        BY <3>2, <4>1 DEF PoolInv, Accounted
      <4>3. QED
        BY <3>1, <4>1, <4>2, ListsDiffer DEF Finishing, Reported
    <3>4. QED
      BY <3>1, <3>3 DEF Reported
  <2>2. PICK j \in Jobs : Subject[j] = s /\ Reported(j) /\ volume[s] = current[j]
    BY <2>1 DEF VolumesReported
  <2>3. j \in VolumeJobs(s)
    BY <2>2 DEF Reported, VolumeJobs, PoolInv, Scheduled
  <2>4. QED
    BY <2>2, <2>3
<1>4. QED
  BY <1>1, <1>2, <1>3, PoolInvariant, PTL DEF Spec

-----------------------------------------------------------------------------
(* The pool implements the service *)

\* The daemon gives each connection an ID of its own.
DistinctConnects == \A j, k \in Connects : Subject[j] = Subject[k] => j = k

\* A connect whose thread has passed its "apply", or that is answered with E_OK, is in the
\* table; the connection of a disconnect is, too.
ConnectsHold ==
    /\ \A w \in Workers : busy[w] =>
          /\ Kind[job[w]] = "connect" /\ pc[w] = "ending" /\ todo[w] \notin Applying
                 /\ code[w] = "E_OK" => Subject[job[w]] \in connections
          /\ Kind[job[w]] = "disconnect" => Subject[job[w]] \in connections
    /\ \A i \in DOMAIN mailbox :
          Kind[mailbox[i][1]] = "connect" /\ mailbox[i][2] = "E_OK" =>
              Subject[mailbox[i][1]] \in connections

LEMMA ConnectionsGrow == [Next]_vars => connections \subseteq connections'
<1>1. ASSUME NEW w \in Workers, Do(w) PROVE connections \subseteq connections'
  BY <1>1 DEF Do, Apply, tables
<1>2. ASSUME NEW w \in Workers, Wake(w) \/ TimedOut(w) \/ Cancelled(w) \/ Finish(w)
      PROVE  connections' = connections
  BY <1>2 DEF Wake, TimedOut, Cancelled, Finish, tables
<1>3. ASSUME NEW j \in Jobs, Request(j) \/ FindHandle(j) PROVE connections' = connections
  BY <1>3 DEF Request, FindHandle, tables
<1>4. Daemon \/ UNCHANGED vars => connections' = connections
  BY DEF Daemon, SaveHandle, CancelWork, Deliver, vars, tables
<1>5. QED
  BY <1>1, <1>2, <1>3, <1>4 DEF Next, Thread

LEMMA NextConnectsHold ==
    ASSUME PoolInv, ConnectsHold, [Next]_vars
    PROVE  ConnectsHold'
<1> USE DEF PoolInv
<1>0. connections \subseteq connections'
  BY ConnectionsGrow
<1>1. ASSUME UNCHANGED <<job, busy, pc, todo, code, mailbox>> PROVE ConnectsHold'
  BY <1>0, <1>1 DEF ConnectsHold
<1>2. ASSUME NEW j \in Jobs, Request(j) PROVE ConnectsHold'
  <2>1. UNCHANGED <<pc, todo, code, mailbox, connections>>
    BY <1>2 DEF Request, tables
  <2>2. CASE UNCHANGED <<job, busy>>
    BY <2>1, <2>2 DEF ConnectsHold
  <2>3. ASSUME Acceptable(j), NEW v \in Candidates, StartWork(j, v) PROVE ConnectsHold'
    <3>1. v \in Workers /\ pc[v] = "blocked"
      BY DEF Candidates, Scheduled, TypeOK
    <3>2. \A w \in Workers \ {v} : busy'[w] = busy[w] /\ job'[w] = job[w]
      BY <2>3, <3>1 DEF StartWork, TypeOK
    <3>3. job'[v] = j
      BY <2>3, <3>1 DEF StartWork, TypeOK
    <3>4. Kind[j] = "disconnect" => Subject[j] \in connections
      BY <2>3 DEF Acceptable
    <3>5. QED
      BY <2>1, <3>1, <3>2, <3>3, <3>4 DEF ConnectsHold
  <2>4. QED
    BY <1>2, <2>2, <2>3 DEF Request
<1>3. CASE Deliver
  <2>1. UNCHANGED <<job, busy, pc, todo, code, connections>> /\ mailbox' = Tail(mailbox)
        /\ mailbox # <<>>
    BY <1>3 DEF Deliver, threads, tables
  <2>2. \A i \in DOMAIN mailbox' : i + 1 \in DOMAIN mailbox /\ mailbox'[i] = mailbox[i + 1]
    <3>1. mailbox \in Seq(Jobs \X Codes)
      BY DEF TypeOK
    <3>2. QED
      BY <2>1, <3>1
  <2>3. QED
    BY <2>1, <2>2 DEF ConnectsHold
<1>4. CASE SaveHandle \/ CancelWork \/ (\E h \in Jobs : FindHandle(h)) \/ UNCHANGED vars
  BY <1>1, <1>4 DEF SaveHandle, CancelWork, FindHandle, threads, daemon, vars
<1>5. ASSUME NEW w \in Workers, Wake(w) \/ TimedOut(w) \/ Cancelled(w) PROVE ConnectsHold'
  <2>1. /\ busy[w] /\ job[w] \in Jobs /\ pc[w] # "ending"
        /\ UNCHANGED <<mailbox, busy, job, connections>>
    BY <1>5, WorkScheduled DEF Wake, TimedOut, Cancelled, daemon, tables
  <2>2. \A v \in Workers \ {w} : pc'[v] = pc[v] /\ todo'[v] = todo[v] /\ code'[v] = code[v]
    BY <1>5 DEF Wake, TimedOut, Cancelled, GoOn, TypeOK
  <2>3. pc'[w] = "ending" => todo'[w] \in Applying \/ Kind[job[w]] # "connect" \/ code'[w] # "E_OK"
    <3>1. CASE GoOn(w)
      <4>1. Completion(job[w]) \in Applying
        BY <2>1, StartsOfLists
      <4>2. CASE pc' = [pc EXCEPT ![w] = "waiting"]
        BY <4>2 DEF TypeOK
      <4>3. CASE todo' = [todo EXCEPT ![w] = Completion(job[w])]
        BY <4>1, <4>3 DEF TypeOK
      <4>4. QED
        BY <2>1, <3>1, <4>2, <4>3, GoOnCases
    <3>2. CASE pc' = [pc EXCEPT ![w] = "waiting"]
      BY <3>2 DEF TypeOK
    <3>3. CASE code' = [code EXCEPT ![w] = CancelCode(job[w])]
      <4>1. Kind[job[w]] = "connect" => CancelCode(job[w]) = "E_ABORTED"
        BY <2>1, StartsOfLists
      <4>2. QED
        BY <3>3, <4>1 DEF TypeOK
    <3>4. QED
      BY <1>5, <3>1, <3>2, <3>3 DEF Wake, TimedOut, Cancelled
  <2>4. QED
    BY <2>1, <2>2, <2>3 DEF ConnectsHold
<1>6. ASSUME NEW w \in Workers, Do(w) PROVE ConnectsHold'
  <2>1. /\ todo[w] \in Lists /\ todo[w] # <<>> /\ busy[w] /\ pc[w] = "ending" /\ job[w] \in Jobs
        /\ UNCHANGED <<pc, busy, job, code>> /\ code[w] \in Codes
    BY <1>6 DEF Do, Scheduled, TypeOK
  <2>2. todo'[w] = Tail(todo[w]) /\ \A v \in Workers \ {w} : todo'[v] = todo[v]
    BY <1>6 DEF Do, TypeOK
  <2>3. CASE Head(todo[w]) = "apply"
    <3>1. UNCHANGED mailbox /\ (Kind[job[w]] = "connect" => Subject[job[w]] \in connections')
      BY <1>6, <2>3 DEF Do, Apply
    <3>2. QED
      BY <1>0, <2>1, <2>2, <3>1 DEF ConnectsHold
  <2>4. CASE Head(todo[w]) # "apply"
    <3>1. todo[w] \notin Applying
      BY <2>1, <2>4, ListSteps
    <3>2. \A v \in Workers : busy'[v] =>
          /\ Kind[job'[v]] = "connect" /\ pc'[v] = "ending" /\ todo'[v] \notin Applying
                 /\ code'[v] = "E_OK" => Subject[job'[v]] \in connections'
          /\ Kind[job'[v]] = "disconnect" => Subject[job'[v]] \in connections'
      BY <1>0, <2>1, <2>2, <3>1 DEF ConnectsHold
    <3>3. CASE UNCHANGED mailbox
      BY <1>0, <3>2, <3>3 DEF ConnectsHold
    <3>4. CASE mailbox' = Append(mailbox, <<job[w], code[w]>>)
      <4>1. mailbox \in Seq(Jobs \X Codes) /\ <<job[w], code[w]>> \in Jobs \X Codes
        BY <2>1 DEF TypeOK
      <4>2. \A i \in DOMAIN mailbox' : \/ i \in DOMAIN mailbox /\ mailbox'[i] = mailbox[i]
                                       \/ mailbox'[i] = <<job[w], code[w]>>
        BY <3>4, <4>1
      <4>3. Kind[job[w]] = "connect" /\ code[w] = "E_OK" => Subject[job[w]] \in connections
        BY <2>1, <3>1 DEF ConnectsHold
      <4>4. \A i \in DOMAIN mailbox' :
                Kind[mailbox'[i][1]] = "connect" /\ mailbox'[i][2] = "E_OK" =>
                    Subject[mailbox'[i][1]] \in connections'
        BY <1>0, <4>2, <4>3 DEF ConnectsHold
      <4>5. QED
        BY <3>2, <4>4 DEF ConnectsHold
    <3>5. QED
      BY <1>6, <2>4, <3>3, <3>4 DEF Do
  <2>5. QED
    BY <2>3, <2>4
<1>7. ASSUME NEW w \in Workers, Finish(w) PROVE ConnectsHold'
  <2>1. UNCHANGED <<todo, job, code, mailbox, connections>>
        /\ \A v \in Workers : busy'[v] => busy[v] /\ pc'[v] = pc[v]
    BY <1>7 DEF Finish, Release, tables, TypeOK
  <2>2. QED
    BY <2>1 DEF ConnectsHold
<1>8. QED
  BY <1>2, <1>3, <1>4, <1>5, <1>6, <1>7 DEF Next, Daemon, Thread

LEMMA ServiceInitHolds == Init => Service!ServiceInit
<1> SUFFICES ASSUME Init PROVE Service!ServiceInit
  OBVIOUS
<1>1. ServiceState = [j \in Jobs |-> "new"]
  BY DEF Init, ServiceState
<1>2. ServiceConnected = {}
  BY DEF Init, ServiceConnected
<1>3. QED
  BY <1>1, <1>2 DEF Service!ServiceInit

\* Steps the user of the service does not see.
LEMMA Unseen ==
    ASSUME PoolInv, UNCHANGED <<answers, connections>>,
           \A j \in Jobs : stage'[j] = stage[j] \/ (stage[j] = "accepted" /\ stage'[j] = "deleted")
    PROVE  UNCHANGED Service!serviceVars
<1>1. UNCHANGED ServiceConnected
  BY DEF ServiceConnected
<1>2. UNCHANGED ServiceState
  BY DEF ServiceState
<1>3. QED
  BY <1>1, <1>2 DEF Service!serviceVars

LEMMA ServiceStep ==
    ASSUME PoolInv, ConnectsHold, [Next]_vars, DistinctConnects
    PROVE  [Service!ServiceNext]_(Service!serviceVars)
<1> USE DEF PoolInv
<1>1. ASSUME NEW j \in Jobs, Request(j)
      PROVE  Service!Accept(j) \/ Service!Refuse(j)
  <2>1. stage[j] = "new" /\ answers[j] = <<>> /\ UNCHANGED <<answers, connections>>
    BY <1>1 DEF Request, Accounted, Silent, tables
  <2>2. PICK s \in {"accepted", "refused"} : stage' = [stage EXCEPT ![j] = s]
    BY <1>1 DEF Request
  <2>3. ServiceState[j] = "new" /\ ServiceState' = [ServiceState EXCEPT ![j] = s]
    BY <2>1, <2>2 DEF ServiceState, TypeOK
  <2>4. UNCHANGED ServiceConnected
    BY <2>1 DEF ServiceConnected
  <2>5. QED
    BY <2>2, <2>3, <2>4 DEF Service!Accept, Service!Refuse, Service!Become
<1>2. CASE Deliver
  <2> DEFINE k == Head(mailbox)[1]
             c == Head(mailbox)[2]
  <2>1. /\ mailbox # <<>> /\ mailbox' = Tail(mailbox) /\ 1 \in DOMAIN mailbox
        /\ mailbox[1] = Head(mailbox) /\ k \in Jobs /\ c \in Codes
        /\ answers' = [answers EXCEPT ![k] = Append(@, c)] /\ UNCHANGED <<stage, connections>>
    <3>1. mailbox # <<>> /\ mailbox \in Seq(Jobs \X Codes)
      BY <1>2 DEF Deliver, TypeOK
    <3>2. 1 \in DOMAIN mailbox /\ mailbox[1] = Head(mailbox) /\ Head(mailbox) \in Jobs \X Codes
      BY <3>1
    <3>3. QED
      BY <1>2, <3>1, <3>2 DEF Deliver, tables
  <2>2. 1 \in InMailbox(k)
    BY <2>1 DEF InMailbox
  <2>3. answers[k] = <<>> /\ stage[k] \in {"accepted", "deleted"}
    <3>1. Underway(k)
      BY <2>1, <2>2, StageTells DEF Silent, Told, Arrived
    <3>2. stage[k] \notin {"new", "refused"}
      BY <2>1, <2>2, StageTells DEF Silent
    <3>3. QED
      BY <2>1, <3>1, <3>2 DEF Underway, TypeOK
  <2>4. ServiceState[k] = "accepted"
    BY <2>1, <2>3 DEF ServiceState
  <2>5. answers'[k] = <<c>>
    <3>1. answers'[k] = Append(answers[k], c)
      BY <2>1 DEF TypeOK
    <3>2. QED
      BY <2>3, <3>1
  <2>6. ServiceState' = [ServiceState EXCEPT ![k] = IF c = "E_OK" THEN "done" ELSE "aborted"]
    <3>1. \A j \in Jobs : j # k => answers'[j] = answers[j]
      BY <2>1 DEF TypeOK
    <3>2. <<c>> # <<>> /\ <<c>>[1] = c
      OBVIOUS
    <3>3. ServiceState'[k] = IF c = "E_OK" THEN "done" ELSE "aborted"
      BY <2>1, <2>5, <3>2 DEF ServiceState
    <3>4. \A j \in Jobs : j # k => ServiceState'[j] = ServiceState[j]
      BY <2>1, <3>1 DEF ServiceState
    <3>5. QED
      BY <2>1, <3>3, <3>4 DEF ServiceState
  <2>7. UNCHANGED ServiceConnected
    BY <2>1 DEF ServiceConnected
  <2>8. k \in Connects /\ c = "E_OK" => k \in ServiceConnected
    BY <2>1 DEF Connects, ServiceConnected, ConnectsHold
  <2>9. Service!AnswerDone(k) \/ Service!AnswerAborted(k)
    BY <2>4, <2>6, <2>7, <2>8 DEF Service!AnswerDone, Service!AnswerAborted, Service!Become
  <2>10. QED
    BY <2>1, <2>9 DEF Service!ServiceNext
<1>3. CASE SaveHandle \/ CancelWork \/ (\E h \in Jobs : FindHandle(h)) \/ UNCHANGED vars
  <2>1. UNCHANGED <<answers, connections, stage>>
    BY <1>3 DEF SaveHandle, CancelWork, FindHandle, daemon, tables, vars
  <2>2. QED
    BY <2>1, Unseen
<1>4. ASSUME NEW w \in Workers, Wake(w) \/ TimedOut(w) \/ Cancelled(w)
      PROVE  UNCHANGED Service!serviceVars
  <2>1. UNCHANGED <<answers, connections, stage>>
    BY <1>4 DEF Wake, TimedOut, Cancelled, daemon, tables
  <2>2. QED
    BY <2>1, Unseen
<1>5. ASSUME NEW w \in Workers, Do(w)
      PROVE  (\E j \in Jobs : Service!Establish(j)) \/ UNCHANGED Service!serviceVars
  <2>1. /\ busy[w] /\ job[w] \in Jobs /\ pc[w] = "ending" /\ stage[job[w]] = "accepted"
        /\ todo[w] \in Lists /\ todo[w] # <<>> /\ UNCHANGED <<answers, stage>>
    BY <1>5 DEF Do, Scheduled
  <2>2. CASE UNCHANGED connections
    BY <2>1, <2>2, Unseen
  <2>3. CASE connections' # connections
    <3>1. Head(todo[w]) = "apply" /\ connections' = connections \cup {Subject[job[w]]}
          /\ Kind[job[w]] \in {"connect", "disconnect"}
      BY <1>5, <2>3 DEF Do, Apply, tables
    <3>2. Kind[job[w]] = "connect"
      BY <2>1, <2>3, <3>1 DEF ConnectsHold
    <3>3. Silent(job[w])
      BY <2>1, <3>1, ListSteps, ListsDiffer DEF Accounted, Finishing
    <3>4. ServiceState[job[w]] = "accepted" /\ UNCHANGED ServiceState
      BY <2>1, <3>3 DEF Silent, ServiceState
    <3>5. ServiceConnected' = ServiceConnected \cup {job[w]}
      BY <2>1, <3>1, <3>2 DEF ServiceConnected, Connects, DistinctConnects
    <3>6. Service!Establish(job[w])
      BY <2>1, <3>2, <3>4, <3>5 DEF Service!Establish, Connects
    <3>7. QED
      BY <2>1, <3>6
  <2>4. QED
    BY <2>2, <2>3
<1>6. ASSUME NEW w \in Workers, Finish(w)
      PROVE  UNCHANGED Service!serviceVars
  <2>1. UNCHANGED <<answers, connections>> /\ stage[job[w]] = "accepted"
        /\ stage' = [stage EXCEPT ![job[w]] = "deleted"]
    BY <1>6 DEF Finish, tables, Scheduled
  <2>2. \A j \in Jobs : stage'[j] = stage[j] \/ (stage[j] = "accepted" /\ stage'[j] = "deleted")
    BY <2>1 DEF TypeOK
  <2>3. QED
    BY <2>1, <2>2, Unseen
<1>7. QED
  BY <1>1, <1>2, <1>3, <1>4, <1>5, <1>6 DEF Next, Daemon, Thread, Service!ServiceNext

\* The worker pool is an asynchronous routing service: for the daemon, which has given each
\* connection an ID of its own, each accepted request is answered once, no refused one is,
\* and a connect answered with E_OK is in the table of the plug-in (asyncConnect,
\* CAmRoutingSenderAsync::insertConnectionSafe).
THEOREM PoolImplementsService ==
    ASSUME DistinctConnects
    PROVE  Spec => ImplementsService
<1>1. Init => ConnectsHold
  BY DEF Init, ConnectsHold
<1>2. PoolInv /\ ConnectsHold /\ [Next]_vars => ConnectsHold'
  BY NextConnectsHold
<1>3. PoolInv /\ ConnectsHold /\ [Next]_vars => [Service!ServiceNext]_(Service!serviceVars)
  BY DistinctConnects, ServiceStep
<1>4. QED
  BY <1>1, <1>2, <1>3, ServiceInitHolds, PoolInvariant, PTL
     DEF Spec, ImplementsService, Service!ServiceSpec
=============================================================================
