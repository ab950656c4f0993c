---------------------------- MODULE AdapterThread ----------------------------
(***************************************************************************)
(* CAmRoutingAdapterThread, the base class of what works on a thread of    *)
(* its own in the ALSA routing adapter.  The daemon's thread starts, stops *)
(* and joins the worker; the two agree through mState, which is written    *)
(* under a mutex and read without one.                                     *)
(*                                                                         *)
(* One action is one access to mState.  Waiting on the condition variable  *)
(* is waiting for its predicate: the waits loop on it, every write signals *)
(* and never more than one thread waits for the value just replaced.       *)
(***************************************************************************)
EXTENDS Naturals

CONSTANT Threads   \* the objects derived from the class

VARIABLES
  mState,   \* mState of every object
  worker,   \* where its thread is; "undefined" once it called what is destroyed
  ended,    \* mThreadErr # 0
  object,   \* "none", "whole", or "base" while the destructor of the class runs
  call      \* what the daemon's thread is in: [at, thread, next]

threadVars == <<mState, worker, ended, object, call>>

NoThread == <<0, "none">>
NoCall == [at |-> "idle", thread |-> NoThread, next |-> "idle"]
ForkedStates == {"RUNNING", "STOPPING", "STOPPED"}   \* isStateForked()

ThreadInit ==
  /\ mState = [w \in Threads |-> "JOINED"]
  /\ worker = [w \in Threads |-> "none"]
  /\ ended = [w \in Threads |-> FALSE]
  /\ object = [w \in Threads |-> "none"]
  /\ call = NoCall

-----------------------------------------------------------------------------
(* The daemon's thread.  A function reads mState and goes on from there,   *)
(* after a wait for a change where the table says so.                      *)

At(place)        == call' = [call EXCEPT !.at = place]
Goto(next)       == [wait |-> FALSE, next |-> next]
AfterChange(next) == [wait |-> TRUE, next |-> next]

startThread ==
  [JOINED |-> Goto("fork"), JOINING |-> AfterChange("fork"), FORKING |-> AfterChange("done"),
   STOPPING |-> AfterChange("resume"), STOPPED |-> Goto("resume"), RUNNING |-> Goto("done")]

stopThread ==
  [FORKING |-> AfterChange("halt"), RUNNING |-> Goto("halt"), STOPPING |-> AfterChange("done"),
   STOPPED |-> Goto("done"), JOINING |-> Goto("done"), JOINED |-> Goto("done")]

MutJoinThreadLeavesStopped ==
  [FORKING |-> AfterChange("joining"), RUNNING |-> Goto("joining"),
   STOPPING |-> Goto("joining"), STOPPED |-> Goto("done"),
   JOINED |-> Goto("done"), JOINING |-> Goto("reap")]
joinThread ==
  [FORKING |-> AfterChange("joining"), RUNNING |-> Goto("joining"),
   STOPPING |-> Goto("joining"), STOPPED |-> Goto("joining"),
   JOINED |-> Goto("done"), JOINING |-> Goto("reap")]

Table == [start |-> startThread, stop |-> stopThread, join |-> joinThread]

\* getState() at the beginning of startThread(), stopThread(), joinThread().
ReadState ==
  /\ call.at \in DOMAIN Table
  /\ LET s == mState[call.thread]
         way == Table[call.at][s]
     IN call' = [call EXCEPT !.at = IF way.wait THEN s ELSE way.next, !.next = way.next]
  /\ UNCHANGED <<mState, worker, ended, object>>

\* waitForStateChange(): "at" is the state waited on.
StateChanged ==
  /\ call.at \in {"JOINING", "FORKING", "STOPPING"}
  /\ mState[call.thread] # call.at
  /\ At(call.next)
  /\ UNCHANGED <<mState, worker, ended, object>>

Set(w, s) == mState' = [mState EXCEPT ![w] = s]

\* startWorkerThread(): pthread_create() and the wait for the outcome of initThread().
Fork ==
  /\ call.at = "fork"
  /\ Set(call.thread, "FORKING")
  /\ worker' = [worker EXCEPT ![call.thread] = "init"]
  /\ ended' = [ended EXCEPT ![call.thread] = FALSE]
  /\ call' = [call EXCEPT !.at = "FORKING", !.next = "verdict"]
  /\ UNCHANGED object

Verdict ==
  /\ call.at = "verdict"
  /\ At(IF mState[call.thread] = "RUNNING" THEN "done" ELSE "reap")
  /\ UNCHANGED <<mState, worker, ended, object>>

\* startThread() after a stop.
Resume ==
  /\ call.at = "resume"
  /\ Set(call.thread, "RUNNING")
  /\ At("done")
  /\ UNCHANGED <<worker, ended, object>>

\* stopThread(): setStateAndWaitForStateChange(STATE_STOPPING).
Halt ==
  /\ call.at = "halt"
  /\ Set(call.thread, "STOPPING")
  /\ call' = [call EXCEPT !.at = "STOPPING", !.next = "done"]
  /\ UNCHANGED <<worker, ended, object>>

Joining ==
  /\ call.at = "joining"
  /\ Set(call.thread, "JOINING")
  /\ At("reap")
  /\ UNCHANGED <<worker, ended, object>>

\* pthread_join() has returned.
Reap ==
  /\ call.at = "reap"
  /\ worker[call.thread] = "exit"
  /\ worker' = [worker EXCEPT ![call.thread] = "none"]
  /\ Set(call.thread, "JOINED")
  /\ At("done")
  /\ UNCHANGED <<ended, object>>

CallStep == ReadState \/ StateChanged \/ Fork \/ Verdict \/ Resume \/ Halt \/ Joining \/ Reap

-----------------------------------------------------------------------------
(* WorkerThread().                                                         *)

Move(w, from, to) == worker[w] = from /\ worker' = [worker EXCEPT ![w] = to]

\* initThread(), and setState(STATE_RUNNING) when it succeeds.
InitThread(w, ok) ==
  /\ object[w] = "whole"
  /\ Move(w, "init", IF ok THEN "work" ELSE "leave")
  /\ ended' = [ended EXCEPT ![w] = ~ok]
  /\ mState' = IF ok THEN [mState EXCEPT ![w] = "RUNNING"] ELSE mState
  /\ UNCHANGED <<object, call>>

\* One call of workerThread(), which returns err.
Work(w, err) ==
  /\ object[w] = "whole"
  /\ Move(w, "work", "check")
  /\ ended' = [ended EXCEPT ![w] = err]
  /\ UNCHANGED <<mState, object, call>>

\* if (getState() == STATE_STOPPING)
MutCheckUnanswered(w) ==
  /\ Move(w, "check", "test")
  /\ UNCHANGED <<mState, ended, object, call>>
Check(w) ==
  /\ Move(w, "check", IF mState[w] = "STOPPING" THEN "halt" ELSE "test")
  /\ UNCHANGED <<mState, ended, object, call>>

\* setStateAndWaitForStateChange(STATE_STOPPED)
Stopped(w) ==
  /\ Move(w, "halt", "wait")
  /\ Set(w, "STOPPED")
  /\ UNCHANGED <<ended, object, call>>

Woken(w) ==
  /\ mState[w] # "STOPPED"
  /\ Move(w, "wait", "test")
  /\ UNCHANGED <<mState, ended, object, call>>

\* while ((mThreadErr == 0) && (isStateForked()))
Test(w) ==
  /\ Move(w, "test", IF ~ended[w] /\ mState[w] \in ForkedStates THEN "work" ELSE "leave")
  /\ UNCHANGED <<mState, ended, object, call>>

LoopLeft(w) ==
  /\ Move(w, "leave", "deinit")
  /\ Set(w, "JOINING")
  /\ UNCHANGED <<ended, object, call>>

\* deinitThread() and pthread_exit().
DeinitThread(w) ==
  /\ object[w] = "whole"
  /\ Move(w, "deinit", "exit")
  /\ UNCHANGED <<mState, ended, object, call>>

\* The three functions are virtual.  When the destructor of the derived class has run
\* they are pure, and what they would use is destroyed: the behaviour is undefined.
Undefined(w) ==
  /\ object[w] = "base"
  /\ worker[w] \in {"init", "work", "deinit"}
  /\ worker' = [worker EXCEPT ![w] = "undefined"]
  /\ UNCHANGED <<mState, ended, object, call>>

WorkerStep(w) ==
  Check(w) \/ Stopped(w) \/ Woken(w) \/ Test(w) \/ LoopLeft(w) \/ Undefined(w)

\* Nothing is said of a program whose behaviour has become undefined.
Defined == \A w \in Threads : worker[w] # "undefined"
==============================================================================
