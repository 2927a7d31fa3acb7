----------------------------- MODULE PeriodicTask -----------------------------
(***************************************************************************)
(* utils/periodic-task.hpp: a thread that runs a task once per period,     *)
(* holding cv_m_ while it does, until the destructor cancels and joins it. *)
(* What the task does is up to the module that uses this one.              *)
(***************************************************************************)
VARIABLES
  ticker,    \* where the thread is in do_work
  canceled,  \* canceled_
  dtor       \* where the destructor is

taskVars == <<ticker, canceled, dtor>>

TaskTypeOK ==
  /\ ticker \in {"none", "check", "lock", "locked", "wait", "running", "ended"}
  /\ canceled \in BOOLEAN
  /\ dtor \in {"none", "notify", "join", "done"}

NoTask == ticker = "none" /\ canceled = FALSE /\ dtor = "none"

\* the constructor
MakeTask == ticker' = "check" /\ canceled' = FALSE /\ dtor' = "none"

\* (mutant) the destructor notifies without the mutex
NotifyAnyTime == TRUE
\* cv_m_ is held from the look at canceled_ to the wait, and by the task
CvFree == ticker \notin {"locked", "running"}

(* The thread.                                                             *)
CheckCanceled ==
  /\ ticker = "check" /\ ticker' = IF canceled THEN "ended" ELSE "lock"
  /\ UNCHANGED <<canceled, dtor>>

\* wait_for evaluates its predicate with the mutex locked ...
LockCv ==
  /\ ticker = "lock" /\ ticker' = IF canceled THEN "check" ELSE "locked"
  /\ UNCHANGED <<canceled, dtor>>
\* ... then waits, which unlocks it
BeginWait ==
  /\ ticker = "locked" /\ ticker' = "wait"
  /\ UNCHANGED <<canceled, dtor>>

\* the period is over
PeriodOver ==
  /\ ticker = "wait" /\ ticker' = IF canceled THEN "check" ELSE "running"
  /\ UNCHANGED <<canceled, dtor>>

\* the task returns
TaskReturns == ticker = "running" /\ ticker' = "check" /\ UNCHANGED <<canceled, dtor>>

(* The destructor.                                                         *)
Cancel ==
  /\ dtor = "none" /\ canceled' = TRUE /\ dtor' = "notify"
  /\ UNCHANGED ticker

Notify ==
  /\ dtor = "notify" /\ CvFree
  /\ dtor' = "join" /\ ticker' = IF ticker = "wait" THEN "check" ELSE ticker
  /\ UNCHANGED canceled

\* the future's destructor
Join ==
  /\ dtor = "join" /\ ticker = "ended" /\ dtor' = "done"
  /\ UNCHANGED <<ticker, canceled>>
=============================================================================
