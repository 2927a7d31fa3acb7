--------------------------- MODULE ThreadedWrapper ---------------------------
(***************************************************************************)
(* utils/threaded-wrapper.hpp: a member object that is built, used and     *)
(* destroyed in one worker thread only.  The code shown here is the        *)
(* worker's polling loop (threaded_wrap), the hand-shake of a synchronous  *)
(* call (do_sync_task), the asynchronous queue (run_async_tasks,           *)
(* invoke_async, run_async) and the constructor and destructor, which are  *)
(* themselves synchronous calls.                                           *)
(*                                                                         *)
(* async_mtx_ protects single accesses only, so these are atomic steps;    *)
(* task_done_m_ is locked by the worker thread alone and is left out.      *)
(*                                                                         *)
(* Using the wrapper while it is built or destroyed is undefined, so the   *)
(* clients call it between the constructor's return and the destructor's   *)
(* call; a task, however, runs in the worker and may submit at any time.   *)
(***************************************************************************)
EXTENDS Naturals, Sequences

CONSTANTS Clients,      \* threads that call invoke, run, wait_done, run_async
          Owner,        \* the thread that constructs and destroys the wrapper
          Worker,       \* the thread of fut_
          NoThread,     \* no mutex holder, no synchronous task
          MaxCalls,     \* bound: calls per client
          MaxNested     \* bound: tasks submitted by tasks

ASSUME ThreadsAssumption ==
  /\ Owner \notin Clients /\ Worker \notin Clients /\ Owner # Worker
  /\ NoThread \notin Clients \cup {Owner, Worker}
ASSUME BoundsAssumption == MaxCalls \in Nat /\ MaxNested \in Nat

VARIABLES
  member,        \* member_: "unborn", "live" or "gone"
  sync_task,     \* sync_task_: the thread whose lambda it is, or NoThread
  cv_m,          \* holder of cv_m_
  sync_mtx,      \* holder of sync_mtx_
  task_done,     \* task_done_
  async_tasks,   \* async_tasks_
  canceled,      \* canceled_
  tasks_to_do,   \* the worker's local batch in run_async_tasks
  wpc,           \* where the worker is in threaded_wrap
  pc,            \* where each client and the owner are in do_sync_task
  phase,         \* "ctor", "live", "dtor", "dead": the owner's progress
  calls,         \* number of calls each client and the worker have made
  (* history *)
  submitted,     \* asynchronous tasks in the order they were queued
  executed,      \* asynchronous tasks in the order they were executed
  runs,          \* times the task of the latest call of a client was run
  due,           \* Len(submitted) when a client made its latest call
  closeDue       \* Len(submitted) when the destructor's task began

history == <<submitted, executed, runs, due, closeDue>>
vars == <<member, sync_task, cv_m, sync_mtx, task_done, async_tasks, canceled,
          tasks_to_do, wpc, pc, phase, calls, history>>

Callers == Clients \cup {Owner}
\* An asynchronous task: who submitted it, and its number among its calls.
Task == (Clients \cup {Worker}) \X (0..(MaxCalls + MaxNested))

WorkerPlaces == {"check", "lock", "swap", "run", "sync", "dtor_swap",
                 "dtor_run", "dtor_reset", "done", "wait", "stopped"}
CallPlaces == {"ready", "lock_sync", "lock_cv", "waiting", "woken", "reset",
               "join"}

Init ==
  /\ member = "unborn" /\ sync_task = NoThread
  /\ cv_m = NoThread /\ sync_mtx = NoThread
  /\ task_done = FALSE /\ canceled = FALSE
  /\ async_tasks = <<>> /\ tasks_to_do = <<>>
  /\ wpc = "check" /\ phase = "ctor"
  /\ pc = [t \in Callers |-> IF t = Owner THEN "lock_sync" ELSE "ready"]
  /\ calls = [t \in Clients \cup {Worker} |-> 0]
  /\ submitted = <<>> /\ executed = <<>> /\ closeDue = 0
  /\ runs = [c \in Clients |-> 0] /\ due = [c \in Clients |-> 0]

-----------------------------------------------------------------------------
(* The callers: invoke, run and wait_done all go through do_sync_task.     *)

\* A client may call as long as the wrapper is neither built nor destroyed.
MayCall(c) == phase = "live" /\ pc[c] = "ready" /\ calls[c] < MaxCalls

\* invoke_async, run_async: one locked append to async_tasks_.
invoke_async(c) ==
  /\ MayCall(c)
  /\ LET t == <<c, calls[c]>> IN
       /\ async_tasks' = Append(async_tasks, t)
       /\ submitted' = Append(submitted, t)
  /\ calls' = [calls EXCEPT ![c] = @ + 1]
  /\ UNCHANGED <<member, sync_task, cv_m, sync_mtx, task_done, canceled,
                 tasks_to_do, wpc, pc, phase, executed, runs, due, closeDue>>

invoke(c) ==
  /\ MayCall(c)
  /\ pc' = [pc EXCEPT ![c] = "lock_sync"]
  /\ calls' = [calls EXCEPT ![c] = @ + 1]
  /\ runs' = [runs EXCEPT ![c] = 0]
  /\ due' = [due EXCEPT ![c] = Len(submitted)]
  /\ UNCHANGED <<member, sync_task, cv_m, sync_mtx, task_done, async_tasks,
                 canceled, tasks_to_do, wpc, phase, submitted, executed,
                 closeDue>>

\* ~ThreadedWrapper: no client is inside a call (its contract).
Destroy ==
  /\ phase = "live" /\ pc[Owner] = "ready"
  /\ \A c \in Clients : pc[c] = "ready"
  /\ phase' = "dtor"
  /\ pc' = [pc EXCEPT ![Owner] = "lock_sync"]
  /\ UNCHANGED <<member, sync_task, cv_m, sync_mtx, task_done, async_tasks,
                 canceled, tasks_to_do, wpc, calls, history>>

LockSync(t) ==
  /\ pc[t] = "lock_sync" /\ sync_mtx = NoThread
  /\ sync_mtx' = t
  /\ pc' = [pc EXCEPT ![t] = "lock_cv"]
  /\ UNCHANGED <<member, sync_task, cv_m, task_done, async_tasks, canceled,
                 tasks_to_do, wpc, phase, calls, history>>

\* (mutant) `if' instead of `while' around task_done_cv_.wait
ReturnsWhenWoken == "reset"

\* while (!task_done_) task_done_cv_.wait(lock2)
WaitLoop == IF task_done THEN "reset" ELSE "waiting"

\* Under cv_m_: set sync_task_, notify the worker, test task_done_ and, as
\* long as it is false, release cv_m_ in task_done_cv_.wait.
PostTask(t) ==
  /\ pc[t] = "lock_cv" /\ cv_m = NoThread
  /\ sync_task' = t
  /\ pc' = [pc EXCEPT ![t] = WaitLoop]
  /\ UNCHANGED <<member, cv_m, sync_mtx, task_done, async_tasks, canceled,
                 tasks_to_do, wpc, phase, calls, history>>

\* A condition variable may wake without having been notified.
SpuriousWake(t) ==
  /\ pc[t] = "waiting"
  /\ pc' = [pc EXCEPT ![t] = "woken"]
  /\ UNCHANGED <<member, sync_task, cv_m, sync_mtx, task_done, async_tasks,
                 canceled, tasks_to_do, wpc, phase, calls, history>>

\* A woken caller owns cv_m_ again and evaluates the loop's condition.
Recheck(t) ==
  /\ pc[t] = "woken" /\ cv_m = NoThread
  /\ pc' = [pc EXCEPT ![t] = WaitLoop]
  /\ UNCHANGED <<member, sync_task, cv_m, sync_mtx, task_done, async_tasks,
                 canceled, tasks_to_do, wpc, phase, calls, history>>

\* task_done_ = false without cv_m_, then sync_mtx_ is released on return.
ReturnFromSync(t) ==
  /\ pc[t] = "reset"
  /\ task_done' = FALSE
  /\ sync_mtx' = NoThread
  /\ pc' = [pc EXCEPT ![t] = IF phase = "dtor" THEN "join" ELSE "ready"]
  /\ phase' = IF phase = "ctor" THEN "live" ELSE phase
  /\ UNCHANGED <<member, sync_task, cv_m, async_tasks, canceled, tasks_to_do,
                 wpc, calls, history>>

\* fut_.get() in the destructor.
Join ==
  /\ pc[Owner] = "join" /\ wpc = "stopped"
  /\ phase' = "dead"
  /\ pc' = [pc EXCEPT ![Owner] = "ready"]
  /\ UNCHANGED <<member, sync_task, cv_m, sync_mtx, task_done, async_tasks,
                 canceled, tasks_to_do, wpc, calls, history>>

-----------------------------------------------------------------------------
(* The worker: threaded_wrap.                                              *)

\* (mutant) a synchronous task that is posted is run before the queue
SyncFirst == IF sync_task # NoThread THEN "sync" ELSE "swap"

\* the first statement of the loop's body once cv_m_ is locked
LoopBodyStart == "swap"

CheckCanceled ==
  /\ wpc = "check"
  /\ wpc' = IF canceled THEN "stopped" ELSE "lock"
  /\ UNCHANGED <<member, sync_task, cv_m, sync_mtx, task_done, async_tasks,
                 canceled, tasks_to_do, pc, phase, calls, history>>

LockCv ==
  /\ wpc = "lock" /\ cv_m = NoThread
  /\ cv_m' = Worker
  /\ wpc' = LoopBodyStart
  /\ UNCHANGED <<member, sync_task, sync_mtx, task_done, async_tasks, canceled,
                 tasks_to_do, pc, phase, calls, history>>

\* (mutant) the tasks are copied instead of swapped
QueueKept == async_tasks

\* std::swap(tasks_to_do, async_tasks_) with an empty vector
QueueAfterSwap == <<>>

\* run_async_tasks, called from the loop and from the destructor's task.
SwapTasks ==
  /\ wpc \in {"swap", "dtor_swap"}
  /\ tasks_to_do' = async_tasks
  /\ async_tasks' = QueueAfterSwap
  /\ wpc' = IF wpc = "swap" THEN "run" ELSE "dtor_run"
  /\ UNCHANGED <<member, sync_task, cv_m, sync_mtx, task_done, canceled, pc,
                 phase, calls, history>>

RunOneTask ==
  /\ wpc \in {"run", "dtor_run"} /\ tasks_to_do # <<>>
  /\ executed' = Append(executed, Head(tasks_to_do))
  /\ tasks_to_do' = Tail(tasks_to_do)
  /\ UNCHANGED <<member, sync_task, cv_m, sync_mtx, task_done, async_tasks,
                 canceled, wpc, pc, phase, calls, submitted, runs, due,
                 closeDue>>

\* The task that runs submits another one: async_mtx_ is free meanwhile.
RunOneTaskSubmitting ==
  /\ wpc \in {"run", "dtor_run"} /\ tasks_to_do # <<>>
  /\ calls[Worker] < MaxNested
  /\ executed' = Append(executed, Head(tasks_to_do))
  /\ tasks_to_do' = Tail(tasks_to_do)
  /\ LET t == <<Worker, calls[Worker]>> IN
       /\ async_tasks' = Append(async_tasks, t)
       /\ submitted' = Append(submitted, t)
  /\ calls' = [calls EXCEPT ![Worker] = @ + 1]
  /\ UNCHANGED <<member, sync_task, cv_m, sync_mtx, task_done, canceled, wpc,
                 pc, phase, runs, due, closeDue>>

BatchDone ==
  /\ wpc \in {"run", "dtor_run"} /\ tasks_to_do = <<>>
  /\ wpc' = IF wpc = "run" THEN "sync" ELSE "dtor_reset"
  /\ UNCHANGED <<member, sync_task, cv_m, sync_mtx, task_done, async_tasks,
                 canceled, tasks_to_do, pc, phase, calls, history>>

\* No synchronous task: cv_.wait_for releases cv_m_.
NoSyncTask ==
  /\ wpc = "sync" /\ sync_task = NoThread
  /\ wpc' = "wait" /\ cv_m' = NoThread
  /\ UNCHANGED <<member, sync_task, sync_mtx, task_done, async_tasks, canceled,
                 tasks_to_do, pc, phase, calls, history>>

\* invoke's lambda: the client's function is applied to the member.
RunSyncTask ==
  /\ wpc = "sync" /\ sync_task \in Clients
  /\ runs' = [runs EXCEPT ![sync_task] = @ + 1]
  /\ wpc' = "done"
  /\ UNCHANGED <<member, sync_task, cv_m, sync_mtx, task_done, async_tasks,
                 canceled, tasks_to_do, pc, phase, calls, submitted, executed,
                 due, closeDue>>

\* The constructor's lambda: member_.reset(new T(...)).
BuildMember ==
  /\ wpc = "sync" /\ sync_task = Owner /\ phase = "ctor"
  /\ member' = "live"
  /\ wpc' = "done"
  /\ UNCHANGED <<sync_task, cv_m, sync_mtx, task_done, async_tasks, canceled,
                 tasks_to_do, pc, phase, calls, history>>

\* (mutant) the destructor's task leaves the queue alone
DtorSkipsQueue == "dtor_reset"

\* The destructor's lambda calls run_async_tasks before anything else.
DtorTaskStart == "dtor_swap"

\* The destructor's lambda starts with run_async_tasks ...
BeginDtorTask ==
  /\ wpc = "sync" /\ sync_task = Owner /\ phase = "dtor"
  /\ wpc' = DtorTaskStart
  /\ closeDue' = Len(submitted)
  /\ UNCHANGED <<member, sync_task, cv_m, sync_mtx, task_done, async_tasks,
                 canceled, tasks_to_do, pc, phase, calls, submitted, executed,
                 runs, due>>

\* (mutants) the loop is not stopped; the queue is run once more, after the
\* member is destroyed
LoopNotStopped == canceled
QueueRunLast == IF member = "live" THEN "dtor_swap" ELSE "done"

\* canceled_.store(true), the last statement of the lambda
LoopStopped == TRUE
DtorTaskEnd == "done"

\* ... and ends with the member and the loop.
DestroyMember ==
  /\ wpc = "dtor_reset"
  /\ member' = "gone" /\ canceled' = LoopStopped
  /\ wpc' = DtorTaskEnd
  /\ UNCHANGED <<sync_task, cv_m, sync_mtx, task_done, async_tasks, tasks_to_do,
                 pc, phase, calls, history>>

\* (mutants) sync_task_ is kept; the caller is not notified
SyncTaskKept == sync_task
NotNotified(t) == pc[t]

\* sync_task_ = nullptr, and task_done_cv_.notify_one()
SyncTaskForgotten == NoThread
Notified(t) == IF pc[t] = "waiting" THEN "woken" ELSE pc[t]

\* After the task: forget it, set task_done_, notify, and wait on cv_.
SyncTaskDone ==
  /\ wpc = "done"
  /\ sync_task' = SyncTaskForgotten
  /\ task_done' = TRUE
  /\ pc' = [t \in Callers |-> Notified(t)]
  /\ wpc' = "wait" /\ cv_m' = NoThread
  /\ UNCHANGED <<member, sync_mtx, async_tasks, canceled, tasks_to_do, phase,
                 calls, history>>

\* (mutant) cv_.wait instead of cv_.wait_for: invoke_async notifies nobody
WaitForever == sync_task # NoThread

\* the one millisecond of cv_.wait_for
WaitForTimesOut == TRUE

\* wait_for returns when notified or after one millisecond, owning cv_m_,
\* which the end of the loop's body releases.
WaitOver ==
  /\ wpc = "wait" /\ cv_m = NoThread /\ WaitForTimesOut
  /\ wpc' = "check"
  /\ UNCHANGED <<member, sync_task, cv_m, sync_mtx, task_done, async_tasks,
                 canceled, tasks_to_do, pc, phase, calls, history>>

-----------------------------------------------------------------------------
threaded_wrap ==
  \/ CheckCanceled \/ LockCv \/ SwapTasks \/ RunOneTask \/ RunOneTaskSubmitting
  \/ BatchDone \/ NoSyncTask \/ RunSyncTask \/ BuildMember \/ BeginDtorTask
  \/ DestroyMember \/ SyncTaskDone \/ WaitOver

do_sync_task(t) ==
  LockSync(t) \/ PostTask(t) \/ SpuriousWake(t) \/ Recheck(t)
    \/ ReturnFromSync(t)

\* Everything is over: nothing is left to do, and this is no deadlock.
Terminated == phase = "dead" /\ UNCHANGED vars

Next ==
  \/ \E c \in Clients : invoke_async(c) \/ invoke(c)
  \/ \E t \in Callers : do_sync_task(t)
  \/ threaded_wrap
  \/ Destroy \/ Join \/ Terminated

\* The worker is scheduled; a thread that waits for a mutex that becomes free
\* again and again gets it in the end (the worker leaves cv_m_ free for up to
\* a millisecond per turn), and a client that is inside a call goes on.  No
\* client has to call, and the wrapper need not be destroyed.
Fairness ==
  /\ WF_vars(threaded_wrap) /\ SF_vars(LockCv) /\ SF_vars(WaitOver)
  /\ WF_vars(Join)
  /\ \A t \in Callers : /\ SF_vars(LockSync(t)) /\ SF_vars(PostTask(t))
                        /\ SF_vars(Recheck(t)) /\ WF_vars(ReturnFromSync(t))

Spec == Init /\ [][Next]_vars
FairSpec == Spec /\ Fairness

-----------------------------------------------------------------------------
(* Properties.                                                             *)

\* Types; at most one run of the task of a call (std::function called once).
TypeOK ==
  /\ member \in {"unborn", "live", "gone"}
  /\ sync_task \in Callers \cup {NoThread}
  /\ cv_m \in {Worker, NoThread}
  /\ sync_mtx \in Callers \cup {NoThread}
  /\ task_done \in BOOLEAN /\ canceled \in BOOLEAN
  /\ async_tasks \in Seq(Task) /\ tasks_to_do \in Seq(Task)
  /\ wpc \in WorkerPlaces
  /\ pc \in [Callers -> CallPlaces]
  /\ phase \in {"ctor", "live", "dtor", "dead"}
  /\ calls \in [Clients \cup {Worker} -> 0..(MaxCalls + MaxNested)]
  /\ submitted \in Seq(Task) /\ executed \in Seq(Task)
  /\ runs \in [Clients -> 0..1]
  /\ due \in [Clients -> Nat] /\ closeDue \in Nat

\* sync_task_ is a lambda that captures the caller's stack by reference: as
\* long as it can be run, its caller is blocked in do_sync_task.
SyncTaskCallerBlocked ==
  sync_task # NoThread =>
    pc[sync_task] \in {"waiting", "woken"} /\ sync_mtx = sync_task

\* Asynchronous tasks are executed in the order of submission, none is lost
\* and none is executed twice, whatever batches the worker takes.
AsyncInOrder == executed \o tasks_to_do \o async_tasks = submitted

\* do_sync_task returns after its own task was run, exactly once.
ReturnsAfterOwnRun == \A c \in Clients : pc[c] = "reset" => runs[c] = 1

\* The destructor's task runs everything submitted before it started, then
\* destroys the member: no submission is lost by run_async_tasks.
DestroyedAfterDrain == member = "gone" => Len(executed) >= closeDue

\* A synchronous task is run after every asynchronous task that was
\* submitted before the call (wait_done is nothing but this).
SyncAfterEarlierAsync ==
  [][\A c \in Clients : runs'[c] > runs[c] => Len(executed) >= due[c]]_vars

\* Tasks get member_.get(): they are run only while the member exists.
TasksSeeLiveMember ==
  [][executed' # executed \/ (\E c \in Clients : runs'[c] > runs[c])
       => member = "live"]_vars

\* invoke, run and wait_done return: no lost wake-up, no mutual waiting.
CallReturns ==
  \A c \in Clients : pc[c] = "lock_sync" ~> pc[c] = "ready"

\* An asynchronous task is executed although nobody notifies cv_ for it,
\* unless the wrapper is destroyed.
SubmittedExecuted ==
  \A n \in 1..(MaxCalls + MaxNested) :
    Len(submitted) >= n ~> (Len(executed) >= n \/ phase \in {"dtor", "dead"})

\* The destructor terminates and leaves no thread behind.
DestructorReturns == phase = "dtor" ~> (phase = "dead" /\ wpc = "stopped")

\* The hand-shake implements the lock-free description of the promise.
PromisedQueue == tasks_to_do \o async_tasks

PromisedCall ==
  [c \in Clients |-> IF pc[c] = "ready" THEN "idle"
                     ELSE IF runs[c] = 0 THEN "asked" ELSE "done"]

PromisedLife ==
  IF phase = "ctor" THEN "starting"
  ELSE IF member = "gone" THEN "closed"
  ELSE IF wpc \in {"dtor_swap", "dtor_run", "dtor_reset"} THEN "closing"
  ELSE "open"

Promise == INSTANCE TaskExecutor WITH
  Tasks <- Task, queue <- PromisedQueue, served <- Len(executed),
  call <- PromisedCall, life <- PromisedLife

ImplementsPromise == Promise!AbsSpec
=============================================================================
