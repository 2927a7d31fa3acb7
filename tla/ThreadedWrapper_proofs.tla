----------------------- MODULE ThreadedWrapper_proofs -----------------------
(***************************************************************************)
(* The safety properties of ThreadedWrapper, proved for every set of       *)
(* clients and every number of calls.                                      *)
(***************************************************************************)
EXTENDS ThreadedWrapper, SequenceTheorems, TLAPS

-----------------------------------------------------------------------------
(* The inductive invariant, one conjunct per idea.                         *)

\* Where the thread that owns sync_mtx_ can be.
InSync == {"lock_cv", "waiting", "woken", "reset"}

SyncMutex == \A t \in Callers : pc[t] \in InSync <=> sync_mtx = t

\* The worker owns cv_m_ during the body of its loop.
CvMutex ==
  (cv_m = Worker) <=>
    wpc \in {"swap", "run", "sync", "dtor_swap", "dtor_run", "dtor_reset",
             "done"}

\* The hand-shake of the synchronous call that is under way, if there is one.
HandShake ==
  /\ sync_task # NoThread => pc[sync_task] \in {"waiting", "woken"}
                             /\ ~task_done
  /\ \A t \in Callers :
       /\ pc[t] \in {"waiting", "woken"} => task_done \/ sync_task = t
       /\ pc[t] = "reset" => task_done
       /\ pc[t] = "lock_cv" => ~task_done
  /\ sync_mtx = NoThread => ~task_done
  /\ wpc = "done" => sync_task # NoThread

\* How often the task of a client's latest call has been run.
RunCount ==
  \A c \in Clients :
    /\ pc[c] \in {"lock_sync", "lock_cv"} => runs[c] = 0
    /\ sync_task = c => runs[c] = IF wpc = "done" THEN 1 ELSE 0
    /\ pc[c] \in {"waiting", "woken"} /\ task_done => runs[c] = 1
    /\ pc[c] = "reset" => runs[c] = 1

\* The owner's progress, and who can be inside a call meanwhile.
Phases ==
  /\ phase = "live" => pc[Owner] = "ready"
  /\ phase \in {"ctor", "dtor"} => pc[Owner] # "ready"
  /\ phase # "live" => \A c \in Clients : pc[c] = "ready"
  /\ pc[Owner] = "join" => phase = "dtor"
  /\ phase = "dead" => pc[Owner] = "ready"
  /\ \A c \in Clients : pc[c] # "join"
  /\ wpc \in {"dtor_swap", "dtor_run", "dtor_reset"} =>
       sync_task = Owner /\ phase = "dtor" /\ member = "live"

\* The member exists from the constructor's task to the destructor's.
MemberLife ==
  /\ phase = "live" => member = "live"
  /\ phase = "ctor" =>
       /\ member = IF task_done \/ wpc = "done" THEN "live" ELSE "unborn"
       /\ submitted = <<>>
  /\ phase = "dtor" =>
       member = IF task_done \/ wpc = "done" \/ pc[Owner] = "join"
                THEN "gone" ELSE "live"
  /\ phase = "dead" => member = "gone"
  /\ canceled <=> member = "gone"
  /\ canceled => wpc \in {"done", "wait", "check", "stopped"}
  /\ wpc = "stopped" => canceled

\* The queue and the batch the worker has taken from it.
Queues ==
  /\ AsyncInOrder
  /\ tasks_to_do # <<>> => wpc \in {"run", "dtor_run"}

\* What the tasks submitted before a call, or before the destructor, become.
Barriers ==
  /\ \A c \in Clients :
       /\ due[c] <= Len(submitted)
       /\ sync_task = c /\ wpc \in {"run", "sync"} =>
            Len(executed) + Len(tasks_to_do) >= due[c]
  /\ closeDue <= Len(submitted)
  /\ wpc \in {"dtor_run", "dtor_reset"} =>
       Len(executed) + Len(tasks_to_do) >= closeDue
  /\ member = "gone" => Len(executed) >= closeDue

IInv == /\ TypeOK /\ SyncMutex /\ CvMutex /\ HandShake /\ RunCount
        /\ Phases /\ MemberLife /\ Queues /\ Barriers
-----------------------------------------------------------------------------
(* Lemmas on sequences.                                                    *)

\* Submitting a task: it goes to the end of the queue and of the history.
LEMMA AppendToQueue ==
  ASSUME NEW S, NEW s \in Seq(S), NEW t \in Seq(S), NEW u \in Seq(S), NEW e \in S
  PROVE  s \o t \o Append(u, e) = Append(s \o t \o u, e)
<1> DEFINE v == s \o t
<1>1. v \in Seq(S)  BY ConcatProperties
<1> HIDE DEF v
<1>2. Append(u, e) = u \o <<e>> /\ <<e>> \in Seq(S)
  BY AppendIsConcat
<1>3. v \o (u \o <<e>>) = (v \o u) \o <<e>>
  BY <1>1, <1>2, ConcatAssociative
<1>4. Append(v \o u, e) = (v \o u) \o <<e>>
  BY <1>1, AppendIsConcat, ConcatProperties
<1> QED  BY <1>2, <1>3, <1>4 DEF v

\* Running a task: it leaves the front of the batch for the history.
LEMMA RunHeadOfBatch ==
  ASSUME NEW S, NEW s \in Seq(S), NEW t \in Seq(S), t # <<>>
  PROVE  /\ Append(s, Head(t)) \o Tail(t) = s \o t
         /\ Append(s, Head(t)) \in Seq(S) /\ Tail(t) \in Seq(S)
         /\ Len(Append(s, Head(t))) = Len(s) + 1
         /\ Len(Tail(t)) = Len(t) - 1
<1>1. Head(t) \in S /\ Tail(t) \in Seq(S) /\ Len(Tail(t)) = Len(t) - 1
      /\ Len(t) > 0 /\ \A i \in 1..Len(Tail(t)) : Tail(t)[i] = t[i+1]
  BY HeadTailProperties, EmptySeq
<1>2. Append(s, Head(t)) = s \o <<Head(t)>> /\ <<Head(t)>> \in Seq(S)
  BY <1>1, AppendIsConcat
<1>3. <<Head(t)>> \o Tail(t) = t
  BY <1>1
<1>4. Append(s, Head(t)) \o Tail(t) = s \o t
  BY <1>1, <1>2, <1>3, ConcatAssociative
<1> QED  BY <1>1, <1>4, AppendProperties

\* What AsyncInOrder says of the lengths.
LEMMA LengthOfHistory ==
  ASSUME TypeOK, AsyncInOrder
  PROVE  /\ Len(submitted) = Len(executed) + Len(tasks_to_do) + Len(async_tasks)
         /\ Len(executed) \in Nat /\ Len(tasks_to_do) \in Nat
         /\ Len(async_tasks) \in Nat
<1>1. executed \in Seq(Task) /\ tasks_to_do \in Seq(Task)
      /\ async_tasks \in Seq(Task)
  BY DEF TypeOK
<1>2. executed \o tasks_to_do \in Seq(Task)
      /\ Len(executed \o tasks_to_do) = Len(executed) + Len(tasks_to_do)
  BY <1>1, ConcatProperties
<1>3. Len(submitted) = Len(executed \o tasks_to_do) + Len(async_tasks)
  BY <1>1, <1>2, ConcatProperties DEF AsyncInOrder
<1> QED  BY <1>1, <1>2, <1>3, LenProperties

-----------------------------------------------------------------------------
(* Each action preserves the invariant.                                    *)
USE ThreadsAssumption, BoundsAssumption DEF Callers

\* invoke_async preserves the invariant.
LEMMA invoke_asyncInv ==
  ASSUME IInv, NEW c \in Clients, invoke_async(c)
  PROVE  IInv'
<1> DEFINE new == <<c, calls[c]>>
<1>a. /\ new \in Task
      /\ calls[c] + 1 \in 0..(MaxCalls + MaxNested)
  <2>1. calls[c] \in 0..(MaxCalls + MaxNested) /\ calls[c] < MaxCalls
    BY DEF IInv, TypeOK, invoke_async, MayCall
  <2> QED  BY <2>1 DEF Task
<1>b. /\ executed \in Seq(Task) /\ tasks_to_do \in Seq(Task)
      /\ async_tasks \in Seq(Task) /\ submitted \in Seq(Task)
  BY DEF IInv, TypeOK
<1>c. /\ async_tasks' = Append(async_tasks, new)
      /\ submitted' = Append(submitted, new)
  BY DEF invoke_async
<1>d. /\ async_tasks' \in Seq(Task) /\ submitted' \in Seq(Task)
      /\ Len(submitted') = Len(submitted) + 1
  BY <1>a, <1>b, <1>c, AppendProperties
<1> HIDE DEF new
<1>1. TypeOK'
  BY <1>a, <1>b, <1>d DEF IInv, TypeOK, invoke_async, history
<1>2. SyncMutex'
  BY DEF IInv, SyncMutex, TypeOK, InSync, invoke_async, MayCall, history
<1>3. CvMutex'
  BY DEF IInv, CvMutex, TypeOK, invoke_async, MayCall, history
<1>4. HandShake'
  BY DEF IInv, HandShake, TypeOK, SyncMutex, CvMutex, InSync, invoke_async,
    MayCall, history
<1>5. RunCount'
  BY DEF IInv, RunCount, TypeOK, SyncMutex, HandShake, InSync, invoke_async,
    MayCall, history
<1>6. Phases'
  BY DEF IInv, Phases, TypeOK, SyncMutex, HandShake, InSync, invoke_async,
    MayCall, history
<1>7. MemberLife'
  BY DEF IInv, MemberLife, TypeOK, SyncMutex, HandShake, Phases, InSync,
    invoke_async, MayCall, history
<1>8. Queues'
  <2>1. /\ executed' = executed /\ tasks_to_do' = tasks_to_do /\ wpc' = wpc
        /\ executed \o tasks_to_do \o async_tasks = submitted
        /\ (tasks_to_do # <<>> => wpc \in {"run", "dtor_run"})
    BY DEF IInv, Queues, AsyncInOrder, invoke_async
  <2>2. executed \o tasks_to_do \o Append(async_tasks, new)
          = Append(executed \o tasks_to_do \o async_tasks, new)
    <3>1. /\ executed \in Seq(Task) /\ tasks_to_do \in Seq(Task)
          /\ async_tasks \in Seq(Task) /\ new \in Task
      BY <1>a, <1>b
    <3> QED  BY ONLY SMTT(30), <3>1, AppendToQueue
  <2>3. executed' \o tasks_to_do' \o async_tasks' = submitted'
    BY <1>c, <2>1, <2>2, Zenon
  <2> QED  BY <2>1, <2>3, Zenon DEF Queues, AsyncInOrder
<1>9. Barriers'
  <2>1. Len(submitted) \in Nat /\ Len(submitted) <= Len(submitted')
    BY <1>b, <1>d, LenProperties
  <2>2. due \in [Clients -> Nat] /\ closeDue \in Nat
    BY DEF IInv, TypeOK
  <2>3. /\ UNCHANGED <<executed, tasks_to_do, due, closeDue>>
        /\ UNCHANGED <<sync_task, wpc, member>>
    BY DEF invoke_async
  <2>4. \A n \in Nat : n <= Len(submitted) => n <= Len(submitted')
    BY <2>1, <1>d
  <2> QED  BY <2>2, <2>3, <2>4 DEF IInv, Barriers
<1> QED  BY <1>1, <1>2, <1>3, <1>4, <1>5, <1>6, <1>7, <1>8, <1>9 DEF IInv

\* invoke preserves the invariant.
LEMMA invokeInv ==
  ASSUME IInv, NEW c \in Clients, invoke(c)
  PROVE  IInv'
<1>1. TypeOK'
  <2>1. pc' \in [Callers -> CallPlaces]
    BY DEF IInv, TypeOK, CallPlaces, invoke
  <2>2. calls' \in [Clients \cup {Worker} -> 0..(MaxCalls + MaxNested)]
    <3>1. calls[c] + 1 \in 0..(MaxCalls + MaxNested)
      BY SMTT(30) DEF IInv, TypeOK, invoke, MayCall
    <3>2. /\ calls \in [Clients \cup {Worker} -> 0..(MaxCalls + MaxNested)]
          /\ calls' = [calls EXCEPT ![c] = calls[c] + 1]
      BY DEF IInv, TypeOK, invoke
    <3> QED  BY <3>1, <3>2
  <2>3. runs' \in [Clients -> 0..1] /\ due' \in [Clients -> Nat]
    BY LenProperties DEF IInv, TypeOK, invoke
  <2> QED  BY <2>1, <2>2, <2>3 DEF IInv, TypeOK, invoke
<1>2. SyncMutex'
  BY DEF IInv, SyncMutex, TypeOK, InSync, invoke, MayCall, history
<1>3. CvMutex'
  BY DEF IInv, CvMutex, TypeOK, invoke, MayCall, history
<1>4. HandShake'
  BY DEF IInv, HandShake, TypeOK, SyncMutex, CvMutex, InSync, invoke, MayCall,
    history
<1>5. RunCount'
  BY DEF IInv, RunCount, TypeOK, SyncMutex, HandShake, InSync, invoke,
    MayCall, history
<1>6. Phases'
  BY DEF IInv, Phases, TypeOK, SyncMutex, HandShake, InSync, invoke, MayCall,
    history
<1>7. MemberLife'
  BY DEF IInv, MemberLife, TypeOK, SyncMutex, HandShake, Phases, InSync,
    invoke, MayCall, history
<1>8. Queues'
  BY DEF IInv, Queues, TypeOK, AsyncInOrder, invoke, MayCall, history
<1>9. Barriers'
  <2>1. Len(submitted) \in Nat
    BY LenProperties DEF IInv, TypeOK
  <2>2. sync_task # c
    BY DEF IInv, HandShake, invoke, MayCall
  <2> QED  BY <2>1, <2>2 DEF IInv, TypeOK, Barriers, invoke, history
<1> QED  BY <1>1, <1>2, <1>3, <1>4, <1>5, <1>6, <1>7, <1>8, <1>9 DEF IInv

\* Destroy preserves the invariant.
LEMMA DestroyInv ==
  ASSUME IInv, Destroy
  PROVE  IInv'
<1>1. TypeOK'
  BY DEF IInv, TypeOK, WorkerPlaces, CallPlaces, Destroy, history
<1>2. SyncMutex'
  BY DEF IInv, SyncMutex, TypeOK, InSync, Destroy, history
<1>3. CvMutex'
  BY DEF IInv, CvMutex, TypeOK, Destroy, history
<1>4. HandShake'
  BY DEF IInv, HandShake, TypeOK, SyncMutex, CvMutex, InSync, Destroy, history
<1>5. RunCount'
  BY DEF IInv, RunCount, TypeOK, SyncMutex, HandShake, InSync, Destroy,
    history
<1>6. Phases'
  BY DEF IInv, Phases, TypeOK, SyncMutex, HandShake, InSync, Destroy, history
<1>7. MemberLife'
  BY DEF IInv, MemberLife, TypeOK, SyncMutex, HandShake, Phases, InSync,
    Destroy, history
<1>8. Queues'
  BY DEF IInv, Queues, TypeOK, AsyncInOrder, Destroy, history
<1>9. Barriers'
  BY DEF IInv, Barriers, TypeOK, Destroy, history
<1> QED  BY <1>1, <1>2, <1>3, <1>4, <1>5, <1>6, <1>7, <1>8, <1>9 DEF IInv

\* LockSync preserves the invariant.
LEMMA LockSyncInv ==
  ASSUME IInv, NEW t \in Callers, LockSync(t)
  PROVE  IInv'
<1>1. TypeOK'
  BY DEF IInv, TypeOK, WorkerPlaces, CallPlaces, LockSync, history
<1>2. SyncMutex'
  BY DEF IInv, SyncMutex, TypeOK, InSync, LockSync, history
<1>3. CvMutex'
  BY DEF IInv, CvMutex, TypeOK, LockSync, history
<1>4. HandShake'
  BY DEF IInv, HandShake, TypeOK, SyncMutex, CvMutex, InSync, LockSync,
    history
<1>5. RunCount'
  BY DEF IInv, RunCount, TypeOK, SyncMutex, HandShake, InSync, LockSync,
    history
<1>6. Phases'
  BY DEF IInv, Phases, TypeOK, SyncMutex, HandShake, InSync, LockSync, history
<1>7. MemberLife'
  BY DEF IInv, MemberLife, TypeOK, SyncMutex, HandShake, Phases, InSync,
    LockSync, history
<1>8. Queues'
  BY DEF IInv, Queues, TypeOK, AsyncInOrder, LockSync, history
<1>9. Barriers'
  BY DEF IInv, Barriers, TypeOK, LockSync, history
<1> QED  BY <1>1, <1>2, <1>3, <1>4, <1>5, <1>6, <1>7, <1>8, <1>9 DEF IInv

\* PostTask preserves the invariant.
LEMMA PostTaskInv ==
  ASSUME IInv, NEW t \in Callers, PostTask(t)
  PROVE  IInv'
<1>1. TypeOK'
  BY DEF IInv, TypeOK, WorkerPlaces, CallPlaces, PostTask, WaitLoop, history
<1>2. SyncMutex'
  BY DEF IInv, SyncMutex, TypeOK, InSync, PostTask, WaitLoop, history
<1>3. CvMutex'
  BY DEF IInv, CvMutex, TypeOK, PostTask, WaitLoop, history
<1>4. HandShake'
  BY DEF IInv, HandShake, TypeOK, SyncMutex, CvMutex, InSync, PostTask,
    WaitLoop, history
<1>5. RunCount'
  BY DEF IInv, RunCount, TypeOK, SyncMutex, CvMutex, HandShake, WorkerPlaces,
    CallPlaces, InSync, PostTask, WaitLoop, history
<1>6. Phases'
  BY DEF IInv, Phases, TypeOK, SyncMutex, HandShake, InSync, PostTask,
    WaitLoop, history
<1>7. MemberLife'
  BY DEF IInv, MemberLife, TypeOK, SyncMutex, HandShake, Phases, InSync,
    PostTask, WaitLoop, history
<1>8. Queues'
  BY DEF IInv, Queues, TypeOK, AsyncInOrder, PostTask, WaitLoop, history
<1>9. Barriers'
  BY DEF IInv, Barriers, TypeOK, CvMutex, WorkerPlaces, CallPlaces, PostTask,
    WaitLoop, history
<1> QED  BY <1>1, <1>2, <1>3, <1>4, <1>5, <1>6, <1>7, <1>8, <1>9 DEF IInv

\* SpuriousWake preserves the invariant.
LEMMA SpuriousWakeInv ==
  ASSUME IInv, NEW t \in Callers, SpuriousWake(t)
  PROVE  IInv'
<1>1. TypeOK'
  BY SMTT(30) DEF IInv, TypeOK, WorkerPlaces, CallPlaces, SpuriousWake, history
<1>2. SyncMutex'
  BY DEF IInv, SyncMutex, TypeOK, InSync, SpuriousWake, history
<1>3. CvMutex'
  BY DEF IInv, CvMutex, TypeOK, SpuriousWake, history
<1>4. HandShake'
  BY DEF IInv, HandShake, TypeOK, SyncMutex, CvMutex, InSync, SpuriousWake,
    history
<1>5. RunCount'
  BY DEF IInv, RunCount, TypeOK, SyncMutex, HandShake, InSync, SpuriousWake,
    history
<1>6. Phases'
  BY DEF IInv, Phases, TypeOK, SyncMutex, HandShake, InSync, SpuriousWake,
    history
<1>7. MemberLife'
  BY DEF IInv, MemberLife, TypeOK, SyncMutex, HandShake, Phases, InSync,
    SpuriousWake, history
<1>8. Queues'
  BY DEF IInv, Queues, TypeOK, AsyncInOrder, SpuriousWake, history
<1>9. Barriers'
  BY DEF IInv, Barriers, TypeOK, SpuriousWake, history
<1> QED  BY <1>1, <1>2, <1>3, <1>4, <1>5, <1>6, <1>7, <1>8, <1>9 DEF IInv

\* Recheck preserves the invariant.
LEMMA RecheckInv ==
  ASSUME IInv, NEW t \in Callers, Recheck(t)
  PROVE  IInv'
<1>1. TypeOK'
  BY DEF IInv, TypeOK, WorkerPlaces, CallPlaces, Recheck, WaitLoop, history
<1>2. SyncMutex'
  BY DEF IInv, SyncMutex, TypeOK, InSync, Recheck, WaitLoop, history
<1>3. CvMutex'
  BY DEF IInv, CvMutex, TypeOK, Recheck, WaitLoop, history
<1>4. HandShake'
  BY DEF IInv, HandShake, TypeOK, SyncMutex, CvMutex, InSync, Recheck,
    WaitLoop, history
<1>5. RunCount'
  BY DEF IInv, RunCount, TypeOK, SyncMutex, HandShake, InSync, Recheck,
    WaitLoop, history
<1>6. Phases'
  BY DEF IInv, Phases, TypeOK, SyncMutex, HandShake, InSync, Recheck,
    WaitLoop, history
<1>7. MemberLife'
  BY DEF IInv, MemberLife, TypeOK, SyncMutex, HandShake, Phases, InSync,
    Recheck, WaitLoop, history
<1>8. Queues'
  BY DEF IInv, Queues, TypeOK, AsyncInOrder, Recheck, WaitLoop, history
<1>9. Barriers'
  BY DEF IInv, Barriers, TypeOK, Recheck, WaitLoop, history
<1> QED  BY <1>1, <1>2, <1>3, <1>4, <1>5, <1>6, <1>7, <1>8, <1>9 DEF IInv

\* ReturnFromSync preserves the invariant.
LEMMA ReturnFromSyncInv ==
  ASSUME IInv, NEW t \in Callers, ReturnFromSync(t)
  PROVE  IInv'
<1>1. TypeOK'
  <2>1. pc \in [Callers -> CallPlaces] /\ "join" \in CallPlaces /\ "ready" \in CallPlaces
    BY DEF IInv, TypeOK, CallPlaces
  <2>2. pc' \in [Callers -> CallPlaces]
    <3>1. PICK p \in {"join", "ready"} : pc' = [pc EXCEPT ![t] = p]
      BY DEF ReturnFromSync
    <3> HIDE DEF Callers
    <3> QED  BY <2>1, <3>1
  <2>3. phase' \in {"ctor", "live", "dtor", "dead"}
    BY DEF IInv, TypeOK, ReturnFromSync
  <2> QED  BY <2>2, <2>3 DEF IInv, TypeOK, ReturnFromSync, history
<1>2. SyncMutex'
  BY DEF IInv, SyncMutex, TypeOK, HandShake, Phases, WorkerPlaces, CallPlaces,
    InSync, ReturnFromSync, history
<1>3. CvMutex'
  BY DEF IInv, CvMutex, TypeOK, ReturnFromSync, history
<1>4. HandShake'
  BY DEF IInv, HandShake, TypeOK, SyncMutex, Phases, WorkerPlaces, CallPlaces,
    InSync, ReturnFromSync, history
<1>5. RunCount'
  BY DEF IInv, RunCount, TypeOK, SyncMutex, HandShake, InSync, ReturnFromSync,
    history
<1>6. Phases'
  BY DEF IInv, Phases, TypeOK, SyncMutex, HandShake, InSync, ReturnFromSync,
    history
<1>7. MemberLife'
  BY DEF IInv, MemberLife, TypeOK, SyncMutex, HandShake, Phases, InSync,
    ReturnFromSync, history
<1>8. Queues'
  BY DEF IInv, Queues, TypeOK, HandShake, WorkerPlaces, CallPlaces,
    AsyncInOrder, ReturnFromSync, history
<1>9. Barriers'
  BY DEF IInv, Barriers, TypeOK, ReturnFromSync, history
<1> QED  BY <1>1, <1>2, <1>3, <1>4, <1>5, <1>6, <1>7, <1>8, <1>9 DEF IInv

\* Join preserves the invariant.
LEMMA JoinInv ==
  ASSUME IInv, Join
  PROVE  IInv'
<1>1. TypeOK'
  BY DEF IInv, TypeOK, WorkerPlaces, CallPlaces, Join, history
<1>2. SyncMutex'
  BY DEF IInv, SyncMutex, TypeOK, InSync, Join, history
<1>3. CvMutex'
  BY DEF IInv, CvMutex, TypeOK, Join, history
<1>4. HandShake'
  BY DEF IInv, HandShake, TypeOK, SyncMutex, CvMutex, InSync, Join, history
<1>5. RunCount'
  BY DEF IInv, RunCount, TypeOK, SyncMutex, HandShake, InSync, Join, history
<1>6. Phases'
  BY DEF IInv, Phases, TypeOK, SyncMutex, HandShake, InSync, Join, history
<1>7. MemberLife'
  BY DEF IInv, MemberLife, TypeOK, SyncMutex, HandShake, Phases, InSync, Join,
    history
<1>8. Queues'
  BY DEF IInv, Queues, TypeOK, AsyncInOrder, Join, history
<1>9. Barriers'
  BY DEF IInv, Barriers, TypeOK, Join, history
<1> QED  BY <1>1, <1>2, <1>3, <1>4, <1>5, <1>6, <1>7, <1>8, <1>9 DEF IInv

\* CheckCanceled preserves the invariant.
LEMMA CheckCanceledInv ==
  ASSUME IInv, CheckCanceled
  PROVE  IInv'
<1>1. TypeOK'
  BY DEF IInv, TypeOK, WorkerPlaces, CallPlaces, CheckCanceled, history
<1>2. SyncMutex'
  BY DEF IInv, SyncMutex, TypeOK, InSync, CheckCanceled, history
<1>3. CvMutex'
  BY DEF IInv, CvMutex, TypeOK, CheckCanceled, history
<1>4. HandShake'
  BY DEF IInv, HandShake, TypeOK, SyncMutex, CvMutex, InSync, CheckCanceled,
    history
<1>5. RunCount'
  BY DEF IInv, RunCount, TypeOK, SyncMutex, HandShake, InSync, CheckCanceled,
    history
<1>6. Phases'
  BY DEF IInv, Phases, TypeOK, SyncMutex, HandShake, InSync, CheckCanceled,
    history
<1>7. MemberLife'
  BY DEF IInv, MemberLife, TypeOK, SyncMutex, HandShake, Phases, InSync,
    CheckCanceled, history
<1>8. Queues'
  BY DEF IInv, Queues, TypeOK, AsyncInOrder, CheckCanceled, history
<1>9. Barriers'
  BY DEF IInv, Barriers, TypeOK, CheckCanceled, history
<1> QED  BY <1>1, <1>2, <1>3, <1>4, <1>5, <1>6, <1>7, <1>8, <1>9 DEF IInv

\* LockCv preserves the invariant.
LEMMA LockCvInv ==
  ASSUME IInv, LockCv
  PROVE  IInv'
<1>1. TypeOK'
  BY DEF IInv, TypeOK, WorkerPlaces, CallPlaces, LockCv, LoopBodyStart,
    history
<1>2. SyncMutex'
  BY DEF IInv, SyncMutex, TypeOK, InSync, LockCv, LoopBodyStart, history
<1>3. CvMutex'
  BY DEF IInv, CvMutex, TypeOK, LockCv, LoopBodyStart, history
<1>4. HandShake'
  BY DEF IInv, HandShake, TypeOK, SyncMutex, CvMutex, InSync, LockCv,
    LoopBodyStart, history
<1>5. RunCount'
  BY DEF IInv, RunCount, TypeOK, SyncMutex, HandShake, InSync, LockCv,
    LoopBodyStart, history
<1>6. Phases'
  BY DEF IInv, Phases, TypeOK, SyncMutex, HandShake, InSync, LockCv,
    LoopBodyStart, history
<1>7. MemberLife'
  BY DEF IInv, MemberLife, TypeOK, SyncMutex, HandShake, Phases, InSync,
    LockCv, LoopBodyStart, history
<1>8. Queues'
  BY DEF IInv, Queues, TypeOK, AsyncInOrder, LockCv, LoopBodyStart, history
<1>9. Barriers'
  BY DEF IInv, Barriers, TypeOK, LockCv, LoopBodyStart, history
<1> QED  BY <1>1, <1>2, <1>3, <1>4, <1>5, <1>6, <1>7, <1>8, <1>9 DEF IInv

\* SwapTasks preserves the invariant.
LEMMA SwapTasksInv ==
  ASSUME IInv, SwapTasks
  PROVE  IInv'
<1>a. tasks_to_do = <<>>
  BY DEF IInv, Queues, SwapTasks
<1>b. /\ executed \in Seq(Task) /\ async_tasks \in Seq(Task)
      /\ \A s \in Seq(Task) : s \o <<>> = s
      /\ executed \o async_tasks \in Seq(Task)
  BY ConcatEmptySeq, ConcatProperties DEF IInv, TypeOK
<1>c. executed \o tasks_to_do \o async_tasks = submitted
  BY DEF IInv, Queues, AsyncInOrder
<1>d. executed \o tasks_to_do = executed
  BY <1>a, <1>b
<1>e. Len(submitted) = Len(executed) + Len(tasks_to_do) + Len(async_tasks)
      /\ Len(tasks_to_do) = 0
  BY <1>a, LengthOfHistory, EmptySeq DEF IInv, Queues
<1>1. TypeOK'
  BY DEF IInv, TypeOK, WorkerPlaces, CallPlaces, SwapTasks, QueueAfterSwap,
    history
<1>2. SyncMutex'
  BY DEF IInv, SyncMutex, TypeOK, InSync, SwapTasks, QueueAfterSwap, history
<1>3. CvMutex'
  BY DEF IInv, CvMutex, TypeOK, SwapTasks, QueueAfterSwap, history
<1>4. HandShake'
  BY DEF IInv, HandShake, TypeOK, SyncMutex, CvMutex, InSync, SwapTasks,
    QueueAfterSwap, history
<1>5. RunCount'
  BY DEF IInv, RunCount, TypeOK, SyncMutex, HandShake, InSync, SwapTasks,
    QueueAfterSwap, history
<1>6. Phases'
  BY DEF IInv, Phases, TypeOK, SyncMutex, HandShake, InSync, SwapTasks,
    QueueAfterSwap, history
<1>7. MemberLife'
  BY DEF IInv, MemberLife, TypeOK, SyncMutex, HandShake, Phases, InSync,
    SwapTasks, QueueAfterSwap, history
<1>8. Queues'
  <2>1. executed' \o tasks_to_do' \o async_tasks' = executed \o async_tasks
    BY <1>b DEF SwapTasks, QueueAfterSwap, history
  <2> QED  BY <1>c, <1>d, <2>1 DEF Queues, AsyncInOrder, SwapTasks, history
<1>9. Barriers'
  BY <1>e, LengthOfHistory
    DEF IInv, TypeOK, Queues, MemberLife, Barriers, SwapTasks, history
<1> QED  BY <1>1, <1>2, <1>3, <1>4, <1>5, <1>6, <1>7, <1>8, <1>9 DEF IInv

\* RunOneTask preserves the invariant.
LEMMA RunOneTaskInv ==
  ASSUME IInv, RunOneTask
  PROVE  IInv'
<1>a. /\ tasks_to_do # <<>>
      /\ executed \in Seq(Task) /\ tasks_to_do \in Seq(Task)
  BY DEF IInv, TypeOK, RunOneTask
<1>b. /\ executed' \o tasks_to_do' = executed \o tasks_to_do
      /\ executed' \in Seq(Task) /\ tasks_to_do' \in Seq(Task)
      /\ Len(executed') = Len(executed) + 1
      /\ Len(tasks_to_do') = Len(tasks_to_do) - 1
      /\ Len(executed) \in Nat /\ Len(tasks_to_do) \in Nat
  BY <1>a, RunHeadOfBatch, LenProperties DEF RunOneTask
<1>1. TypeOK'
  BY <1>b DEF IInv, TypeOK, RunOneTask, history
<1>2. SyncMutex'
  BY DEF IInv, SyncMutex, TypeOK, InSync, RunOneTask, history
<1>3. CvMutex'
  BY DEF IInv, CvMutex, TypeOK, RunOneTask, history
<1>4. HandShake'
  BY DEF IInv, HandShake, TypeOK, SyncMutex, CvMutex, InSync, RunOneTask,
    history
<1>5. RunCount'
  BY DEF IInv, RunCount, TypeOK, SyncMutex, HandShake, InSync, RunOneTask,
    history
<1>6. Phases'
  BY DEF IInv, Phases, TypeOK, SyncMutex, HandShake, InSync, RunOneTask,
    history
<1>7. MemberLife'
  BY DEF IInv, MemberLife, TypeOK, SyncMutex, HandShake, Phases, InSync,
    RunOneTask, history
<1>8. Queues'
  BY <1>b DEF IInv, Queues, AsyncInOrder, RunOneTask, history
<1>9. Barriers'
  BY <1>b DEF IInv, TypeOK, Barriers, MemberLife, RunOneTask, history
<1> QED  BY <1>1, <1>2, <1>3, <1>4, <1>5, <1>6, <1>7, <1>8, <1>9 DEF IInv

\* RunOneTaskSubmitting preserves the invariant.
LEMMA RunOneTaskSubmittingInv ==
  ASSUME IInv, RunOneTaskSubmitting
  PROVE  IInv'
<1> DEFINE new == <<Worker, calls[Worker]>>
<1>0. calls[Worker] \in 0..(MaxCalls + MaxNested) /\ calls[Worker] < MaxNested
  BY DEF IInv, TypeOK, RunOneTaskSubmitting
<1>a. /\ new \in Task
      /\ calls[Worker] + 1 \in 0..(MaxCalls + MaxNested)
  BY <1>0 DEF Task
<1>b. /\ tasks_to_do # <<>>
      /\ executed \in Seq(Task) /\ tasks_to_do \in Seq(Task)
      /\ async_tasks \in Seq(Task) /\ submitted \in Seq(Task)
  BY DEF IInv, TypeOK, RunOneTaskSubmitting
<1>c. /\ executed' \o tasks_to_do' = executed \o tasks_to_do
      /\ executed' \in Seq(Task) /\ tasks_to_do' \in Seq(Task)
      /\ Len(executed') = Len(executed) + 1
      /\ Len(tasks_to_do') = Len(tasks_to_do) - 1
      /\ Len(executed) \in Nat /\ Len(tasks_to_do) \in Nat
  BY <1>b, RunHeadOfBatch, LenProperties DEF RunOneTaskSubmitting
<1>d. /\ async_tasks' = Append(async_tasks, new)
      /\ submitted' = Append(submitted, new)
  BY DEF RunOneTaskSubmitting
<1>e. /\ async_tasks' \in Seq(Task) /\ submitted' \in Seq(Task)
      /\ Len(submitted') = Len(submitted) + 1 /\ Len(submitted) \in Nat
      /\ submitted' # <<>>
  BY <1>a, <1>b, <1>d, AppendProperties, LenProperties
<1> HIDE DEF new
<1>1. TypeOK'
  BY <1>a, <1>c, <1>e DEF IInv, TypeOK, RunOneTaskSubmitting, history
<1>2. SyncMutex'
  BY DEF IInv, SyncMutex, TypeOK, InSync, RunOneTaskSubmitting, history
<1>3. CvMutex'
  BY DEF IInv, CvMutex, TypeOK, RunOneTaskSubmitting, history
<1>4. HandShake'
  BY DEF IInv, HandShake, TypeOK, SyncMutex, CvMutex, InSync,
    RunOneTaskSubmitting, history
<1>5. RunCount'
  BY DEF IInv, RunCount, TypeOK, SyncMutex, HandShake, InSync,
    RunOneTaskSubmitting, history
<1>6. Phases'
  BY DEF IInv, Phases, TypeOK, SyncMutex, HandShake, InSync,
    RunOneTaskSubmitting, history
<1>7. MemberLife'
  <2>1. submitted # <<>>
    BY <1>b, ConcatEqualIffEmpty, ConcatProperties
    DEF IInv, Queues, AsyncInOrder
  <2> QED  BY <2>1 DEF IInv, MemberLife, RunOneTaskSubmitting, history
<1>8. Queues'
  <2>1. /\ wpc' = wpc /\ wpc \in {"run", "dtor_run"}
        /\ executed \o tasks_to_do \o async_tasks = submitted
    BY DEF IInv, Queues, AsyncInOrder, RunOneTaskSubmitting
  <2>2. executed \o tasks_to_do \o Append(async_tasks, new)
          = Append(executed \o tasks_to_do \o async_tasks, new)
    <3>1. /\ executed \in Seq(Task) /\ tasks_to_do \in Seq(Task)
          /\ async_tasks \in Seq(Task) /\ new \in Task
      BY <1>a, <1>b
    <3> QED  BY ONLY <3>1, AppendToQueue
  <2>3. executed' \o tasks_to_do' \o async_tasks' = submitted'
    BY <1>c, <1>d, <2>1, <2>2, Zenon
  <2> QED  BY <2>1, <2>3, Zenon DEF Queues, AsyncInOrder
<1>9. Barriers'
  <2>1. /\ wpc' = wpc /\ sync_task' = sync_task /\ due' = due
        /\ closeDue' = closeDue /\ member' = member
    BY DEF RunOneTaskSubmitting
  <2>2. due \in [Clients -> Nat] /\ closeDue \in Nat
    BY DEF IInv, TypeOK
  <2> QED  BY <1>c, <1>e, <2>1, <2>2 DEF IInv, Barriers
<1> QED  BY <1>1, <1>2, <1>3, <1>4, <1>5, <1>6, <1>7, <1>8, <1>9 DEF IInv

\* BatchDone preserves the invariant.
LEMMA BatchDoneInv ==
  ASSUME IInv, BatchDone
  PROVE  IInv'
<1>1. TypeOK'
  BY DEF IInv, TypeOK, WorkerPlaces, CallPlaces, BatchDone, history
<1>2. SyncMutex'
  BY DEF IInv, SyncMutex, TypeOK, InSync, BatchDone, history
<1>3. CvMutex'
  BY DEF IInv, CvMutex, TypeOK, BatchDone, history
<1>4. HandShake'
  BY DEF IInv, HandShake, TypeOK, SyncMutex, CvMutex, InSync, BatchDone,
    history
<1>5. RunCount'
  BY DEF IInv, RunCount, TypeOK, SyncMutex, HandShake, InSync, BatchDone,
    history
<1>6. Phases'
  BY DEF IInv, Phases, TypeOK, SyncMutex, HandShake, InSync, BatchDone,
    history
<1>7. MemberLife'
  BY DEF IInv, MemberLife, TypeOK, SyncMutex, HandShake, Phases, InSync,
    BatchDone, history
<1>8. Queues'
  BY DEF IInv, Queues, TypeOK, AsyncInOrder, BatchDone, history
<1>9. Barriers'
  BY DEF IInv, Barriers, TypeOK, BatchDone, history
<1> QED  BY <1>1, <1>2, <1>3, <1>4, <1>5, <1>6, <1>7, <1>8, <1>9 DEF IInv

\* NoSyncTask preserves the invariant.
LEMMA NoSyncTaskInv ==
  ASSUME IInv, NoSyncTask
  PROVE  IInv'
<1>1. TypeOK'
  BY DEF IInv, TypeOK, WorkerPlaces, CallPlaces, NoSyncTask, history
<1>2. SyncMutex'
  BY DEF IInv, SyncMutex, TypeOK, InSync, NoSyncTask, history
<1>3. CvMutex'
  BY DEF IInv, CvMutex, TypeOK, NoSyncTask, history
<1>4. HandShake'
  BY DEF IInv, HandShake, TypeOK, SyncMutex, CvMutex, InSync, NoSyncTask,
    history
<1>5. RunCount'
  BY DEF IInv, RunCount, TypeOK, SyncMutex, HandShake, InSync, NoSyncTask,
    history
<1>6. Phases'
  BY DEF IInv, Phases, TypeOK, SyncMutex, HandShake, InSync, NoSyncTask,
    history
<1>7. MemberLife'
  BY DEF IInv, MemberLife, TypeOK, SyncMutex, HandShake, Phases, InSync,
    NoSyncTask, history
<1>8. Queues'
  BY DEF IInv, Queues, TypeOK, AsyncInOrder, NoSyncTask, history
<1>9. Barriers'
  BY DEF IInv, Barriers, TypeOK, NoSyncTask, history
<1> QED  BY <1>1, <1>2, <1>3, <1>4, <1>5, <1>6, <1>7, <1>8, <1>9 DEF IInv

\* RunSyncTask preserves the invariant.
LEMMA RunSyncTaskInv ==
  ASSUME IInv, RunSyncTask
  PROVE  IInv'
<1>1. TypeOK'
  BY DEF IInv, TypeOK, HandShake, RunCount, WorkerPlaces, CallPlaces,
    RunSyncTask, history
<1>2. SyncMutex'
  BY DEF IInv, SyncMutex, TypeOK, InSync, RunSyncTask, history
<1>3. CvMutex'
  BY DEF IInv, CvMutex, TypeOK, RunSyncTask, history
<1>4. HandShake'
  BY DEF IInv, HandShake, TypeOK, SyncMutex, CvMutex, InSync, RunSyncTask,
    history
<1>5. RunCount'
  BY DEF IInv, RunCount, TypeOK, SyncMutex, HandShake, InSync, RunSyncTask,
    history
<1>6. Phases'
  BY DEF IInv, Phases, TypeOK, SyncMutex, HandShake, InSync, RunSyncTask,
    history
<1>7. MemberLife'
  BY DEF IInv, MemberLife, TypeOK, SyncMutex, HandShake, Phases, InSync,
    RunSyncTask, history
<1>8. Queues'
  BY DEF IInv, Queues, TypeOK, AsyncInOrder, RunSyncTask, history
<1>9. Barriers'
  BY DEF IInv, Barriers, TypeOK, RunSyncTask, history
<1> QED  BY <1>1, <1>2, <1>3, <1>4, <1>5, <1>6, <1>7, <1>8, <1>9 DEF IInv

\* BuildMember preserves the invariant.
LEMMA BuildMemberInv ==
  ASSUME IInv, BuildMember
  PROVE  IInv'
<1>1. TypeOK'
  BY DEF IInv, TypeOK, WorkerPlaces, CallPlaces, BuildMember, history
<1>2. SyncMutex'
  BY DEF IInv, SyncMutex, TypeOK, InSync, BuildMember, history
<1>3. CvMutex'
  BY DEF IInv, CvMutex, TypeOK, BuildMember, history
<1>4. HandShake'
  BY DEF IInv, HandShake, TypeOK, SyncMutex, CvMutex, InSync, BuildMember,
    history
<1>5. RunCount'
  BY DEF IInv, RunCount, TypeOK, SyncMutex, HandShake, InSync, BuildMember,
    history
<1>6. Phases'
  BY DEF IInv, Phases, TypeOK, SyncMutex, HandShake, InSync, BuildMember,
    history
<1>7. MemberLife'
  BY DEF IInv, MemberLife, TypeOK, SyncMutex, HandShake, Phases, InSync,
    BuildMember, history
<1>8. Queues'
  BY DEF IInv, Queues, TypeOK, AsyncInOrder, BuildMember, history
<1>9. Barriers'
  BY DEF IInv, Barriers, TypeOK, BuildMember, history
<1> QED  BY <1>1, <1>2, <1>3, <1>4, <1>5, <1>6, <1>7, <1>8, <1>9 DEF IInv

\* BeginDtorTask preserves the invariant.
LEMMA BeginDtorTaskInv ==
  ASSUME IInv, BeginDtorTask
  PROVE  IInv'
<1>1. TypeOK'
  BY DEF IInv, TypeOK, WorkerPlaces, CallPlaces, BeginDtorTask, DtorTaskStart,
    history
<1>2. SyncMutex'
  BY DEF IInv, SyncMutex, TypeOK, InSync, BeginDtorTask, DtorTaskStart,
    history
<1>3. CvMutex'
  BY DEF IInv, CvMutex, TypeOK, BeginDtorTask, DtorTaskStart, history
<1>4. HandShake'
  BY DEF IInv, HandShake, TypeOK, SyncMutex, CvMutex, InSync, BeginDtorTask,
    DtorTaskStart, history
<1>5. RunCount'
  BY DEF IInv, RunCount, TypeOK, SyncMutex, HandShake, InSync, BeginDtorTask,
    DtorTaskStart, history
<1>6. Phases'
  BY DEF IInv, Phases, TypeOK, HandShake, MemberLife, WorkerPlaces,
    CallPlaces, BeginDtorTask, DtorTaskStart, history
<1>7. MemberLife'
  BY DEF IInv, MemberLife, TypeOK, SyncMutex, HandShake, Phases, InSync,
    BeginDtorTask, DtorTaskStart, history
<1>8. Queues'
  BY DEF IInv, Queues, TypeOK, AsyncInOrder, BeginDtorTask, DtorTaskStart,
    history
<1>9. Barriers'
  BY DEF IInv, Barriers, TypeOK, Queues, MemberLife, Phases, WorkerPlaces,
    CallPlaces, AsyncInOrder, BeginDtorTask, DtorTaskStart, history
<1> QED  BY <1>1, <1>2, <1>3, <1>4, <1>5, <1>6, <1>7, <1>8, <1>9 DEF IInv

\* DestroyMember preserves the invariant.
LEMMA DestroyMemberInv ==
  ASSUME IInv, DestroyMember
  PROVE  IInv'
<1>1. TypeOK'
  BY DEF IInv, TypeOK, WorkerPlaces, CallPlaces, DestroyMember, LoopStopped,
    DtorTaskEnd, history
<1>2. SyncMutex'
  BY DEF IInv, SyncMutex, TypeOK, InSync, DestroyMember, LoopStopped,
    DtorTaskEnd, history
<1>3. CvMutex'
  BY DEF IInv, CvMutex, TypeOK, DestroyMember, LoopStopped, DtorTaskEnd,
    history
<1>4. HandShake'
  BY DEF IInv, HandShake, TypeOK, SyncMutex, Phases, WorkerPlaces, CallPlaces,
    InSync, DestroyMember, LoopStopped, DtorTaskEnd, history
<1>5. RunCount'
  BY DEF IInv, RunCount, TypeOK, SyncMutex, HandShake, Phases, WorkerPlaces,
    CallPlaces, InSync, DestroyMember, LoopStopped, DtorTaskEnd, history
<1>6. Phases'
  BY DEF IInv, Phases, TypeOK, SyncMutex, HandShake, InSync, DestroyMember,
    LoopStopped, DtorTaskEnd, history
<1>7. MemberLife'
  BY DEF IInv, MemberLife, TypeOK, SyncMutex, HandShake, Phases, InSync,
    DestroyMember, LoopStopped, DtorTaskEnd, history
<1>8. Queues'
  BY DEF IInv, Queues, TypeOK, AsyncInOrder, DestroyMember, LoopStopped,
    DtorTaskEnd, history
<1>9. Barriers'
  BY DEF IInv, Barriers, TypeOK, Queues, Phases, WorkerPlaces, CallPlaces,
    AsyncInOrder, DestroyMember, LoopStopped, DtorTaskEnd, history
<1> QED  BY <1>1, <1>2, <1>3, <1>4, <1>5, <1>6, <1>7, <1>8, <1>9 DEF IInv

\* SyncTaskDone preserves the invariant.
LEMMA SyncTaskDoneInv ==
  ASSUME IInv, SyncTaskDone
  PROVE  IInv'
<1>1. TypeOK'
  BY DEF IInv, TypeOK, WorkerPlaces, CallPlaces, SyncTaskDone,
    SyncTaskForgotten, Notified, history
<1>2. SyncMutex'
  BY DEF IInv, SyncMutex, TypeOK, InSync, SyncTaskDone, SyncTaskForgotten,
    Notified, history
<1>3. CvMutex'
  BY DEF IInv, CvMutex, TypeOK, SyncTaskDone, SyncTaskForgotten, Notified,
    history
<1>4. HandShake'
  BY DEF IInv, HandShake, TypeOK, SyncMutex, CvMutex, InSync, SyncTaskDone,
    SyncTaskForgotten, Notified, history
<1>5. RunCount'
  BY DEF IInv, RunCount, TypeOK, SyncMutex, HandShake, InSync, SyncTaskDone,
    SyncTaskForgotten, Notified, history
<1>6. Phases'
  BY DEF IInv, Phases, TypeOK, SyncMutex, HandShake, InSync, SyncTaskDone,
    SyncTaskForgotten, Notified, history
<1>7. MemberLife'
  BY DEF IInv, MemberLife, TypeOK, SyncMutex, HandShake, Phases, InSync,
    SyncTaskDone, SyncTaskForgotten, Notified, history
<1>8. Queues'
  BY DEF IInv, Queues, TypeOK, AsyncInOrder, SyncTaskDone, SyncTaskForgotten,
    Notified, history
<1>9. Barriers'
  BY DEF IInv, Barriers, TypeOK, SyncTaskDone, SyncTaskForgotten, Notified,
    history
<1> QED  BY <1>1, <1>2, <1>3, <1>4, <1>5, <1>6, <1>7, <1>8, <1>9 DEF IInv

\* WaitOver preserves the invariant.
LEMMA WaitOverInv ==
  ASSUME IInv, WaitOver
  PROVE  IInv'
<1>1. TypeOK'
  BY DEF IInv, TypeOK, WorkerPlaces, CallPlaces, WaitOver, WaitForTimesOut,
    history
<1>2. SyncMutex'
  BY DEF IInv, SyncMutex, TypeOK, InSync, WaitOver, WaitForTimesOut, history
<1>3. CvMutex'
  BY DEF IInv, CvMutex, TypeOK, WaitOver, WaitForTimesOut, history
<1>4. HandShake'
  BY DEF IInv, HandShake, TypeOK, SyncMutex, CvMutex, InSync, WaitOver,
    WaitForTimesOut, history
<1>5. RunCount'
  BY DEF IInv, RunCount, TypeOK, SyncMutex, HandShake, InSync, WaitOver,
    WaitForTimesOut, history
<1>6. Phases'
  BY DEF IInv, Phases, TypeOK, SyncMutex, HandShake, InSync, WaitOver,
    WaitForTimesOut, history
<1>7. MemberLife'
  BY DEF IInv, MemberLife, TypeOK, SyncMutex, HandShake, Phases, InSync,
    WaitOver, WaitForTimesOut, history
<1>8. Queues'
  BY DEF IInv, Queues, TypeOK, AsyncInOrder, WaitOver, WaitForTimesOut,
    history
<1>9. Barriers'
  BY DEF IInv, Barriers, TypeOK, WaitOver, WaitForTimesOut, history
<1> QED  BY <1>1, <1>2, <1>3, <1>4, <1>5, <1>6, <1>7, <1>8, <1>9 DEF IInv

\* A stuttering step preserves the invariant.
LEMMA StutterInv ==
  ASSUME IInv, UNCHANGED vars
  PROVE  IInv'
<1>1. TypeOK'
  BY DEF IInv, TypeOK, WorkerPlaces, CallPlaces, vars, history
<1>2. SyncMutex'
  BY DEF IInv, SyncMutex, TypeOK, InSync, vars, history
<1>3. CvMutex'
  BY DEF IInv, CvMutex, TypeOK, vars, history
<1>4. HandShake'
  BY DEF IInv, HandShake, TypeOK, SyncMutex, CvMutex, InSync, vars, history
<1>5. RunCount'
  BY DEF IInv, RunCount, TypeOK, SyncMutex, HandShake, InSync, vars, history
<1>6. Phases'
  BY DEF IInv, Phases, TypeOK, SyncMutex, HandShake, InSync, vars, history
<1>7. MemberLife'
  BY DEF IInv, MemberLife, TypeOK, SyncMutex, HandShake, Phases, InSync, vars,
    history
<1>8. Queues'
  BY DEF IInv, Queues, TypeOK, AsyncInOrder, vars, history
<1>9. Barriers'
  BY DEF IInv, Barriers, TypeOK, vars, history
<1> QED  BY <1>1, <1>2, <1>3, <1>4, <1>5, <1>6, <1>7, <1>8, <1>9 DEF IInv

-----------------------------------------------------------------------------
LEMMA InitInv == Init => IInv
<1> SUFFICES ASSUME Init PROVE IInv
  OBVIOUS
<1>1. TypeOK
  <2>1. <<>> \in Seq(Task)
    BY EmptySeq
  <2>2. calls \in [Clients \cup {Worker} -> 0..(MaxCalls + MaxNested)]
    BY DEF Init
  <2>3. pc \in [Callers -> CallPlaces] /\ wpc \in WorkerPlaces
    BY DEF Init, CallPlaces, WorkerPlaces
  <2>4. runs \in [Clients -> 0..1] /\ due \in [Clients -> Nat]
    BY DEF Init
  <2>5. /\ sync_task \in Callers \cup {NoThread}
        /\ cv_m \in {Worker, NoThread}
        /\ sync_mtx \in Callers \cup {NoThread}
        /\ task_done \in BOOLEAN /\ canceled \in BOOLEAN
    BY DEF Init
  <2>6. /\ async_tasks \in Seq(Task) /\ tasks_to_do \in Seq(Task)
        /\ submitted \in Seq(Task) /\ executed \in Seq(Task)
    BY <2>1 DEF Init
  <2>7. /\ member \in {"unborn", "live", "gone"} /\ closeDue \in Nat
        /\ phase \in {"ctor", "live", "dtor", "dead"}
    BY DEF Init
  <2> QED  BY <2>2, <2>3, <2>4, <2>5, <2>6, <2>7 DEF TypeOK
<1>2. SyncMutex /\ CvMutex
  BY DEF Init, SyncMutex, CvMutex, InSync
<1>3. HandShake /\ RunCount /\ Phases /\ MemberLife
  BY DEF Init, HandShake, RunCount, Phases, MemberLife
<1>4. Queues
  BY EmptySeq, ConcatEmptySeq DEF Init, Queues, AsyncInOrder
<1>5. Barriers
  BY EmptySeq DEF Init, Barriers
<1> QED  BY <1>1, <1>2, <1>3, <1>4, <1>5 DEF IInv

\* One case per action of the code.
LEMMA NextInv == IInv /\ [Next]_vars => IInv'
<1> SUFFICES ASSUME IInv, [Next]_vars PROVE IInv'
  OBVIOUS
<1>1. CASE \E c \in Clients : invoke_async(c) \/ invoke(c)
  BY <1>1, invoke_asyncInv, invokeInv
<1>2. CASE \E t \in Callers : do_sync_task(t)
  BY <1>2, LockSyncInv, PostTaskInv, SpuriousWakeInv, RecheckInv,
     ReturnFromSyncInv DEF do_sync_task
<1>3. CASE threaded_wrap
  <2>1. CASE CheckCanceled \/ LockCv \/ WaitOver \/ NoSyncTask
    BY <2>1, CheckCanceledInv, LockCvInv, WaitOverInv, NoSyncTaskInv
  <2>2. CASE SwapTasks \/ RunOneTask \/ RunOneTaskSubmitting \/ BatchDone
    BY <2>2, SwapTasksInv, RunOneTaskInv, RunOneTaskSubmittingInv, BatchDoneInv
  <2>3. CASE RunSyncTask \/ BuildMember \/ BeginDtorTask \/ DestroyMember
             \/ SyncTaskDone
    BY <2>3, RunSyncTaskInv, BuildMemberInv, BeginDtorTaskInv,
       DestroyMemberInv, SyncTaskDoneInv
  <2> QED  BY <1>3, <2>1, <2>2, <2>3 DEF threaded_wrap
<1>4. CASE Destroy \/ Join
  BY <1>4, DestroyInv, JoinInv
<1>5. CASE Terminated \/ UNCHANGED vars
  BY <1>5, StutterInv DEF Terminated
<1> QED  BY <1>1, <1>2, <1>3, <1>4, <1>5 DEF Next

\* The invariant holds in every reachable state.
THEOREM Invariance == Spec => []IInv
<1>1. Init => IInv  BY InitInv
<1>2. IInv /\ [Next]_vars => IInv'  BY NextInv
<1> QED  BY <1>1, <1>2, PTL DEF Spec

-----------------------------------------------------------------------------
(* The properties.                                                         *)

\* Every variable keeps its type; no call's task is run twice.
THEOREM TypeCorrect == Spec => []TypeOK
<1>1. IInv => TypeOK  BY DEF IInv
<1> QED  BY <1>1, Invariance, PTL

\* The lambda the worker may run never outlives the frame it captures.
THEOREM CallerBlocked == Spec => []SyncTaskCallerBlocked
<1>1. IInv => SyncTaskCallerBlocked
  BY DEF IInv, TypeOK, HandShake, SyncMutex, InSync, SyncTaskCallerBlocked
<1> QED  BY <1>1, Invariance, PTL

\* Asynchronous tasks are executed in order, none lost, none twice.
THEOREM InOrder == Spec => []AsyncInOrder
<1>1. IInv => AsyncInOrder  BY DEF IInv, Queues
<1> QED  BY <1>1, Invariance, PTL

\* do_sync_task returns only once its own task has been run, exactly once.
THEOREM OwnRun == Spec => []ReturnsAfterOwnRun
<1>1. IInv => ReturnsAfterOwnRun  BY DEF IInv, RunCount, ReturnsAfterOwnRun
<1> QED  BY <1>1, Invariance, PTL

\* The destructor's drain loses nothing that was submitted before it.
THEOREM Drain == Spec => []DestroyedAfterDrain
<1>1. IInv => DestroyedAfterDrain  BY DEF IInv, Barriers, DestroyedAfterDrain
<1> QED  BY <1>1, Invariance, PTL

\* Which steps run a task: the two that take one from the batch, and the one
\* that calls the lambda of a synchronous call.
LEMMA RunningSteps ==
  ASSUME IInv, [Next]_vars,
         executed' # executed \/ \E c \in Clients : runs'[c] > runs[c]
  PROVE  RunOneTask \/ RunOneTaskSubmitting \/ RunSyncTask
<1>a. \A c \in Clients : runs[c] \in 0..1
  BY DEF IInv, TypeOK
<1>b. \A c \in Clients : ~(runs[c] > runs[c]) /\ ~(0 > runs[c])
  BY <1>a
<1>c. ~(executed' = executed /\ runs' = runs)
  BY <1>b
<1>1. ASSUME NEW c \in Clients, invoke_async(c) \/ invoke(c) PROVE FALSE
  <2>1. CASE invoke_async(c)
    BY <1>c, <2>1 DEF invoke_async
  <2>2. CASE invoke(c)
    <3>1. executed' = executed /\ runs' = [runs EXCEPT ![c] = 0]
      BY <2>2 DEF invoke
    <3>2. \A d \in Clients : ~(runs'[d] > runs[d])
      BY <1>b, <3>1 DEF IInv, TypeOK
    <3> QED  BY <3>1, <3>2
  <2> QED  BY <1>1, <2>1, <2>2
<1>2. ASSUME NEW t \in Callers, do_sync_task(t) PROVE FALSE
  BY <1>2, <1>c DEF do_sync_task, LockSync, PostTask, SpuriousWake, Recheck,
     ReturnFromSync, history
<1>3. CASE threaded_wrap
  BY <1>3, <1>c DEF threaded_wrap, CheckCanceled, LockCv, SwapTasks,
     BatchDone, NoSyncTask, BuildMember, BeginDtorTask, DestroyMember,
     SyncTaskDone, WaitOver, history
<1>4. CASE Destroy \/ Join \/ Terminated \/ UNCHANGED vars
  BY <1>4, <1>c DEF Destroy, Join, Terminated, vars, history
<1> QED  BY <1>1, <1>2, <1>3, <1>4 DEF Next

\* A synchronous call is a barrier: earlier asynchronous tasks come first.
THEOREM Barrier == Spec => SyncAfterEarlierAsync
<1> DEFINE Ordered ==
      \A c \in Clients : runs'[c] > runs[c] => Len(executed) >= due[c]
<1>1. IInv /\ [Next]_vars => Ordered
  <2> SUFFICES ASSUME IInv, [Next]_vars, NEW c \in Clients, runs'[c] > runs[c]
               PROVE  Len(executed) >= due[c]
    OBVIOUS
  <2>0. runs[c] \in 0..1 /\ ~(runs[c] > runs[c])
    BY DEF IInv, TypeOK
  <2>1. CASE RunOneTask \/ RunOneTaskSubmitting
    BY <2>0, <2>1 DEF RunOneTask, RunOneTaskSubmitting
  <2>2. CASE RunSyncTask
    <3>1. sync_task = c /\ wpc = "sync"
      <4>1. sync_task \in Clients /\ wpc = "sync"
            /\ runs' = [runs EXCEPT ![sync_task] = @ + 1]
        BY <2>2 DEF RunSyncTask
      <4> QED  BY <2>0, <4>1 DEF IInv, TypeOK
    <3>2. tasks_to_do = <<>>
      BY <3>1 DEF IInv, Queues
    <3>3. Len(executed) + Len(tasks_to_do) >= due[c]
      BY <3>1 DEF IInv, Barriers
    <3>4. Len(executed) \in Nat
      BY LenProperties DEF IInv, TypeOK
    <3> QED  BY <3>2, <3>3, <3>4, EmptySeq
  <2> QED  BY <2>1, <2>2, RunningSteps
<1> QED  BY <1>1, Invariance, PTL DEF Spec, SyncAfterEarlierAsync

\* No task is ever handed a null member.
THEOREM LiveMember == Spec => TasksSeeLiveMember
<1> DEFINE Alive ==
      executed' # executed \/ (\E c \in Clients : runs'[c] > runs[c])
        => member = "live"
<1>1. IInv /\ [Next]_vars => Alive
  <2> SUFFICES ASSUME IInv, [Next]_vars,
                      executed' # executed
                        \/ \E c \in Clients : runs'[c] > runs[c]
               PROVE  member = "live"
    OBVIOUS
  <2>1. RunOneTask \/ RunOneTaskSubmitting \/ RunSyncTask
    BY RunningSteps
  <2>2. CASE RunOneTask \/ RunOneTaskSubmitting
    <3>1. submitted # <<>>
      <4>1. /\ executed \in Seq(Task) /\ tasks_to_do \in Seq(Task)
            /\ async_tasks \in Seq(Task) /\ tasks_to_do # <<>>
        BY <2>2 DEF IInv, TypeOK, RunOneTask, RunOneTaskSubmitting
      <4>2. executed \o tasks_to_do # <<>>
            /\ executed \o tasks_to_do \in Seq(Task)
        BY <4>1, ConcatEqualIffEmpty, ConcatProperties
      <4>3. executed \o tasks_to_do \o async_tasks # <<>>
        BY <4>1, <4>2, ConcatEqualIffEmpty
      <4> QED  BY <4>3 DEF IInv, Queues, AsyncInOrder
    <3>2. ~canceled
      BY <2>2 DEF IInv, MemberLife, RunOneTask, RunOneTaskSubmitting
    <3>3. phase # "ctor" /\ phase # "dead" /\ member # "gone"
      BY <3>1, <3>2 DEF IInv, MemberLife
    <3> QED  BY <3>3 DEF IInv, TypeOK, MemberLife
  <2>3. CASE RunSyncTask
    <3>1. sync_task \in Clients /\ pc[sync_task] # "ready"
      BY <2>3 DEF IInv, TypeOK, HandShake, RunSyncTask
    <3>2. phase = "live"
      BY <3>1 DEF IInv, Phases
    <3> QED  BY <3>2 DEF IInv, MemberLife
  <2> QED  BY <2>1, <2>2, <2>3
<1> QED  BY <1>1, Invariance, PTL DEF Spec, TasksSeeLiveMember

-----------------------------------------------------------------------------
(* The wrapper implements TaskExecutor.                                    *)

PromisedVars == <<PromisedQueue, Len(executed), PromisedCall, due, closeDue,
                  PromisedLife>>

\* What the invariant says in the words of the abstract specification.
LEMMA PromiseFacts ==
  ASSUME IInv
  PROVE  /\ Len(submitted) = Len(executed) + Len(PromisedQueue)
         /\ Len(PromisedQueue) = Len(tasks_to_do) + Len(async_tasks)
         /\ tasks_to_do \in Seq(Task) /\ async_tasks \in Seq(Task)
         /\ executed \in Seq(Task) /\ PromisedQueue \in Seq(Task)
         /\ Len(executed) \in Nat /\ Len(PromisedQueue) \in Nat
<1>1. /\ tasks_to_do \in Seq(Task) /\ async_tasks \in Seq(Task)
      /\ executed \in Seq(Task)
  BY DEF IInv, TypeOK
<1>2. Len(PromisedQueue) = Len(tasks_to_do) + Len(async_tasks)
      /\ PromisedQueue \in Seq(Task)
  BY <1>1, ConcatProperties DEF PromisedQueue
<1> QED  BY <1>1, <1>2, LengthOfHistory, LenProperties DEF IInv, Queues

\* invoke_async appends to the queue.
LEMMA AsyncIsSubmit ==
  ASSUME IInv, NEW c \in Clients, invoke_async(c)
  PROVE  Promise!Submit(<<c, calls[c]>>) /\ <<c, calls[c]>> \in Task
<1>1. <<c, calls[c]>> \in Task
  BY DEF IInv, TypeOK, Task, invoke_async, MayCall
<1>2. PromisedQueue' = Append(PromisedQueue, <<c, calls[c]>>)
  <2>1. tasks_to_do \o Append(async_tasks, <<c, calls[c]>>)
          = Append(tasks_to_do \o async_tasks, <<c, calls[c]>>)
    <3> DEFINE e == <<c, calls[c]>>
    <3> HIDE DEF e
    <3>1. <<>> \in Seq(Task) /\ e \in Task
      BY <1>1, EmptySeq DEF e
    <3>2. <<>> \o tasks_to_do \o Append(async_tasks, e)
            = Append(<<>> \o tasks_to_do \o async_tasks, e)
      BY <3>1, PromiseFacts, AppendToQueue
    <3> QED  BY <3>2, PromiseFacts, ConcatEmptySeq DEF e
  <2> QED  BY <2>1 DEF PromisedQueue, invoke_async
<1>3. /\ PromisedLife = "open" /\ PromisedLife' = PromisedLife
      /\ PromisedCall' = PromisedCall
  BY DEF IInv, Phases, MemberLife, PromisedLife, PromisedCall, invoke_async,
     MayCall
<1>4. executed' = executed /\ due' = due /\ closeDue' = closeDue
  BY DEF invoke_async
<1> QED  BY <1>1, <1>2, <1>3, <1>4 DEF Promise!Submit

\* invoke asks for a synchronous run after what has been submitted so far.
LEMMA InvokeIsAsk ==
  ASSUME IInv, NEW c \in Clients, invoke(c)
  PROVE  Promise!Ask(c)
<1>1. /\ PromisedLife = "open" /\ PromisedLife' = PromisedLife
      /\ PromisedQueue' = PromisedQueue
      /\ executed' = executed /\ closeDue' = closeDue
      /\ due' = [due EXCEPT ![c] = Len(submitted)]
  BY DEF IInv, Phases, MemberLife, PromisedLife, PromisedQueue, invoke, MayCall
<1>2. PromisedCall[c] = "idle"
      /\ PromisedCall' = [PromisedCall EXCEPT ![c] = "asked"]
  BY DEF IInv, TypeOK, PromisedCall, invoke, MayCall
<1> QED  BY <1>1, <1>2, PromiseFacts DEF Promise!Ask

\* Swapping the queue into the batch is invisible, and so is every step of
\* the hand-shake but the return of the call.
LEMMA SwapIsHidden ==
  ASSUME IInv, SwapTasks
  PROVE  UNCHANGED PromisedVars
<1>1. tasks_to_do = <<>>
  BY DEF IInv, Queues, SwapTasks
<1>2. PromisedQueue = async_tasks
  BY <1>1, PromiseFacts, ConcatEmptySeq DEF PromisedQueue
<1>3. PromisedQueue' = async_tasks
  BY PromiseFacts, ConcatEmptySeq DEF PromisedQueue, SwapTasks, QueueAfterSwap
<1> QED  BY <1>2, <1>3
  DEF PromisedVars, PromisedCall, PromisedLife, SwapTasks, history

LEMMA HandShakeIsHidden ==
  ASSUME IInv, NEW t \in Callers,
         LockSync(t) \/ PostTask(t) \/ SpuriousWake(t) \/ Recheck(t)
  PROVE  UNCHANGED PromisedVars
<1>1. /\ pc[t] # "ready" /\ pc'[t] # "ready"
      /\ \A c \in Callers : c # t => pc'[c] = pc[c]
      /\ UNCHANGED <<tasks_to_do, async_tasks, phase, member, wpc, history>>
  BY DEF IInv, TypeOK, LockSync, PostTask, SpuriousWake, Recheck, WaitLoop,
     history
<1>2. PromisedCall' = PromisedCall
  BY <1>1 DEF PromisedCall, history
<1> QED  BY <1>1, <1>2 DEF PromisedVars, PromisedQueue, PromisedLife, history

\* The return: of the constructor, of a client's call, of the destructor.
LEMMA ReturnIsReturn ==
  ASSUME IInv, NEW t \in Callers, ReturnFromSync(t)
  PROVE  Promise!Open \/ UNCHANGED PromisedVars
           \/ \E c \in Clients : Promise!Return(c)
<1>1. UNCHANGED <<tasks_to_do, async_tasks, member, wpc, history>>
      /\ PromisedQueue' = PromisedQueue
  BY DEF ReturnFromSync, PromisedQueue
<1>2. CASE t = Owner
  <2>1. PromisedCall' = PromisedCall
    BY <1>1, <1>2 DEF IInv, TypeOK, ReturnFromSync, PromisedCall, history
  <2>2. CASE phase = "ctor"
    <3>1. task_done /\ phase' = "live"
      BY <1>2, <2>2 DEF IInv, HandShake, ReturnFromSync
    <3>2. member = "live" /\ wpc \notin {"dtor_swap", "dtor_run", "dtor_reset"}
      BY <2>2, <3>1 DEF IInv, MemberLife, Phases
    <3> QED  BY <1>1, <2>1, <2>2, <3>1, <3>2
             DEF Promise!Open, PromisedLife, history
  <2>3. CASE phase # "ctor"
    BY <1>1, <2>1, <2>3
    DEF PromisedVars, PromisedLife, ReturnFromSync, history
  <2> QED  BY <2>2, <2>3
<1>3. CASE t \in Clients
  <2>1. phase = "live" /\ pc' = [pc EXCEPT ![t] = "ready"] /\ runs[t] = 1
        /\ phase' = phase
    BY <1>3 DEF IInv, Phases, RunCount, ReturnFromSync
  <2>2. PromisedCall[t] = "done"
    BY <1>3, <2>1 DEF PromisedCall, ReturnFromSync
  <2>3. PromisedCall' = [PromisedCall EXCEPT ![t] = "idle"]
    BY <1>1, <1>3, <2>1 DEF IInv, TypeOK, PromisedCall, history
  <2>4. PromisedLife' = PromisedLife
    BY <1>1, <2>1 DEF PromisedLife
  <2> QED  BY <1>1, <1>3, <2>2, <2>3, <2>4 DEF Promise!Return, history
<1> QED  BY <1>2, <1>3

\* Taking a task from the batch takes it from the front of the queue.
LEMMA TailOfConcat ==
  ASSUME NEW S, NEW s \in Seq(S), NEW t \in Seq(S), s # <<>>
  PROVE  s \o t # <<>> /\ Tail(s \o t) = Tail(s) \o t
<1>1. s \o t # <<>> /\ s \o t \in Seq(S)
  BY ConcatEqualIffEmpty, ConcatProperties
<1>2. /\ Tail(s) \in Seq(S) /\ Len(Tail(s)) = Len(s) - 1
      /\ \A i \in 1..Len(Tail(s)) : Tail(s)[i] = s[i+1]
  BY HeadTailProperties
<1>3. /\ Tail(s \o t) \in Seq(S) /\ Len(Tail(s \o t)) = Len(s \o t) - 1
      /\ \A i \in 1..Len(Tail(s \o t)) : Tail(s \o t)[i] = (s \o t)[i+1]
  BY <1>1, HeadTailProperties
<1>4. /\ Len(s \o t) = Len(s) + Len(t) /\ Len(s) \in Nat /\ Len(t) \in Nat
      /\ \A i \in 1..Len(s) + Len(t) :
           (s \o t)[i] = IF i <= Len(s) THEN s[i] ELSE t[i - Len(s)]
  BY ConcatProperties, LenProperties
<1>5. /\ Tail(s) \o t \in Seq(S) /\ Len(Tail(s) \o t) = Len(s) - 1 + Len(t)
      /\ \A i \in 1..Len(s) - 1 + Len(t) :
           (Tail(s) \o t)[i] = IF i <= Len(s) - 1 THEN Tail(s)[i]
                               ELSE t[i - (Len(s) - 1)]
  BY <1>2, ConcatProperties
<1>6. ASSUME NEW i \in 1..Len(Tail(s \o t))
      PROVE  Tail(s \o t)[i] = (Tail(s) \o t)[i]
  BY <1>2, <1>3, <1>4, <1>5
<1>7. Len(Tail(s \o t)) = Len(Tail(s) \o t)
  BY <1>3, <1>4, <1>5
<1> QED  BY <1>1, <1>3, <1>5, <1>6, <1>7, SeqEqual

\* A batch is run while the promise is open or closing.
LEMMA RunningLife ==
  ASSUME IInv, wpc \in {"run", "dtor_run"}, tasks_to_do # <<>>
  PROVE  PromisedLife \in {"open", "closing"}
<1>1. PromisedQueue # <<>>
  BY PromiseFacts, ConcatEqualIffEmpty DEF PromisedQueue
<1>2. submitted # <<>>
  BY <1>1, PromiseFacts, EmptySeq
<1>3. phase # "ctor" /\ member # "gone"
  BY <1>2 DEF IInv, MemberLife
<1> QED  BY <1>3 DEF PromisedLife

\* The worker's turn: what is visible is the execution of the tasks.
LEMMA TaskIsRunAsync ==
  ASSUME IInv, RunOneTask
  PROVE  Promise!RunAsync
<1>1. tasks_to_do # <<>> /\ PromisedLife \in {"open", "closing"}
  BY RunningLife DEF RunOneTask
<1>2. PromisedQueue # <<>> /\ PromisedQueue' = Tail(PromisedQueue)
  BY <1>1, PromiseFacts, TailOfConcat DEF PromisedQueue, RunOneTask
<1>3. Len(executed') = Len(executed) + 1
  BY <1>1, PromiseFacts, RunHeadOfBatch DEF RunOneTask
<1>4. PromisedLife' = PromisedLife /\ PromisedCall' = PromisedCall
      /\ due' = due /\ closeDue' = closeDue
  BY DEF RunOneTask, PromisedLife, PromisedCall
<1> QED  BY <1>1, <1>2, <1>3, <1>4 DEF Promise!RunAsync

\* ... which may submit one more.
LEMMA TaskSubmits ==
  ASSUME IInv, RunOneTaskSubmitting
  PROVE  \E t \in Task : Promise!RunAsyncSubmitting(t)
<1> DEFINE new == <<Worker, calls[Worker]>>
<1>1. tasks_to_do # <<>> /\ PromisedLife \in {"open", "closing"}
  BY RunningLife DEF RunOneTaskSubmitting
<1>2. new \in Task
  <2>1. calls[Worker] \in 0..(MaxCalls + MaxNested)
    BY DEF IInv, TypeOK
  <2> QED  BY <2>1 DEF Task
<1>3. /\ tasks_to_do' = Tail(tasks_to_do)
      /\ async_tasks' = Append(async_tasks, new)
      /\ executed' = Append(executed, Head(tasks_to_do))
  BY DEF RunOneTaskSubmitting
<1>4. PromisedLife' = PromisedLife /\ PromisedCall' = PromisedCall
      /\ due' = due /\ closeDue' = closeDue
  BY DEF RunOneTaskSubmitting, PromisedLife, PromisedCall
<1> HIDE DEF new
<1>5. PromisedQueue # <<>>
      /\ Tail(PromisedQueue) = Tail(tasks_to_do) \o async_tasks
      /\ Tail(tasks_to_do) \in Seq(Task)
  BY <1>1, PromiseFacts, TailOfConcat, RunHeadOfBatch DEF PromisedQueue
<1>6. Tail(tasks_to_do) \o Append(async_tasks, new)
        = Append(Tail(tasks_to_do) \o async_tasks, new)
  <2>1. <<>> \o Tail(tasks_to_do) \o Append(async_tasks, new)
          = Append(<<>> \o Tail(tasks_to_do) \o async_tasks, new)
    BY <1>2, <1>5, PromiseFacts, EmptySeq, AppendToQueue
  <2> QED  BY <1>5, <2>1, ConcatEmptySeq
<1>7. PromisedQueue' = Append(Tail(PromisedQueue), new)
  BY <1>3, <1>5, <1>6 DEF PromisedQueue
<1>8. Len(executed') = Len(executed) + 1
  BY <1>1, <1>3, PromiseFacts, RunHeadOfBatch
<1>9. Promise!RunAsyncSubmitting(new)
  BY <1>1, <1>4, <1>5, <1>7, <1>8 DEF Promise!RunAsyncSubmitting
<1> QED  BY <1>2, <1>9

\* The lambda of a client is run when its predecessors have been.
LEMMA SyncIsRunSync ==
  ASSUME IInv, RunSyncTask
  PROVE  \E c \in Clients : Promise!RunSync(c)
<1>1. PICK c \in Clients : c = sync_task
  BY DEF RunSyncTask
<1>2. /\ wpc = "sync" /\ tasks_to_do = <<>> /\ runs[c] = 0
      /\ pc[c] \in {"waiting", "woken"}
  BY <1>1 DEF IInv, Queues, RunCount, HandShake, TypeOK, RunSyncTask
<1>3. Len(executed) >= due[c]
  <2>1. Len(executed) + Len(tasks_to_do) >= due[c]
    BY <1>1, <1>2 DEF IInv, Barriers
  <2> QED  BY <1>2, <2>1, PromiseFacts, EmptySeq
<1>4. phase = "live" /\ member = "live" /\ PromisedLife = "open"
  BY <1>1, <1>2 DEF IInv, Phases, MemberLife, PromisedLife
<1>5. /\ UNCHANGED <<tasks_to_do, async_tasks, executed, phase, member, due,
                     closeDue, pc>>
      /\ wpc' = "done" /\ runs' = [runs EXCEPT ![c] = @ + 1]
  BY <1>1 DEF RunSyncTask
<1>6. PromisedLife' = PromisedLife /\ PromisedQueue' = PromisedQueue
  BY <1>4, <1>5 DEF PromisedLife, PromisedQueue
<1>7. runs' = [runs EXCEPT ![c] = 1]
  BY <1>2, <1>5 DEF IInv, TypeOK
<1>8. PromisedCall[c] = "asked"
      /\ PromisedCall' = [PromisedCall EXCEPT ![c] = "done"]
  <2>1. PromisedCall[c] = "asked"
    BY <1>2 DEF PromisedCall
  <2>2. /\ \A d \in Clients \ {c} : runs'[d] = runs[d]
        /\ runs'[c] = 1 /\ pc' = pc /\ pc[c] # "ready"
    BY <1>2, <1>5, <1>7 DEF IInv, TypeOK
  <2>3. PromisedCall' = [d \in Clients |-> IF d = c THEN "done"
                                           ELSE PromisedCall[d]]
    BY <2>2 DEF PromisedCall
  <2>4. PromisedCall' = [PromisedCall EXCEPT ![c] = "done"]
    BY <2>3 DEF PromisedCall
  <2> QED  BY <2>1, <2>4
<1> QED  BY <1>3, <1>4, <1>5, <1>6, <1>8 DEF Promise!RunSync

\* The destructor's task closes the queue and destroys the member after it.
LEMMA DtorIsClose ==
  ASSUME IInv, BeginDtorTask
  PROVE  Promise!Close
<1>1. phase = "dtor" /\ member = "live" /\ wpc = "sync"
      /\ PromisedLife = "open"
  BY DEF IInv, HandShake, TypeOK, Phases, MemberLife, PromisedLife,
     BeginDtorTask
<1>2. \A c \in Clients : PromisedCall[c] = "idle"
  BY <1>1 DEF IInv, Phases, PromisedCall
<1>3. PromisedLife' = "closing" /\ PromisedQueue' = PromisedQueue
      /\ PromisedCall' = PromisedCall /\ executed' = executed /\ due' = due
      /\ closeDue' = Len(submitted)
  BY <1>1 DEF PromisedLife, PromisedQueue, PromisedCall, BeginDtorTask,
     DtorTaskStart
<1> QED  BY <1>1, <1>2, <1>3, PromiseFacts DEF Promise!Close

LEMMA DestroyIsFinish ==
  ASSUME IInv, DestroyMember
  PROVE  Promise!Finish
<1>1. PromisedLife = "closing" /\ phase = "dtor" /\ tasks_to_do = <<>>
  BY DEF IInv, Phases, Queues, PromisedLife, DestroyMember
<1>2. Len(executed) >= closeDue
  <2>1. Len(executed) + Len(tasks_to_do) >= closeDue
    BY DEF IInv, Barriers, DestroyMember
  <2> QED  BY <1>1, <2>1, PromiseFacts, EmptySeq
<1>3. PromisedLife' = "closed" /\ PromisedQueue' = PromisedQueue
      /\ PromisedCall' = PromisedCall
      /\ UNCHANGED <<executed, due, closeDue>>
  BY <1>1 DEF PromisedLife, PromisedQueue, PromisedCall, DestroyMember, history
<1> QED  BY <1>1, <1>2, <1>3 DEF Promise!Finish

\* The rest of the worker's loop, the owner's call and its join are hidden.
LEMMA WorkerIsHidden ==
  ASSUME IInv, CheckCanceled \/ LockCv \/ BatchDone \/ NoSyncTask \/ WaitOver
  PROVE  UNCHANGED PromisedVars
<1>1. UNCHANGED <<tasks_to_do, async_tasks, phase, member, pc, history>>
  BY DEF CheckCanceled, LockCv, BatchDone, NoSyncTask, WaitOver
<1>2. wpc \in {"dtor_swap", "dtor_run", "dtor_reset"}
        <=> wpc' \in {"dtor_swap", "dtor_run", "dtor_reset"}
  BY DEF CheckCanceled, LockCv, LoopBodyStart, BatchDone, NoSyncTask, WaitOver
<1> QED  BY <1>1, <1>2
         DEF PromisedVars, PromisedQueue, PromisedCall, PromisedLife, history

LEMMA MemberBuiltIsHidden ==
  ASSUME IInv, BuildMember
  PROVE  UNCHANGED PromisedVars
BY DEF PromisedVars, PromisedQueue, PromisedCall, PromisedLife, BuildMember,
   history

LEMMA TaskDoneIsHidden ==
  ASSUME IInv, SyncTaskDone
  PROVE  UNCHANGED PromisedVars
<1>1. UNCHANGED <<tasks_to_do, async_tasks, phase, member, history>>
      /\ wpc = "done" /\ wpc' = "wait"
  BY DEF SyncTaskDone
<1>2. \A c \in Clients : pc[c] = "ready" <=> pc'[c] = "ready"
  BY DEF SyncTaskDone, Notified
<1> QED  BY <1>1, <1>2
         DEF PromisedVars, PromisedQueue, PromisedCall, PromisedLife, history

LEMMA OwnerIsHidden ==
  ASSUME IInv, Destroy \/ Join
  PROVE  UNCHANGED PromisedVars
<1>1. UNCHANGED <<tasks_to_do, async_tasks, member, wpc, history>>
      /\ \A c \in Clients : pc'[c] = pc[c]
  BY DEF IInv, TypeOK, Destroy, Join
<1>2. (phase = "ctor") = (phase' = "ctor")
  BY DEF IInv, Phases, Destroy, Join
<1> QED  BY <1>1, <1>2
         DEF PromisedVars, PromisedQueue, PromisedCall, PromisedLife, history

\* ThreadedWrapper implements the promise of TaskExecutor.
THEOREM Refinement == Spec => ImplementsPromise
<1>1. Init => Promise!AbsInit
  BY EmptySeq, ConcatEmptySeq
  DEF Init, Promise!AbsInit, PromisedQueue, PromisedCall, PromisedLife
<1>2. IInv /\ [Next]_vars => [Promise!AbsNext]_(Promise!absVars)
  <2> SUFFICES ASSUME IInv, [Next]_vars
               PROVE  Promise!AbsNext \/ UNCHANGED PromisedVars
    BY DEF PromisedVars, Promise!absVars
  <2>1. CASE \E c \in Clients : invoke_async(c) \/ invoke(c)
    BY <2>1, AsyncIsSubmit, InvokeIsAsk DEF Promise!AbsNext
  <2>2. CASE \E t \in Callers : do_sync_task(t)
    BY <2>2, HandShakeIsHidden, ReturnIsReturn
    DEF do_sync_task, Promise!AbsNext
  <2>3. CASE threaded_wrap
    <3>1. CASE CheckCanceled \/ LockCv \/ WaitOver \/ NoSyncTask \/ BatchDone
      BY <3>1, WorkerIsHidden
    <3>2. CASE SwapTasks \/ BuildMember \/ SyncTaskDone
      BY <3>2, SwapIsHidden, MemberBuiltIsHidden, TaskDoneIsHidden
    <3>3. CASE RunOneTask \/ RunOneTaskSubmitting \/ RunSyncTask
      BY <3>3, TaskIsRunAsync, TaskSubmits, SyncIsRunSync DEF Promise!AbsNext
    <3>4. CASE BeginDtorTask \/ DestroyMember
      BY <3>4, DtorIsClose, DestroyIsFinish DEF Promise!AbsNext
    <3> QED  BY <2>3, <3>1, <3>2, <3>3, <3>4 DEF threaded_wrap
  <2>4. CASE Destroy \/ Join
    BY <2>4, OwnerIsHidden
  <2>5. CASE Terminated \/ UNCHANGED vars
    BY <2>5 DEF Terminated, vars, history, PromisedVars, PromisedQueue,
       PromisedCall, PromisedLife
  <2> QED  BY <2>1, <2>2, <2>3, <2>4, <2>5 DEF Next
<1> QED  BY <1>1, <1>2, Invariance, PTL
         DEF Spec, ImplementsPromise, Promise!AbsSpec
=============================================================================
