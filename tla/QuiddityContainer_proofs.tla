----------------------- MODULE QuiddityContainer_proofs -----------------------
(***************************************************************************)
(* The safety properties of QuiddityContainer, proved for every number of  *)
(* threads, nicknames, callbacks and creations.                            *)
(***************************************************************************)
EXTENDS QuiddityContainer, Ids_proofs

-----------------------------------------------------------------------------
(* The inductive invariant, one conjunct per idea.                         *)

\* ids_ has not wrapped around.
IdsInOrder == GoodIds(ids) /\ ids.cur <= MaxCreated

\* What the identifiers given so far have been used for: a thread that runs a
\* constructor owns its identifier, which nothing else has had before.
Fresh ==
  /\ DOMAIN quiddities \subseteq inserted
  /\ inserted \cup failed \subseteq 1..ids.cur
  /\ \A t \in Users :
       pc[t] = "constructing" =>
         job[t].id \in 1..ids.cur /\ job[t].id \notin inserted \cup failed
  /\ \A t, u \in Users :
       pc[t] = "constructing" /\ pc[u] = "constructing"
         /\ job[t].id = job[u].id => t = u

\* A mutex that is held for a detached thread belongs to an existing object,
\* and to one thread.
Locks ==
  /\ locked \subseteq alive \cap inserted
  /\ \A d \in Detached : pc[d] = "spawned" => job[d].id \in locked
  /\ \A d, e \in Detached :
       pc[d] = "spawned" /\ pc[e] = "spawned" /\ job[d].id = job[e].id
         => d = e

\* What is left to call when a removal, or a creation, is being announced.
RemovalPending ==
  \A t \in Threads :
    /\ pc[t] \in {"removing", "in_removed_cb", "erasing"} =>
         /\ job[t].since <= next_cb.removed
         /\ \A cb \in on_removed_cbs :
              cb <= job[t].since =>
                \/ cb \in job[t].todo
                \/ <<"removed", cb, job[t].id>> \in announced
    /\ pc[t] = "erasing" => job[t].todo = {}

CreationPending ==
  \A t \in Threads :
    pc[t] \in {"creating", "in_created_cb"} =>
      /\ job[t].since <= next_cb.created
      /\ \A cb \in on_created_cbs :
           cb <= job[t].since =>
             \/ cb \in job[t].todo
             \/ <<"created", cb, job[t].id>> \in announced

\* What is being removed has been in the map, or was never given.
RemovingKnown ==
  \A t \in Threads :
    pc[t] \in {"removing", "in_removed_cb", "erasing", "spawned", "started"} =>
      job[t].id \in inserted \cup {MaxCreated + 1}

IInv ==
  /\ TypeOK /\ IdsInOrder /\ Fresh /\ Locks
  /\ RemovalPending /\ CreationPending /\ RemovingKnown

USE ContainerAssumption, IdMaxAssumption DEF Threads, cbVars

\* The record of a thread without a call has the type of a call.
LEMMA NoJobTyped == NoJob \in Jobs
<1>1. kInvalid \in 0..IdMax /\ 0 \in 0..MaxCbs /\ NoNick \in Nicknames
  BY IdMaxAssumption DEF kInvalid, Nicknames
<1> QED  BY <1>1 DEF NoJob, Jobs

\* A call is given its identifier.
LEMMA JobWithId ==
  ASSUME NEW id \in 0..IdMax
  PROVE  /\ [NoJob EXCEPT !.id = id] \in Jobs
         /\ [NoJob EXCEPT !.id = id].id = id
         /\ \A nick \in Nicknames :
              /\ [NoJob EXCEPT !.id = id, !.nick = nick] \in Jobs
              /\ [NoJob EXCEPT !.id = id, !.nick = nick].id = id
BY NoJobTyped DEF Jobs, NoJob

\* What TypeOK says of the sets of callbacks.
LEMMA CallbacksTyped ==
  ASSUME TypeOK
  PROVE  /\ on_created_cbs \in SUBSET (1..MaxCbs)
         /\ on_removed_cbs \in SUBSET (1..MaxCbs)
         /\ next_cb.created \in 0..MaxCbs /\ next_cb.removed \in 0..MaxCbs
BY DEF TypeOK

\* A thread goes to another place, or on to another call.
LEMMA ThreadMoves ==
  ASSUME pc \in [Threads -> Places], job \in [Threads -> Jobs],
         NEW t \in Threads, NEW p \in Places, NEW j \in Jobs
  PROVE  /\ [pc EXCEPT ![t] = p] \in [Threads -> Places]
         /\ [job EXCEPT ![t] = j] \in [Threads -> Jobs]
<1> HIDE DEF Threads
<1> QED  OBVIOUS

\* BeginCreate preserves the invariant.
LEMMA BeginCreateInv ==
  ASSUME IInv, NEW t \in Users, NEW raw \in Nicks \cup {NoNick},
    BeginCreate(t, raw)
  PROVE  IInv'
<1> DEFINE n == ids.cur + 1
           j == [NoJob EXCEPT !.id = n, !.nick = Nickname(raw, n)]
<1>a. GoodIds(ids) /\ ids.cur < MaxCreated /\ ids.cur < kMaxNumOfIds
      /\ ids.cur \in Nat /\ pc[t] = "idle"
  BY DEF IInv, IdsInOrder, GoodIds, BeginCreate, kMaxNumOfIds
<1>b. /\ allocate_id(ids) = n /\ n \in 1..IdMax /\ n <= MaxCreated
      /\ GoodIds(AfterAllocate(ids)) /\ AfterAllocate(ids).cur = n
      /\ AfterAllocate(ids).ids # <<>>
  BY SMTT(30), <1>a, AllocateAppends, NextIsSuccessor, AppendProperties DEF GoodIds
<1>c. /\ GoodIds(AfterReleaseLast(AfterAllocate(ids)))
      /\ AfterReleaseLast(AfterAllocate(ids)).cur = n
  BY <1>b, ReleaseLastTakesLast
<1>d. GoodIds(ids') /\ ids'.cur = n
  BY <1>b, <1>c DEF BeginCreate
<1>e. Nickname(raw, n) \in Nicknames
  BY <1>b DEF Nickname, Nicknames
<1>f. j \in Jobs /\ j.id = n
  <2>1. n \in 0..IdMax
    BY <1>b
  <2> HIDE DEF n
  <2> QED  BY <2>1, <1>e, JobWithId
<1> HIDE DEF j
<1>g. \/ /\ failed' = failed \cup {n} /\ UNCHANGED <<pc, job, alive>>
      \/ /\ pc' = [pc EXCEPT ![t] = "constructing"]
         /\ job' = [job EXCEPT ![t] = j]
         /\ alive' = alive \cup {n} /\ UNCHANGED failed
  BY <1>b DEF BeginCreate, j
<1>h. UNCHANGED <<quiddities, cbVars, locked, inserted, announced>>
  BY DEF BeginCreate
<1> HIDE DEF n
<1>1. TypeOK'
  <2>1. ids' \in [ids : Seq(1..IdMax), cur : 0..IdMax] /\ n \in 0..IdMax
    BY <1>b, <1>d DEF GoodIds
  <2>2. job' \in [Threads -> Jobs] /\ pc' \in [Threads -> Places]
    <3>1. /\ pc \in [Threads -> Places] /\ job \in [Threads -> Jobs]
          /\ t \in Threads /\ "constructing" \in Places
      BY DEF IInv, TypeOK, Places
    <3> QED  BY <3>1, <1>f, <1>g, ThreadMoves
  <2>3. failed' \subseteq 0..IdMax /\ alive' \subseteq 0..IdMax
    <3>1. failed \subseteq 0..IdMax /\ alive \subseteq 0..IdMax
      BY DEF IInv, TypeOK
    <3> QED  BY <3>1, <2>1, <1>g
  <2> QED  BY <2>1, <2>2, <2>3, <1>h DEF IInv, TypeOK
<1>2. IdsInOrder'
  BY <1>b, <1>d DEF IdsInOrder
<1>3. Fresh'
  <2>a. /\ n \notin inserted \cup failed
        /\ inserted \cup failed \subseteq 1..n
        /\ \A u \in Users : pc[u] = "constructing" =>
             job[u].id # n /\ job[u].id \in 1..n
    BY <1>a DEF IInv, Fresh, n
  <2>b. n \in 1..n
    BY <1>b
  <2>1. CASE failed' = failed \cup {n} /\ UNCHANGED <<pc, job, alive>>
    <3>1. \A u \in Users : pc[u] = "constructing" =>
            job[u].id \in 1..n /\ job[u].id \notin inserted \cup failed \cup {n}
      BY <2>a DEF IInv, Fresh
    <3> QED  BY <2>1, <3>1, <2>a, <2>b, <1>d, <1>h DEF IInv, Fresh
  <2>2. CASE /\ pc' = [pc EXCEPT ![t] = "constructing"]
             /\ job' = [job EXCEPT ![t] = j] /\ UNCHANGED failed
    <3>1. /\ job'[t].id = n
          /\ \A u \in Users : u # t => job'[u] = job[u] /\ pc'[u] = pc[u]
      BY <2>2, <1>f DEF IInv, TypeOK
    <3> QED  BY <2>2, <3>1, <2>a, <2>b, <1>d, <1>h DEF IInv, Fresh
  <2> QED  BY <2>1, <2>2, <1>g
<1>4. Locks'
  BY <1>a, <1>g, <1>h DEF IInv, Locks, TypeOK
<1>5. RemovalPending'
  BY <1>a, <1>g, <1>h DEF IInv, RemovalPending, TypeOK
<1>6. CreationPending'
  BY <1>a, <1>g, <1>h DEF IInv, CreationPending, TypeOK
<1>7. RemovingKnown'
  BY <1>a, <1>g, <1>h DEF IInv, RemovingKnown, TypeOK
<1> QED  BY <1>1, <1>2, <1>3, <1>4, <1>5, <1>6, <1>7 DEF IInv

\* CreateFails preserves the invariant.
LEMMA CreateFailsInv ==
  ASSUME IInv, NEW t \in Users, CreateFails(t)
  PROVE  IInv'
<1>a. GoodIds(ids) /\ GoodIds(ids') /\ ids'.cur = ids.cur
  <2>1. CASE ids.ids = <<>>
    <3>1. SubSeq(<<>>, 1, 0 - 1) = <<>> /\ Len(<<>>) = 0
      BY SubSeqEmpty, EmptySeq
    <3>2. Front(ids.ids) = <<>>
      BY <2>1, <3>1 DEF Front
    <3>3. ids' = ids
      BY <2>1, <3>2 DEF CreateFails, IdsAfterFailure, AfterReleaseLast, IInv,
         IdsInOrder, GoodIds
    <3> QED  BY <3>3 DEF IInv, IdsInOrder
  <2>2. CASE ids.ids # <<>>
    BY <2>2, ReleaseLastTakesLast DEF CreateFails, IdsAfterFailure, IInv,
       IdsInOrder
  <2> QED  BY <2>1, <2>2
<1>b. job[t].id \in 0..IdMax
  BY DEF IInv, TypeOK, Jobs
<1>1. TypeOK'
  BY <1>a, <1>b, NoJobTyped DEF IInv, TypeOK, Places, GoodIds, CreateFails
<1>2. IdsInOrder'
  BY <1>a DEF IInv, IdsInOrder
<1>3. Fresh'
  <2>1. /\ job[t].id \in 1..ids.cur
        /\ \A u \in Users : u # t /\ pc[u] = "constructing" =>
             job[u].id # job[t].id
    BY DEF IInv, Fresh, CreateFails
  <2>2. \A u \in Users : u # t => job'[u] = job[u] /\ pc'[u] = pc[u]
    BY DEF IInv, TypeOK, CreateFails
  <2>3. pc'[t] = "idle"
    BY DEF IInv, TypeOK, CreateFails
  <2> QED  BY <1>a, <2>1, <2>2, <2>3 DEF IInv, Fresh, CreateFails
<1>4. Locks'
  BY DEF IInv, Locks, TypeOK, NoJob, CreateFails, IdsAfterFailure
<1>5. RemovalPending'
  BY DEF IInv, RemovalPending, TypeOK, NoJob, CreateFails, IdsAfterFailure
<1>6. CreationPending'
  BY DEF IInv, CreationPending, TypeOK, NoJob, CreateFails, IdsAfterFailure
<1>7. RemovingKnown'
  BY DEF IInv, RemovingKnown, TypeOK, NoJob, CreateFails, IdsAfterFailure
<1> QED  BY <1>1, <1>2, <1>3, <1>4, <1>5, <1>6, <1>7 DEF IInv

\* CreateSucceeds preserves the invariant.
LEMMA CreateSucceedsInv ==
  ASSUME IInv, NEW t \in Users, NEW quiet \in BOOLEAN, CreateSucceeds(t,
    quiet)
  PROVE  IInv'
<1>j. job' \in [Threads -> Jobs]
  <2>1. job \in [Threads -> Jobs]
    BY DEF IInv, TypeOK
  <2> QED  BY <2>1, CallbacksTyped, NoJobTyped DEF IInv, Jobs, CreateSucceeds
<1>k. job[t].id \in 0..IdMax /\ job[t].nick \in Nicknames
  BY DEF IInv, TypeOK, Jobs
<1>1. TypeOK'
  BY <1>j, <1>k DEF IInv, TypeOK, Places, CreateSucceeds
<1>2. IdsInOrder'
  BY DEF IInv, IdsInOrder, CreateSucceeds
<1>3. Fresh'
  BY DEF IInv, Fresh, TypeOK, CreateSucceeds
<1>4. Locks'
  BY DEF IInv, Locks, TypeOK, CreateSucceeds
<1>5. RemovalPending'
  BY DEF IInv, RemovalPending, TypeOK, CreateSucceeds
<1>6. CreationPending'
  BY DEF IInv, CreationPending, TypeOK, CreateSucceeds
<1>7. RemovingKnown'
  BY DEF IInv, RemovingKnown, TypeOK, CreateSucceeds
<1> QED  BY <1>1, <1>2, <1>3, <1>4, <1>5, <1>6, <1>7 DEF IInv

\* NotifyCreated preserves the invariant.
LEMMA NotifyCreatedInv ==
  ASSUME IInv, NEW t \in Users, NotifyCreated(t)
  PROVE  IInv'
<1> DEFINE called == [job[t] EXCEPT !.todo = on_created_cbs,
                               !.since = next_cb.created]
<1>a. /\ job \in [Threads -> Jobs] /\ pc \in [Threads -> Places]
      /\ on_created_cbs \in SUBSET (1..MaxCbs) /\ next_cb.created \in 0..MaxCbs
  BY CallbacksTyped DEF IInv, TypeOK
<1>b. /\ called \in Jobs /\ called.id = job[t].id
      /\ called.todo = on_created_cbs /\ called.since = next_cb.created
  <2> DEFINE j == job[t]
  <2>1. j \in Jobs
    BY <1>a
  <2>2. on_created_cbs \in SUBSET (1..MaxCbs) /\ next_cb.created \in 0..MaxCbs
    BY <1>a
  <2> HIDE DEF j
  <2>3. /\ [j EXCEPT !.todo = on_created_cbs, !.since = next_cb.created] \in Jobs
        /\ [j EXCEPT !.todo = on_created_cbs, !.since = next_cb.created].id = j.id
        /\ [j EXCEPT !.todo = on_created_cbs, !.since = next_cb.created].todo = on_created_cbs
        /\ [j EXCEPT !.todo = on_created_cbs, !.since = next_cb.created].since = next_cb.created
    BY <2>1, <2>2 DEF Jobs
  <2> QED  BY <2>3 DEF j
<1>c. \/ /\ pc' = [pc EXCEPT ![t] = "creating"]
         /\ job' = [job EXCEPT ![t] = called]
      \/ /\ pc' = [pc EXCEPT ![t] = "idle"]
         /\ job' = [job EXCEPT ![t] = NoJob]
  BY <1>a DEF NotifyCreated, Jobs
<1> HIDE DEF called
<1>d. UNCHANGED <<ids, quiddities, cbVars, alive, locked, inserted, failed,
                  announced>>
  BY DEF NotifyCreated
<1>e. pc[t] = "quiet"
  BY DEF NotifyCreated
<1>1. TypeOK'
  <2>1. t \in Threads /\ "creating" \in Places /\ "idle" \in Places
    BY DEF Places
  <2>2. job' \in [Threads -> Jobs] /\ pc' \in [Threads -> Places]
    BY <2>1, <1>a, <1>b, <1>c, NoJobTyped, ThreadMoves
  <2> QED  BY <2>2, <1>d DEF IInv, TypeOK
<1>2. IdsInOrder'
  BY <1>d DEF IInv, IdsInOrder
<1>3. Fresh'
  <2>1. \A u \in Users : pc'[u] = "constructing" =>
          pc[u] = "constructing" /\ job'[u] = job[u]
    BY <1>a, <1>c, <1>e
  <2> QED  BY <2>1, <1>d DEF IInv, Fresh
<1>4. Locks'
  BY SMTT(30), <1>a, <1>b, <1>c, <1>d, <1>e DEF IInv, Locks, TypeOK
<1>5. RemovalPending'
  BY <1>a, <1>b, <1>c, <1>d, <1>e DEF IInv, RemovalPending
<1>6. CreationPending'
  <2>1. \A u \in Threads : u # t => pc'[u] = pc[u] /\ job'[u] = job[u]
    BY <1>a, <1>c
  <2>2. pc'[t] \in {"creating", "in_created_cb"} =>
          /\ job'[t] = called
          /\ pc'[t] # "erasing"
    BY <1>a, <1>c, <1>e
  <2>3. pc'[t] # "erasing"
    BY <1>a, <1>c
  <2>4. called.since <= next_cb.created /\ on_created_cbs = called.todo
    BY <1>a, <1>b
  <2>5. UNCHANGED <<on_created_cbs, next_cb, announced>>
    BY <1>d
  <2> QED  BY <2>1, <2>2, <2>3, <2>4, <2>5 DEF IInv, CreationPending
<1>7. RemovingKnown'
  BY <1>a, <1>b, <1>c, <1>d, <1>e DEF IInv, RemovingKnown
<1> QED  BY <1>1, <1>2, <1>3, <1>4, <1>5, <1>6, <1>7 DEF IInv

\* CallCreated preserves the invariant.
LEMMA CallCreatedInv ==
  ASSUME IInv, NEW t \in Users, CallCreated(t)
  PROVE  IInv'
<1>j. job' \in [Threads -> Jobs]
  <2>1. job \in [Threads -> Jobs]
    BY DEF IInv, TypeOK
  <2> QED  BY <2>1, CallbacksTyped, NoJobTyped DEF IInv, Jobs, CallCreated
<1>k. job[t].id \in 0..IdMax /\ job[t].todo \subseteq 1..MaxCbs
  BY DEF IInv, TypeOK, Jobs
<1>1. TypeOK'
  <2>1. pc' \in [Threads -> Places]
    BY DEF IInv, TypeOK, Places, CallCreated
  <2>2. announced' \subseteq {"created", "removed"} \X (1..MaxCbs) \X (0..IdMax)
    BY <1>k DEF IInv, TypeOK, CallCreated
  <2> QED  BY <1>j, <2>1, <2>2 DEF IInv, TypeOK, CallCreated
<1>2. IdsInOrder'
  BY DEF IInv, IdsInOrder, CallCreated
<1>3. Fresh'
  BY DEF IInv, Fresh, TypeOK, CallCreated
<1>4. Locks'
  BY DEF IInv, Locks, TypeOK, CallCreated
<1>5. RemovalPending'
  BY DEF IInv, RemovalPending, TypeOK, CallCreated
<1>6. CreationPending'
  BY DEF IInv, CreationPending, TypeOK, CallCreated
<1>7. RemovingKnown'
  BY DEF IInv, RemovingKnown, TypeOK, CallCreated
<1> QED  BY <1>1, <1>2, <1>3, <1>4, <1>5, <1>6, <1>7 DEF IInv

\* CreatedCbReturns preserves the invariant.
LEMMA CreatedCbReturnsInv ==
  ASSUME IInv, NEW t \in Users, CreatedCbReturns(t)
  PROVE  IInv'
<1>j. job' \in [Threads -> Jobs]
  <2>1. job \in [Threads -> Jobs]
    BY DEF IInv, TypeOK
  <2> QED  BY <2>1, CallbacksTyped, NoJobTyped DEF IInv, Jobs, CreatedCbReturns, CreatedLeftToCall
<1>1. TypeOK'
  BY <1>j DEF IInv, TypeOK, Places, CreatedCbReturns, CreatedLeftToCall
<1>2. IdsInOrder'
  BY DEF IInv, IdsInOrder, CreatedCbReturns, CreatedLeftToCall
<1>3. Fresh'
  BY DEF IInv, Fresh, TypeOK, CreatedCbReturns, CreatedLeftToCall
<1>4. Locks'
  BY DEF IInv, Locks, TypeOK, CreatedCbReturns, CreatedLeftToCall
<1>5. RemovalPending'
  BY DEF IInv, RemovalPending, TypeOK, CreatedCbReturns, CreatedLeftToCall
<1>6. CreationPending'
  BY DEF IInv, CreationPending, TypeOK, CreatedCbReturns, CreatedLeftToCall
<1>7. RemovingKnown'
  BY DEF IInv, RemovingKnown, TypeOK, CreatedCbReturns, CreatedLeftToCall
<1> QED  BY <1>1, <1>2, <1>3, <1>4, <1>5, <1>6, <1>7 DEF IInv

\* CreateReturns preserves the invariant.
LEMMA CreateReturnsInv ==
  ASSUME IInv, NEW t \in Users, CreateReturns(t)
  PROVE  IInv'
<1>1. TypeOK'
  BY NoJobTyped DEF IInv, TypeOK, Places, CreateReturns
<1>2. IdsInOrder'
  BY DEF IInv, IdsInOrder, NoJob, CreateReturns
<1>3. Fresh'
  BY DEF IInv, Fresh, TypeOK, NoJob, CreateReturns
<1>4. Locks'
  BY DEF IInv, Locks, TypeOK, NoJob, CreateReturns
<1>5. RemovalPending'
  BY DEF IInv, RemovalPending, TypeOK, NoJob, CreateReturns
<1>6. CreationPending'
  BY DEF IInv, CreationPending, TypeOK, NoJob, CreateReturns
<1>7. RemovingKnown'
  BY DEF IInv, RemovingKnown, TypeOK, NoJob, CreateReturns
<1> QED  BY <1>1, <1>2, <1>3, <1>4, <1>5, <1>6, <1>7 DEF IInv

\* BeginRemove preserves the invariant.
LEMMA BeginRemoveInv ==
  ASSUME IInv, NEW t \in Users, NEW id \in inserted \cup {MaxCreated + 1},
    BeginRemove(t, id)
  PROVE  IInv'
<1>a. id \in 0..IdMax
  BY DEF IInv, TypeOK, kMaxNumOfIds
<1> DEFINE j == [NoJob EXCEPT !.id = id, !.todo = on_removed_cbs,
                            !.since = next_cb.removed]
<1>b. j \in Jobs /\ j.id = id
      /\ j.todo = on_removed_cbs /\ j.since = next_cb.removed
  BY <1>a, NoJobTyped, CallbacksTyped DEF IInv, Jobs, NoJob
<1>c. job' = [job EXCEPT ![t] = j]
  BY DEF BeginRemove
<1> HIDE DEF j
<1>1. TypeOK'
  <2>1. /\ pc \in [Threads -> Places] /\ job \in [Threads -> Jobs]
        /\ t \in Threads /\ "removing" \in Places
    BY DEF IInv, TypeOK, Places
  <2>2. job' \in [Threads -> Jobs] /\ pc' \in [Threads -> Places]
    BY <2>1, <1>b, <1>c, ThreadMoves DEF BeginRemove
  <2> QED  BY <2>2 DEF IInv, TypeOK, BeginRemove
<1>2. IdsInOrder'
  BY DEF IInv, IdsInOrder, NoJob, BeginRemove
<1>3. Fresh'
  BY <1>a, <1>b, <1>c DEF IInv, Fresh, TypeOK, NoJob, BeginRemove
<1>4. Locks'
  BY <1>a, <1>b, <1>c DEF IInv, Locks, TypeOK, NoJob, BeginRemove
<1>5. RemovalPending'
  BY <1>a, <1>b, <1>c, CallbacksTyped DEF IInv, RemovalPending, TypeOK, NoJob,
    BeginRemove
<1>6. CreationPending'
  BY <1>a, <1>b, <1>c DEF IInv, CreationPending, TypeOK, NoJob, BeginRemove
<1>7. RemovingKnown'
  BY <1>a, <1>b, <1>c DEF IInv, RemovingKnown, TypeOK, NoJob, BeginRemove
<1> QED  BY <1>1, <1>2, <1>3, <1>4, <1>5, <1>6, <1>7 DEF IInv

\* SelfDestruct preserves the invariant.
LEMMA SelfDestructInv ==
  ASSUME IInv, NEW d \in Detached, NEW id \in alive, SelfDestruct(d, id)
  PROVE  IInv'
<1>a. id \in 0..IdMax
  BY DEF IInv, TypeOK, kMaxNumOfIds
<1> DEFINE j == [NoJob EXCEPT !.id = id]
<1>b. j \in Jobs /\ j.id = id
  BY <1>a, NoJobTyped, CallbacksTyped DEF IInv, Jobs, NoJob
<1>c. job' = [job EXCEPT ![d] = j]
  BY DEF SelfDestruct
<1> HIDE DEF j
<1>1. TypeOK'
  <2>1. /\ pc \in [Threads -> Places] /\ job \in [Threads -> Jobs]
        /\ d \in Threads /\ "spawned" \in Places
    BY DEF IInv, TypeOK, Places
  <2>2. job' \in [Threads -> Jobs] /\ pc' \in [Threads -> Places]
    BY <2>1, <1>b, <1>c, ThreadMoves DEF SelfDestruct
  <2> QED  BY <2>2, <1>a DEF IInv, TypeOK, SelfDestruct
<1>2. IdsInOrder'
  BY DEF IInv, IdsInOrder, NoJob, SelfDestruct
<1>3. Fresh'
  BY <1>a, <1>b, <1>c DEF IInv, Fresh, TypeOK, NoJob, SelfDestruct
<1>4. Locks'
  <2>1. /\ \A e \in Detached : e # d => pc'[e] = pc[e] /\ job'[e] = job[e]
        /\ job'[d] = j /\ j.id = id
    BY <1>b, <1>c DEF IInv, TypeOK, SelfDestruct
  <2>2. id \notin locked /\ locked' = locked \cup {id}
        /\ id \in alive \cap inserted
    BY DEF IInv, Fresh, SelfDestruct
  <2> QED  BY <2>1, <2>2 DEF IInv, Locks, SelfDestruct
<1>5. RemovalPending'
  BY <1>a, <1>b, <1>c DEF IInv, RemovalPending, TypeOK, NoJob, SelfDestruct
<1>6. CreationPending'
  BY <1>a, <1>b, <1>c DEF IInv, CreationPending, TypeOK, NoJob, SelfDestruct
<1>7. RemovingKnown'
  BY <1>a, <1>b, <1>c DEF IInv, RemovingKnown, TypeOK, Fresh, NoJob,
    SelfDestruct
<1> QED  BY <1>1, <1>2, <1>3, <1>4, <1>5, <1>6, <1>7 DEF IInv

\* ThreadStarts preserves the invariant.
LEMMA ThreadStartsInv ==
  ASSUME IInv, NEW d \in Detached, ThreadStarts(d)
  PROVE  IInv'
<1>1. TypeOK'
  BY DEF IInv, TypeOK, Places, ThreadStarts, LockedOnceStarted
<1>2. IdsInOrder'
  BY DEF IInv, IdsInOrder, ThreadStarts, LockedOnceStarted
<1>3. Fresh'
  BY DEF IInv, Fresh, TypeOK, ThreadStarts, LockedOnceStarted
<1>4. Locks'
  BY DEF IInv, Locks, TypeOK, ThreadStarts, LockedOnceStarted
<1>5. RemovalPending'
  BY DEF IInv, RemovalPending, TypeOK, ThreadStarts, LockedOnceStarted
<1>6. CreationPending'
  BY DEF IInv, CreationPending, TypeOK, ThreadStarts, LockedOnceStarted
<1>7. RemovingKnown'
  BY DEF IInv, RemovingKnown, TypeOK, ThreadStarts, LockedOnceStarted
<1> QED  BY <1>1, <1>2, <1>3, <1>4, <1>5, <1>6, <1>7 DEF IInv

\* ThreadRemoves preserves the invariant.
LEMMA ThreadRemovesInv ==
  ASSUME IInv, NEW d \in Detached, ThreadRemoves(d)
  PROVE  IInv'
<1> DEFINE called == [job[d] EXCEPT !.todo = on_removed_cbs,
                               !.since = next_cb.removed]
<1>a. /\ job \in [Threads -> Jobs] /\ pc \in [Threads -> Places]
      /\ on_removed_cbs \in SUBSET (1..MaxCbs) /\ next_cb.removed \in 0..MaxCbs
  BY CallbacksTyped DEF IInv, TypeOK
<1>b. /\ called \in Jobs /\ called.id = job[d].id
      /\ called.todo = on_removed_cbs /\ called.since = next_cb.removed
  <2> DEFINE j == job[d]
  <2>1. j \in Jobs
    BY <1>a
  <2>2. on_removed_cbs \in SUBSET (1..MaxCbs) /\ next_cb.removed \in 0..MaxCbs
    BY <1>a
  <2> HIDE DEF j
  <2>3. /\ [j EXCEPT !.todo = on_removed_cbs, !.since = next_cb.removed] \in Jobs
        /\ [j EXCEPT !.todo = on_removed_cbs, !.since = next_cb.removed].id = j.id
        /\ [j EXCEPT !.todo = on_removed_cbs, !.since = next_cb.removed].todo = on_removed_cbs
        /\ [j EXCEPT !.todo = on_removed_cbs, !.since = next_cb.removed].since = next_cb.removed
    BY <2>1, <2>2 DEF Jobs
  <2> QED  BY <2>3 DEF j
<1>c. \/ /\ pc' = [pc EXCEPT ![d] = "removing"]
         /\ job' = [job EXCEPT ![d] = called]
      \/ /\ pc' = [pc EXCEPT ![d] = "undefined"] /\ UNCHANGED job
  BY <1>a DEF ThreadRemoves, Jobs
<1> HIDE DEF called
<1>d. UNCHANGED <<ids, quiddities, cbVars, alive, locked, inserted, failed,
                  announced>>
  BY DEF ThreadRemoves
<1>e. pc[d] = "started"
  BY DEF ThreadRemoves
<1>1. TypeOK'
  <2>1. job' \in [Threads -> Jobs] /\ pc' \in [Threads -> Places]
    BY <1>a, <1>b, <1>c DEF Places
  <2> QED  BY <2>1, <1>d DEF IInv, TypeOK
<1>2. IdsInOrder'
  BY <1>d DEF IInv, IdsInOrder
<1>3. Fresh'
  <2>1. \A u \in Users : pc'[u] = "constructing" =>
          pc[u] = "constructing" /\ job'[u] = job[u]
    BY <1>a, <1>c, <1>e
  <2> QED  BY <2>1, <1>d DEF IInv, Fresh
<1>4. Locks'
  <2>1. \A e \in Detached : pc'[e] = "spawned" =>
          pc[e] = "spawned" /\ job'[e] = job[e]
    BY <1>a, <1>c
  <2> QED  BY <2>1, <1>d DEF IInv, Locks
<1>5. RemovalPending'
  <2>1. \A u \in Threads : u # d => pc'[u] = pc[u] /\ job'[u] = job[u]
    BY <1>a, <1>c
  <2>2. pc'[d] \in {"removing", "in_removed_cb", "erasing"} =>
          /\ job'[d] = called
          /\ pc'[d] # "erasing"
    BY <1>a, <1>c, <1>e
  <2>3. pc'[d] # "erasing"
    BY <1>a, <1>c
  <2>4. called.since <= next_cb.removed /\ on_removed_cbs = called.todo
    BY <1>a, <1>b
  <2>5. UNCHANGED <<on_removed_cbs, next_cb, announced>>
    BY <1>d
  <2> QED  BY <2>1, <2>2, <2>3, <2>4, <2>5 DEF IInv, RemovalPending
<1>6. CreationPending'
  BY <1>a, <1>b, <1>c, <1>d, <1>e DEF IInv, CreationPending
<1>7. RemovingKnown'
  BY <1>a, <1>b, <1>c, <1>d, <1>e DEF IInv, RemovingKnown
<1> QED  BY <1>1, <1>2, <1>3, <1>4, <1>5, <1>6, <1>7 DEF IInv

\* QuietRemove preserves the invariant.
LEMMA QuietRemoveInv ==
  ASSUME IInv, NEW t \in Threads, QuietRemove(t)
  PROVE  IInv'
<1>a. job \in [Threads -> Jobs] /\ pc \in [Threads -> Places]
  BY DEF IInv, TypeOK
<1>b. GoodIds(ids) /\ GoodIds(ids') /\ ids'.cur = ids.cur
  BY ReleaseTakesId DEF IInv, IdsInOrder, QuietRemove, is_allocated
<1>c. \/ /\ quiddities' = [q \in DOMAIN quiddities \ {job[t].id} |->
                             quiddities[q]]
         /\ pc' = [pc EXCEPT ![t] = "destroying"] /\ UNCHANGED job
      \/ /\ pc' = [pc EXCEPT ![t] = "idle"]
         /\ job' = [job EXCEPT ![t] = NoJob] /\ UNCHANGED quiddities
  BY DEF QuietRemove
<1>d. UNCHANGED <<cbVars, alive, locked, inserted, failed, announced>>
  BY DEF QuietRemove
<1>e. pc[t] = "erasing"
  BY DEF QuietRemove
<1>1. TypeOK'
  <2>1. ids' \in [ids : Seq(1..IdMax), cur : 0..IdMax]
    BY <1>b DEF GoodIds
  <2>2. /\ quiddities' \in [DOMAIN quiddities' -> Nicknames]
        /\ DOMAIN quiddities' \subseteq 0..IdMax
    BY <1>c DEF IInv, TypeOK
  <2>3. job' \in [Threads -> Jobs] /\ pc' \in [Threads -> Places]
    BY <1>a, <1>c, NoJobTyped DEF Places
  <2> QED  BY <2>1, <2>2, <2>3, <1>d DEF IInv, TypeOK
<1>2. IdsInOrder'
  BY <1>b DEF IInv, IdsInOrder
<1>3. Fresh'
  <2>1. \A u \in Users : pc'[u] = "constructing" =>
          pc[u] = "constructing" /\ job'[u] = job[u]
    BY <1>a, <1>c, <1>e
  <2>2. DOMAIN quiddities' \subseteq DOMAIN quiddities
    BY <1>c
  <2> QED  BY <2>1, <2>2, <1>b, <1>d DEF IInv, Fresh
<1>4. Locks'
  BY <1>a, <1>b, <1>c, <1>d, <1>e DEF IInv, Locks, TypeOK
<1>5. RemovalPending'
  BY <1>a, <1>b, <1>c, <1>d, <1>e DEF IInv, RemovalPending
<1>6. CreationPending'
  BY <1>a, <1>b, <1>c, <1>d, <1>e DEF IInv, CreationPending
<1>7. RemovingKnown'
  BY <1>a, <1>c, <1>d, <1>e DEF IInv, RemovingKnown
<1> QED  BY <1>1, <1>2, <1>3, <1>4, <1>5, <1>6, <1>7 DEF IInv

\* Destroyed preserves the invariant.
LEMMA DestroyedInv ==
  ASSUME IInv, NEW t \in Threads, Destroyed(t)
  PROVE  IInv'
<1>1. TypeOK'
  BY NoJobTyped DEF IInv, TypeOK, Places, Destroyed, MutexFree
<1>2. IdsInOrder'
  BY DEF IInv, IdsInOrder, NoJob, Destroyed, MutexFree
<1>3. Fresh'
  BY DEF IInv, Fresh, TypeOK, NoJob, Destroyed, MutexFree
<1>4. Locks'
  BY DEF IInv, Locks, TypeOK, NoJob, Destroyed, MutexFree
<1>5. RemovalPending'
  BY DEF IInv, RemovalPending, TypeOK, NoJob, Destroyed, MutexFree
<1>6. CreationPending'
  BY DEF IInv, CreationPending, TypeOK, NoJob, Destroyed, MutexFree
<1>7. RemovingKnown'
  BY DEF IInv, RemovingKnown, TypeOK, NoJob, Destroyed, MutexFree
<1> QED  BY <1>1, <1>2, <1>3, <1>4, <1>5, <1>6, <1>7 DEF IInv

\* CallRemoved preserves the invariant.
LEMMA CallRemovedInv ==
  ASSUME IInv, NEW t \in Threads, CallRemoved(t)
  PROVE  IInv'
<1>j. job' \in [Threads -> Jobs]
  <2>1. job \in [Threads -> Jobs]
    BY DEF IInv, TypeOK
  <2> QED  BY <2>1, CallbacksTyped, NoJobTyped DEF IInv, Jobs, CallRemoved
<1>k. job[t].id \in 0..IdMax /\ job[t].todo \subseteq 1..MaxCbs
  BY DEF IInv, TypeOK, Jobs
<1>1. TypeOK'
  <2>1. pc' \in [Threads -> Places]
    BY DEF IInv, TypeOK, Places, CallRemoved
  <2>2. announced' \subseteq {"created", "removed"} \X (1..MaxCbs) \X (0..IdMax)
    BY <1>k DEF IInv, TypeOK, CallRemoved
  <2> QED  BY <1>j, <2>1, <2>2 DEF IInv, TypeOK, CallRemoved
<1>2. IdsInOrder'
  BY DEF IInv, IdsInOrder, CallRemoved
<1>3. Fresh'
  BY DEF IInv, Fresh, TypeOK, CallRemoved
<1>4. Locks'
  BY DEF IInv, Locks, TypeOK, CallRemoved
<1>5. RemovalPending'
  BY DEF IInv, RemovalPending, TypeOK, CallRemoved
<1>6. CreationPending'
  BY DEF IInv, CreationPending, TypeOK, CallRemoved
<1>7. RemovingKnown'
  BY DEF IInv, RemovingKnown, TypeOK, CallRemoved
<1> QED  BY <1>1, <1>2, <1>3, <1>4, <1>5, <1>6, <1>7 DEF IInv

\* RemovedCbReturns preserves the invariant.
LEMMA RemovedCbReturnsInv ==
  ASSUME IInv, NEW t \in Threads, RemovedCbReturns(t)
  PROVE  IInv'
<1>j. job' \in [Threads -> Jobs]
  <2>1. job \in [Threads -> Jobs]
    BY DEF IInv, TypeOK
  <2> QED  BY <2>1, CallbacksTyped, NoJobTyped DEF IInv, Jobs, RemovedCbReturns, LeftToCall
<1>1. TypeOK'
  BY <1>j DEF IInv, TypeOK, Places, RemovedCbReturns, LeftToCall
<1>2. IdsInOrder'
  BY DEF IInv, IdsInOrder, RemovedCbReturns, LeftToCall
<1>3. Fresh'
  BY DEF IInv, Fresh, TypeOK, RemovedCbReturns, LeftToCall
<1>4. Locks'
  BY DEF IInv, Locks, TypeOK, RemovedCbReturns, LeftToCall
<1>5. RemovalPending'
  BY DEF IInv, RemovalPending, TypeOK, RemovedCbReturns, LeftToCall
<1>6. CreationPending'
  BY DEF IInv, CreationPending, TypeOK, RemovedCbReturns, LeftToCall
<1>7. RemovingKnown'
  BY DEF IInv, RemovingKnown, TypeOK, RemovedCbReturns, LeftToCall
<1> QED  BY <1>1, <1>2, <1>3, <1>4, <1>5, <1>6, <1>7 DEF IInv

\* AllCalled preserves the invariant.
LEMMA AllCalledInv ==
  ASSUME IInv, NEW t \in Threads, AllCalled(t)
  PROVE  IInv'
<1>1. TypeOK'
  BY DEF IInv, TypeOK, Places, AllCalled
<1>2. IdsInOrder'
  BY DEF IInv, IdsInOrder, AllCalled
<1>3. Fresh'
  BY DEF IInv, Fresh, TypeOK, AllCalled
<1>4. Locks'
  BY DEF IInv, Locks, TypeOK, AllCalled
<1>5. RemovalPending'
  BY DEF IInv, RemovalPending, TypeOK, AllCalled
<1>6. CreationPending'
  BY DEF IInv, CreationPending, TypeOK, AllCalled
<1>7. RemovingKnown'
  BY DEF IInv, RemovingKnown, TypeOK, AllCalled
<1> QED  BY <1>1, <1>2, <1>3, <1>4, <1>5, <1>6, <1>7 DEF IInv

\* register_creation_cb preserves the invariant.
LEMMA register_creation_cbInv ==
  ASSUME IInv, register_creation_cb
  PROVE  IInv'
<1>0. next_cb \in [{"created", "removed"} -> 0..MaxCbs]
  BY DEF IInv, TypeOK
<1>a. /\ next_cb.created \in Nat /\ next_cb.created + 1 \in 1..MaxCbs
      /\ next_cb'.created = next_cb.created + 1
      /\ next_cb'.removed = next_cb.removed
      /\ next_cb' \in [{"created", "removed"} -> 0..MaxCbs]
  BY <1>0 DEF register_creation_cb
<1>b. on_created_cbs' = on_created_cbs \cup {next_cb.created + 1}
  BY DEF register_creation_cb
<1>c. \A t \in Threads : job[t].since \in Nat
  BY DEF IInv, TypeOK, Jobs
<1>1. TypeOK'
  <2>1. on_created_cbs' \subseteq 1..next_cb'.created
    <3>1. on_created_cbs \subseteq 1..next_cb.created
      BY DEF IInv, TypeOK
    <3>2. \A n \in Nat : 1..n \cup {n + 1} \subseteq 1..(n + 1)
      OBVIOUS
    <3> QED  BY <3>1, <3>2, <1>a, <1>b
  <2> QED  BY <2>1, <1>a DEF IInv, TypeOK, register_creation_cb, noCallVars
<1>2. IdsInOrder'
  BY DEF IInv, IdsInOrder, register_creation_cb, noCallVars
<1>3. Fresh'
  BY DEF IInv, Fresh, TypeOK, register_creation_cb, noCallVars
<1>4. Locks'
  BY DEF IInv, Locks, TypeOK, register_creation_cb, noCallVars
<1>5. RemovalPending'
  BY <1>a DEF IInv, RemovalPending, TypeOK, register_creation_cb, noCallVars
<1>6. CreationPending'
  <2>1. UNCHANGED <<pc, job, announced>>
    BY DEF register_creation_cb, noCallVars
  <2>2. \A t \in Threads :
          job[t].since <= next_cb.created =>
            /\ job[t].since <= next_cb.created + 1
            /\ ~(next_cb.created + 1 <= job[t].since)
    BY <1>a, <1>c
  <2> QED  BY <1>a, <1>b, <2>1, <2>2 DEF IInv, CreationPending
<1>7. RemovingKnown'
  BY DEF IInv, RemovingKnown, TypeOK, register_creation_cb, noCallVars
<1> QED  BY <1>1, <1>2, <1>3, <1>4, <1>5, <1>6, <1>7 DEF IInv

\* register_removal_cb preserves the invariant.
LEMMA register_removal_cbInv ==
  ASSUME IInv, register_removal_cb
  PROVE  IInv'
<1>0. next_cb \in [{"created", "removed"} -> 0..MaxCbs]
  BY DEF IInv, TypeOK
<1>a. /\ next_cb.removed \in Nat /\ next_cb.removed + 1 \in 1..MaxCbs
      /\ next_cb'.removed = next_cb.removed + 1
      /\ next_cb'.created = next_cb.created
      /\ next_cb' \in [{"created", "removed"} -> 0..MaxCbs]
  BY <1>0 DEF register_removal_cb
<1>b. on_removed_cbs' = on_removed_cbs \cup {next_cb.removed + 1}
  BY DEF register_removal_cb
<1>c. \A t \in Threads : job[t].since \in Nat
  BY DEF IInv, TypeOK, Jobs
<1>1. TypeOK'
  <2>1. on_removed_cbs' \subseteq 1..next_cb'.removed
    <3>1. on_removed_cbs \subseteq 1..next_cb.removed
      BY DEF IInv, TypeOK
    <3>2. \A n \in Nat : 1..n \cup {n + 1} \subseteq 1..(n + 1)
      OBVIOUS
    <3> QED  BY <3>1, <3>2, <1>a, <1>b
  <2> QED  BY <2>1, <1>a DEF IInv, TypeOK, register_removal_cb, noCallVars
<1>2. IdsInOrder'
  BY DEF IInv, IdsInOrder, register_removal_cb, noCallVars
<1>3. Fresh'
  BY DEF IInv, Fresh, TypeOK, register_removal_cb, noCallVars
<1>4. Locks'
  BY DEF IInv, Locks, TypeOK, register_removal_cb, noCallVars
<1>5. RemovalPending'
  <2>1. UNCHANGED <<pc, job, announced>>
    BY DEF register_removal_cb, noCallVars
  <2>2. \A t \in Threads :
          job[t].since <= next_cb.removed =>
            /\ job[t].since <= next_cb.removed + 1
            /\ ~(next_cb.removed + 1 <= job[t].since)
    BY <1>a, <1>c
  <2> QED  BY <1>a, <1>b, <2>1, <2>2 DEF IInv, RemovalPending
<1>6. CreationPending'
  BY <1>a DEF IInv, CreationPending, TypeOK, register_removal_cb, noCallVars
<1>7. RemovingKnown'
  BY DEF IInv, RemovingKnown, TypeOK, register_removal_cb, noCallVars
<1> QED  BY <1>1, <1>2, <1>3, <1>4, <1>5, <1>6, <1>7 DEF IInv

\* unregister_creation_cb preserves the invariant.
LEMMA unregister_creation_cbInv ==
  ASSUME IInv, NEW cb \in on_created_cbs, unregister_creation_cb(cb)
  PROVE  IInv'
<1>1. TypeOK'
  BY DEF IInv, TypeOK, unregister_creation_cb, noCallVars
<1>2. IdsInOrder'
  BY DEF IInv, IdsInOrder, unregister_creation_cb, noCallVars
<1>3. Fresh'
  BY DEF IInv, Fresh, TypeOK, unregister_creation_cb, noCallVars
<1>4. Locks'
  BY DEF IInv, Locks, TypeOK, unregister_creation_cb, noCallVars
<1>5. RemovalPending'
  BY DEF IInv, RemovalPending, TypeOK, unregister_creation_cb, noCallVars
<1>6. CreationPending'
  BY DEF IInv, CreationPending, TypeOK, unregister_creation_cb, noCallVars
<1>7. RemovingKnown'
  BY DEF IInv, RemovingKnown, TypeOK, unregister_creation_cb, noCallVars
<1> QED  BY <1>1, <1>2, <1>3, <1>4, <1>5, <1>6, <1>7 DEF IInv

\* unregister_removal_cb preserves the invariant.
LEMMA unregister_removal_cbInv ==
  ASSUME IInv, NEW cb \in on_removed_cbs, unregister_removal_cb(cb)
  PROVE  IInv'
<1>1. TypeOK'
  BY DEF IInv, TypeOK, unregister_removal_cb, noCallVars
<1>2. IdsInOrder'
  BY DEF IInv, IdsInOrder, unregister_removal_cb, noCallVars
<1>3. Fresh'
  BY DEF IInv, Fresh, TypeOK, unregister_removal_cb, noCallVars
<1>4. Locks'
  BY DEF IInv, Locks, TypeOK, unregister_removal_cb, noCallVars
<1>5. RemovalPending'
  BY DEF IInv, RemovalPending, TypeOK, unregister_removal_cb, noCallVars
<1>6. CreationPending'
  BY DEF IInv, CreationPending, TypeOK, unregister_removal_cb, noCallVars
<1>7. RemovingKnown'
  BY DEF IInv, RemovingKnown, TypeOK, unregister_removal_cb, noCallVars
<1> QED  BY <1>1, <1>2, <1>3, <1>4, <1>5, <1>6, <1>7 DEF IInv

\* reset_create_remove_cb preserves the invariant.
LEMMA reset_create_remove_cbInv ==
  ASSUME IInv, reset_create_remove_cb
  PROVE  IInv'
<1>1. TypeOK'
  BY DEF IInv, TypeOK, reset_create_remove_cb, noCallVars
<1>2. IdsInOrder'
  BY DEF IInv, IdsInOrder, reset_create_remove_cb, noCallVars
<1>3. Fresh'
  BY DEF IInv, Fresh, TypeOK, reset_create_remove_cb, noCallVars
<1>4. Locks'
  BY DEF IInv, Locks, TypeOK, reset_create_remove_cb, noCallVars
<1>5. RemovalPending'
  BY DEF IInv, RemovalPending, TypeOK, reset_create_remove_cb, noCallVars
<1>6. CreationPending'
  BY DEF IInv, CreationPending, TypeOK, reset_create_remove_cb, noCallVars
<1>7. RemovingKnown'
  BY DEF IInv, RemovingKnown, TypeOK, reset_create_remove_cb, noCallVars
<1> QED  BY <1>1, <1>2, <1>3, <1>4, <1>5, <1>6, <1>7 DEF IInv

\* A stuttering step preserves the invariant.
LEMMA StutterInv ==
  ASSUME IInv, UNCHANGED vars
  PROVE  IInv'
<1>1. TypeOK'
  BY DEF IInv, TypeOK, vars
<1>2. IdsInOrder'
  BY DEF IInv, IdsInOrder, vars
<1>3. Fresh'
  BY DEF IInv, Fresh, TypeOK, vars
<1>4. Locks'
  BY DEF IInv, Locks, TypeOK, vars
<1>5. RemovalPending'
  BY DEF IInv, RemovalPending, TypeOK, vars
<1>6. CreationPending'
  BY DEF IInv, CreationPending, TypeOK, vars
<1>7. RemovingKnown'
  BY DEF IInv, RemovingKnown, TypeOK, vars
<1> QED  BY <1>1, <1>2, <1>3, <1>4, <1>5, <1>6, <1>7 DEF IInv

-----------------------------------------------------------------------------
LEMMA InitInv == Init => IInv
<1> SUFFICES ASSUME Init PROVE IInv
  OBVIOUS
<1>1. GoodIds(ids) /\ ids.cur = 0
  BY NoIdsGood DEF Init, NoIds, kInvalid
<1>2. TypeOK
  <2>1. quiddities \in [DOMAIN quiddities -> Nicknames]
        /\ DOMAIN quiddities = {}
    BY DEF Init
  <2>2. job \in [Threads -> Jobs] /\ pc \in [Threads -> Places]
    BY NoJobTyped DEF Init, Places
  <2>3. ids \in [ids : Seq(1..IdMax), cur : 0..IdMax]
    BY <1>1 DEF GoodIds
  <2> QED  BY <2>1, <2>2, <2>3 DEF Init, TypeOK
<1>3. IdsInOrder /\ Fresh /\ Locks
  BY <1>1 DEF Init, IdsInOrder, Fresh, Locks
<1>4. RemovalPending /\ CreationPending /\ RemovingKnown
  BY DEF Init, RemovalPending, CreationPending, RemovingKnown
<1> QED  BY <1>2, <1>3, <1>4 DEF IInv

\* One case per action of the code.
LEMMA NextInv == IInv /\ [Next]_vars => IInv'
<1> SUFFICES ASSUME IInv, [Next]_vars PROVE IInv'
  OBVIOUS
<1>1. CASE \E t \in Users : Creation(t)
  BY <1>1, BeginCreateInv, CreateFailsInv, CreateSucceedsInv,
     NotifyCreatedInv, CallCreatedInv, CreatedCbReturnsInv, CreateReturnsInv
     DEF Creation
<1>2. CASE \E t \in Users : \E id \in inserted \cup {MaxCreated + 1} :
             BeginRemove(t, id)
  BY <1>2, BeginRemoveInv
<1>3. CASE \E d \in Detached : ThreadStarts(d) \/ ThreadRemoves(d)
  BY <1>3, ThreadStartsInv, ThreadRemovesInv
<1>4. CASE \E d \in Detached : \E id \in alive : SelfDestruct(d, id)
  BY <1>4, SelfDestructInv
<1>5. CASE \E t \in Threads : Removal(t)
  BY <1>5, CallRemovedInv, RemovedCbReturnsInv, AllCalledInv, QuietRemoveInv,
     DestroyedInv DEF Removal
<1>6. CASE Callbacks
  BY <1>6, register_creation_cbInv, register_removal_cbInv,
     unregister_creation_cbInv, unregister_removal_cbInv,
     reset_create_remove_cbInv DEF Callbacks
<1>7. CASE UNCHANGED vars
  BY <1>7, StutterInv
<1> QED  BY <1>1, <1>2, <1>3, <1>4, <1>5, <1>6, <1>7 DEF Next

\* The invariant holds in every reachable state.
THEOREM Invariance == Spec => []IInv
<1>1. Init => IInv  BY InitInv
<1>2. IInv /\ [Next]_vars => IInv'  BY NextInv
<1> QED  BY <1>1, <1>2, PTL DEF Spec

-----------------------------------------------------------------------------
(* The properties.                                                         *)

\* Every variable of the container keeps its type, whatever the number of
\* threads that create and remove at once.
THEOREM TypeCorrect == Spec => []TypeOK
<1>1. IInv => TypeOK  BY DEF IInv
<1> QED  BY <1>1, Invariance, PTL

\* A quiddity whose mutex has been handed to a detached thread that has not
\* started is not destroyed.
THEOREM HandoverSafe == Spec => []MutexOutlivesHandover
<1>1. IInv => MutexOutlivesHandover
  BY DEF IInv, Locks, MutexOutlivesHandover
<1> QED  BY <1>1, Invariance, PTL

\* An identifier that had a quiddity, or failed to have one, is never given to
\* another quiddity.
THEOREM NotRecycled == Spec => IdsNotRecycled
<1> DEFINE A == DOMAIN quiddities' \cap (inserted \cup failed)
                  \subseteq DOMAIN quiddities
<1>1. ASSUME IInv, [Next]_vars PROVE [A]_vars
  <2>1. CASE \E t \in Users : \E quiet \in BOOLEAN : CreateSucceeds(t, quiet)
    <3>1. PICK t \in Users : \E quiet \in BOOLEAN : CreateSucceeds(t, quiet)
      BY <2>1
    <3>2. job[t].id \notin inserted \cup failed
      BY <1>1, <3>1 DEF IInv, Fresh, CreateSucceeds
    <3>3. DOMAIN quiddities' = DOMAIN quiddities \cup {job[t].id}
      BY <3>1 DEF CreateSucceeds
    <3> QED  BY <3>2, <3>3
  <2>2. CASE \E t \in Threads : QuietRemove(t)
    BY <2>2 DEF QuietRemove
  <2>3. CASE /\ ~\E t \in Users : \E quiet \in BOOLEAN :
                   CreateSucceeds(t, quiet)
             /\ ~\E t \in Threads : QuietRemove(t)
    <3>1. UNCHANGED quiddities
      BY <1>1, <2>3 DEF Next, vars, Creation, Removal, Callbacks, BeginCreate,
         CreateFails, NotifyCreated, CallCreated, CreatedCbReturns,
         CreateReturns, BeginRemove, SelfDestruct, ThreadStarts, ThreadRemoves,
         CallRemoved, RemovedCbReturns, AllCalled, Destroyed,
         register_creation_cb, register_removal_cb, unregister_creation_cb,
         unregister_removal_cb, reset_create_remove_cb, noCallVars
    <3> QED  BY <3>1
  <2> QED  BY <2>1, <2>2, <2>3
<1>2. Spec => [][A]_vars
  BY <1>1, Invariance, PTL DEF Spec
<1> QED  BY <1>2 DEF IdsNotRecycled

\* Only quiet_remove takes a quiddity out of the map.
LEMMA OnlyQuietRemove ==
  ASSUME [Next]_vars, NEW id \in DOMAIN quiddities \ DOMAIN quiddities'
  PROVE  \E t \in Threads : pc[t] = "erasing" /\ job[t].id = id
<1>1. CASE \E t \in Threads : QuietRemove(t)
  BY <1>1 DEF QuietRemove
<1>2. CASE \E t \in Users : \E quiet \in BOOLEAN : CreateSucceeds(t, quiet)
  BY <1>2 DEF CreateSucceeds
<1>3. CASE /\ ~\E t \in Users : \E quiet \in BOOLEAN :
                 CreateSucceeds(t, quiet)
           /\ ~\E t \in Threads : QuietRemove(t)
  BY <1>3 DEF Next, vars, Creation, Removal, Callbacks, BeginCreate,
     CreateFails, NotifyCreated, CallCreated, CreatedCbReturns, CreateReturns,
     BeginRemove, SelfDestruct, ThreadStarts, ThreadRemoves, CallRemoved,
     RemovedCbReturns, AllCalled, Destroyed, register_creation_cb,
     register_removal_cb, unregister_creation_cb, unregister_removal_cb,
     reset_create_remove_cb, noCallVars
<1> QED  BY <1>1, <1>2, <1>3

\* No quiddity leaves the container before every callback that was registered
\* when its removal began, and still is, has been called.
THEOREM RemovalsAnnounced == Spec => RemovalAnnounced
<1> DEFINE A == \A id \in DOMAIN quiddities \ DOMAIN quiddities' :
                  \E t \in Threads :
                    /\ pc[t] = "erasing" /\ job[t].id = id
                    /\ \A cb \in on_removed_cbs :
                         cb <= job[t].since =>
                           <<"removed", cb, id>> \in announced
<1>1. ASSUME IInv, [Next]_vars PROVE [A]_vars
  <2> SUFFICES ASSUME NEW id \in DOMAIN quiddities \ DOMAIN quiddities'
               PROVE  \E t \in Threads :
                        /\ pc[t] = "erasing" /\ job[t].id = id
                        /\ \A cb \in on_removed_cbs :
                             cb <= job[t].since =>
                               <<"removed", cb, id>> \in announced
    OBVIOUS
  <2>1. PICK t \in Threads : pc[t] = "erasing" /\ job[t].id = id
    BY <1>1, OnlyQuietRemove
  <2> QED  BY <1>1, <2>1 DEF IInv, RemovalPending
<1>2. Spec => [][A]_vars
  BY <1>1, Invariance, PTL DEF Spec
<1> QED  BY <1>2 DEF RemovalAnnounced

\* create does not return before every callback that was registered when the
\* quiddity was inserted, and still is, has been called.
THEOREM CreationsAnnounced == Spec => CreationAnnounced
<1> DEFINE A == \A t \in Users :
                  pc[t] = "creating" /\ pc'[t] = "idle" =>
                    \A cb \in on_created_cbs :
                      cb <= job[t].since =>
                        <<"created", cb, job[t].id>> \in announced
<1>1. ASSUME IInv, [Next]_vars PROVE [A]_vars
  <2> SUFFICES ASSUME NEW t \in Users, pc[t] = "creating", pc'[t] = "idle"
               PROVE  \A cb \in on_created_cbs :
                        cb <= job[t].since =>
                          <<"created", cb, job[t].id>> \in announced
    OBVIOUS
  <2>1. job[t].todo = {}
    <3>1. pc \in [Threads -> Places]
      BY <1>1 DEF IInv, TypeOK
    <3>2. \A u \in Users : Creation(u) => u = t
      BY <3>1 DEF Creation, BeginCreate, CreateFails, CreateSucceeds,
         NotifyCreated, CallCreated, CreatedCbReturns, CreateReturns
    <3>3. \A u \in Threads, id \in inserted \cup {MaxCreated + 1} :
            ~BeginRemove(u, id) /\ ~Removal(u)
      BY <3>1 DEF BeginRemove, Removal, CallRemoved, RemovedCbReturns,
         AllCalled, QuietRemove, Destroyed
    <3>4. \A d \in Detached :
            ~ThreadStarts(d) /\ ~ThreadRemoves(d)
            /\ \A id \in alive : ~SelfDestruct(d, id)
      BY <3>1 DEF ThreadStarts, ThreadRemoves, SelfDestruct
    <3>5. ~Callbacks /\ ~UNCHANGED vars
      BY DEF Callbacks, register_creation_cb, register_removal_cb,
         unregister_creation_cb, unregister_removal_cb,
         reset_create_remove_cb, noCallVars, vars
    <3>6. Creation(t)
      BY <1>1, <3>2, <3>3, <3>4, <3>5 DEF Next
    <3>7. CreateReturns(t)
      BY <3>1, <3>6 DEF Creation, BeginCreate, CreateFails, CreateSucceeds,
         NotifyCreated, CallCreated, CreatedCbReturns
    <3> QED  BY <3>7 DEF CreateReturns
  <2> QED  BY <1>1, <2>1 DEF IInv, CreationPending
<1>2. Spec => [][A]_vars
  BY <1>1, Invariance, PTL DEF Spec
<1> QED  BY <1>2 DEF CreationAnnounced

-----------------------------------------------------------------------------
(* Several creating threads whose constructors succeed: the identifiers    *)
(* and the map agree although the creations interleave.                    *)

\* A step of create or of quiet_remove on the identifiers or the map.
TouchesIds ==
  \/ \E t \in Users : \/ \E raw \in Nicks \cup {NoNick} : BeginCreate(t, raw)
                       \/ CreateFails(t)
                       \/ \E quiet \in BOOLEAN : CreateSucceeds(t, quiet)
  \/ \E t \in Threads : QuietRemove(t)

\* The other steps touch neither the identifiers nor the constructors.
LEMMA OtherSteps ==
  ASSUME IInv, [Next]_vars, ~TouchesIds
  PROVE  /\ UNCHANGED <<ids, quiddities>>
         /\ \A u \in Users :
              /\ pc[u] = "constructing" <=> pc'[u] = "constructing"
              /\ pc[u] = "constructing" => job'[u] = job[u]
<1>0. pc \in [Threads -> Places] /\ job \in [Threads -> Jobs] /\ Users \subseteq Threads
  BY DEF IInv, TypeOK
<1>1. CASE \E t \in Users : NotifyCreated(t) \/ CallCreated(t)
             \/ CreatedCbReturns(t) \/ CreateReturns(t)
  BY <1>1, <1>0 DEF NotifyCreated, CallCreated, CreatedCbReturns,
     CreateReturns
<1>2. CASE \E t \in Users : \E id \in inserted \cup {MaxCreated + 1} :
             BeginRemove(t, id)
  BY <1>2, <1>0 DEF BeginRemove
<1>3. CASE \E d \in Detached : ThreadStarts(d) \/ ThreadRemoves(d)
  BY <1>3, <1>0 DEF ThreadStarts, ThreadRemoves
<1>4. CASE \E d \in Detached : \E id \in alive : SelfDestruct(d, id)
  BY <1>4, <1>0 DEF SelfDestruct
<1>5. CASE \E t \in Threads : CallRemoved(t) \/ RemovedCbReturns(t)
             \/ AllCalled(t) \/ Destroyed(t)
  BY <1>5, <1>0 DEF CallRemoved, RemovedCbReturns, AllCalled, Destroyed
<1>6. CASE Callbacks \/ UNCHANGED vars
  BY <1>6 DEF Callbacks, register_creation_cb, register_removal_cb,
     unregister_creation_cb, unregister_removal_cb,
     reset_create_remove_cb, noCallVars, vars
<1> QED  BY <1>1, <1>2, <1>3, <1>4, <1>5, <1>6
         DEF TouchesIds, Next, Creation, Removal

\* What is being erased is not under construction.
LEMMA RemovedNotConstructed ==
  ASSUME IInv, NEW t \in Threads, pc[t] = "erasing"
  PROVE  job[t].id \notin UnderConstruction
<1>1. job[t].id \in inserted \cup {MaxCreated + 1}
  BY DEF IInv, RemovingKnown
<1>2. \A u \in Users : pc[u] = "constructing" =>
        job[u].id \notin inserted /\ job[u].id # MaxCreated + 1
  BY DEF IInv, Fresh, IdsInOrder, GoodIds
<1> QED  BY <1>1, <1>2 DEF UnderConstruction

SetsAgree == Allocated(ids) = DOMAIN quiddities \cup UnderConstruction

\* Every step keeps the agreement when no constructor fails.
LEMMA SetsAgreeStep ==
  ASSUME MayFail = FALSE, IInv, SetsAgree, [Next]_vars
  PROVE  SetsAgree'
<1>a. GoodIds(ids) /\ pc \in [Threads -> Places] /\ job \in [Threads -> Jobs]
      /\ Users \subseteq Threads
  BY DEF IInv, IdsInOrder, TypeOK
<1>1. ASSUME NEW t \in Users, NEW raw \in Nicks \cup {NoNick},
             BeginCreate(t, raw)
      PROVE  SetsAgree'
  <2> DEFINE n == ids.cur + 1
             j == [NoJob EXCEPT !.id = n, !.nick = Nickname(raw, n)]
  <2>1. ids.cur < kMaxNumOfIds /\ ids.cur \in Nat /\ pc[t] = "idle"
    BY <1>1, <1>a DEF BeginCreate, GoodIds, kMaxNumOfIds
  <2>2. /\ allocate_id(ids) = n /\ n \in 1..IdMax /\ n \notin Allocated(ids)
        /\ GoodIds(AfterAllocate(ids))
        /\ AfterAllocate(ids).ids = Append(ids.ids, n)
        /\ Allocated(AfterAllocate(ids)) = Allocated(ids) \cup {n}
    BY <2>1, <1>a, AllocateAppends, NextIsSuccessor
  <2>3. /\ AfterAllocate(ids).ids # <<>>
        /\ AfterAllocate(ids).ids[Len(AfterAllocate(ids).ids)] = n
    BY <2>2, <1>a, AppendProperties DEF GoodIds
  <2>4. CASE Unavailable(raw)
    <3>1. ids' = AfterReleaseLast(AfterAllocate(ids))
          /\ UNCHANGED <<pc, job, quiddities>>
      BY <1>1, <2>4 DEF BeginCreate
    <3>2. Allocated(ids') = Allocated(AfterAllocate(ids)) \ {n}
      BY <3>1, <2>2, <2>3, ReleaseLastTakesLast
    <3> HIDE DEF n
    <3>3. Allocated(ids') = Allocated(ids)
      BY <3>2, <2>2
    <3> QED  BY <3>1, <3>3 DEF SetsAgree, UnderConstruction
  <2>5. CASE ~Unavailable(raw)
    <3>1. /\ ids' = AfterAllocate(ids) /\ UNCHANGED quiddities
          /\ pc' = [pc EXCEPT ![t] = "constructing"]
          /\ job' = [job EXCEPT ![t] = j]
      BY <1>1, <2>2, <2>5 DEF BeginCreate
    <3>2. j.id = n
      BY DEF NoJob
    <3> HIDE DEF j, n
    <3>3. /\ pc'[t] = "constructing" /\ job'[t].id = n
          /\ \A u \in Users \ {t} : pc'[u] = pc[u] /\ job'[u] = job[u]
      BY <3>1, <3>2, <1>a
    <3>4. UnderConstruction' = UnderConstruction \cup {n}
      BY <2>1, <3>3 DEF UnderConstruction
    <3> QED  BY <2>2, <3>1, <3>4 DEF SetsAgree
  <2> QED  BY <2>4, <2>5
<1>2. ASSUME NEW t \in Users, CreateFails(t)
      PROVE  SetsAgree'
  BY <1>2 DEF CreateFails
<1>3. ASSUME NEW t \in Users, NEW quiet \in BOOLEAN, CreateSucceeds(t, quiet)
      PROVE  SetsAgree'
  <2>1. /\ pc[t] = "constructing" /\ pc'[t] # "constructing" /\ UNCHANGED ids
        /\ DOMAIN quiddities' = DOMAIN quiddities \cup {job[t].id}
        /\ \A u \in Users \ {t} : pc'[u] = pc[u] /\ job'[u] = job[u]
    BY <1>3, <1>a DEF CreateSucceeds
  <2>2. UnderConstruction = UnderConstruction' \cup {job[t].id}
    BY <2>1 DEF UnderConstruction
  <2> QED  BY <2>1, <2>2 DEF SetsAgree
<1>4. ASSUME NEW t \in Threads, QuietRemove(t)
      PROVE  SetsAgree'
  <2>1. UnderConstruction' = UnderConstruction
    <3>1. \A u \in Users : /\ pc[u] = "constructing" <=> pc'[u] = "constructing"
                           /\ pc[u] = "constructing" => job'[u] = job[u]
      BY <1>4, <1>a DEF QuietRemove
    <3> QED  BY <3>1 DEF UnderConstruction
  <2>2. CASE ~is_allocated(ids, job[t].id)
    BY <1>4, <2>1, <2>2 DEF QuietRemove, SetsAgree
  <2>3. CASE is_allocated(ids, job[t].id)
    <3>1. /\ ids' = AfterRelease(ids, job[t].id)
          /\ DOMAIN quiddities' = DOMAIN quiddities \ {job[t].id}
      BY <1>4, <2>3 DEF QuietRemove
    <3>2. Allocated(ids') = Allocated(ids) \ {job[t].id}
      BY <2>3, <3>1, <1>a, ReleaseTakesId DEF is_allocated
    <3>3. job[t].id \notin UnderConstruction
      BY <1>4, RemovedNotConstructed DEF QuietRemove
    <3> QED  BY <2>1, <3>1, <3>2, <3>3 DEF SetsAgree
  <2> QED  BY <2>2, <2>3
<1>5. CASE ~TouchesIds
  <2>1. UnderConstruction' = UnderConstruction
    BY <1>5, OtherSteps DEF UnderConstruction
  <2> QED  BY <1>5, <2>1, OtherSteps DEF SetsAgree
<1> QED  BY <1>1, <1>2, <1>3, <1>4, <1>5 DEF TouchesIds

\* With any number of creating threads, creations refused for their nickname
\* and removals in between, the allocated identifiers are those of the
\* quiddities and of the ones under construction, as long as no constructor
\* fails (container.cpp:68-112).
THEOREM SeveralCreatorsIdsAgree ==
  ASSUME MayFail = FALSE
  PROVE  Spec => []IdsAgree
<1>1. Init => SetsAgree
  BY NoIdsGood DEF Init, SetsAgree, UnderConstruction
<1>2. IInv /\ SetsAgree /\ [Next]_vars => SetsAgree'
  BY SetsAgreeStep
<1>3. IInv /\ SetsAgree => IdsAgree
  <2>1. GoodIds(ids) => DOMAIN ids.ids = 1..Len(ids.ids)
    BY LenProperties DEF GoodIds
  <2> QED  BY <2>1 DEF IInv, IdsInOrder, GoodIds, SetsAgree, IdsAgree,
           NoDuplicate
<1> QED  BY <1>1, <1>2, <1>3, Invariance, PTL DEF Spec

-----------------------------------------------------------------------------
(* One creating thread: the identifiers and the map agree even when a      *)
(* constructor fails, because what release_last_allocated_id takes away is *)
(* then the identifier of the failed creation.                             *)

OneCreator == \A t, u \in Users : t = u

Agreement ==
  /\ Allocated(ids) = DOMAIN quiddities \cup UnderConstruction
  /\ \A t \in Users :
       pc[t] = "constructing" =>
         ids.ids # <<>> /\ ids.ids[Len(ids.ids)] = job[t].id

\* The steps that touch neither the identifiers nor the constructors.
LEMMA AgreementKept ==
  ASSUME Agreement, UNCHANGED <<ids, quiddities>>,
         \A t \in Users : /\ pc[t] = "constructing" <=> pc'[t] = "constructing"
                          /\ pc[t] = "constructing" => job'[t] = job[t]
  PROVE  Agreement'
<1>1. UnderConstruction' = UnderConstruction
  BY DEF UnderConstruction
<1> QED  BY <1>1 DEF Agreement

\* Every step of the container keeps the agreement when one thread creates.
LEMMA AgreementStep ==
  ASSUME OneCreator, IInv, Agreement, [Next]_vars
  PROVE  Agreement'
<1>a. GoodIds(ids) /\ pc \in [Threads -> Places] /\ job \in [Threads -> Jobs]
      /\ Users \subseteq Threads
  BY DEF IInv, IdsInOrder, TypeOK
<1>1. ASSUME NEW t \in Users, NEW raw \in Nicks \cup {NoNick},
             BeginCreate(t, raw)
      PROVE  Agreement'
  <2> DEFINE n == ids.cur + 1
             j == [NoJob EXCEPT !.id = n, !.nick = Nickname(raw, n)]
  <2>1. ids.cur < kMaxNumOfIds /\ ids.cur \in Nat /\ pc[t] = "idle"
    BY <1>1, <1>a DEF BeginCreate, GoodIds, kMaxNumOfIds
  <2>2. /\ allocate_id(ids) = n /\ n \in 1..IdMax /\ n \notin Allocated(ids)
        /\ GoodIds(AfterAllocate(ids))
        /\ AfterAllocate(ids).ids = Append(ids.ids, n)
        /\ Allocated(AfterAllocate(ids)) = Allocated(ids) \cup {n}
    BY <2>1, <1>a, AllocateAppends, NextIsSuccessor
  <2>3. /\ AfterAllocate(ids).ids # <<>>
        /\ AfterAllocate(ids).ids[Len(AfterAllocate(ids).ids)] = n
    BY <2>2, <1>a, AppendProperties DEF GoodIds
  <2>4. UnderConstruction = {}
    BY <2>1 DEF UnderConstruction, OneCreator
  <2>5. CASE Unavailable(raw)
    <3>1. ids' = AfterReleaseLast(AfterAllocate(ids))
          /\ UNCHANGED <<pc, job, quiddities>>
      BY <1>1, <2>5 DEF BeginCreate
    <3>2. Allocated(ids') = Allocated(ids)
      <4>1. Allocated(ids') = Allocated(AfterAllocate(ids)) \ {n}
        BY <3>1, <2>2, <2>3, ReleaseLastTakesLast
      <4> HIDE DEF n
      <4> QED  BY <4>1, <2>2
    <3> QED  BY <3>1, <3>2, <2>1 DEF Agreement, UnderConstruction, OneCreator
  <2>6. CASE ~Unavailable(raw)
    <3>1. /\ ids' = AfterAllocate(ids) /\ UNCHANGED quiddities
          /\ pc' = [pc EXCEPT ![t] = "constructing"]
          /\ job' = [job EXCEPT ![t] = j]
      BY <1>1, <2>2, <2>6 DEF BeginCreate
    <3>2. j.id = n
      BY DEF NoJob
    <3> HIDE DEF j
    <3>3. pc'[t] = "constructing" /\ job'[t].id = n
      BY <3>1, <3>2, <1>a
    <3>4. UnderConstruction' = {n}
      BY <3>3 DEF UnderConstruction, OneCreator
    <3> QED  BY <2>2, <2>3, <2>4, <3>1, <3>3, <3>4 DEF Agreement, OneCreator
  <2> QED  BY <2>5, <2>6
<1>2. ASSUME NEW t \in Users, CreateFails(t)
      PROVE  Agreement'
  <2>1. ids.ids # <<>> /\ ids.ids[Len(ids.ids)] = job[t].id
    BY <1>2 DEF Agreement, CreateFails
  <2>2. Allocated(ids') = Allocated(ids) \ {job[t].id}
    BY <1>2, <1>a, <2>1, ReleaseLastTakesLast DEF CreateFails, IdsAfterFailure
  <2>3. UnderConstruction = {job[t].id}
    BY <1>2 DEF UnderConstruction, OneCreator, CreateFails
  <2>4. pc'[t] = "idle" /\ UNCHANGED quiddities
    BY <1>2, <1>a DEF CreateFails
  <2>5. UnderConstruction' = {}
    BY <2>4 DEF UnderConstruction, OneCreator
  <2>6. job[t].id \notin DOMAIN quiddities
    BY <1>2 DEF IInv, Fresh, CreateFails
  <2> QED  BY <2>2, <2>3, <2>4, <2>5, <2>6 DEF Agreement, OneCreator
<1>3. ASSUME NEW t \in Users, NEW quiet \in BOOLEAN, CreateSucceeds(t, quiet)
      PROVE  Agreement'
  <2>1. UnderConstruction = {job[t].id}
    BY <1>3 DEF UnderConstruction, OneCreator, CreateSucceeds
  <2>2. pc'[t] # "constructing" /\ UNCHANGED ids
        /\ DOMAIN quiddities' = DOMAIN quiddities \cup {job[t].id}
    BY <1>3, <1>a DEF CreateSucceeds
  <2>3. UnderConstruction' = {}
    BY <2>2 DEF UnderConstruction, OneCreator
  <2> QED  BY <2>1, <2>2, <2>3 DEF Agreement, OneCreator
<1>4. ASSUME NEW t \in Threads, QuietRemove(t)
      PROVE  Agreement'
  <2>1. \A u \in Users : /\ pc[u] = "constructing" <=> pc'[u] = "constructing"
                         /\ pc[u] = "constructing" => job'[u] = job[u]
    BY <1>4, <1>a DEF QuietRemove
  <2>2. CASE ~is_allocated(ids, job[t].id)
    <3>1. UNCHANGED <<ids, quiddities>>
      BY <1>4, <2>2 DEF QuietRemove
    <3> QED  BY <2>1, <3>1, AgreementKept
  <2>3. CASE is_allocated(ids, job[t].id)
    <3>1. /\ ids' = AfterRelease(ids, job[t].id)
          /\ DOMAIN quiddities' = DOMAIN quiddities \ {job[t].id}
          /\ UNCHANGED job
      BY <1>4, <2>3 DEF QuietRemove
    <3>2. UnderConstruction' = UnderConstruction
      BY <2>1 DEF UnderConstruction
    <3>3. Allocated(ids') = Allocated(ids) \ {job[t].id}
      BY <2>3, <3>1, <1>a, ReleaseTakesId DEF is_allocated
    <3>4. job[t].id \notin UnderConstruction
      BY <1>4, RemovedNotConstructed DEF QuietRemove
    <3>5. ASSUME NEW u \in Users, pc'[u] = "constructing"
          PROVE  ids'.ids # <<>> /\ ids'.ids[Len(ids'.ids)] = job'[u].id
      <4>1. ids.ids[Len(ids.ids)] = job[u].id /\ job[u].id # job[t].id
        BY <2>1, <3>4, <3>5 DEF Agreement, UnderConstruction
      <4> QED  BY <4>1, <2>3, <3>1, <1>a, ReleaseTakesId DEF is_allocated
    <3> QED  BY <3>1, <3>2, <3>3, <3>4, <3>5 DEF Agreement
  <2> QED  BY <2>2, <2>3
<1>5. CASE ~TouchesIds
  BY <1>5, OtherSteps, AgreementKept
<1> QED  BY <1>1, <1>2, <1>3, <1>4, <1>5 DEF TouchesIds

\* With one creating thread, and any number of removals in other threads, the
\* allocated identifiers are those of the quiddities and of the one under
\* construction.
THEOREM OneCreatorIdsAgree ==
  ASSUME OneCreator
  PROVE  Spec => []IdsAgree
<1>1. Init => Agreement
  BY NoIdsGood DEF Init, Agreement, UnderConstruction
<1>2. IInv /\ Agreement /\ [Next]_vars => Agreement'
  BY AgreementStep
<1>3. IInv /\ Agreement => IdsAgree
  <2>1. GoodIds(ids) => DOMAIN ids.ids = 1..Len(ids.ids)
    BY LenProperties DEF GoodIds
  <2> QED  BY <2>1 DEF IInv, IdsInOrder, GoodIds, Agreement, IdsAgree,
           NoDuplicate
<1> QED  BY <1>1, <1>2, <1>3, Invariance, PTL DEF Spec
=============================================================================
