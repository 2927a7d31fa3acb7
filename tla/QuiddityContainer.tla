-------------------------- MODULE QuiddityContainer --------------------------
(***************************************************************************)
(* quiddity/container.cpp with the self destruction of quiddity.cpp: the   *)
(* creation and removal of quiddities, the callbacks that announce them,   *)
(* and the detached thread in which a quiddity removes itself.             *)
(*                                                                         *)
(* The container has no mutex (me_.lock() locks a weak pointer), and its   *)
(* callers run in several threads: the application, the control servers,   *)
(* the SIP stack, and one detached thread per self destruction.  A step of *)
(* the model is the code between two places where it leaves the container: *)
(* the factory's call of a constructor, a callback, a destructor.          *)
(* Callbacks may register, unregister and reset callbacks; a callback that *)
(* creates or removes quiddities is the interleaving with another thread.  *)
(***************************************************************************)
EXTENDS Ids, FiniteSets

CONSTANTS Users,        \* threads that create and remove quiddities
          Detached,     \* threads available for self destructions
          Nicks,        \* explicit nicknames
          NoNick,       \* the empty nickname
          MaxCreated,   \* bound: creations
          MaxCbs,       \* bound: registrations of each kind of callback
          MayFail       \* do constructors fail

ASSUME ContainerAssumption ==
  /\ Users \cap Detached = {} /\ NoNick \notin Nicks
  /\ MaxCreated \in Nat /\ MaxCreated < kMaxNumOfIds
  /\ MaxCbs \in Nat /\ MayFail \in BOOLEAN

VARIABLES
  ids,             \* ids_
  quiddities,      \* quiddities_: identifier -> nickname
  on_created_cbs,  \* the identifiers of the registered callbacks
  on_removed_cbs,
  next_cb,         \* the static counters of register_*_cb
  pc, job,         \* per thread: where it is, and in what call
  alive,           \* identifiers whose Quiddity object exists
  locked,          \* ... whose self_destruct_mtx_ is held for a new thread
  (* history *)
  inserted,        \* identifiers that have been in quiddities_
  failed,          \* identifiers whose creation has failed
  announced        \* <<"created" or "removed", callback, identifier>>

vars == <<ids, quiddities, on_created_cbs, on_removed_cbs, next_cb, pc, job,
          alive, locked, inserted, failed, announced>>
cbVars == <<on_created_cbs, on_removed_cbs, next_cb>>

Threads == Users \cup Detached

\* A call: the identifier and nickname it works on, the copy of the callbacks
\* still to call, and the callbacks registered when it was made (a counter).
NoJob == [id |-> kInvalid, nick |-> NoNick, todo |-> {}, since |-> 0]

Nicknames == Nicks \cup {NoNick} \cup ({"auto"} \X (0..IdMax))
Jobs == [id : 0..IdMax, nick : Nicknames, todo : SUBSET (1..MaxCbs),
         since : 0..MaxCbs]
Places == {"idle", "constructing", "quiet", "creating", "in_created_cb",
           "removing", "in_removed_cb", "erasing", "destroying", "spawned",
           "started", "undefined"}

UnderConstruction == {job[t].id : t \in {u \in Users : pc[u] = "constructing"}}

Init ==
  /\ ids = NoIds /\ quiddities = << >>
  /\ on_created_cbs = {} /\ on_removed_cbs = {}
  /\ next_cb = [created |-> 0, removed |-> 0]
  /\ pc = [t \in Threads |-> "idle"] /\ job = [t \in Threads |-> NoJob]
  /\ alive = {} /\ locked = {}
  /\ inserted = {} /\ failed = {} /\ announced = {}

-----------------------------------------------------------------------------
(* Creation.                                                               *)

\* The nickname: the explicit one, or the kind followed by the identifier,
\* which is not compared with the nicknames in use.
Nickname(raw, id) == IF raw = NoNick THEN <<"auto", id>> ELSE raw
Unavailable(raw) ==
  raw # NoNick /\ \E q \in DOMAIN quiddities : quiddities[q] = raw

\* quiet_create up to the factory: the identifier is allocated first, for
\* the constructor to use it.
BeginCreate(t, raw) ==
  /\ pc[t] = "idle" /\ ids.cur < MaxCreated
  /\ LET id == allocate_id(ids) IN
       IF Unavailable(raw)
         THEN /\ ids' = AfterReleaseLast(AfterAllocate(ids))
              /\ failed' = failed \cup {id}
              /\ UNCHANGED <<pc, job, alive>>
         ELSE /\ ids' = AfterAllocate(ids)
              /\ pc' = [pc EXCEPT ![t] = "constructing"]
              /\ job' = [job EXCEPT ![t] =
                           [NoJob EXCEPT !.id = id, !.nick = Nickname(raw, id)]]
              /\ alive' = alive \cup {id}
              /\ UNCHANGED failed
  /\ UNCHANGED <<quiddities, cbVars, locked, inserted, announced>>

\* (mutant) the identifier is released as an invalid one
IdNeverTaken == [ids EXCEPT !.ids[Len(ids.ids)] = kInvalid]

\* what quiet_create does with the identifiers when a creation fails
IdsAfterFailure == AfterReleaseLast(ids)

\* The constructor returned nothing, or an object that is not valid.
CreateFails(t) ==
  /\ pc[t] = "constructing" /\ MayFail
  /\ ids' = IdsAfterFailure
  /\ alive' = alive \ {job[t].id}
  /\ failed' = failed \cup {job[t].id}
  /\ pc' = [pc EXCEPT ![t] = "idle"] /\ job' = [job EXCEPT ![t] = NoJob]
  /\ UNCHANGED <<quiddities, cbVars, locked, inserted, announced>>

\* quiet_create succeeds.  create goes on with the callbacks, on a copy;
\* the Python wrapper calls notify_quiddity_created later (quiet = TRUE).
CreateSucceeds(t, quiet) ==
  /\ pc[t] = "constructing"
  /\ quiddities' = [q \in DOMAIN quiddities \cup {job[t].id} |->
                      IF q = job[t].id THEN job[t].nick ELSE quiddities[q]]
  /\ inserted' = inserted \cup {job[t].id}
  /\ pc' = [pc EXCEPT ![t] = IF quiet THEN "quiet" ELSE "creating"]
  /\ job' = [job EXCEPT ![t].todo = on_created_cbs,
                        ![t].since = next_cb.created]
  /\ UNCHANGED <<ids, cbVars, alive, locked, failed, announced>>

\* pyswitch: get_quiddity, then notify_quiddity_created on its result.
NotifyCreated(t) ==
  /\ pc[t] = "quiet"
  /\ IF job[t].id \in DOMAIN quiddities
       THEN /\ pc' = [pc EXCEPT ![t] = "creating"]
            /\ job' = [job EXCEPT ![t].todo = on_created_cbs,
                                  ![t].since = next_cb.created]
       ELSE /\ pc' = [pc EXCEPT ![t] = "idle"]
            /\ job' = [job EXCEPT ![t] = NoJob]
  /\ UNCHANGED <<ids, quiddities, cbVars, alive, locked, inserted, failed,
                 announced>>

-----------------------------------------------------------------------------
(* Removal.                                                                *)

\* remove: the callbacks come first, whether the identifier exists or not.
BeginRemove(t, id) ==
  /\ pc[t] = "idle" /\ t \in Users
  /\ pc' = [pc EXCEPT ![t] = "removing"]
  /\ job' = [job EXCEPT ![t] = [NoJob EXCEPT !.id = id,
                                             !.todo = on_removed_cbs,
                                             !.since = next_cb.removed]]
  /\ UNCHANGED <<ids, quiddities, cbVars, alive, locked, inserted, failed,
                 announced>>

\* Quiddity::self_destruct: the mutex is locked and moved into the thread.
SelfDestruct(d, id) ==
  /\ pc[d] = "idle" /\ id \in alive \ locked
  /\ id \in DOMAIN quiddities
  /\ locked' = locked \cup {id}
  /\ pc' = [pc EXCEPT ![d] = "spawned"]
  /\ job' = [job EXCEPT ![d] = [NoJob EXCEPT !.id = id]]
  /\ UNCHANGED <<ids, quiddities, cbVars, alive, inserted, failed, announced>>

\* (mutant) the mutex is kept for the life of the thread
LockKept(d) == locked

\* the mutexes held once the detached thread has run th_lock.unlock()
LockedOnceStarted(d) == locked \ {job[d].id}

\* The detached thread unlocks the mutex ...
ThreadStarts(d) ==
  /\ pc[d] = "spawned"
  /\ locked' = LockedOnceStarted(d)
  /\ pc' = [pc EXCEPT ![d] = "started"]
  /\ UNCHANGED <<ids, quiddities, cbVars, job, alive, inserted, failed,
                 announced>>

\* ... and reads qcontainer_ and id_ from the quiddity, which another thread
\* may have removed since: then its behaviour is undefined, and not modelled.
ThreadRemoves(d) ==
  /\ pc[d] = "started"
  /\ IF job[d].id \in alive
       THEN /\ pc' = [pc EXCEPT ![d] = "removing"]
            /\ job' = [job EXCEPT ![d].todo = on_removed_cbs,
                                  ![d].since = next_cb.removed]
       ELSE pc' = [pc EXCEPT ![d] = "undefined"] /\ UNCHANGED job
  /\ UNCHANGED <<ids, quiddities, cbVars, alive, locked, inserted, failed,
                 announced>>

\* (mutant) the identifier is released, the quiddity stays in the map
EraseNothing(t) ==
  /\ pc[t] = "erasing"
  /\ ids' = AfterRelease(ids, job[t].id)
  /\ pc' = [pc EXCEPT ![t] = "idle"] /\ job' = [job EXCEPT ![t] = NoJob]
  /\ UNCHANGED <<cbVars, quiddities, alive, locked, inserted, failed, announced>>

\* quiet_remove, up to the destructor that unordered_map::erase runs.
QuietRemove(t) ==
  /\ pc[t] = "erasing"
  /\ IF is_allocated(ids, job[t].id)
       THEN /\ ids' = AfterRelease(ids, job[t].id)
            /\ quiddities' = [q \in DOMAIN quiddities \ {job[t].id} |->
                                quiddities[q]]
            /\ pc' = [pc EXCEPT ![t] = "destroying"]
            /\ UNCHANGED job
       ELSE /\ pc' = [pc EXCEPT ![t] = "idle"]
            /\ job' = [job EXCEPT ![t] = NoJob]
            /\ UNCHANGED <<ids, quiddities>>
  /\ UNCHANGED <<cbVars, alive, locked, inserted, failed, announced>>

\* (mutant) the destructor does not take self_destruct_mtx_
NotWaited(id) == TRUE

\* ~Quiddity locks self_destruct_mtx_
MutexFree(id) == id \notin locked

Destroyed(t) ==
  /\ pc[t] = "destroying" /\ MutexFree(job[t].id)
  /\ alive' = alive \ {job[t].id}
  /\ pc' = [pc EXCEPT ![t] = "idle"] /\ job' = [job EXCEPT ![t] = NoJob]
  /\ UNCHANGED <<ids, quiddities, cbVars, locked, inserted, failed, announced>>

-----------------------------------------------------------------------------
(* The callbacks of creation and removal, in the order of std::map.        *)

CallCreated(t) ==
  /\ pc[t] = "creating"
  /\ \E cb \in job[t].todo :
       /\ \A other \in job[t].todo : cb <= other
       /\ announced' = announced \cup {<<"created", cb, job[t].id>>}
       /\ job' = [job EXCEPT ![t].todo = @ \ {cb}]
  /\ pc' = [pc EXCEPT ![t] = "in_created_cb"]
  /\ UNCHANGED <<ids, quiddities, cbVars, alive, locked, inserted, failed>>

\* (mutant) only the first callback is called
CreatedStopsAfterOne(t) == {}

\* what is left of the copy when a callback returns: it goes on unless the map
\* has been emptied meanwhile
CreatedLeftToCall(t) == IF on_created_cbs = {} THEN {} ELSE job[t].todo

CreatedCbReturns(t) ==
  /\ pc[t] = "in_created_cb"
  /\ job' = [job EXCEPT ![t].todo = CreatedLeftToCall(t)]
  /\ pc' = [pc EXCEPT ![t] = "creating"]
  /\ UNCHANGED <<ids, quiddities, cbVars, alive, locked, inserted, failed,
                 announced>>

CreateReturns(t) ==
  /\ pc[t] = "creating" /\ job[t].todo = {}
  /\ pc' = [pc EXCEPT ![t] = "idle"] /\ job' = [job EXCEPT ![t] = NoJob]
  /\ UNCHANGED <<ids, quiddities, cbVars, alive, locked, inserted, failed,
                 announced>>

CallRemoved(t) ==
  /\ pc[t] = "removing"
  /\ \E cb \in job[t].todo :
       /\ \A other \in job[t].todo : cb <= other
       /\ announced' = announced \cup {<<"removed", cb, job[t].id>>}
       /\ job' = [job EXCEPT ![t].todo = @ \ {cb}]
  /\ pc' = [pc EXCEPT ![t] = "in_removed_cb"]
  /\ UNCHANGED <<ids, quiddities, cbVars, alive, locked, inserted, failed>>

\* (mutant) only the first callback is called
StopsAfterOne(t) == {}

\* what is left of the copy when a callback returns
LeftToCall(t) == IF on_removed_cbs = {} THEN {} ELSE job[t].todo

RemovedCbReturns(t) ==
  /\ pc[t] = "in_removed_cb"
  /\ job' = [job EXCEPT ![t].todo = LeftToCall(t)]
  /\ pc' = [pc EXCEPT ![t] = "removing"]
  /\ UNCHANGED <<ids, quiddities, cbVars, alive, locked, inserted, failed,
                 announced>>

AllCalled(t) ==
  /\ pc[t] = "removing" /\ job[t].todo = {}
  /\ pc' = [pc EXCEPT ![t] = "erasing"]
  /\ UNCHANGED <<ids, quiddities, cbVars, job, alive, locked, inserted, failed,
                 announced>>

noCallVars == <<ids, quiddities, pc, job, alive, locked, inserted, failed,
                announced>>

register_creation_cb ==
  /\ next_cb.created < MaxCbs
  /\ next_cb' = [next_cb EXCEPT !.created = @ + 1]
  /\ on_created_cbs' = on_created_cbs \cup {next_cb.created + 1}
  /\ UNCHANGED <<noCallVars, on_removed_cbs>>

register_removal_cb ==
  /\ next_cb.removed < MaxCbs
  /\ next_cb' = [next_cb EXCEPT !.removed = @ + 1]
  /\ on_removed_cbs' = on_removed_cbs \cup {next_cb.removed + 1}
  /\ UNCHANGED <<noCallVars, on_created_cbs>>

unregister_creation_cb(cb) ==
  /\ on_created_cbs' = on_created_cbs \ {cb}
  /\ UNCHANGED <<noCallVars, on_removed_cbs, next_cb>>

unregister_removal_cb(cb) ==
  /\ on_removed_cbs' = on_removed_cbs \ {cb}
  /\ UNCHANGED <<noCallVars, on_created_cbs, next_cb>>

reset_create_remove_cb ==
  /\ on_created_cbs' = {} /\ on_removed_cbs' = {}
  /\ UNCHANGED <<noCallVars, next_cb>>

-----------------------------------------------------------------------------
Creation(t) ==
  \/ \E raw \in Nicks \cup {NoNick} : BeginCreate(t, raw)
  \/ CreateFails(t) \/ NotifyCreated(t)
  \/ \E quiet \in BOOLEAN : CreateSucceeds(t, quiet)
  \/ CallCreated(t) \/ CreatedCbReturns(t) \/ CreateReturns(t)

Removal(t) ==
  \/ CallRemoved(t) \/ RemovedCbReturns(t) \/ AllCalled(t) \/ QuietRemove(t)
  \/ Destroyed(t)

Callbacks ==
  \/ register_creation_cb \/ register_removal_cb
  \/ \E cb \in on_created_cbs : unregister_creation_cb(cb)
  \/ \E cb \in on_removed_cbs : unregister_removal_cb(cb)
  \/ reset_create_remove_cb

\* An application removes the identifiers it was given; the last one it may
\* try is an identifier that was never given.
Next ==
  \/ \E t \in Users : Creation(t)
  \/ \E t \in Users : \E id \in inserted \cup {MaxCreated + 1} :
       BeginRemove(t, id)
  \/ \E d \in Detached : ThreadStarts(d) \/ ThreadRemoves(d)
  \/ \E d \in Detached : \E id \in alive : SelfDestruct(d, id)
  \/ \E t \in Threads : Removal(t)
  \/ Callbacks

\* Callbacks and constructors return, threads are scheduled.
Fairness ==
  /\ \A t \in Threads : WF_vars(Removal(t))
  /\ \A d \in Detached : WF_vars(ThreadStarts(d)) /\ WF_vars(ThreadRemoves(d))

Spec == Init /\ [][Next]_vars
FairSpec == Spec /\ Fairness

-----------------------------------------------------------------------------
(* Properties.                                                             *)

\* The type invariant.
TypeOK ==
  /\ ids \in [ids : Seq(1..IdMax), cur : 0..IdMax]
  /\ quiddities \in [DOMAIN quiddities -> Nicknames]
  /\ DOMAIN quiddities \subseteq 0..IdMax
  /\ next_cb \in [{"created", "removed"} -> 0..MaxCbs]
  /\ on_created_cbs \subseteq 1..next_cb.created
  /\ on_removed_cbs \subseteq 1..next_cb.removed
  /\ pc \in [Threads -> Places]
  /\ job \in [Threads -> Jobs]
  /\ alive \subseteq 0..IdMax /\ locked \subseteq 0..IdMax
  /\ inserted \subseteq 0..IdMax /\ failed \subseteq 0..IdMax
  /\ announced \subseteq {"created", "removed"} \X (1..MaxCbs) \X (0..IdMax)

NoDuplicate == \A i, j \in DOMAIN ids.ids : ids.ids[i] = ids.ids[j] => i = j

\* The identifiers allocated in ids_, each once, are those of the quiddities
\* and of the ones under construction (container.cpp:68-112, 146-147): a
\* quiddity whose identifier is lost cannot be removed any more.
IdsAgree ==
  /\ NoDuplicate
  /\ Allocated(ids) = DOMAIN quiddities \cup UnderConstruction

\* The comment of quiet_create (container.cpp:68-70): the identifier is added
\* into ids before the creation and "if initilization fails, id will be
\* removed".
FailedIdReleased == failed \cap Allocated(ids) = {}

\* A quiddity is announced to every callback that was registered when remove
\* was called, and still is, before it leaves the container
\* (container.cpp:133-143).
RemovalAnnounced ==
  [][\A id \in DOMAIN quiddities \ DOMAIN quiddities' :
       \E t \in Threads :
         /\ pc[t] = "erasing" /\ job[t].id = id
         /\ \A cb \in on_removed_cbs :
              cb <= job[t].since => <<"removed", cb, id>> \in announced]_vars

\* When create returns, the creation has been announced to every callback
\* that was registered at the insertion and still is (container.cpp:46-57).
CreationAnnounced ==
  [][\A t \in Users :
       pc[t] = "creating" /\ pc'[t] = "idle" =>
         \A cb \in on_created_cbs :
           cb <= job[t].since =>
             <<"created", cb, job[t].id>> \in announced]_vars

\* An identifier names one quiddity: the one of a quiddity that was removed,
\* or could not be created, is not given to another one (ids.cpp:31-42, until
\* the counter wraps around).
IdsNotRecycled ==
  [][DOMAIN quiddities' \cap (inserted \cup failed) \subseteq
       DOMAIN quiddities]_vars

\* As long as its detached thread has not started, a quiddity that destructs
\* itself is not destroyed (quiddity.cpp:115, 179): the thread unlocks the
\* mutex that is a member of it.
MutexOutlivesHandover ==
  \A d \in Detached : pc[d] = "spawned" => job[d].id \in alive

\* Once remove has called the last callback, it returns: neither
\* self_destruct_mtx_ nor a callback keeps it.
RemoveReturns == \A t \in Threads : pc[t] = "erasing" ~> pc[t] = "idle"

\* A quiddity that calls self_destruct leaves the container.
SelfDestructed ==
  \A d \in Detached, id \in 1..MaxCreated :
    pc[d] = "spawned" /\ job[d].id = id ~> id \notin DOMAIN quiddities
=============================================================================
