---------------------------- MODULE TaskExecutor ----------------------------
(***************************************************************************)
(* What utils/threaded-wrapper.hpp promises the code that uses it, without *)
(* any lock, condition variable or polling loop: an object that lives in a *)
(* thread of its own and executes                                          *)
(*   - asynchronous tasks, once each and in the order of submission;       *)
(*   - synchronous calls, once each, between the call and its return, and  *)
(*     after every task submitted before the call (the barrier wait_done   *)
(*     relies on);                                                         *)
(*   - nothing before the object is built nor after it is destroyed, the   *)
(*     destruction coming after every task submitted before it.            *)
(***************************************************************************)
EXTENDS Naturals, Sequences

CONSTANTS Clients,      \* the threads that use the wrapper
          Tasks         \* names of asynchronous tasks

VARIABLES queue,        \* submitted tasks that have not been executed
          served,       \* how many tasks have been executed
          call,         \* per client: is a synchronous call under way
          due,          \* per client: tasks that precede its latest call
          closeDue,     \* tasks that precede the destruction
          life          \* "starting", "open", "closing" or "closed"

absVars == <<queue, served, call, due, closeDue, life>>

AbsInit ==
  /\ queue = <<>> /\ served = 0 /\ closeDue = 0
  /\ call = [c \in Clients |-> "idle"]
  /\ due = [c \in Clients |-> 0]
  /\ life = "starting"

Open ==
  /\ life = "starting"
  /\ life' = "open"
  /\ UNCHANGED <<queue, served, call, due, closeDue>>

\* A task running on the object's thread may submit while it is being closed.
Submit(t) ==
  /\ life \in {"open", "closing"}
  /\ queue' = Append(queue, t)
  /\ UNCHANGED <<served, call, due, closeDue, life>>

Ask(c) ==
  /\ life = "open" /\ call[c] = "idle"
  /\ call' = [call EXCEPT ![c] = "asked"]
  /\ due' = [due EXCEPT ![c] = served + Len(queue)]
  /\ UNCHANGED <<queue, served, closeDue, life>>

RunAsync ==
  /\ life \in {"open", "closing"} /\ queue # <<>>
  /\ queue' = Tail(queue) /\ served' = served + 1
  /\ UNCHANGED <<call, due, closeDue, life>>

RunAsyncSubmitting(t) ==
  /\ life \in {"open", "closing"} /\ queue # <<>>
  /\ queue' = Append(Tail(queue), t) /\ served' = served + 1
  /\ UNCHANGED <<call, due, closeDue, life>>

RunSync(c) ==
  /\ life = "open" /\ call[c] = "asked" /\ served >= due[c]
  /\ call' = [call EXCEPT ![c] = "done"]
  /\ UNCHANGED <<queue, served, due, closeDue, life>>

Return(c) ==
  /\ call[c] = "done"
  /\ call' = [call EXCEPT ![c] = "idle"]
  /\ UNCHANGED <<queue, served, due, closeDue, life>>

Close ==
  /\ life = "open" /\ \A c \in Clients : call[c] = "idle"
  /\ life' = "closing" /\ closeDue' = served + Len(queue)
  /\ UNCHANGED <<queue, served, call, due>>

Finish ==
  /\ life = "closing" /\ served >= closeDue
  /\ life' = "closed"
  /\ UNCHANGED <<queue, served, call, due, closeDue>>

AbsNext ==
  \/ Open \/ RunAsync \/ Close \/ Finish
  \/ \E t \in Tasks : Submit(t) \/ RunAsyncSubmitting(t)
  \/ \E c \in Clients : Ask(c) \/ RunSync(c) \/ Return(c)

AbsSpec == AbsInit /\ [][AbsNext]_absVars
=============================================================================
