----------------------------- MODULE ShmdataTree -----------------------------
(***************************************************************************)
(* The branch of a quiddity's tree that tells of one shmdata, and the      *)
(* threads that write it: a Follower, a Writer, or the GstTreeUpdater of a *)
(* source (AudioTestSource) with its pipeline and main loop, made and      *)
(* destroyed again and again by an owner.  Each has a periodic task that   *)
(* writes statistics; a follower also has the callbacks of its reader, a   *)
(* source those of its streaming thread.  A graft or a prune is one step.  *)
(***************************************************************************)
EXTENDS PeriodicTask, Integers

CONSTANTS
  Kinds,     \* of the object that owns the branch, see AllKinds
  Types,     \* of streams
  MaxLives   \* bound: how often the object is made

AllKinds == {"follower", "on_connect", "writer", "source"}
ASSUME KindsAssumption == Kinds \subseteq AllKinds /\ MaxLives \in Nat
ASSUME TypesAssumption == "none" \notin Types /\ "absent" \notin Types

VARIABLES
  kind,      \* what the owner makes
  lives,     \* how often it did
  owner,     \* where the owner's thread is
  reader,    \* where the thread that calls back is
  arrived,   \* the type that thread was called with
  kept,      \* what initialize_tree has pruned, for each of the two
  branch,    \* the branch of the tree
  caps,      \* data_type_, or the caps the pipeline negotiated
  idle,      \* the source's main loop: idle sources not dispatched, in order
  pipe,      \* the state of its GStreamer pipeline
  watch_added

pipeVars == <<idle, pipe, watch_added>>
vars == <<taskVars, kind, lives, owner, reader, arrived, kept, branch, caps, pipeVars>>

NoCaps == "none"     \* an empty string
NoBranch == [caps |-> "absent", stat |-> FALSE]
Template == [caps |-> NoCaps, stat |-> TRUE]

Followers == {"follower", "on_connect"}

Init ==
  /\ NoTask
  /\ kind \in Kinds /\ lives = 0
  /\ owner = "idle" /\ reader = "off" /\ arrived = NoCaps
  /\ kept = [t \in {"owner", "reader"} |-> NoBranch]
  /\ branch = NoBranch /\ caps = NoCaps
  /\ idle = {"watch"} /\ pipe = "null" /\ watch_added = FALSE

-----------------------------------------------------------------------------
(* initialize_tree, by the owner or the reader: a step per tree operation. *)

\* (mutant) the former children are forgotten
ChildrenForgotten(t) == branch
\* the children of what was pruned are grafted again
Regrafted(t) ==
  [caps |-> IF kept[t].caps = "absent" THEN branch.caps ELSE kept[t].caps,
   stat |-> branch.stat \/ kept[t].stat]

InitTree(t, place, next) ==
  \/ /\ place = "prune" /\ next = "template"
     /\ kept' = [kept EXCEPT ![t] = branch] /\ branch' = NoBranch
  \/ /\ place = "template" /\ next = "regraft"
     /\ branch' = Template /\ UNCHANGED kept
  \/ /\ place = "regraft" /\ next = "ready"
     /\ branch' = Regrafted(t) /\ kept' = [kept EXCEPT ![t] = NoBranch]

-----------------------------------------------------------------------------
(* The owner.                                                              *)

\* The members: the reader or the signals, the task and its thread.
Make ==
  /\ owner = "idle" /\ lives < MaxLives /\ lives' = lives + 1
  /\ MakeTask
  /\ owner' = IF kind = "on_connect" THEN "live" ELSE "prune"
  /\ reader' = IF kind = "writer" THEN "off" ELSE "idle"
  /\ caps' \in IF kind = "writer" THEN Types ELSE {NoCaps}
  /\ UNCHANGED <<kind, arrived, kept, branch, pipeVars>>

\* The constructor's body.
OwnerInitTree(next) ==
  /\ InitTree("owner", owner, next)
  /\ owner' = IF next = "ready" /\ kind = "follower" THEN "live" ELSE next
  /\ UNCHANGED <<taskVars, kind, lives, reader, arrived, caps, pipeVars>>

\* a writer grafts its own type
GraftOwnCaps ==
  /\ owner = "ready" /\ kind = "writer" /\ owner' = "live"
  /\ branch' = [branch EXCEPT !.caps = caps]
  /\ UNCHANGED <<taskVars, kind, lives, reader, arrived, kept, caps, pipeVars>>

\* AudioTestSource::start ends with play, which attaches an idle source
Play ==
  /\ owner = "ready" /\ kind = "source" /\ owner' = "live"
  /\ idle' = idle \cup {"play"}
  /\ UNCHANGED <<taskVars, kind, lives, reader, arrived, kept, branch, caps, pipe,
                 watch_added>>

\* ~Follower joins its reader before anything else
JoinReader ==
  /\ owner = "live" /\ kind \in Followers /\ reader = "idle"
  /\ reader' = "off" /\ owner' = "joined"
  /\ UNCHANGED <<taskVars, kind, lives, arrived, kept, branch, caps, pipeVars>>

\* (mutant) a follower prunes its branch when it was never connected
PrunedWhenEmpty == IF caps # NoCaps THEN branch ELSE NoBranch
\* ~Follower prunes only when it was connected, the others always do
AfterPrune == IF kind \in Followers /\ caps = NoCaps THEN branch ELSE NoBranch

\* The bodies of the destructors: only then are the members destroyed.
Prune ==
  /\ owner = IF kind \in Followers THEN "joined" ELSE "live"
  /\ owner' = "unsubscribe" /\ branch' = AfterPrune
  /\ UNCHANGED <<taskVars, kind, lives, reader, arrived, kept, caps, pipeVars>>

\* ~GstSubscriber waits for a callback under way and disconnects; then, for
\* all, the task is destroyed
Unsubscribe ==
  /\ owner = "unsubscribe" /\ reader \in {"idle", "off"}
  /\ reader' = "off" /\ owner' = "task"
  /\ Cancel
  /\ UNCHANGED <<kind, lives, arrived, kept, branch, caps, pipeVars>>

TaskDestroyed ==
  /\ owner = "task" /\ (Notify \/ Join)
  /\ owner' = IF dtor' # "done" THEN "task"
              ELSE IF kind = "source" THEN "pipeliner" ELSE "idle"
  /\ UNCHANGED <<kind, lives, reader, arrived, kept, branch, caps, pipeVars>>

\* AudioTestSource::stop replaces the pipeline: ~Pipeliner waits for the
\* watch, ~Pipe asks the loop to delete the GStreamer pipeline ...
PipelinerDestroyed ==
  /\ owner = "pipeliner" /\ watch_added
  /\ idle' = idle \cup {"delete"} /\ owner' = "pipe"
  /\ UNCHANGED <<taskVars, kind, lives, reader, arrived, kept, branch, caps, pipe,
                 watch_added>>

\* ... and waits until it has, for two seconds, or until a spurious wake-up
PipeDestroyed ==
  /\ owner = "pipe" /\ owner' = "loop"
  /\ UNCHANGED <<taskVars, kind, lives, reader, arrived, kept, branch, caps, pipeVars>>

\* ~GlibMainLoop quits and joins the loop; a new pipeline is there
LoopJoined ==
  /\ owner = "loop" /\ owner' = "idle"
  /\ idle' = {"watch"} /\ pipe' = "null" /\ watch_added' = FALSE
  /\ UNCHANGED <<taskVars, kind, lives, reader, arrived, kept, branch, caps>>

-----------------------------------------------------------------------------
(* The other threads.                                                      *)

\* The reader is connected, or the caps of the source's element change.
Called(type) ==
  /\ reader = "idle" /\ (kind = "source" => pipe = "playing")
  /\ reader' = (IF kind = "on_connect" THEN "prune" ELSE "ready")
  /\ arrived' = type
  /\ UNCHANGED <<taskVars, kind, lives, owner, kept, branch, caps, pipeVars>>

ReaderInitTree(next) ==
  /\ InitTree("reader", reader, next) /\ reader' = next
  /\ UNCHANGED <<taskVars, kind, lives, owner, arrived, caps, pipeVars>>

\* on_server_connected grafts a type that is new, the updater any
GraftCaps ==
  /\ reader = "ready" /\ reader' = "idle"
  /\ caps' = arrived
  /\ branch' = IF kind = "source" \/ caps # arrived
                 THEN [branch EXCEPT !.caps = arrived] ELSE branch
  /\ UNCHANGED <<taskVars, kind, lives, owner, arrived, kept, pipeVars>>

\* update_quid_stats, and Stat's tree updater
Tick ==
  /\ TaskReturns
  /\ branch' = [branch EXCEPT !.stat = TRUE]
  /\ UNCHANGED <<kind, lives, owner, reader, arrived, kept, caps, pipeVars>>

TaskThread ==
  /\ CheckCanceled \/ LockCv \/ BeginWait
  /\ UNCHANGED <<kind, lives, owner, reader, arrived, kept, branch, caps, pipeVars>>
NextPeriod ==
  /\ PeriodOver
  /\ UNCHANGED <<kind, lives, owner, reader, arrived, kept, branch, caps, pipeVars>>

\* The loop dispatches its idle sources in the order they were attached.
Dispatch(src) ==
  /\ kind = "source" /\ src \in idle /\ idle' = idle \ {src}
  /\ \/ src = "watch" /\ watch_added' = TRUE /\ UNCHANGED pipe
     \/ src = "play" /\ watch_added /\ pipe' = "playing" /\ UNCHANGED watch_added
     \/ src = "delete" /\ "play" \notin idle /\ pipe' = "deleted" /\ UNCHANGED watch_added
  /\ UNCHANGED <<taskVars, kind, lives, owner, reader, arrived, kept, branch, caps>>

-----------------------------------------------------------------------------
OwnerNext ==
  \/ Make \/ (\E next \in {"template", "regraft", "ready"} : OwnerInitTree(next))
  \/ GraftOwnCaps \/ Play \/ JoinReader \/ Prune \/ Unsubscribe \/ TaskDestroyed
  \/ PipelinerDestroyed \/ PipeDestroyed \/ LoopJoined
ReaderNext == (\E next \in {"template", "regraft", "ready"} : ReaderInitTree(next)) \/ GraftCaps
LoopNext == \E src \in {"watch", "play", "delete"} : Dispatch(src)

Next ==
  \/ OwnerNext \/ ReaderNext \/ (\E type \in Types : Called(type))
  \/ TaskThread \/ NextPeriod \/ Tick \/ LoopNext

Spec == Init /\ [][Next]_vars

\* Threads go on, and the destructor gets dtor_mutex_ in the end (strong
\* fairness).  That a period ends in time is not assumed: it may be long.
FairSpec ==
  /\ Spec
  /\ WF_vars(owner # "live" /\ OwnerNext) /\ SF_vars(Unsubscribe) /\ WF_vars(ReaderNext)
  /\ WF_vars(TaskThread) /\ WF_vars(Tick) /\ WF_vars(LoopNext)

-----------------------------------------------------------------------------
(* Properties.                                                             *)

\* A destruction that has begun ends, without waiting for a period to end:
\* the notification of the task is never lost (periodic-task.hpp:43), the
\* watch is added and the loop quits.
DestructionEnds == (owner = "unsubscribe") ~> (owner = "idle")

\* While the object lives and no thread is in a callback, the branch shows
\* the type of the stream, across reconnections and new lives, statistics
\* written meanwhile and branches left by a former life.  A follower that
\* fills the branch in its constructor, as its reader does, is the exception
\* (follower.cpp:50).
CapsShown ==
  (owner = "live" /\ reader \in {"idle", "off"} /\ kind # "follower" /\ caps # NoCaps)
    => branch.caps = caps

\* What a destroyed follower or writer leaves tells of no type: at most the
\* statistics of a late period or the template (follower.cpp:57).
LeavesNoType == owner = "idle" /\ kind # "source" => branch.caps \notin Types
=============================================================================
