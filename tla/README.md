# A verification project for libswitcher

Switcher runs *quiddities*: objects that produce, transform and play streams.
They are created by name, configured through properties, and connected through
shmdata (shared memory streams). The library is driven by several threads at
once: the application's, those of the control servers, GStreamer's main loop and
streaming threads, the callback threads of shmdata, JACK and PulseAudio, and
threads the library starts itself. Most of what can go wrong is in the order of
their steps, in calls that fail half way, and in long sequences of legal calls
that leave two data structures telling different stories. These are the subject
of this project.

1. [Inventory](#1-inventory)
2. [Modules and the code they model](#2-modules-and-the-code-they-model)
3. [What is checked](#3-what-is-checked)
4. [Where the code and its documentation disagree](#4-where-the-code-and-its-documentation-disagree)
5. [What is proved](#5-what-is-proved)
6. [What is not modelled](#6-what-is-not-modelled)
7. [Plan](#7-plan)

`PROJECT.json` holds the same facts in machine readable form: the source lines of
every definition (`map`), the runs, for each property a change to the code that
breaks it (`mutants`), the hazards with their source lines, and the theorems.

## 1. Inventory

Paths are relative to `src/switcher/` unless they begin with `src/`.

| Component | State | Operations | What makes it correct |
| --- | --- | --- | --- |
| **ThreadedWrapper** `utils/threaded-wrapper.hpp` | the wrapped member, `sync_task_`, `task_done_`, the queue `async_tasks_`, `canceled_`, three mutexes, two condition variables | constructor, destructor, `invoke`, `run`, `wait_done`, `invoke_async`, `run_async`; the worker's loop | every task runs once, in order, in the worker, while the member lives; a call returns after its own task; nobody blocks for ever |
| **Ids** `utils/ids.*` | allocated identifiers, the last one given | allocate, release, release the last one | no identifier is given twice while it is in use, and none soon after |
| **Container** `quiddity/container.*` | identifiers, quiddities, creation and removal callbacks | create, quiet create and announce later, remove, (un)register callbacks | identifiers and quiddities agree; whoever registered hears of every creation and removal |
| **Quiddity** `quiddity/quiddity.*` | its bags, its trees, `self_destruct_mtx_` | self destruction, destructor; delegation to the bags | self destruction ends, and never touches a destroyed mutex |
| **Claw, ConnectionSpec** `quiddity/claw/` | labels, types, generated followers and writers, the tree shown to users, the paths followed | connect (by id, by path, by quiddity, try), disconnect, add and remove writers, replace types | maps, tree and list of generated followers agree; failures leave no trace; a new writer's path is not already followed |
| **AudioRingBuffer** `utils/audio-ring-buffer*` | cells, two heads, an atomic free space | put, pop (two ways), shrink, usage | samples leave in the order they entered; the space is what is free |
| **Audio sinks** `src/plugins/jack/shmdata-to-jack.*`, `src/plugins/pulse/pulsesink.*` | one ring per channel, ports, connections to make, three mutexes, xrun count | hand-off of a buffer, process cycle, xrun, registration of a port | each channel plays in order; the sound server's cycle ends wherever the streaming thread is |
| **Properties** `quiddity/property/` | properties, their tree, subscriptions, pointers to mirrored properties | make, replace, mirror, remove, set, (un)subscribe | a mirror points to the property its owner has now; a subscription's number names one subscription for its life |
| **Signals** `quiddity/signal/` | signals, subscriptions | make, notify, (un)subscribe | as properties |
| **Methods** `quiddity/method/` | a table | make, invoke | filled at construction |
| **Startable** `quiddity/startable.*` | a flag behind the property `started` | start, stop, both may refuse | the flag tells whether the quiddity is started |
| **Bundle** `quiddity/bundle/` | an inner manager, connections to make and made, mirrored properties, the members to start | handlers of grafts and prunes in its members' trees, start and stop of the members, self destruction | first followers are connected to writers that exist, and members to each from its caps to its end; mirrors agree; members start and stop together |
| **Factory** `quiddity/factory.*` | makers, plug-ins | scan, create | filled at start-up |
| **Switcher** `switcher.*` | the container, the identifiers at the last reset | `get_state`, `load_state`, `reset_state` | loading what was saved restores it; what was created since the reset, and only that, is saved and cleared |
| **Session** `session/` | files | save, copy, write, list, read, remove, load | a name stands for one file |
| **PeriodicTask** `utils/periodic-task.hpp` | a flag, a mutex, a condition variable | run until destroyed | the destructor returns without waiting for a period, after the last run |
| **Shmdata followers, writers** `shmdata/` | reader or writer, statistics, their branch of the tree | connect, data and disconnect callbacks, periodic statistics | the branch shows the type of the stream; none is left that tells of a stream that is gone |
| **Main loop, pipelines** `gst/glibmainloop.*`, `gst/pipe.*`, `gst/pipeliner.*` | idle sources, pipelines, watches | play, destroy | destruction ends, whatever is still queued |
| **InfoTree, Configuration, Logger, utilities** | trees, settings | reading, writing, formatting | sequential or input and output |
| **Webrtc** `src/plugins/webrtc/webrtc.*` | main loop, websocket, `stopping_`, pipeline, registered peers, three mutexes | start, stop, messages of the signalling server, negotiation with each peer | a stop that polls has its connection until it returns; stopping ends and leaves nothing transmitted; no connection is cut off from a start that succeeded; a called peer gets an offer |
| **SIP, other plug-ins, Python, network** | devices, protocols | translation of calls and callbacks | depends on libraries outside the repository |

How they interact. A `Switcher` owns a `Container`, which owns the quiddities; a
quiddity owns a `Claw`, its bags of properties, methods and signals, and its
trees. The container creates quiddities through the factory and announces them
through callbacks, which may call the container back. A quiddity asks its own
container to remove it, from a detached thread. Two claws meet in a connection:
one reads the other's writers and calls the callbacks of its own quiddity, which
makes a shmdata follower; the follower calls back from its reader's thread.
Bundles have a container of their own and listen to the trees of their parts.
The ring buffers join a streaming thread with a sound server's thread, without a
lock; the threaded wrapper joins any thread with one worker.

The hard behaviours, each with its line and the property that would catch it,
are the forty entries of `hazards`. The ones without a property say why. Data
races whose outcome no model can enumerate are not among them; they are listed
under [What is not modelled](#6-what-is-not-modelled).

## 2. Modules and the code they model

### ThreadedWrapper, and the promise TaskExecutor

`ThreadedWrapper` keeps every member of the class as a variable of the same name
(`member`, `sync_task`, `task_done`, `async_tasks`, `canceled`, and the holders of
`cv_m` and `sync_mtx`), the worker's local batch, and where each thread is. The
worker's loop is `CheckCanceled`, `LockCv`, `SwapTasks`, `RunOneTask` (or
`RunOneTaskSubmitting`, a task that submits one), `BatchDone`, then `NoSyncTask`
or the lambda (`RunSyncTask`; `BuildMember` for the constructor's; `BeginDtorTask`
to `DestroyMember` for the destructor's), `SyncTaskDone`, and `WaitOver`, the end
of the one millisecond wait. A call is `invoke`, `LockSync`, `PostTask`,
`SpuriousWake`/`Recheck` around the condition variable, `ReturnFromSync`; the
constructor and the destructor are such calls by the owner, followed by `Join`.

Accesses under `async_mtx_` are single steps because the code holds it for one
access; `task_done_m_` is locked by one thread only and left out. Clients call
while the wrapper is constructed and not being destroyed, as C++ requires.

`TaskExecutor` says what a user may expect, with no mutex, flag or thread: a
queue, a call that is asked, served and returned, and a life. The refinement maps
the worker's batch followed by the queue to the promised queue. Its barrier is
the interesting part: a synchronous task is served after every asynchronous one
submitted before the call.

### Ids

Pure operators on a record of the vector and of the last identifier given, with
the wrap-around at the greatest value of the type (`IdMax`) and the search for a
free identifier after it. Used by the container and by both sides of the claw.

### QuiddityContainer

The container has no mutex: `me_.lock()` locks a weak pointer. Yet its callers run
in several threads. A step is the code between two places where control leaves
the container: the constructor the factory calls, a callback, a destructor.
Creation is `BeginCreate`, then `CreateFails` or `CreateSucceeds` (quietly, with
`NotifyCreated` later, or announced: `CallCreated`, `CreatedCbReturns`,
`CreateReturns`). Removal is `BeginRemove`, `CallRemoved`/`RemovedCbReturns` for
each callback of a copy, `AllCalled`, `QuietRemove` and `Destroyed`. A quiddity
destructs itself by `SelfDestruct`, which locks `self_destruct_mtx_` and makes a
detached thread, whose steps are `ThreadStarts` (unlock) and `ThreadRemoves`. A
thread that goes on with a quiddity already destroyed ends in the place
`undefined`. Registering, unregistering and resetting callbacks interleave with
all of it, so that what a callback itself may do is covered.

Data races on the maps inside one such step (two threads in the same
`std::map::insert`) are hazards without a property: their outcome is undefined,
not a state of the model.

### Claw

Each quiddity has two *sides*, followers and writers, with the same fields as
`ConnectionSpec` (labels, types, generated identifiers, tree) and its own Ids.
`connect_raw`, `connect`, `connect_quid`, `try_connect` (one step per follower it
tries, `TryNext`), `disconnect`, `add_writer_to_meta`, `remove_writer_from_meta`
and the two `replace_..._can_do` are actions; the callbacks of the quiddity
succeed or fail, and `following` is what they made the quiddity follow. Labels
are values: what matters of one is whether it has a `%`. Types intersect when they
are equal or one is `all`. `is_meta_follower` may answer anything for an identifier
that is not allocated, as it compares iterators of two maps; `connect_raw` then
changes nothing, whatever the answer. Calls come one at a time, as the maps have no lock;
the exception, uridecodebin's streaming thread, is a hazard.

### AudioRingBuffer and AudioSink, and the promise SampleQueue

`AudioRingBuffer` defines what each step of the class does to one ring.
`AudioSink` runs it: the streaming thread makes the rings, then puts a buffer
channel after channel (`LoadSpace`, `WriteSample` per sample, `PublishSamples`);
the playing thread looks at the usage of the first ring (`CheckUsage`), then pops
every ring (`LoadUsage`, `CopySample` per sample, `FreeSpace`), after shrinking
the rings when there was an xrun (`NextShrink`, `LoadUsageToShrink`,
`DropOldest`). Atomic loads, single samples and atomic updates are steps of their
own. JACK makes the rings under `output_ports_mutex_` (`LockPorts`, `MakeRings`),
which the process thread only tries to lock. Two more mutexes have a holder given
by the place of a thread: JACK's notification thread holds
`ports_to_connect_mutex_` in `on_port` (`OnPort`, `PortToConnect`,
`OnPortReturns`), for which the streaming thread waits with the ports' mutex in
hand, and there takes the mutex of the queued connections, for which every process
cycle waits (`LockQueuedPorts`, `ConnectQueuedPorts`). After the rings were made the
streaming thread may take the ports' mutex again to connect them
(`LockToAutoConnect`), and a cycle ends early when a port has no buffer
(`NoPortBuffer`). JACK pops with `pop_samples`, which moves the read head by
what was asked; PulseAudio pops with `pop_samples_as_channel`, which moves it by
what was there. `put` and `taken` count, for the properties, the samples that
entered and left each ring; a sample is its number in the stream.

`SampleQueue` says what the two threads may expect of a ring, without cells, heads
or an atomic counter: a queue of bounded length per channel, a put that appends
samples all at once and within the bound, a pop that hands out the oldest samples
one by one and removes at its end exactly those. The refinement maps the cells
from the read head on, as many as are in use, to the queue (`RingQueue`), and the
destination of the pop to what it handed out. A sample that is written joins the queue
with the `fetch_sub`, and one that is copied leaves it with the `fetch_add`. The
promise holds for the rings whose usage the cycle looked at and
for all of `PulseSink` (`CheckedRings`); for the other rings of JACK it fails,
which is the finding `audio_sink_stereo`.

A behaviour is the life of one stream. A stream whose number of channels changes
replaces the vector of rings under readers that take no lock (hazards at
`shmdata-to-jack.cpp:210` and `pulsesink.cpp:355`).

### PeriodicTask and ShmdataTree

`PeriodicTask` has the steps of the class: the thread looks at the flag
(`CheckCanceled`), takes the mutex and evaluates the predicate of its wait
(`LockCv`), waits, which releases the mutex (`BeginWait`), and runs the task when
the period is over (`PeriodOver`, `TaskReturns`); the destructor sets the flag
(`Cancel`), notifies when it has the mutex (`Notify`) and joins (`Join`). `CvFree`
is the mutex: the thread holds it from its look at the flag to its wait, and
while the task runs.

`ShmdataTree` extends it with what the task is for. One branch of a quiddity's
tree is written by the *owner* of one of four kinds of objects (a `Follower` that
fills the branch in its constructor or on connection, a `Writer`, or the
`GstTreeUpdater` of an `AudioTestSource`), by its *reader* (the thread of the
shmdata reader, or GStreamer's streaming thread) and by the periodic task
(`Tick`). Each graft and each prune is one step, so `initialize_tree` is three
(`InitTree`: prune, template, the former children again). Destruction has the
order of the code: reader joined (`JoinReader`), branch pruned (`Prune`), callback
disconnected (`Unsubscribe`), task destroyed, and for the source the pipeliner,
the pipe and the main loop, which dispatches its idle sources meanwhile
(`PipelinerDestroyed`, `PipeDestroyed`, `LoopJoined`, `Dispatch`). Then another
life begins on what the former one has left in the tree.

### Bundle

A bundle keeps, for each member, the list of members to connect and that of those
connected, and swaps the two as a whole. A handler is one step with the signal it
answers: `CapsKnown` and `StatGrafted` (`Grafted` is `on_tree_grafted` for a
writer), `WriterPruned`, `push` and `remove` of a member's property with the
mirror that follows. `conn` is what the first follower of each member is connected
to. When that follower is meta (`meta_first`), `connect_raw` makes another from it,
and `generated` has those: bundles ask only the first follower to disconnect, which
then does nothing. A callback that refuses to connect leaves `conn` as it was, and so
does one that refuses to disconnect (`Refusing`, `refused`).
`SetStarted` is the bundle's property with `Startable` in front of the members',
up to the first that refuses. The variable `regular` is history: the members whose
writers came one at a time and were read by every member piped after them. A
description may pipe a member after several others (`cam ! win & .cam ! conv !
.win`); it has one follower for all of them, so that the last writer to get its
caps has it, and `SinksFollowWriters` promises such a member only that its first
follower is never connected to a writer that is gone. That promise excepts a member
that refused, and says nothing of followers made from a meta one, which do stay
connected (see Observations).
Handlers of one bundle are taken one at a time; see section 6.

### SwitcherState

`get_state` is an operator from the quiddities and the identifiers at the last
reset to the tree, `load_state` the action that creates the quiddities of a tree,
finds each nickname (in an unordered map: any of those that have it) and applies
properties, then user data, then `started`. Constructors and values may fail. The
user creates, removes, renames, edits, resets; the session saves to, copies,
overwrites, removes and loads files. The creations of a load are tried in any
order (`tried`, from identifiers to nicknames). Names are a stem and an extension, as every
operation but `remove` replaces the extension by `.json`. Identifiers are those
of `Ids`; below the wrap-around the vector has them in ascending order, so that
what erasing some leaves is the rest in order (`InOrder`).

### Webrtc

Three kinds of threads: the user's (`start`, `StartReturns`, `stop`, `StopAtOnce`,
`StopLocks`, `StopReturns`, `SetPath`), the main loop's, which each start makes anew
(`StartSource`, `ServerConnected` and `Subscribed`, `StopSource`,
`connection_closed` and `StoppingReset`, and the messages), and GStreamer's, which
run the continuations of promises (`offer_created`, `local_description_set`,
`remote_description_set`, `answer_created`). Messages are dispatched in
`wss_message` and handled in a step of their own, so that a stop may come in
between. `stop` looks at the connection with `pipeline_mutex_` only; it takes
`connection_mutex_` as well in a later step (`StopLocks`), before which
`connection_closed` may have reset the connection, and keeps both while it polls
(`PipelineFree`, `ConnectionFree`). Other holders have a mutex within one step; the
handlers that add, remove and call peers take none, and each is taken as one step.
A start joins the former loop: what was attached there is never dispatched, and a
connection made there is never `Served` again. `bins` are the peers whose webrtcbin
is in the pipeline, `peers` those registered. Adding and removing a peer have the
places where they fail half way (`AddNewPeer`, `RemovePeer`), so that the two sets
may differ either way. A continuation finds its promise without a reply or with one
(`unanswered` has the peers whose offer was lost so). The signalling server
(`FromServer`) and libsoup (`ServerCloses`, `SocketClosed`) are external: the server
answers when it likes, closes when it likes, after which the socket is closing for
some turns of the loop, and sends any message that fits what it was told.

The `MC` modules give the constants of these modules values, and name symmetry sets.

## 3. What is checked

| Run | Instance | Checks |
| --- | --- | --- |
| `threaded_wrapper` | 2 clients, 1 call each, 2 nested tasks, fair | `TypeOK`, `SyncTaskCallerBlocked`, `AsyncInOrder`, `ReturnsAfterOwnRun`, `DestroyedAfterDrain`, `SyncAfterEarlierAsync`, `TasksSeeLiveMember`, the refinement `ImplementsPromise`, `CallReturns`, `SubmittedExecuted`, `DestructorReturns` |
| `container_two_creators` | 2 creating threads, 1 self destruction, 3 creations, no failure | `IdsAgree`, `MutexOutlivesHandover`, `IdsNotRecycled` |
| `container_life` | 1 creating thread, 1 self destruction, 2 callbacks of each kind, failures, fair | `TypeOK`, `RemovalAnnounced`, `CreationAnnounced`, `RemoveReturns`, `SelfDestructed` |
| `container_failed_creation` | 2 creating threads, failures | `FailedIdReleased` is violated |
| `claw` | 2 quiddities, identifiers up to 4, types replaced by two others | `SpecAgrees`, `DynamicConnected`, `NewWriterUnfollowed`, `FailedTryLeavesNoTrace` |
| `audio_sink` | JACK with 1 and 2 channels, PulseAudio with 2; rings of 3, buffers and cycles of 1 or 2, 6 samples; fair | `TypeOK`, `SpaceAccounted`, `ImplementsQueue`, `CycleReturns` |
| `audio_sink_stereo` | JACK with 2 channels, 5 samples | `EveryRingInOrder` is violated |
| `shmdata_tree` | the 4 kinds of owners, 2 types, 3 lives, fair | `CapsShown`, `LeavesNoType`, `DestructionEnds` |
| `bundle` | 3 members, one piped after both others, 3 writers of two of them, 2 types, the converter's first follower meta or not and refusing or not, properties with a group; the two writers of one member are symmetric | `SinksFollowWriters`, `MirrorsAgree` |
| `bundle_start` | the same, 2 members to start | `StartedTogether` is violated |
| `switcher_state` | 4 identifiers, 2 edits, failures | `CreatedIsSaved`, `LoadRestores` |
| `webrtc` | 1 peer, 2 starts, fair | `PolledConnectionLives`, `CutOffOnlyAfterFailure`, `StoppedIsSilent`, `StopCompletes`, `CalledPeerGetsOffer` |

Why the bounds are enough to see the interesting cases.

* *Threaded wrapper.* Two clients contend for `sync_mtx_` while the owner's
  destructor, itself a call, follows: three calls, each of which finds what
  another left in `task_done_` and `sync_task_`; two nested tasks let a task of
  the destructor's last batch submit one. The safety properties are also proved
  without the bounds, for any number of calls.
* *Container.* Three creations by two threads with a removal in between reach
  every order of allocation, insertion and removal of two identifiers and one
  more. The run has no failures, because with two creating threads and a failure
  `IdsAgree` does not hold, which is the finding below; with one creating thread
  it does, failures included, which is the theorem `OneCreatorIdsAgree`. Two callbacks of
  each kind let the first change what happens to the second while the copy is
  walked through. Callbacks and a second creator do not influence each other's
  properties, hence two runs.
* *Claw.* Two entries of the specification and identifiers up to 4 on each side
  let a meta follower be connected, disconnected and connected again until no
  identifier is left, which exercises the paths where the allocation fails. The
  properties are also proved without the bounds.
* *Audio.* A ring of three is cut by buffers of two, so that reads and writes
  wrap at every offset; six samples wrap it twice. `MaxSamples` ends a
  behaviour: the streaming thread stops, the cycles go on. This bound is the
  reason why that run does not look for deadlock.
* *Shmdata tree.* The safety properties are also proved for any number of lives and
  any types. A second life starts on what the first left in the tree, a third
  on what the second made of it. Two types let a reconnection change the type. The
  owner stops after its last life, hence no look for deadlock.
* *Bundle.* Two writers of one member that come, get caps and go in any order make
  the lists be swapped an odd and an even number of times; two members piped after
  it, of which one reads one type only, are connected together or apart. The
  property with a group and the one without are installed before and after one
  another. The window is piped after the camera and after the converter, so that
  two members' writers contend for its one follower. The camera's two writers are
  interchangeable, which makes their symmetry sound: 3.6 million states remain. The
  window installs no property but its group, and only it is started, as neither has
  to do with connections. The converter stands for the meta and for the refusing
  members: it is piped after one member and before another.
  Both properties are also proved without the bounds. A bundle that is destroyed does
  nothing more, hence no look for deadlock.
* *Switcher.* Four identifiers are two quiddities at a reset and two since, or two
  that are saved and removed and two that one load makes of them; a creation that
  fails uses up an identifier too. Two edits give a nickname to two quiddities, or
  change a value. Identifiers stay below the wrap-around, whose effects `Ids` has. Both properties
  are also proved without the bounds on quiddities, edits and names.
* *Webrtc.* Two starts let an answer to the first come during the second. One peer
  has every order of its own joining, leaving, calls and continuations with start
  and stop; peers share nothing but the tees and the connection. The safety
  properties are also proved without the bounds.

Fairness, and why the code justifies it.

* `ThreadedWrapper`: the worker's own steps are weakly fair (a running thread
  goes on). The acquisition of a mutex, and the return from a condition variable,
  which acquires one, are strongly fair: the mutex is free again and again, and a
  scheduler that lets one thread lose every race for it for ever is ruled out.
  That is an assumption on the platform's mutexes; with weak fairness alone the
  polling worker could keep `cv_m_` from a caller for ever. Nothing makes a client
  call.
* `QuiddityContainer`: a removal that has begun goes on, and a detached thread
  that was made starts and runs. That includes callbacks and destructors that
  return, which is up to the quiddities. Nothing makes a user call.
* `AudioSink`: a cycle that has begun goes on, and gets the mutex of the queued
  connections in the end although `on_port` may take it again and again (strong
  fairness, as above); `on_port` returns, as it waits inside for that mutex only,
  which the cycle holds while it calls `jack_connect`; that such a call made in the
  process callback returns is an assumption on JACK. Nothing is assumed of the
  streaming thread: `CycleReturns` shows that the playing thread ends its cycle even
  when the streaming thread stops in the middle of a put, or while it holds the mutex
  of the ports.
* `ShmdataTree`: threads go on, and the destructor gets `dtor_mutex_` in the end
  although callbacks take it again and again (strong fairness). That a period ends
  is not assumed: `DestructionEnds` says that the notification suffices.
* `Webrtc`: waits with a time-out end, `stop` gets `connection_mutex_`, idle sources and
  handlers run, a closing handshake ends (libsoup has a time-out for it), the
  continuations of an offer are run. Nothing makes the user or the server act.

## 4. Where the code and its documentation disagree

Each is a run whose counterexample is the sequence of calls.

* `container_failed_creation`: a failed creation releases the *last* identifier
  allocated (`container.cpp:109`). If another thread has begun a creation
  meanwhile, that one loses its identifier, and its quiddity can no more be
  removed, while the comment at `container.cpp:69` says that the failed one's is
  removed.
* `audio_sink_stereo`: `jack_process` looks at the usage of the first ring and
  pops all of them, while the streaming thread fills them in turn. `pop_samples`
  with too few samples moves the read head by what was asked and gives back what
  was there (`audio-ring-buffer_spec.hpp:59`), so that the second channel plays
  other samples than it should from then on.
* `bundle_start`: when a member refuses to start, those before it stay started
  while the bundle is stopped (`bundle.cpp:419`); setting `started` to false then
  returns at `startable.cpp:37` and stops nobody, although
  `doc/writing-bundles.md:103` calls the members' state "entirely dependant" on
  the bundle's.

Observations. The models take these steps as the code has them; they were met
while modelling, and no run is about them.

* `claw.cpp:119`: `connect_raw` stores the path with `emplace`. A follower
  connected again without a disconnection follows the new path, and
  `get_follower_shmpath` answers the old one.
* `connection-spec.cpp:389` and `:409`: the index of the new types is never
  incremented, so the tree shows the last type only (`shm-delay.cpp:104` gives
  two). `connection-spec.cpp:306`: the types given with a new writer go to the tree
  and not to the map that decides on compatibility.
* `webrtc.cpp:149`: a stop after the server has closed the connection returns true
  at once, leaves the media running and `stopping_` set for good, so that no later
  start succeeds; `webrtc.hpp:185` says that it stops "transmitting/receiving
  media".
* `webrtc.cpp:149` and `:170`: the connection is looked at without
  `connection_mutex_`, and `connection_closed` may reset it before `stop` has the
  mutex; the state of no object is then read, and `stop` fails. Otherwise `stop`
  keeps `pipeline_mutex_` while it polls, which the stop source needs (`:210`): the
  socket is closed after the poll has given up, so that `stop` waits its three
  seconds and fails unless the server closes meanwhile. When the server closes
  between that and the stop source, media that the handler of a message has started
  after `:158` play on.
* `webrtc.cpp:161`: `stop` replaces the pipeline before the stop source removes the
  peers from it (`:217`), which fails as there are no tees. `peers_` keeps them; when
  they are called after a restart they count as added, without a webrtcbin. The
  same becomes of a peer whose removal fails half way (`:857` to `:907`); adding may
  leave a webrtcbin without a registration (`:1109`).
* `bundle.cpp:404`: the followers `video%` of `shmdata-dynamic-reader.cpp:36` and
  `stream%` of `avrec.cpp:44` are meta. Connecting them makes a follower each time
  (`claw.cpp:97`), which the bundle does not record: when the writer is gone it asks
  the meta one to disconnect, and the one made stays connected. In `avrec.cpp:362`
  the identifier is then not found, and the end of the vector is erased.
  `connection-spec.cpp:213` finds out whether a follower is meta by comparing with
  the end of the writers' map: for an identifier never allocated any answer may come.
* `follower.cpp:58`: the destructor prunes the branch and the periodic task, a member
  destroyed after it, may tick once more and graft statistics into a branch that is
  gone. `LeavesNoType` says what is never left.
* `follower.cpp:50`: a follower that fills its branch in the constructor does so
  while its reader's thread may already graft the caps, which can be lost. This is
  the exception in `CapsShown`.
* `bundle.cpp:265`: a writer that goes before it had caps swaps the lists once too
  often, and with two writers the second is not connected while the first is there.
  `SinksFollowWriters` says what holds then, and what holds in the regular case.
  `bundle.cpp:303` looks for the group of a new property under the member's name
  where `:204` uses the name of the group, so that later properties of a member
  with a group are not mirrored.
* `switcher.cpp:95` clears nothing, although `pyswitch.cpp:347` documents that
  loading clears the quiddities created after a reset; readers are never saved, as
  no quiddity has the method "connect-quid" (`switcher.cpp:277`); a quiddity whose
  nickname is in use is not created, and the one that has it gets the properties.
* `session.cpp:55`: names that differ in an extension other than `.json` are one
  file, which `remove` does not find under that name (`:89`).

## 5. What is proved

The proofs hold for every value of the constants that satisfies the named
assumptions of the modules: any number of clients, threads, callbacks, quiddities,
channels, any size of ring, buffer or cycle. Each `_proofs` module follows the
same line: an inductive invariant that holds initially and is preserved by every
action, one step per action and, below, one per conjunct the action can disturb;
the properties follow from it.

**ThreadedWrapper_proofs.** `TypeCorrect`, `CallerBlocked`, `InOrder`, `OwnRun`,
`Drain`, `Barrier`, `LiveMember`, and `Refinement`, `Spec => ImplementsPromise`.
None of the properties is inductive alone: that a call returns after its own task
depends on who holds `sync_mtx_` (`SyncMutex`), on which lambda is in `sync_task_`
and what `task_done_` says of it (`HandShake`), and on how often it ran
(`RunCount`); the barrier also on the queue and batch being what was submitted and
not executed (`Queues`, `Barriers`). The refinement proves that every step is a
step of `TaskExecutor` or leaves the mapped state alone, from the same invariant.
Assumptions: `ThreadsAssumption` (the threads are distinct), `BoundsAssumption`.

**Ids_proofs.** As long as the counter has not wrapped around, the identifier
given is the successor of the last one and is free (`NextIsSuccessor`), with the
lemmas on removal from a sequence without duplicates that the container and the
claw need. Assumption: `IdMaxAssumption`.

**QuiddityContainer_proofs.** `TypeCorrect`, `HandoverSafe`, `NotRecycled`,
`RemovalsAnnounced`, `CreationsAnnounced` for any number of threads, failures
included. The invariant adds that identifiers are in ascending order and below the
counter, that what is under construction is distinct between threads and not yet
in the map (`Fresh`), which quiddities' mutexes are held (`Locks`), and, for the
callbacks, that those registered when the call began and still registered are
either called or in the copy still to go through (`RemovalPending`,
`CreationPending`). `OneCreatorIdsAgree` proves `IdsAgree` when one thread
creates: the last identifier allocated is then its own. `SeveralCreatorsIdsAgree`
proves it for any number of creating threads when no creation fails (`MayFail =
FALSE`), since the last identifier is then never released; without that
hypothesis it is the finding `container_failed_creation`. Assumption:
`ContainerAssumption`, which keeps the creations below the wrap-around.

**IdsUsers_proofs** proves about the two models that use `Ids`. For `Claw`:
`SpecsAgree`, `Connected`, `Unfollowed`, `NoTrace`. The invariant
says, per side, that labels, types and tree list the same identifiers, that no key
of the tree is used twice (entries of the specification have their index as key,
generated ones their identifier), and that all identifiers ever given are at or
below the counter; and that every path known to a follower is either raw or was
made of an identifier already given. The last is why a new writer is never
followed by surprise, and it rests on identifiers never being released.
Assumptions: `IdMaxAssumption`, `ClawAssumption`.

For `SwitcherState`: `CreatedAlwaysSaved` and `LoadAlwaysRestores`, for any
quiddities, nicknames and files. `get_state` decides what was made since the
reset by an identifier not being in `quiddities_at_reset_`, where identifiers of
quiddities that are gone stay. What makes this right is that all of them are at or
below the counter, and all given later above it (`ResetIsPast`), with the
identifiers of the container being exactly those of the quiddities
(`QuiddityOfEach`). The load needs that a state which parses has a `started` value
for every quiddity it creates (`FilesSavable`: `get_state` writes one for all of
them, and files are states that were saved, copies, or of no use). Then a
nickname that was free belongs, after the creations, to the one quiddity created
with it, whatever the order of the creations (`tried`); the lookup finds that one
(`FreshIsLoaded`); and it is saved again as it was, also where other nicknames are
in use twice. The lists of identifiers are dealt with by what a sorted sequence
of a finite set is (`InOrderFacts`), what is left when identifiers are erased from
a list (`ErasedGood`) and when new ones are appended (`ExtendedGood`).
Assumptions: `IdMaxAssumption`, `StateAssumption`, which keeps the identifiers
below the wrap-around.

**AudioSink_proofs.** `TypeCorrect` (the unsigned space never wraps), `Space`,
`InOrder` (what a pop vouches for is what was put next), and `Refinement`,
`Spec => ImplementsQueue`. The invariant has the contents of a ring (`Contents`:
between the heads are the samples not yet taken, in order, and behind the write head those of the
put under way), what each thread knows from its last atomic load although the
other has moved since (`Producing`: the space is at least what was loaded;
`Consuming`: the usage is), and that a ring that plays is one whose usage was
looked at. For the refinement this says that the cells in use are the samples put
and not taken (`InvQueued`); the `fetch_sub` and both `fetch_add`s are then steps of
`SampleQueue`, a copied sample is handed out, and no other step is seen, whatever
it writes into the cells. Assumptions: `BufferSizeAssumption`, `SetupsAssumption`,
`SizesAssumption`, `MaxSamplesAssumption`.

**Webrtc_proofs.** `TypeCorrect`, `PolledConnectionAlwaysLives`,
`CutOffAlwaysAfterFailure` and `StoppedAlwaysSilent`, for any peers and any number of
starts. That the connection `stop` polls is there depends on when it was locked, and
that `stopping_` is still set on what is queued: a stop that is queued or begun goes
on unless the connection was closed first (`StopGoesOn`), and a handler that resets
either runs for a closed socket (`HandlersServed`). That a connection is cut off only
after a failure depends on a start asking for one connection at most (`AskedOnce`,
`LoopIsMade`), on every start that returned with its request open having failed or
found the connection of a former loop (`FailureIsKnown`), and on a connection that no
start reported and no stop ends being one whose start failed
(`ConnectionIsStarted`, `NoneAskedFor`). Silence needs that the stop source, once it
has run, leaves neither an open socket nor a pipeline, and that no handler makes
another on a socket that is not open (`StopSourceDone`). Assumption:
`WebrtcAssumption`.

**ShmdataTree_proofs.** `CapsAlwaysShown`, `NoTypeIsLeft`, and `NoThreadIsLeft`,
which is about the end of `PeriodicTask` as its users rely on it: a destroyed
object has no thread left that could write. The branch alone says little while
`initialize_tree` is between its prune and its regraft, so the invariant follows
the type into what the caller holds meanwhile (`TypeIsSomewhere`, `HeldOnly`). That
nothing is left needs that a follower which was not connected in this life has put
no type anywhere (`NoTypeBefore`), which excuses the destructor for not pruning
then, and that nothing which runs after the prune writes one (`PrunedForGood`);
both rest on where each kind of object may be and when its reader may call back
(`Courses`, `NotYetPlayed`, `TaskEnds`). Assumptions: `KindsAssumption`,
`TypesAssumption` (the types are not the words for their absence).

**Bundle_proofs.** `SinksAlwaysFollow` and `MirrorsAlwaysAgree` for any members,
pipes, writers and properties. For the connections: the two lists of a member are
always its pipes and nothing, in one order or the other (`ListsSwapped`);
connections are recorded along pipes only, and every one of a member that has not
refused is recorded, while a first follower that is meta is never connected itself
(`Recorded`), so that the handler of a pruned writer finds all those it can undo
although it looks in one list; and for a member of the regular case the list to
connect is full exactly as long as its writer has no caps (`RegularLists`), which
is what makes the swaps come out right. For the mirrors: only displayed properties have one (`MirrorsDisplayed`), and the handler
of a removal looks no further. Assumption: `BundleAssumption`.

Every invariant and every action property of a run that passes is thus proved.
Only model-checked are the liveness properties (`CallReturns`,
`SubmittedExecuted`, `DestructorReturns`, `RemoveReturns`, `SelfDestructed`,
`CycleReturns`, `DestructionEnds`, `StopCompletes`, `CalledPeerGetsOffer`), since
the prover has no support for fairness.

## 6. What is not modelled

* Inside the components that are modelled: the forced paths of the claw, which
  only a bundle sets, and syntax errors of a specification; reading samples without
  a destination, and the functions of the ring buffer nothing calls; which ports the
  sound servers have and connect; a stream whose number of channels changes.
* Floating point (drift observer, resampler): in the sinks, the choice of a size.
* Formatting and parsing (JSON, paths, descriptions, durations), logging, files.
* What GStreamer, shmdata, JACK, PulseAudio, PJSIP and the devices do. Where the
  modelled code calls them, a call succeeds, fails, or calls back at any time.
* Of the components modelled in part: replacement of and subscriptions to
  properties (a replaced property counts its subscriptions from 0 again,
  `pbag.cpp:55`), the forwarding of a bundle's reader and the removal of a member,
  custom states, the received streams of Webrtc and its ICE candidates,
  `invoke_in_main_loop`, which nothing calls.
* Data races, whose outcome is undefined: registrations of callbacks in two threads
  (`container.cpp:195`), `uridecodebin.cpp:302` adding writers from a streaming
  thread, `on_xrun` walking through rings that are replaced
  (`shmdata-to-jack.cpp:210`) and `on_port` reading the ports while they are
  (`:487`), messages of Webrtc whose handlers use the pipeline and `peers_` without
  `pipeline_mutex_` while `stop` replaces the pipeline (`webrtc.cpp:814`, `:925`),
  although `webrtc.hpp` says that the mutex is for them, handlers of a bundle swapping a member's lists in
  two threads (`bundle.cpp:228`), `get_state` using a quiddity another thread
  removes (`switcher.cpp:236`). In `Webrtc` the erasure from `peers_` while it is
  walked through (`webrtc.cpp:217`) is a choice among the removals.
* Two things that are defined and that nothing in the repository promises:
  nicknames are not unique when two threads create at once, and JACK's channels
  drift apart when a ring overflows (`shmdata-to-jack.cpp:262`).
* The SIP plug-in: its states follow the callbacks of PJSIP, whose order is not
  visible in this repository. The other plug-ins drive devices and libraries.

## 7. Plan

Done: threaded wrapper, container, claw, audio sinks, shmdata tree with periodic
tasks and pipelines, bundle, saved states and sessions, Webrtc. What is left, in
this order:

1. **Audio**: a stream whose number of channels changes.
2. **Subscriptions** of properties and signals across replacement.
