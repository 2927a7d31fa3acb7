------------------------------ MODULE AudioSink ------------------------------
(***************************************************************************)
(* The two quiddities that play a followed audio stream through one ring   *)
(* per channel: ShmdataToJack (src/plugins/jack/shmdata-to-jack.cpp, with  *)
(* the xrun accounting of jack-client.cpp) and PulseSink                   *)
(* (src/plugins/pulse/pulsesink.cpp).                                      *)
(*                                                                         *)
(* The streaming thread makes the rings when it learns the number of       *)
(* channels, then puts each buffer channel after channel.  The playing     *)
(* thread (JACK's process thread, PulseAudio's main loop) looks at the     *)
(* usage of the first ring only and, unless it plays silence, pops from    *)
(* every ring.  JACK's rings are made under output_ports_mutex_, which the *)
(* process thread only tries.  A third thread, JACK's notifications, runs  *)
(* on_port under ports_to_connect_mutex_, which the streaming thread also  *)
(* takes while it replaces the ports, and queues connections under         *)
(* port_to_connect_in_jack_process_mutex_, for which every process cycle   *)
(* waits.  The two mutexes have no variable of their own: the places of    *)
(* the threads that hold them say who does.  jack_connect is external and  *)
(* is taken to return; which ports it connects is left out.                *)
(*                                                                         *)
(* put and taken are history: how many samples of the stream entered each  *)
(* ring and how many left it.                                              *)
(***************************************************************************)
EXTENDS AudioRingBuffer, Sequences

CONSTANTS
    Setups,         \* the sinks considered: records of a sink and a number of channels
    NewSizes,       \* the sizes a buffer may have once resampled
    Frames,         \* the numbers of frames the sound server may ask for
    MaxSamples      \* bound on the samples put into one ring

ASSUME SetupsAssumption == Setups \subseteq [sink : {"jack", "pulse"}, channels : Nat \ {0}]
ASSUME SizesAssumption == NewSizes \subseteq Nat /\ Frames \subseteq Nat \ {0}
ASSUME MaxSamplesAssumption == MaxSamples \in Nat

VARIABLES
    setup,          \* the quiddity at work and the stream it follows
    rings,          \* ring_buffers_
    locked,         \* output_ports_mutex_: "none", "stream" or "play"
    stream_is_on,   \* pa_stream_is_on_, TRUE from the start with JACK
    xrun,           \* whether xrun_count_ is not 0
    producer,       \* the streaming thread
    consumer,       \* the playing thread
    notifier,       \* JACK's notification thread, in on_port
    put, taken

vars == <<setup, rings, locked, stream_is_on, xrun, producer, consumer, notifier, put, taken>>

Jack == setup.sink = "jack"
Channels == 1 .. setup.channels

ProducerIdle == [pc |-> "idle", chan |-> 1, size |-> 0, res |-> 0, done |-> 0]
ConsumerIdle == [pc |-> "idle", chan |-> 1, num |-> 0, res |-> 0, dest |-> <<>>]

Init ==
    /\ setup \in Setups
    /\ rings = <<>>
    /\ locked = "none"
    /\ stream_is_on = Jack
    /\ xrun = FALSE
    /\ producer = ProducerIdle
    /\ consumer = ConsumerIdle
    /\ notifier = "idle"
    /\ put = [c \in Channels |-> 0]
    /\ taken = [c \in Channels |-> 0]

-----------------------------------------------------------------------------
(* The streaming thread: on_handoff_cb, on_shmreader_connected and          *)
(* on_shmreader_data.                                                       *)

\* on_channel_update waits for the mutex before it replaces ports and rings.
LockPorts ==
    /\ Jack
    /\ producer.pc = "idle"
    /\ rings = <<>>
    /\ locked = "none"
    /\ locked' = "stream"
    /\ producer' = [producer EXCEPT !.pc = "update"]
    /\ UNCHANGED <<setup, rings, stream_is_on, xrun, consumer, notifier, put, taken>>

\* Where a thread in on_port holds ports_to_connect_mutex_.
PortsToConnectHeld == notifier # "idle"

\* The rest of on_channel_update, which waits for ports_to_connect_mutex_ as well;
\* PulseAudio's rings are made at the connection.
MakeRings ==
    /\ \/ Jack /\ producer.pc = "update" /\ ~PortsToConnectHeld
       \/ ~Jack /\ producer.pc = "idle" /\ rings = <<>>
    /\ rings' = [c \in Channels |-> NewRing]
    /\ locked' = "none"
    /\ producer' = [ProducerIdle EXCEPT !.pc = IF Jack THEN "made" ELSE "idle"]
    /\ UNCHANGED <<setup, stream_is_on, xrun, consumer, notifier, put, taken>>

\* connect_ports does nothing unless auto_connect is set.
SkipConnection ==
    /\ producer.pc = "made"
    /\ producer' = ProducerIdle
    /\ UNCHANGED <<setup, rings, locked, stream_is_on, xrun, consumer, notifier, put, taken>>

\* Otherwise it takes the mutex of the ports again, for the calls to jack_connect.
LockToAutoConnect ==
    /\ producer.pc = "made"
    /\ locked = "none"
    /\ locked' = "stream"
    /\ producer' = [producer EXCEPT !.pc = "autoconnect"]
    /\ UNCHANGED <<setup, rings, stream_is_on, xrun, consumer, notifier, put, taken>>

AutoConnected ==
    /\ producer.pc = "autoconnect"
    /\ locked' = "none"
    /\ producer' = ProducerIdle
    /\ UNCHANGED <<setup, rings, stream_is_on, xrun, consumer, notifier, put, taken>>

\* A buffer arrives; resampling gives it size samples per channel.
Handoff(size) ==
    /\ producer.pc = "idle"
    /\ rings # <<>>
    /\ stream_is_on
    /\ \A c \in Channels : put[c] + size <= MaxSamples
    /\ producer' = [ProducerIdle EXCEPT !.pc = "load", !.size = size]
    /\ UNCHANGED <<setup, rings, locked, stream_is_on, xrun, consumer, notifier, put, taken>>

NextPut ==
    IF producer.chan = setup.channels
    THEN ProducerIdle
    ELSE [ProducerIdle EXCEPT !.pc = "load", !.size = producer.size, !.chan = producer.chan + 1]

\* put_samples reads the space left; what does not fit is dropped.
LoadSpace ==
    LET res == Clipped(producer.size, rings[producer.chan].available_size) IN
    /\ producer.pc = "load"
    /\ producer' = IF res = 0 THEN NextPut
                              ELSE [producer EXCEPT !.pc = "write", !.res = res]
    /\ UNCHANGED <<setup, rings, locked, stream_is_on, xrun, consumer, notifier, put, taken>>

WriteSample ==
    /\ producer.pc = "write"
    /\ producer.done < producer.res
    /\ rings' = [rings EXCEPT ![producer.chan] =
                    Stored(@, put[producer.chan] + producer.done + 1)]
    /\ producer' = [producer EXCEPT !.done = @ + 1]
    /\ UNCHANGED <<setup, locked, stream_is_on, xrun, consumer, notifier, put, taken>>

\* The fetch_sub that makes the samples visible to the other thread.
PublishSamples ==
    /\ producer.pc = "write"
    /\ producer.done = producer.res
    /\ rings' = [rings EXCEPT ![producer.chan] = Published(@, producer.res)]
    /\ put' = [put EXCEPT ![producer.chan] = @ + producer.res]
    /\ producer' = NextPut
    /\ UNCHANGED <<setup, locked, stream_is_on, xrun, consumer, notifier, taken>>

-----------------------------------------------------------------------------
(* The playing thread: JackClient::jack_process, ShmdataToJack::on_xrun and *)
(* jack_process, PulseSink::stream_write_cb.                                *)

\* JACK reports an xrun; the next process cycle takes it into account.
OnXRun ==
    /\ Jack
    /\ ~xrun
    /\ xrun' = TRUE
    /\ UNCHANGED <<setup, rings, locked, stream_is_on, producer, consumer, notifier, put, taken>>

\* One and a half of JACK's buffers are kept.
Keep(nframes) == (3 * nframes) \div 2

\* A cycle that starts after an xrun shrinks the rings before it plays.
ShrinkAfterXRun(nframes) ==
    /\ consumer.pc = "idle"
    /\ xrun
    /\ xrun' = FALSE
    /\ consumer' = [ConsumerIdle EXCEPT !.pc = IF rings = <<>> THEN "ports" ELSE "shrink",
                                        !.num = nframes]
    /\ UNCHANGED <<setup, rings, locked, stream_is_on, producer, notifier, put, taken>>

NextShrink ==
    IF consumer.chan = setup.channels
    THEN [ConsumerIdle EXCEPT !.pc = "ports", !.num = consumer.num]
    ELSE [ConsumerIdle EXCEPT !.pc = "shrink", !.num = consumer.num, !.chan = consumer.chan + 1]

\* shrink_to reads the usage and leaves a ring that holds less alone.
LoadUsageToShrink ==
    LET usage == get_usage(rings[consumer.chan]) IN
    /\ consumer.pc = "shrink"
    /\ consumer' = IF usage < Keep(consumer.num)
                   THEN NextShrink
                   ELSE [consumer EXCEPT !.pc = "drop", !.res = usage - Keep(consumer.num)]
    /\ UNCHANGED <<setup, rings, locked, stream_is_on, xrun, producer, notifier, put, taken>>

DropOldest ==
    /\ consumer.pc = "drop"
    /\ rings' = [rings EXCEPT ![consumer.chan] = Shrunk(@, consumer.res)]
    /\ taken' = [taken EXCEPT ![consumer.chan] = @ + consumer.res]
    /\ consumer' = NextShrink
    /\ UNCHANGED <<setup, locked, stream_is_on, xrun, producer, notifier, put>>

\* A cycle that no xrun precedes.
BeginPlay(nframes) ==
    /\ consumer.pc = "idle"
    /\ ~xrun
    /\ Jack \/ rings # <<>>
    /\ stream_is_on' = TRUE
    /\ consumer' = [ConsumerIdle EXCEPT !.pc = IF Jack THEN "ports" ELSE "play",
                                        !.num = nframes]
    /\ UNCHANGED <<setup, rings, locked, xrun, producer, notifier, put, taken>>

\* jack_process first waits for port_to_connect_in_jack_process_mutex_.
LockQueuedPorts ==
    /\ consumer.pc = "ports"
    /\ notifier # "queueing"
    /\ consumer' = [consumer EXCEPT !.pc = "connect"]
    /\ UNCHANGED <<setup, rings, locked, stream_is_on, xrun, producer, notifier, put, taken>>

\* It connects the ports queued for it, forgets them and releases the mutex.
ConnectQueuedPorts ==
    /\ consumer.pc = "connect"
    /\ consumer' = [consumer EXCEPT !.pc = "play"]
    /\ UNCHANGED <<setup, rings, locked, stream_is_on, xrun, producer, notifier, put, taken>>

\* (mutant) The process thread waits for the mutex it finds taken.
WaitsForPorts == consumer

\* The mutex is only tried: a cycle that finds it taken leaves the ports alone.
PortsBusy == ConsumerIdle

\* (mutant) The rings are popped whatever they hold.
SilenceWithoutRings == rings = <<>>

\* Only the usage of the first ring is looked at.
write_zero == rings = <<>> \/ get_usage(rings[1]) < consumer.num

\* Silence is played, or every ring is popped, under the mutex with JACK.
CheckUsage ==
    /\ consumer.pc = "play"
    /\ IF Jack /\ locked # "none"
       THEN consumer' = PortsBusy /\ UNCHANGED locked
       ELSE IF write_zero
            THEN consumer' = ConsumerIdle /\ UNCHANGED locked
            ELSE /\ consumer' = [consumer EXCEPT !.pc = "pop"]
                 /\ locked' = IF Jack THEN "play" ELSE locked
    /\ UNCHANGED <<setup, rings, stream_is_on, xrun, producer, notifier, put, taken>>

\* JACK has no buffer for the port: the cycle returns, the ports that follow untouched.
NoPortBuffer ==
    /\ Jack
    /\ consumer.pc = "pop"
    /\ consumer' = ConsumerIdle
    /\ locked' = "none"
    /\ UNCHANGED <<setup, rings, stream_is_on, xrun, producer, notifier, put, taken>>

LastPop == consumer.chan = setup.channels

NextPop ==
    IF LastPop
    THEN ConsumerIdle
    ELSE [ConsumerIdle EXCEPT !.pc = "pop", !.num = consumer.num, !.chan = consumer.chan + 1]

\* The scope of the lock ends with the last channel.
LockedAfterPop == IF Jack /\ LastPop THEN "none" ELSE locked

\* pop_samples and pop_samples_as_channel read the usage, and return on an empty ring.
LoadUsage ==
    LET res == Clipped(consumer.num, get_usage(rings[consumer.chan])) IN
    /\ consumer.pc = "pop"
    /\ IF res = 0
       THEN consumer' = NextPop /\ locked' = LockedAfterPop
       ELSE /\ consumer' = [consumer EXCEPT !.pc = "copy", !.res = res]
            /\ UNCHANGED locked
    /\ UNCHANGED <<setup, rings, stream_is_on, xrun, producer, notifier, put, taken>>

\* pop_samples copies the number of samples asked for, pop_samples_as_channel res.
CopyLength == IF Jack THEN consumer.num ELSE consumer.res

CopySample ==
    /\ consumer.pc = "copy"
    /\ Len(consumer.dest) < CopyLength
    /\ consumer' = [consumer EXCEPT !.dest =
                        Append(@, SampleAt(rings[consumer.chan], Len(@)))]
    /\ UNCHANGED <<setup, rings, locked, stream_is_on, xrun, producer, notifier, put, taken>>

ReadAfter(r) ==
    IF Jack THEN ReadAfterPop(r, consumer.num) ELSE ReadAfterPopAsChannel(r, consumer.res)

\* The fetch_add that gives the space back.
FreeSpace ==
    /\ consumer.pc = "copy"
    /\ Len(consumer.dest) = CopyLength
    /\ rings' = [rings EXCEPT ![consumer.chan] = Freed(@, ReadAfter(@), consumer.res)]
    /\ taken' = [taken EXCEPT ![consumer.chan] = @ + consumer.res]
    /\ consumer' = NextPop
    /\ locked' = LockedAfterPop
    /\ UNCHANGED <<setup, stream_is_on, xrun, producer, notifier, put>>

-----------------------------------------------------------------------------
(* JACK's notification thread, in on_port.                                  *)

\* A port is registered; ports_to_connect_mutex_ is taken, whatever the port is.
OnPort ==
    /\ Jack
    /\ notifier = "idle"
    /\ notifier' = "looking"
    /\ UNCHANGED <<setup, rings, locked, stream_is_on, xrun, producer, consumer, put, taken>>

\* It is an input to connect with: the mutex of the process cycle is waited for.
PortToConnect ==
    /\ notifier = "looking"
    /\ rings # <<>>
    /\ consumer.pc # "connect"
    /\ notifier' = "queueing"
    /\ UNCHANGED <<setup, rings, locked, stream_is_on, xrun, producer, consumer, put, taken>>

\* on_port returns, from another port or from the queue it has pushed a connection to.
OnPortReturns ==
    /\ notifier # "idle"
    /\ notifier' = "idle"
    /\ UNCHANGED <<setup, rings, locked, stream_is_on, xrun, producer, consumer, put, taken>>

-----------------------------------------------------------------------------
StreamStep ==
    \/ LockPorts
    \/ MakeRings
    \/ SkipConnection
    \/ LockToAutoConnect
    \/ AutoConnected
    \/ \E size \in NewSizes : Handoff(size)
    \/ LoadSpace
    \/ WriteSample
    \/ PublishSamples

BeginCycle == \E nframes \in Frames : ShrinkAfterXRun(nframes) \/ BeginPlay(nframes)

PlayStep ==
    \/ LoadUsageToShrink
    \/ DropOldest
    \/ LockQueuedPorts
    \/ ConnectQueuedPorts
    \/ CheckUsage
    \/ NoPortBuffer
    \/ LoadUsage
    \/ CopySample
    \/ FreeSpace

NotifierStep == OnPort \/ PortToConnect \/ OnPortReturns

Next == StreamStep \/ OnXRun \/ BeginCycle \/ PlayStep \/ NotifierStep

Spec == Init /\ [][Next]_vars

\* The playing thread runs and is served by the mutex it waits for, which on_port
\* releases.  Nothing is assumed of the streaming thread, which may stop anywhere, its
\* mutex in hand, nor of how often ports are registered.
FairSpec ==
    /\ Spec
    /\ WF_vars(PlayStep)
    /\ SF_vars(LockQueuedPorts)
    /\ WF_vars(OnPortReturns)

-----------------------------------------------------------------------------
Ring == [buffer : [Cells -> 0 .. MaxSamples], available_size : 0 .. BufferSize,
         read : 0 .. BufferSize, write : Cells]

\* The variables have the values their declarations allow; in particular the unsigned
\* available_size_ never goes below 0 nor above the size of the buffer.
TypeOK ==
    /\ setup \in Setups
    /\ rings = <<>> \/ rings \in [Channels -> Ring]
    /\ locked \in {"none", "stream", "play"}
    /\ stream_is_on \in BOOLEAN
    /\ xrun \in BOOLEAN
    /\ producer \in [pc : {"idle", "update", "made", "autoconnect", "load", "write"},
                     chan : Channels,
                     size : NewSizes \cup {0}, res : Nat, done : Nat]
    /\ consumer \in [pc : {"idle", "shrink", "drop", "ports", "connect", "play", "pop", "copy"},
                     chan : Channels, num : Frames \cup {0}, res : 0 .. BufferSize, dest : Seq(0 .. MaxSamples)]
    /\ notifier \in {"idle", "looking", "queueing"}
    /\ put \in [Channels -> 0 .. MaxSamples]
    /\ taken \in [Channels -> 0 .. MaxSamples]

\* Space is neither lost nor made up: available_size_ is the capacity less the
\* samples published and not yet removed, in every ring and at every point of
\* put_samples, of both pops and of shrink_to.
SpaceAccounted ==
    rings # <<>> =>
        \A c \in Channels : rings[c].available_size = BufferSize - (put[c] - taken[c])

\* The samples a pop vouches for (the res it returns) are those that were put after
\* the ones removed before, in order, for ring c.
PopsInOrder(c) ==
    consumer.pc = "copy" /\ consumer.chan = c =>
        \A k \in 1 .. Len(consumer.dest) :
            k <= consumer.res => consumer.dest[k] = taken[c] + k

\* "Pop or remove samples from the ring buffer to a user-provided buffer", returning
\* the "number of sample actually processed": so of every ring, also of those whose
\* usage the cycle did not look at and that another thread is still filling.
EveryRingInOrder == \A c \in Channels : PopsInOrder(c)

\* Whether the cycle looked at the usage of the ring, or pops it with
\* pop_samples_as_channel, which takes what there is.
Checked(c) == ~Jack \/ c = 1
CheckedRings == {c \in Channels : Checked(c)}

\* What a queue of the promise is: the cells from the read head on, as many as are
\* in use; what a pop handed out is in its destination.
RingQueue(c) ==
    IF rings = <<>> THEN <<>>
    ELSE [k \in 1 .. get_usage(rings[c]) |-> SampleAt(rings[c], k - 1)]

HandedOut(c) == IF consumer.chan = c THEN consumer.dest ELSE <<>>

Promise == INSTANCE SampleQueue WITH
    Capacity <- BufferSize,
    channels <- CheckedRings,
    put <- [c \in CheckedRings |-> put[c]],
    queue <- [c \in CheckedRings |-> RingQueue(c)],
    out <- [c \in CheckedRings |-> HandedOut(c)]

\* These rings are queues of samples: at no point of an unlocked put, pop or shrink is
\* a sample that was put lost, played twice, out of order, or overwritten before it is
\* played, nor is space lost or made up.
ImplementsQueue == Promise!QueueSpec

\* The cycle of the playing thread ends even if the streaming thread is stopped while
\* it holds output_ports_mutex_, waits inside it for ports_to_connect_mutex_, or is in
\* the middle of a put: no chain of waits leads from the cycle to that thread.  It does
\* wait for on_port, which pushes one connection under the mutex they share.
CycleReturns == consumer.pc # "idle" ~> consumer.pc = "idle"
=============================================================================
