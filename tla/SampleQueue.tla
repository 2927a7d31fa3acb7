----------------------------- MODULE SampleQueue -----------------------------
(***************************************************************************)
(* What utils/audio-ring-buffer.hpp promises a thread that puts and a      *)
(* thread that pops, without cells, heads or counters: for each channel a  *)
(* queue of bounded length, from which samples are handed out and removed  *)
(* in the order in which they were put, none of them twice.                *)
(***************************************************************************)
EXTENDS Naturals, Sequences

CONSTANT Capacity

VARIABLES
    channels,   \* the rings that keep the promise
    put,        \* per channel: how many samples were put, which is the last one's name
    queue,      \* per channel: the samples put and not removed, the oldest first
    out         \* per channel: those handed out by the pop under way

queueVars == <<channels, put, queue, out>>

QueueInit ==
    /\ put = [c \in channels |-> 0]
    /\ queue = [c \in channels |-> <<>>]
    /\ out = [c \in channels |-> <<>>]

\* The n samples of the stream that follow the last one put.
Following(last, n) == [k \in 1 .. n |-> last + k]

\* A put appends samples all at once, as many as there is room for.
Put(c, n) ==
    /\ Len(queue[c]) + n <= Capacity
    /\ queue' = [queue EXCEPT ![c] = @ \o Following(put[c], n)]
    /\ put' = [put EXCEPT ![c] = @ + n]
    /\ UNCHANGED <<channels, out>>

\* A pop hands out the oldest sample it has not handed out, which stays in the queue.
HandOut(c) ==
    /\ Len(out[c]) < Len(queue[c])
    /\ out' = [out EXCEPT ![c] = Append(@, queue[c][Len(@) + 1])]
    /\ UNCHANGED <<channels, put, queue>>

\* What is left of a queue without its n oldest samples.
Without(c, n) == SubSeq(queue[c], n + 1, Len(queue[c]))

\* The end of a pop removes what it handed out.
Remove(c) ==
    /\ queue' = [queue EXCEPT ![c] = Without(c, Len(out[c]))]
    /\ out' = [out EXCEPT ![c] = <<>>]
    /\ UNCHANGED <<channels, put>>

\* The n oldest samples are dropped, of a queue that no pop reads.
Drop(c, n) ==
    /\ out[c] = <<>>
    /\ queue' = [queue EXCEPT ![c] = Without(c, n)]
    /\ UNCHANGED <<channels, put, out>>

QueueNext ==
    \E c \in channels :
        \/ HandOut(c)
        \/ Remove(c)
        \/ \E n \in 1 .. Capacity : Put(c, n)
        \/ \E n \in 1 .. Len(queue[c]) : Drop(c, n)

QueueSpec == QueueInit /\ [][QueueNext]_queueVars
=============================================================================
