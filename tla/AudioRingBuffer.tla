--------------------------- MODULE AudioRingBuffer ---------------------------
(***************************************************************************)
(* The single channel ring of audio samples of                             *)
(* src/switcher/utils/audio-ring-buffer_spec.hpp, as a record and the      *)
(* pieces of its operations.  One thread puts, one thread pops; they share *)
(* the atomic available_size only, so a module that interleaves them takes *)
(* each load, each copied sample and each fetch_add or fetch_sub as a step.*)
(* A sample is the number of the put that stored it; 0 is the value the    *)
(* buffer is created with.                                                 *)
(***************************************************************************)
EXTENDS Integers

CONSTANT BufferSize     \* size_in_sample, the capacity of a ring

ASSUME BufferSizeAssumption == BufferSize \in Nat \ {0}

Cells == 0 .. BufferSize - 1

NewRing == [buffer |-> [i \in Cells |-> 0], available_size |-> BufferSize, read |-> 0, write |-> 0]

\* (mutant) The number asked for is not limited to what there is.
Unclipped(num, available) == num

\* res in put_samples, pop_samples and pop_samples_as_channel.
Clipped(num, available) == IF available < num THEN available ELSE num

get_usage(r) == BufferSize - r.available_size

\* One turn of the loop of put_samples.
Stored(r, sample) ==
    [r EXCEPT !.buffer[r.write] = sample,
              !.write = IF r.write + 1 = BufferSize THEN 0 ELSE r.write + 1]

Published(r, res) == [r EXCEPT !.available_size = @ - res]

\* The k-th sample (from 0) that a copy starting at the read head meets, whether
\* memcpy runs to the end of the buffer and starts again or a loop wraps its index.
SampleAt(r, k) == r.buffer[(r.read + k) % BufferSize]

\* pop_samples into a buffer: the read head moves by the number asked for, and
\* rests on BufferSize when the copy ends with the last cell.
ReadAfterPop(r, num) ==
    IF BufferSize - r.read >= num THEN r.read + num ELSE num - (BufferSize - r.read)

\* pop_samples_as_channel: the read head moves with each of the res samples.
ReadAfterPopAsChannel(r, res) == (r.read + res) % BufferSize

Freed(r, read, res) == [r EXCEPT !.read = read, !.available_size = @ + res]

\* (mutant) The space of the samples removed is not given back.
ShrunkInPlace(r, res) == [r EXCEPT !.read = (r.read + res) % BufferSize]

\* shrink_to removes the res oldest samples.
Shrunk(r, res) == Freed(r, (r.read + res) % BufferSize, res)
=============================================================================
