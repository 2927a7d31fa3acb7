--------------------------- MODULE AudioSink_proofs ---------------------------
(***************************************************************************)
(* For every size of ring, number of channels, size of buffer and number   *)
(* of frames: the accounting of the space and the order of the samples.    *)
(*                                                                         *)
(* Between the read head and the write head a ring holds the samples       *)
(* put and not yet taken, in order: Holds.  The positions involved never   *)
(* exceed twice the size of the ring, so the remainders are written out    *)
(* (Pos) and what is left is linear arithmetic.  From this follows that    *)
(* the cells in use are the queue of SampleQueue.                          *)
(***************************************************************************)
EXTENDS AudioSink, SequenceTheorems, TLAPS

\* The cell of a position between 0 and twice the size of the ring.
Pos(a) ==
    IF a < BufferSize THEN a
    ELSE IF a < 2 * BufferSize THEN a - BufferSize ELSE a - 2 * BufferSize

\* Ring r holds the samples t + 1 .. s, the oldest at its read head.
Holds(r, s, t) ==
    /\ t <= s
    /\ s - t <= BufferSize
    /\ r.write = Pos(r.read + (s - t))
    /\ \A j \in Cells : j < s - t => r.buffer[Pos(r.read + j)] = t + j + 1

\* Samples stored in ring c and not published yet.
Unpublished(c) == IF producer.pc = "write" /\ producer.chan = c THEN producer.done ELSE 0

Counted == \A c \in Channels : taken[c] <= put[c] /\ put[c] - taken[c] <= BufferSize

Contents ==
    rings # <<>> =>
        \A c \in Channels : Checked(c) => Holds(rings[c], put[c] + Unpublished(c), taken[c])

BeforeRings ==
    /\ rings = <<>> =>
          /\ producer.pc \in {"idle", "update"}
          /\ consumer.pc \in {"idle", "ports", "connect", "play"}
          /\ \A c \in Channels : put[c] = 0 /\ taken[c] = 0
    /\ producer.pc = "update" => rings = <<>>

Producing ==
    /\ producer.pc \in {"load", "write"} =>
          \A c \in Channels : c >= producer.chan => put[c] + producer.size <= MaxSamples
    /\ producer.pc = "load" => producer.done = 0
    /\ producer.pc = "write" =>
          /\ producer.res <= producer.size
          /\ producer.done <= producer.res
          /\ put[producer.chan] + producer.res - taken[producer.chan] <= BufferSize

Consuming ==
    /\ consumer.pc \in {"pop", "copy"} /\ Jack => consumer.num <= BufferSize
    /\ consumer.pc = "pop" /\ Jack /\ consumer.chan = 1 => consumer.num <= put[1] - taken[1]
    /\ consumer.pc \in {"drop", "copy"} =>
          consumer.res <= put[consumer.chan] - taken[consumer.chan]
    /\ consumer.pc = "copy" /\ Jack /\ consumer.chan = 1 => consumer.res = consumer.num
    /\ consumer.pc = "copy" /\ ~Jack => Len(consumer.dest) <= consumer.res
    /\ consumer.pc # "copy" => consumer.dest = <<>>

\* A pop hands out the samples that were put, each once and in order.
CheckedRingInOrder == \A c \in Channels : Checked(c) => PopsInOrder(c)

\* The inductive invariant.
Inv ==
    /\ TypeOK
    /\ Counted
    /\ SpaceAccounted
    /\ Contents
    /\ BeforeRings
    /\ Producing
    /\ Consuming
    /\ CheckedRingInOrder

-----------------------------------------------------------------------------
LEMMA ChannelsFacts ==
  ASSUME setup \in Setups
  PROVE  /\ setup.channels \in Nat \ {0}
         /\ 1 \in Channels
         /\ Channels \subseteq Nat \ {0}
         /\ setup.channels \in Channels
         /\ \A c \in Channels : c = setup.channels \/ c + 1 \in Channels
  BY SetupsAssumption DEF Channels

\* The remainders taken by the code are those of positions in reach.
LEMMA PosIsRemainder ==
  ASSUME NEW a \in 0 .. 2 * BufferSize
  PROVE  a % BufferSize = Pos(a) /\ Pos(a) \in Cells
<1> USE BufferSizeAssumption
<1>1. CASE a < BufferSize
  BY <1>1 DEF Pos, Cells
<1>2. CASE a >= BufferSize /\ a < 2 * BufferSize
  <2>1. a = BufferSize * 1 + (a - BufferSize) /\ a - BufferSize \in 0 .. BufferSize - 1
    BY <1>2
  <2>2. a % BufferSize = a - BufferSize
    BY <2>1
  <2> QED BY <2>1, <2>2, <1>2 DEF Pos, Cells
<1>3. CASE a = 2 * BufferSize
  <2>1. a = BufferSize * 2 + 0
    BY <1>3
  <2>2. a % BufferSize = 0
    BY <2>1
  <2> QED BY <2>2, <1>3 DEF Pos, Cells
<1> QED BY <1>1, <1>2, <1>3

LEMMA PosInCells ==
  ASSUME NEW a \in 0 .. 2 * BufferSize
  PROVE  Pos(a) \in Cells
  BY PosIsRemainder

LEMMA PosNext ==
  ASSUME NEW a \in 0 .. BufferSize, NEW d \in Cells
  PROVE  Pos(a + (d + 1)) = IF Pos(a + d) + 1 = BufferSize THEN 0 ELSE Pos(a + d) + 1
  BY BufferSizeAssumption DEF Pos, Cells

LEMMA PosDistinct ==
  ASSUME NEW a \in 0 .. BufferSize, NEW i \in Cells, NEW j \in Cells, i < j
  PROVE  Pos(a + i) # Pos(a + j)
  BY BufferSizeAssumption DEF Pos, Cells

LEMMA PosShift ==
  ASSUME NEW a \in 0 .. BufferSize, NEW b \in 0 .. BufferSize, NEW n \in Nat, NEW j \in Nat,
         n + j <= BufferSize, Pos(b) = Pos(a + n)
  PROVE  Pos(b + j) = Pos(a + (n + j))
<1> USE BufferSizeAssumption
<1>1. CASE a + n < BufferSize
  BY <1>1 DEF Pos
<1>2. CASE a + n >= BufferSize /\ a + n < 2 * BufferSize
  BY <1>2 DEF Pos
<1>3. CASE a + n = 2 * BufferSize
  BY <1>3 DEF Pos
<1> QED BY <1>1, <1>2, <1>3

-----------------------------------------------------------------------------
(* What the operations do to one ring. *)

LEMMA NewRingFacts ==
  /\ NewRing \in Ring
  /\ NewRing.available_size = BufferSize
  /\ Holds(NewRing, 0, 0)
  BY BufferSizeAssumption, MaxSamplesAssumption DEF NewRing, Ring, Cells, Holds, Pos

\* A sample is stored behind the youngest one.
LEMMA StoredFacts ==
  ASSUME NEW r \in Ring, NEW v \in 0 .. MaxSamples
  PROVE  /\ Stored(r, v) \in Ring
         /\ Stored(r, v).available_size = r.available_size
         /\ Stored(r, v).read = r.read
<1> DEFINE b == [r.buffer EXCEPT ![r.write] = v]
           w == IF r.write + 1 = BufferSize THEN 0 ELSE r.write + 1
<1>1. r.write \in Cells /\ r.buffer \in [Cells -> 0 .. MaxSamples]
  BY DEF Ring
<1>2. b \in [Cells -> 0 .. MaxSamples] /\ w \in Cells
  BY SMTT(30), <1>1, BufferSizeAssumption DEF Cells
<1>3. Stored(r, v) = [r EXCEPT !.buffer = b, !.write = w]
  BY DEF Stored
<1> HIDE DEF b, w
<1> QED BY <1>2, <1>3 DEF Ring

LEMMA StoredHolds ==
  ASSUME NEW r \in Ring, NEW s \in Nat, NEW t \in Nat,
         Holds(r, s, t), s - t < BufferSize, s + 1 <= MaxSamples
  PROVE  Holds(Stored(r, s + 1), s + 1, t)
<1> USE BufferSizeAssumption, MaxSamplesAssumption
<1> DEFINE q == Stored(r, s + 1)
<1>1. /\ r.read \in 0 .. BufferSize /\ r.write \in Cells
      /\ r.buffer \in [Cells -> 0 .. MaxSamples]
  BY DEF Ring
<1>2. /\ q.read = r.read
      /\ q.write = IF r.write + 1 = BufferSize THEN 0 ELSE r.write + 1
      /\ q.buffer = [r.buffer EXCEPT ![r.write] = s + 1]
  BY DEF Stored, Ring
<1>3. t <= s /\ r.write = Pos(r.read + (s - t))
  BY DEF Holds
<1>4. q.write = Pos(q.read + (s + 1 - t))
  <2>1. s - t \in Cells /\ s + 1 - t = (s - t) + 1
    BY <1>3 DEF Cells
  <2>2. Pos(r.read + ((s - t) + 1)) =
          IF Pos(r.read + (s - t)) + 1 = BufferSize THEN 0 ELSE Pos(r.read + (s - t)) + 1
    BY <2>1, <1>1, PosNext
  <2> QED BY <2>1, <2>2, <1>2, <1>3
<1>5. ASSUME NEW j \in Cells, j < s + 1 - t
      PROVE  q.buffer[Pos(q.read + j)] = t + j + 1
  <2>1. CASE j = s - t
    BY <2>1, <1>1, <1>2, <1>3
  <2>2. CASE j < s - t
    <3>1. Pos(r.read + j) # r.write /\ Pos(r.read + j) \in Cells
      <4>1. s - t \in Cells /\ j \in Cells /\ j < s - t /\ r.read \in 0 .. BufferSize
        BY <2>2, <1>1, <1>3 DEF Cells
      <4>2. Pos(r.read + j) # Pos(r.read + (s - t))
        BY <4>1, PosDistinct
      <4>3. r.read + j \in 0 .. 2 * BufferSize
        BY <4>1 DEF Cells
      <4> QED BY <4>2, <4>3, <1>3, PosInCells
    <3>2. r.buffer[Pos(r.read + j)] = t + j + 1
      BY <2>2 DEF Holds
    <3> QED BY <3>1, <3>2, <1>1, <1>2
  <2> QED BY <2>1, <2>2, <1>5 DEF Cells
<1> QED BY <1>3, <1>4, <1>5 DEF Holds

\* Removing the n oldest samples moves the read head to the next one.
LEMMA FreedHolds ==
  ASSUME NEW r \in Ring, NEW s \in Nat, NEW t \in Nat, NEW n \in Nat,
         NEW read \in 0 .. BufferSize,
         Holds(r, s, t), n <= s - t, Pos(read) = Pos(r.read + n),
         r.available_size + n <= BufferSize
  PROVE  /\ Freed(r, read, n) \in Ring
         /\ Freed(r, read, n).available_size = r.available_size + n
         /\ Holds(Freed(r, read, n), s, t + n)
<1> USE BufferSizeAssumption, MaxSamplesAssumption
<1> DEFINE q == Freed(r, read, n)
<1>1. /\ r.read \in 0 .. BufferSize /\ r.write \in Cells /\ r.available_size \in 0 .. BufferSize
      /\ r.buffer \in [Cells -> 0 .. MaxSamples]
  BY DEF Ring
<1>2. /\ q.read = read
      /\ q.write = r.write
      /\ q.buffer = r.buffer
      /\ q.available_size = r.available_size + n
  BY DEF Freed, Ring
<1>3. q \in Ring
  <2>1. r.available_size + n \in 0 .. BufferSize
    BY <1>1
  <2> QED BY <2>1 DEF Freed, Ring
<1>4. t <= s /\ s - t <= BufferSize /\ r.write = Pos(r.read + (s - t))
  BY DEF Holds
<1>5. PICK a \in 0 .. BufferSize : a = r.read
  BY <1>1
<1>6. ASSUME NEW i \in Nat, n + i <= BufferSize
      PROVE  Pos(read + i) = Pos(r.read + (n + i))
  <2>1. Pos(read) = Pos(a + n)
    BY <1>5
  <2>2. Pos(read + i) = Pos(a + (n + i))
    BY ONLY <2>1, <1>6, n \in Nat, i \in Nat, a \in 0 .. BufferSize, read \in 0 .. BufferSize,
            PosShift
  <2> QED BY <2>2, <1>5
<1>7. q.write = Pos(q.read + (s - (t + n)))
  <2>1. s - (t + n) \in Nat /\ n + (s - (t + n)) = s - t
    BY <1>4
  <2>2. Pos(read + (s - (t + n))) = Pos(r.read + (n + (s - (t + n))))
    BY <2>1, <1>4, <1>6
  <2> QED BY <2>1, <2>2, <1>2, <1>4
<1>8. ASSUME NEW j \in Cells, j < s - (t + n)
      PROVE  q.buffer[Pos(q.read + j)] = t + n + j + 1
  <2>1. j + n \in Cells /\ j + n < s - t
    BY <1>4, <1>8 DEF Cells
  <2>2. r.buffer[Pos(r.read + (j + n))] = t + (j + n) + 1
    BY <2>1 DEF Holds
  <2>3. Pos(read + j) = Pos(r.read + (j + n))
    <3>1. j \in Nat /\ n + j <= BufferSize /\ n + j = j + n
      BY <2>1 DEF Cells
    <3>2. Pos(read + j) = Pos(r.read + (n + j))
      BY <3>1, <1>6
    <3> QED BY <3>1, <3>2
  <2> QED BY <2>1, <2>2, <2>3, <1>2 DEF Cells
<1> QED BY <1>2, <1>3, <1>4, <1>7, <1>8 DEF Holds

\* A copied sample is the one expected.
LEMMA SampleHeld ==
  ASSUME NEW r \in Ring, NEW s \in Nat, NEW t \in Nat, NEW k \in Nat,
         Holds(r, s, t), k < s - t
  PROVE  SampleAt(r, k) = t + k + 1
<1> USE BufferSizeAssumption
<1>1. k \in Cells /\ r.read + k \in 0 .. 2 * BufferSize
  BY DEF Holds, Ring, Cells
<1>2. (r.read + k) % BufferSize = Pos(r.read + k)
  BY <1>1, PosIsRemainder
<1> QED BY <1>1, <1>2 DEF SampleAt, Holds

LEMMA SampleTyped ==
  ASSUME NEW r \in Ring, NEW k \in 0 .. BufferSize
  PROVE  SampleAt(r, k) \in 0 .. MaxSamples
<1>1. r.read + k \in 0 .. 2 * BufferSize
  BY BufferSizeAssumption DEF Ring
<1>2. (r.read + k) % BufferSize \in Cells
  BY <1>1, PosIsRemainder
<1> QED BY <1>2 DEF SampleAt, Ring

LEMMA FreedFacts ==
  ASSUME NEW r \in Ring, NEW n \in Nat, NEW read \in 0 .. BufferSize,
         r.available_size + n <= BufferSize
  PROVE  /\ Freed(r, read, n) \in Ring
         /\ Freed(r, read, n).available_size = r.available_size + n
<1>1. r.available_size + n \in 0 .. BufferSize
  BY BufferSizeAssumption DEF Ring
<1> QED BY <1>1 DEF Freed, Ring

-----------------------------------------------------------------------------
(* Steps of the streaming thread. *)

\* The rings do not exist at first.
LEMMA InitInv == Init => Inv
<1> SUFFICES ASSUME Init PROVE Inv
  OBVIOUS
<1>1. setup \in Setups /\ rings = <<>>
  BY DEF Init
<1>2. TypeOK
  <2>1. stream_is_on \in BOOLEAN
    BY DEF Init, Jack
  <2>2. <<>> \in Seq(0 .. MaxSamples)
    BY EmptySeq
  <2>3. 0 \in 0 .. MaxSamples /\ 0 \in 0 .. BufferSize
    BY BufferSizeAssumption, MaxSamplesAssumption
  <2>4. /\ ProducerIdle \in [pc : {"idle", "update", "made", "autoconnect", "load", "write"},
                              chan : Channels, size : NewSizes \cup {0}, res : Nat, done : Nat]
        /\ ConsumerIdle \in [pc : {"idle", "shrink", "drop", "ports", "connect", "play",
                                    "pop", "copy"},
                              chan : Channels, num : Frames \cup {0}, res : 0 .. BufferSize,
                              dest : Seq(0 .. MaxSamples)]
    BY <1>1, <2>2, <2>3, ChannelsFacts DEF ProducerIdle, ConsumerIdle
  <2> QED BY <2>1, <2>3, <2>4, <1>1 DEF Init, TypeOK
<1>3. Counted
  BY BufferSizeAssumption DEF Init, Counted
<1>4. SpaceAccounted /\ Contents
  BY <1>1 DEF SpaceAccounted, Contents
<1>5. BeforeRings /\ Producing /\ Consuming /\ CheckedRingInOrder
  BY DEF Init, BeforeRings, Producing, Consuming, CheckedRingInOrder, PopsInOrder, Checked,
         ProducerIdle, ConsumerIdle
<1> QED BY <1>2, <1>3, <1>4, <1>5 DEF Inv

LEMMA LockPortsInv == ASSUME Inv, LockPorts PROVE Inv'
<1> USE DEF Inv, LockPorts
<1>1. TypeOK'
  BY DEF TypeOK, Channels, Jack
<1>2. Counted' /\ SpaceAccounted' /\ Contents'
  BY DEF Counted, SpaceAccounted, Contents, Channels, Checked, Jack
<1>3. BeforeRings' /\ Producing'
  BY DEF BeforeRings, Producing, Channels, TypeOK
<1>4. Consuming' /\ CheckedRingInOrder'
  BY DEF Consuming, CheckedRingInOrder, PopsInOrder, Checked, Channels, Jack
<1> QED BY <1>1, <1>2, <1>3, <1>4

LEMMA MakeRingsInv == ASSUME Inv, MakeRings PROVE Inv'
<1> USE DEF Inv, MakeRings
<1>0. rings = <<>> /\ setup \in Setups
  BY DEF BeforeRings, TypeOK
<1>1. TypeOK'
  BY <1>0, ChannelsFacts, NewRingFacts DEF TypeOK, Channels, Jack, ProducerIdle
<1>2. /\ \A c \in Channels : put[c] = 0 /\ taken[c] = 0
      /\ consumer.pc \in {"idle", "ports", "connect", "play"}
  BY <1>0 DEF BeforeRings
<1>3. Counted' /\ SpaceAccounted'
  BY <1>2, NewRingFacts, BufferSizeAssumption DEF Counted, SpaceAccounted, Channels
<1>4. Contents'
  <2>1. ASSUME NEW c \in Channels
        PROVE  Holds(rings'[c], put'[c] + Unpublished(c)', taken'[c])
    <3>1. Unpublished(c)' = 0
      BY DEF Unpublished, ProducerIdle
    <3> QED BY <3>1, <1>2, NewRingFacts
  <2> QED BY <2>1 DEF Contents, Channels
<1>5. BeforeRings' /\ Producing'
  <2>1. rings' # <<>>
    <3>1. 1 \in DOMAIN rings'
      BY <1>0, ChannelsFacts
    <3>2. DOMAIN <<>> = {}
      OBVIOUS
    <3> QED BY <3>1, <3>2
  <2>2. producer'.pc \in {"idle", "made"}
    BY DEF ProducerIdle
  <2> QED BY <2>1, <2>2 DEF BeforeRings, Producing
<1>6. Consuming' /\ CheckedRingInOrder'
  BY <1>2 DEF Consuming, CheckedRingInOrder, PopsInOrder, Checked, Channels, Jack
<1> QED BY <1>1, <1>3, <1>4, <1>5, <1>6

\* connect_ports changes nothing but the place of the streaming thread.
LEMMA ConnectPortsInv ==
  ASSUME Inv, SkipConnection \/ LockToAutoConnect \/ AutoConnected PROVE Inv'
<1> USE DEF Inv, SkipConnection, LockToAutoConnect, AutoConnected
<1>0. /\ producer.pc \in {"made", "autoconnect"} /\ rings # <<>>
      /\ producer'.pc \in {"idle", "autoconnect"}
  <2>1. rings # <<>>
    BY DEF BeforeRings
  <2>2. CASE SkipConnection \/ AutoConnected
    BY <2>1, <2>2 DEF ProducerIdle
  <2>3. CASE LockToAutoConnect
    BY <2>1, <2>3 DEF TypeOK
  <2> QED BY <2>2, <2>3
<1>1. TypeOK'
  <2>1. CASE SkipConnection \/ AutoConnected
    <3>1. producer' = ProducerIdle /\ locked' \in {locked, "none"}
      BY <2>1
    <3>2. 1 \in Channels
      BY ChannelsFacts DEF TypeOK
    <3> QED BY <2>1, <3>1, <3>2 DEF TypeOK, Channels, Jack, ProducerIdle
  <2>2. CASE LockToAutoConnect
    BY <2>2 DEF TypeOK, Channels, Jack
  <2> QED BY <2>1, <2>2
<1>2. Counted' /\ SpaceAccounted'
  BY DEF Counted, SpaceAccounted, Channels
<1>3. Contents'
  BY <1>0 DEF Contents, Channels, Checked, Jack, Unpublished
<1>4. BeforeRings' /\ Producing'
  BY <1>0 DEF BeforeRings, Producing, Channels
<1>5. Consuming' /\ CheckedRingInOrder'
  BY DEF Consuming, CheckedRingInOrder, PopsInOrder, Checked, Channels, Jack
<1> QED BY <1>1, <1>2, <1>3, <1>4, <1>5

LEMMA HandoffInv == ASSUME Inv, NEW size \in NewSizes, Handoff(size) PROVE Inv'
<1> USE DEF Inv, Handoff
<1>1. TypeOK'
  BY ChannelsFacts DEF TypeOK, Channels, Jack, ProducerIdle
<1>2. Counted' /\ SpaceAccounted'
  BY DEF Counted, SpaceAccounted, Channels
<1>3. Contents'
  BY DEF Contents, Channels, Checked, Jack, Unpublished, ProducerIdle
<1>4. BeforeRings' /\ Producing'
  BY DEF BeforeRings, Producing, Channels, ProducerIdle
<1>5. Consuming' /\ CheckedRingInOrder'
  BY DEF Consuming, CheckedRingInOrder, PopsInOrder, Checked, Channels, Jack
<1> QED BY <1>1, <1>2, <1>3, <1>4, <1>5

LEMMA TypeFacts ==
  ASSUME TypeOK
  PROVE  /\ setup \in Setups /\ producer.chan \in Channels /\ consumer.chan \in Channels
         /\ producer.size \in Nat /\ producer.res \in Nat /\ producer.done \in Nat
         /\ consumer.num \in Nat /\ consumer.res \in 0 .. BufferSize /\ consumer.res \in Nat
         /\ consumer.dest \in Seq(0 .. MaxSamples)
<1>1. /\ setup \in Setups /\ producer.chan \in Channels
      /\ producer.size \in NewSizes \cup {0} /\ producer.res \in Nat /\ producer.done \in Nat
  BY DEF TypeOK
<1>2. /\ consumer.chan \in Channels /\ consumer.num \in Frames \cup {0}
      /\ consumer.res \in 0 .. BufferSize /\ consumer.dest \in Seq(0 .. MaxSamples)
  BY DEF TypeOK
<1>3. producer.size \in Nat /\ consumer.num \in Nat
  <2>1. NewSizes \cup {0} \subseteq Nat /\ Frames \cup {0} \subseteq Nat
    BY SizesAssumption
  <2> QED BY <2>1, <1>1, <1>2
<1>4. consumer.res \in Nat
  BY <1>2, BufferSizeAssumption
<1> QED BY <1>1, <1>2, <1>3, <1>4

\* The usage a thread reads is what was put and not taken.
LEMMA UsageFacts ==
  ASSUME Inv, rings # <<>>, NEW c \in Channels
  PROVE  /\ rings \in [Channels -> Ring] /\ rings[c] \in Ring
         /\ put[c] \in 0 .. MaxSamples /\ taken[c] \in 0 .. MaxSamples
         /\ taken[c] <= put[c] /\ put[c] - taken[c] <= BufferSize
         /\ rings[c].available_size = BufferSize - (put[c] - taken[c])
         /\ get_usage(rings[c]) = put[c] - taken[c]
<1>1. /\ rings \in [Channels -> Ring] /\ put[c] \in 0 .. MaxSamples /\ taken[c] \in 0 .. MaxSamples
  BY DEF Inv, TypeOK
<1>2. rings[c].available_size = BufferSize - (put[c] - taken[c])
  BY DEF Inv, SpaceAccounted
<1> QED BY <1>1, <1>2, BufferSizeAssumption, MaxSamplesAssumption
        DEF Inv, Counted, get_usage

\* After its last channel the producer is idle, otherwise it goes on with the next.
LEMMA NextPutFacts ==
  ASSUME TypeOK
  PROVE  /\ NextPut \in [pc : {"idle", "update", "made", "autoconnect", "load", "write"},
                          chan : Channels, size : NewSizes \cup {0}, res : Nat, done : Nat]
         /\ NextPut.pc \in {"idle", "load"}
         /\ NextPut.pc = "load" => /\ NextPut.size = producer.size
                                  /\ NextPut.chan = producer.chan + 1
                                  /\ NextPut.done = 0
<1>1. setup \in Setups /\ producer.chan \in Channels /\ producer.size \in NewSizes \cup {0}
  BY DEF TypeOK
<1>2. CASE producer.chan = setup.channels
  BY <1>1, <1>2, ChannelsFacts DEF NextPut, ProducerIdle
<1>3. CASE producer.chan # setup.channels
  BY <1>1, <1>3, ChannelsFacts DEF NextPut, ProducerIdle
<1> QED BY <1>2, <1>3

LEMMA LoadSpaceInv == ASSUME Inv, LoadSpace PROVE Inv'
<1> USE DEF Inv, LoadSpace
<1> DEFINE c == producer.chan
           res == Clipped(producer.size, rings[c].available_size)
<1>0. /\ c \in Channels /\ rings # <<>> /\ setup \in Setups
      /\ producer.size \in Nat
      /\ producer \in [pc : {"idle", "update", "made", "autoconnect", "load", "write"},
                        chan : Channels, size : NewSizes \cup {0}, res : Nat, done : Nat]
  BY TypeFacts DEF TypeOK, BeforeRings
<1>1. res \in Nat /\ res <= producer.size /\ put[c] + res - taken[c] <= BufferSize
  BY <1>0, UsageFacts, BufferSizeAssumption DEF Clipped
<1>2. \/ producer' = NextPut
      \/ producer' = [producer EXCEPT !.pc = "write", !.res = res]
  OBVIOUS
<1>3. TypeOK'
  <2>1. producer' \in [pc : {"idle", "update", "made", "autoconnect", "load", "write"},
                       chan : Channels, size : NewSizes \cup {0}, res : Nat, done : Nat]
    BY <1>0, <1>1, <1>2, NextPutFacts
  <2> QED BY <2>1 DEF TypeOK, Channels, Jack
<1>4. Counted' /\ SpaceAccounted'
  BY DEF Counted, SpaceAccounted, Channels
<1>5. Contents'
  <2>1. ASSUME NEW d \in Channels
        PROVE  Unpublished(d) = 0 /\ Unpublished(d)' = 0
    BY <1>0, <1>2, NextPutFacts DEF Unpublished, Producing
  <2> QED BY <2>1 DEF Contents, Channels, Checked, Jack
<1>6. BeforeRings'
  BY <1>0, <1>2, NextPutFacts DEF BeforeRings, Channels
<1>7. Producing'
  <2>1. CASE producer' = NextPut
    <3>1. ASSUME NEW d \in Channels, d >= producer.chan + 1
          PROVE  put[d] + producer.size <= MaxSamples
      BY <3>1, <1>0, ChannelsFacts DEF Producing
    <3> QED BY <2>1, <3>1, NextPutFacts DEF Producing, Channels
  <2>2. CASE producer' = [producer EXCEPT !.pc = "write", !.res = res]
    <3>1. /\ producer'.pc = "write" /\ producer'.chan = c /\ producer'.size = producer.size
          /\ producer'.res = res /\ producer'.done = 0
      BY <2>2, <1>0 DEF Producing
    <3>2. \A d \in Channels : d >= c => put[d] + producer.size <= MaxSamples
      BY DEF Producing
    <3> QED BY <3>1, <3>2, <1>1 DEF Producing, Channels
  <2> QED BY <1>2, <2>1, <2>2
<1>8. Consuming' /\ CheckedRingInOrder'
  BY DEF Consuming, CheckedRingInOrder, PopsInOrder, Checked, Channels, Jack
<1> QED BY <1>3, <1>4, <1>5, <1>6, <1>7, <1>8

LEMMA WriteSampleInv == ASSUME Inv, WriteSample PROVE Inv'
<1> USE DEF Inv, WriteSample
<1> DEFINE c == producer.chan
           v == put[c] + producer.done + 1
<1>0. /\ c \in Channels /\ rings # <<>> /\ setup \in Setups
      /\ producer.size \in Nat /\ producer.res \in Nat /\ producer.done \in Nat
      /\ producer \in [pc : {"idle", "update", "made", "autoconnect", "load", "write"},
                        chan : Channels, size : NewSizes \cup {0}, res : Nat, done : Nat]
  BY TypeFacts DEF TypeOK, BeforeRings
<1>1. /\ rings \in [Channels -> Ring] /\ rings[c] \in Ring
      /\ put[c] \in 0 .. MaxSamples /\ taken[c] \in 0 .. MaxSamples
  BY <1>0, UsageFacts
<1>2. /\ v \in 0 .. MaxSamples
      /\ put[c] + producer.done - taken[c] < BufferSize
      /\ put[c] + producer.res - taken[c] <= BufferSize
      /\ producer.done + 1 <= producer.res /\ producer.res <= producer.size
  <2>1. /\ producer.res <= producer.size /\ producer.done < producer.res
        /\ put[c] + producer.res - taken[c] <= BufferSize
        /\ put[c] + producer.size <= MaxSamples
    BY <1>0, ChannelsFacts DEF Producing
  <2>2. /\ put[c] \in Nat /\ taken[c] \in Nat /\ BufferSize \in Nat /\ MaxSamples \in Nat
        /\ producer.size \in Nat /\ producer.res \in Nat /\ producer.done \in Nat
    BY <1>0, <1>1, BufferSizeAssumption, MaxSamplesAssumption
  <2>3. \A p, t, d, r, z, n, m \in Nat :
          r <= z /\ d < r /\ p + r - t <= n /\ p + z <= m =>
            /\ p + d + 1 \in 0 .. m /\ p + d - t < n /\ d + 1 <= r
    OBVIOUS
  <2> QED BY <2>1, <2>2, <2>3
<1>3. /\ rings' \in [Channels -> Ring]
      /\ rings'[c] = Stored(rings[c], v)
      /\ \A d \in Channels : d # c => rings'[d] = rings[d]
  BY <1>0, <1>1, <1>2, StoredFacts
<1>4. producer' = [producer EXCEPT !.done = producer.done + 1]
  OBVIOUS
<1>5. TypeOK'
  <2>1. producer' \in [pc : {"idle", "update", "made", "autoconnect", "load", "write"},
                       chan : Channels, size : NewSizes \cup {0}, res : Nat, done : Nat]
    BY <1>0, <1>4
  <2>2. rings' \in [Channels' -> Ring] /\ Channels' = Channels /\ Jack' = Jack
    BY <1>3 DEF Channels, Jack
  <2> QED BY <2>1, <2>2 DEF TypeOK
<1>6. Counted'
  BY DEF Counted, Channels
<1>7. SpaceAccounted'
  <2>1. \A d \in Channels : rings'[d].available_size = rings[d].available_size
    <3>1. Stored(rings[c], v).available_size = rings[c].available_size
      BY <1>1, <1>2, StoredFacts
    <3> QED BY <3>1, <1>3
  <2> QED BY <2>1, <1>0 DEF SpaceAccounted, Channels
<1>8. Contents'
  <2>1. ASSUME NEW d \in Channels, Checked(d)
        PROVE  Holds(rings'[d], put[d] + Unpublished(d)', taken[d])
    <3>1. Holds(rings[d], put[d] + Unpublished(d), taken[d])
      BY <2>1, <1>0 DEF Contents
    <3>2. CASE d = c
      <4>1. Unpublished(d) = producer.done /\ Unpublished(d)' = producer.done + 1
        BY <3>2, <1>0, <1>4 DEF Unpublished
      <4>2. put[c] + producer.done \in Nat /\ taken[c] \in Nat
        BY <1>0, <1>1, MaxSamplesAssumption
      <4>3. Holds(Stored(rings[c], v), v, taken[c])
        <5>1. PICK s \in Nat : s = put[c] + producer.done
          BY <4>2
        <5>2. Holds(rings[c], s, taken[c]) /\ s - taken[c] < BufferSize /\ s + 1 <= MaxSamples
          <6>1. Holds(rings[c], s, taken[c])
            BY <3>1, <3>2, <4>1, <5>1
          <6>2. s - taken[c] < BufferSize /\ s + 1 = v
            BY SMTT(30), <5>1, <1>0, <1>1, <1>2, MaxSamplesAssumption
          <6> QED BY <6>1, <6>2, <1>2, <4>2
        <5>3. Holds(Stored(rings[c], s + 1), s + 1, taken[c])
          BY <4>2, <5>2, <1>1, StoredHolds
        <5> QED BY <5>1, <5>3
      <4>4. v = put[c] + (producer.done + 1)
        BY <1>0, <1>1, MaxSamplesAssumption
      <4> QED BY <3>2, <4>1, <4>3, <4>4, <1>3
    <3>3. CASE d # c
      <4>1. Unpublished(d) = 0 /\ Unpublished(d)' = 0
        BY <3>3, <1>0, <1>4 DEF Unpublished
      <4> QED BY <3>1, <3>3, <4>1, <1>3
    <3> QED BY <3>2, <3>3
  <2> QED BY <2>1 DEF Contents, Channels, Checked, Jack
<1>9. BeforeRings'
  BY <1>0, <1>4 DEF BeforeRings, Channels
<1>10. Producing'
  BY <1>0, <1>2, <1>4 DEF Producing, Channels
<1>11. Consuming' /\ CheckedRingInOrder'
  BY DEF Consuming, CheckedRingInOrder, PopsInOrder, Checked, Channels, Jack
<1> QED BY <1>5, <1>6, <1>7, <1>8, <1>9, <1>10, <1>11

LEMMA PublishSamplesInv == ASSUME Inv, PublishSamples PROVE Inv'
<1> USE DEF Inv, PublishSamples
<1> DEFINE c == producer.chan
<1>0. /\ c \in Channels /\ rings # <<>> /\ setup \in Setups
      /\ producer.size \in Nat /\ producer.res \in Nat /\ producer.done = producer.res
  BY TypeFacts DEF BeforeRings
<1>1. /\ rings \in [Channels -> Ring] /\ rings[c] \in Ring
      /\ put[c] \in 0 .. MaxSamples /\ taken[c] \in 0 .. MaxSamples
      /\ taken[c] <= put[c]
      /\ rings[c].available_size = BufferSize - (put[c] - taken[c])
      /\ put \in [Channels -> 0 .. MaxSamples]
  BY <1>0, UsageFacts DEF TypeOK
<1>2. /\ put[c] + producer.res - taken[c] <= BufferSize
      /\ put[c] + producer.res \in 0 .. MaxSamples
  <2>1. /\ producer.res <= producer.size
        /\ put[c] + producer.res - taken[c] <= BufferSize
        /\ put[c] + producer.size <= MaxSamples
    BY <1>0, ChannelsFacts DEF Producing
  <2> QED BY <2>1, <1>0, <1>1, MaxSamplesAssumption
<1>3. /\ put' \in [Channels -> 0 .. MaxSamples]
      /\ put'[c] = put[c] + producer.res
      /\ \A d \in Channels : d # c => put'[d] = put[d]
  BY <1>0, <1>1, <1>2
<1>4. /\ Published(rings[c], producer.res) \in Ring
      /\ Published(rings[c], producer.res).available_size = BufferSize - (put'[c] - taken[c])
      /\ Published(rings[c], producer.res).buffer = rings[c].buffer
      /\ Published(rings[c], producer.res).read = rings[c].read
      /\ Published(rings[c], producer.res).write = rings[c].write
  <2>1. /\ rings[c].available_size - producer.res \in 0 .. BufferSize
        /\ rings[c].available_size - producer.res = BufferSize - (put'[c] - taken[c])
    <3>1. /\ rings[c].available_size = BufferSize - (put[c] - taken[c])
          /\ put'[c] = put[c] + producer.res
          /\ put[c] + producer.res - taken[c] <= BufferSize
          /\ put[c] \in Nat /\ taken[c] \in Nat /\ taken[c] <= put[c]
          /\ producer.res \in Nat /\ BufferSize \in Nat
      BY <1>0, <1>1, <1>2, <1>3, BufferSizeAssumption, MaxSamplesAssumption
    <3> QED BY ONLY <3>1
  <2> QED BY <2>1, <1>1 DEF Published, Ring
<1>5. /\ rings' \in [Channels -> Ring]
      /\ rings'[c] = Published(rings[c], producer.res)
      /\ \A d \in Channels : d # c => rings'[d] = rings[d]
  BY <1>0, <1>1, <1>4
<1>6. TypeOK'
  <2>1. rings' \in [Channels' -> Ring] /\ Channels' = Channels /\ Jack' = Jack
    BY <1>5 DEF Channels, Jack
  <2>2. producer' = NextPut /\ put' \in [Channels -> 0 .. MaxSamples]
    BY <1>3
  <2> QED BY <2>1, <2>2, NextPutFacts DEF TypeOK
<1>7. Counted'
  <2>1. ASSUME NEW d \in Channels PROVE taken[d] <= put'[d] /\ put'[d] - taken[d] <= BufferSize
    BY <1>0, <1>1, <1>2, <1>3, MaxSamplesAssumption DEF Counted
  <2> QED BY <2>1 DEF Counted, Channels
<1>8. SpaceAccounted'
  <2>1. ASSUME NEW d \in Channels
        PROVE  rings'[d].available_size = BufferSize - (put'[d] - taken[d])
    BY <1>0, <1>3, <1>4, <1>5 DEF SpaceAccounted
  <2> QED BY <2>1 DEF SpaceAccounted, Channels
<1>9. Contents'
  <2>1. ASSUME NEW d \in Channels, Checked(d)
        PROVE  Holds(rings'[d], put'[d] + Unpublished(d)', taken[d])
    <3>1. Holds(rings[d], put[d] + Unpublished(d), taken[d])
      BY <2>1, <1>0 DEF Contents
    <3>2. Unpublished(d)' = 0
      BY NextPutFacts DEF Unpublished
    <3>3. CASE d = c
      <4>1. put'[d] + Unpublished(d)' = put[d] + Unpublished(d)
        BY <3>2, <3>3, <1>0, <1>1, <1>3, MaxSamplesAssumption DEF Unpublished
      <4> QED BY <3>1, <3>3, <4>1, <1>4, <1>5 DEF Holds
    <3>4. CASE d # c
      <4>1. Unpublished(d) = 0
        BY <3>4 DEF Unpublished
      <4> QED BY <3>1, <3>2, <3>4, <4>1, <1>3, <1>5
    <3> QED BY <3>3, <3>4
  <2> QED BY <2>1 DEF Contents, Channels, Checked, Jack
<1>10. BeforeRings'
  <2>1. rings' # <<>>
    <3>1. DOMAIN rings' = Channels /\ 1 \in Channels /\ DOMAIN <<>> = {}
      BY <1>0, <1>5, ChannelsFacts
    <3> QED BY <3>1
  <2> QED BY <2>1, NextPutFacts DEF BeforeRings
<1>11. Producing'
  <2>1. ASSUME NEW d \in Channels, d >= c + 1
        PROVE  put'[d] + producer.size <= MaxSamples
    <3>1. d # c /\ d >= c
      BY <2>1, <1>0, ChannelsFacts
    <3> QED BY <3>1, <1>3 DEF Producing
  <2> QED BY <2>1, NextPutFacts DEF Producing, Channels
<1>12. Consuming'
  <2>1. /\ setup \in Setups /\ consumer.chan \in Channels /\ 1 \in Channels
        /\ consumer.res \in 0 .. BufferSize /\ consumer.num \in Nat
    BY <1>0, ChannelsFacts, TypeFacts
  <2>2. ASSUME NEW d \in Channels, NEW n \in Nat, n <= put[d] - taken[d]
        PROVE  n <= put'[d] - taken[d]
    <3>1. put[d] \in Nat /\ put'[d] \in Nat /\ taken[d] \in Nat /\ put'[d] >= put[d]
      BY <1>0, <1>1, <1>3, MaxSamplesAssumption DEF TypeOK
    <3> QED BY <2>2, <3>1
  <2> QED BY <2>1, <2>2, BufferSizeAssumption DEF Consuming, Jack
<1>13. CheckedRingInOrder'
  BY DEF CheckedRingInOrder, PopsInOrder, Checked, Channels, Jack
<1> QED BY <1>6, <1>7, <1>8, <1>9, <1>10, <1>11, <1>12, <1>13

-----------------------------------------------------------------------------
(* Steps of the playing thread. *)

ConsumerType ==
    [pc : {"idle", "shrink", "drop", "ports", "connect", "play", "pop", "copy"},
     chan : Channels, num : Frames \cup {0}, res : 0 .. BufferSize, dest : Seq(0 .. MaxSamples)]

\* A step that changes neither the rings nor the history has to keep what the
\* invariant says of the consumer.
LEMMA ConsumerOnly ==
  ASSUME Inv, UNCHANGED <<setup, rings, producer, put, taken>>,
         locked' \in {"none", "stream", "play"}, stream_is_on' \in BOOLEAN, xrun' \in BOOLEAN,
         notifier' \in {"idle", "looking", "queueing"}, consumer' \in ConsumerType,
         rings = <<>> => consumer'.pc \in {"idle", "ports", "connect", "play"},
         Consuming', CheckedRingInOrder'
  PROVE  Inv'
<1> USE DEF Inv
<1>1. TypeOK'
  BY DEF TypeOK, ConsumerType, Channels
<1>2. Counted' /\ SpaceAccounted'
  BY DEF Counted, SpaceAccounted, Channels
<1>3. Contents'
  BY DEF Contents, Channels, Checked, Jack, Unpublished
<1>4. BeforeRings' /\ Producing'
  BY DEF BeforeRings, Producing, Channels
<1> QED BY <1>1, <1>2, <1>3, <1>4

LEMMA ConsumerIdleFacts ==
  ASSUME TypeOK
  PROVE  /\ ConsumerIdle \in ConsumerType
         /\ \A n \in Frames \cup {0}, c \in Channels, pc \in {"idle", "shrink", "ports", "play", "pop"} :
                   /\ [ConsumerIdle EXCEPT !.pc = pc, !.num = n] \in ConsumerType
                   /\ [ConsumerIdle EXCEPT !.pc = pc, !.num = n, !.chan = c] \in ConsumerType
<1>1. <<>> \in Seq(0 .. MaxSamples)
  BY EmptySeq
<1>2. 0 \in 0 .. BufferSize /\ 1 \in Channels
  BY BufferSizeAssumption, ChannelsFacts, TypeFacts
<1> QED BY <1>1, <1>2 DEF ConsumerType, ConsumerIdle

LEMMA NextShrinkFacts ==
  ASSUME TypeOK
  PROVE  /\ NextShrink \in ConsumerType
         /\ NextShrink.pc \in {"shrink", "ports"} /\ NextShrink.dest = <<>>
<1>1. setup \in Setups /\ consumer.chan \in Channels /\ consumer.num \in Frames \cup {0}
  BY DEF TypeOK
<1>2. CASE consumer.chan = setup.channels
  BY <1>1, <1>2, ConsumerIdleFacts DEF NextShrink, ConsumerIdle
<1>3. CASE consumer.chan # setup.channels
  <2>1. consumer.chan + 1 \in Channels
    BY <1>1, <1>3, ChannelsFacts
  <2> QED BY <2>1, <1>1, <1>3, ConsumerIdleFacts DEF NextShrink, ConsumerIdle
<1> QED BY <1>2, <1>3

LEMMA NextPopFacts ==
  ASSUME TypeOK
  PROVE  /\ NextPop \in ConsumerType
         /\ NextPop.pc \in {"idle", "pop"} /\ NextPop.dest = <<>>
         /\ NextPop.pc = "pop" => NextPop.num = consumer.num /\ NextPop.chan = consumer.chan + 1
         /\ LockedAfterPop \in {"none", "stream", "play"}
<1>1. setup \in Setups /\ consumer.chan \in Channels /\ consumer.num \in Frames \cup {0}
  BY DEF TypeOK
<1>2. CASE LastPop
  BY <1>1, <1>2, ConsumerIdleFacts DEF NextPop, ConsumerIdle, TypeOK, LockedAfterPop
<1>3. CASE ~LastPop
  <2>1. consumer.chan + 1 \in Channels
    BY <1>1, <1>3, ChannelsFacts DEF LastPop
  <2> QED BY <2>1, <1>1, <1>3, ConsumerIdleFacts
          DEF NextPop, ConsumerIdle, TypeOK, LockedAfterPop
<1> QED BY <1>2, <1>3

LEMMA OnXRunInv == ASSUME Inv, OnXRun PROVE Inv'
<1> USE DEF Inv, OnXRun
<1>1. Consuming' /\ CheckedRingInOrder'
  BY DEF Consuming, CheckedRingInOrder, PopsInOrder, Checked, Channels, Jack
<1> QED BY <1>1, ConsumerOnly DEF TypeOK, ConsumerType, BeforeRings

LEMMA ShrinkAfterXRunInv ==
  ASSUME Inv, NEW nframes \in Frames, ShrinkAfterXRun(nframes) PROVE Inv'
<1> USE DEF Inv, ShrinkAfterXRun
<1>1. /\ consumer' \in ConsumerType
      /\ consumer'.pc \in {"shrink", "ports"}
      /\ rings = <<>> => consumer'.pc = "ports"
      /\ consumer'.dest = <<>>
  <2>1. 1 \in Channels
    BY ChannelsFacts, TypeFacts
  <2> QED BY <2>1, ConsumerIdleFacts DEF ConsumerIdle
<1>2. Consuming' /\ CheckedRingInOrder'
  BY <1>1 DEF Consuming, CheckedRingInOrder, PopsInOrder, Checked
<1> QED BY <1>1, <1>2, ConsumerOnly DEF TypeOK

LEMMA LoadUsageToShrinkInv == ASSUME Inv, LoadUsageToShrink PROVE Inv'
<1> USE DEF Inv, LoadUsageToShrink
<1> DEFINE c == consumer.chan
           res == get_usage(rings[c]) - Keep(consumer.num)
<1>0. c \in Channels /\ rings # <<>> /\ consumer.num \in Nat /\ consumer \in ConsumerType
  BY TypeFacts DEF BeforeRings, TypeOK, ConsumerType
<1>1. Keep(consumer.num) \in Nat
  BY <1>0 DEF Keep
<1>2. CASE get_usage(rings[c]) < Keep(consumer.num)
  <2>1. consumer' = NextShrink
    BY <1>2
  <2>2. Consuming' /\ CheckedRingInOrder'
    BY <2>1, NextShrinkFacts DEF Consuming, CheckedRingInOrder, PopsInOrder, Checked
  <2> QED BY <1>0, <2>1, <2>2, NextShrinkFacts, ConsumerOnly DEF TypeOK
<1>3. CASE ~(get_usage(rings[c]) < Keep(consumer.num))
  <2>1. consumer' = [consumer EXCEPT !.pc = "drop", !.res = res]
    BY <1>3
  <2>2. /\ get_usage(rings[c]) = put[c] - taken[c] /\ put[c] - taken[c] \in 0 .. BufferSize
    BY <1>0, UsageFacts, MaxSamplesAssumption, BufferSizeAssumption
  <2>3. res \in 0 .. BufferSize /\ res <= put[c] - taken[c]
    BY <2>2, <1>1, <1>3, BufferSizeAssumption
  <2>4. /\ consumer' \in ConsumerType
        /\ consumer'.pc = "drop" /\ consumer'.chan = c /\ consumer'.res = res
        /\ consumer'.dest = <<>>
    BY <2>1, <2>3, <1>0 DEF ConsumerType, Consuming
  <2>6. Consuming' /\ CheckedRingInOrder'
    BY <2>3, <2>4 DEF Consuming, CheckedRingInOrder, PopsInOrder, Checked
  <2> QED BY <1>0, <2>4, <2>6, ConsumerOnly DEF TypeOK
<1> QED BY <1>2, <1>3

LEMMA BeginPlayInv ==
  ASSUME Inv, NEW nframes \in Frames, BeginPlay(nframes) PROVE Inv'
<1> USE DEF Inv, BeginPlay
<1>1. consumer' \in ConsumerType /\ consumer'.pc \in {"ports", "play"} /\ consumer'.dest = <<>>
  <2>1. 1 \in Channels
    BY ChannelsFacts, TypeFacts
  <2> QED BY <2>1, ConsumerIdleFacts DEF ConsumerIdle
<1>2. Consuming' /\ CheckedRingInOrder'
  BY <1>1 DEF Consuming, CheckedRingInOrder, PopsInOrder, Checked
<1> QED BY <1>1, <1>2, ConsumerOnly DEF TypeOK

\* The wait for the queued ports, and their connection.
LEMMA QueuedPortsInv ==
  ASSUME Inv, LockQueuedPorts \/ ConnectQueuedPorts PROVE Inv'
<1> USE DEF Inv, LockQueuedPorts, ConnectQueuedPorts
<1>1. /\ consumer \in ConsumerType /\ consumer.pc \in {"ports", "connect"}
      /\ consumer.dest = <<>>
  BY DEF TypeOK, ConsumerType, Consuming
<1>2. /\ consumer' \in ConsumerType /\ consumer'.pc \in {"connect", "play"}
      /\ consumer'.dest = <<>>
  BY <1>1 DEF ConsumerType
<1>3. Consuming' /\ CheckedRingInOrder'
  BY <1>2 DEF Consuming, CheckedRingInOrder, PopsInOrder, Checked
<1> QED BY <1>2, <1>3, ConsumerOnly DEF TypeOK

\* A cycle that returns for want of a port's buffer.
LEMMA NoPortBufferInv == ASSUME Inv, NoPortBuffer PROVE Inv'
<1> USE DEF Inv, NoPortBuffer
<1>1. consumer' \in ConsumerType /\ consumer'.pc = "idle" /\ consumer'.dest = <<>>
  BY ConsumerIdleFacts DEF ConsumerIdle
<1>2. Consuming' /\ CheckedRingInOrder'
  BY <1>1 DEF Consuming, CheckedRingInOrder, PopsInOrder, Checked
<1> QED BY <1>1, <1>2, ConsumerOnly DEF TypeOK

\* on_port touches neither the rings nor the two other threads.
LEMMA NotifierInv == ASSUME Inv, NotifierStep PROVE Inv'
<1> USE DEF Inv, NotifierStep, OnPort, PortToConnect, OnPortReturns
<1>1. notifier' \in {"idle", "looking", "queueing"}
  OBVIOUS
<1>2. Consuming' /\ CheckedRingInOrder'
  BY DEF Consuming, CheckedRingInOrder, PopsInOrder, Checked, Channels, Jack
<1> QED BY <1>1, <1>2, ConsumerOnly DEF TypeOK, ConsumerType, BeforeRings

LEMMA CheckUsageInv == ASSUME Inv, CheckUsage PROVE Inv'
<1> USE DEF Inv, CheckUsage
<1>0. /\ consumer \in ConsumerType /\ consumer.num \in Nat /\ consumer.pc = "play"
      /\ setup \in Setups /\ locked' \in {"none", "stream", "play"}
  BY TypeFacts DEF TypeOK, ConsumerType, Jack
<1>1. CASE consumer' = ConsumerIdle
  <2>1. consumer'.pc = "idle" /\ consumer' \in ConsumerType /\ consumer'.dest = <<>>
    BY <1>1, ConsumerIdleFacts DEF ConsumerIdle
  <2>2. Consuming' /\ CheckedRingInOrder'
    BY <2>1 DEF Consuming, CheckedRingInOrder, PopsInOrder, Checked
  <2> QED BY <1>0, <2>1, <2>2, ConsumerOnly DEF TypeOK
<1>2. CASE consumer' = [consumer EXCEPT !.pc = "pop"] /\ ~write_zero
  <2>1. /\ rings # <<>> /\ ~(get_usage(rings[1]) < consumer.num)
    BY <1>2 DEF write_zero
  <2>2. 1 \in Channels
    BY <1>0, ChannelsFacts
  <2>3. consumer.num <= put[1] - taken[1] /\ put[1] - taken[1] <= BufferSize
        /\ put[1] - taken[1] \in Int
    BY <1>0, <2>1, <2>2, UsageFacts
  <2>4. /\ consumer' \in ConsumerType
        /\ consumer'.pc = "pop" /\ consumer'.num = consumer.num /\ consumer'.dest = <<>>
    BY <1>0, <1>2 DEF ConsumerType, Consuming
  <2>5. Consuming' /\ CheckedRingInOrder'
    BY <2>3, <2>4, <1>0, BufferSizeAssumption
    DEF Consuming, CheckedRingInOrder, PopsInOrder, Checked
  <2> QED BY <1>0, <2>1, <2>4, <2>5, ConsumerOnly DEF TypeOK
<1> QED BY <1>1, <1>2 DEF PortsBusy

\* The n oldest samples of ring c leave it.
LEMMA TakeSamples ==
  ASSUME Inv, rings # <<>>, NEW c \in Channels, NEW n \in Nat, NEW read \in 0 .. BufferSize,
         n <= put[c] - taken[c],
         Checked(c) => Pos(read) = Pos(rings[c].read + n),
         rings' = [rings EXCEPT ![c] = Freed(rings[c], read, n)],
         taken' = [taken EXCEPT ![c] = taken[c] + n],
         UNCHANGED <<setup, stream_is_on, xrun, producer, notifier, put>>,
         locked' \in {"none", "stream", "play"}, consumer' \in ConsumerType,
         Consuming', CheckedRingInOrder'
  PROVE  Inv'
<1> USE BufferSizeAssumption, MaxSamplesAssumption
<1>1. /\ rings \in [Channels -> Ring] /\ rings[c] \in Ring
      /\ put[c] \in 0 .. MaxSamples /\ taken[c] \in 0 .. MaxSamples
      /\ rings[c].available_size = BufferSize - (put[c] - taken[c])
      /\ put \in [Channels -> 0 .. MaxSamples] /\ taken \in [Channels -> 0 .. MaxSamples]
  BY UsageFacts DEF Inv, TypeOK
<1>2. /\ taken[c] + n \in 0 .. MaxSamples /\ taken[c] + n <= put[c]
      /\ rings[c].available_size + n <= BufferSize
      /\ rings[c].available_size + n = BufferSize - (put[c] - (taken[c] + n))
  BY <1>1
<1>3. /\ taken' \in [Channels -> 0 .. MaxSamples]
      /\ taken'[c] = taken[c] + n
      /\ \A d \in Channels : d # c => taken'[d] = taken[d]
  BY <1>1, <1>2
<1>4. /\ Freed(rings[c], read, n) \in Ring
      /\ Freed(rings[c], read, n).available_size = rings[c].available_size + n
  BY <1>1, <1>2, FreedFacts
<1>5. /\ rings' \in [Channels -> Ring]
      /\ rings'[c] = Freed(rings[c], read, n)
      /\ \A d \in Channels : d # c => rings'[d] = rings[d]
  BY <1>1, <1>4
<1>6. TypeOK'
  BY <1>3, <1>5 DEF Inv, TypeOK, Channels, ConsumerType
<1>7. Counted'
  <2>1. ASSUME NEW d \in Channels PROVE taken'[d] <= put[d] /\ put[d] - taken'[d] <= BufferSize
    <3>1. CASE d = c
      BY <3>1, <1>1, <1>2, <1>3 DEF Inv, Counted
    <3>2. CASE d # c
      BY <3>2, <1>3 DEF Inv, Counted
    <3> QED BY <3>1, <3>2
  <2> QED BY <2>1 DEF Counted, Channels
<1>8. SpaceAccounted'
  <2>1. ASSUME NEW d \in Channels
        PROVE  rings'[d].available_size = BufferSize - (put[d] - taken'[d])
    <3>1. CASE d = c
      BY <3>1, <1>2, <1>3, <1>4, <1>5
    <3>2. CASE d # c
      BY <3>2, <1>3, <1>5 DEF Inv, SpaceAccounted
    <3> QED BY <3>1, <3>2
  <2> QED BY <2>1 DEF SpaceAccounted, Channels
<1>9. Contents'
  <2>1. ASSUME NEW d \in Channels, Checked(d)
        PROVE  Holds(rings'[d], put[d] + Unpublished(d), taken'[d])
    <3>1. Holds(rings[d], put[d] + Unpublished(d), taken[d])
      BY <2>1 DEF Inv, Contents
    <3>2. CASE d = c
      <4>1. Unpublished(c) \in Nat
        BY TypeFacts DEF Unpublished, Inv
      <4>2. PICK s \in Nat : s = put[c] + Unpublished(c)
        BY <4>1, <1>1
      <4>3. taken[c] \in Nat /\ n <= s - taken[c] /\ Holds(rings[c], s, taken[c])
        BY <4>1, <4>2, <3>1, <3>2, <1>1
      <4>4. Pos(read) = Pos(rings[c].read + n)
        BY <2>1, <3>2
      <4>5. Holds(Freed(rings[c], read, n), s, taken[c] + n)
        BY <4>3, <4>4, <1>1, <1>2, FreedHolds
      <4> QED BY <3>2, <4>2, <4>5, <1>3, <1>5
    <3>3. CASE d # c
      BY <3>1, <3>3, <1>3, <1>5
    <3> QED BY <3>2, <3>3
  <2> QED BY <2>1 DEF Contents, Channels, Checked, Jack, Unpublished
<1>10. BeforeRings'
  <2>1. rings' # <<>>
    <3>1. DOMAIN rings' = Channels /\ DOMAIN <<>> = {}
      BY <1>5
    <3> QED BY <3>1
  <2>2. producer.pc # "update"
    BY DEF Inv, BeforeRings
  <2> QED BY <2>1, <2>2 DEF BeforeRings
<1>11. Producing'
  <2>1. producer.pc = "write" =>
          put[producer.chan] + producer.res - taken'[producer.chan] <= BufferSize
    <3> SUFFICES ASSUME producer.pc = "write"
                 PROVE  put[producer.chan] + producer.res - taken'[producer.chan] <= BufferSize
      OBVIOUS
    <3>1. /\ producer.chan \in Channels /\ producer.res \in Nat
          /\ put[producer.chan] \in Nat /\ taken[producer.chan] \in Nat
          /\ put[producer.chan] + producer.res - taken[producer.chan] <= BufferSize
      <4>1. producer.chan \in Channels /\ producer.res \in Nat
        BY TypeFacts DEF Inv
      <4>2. put[producer.chan] \in Nat /\ taken[producer.chan] \in Nat
        BY <4>1, <1>1
      <4>3. put[producer.chan] + producer.res - taken[producer.chan] <= BufferSize
        BY DEF Inv, Producing
      <4> QED BY <4>1, <4>2, <4>3
    <3>2. taken'[producer.chan] \in Nat /\ taken[producer.chan] <= taken'[producer.chan]
      <4>1. CASE producer.chan = c
        <5>1. taken'[c] = taken[c] + n /\ taken[c] \in Nat /\ n \in Nat
          BY <1>1, <1>3
        <5> QED BY <4>1, <5>1
      <4>2. CASE producer.chan # c
        BY <4>2, <3>1, <1>3
      <4> QED BY <4>1, <4>2
    <3>3. \A b, i, x, y, z \in Nat : b + i - x <= z /\ x <= y => b + i - y <= z
      OBVIOUS
    <3> QED BY ONLY <3>1, <3>2, <3>3, BufferSizeAssumption
  <2> QED BY <2>1 DEF Inv, Producing, Channels
<1> QED BY <1>6, <1>7, <1>8, <1>9, <1>10, <1>11 DEF Inv

LEMMA DropOldestInv == ASSUME Inv, DropOldest PROVE Inv'
<1> USE DEF DropOldest
<1> DEFINE c == consumer.chan
           read == (rings[c].read + consumer.res) % BufferSize
<1>0. TypeOK /\ BeforeRings /\ Consuming
  BY DEF Inv
<1>1. /\ c \in Channels /\ rings # <<>> /\ consumer.res \in Nat
      /\ consumer.res \in 0 .. BufferSize /\ consumer.res <= put[c] - taken[c]
  BY <1>0, TypeFacts DEF BeforeRings, Consuming
<1>2. rings[c].read + consumer.res \in 0 .. 2 * BufferSize
  <2>1. rings[c].read \in 0 .. BufferSize
    BY <1>1, UsageFacts DEF Ring
  <2> QED BY <2>1, <1>1, BufferSizeAssumption
<1>3. /\ read = Pos(rings[c].read + consumer.res) /\ read \in Cells
  BY <1>2, PosIsRemainder
<1>4. read \in 0 .. BufferSize /\ Pos(read) = Pos(rings[c].read + consumer.res)
  BY <1>3, BufferSizeAssumption DEF Cells, Pos
<1>5. /\ consumer' \in ConsumerType /\ consumer'.pc \in {"shrink", "ports"}
      /\ consumer'.dest = <<>>
  BY <1>0, NextShrinkFacts
<1>6. Consuming' /\ CheckedRingInOrder'
  BY <1>5 DEF Consuming, CheckedRingInOrder, PopsInOrder, Checked
<1>7. locked' \in {"none", "stream", "play"}
  BY <1>0 DEF TypeOK
<1> QED BY <1>1, <1>4, <1>5, <1>6, <1>7, TakeSamples DEF Shrunk

LEMMA LoadUsageInv == ASSUME Inv, LoadUsage PROVE Inv'
<1> USE DEF LoadUsage
<1> DEFINE c == consumer.chan
           res == Clipped(consumer.num, get_usage(rings[c]))
<1>0. TypeOK /\ BeforeRings /\ Consuming
  BY DEF Inv
<1>1. /\ c \in Channels /\ rings # <<>> /\ consumer.num \in Nat /\ consumer.pc = "pop"
      /\ consumer \in ConsumerType
  BY <1>0, TypeFacts DEF BeforeRings, TypeOK, ConsumerType
<1>2. /\ get_usage(rings[c]) = put[c] - taken[c] /\ put[c] - taken[c] \in 0 .. BufferSize
  BY <1>1, UsageFacts, MaxSamplesAssumption, BufferSizeAssumption
<1>3. CASE res = 0
  <2>1. consumer' = NextPop /\ locked' = LockedAfterPop
    BY <1>3
  <2>2. consumer' \in ConsumerType /\ locked' \in {"none", "stream", "play"}
    BY <2>1, <1>0, NextPopFacts
  <2>3. Consuming' /\ CheckedRingInOrder'
    <3>1. /\ consumer'.pc \in {"idle", "pop"} /\ consumer'.dest = <<>>
          /\ consumer'.pc = "pop" => consumer'.num = consumer.num /\ consumer'.chan # 1
      BY <2>1, <1>0, <1>1, NextPopFacts, ChannelsFacts, TypeFacts
    <3> QED BY <3>1, <1>0, <1>1 DEF Consuming, CheckedRingInOrder, PopsInOrder, Checked, Jack
  <2> QED BY <1>1, <2>2, <2>3, ConsumerOnly, <1>0 DEF TypeOK
<1>4. CASE res # 0
  <2>1. /\ consumer' = [consumer EXCEPT !.pc = "copy", !.res = res] /\ locked' = locked
    BY <1>4
  <2>2. res \in 0 .. BufferSize /\ res <= put[c] - taken[c]
    BY <1>1, <1>2, BufferSizeAssumption DEF Clipped
  <2>3. Jack /\ c = 1 => res = consumer.num
    BY <1>0, <1>1, <1>2 DEF Clipped, Consuming
  <2>4. /\ consumer' \in ConsumerType
        /\ consumer'.pc = "copy" /\ consumer'.chan = c /\ consumer'.res = res
        /\ consumer'.num = consumer.num /\ consumer'.dest = <<>> /\ Len(consumer'.dest) = 0
    BY <2>1, <2>2, <1>0, <1>1 DEF ConsumerType, Consuming
  <2>5. Consuming'
    BY <2>2, <2>3, <2>4, <1>0, <1>1 DEF Consuming, Jack
  <2>6. CheckedRingInOrder'
    BY <2>4 DEF CheckedRingInOrder, PopsInOrder, Checked
  <2> QED BY <1>1, <2>1, <2>4, <2>5, <2>6, ConsumerOnly, <1>0 DEF TypeOK
<1> QED BY <1>3, <1>4

LEMMA CopySampleInv == ASSUME Inv, CopySample PROVE Inv'
<1> USE DEF CopySample
<1> DEFINE c == consumer.chan
           k == Len(consumer.dest)
           sample == SampleAt(rings[c], k)
<1>0. TypeOK /\ BeforeRings /\ Consuming /\ CheckedRingInOrder /\ Contents
  BY DEF Inv
<1>1. /\ c \in Channels /\ rings # <<>> /\ consumer.pc = "copy"
      /\ consumer \in ConsumerType
  BY <1>0, TypeFacts DEF BeforeRings, TypeOK, ConsumerType
<1>2. /\ consumer.num \in Nat /\ consumer.res \in Nat /\ consumer.res \in 0 .. BufferSize
      /\ consumer.res <= put[c] - taken[c]
      /\ Jack => consumer.num <= BufferSize
      /\ ~Jack => k < consumer.res
      /\ Jack => k < consumer.num
  BY <1>0, <1>1, TypeFacts DEF Consuming, CopyLength
<1>3. consumer.dest \in Seq(0 .. MaxSamples) /\ k \in Nat
  BY <1>0, TypeFacts, LenProperties
<1>4. rings[c] \in Ring /\ sample \in 0 .. MaxSamples
  <2>1. k \in 0 .. BufferSize
    BY <1>2, <1>3, BufferSizeAssumption
  <2> QED BY <2>1, <1>1, UsageFacts, SampleTyped
<1>5. /\ Append(consumer.dest, sample) \in Seq(0 .. MaxSamples)
      /\ Len(Append(consumer.dest, sample)) = k + 1
      /\ \A i \in 1 .. k : Append(consumer.dest, sample)[i] = consumer.dest[i]
      /\ Append(consumer.dest, sample)[k + 1] = sample
  BY <1>3, <1>4, AppendProperties
<1>6. /\ consumer' \in ConsumerType
      /\ consumer'.pc = "copy" /\ consumer'.chan = c /\ consumer'.num = consumer.num
      /\ consumer'.res = consumer.res /\ consumer'.dest = Append(consumer.dest, sample)
  BY <1>1, <1>5 DEF ConsumerType
<1>7. Consuming'
  BY <1>0, <1>1, <1>2, <1>3, <1>5, <1>6 DEF Consuming, Jack
<1>8. CheckedRingInOrder'
  <2>1. ASSUME Checked(c), NEW i \in 1 .. k + 1, i <= consumer.res
        PROVE  Append(consumer.dest, sample)[i] = taken[c] + i
    <3>1. CASE i \in 1 .. k
      BY <2>1, <3>1, <1>0, <1>1, <1>5 DEF CheckedRingInOrder, PopsInOrder, Checked
    <3>2. CASE i = k + 1
      <4>1. Unpublished(c) \in Nat
        BY <1>0, TypeFacts DEF Unpublished
      <4>2. put[c] \in Nat /\ taken[c] \in Nat
        BY <1>1, UsageFacts, MaxSamplesAssumption
      <4>3. PICK s \in Nat : s = put[c] + Unpublished(c)
        BY <4>1, <4>2
      <4>4. Holds(rings[c], s, taken[c])
        BY <2>1, <4>3, <1>0, <1>1 DEF Contents
      <4>5. k < s - taken[c]
        <5>1. k < consumer.res
          BY <2>1, <3>2, <1>2, <1>3
        <5>2. s >= put[c]
          BY <4>1, <4>2, <4>3
        <5> QED BY <5>1, <5>2, <4>2, <1>2, <1>3
      <4>6. sample = taken[c] + k + 1
        BY <4>2, <4>4, <4>5, <1>3, <1>4, SampleHeld
      <4>7. Append(consumer.dest, sample)[i] = sample
        BY <3>2, <1>5
      <4>8. k \in Nat
        BY <1>3
      <4> HIDE DEF sample, k
      <4>9. taken[c] + k + 1 = taken[c] + i
        BY <3>2, <4>2, <4>8
      <4> QED BY <4>6, <4>7, <4>9
    <3> QED BY <3>1, <3>2, <1>3
  <2> QED BY <2>1, <1>5, <1>6 DEF CheckedRingInOrder, PopsInOrder, Checked, Jack
<1> QED BY <1>1, <1>6, <1>7, <1>8, ConsumerOnly, <1>0 DEF TypeOK

\* Both pops leave the read head on the oldest sample that stays, provided that
\* pop_samples was asked for no more than the ring holds.
LEMMA ReadAfterFacts ==
  ASSUME NEW r \in Ring, NEW n \in 0 .. BufferSize
  PROVE  /\ ReadAfterPop(r, n) \in 0 .. BufferSize
         /\ Pos(ReadAfterPop(r, n)) = Pos(r.read + n)
         /\ ReadAfterPopAsChannel(r, n) \in 0 .. BufferSize
         /\ Pos(ReadAfterPopAsChannel(r, n)) = Pos(r.read + n)
<1> USE BufferSizeAssumption
<1>1. PICK a \in 0 .. BufferSize : a = r.read
  BY DEF Ring
<1>2. a + n \in 0 .. 2 * BufferSize
  OBVIOUS
<1>3. (a + n) % BufferSize = Pos(a + n) /\ Pos(a + n) \in Cells
  BY <1>2, PosIsRemainder
<1>4. CASE BufferSize - a >= n
  BY <1>1, <1>3, <1>4 DEF ReadAfterPop, ReadAfterPopAsChannel, Pos, Cells
<1>5. CASE ~(BufferSize - a >= n)
  BY <1>1, <1>3, <1>5 DEF ReadAfterPop, ReadAfterPopAsChannel, Pos, Cells
<1> QED BY <1>4, <1>5

LEMMA FreeSpaceInv == ASSUME Inv, FreeSpace PROVE Inv'
<1> USE DEF FreeSpace
<1> DEFINE c == consumer.chan
           read == ReadAfter(rings[c])
<1>0. TypeOK /\ BeforeRings /\ Consuming
  BY DEF Inv
<1>1. /\ c \in Channels /\ rings # <<>> /\ consumer.pc = "copy"
      /\ consumer.num \in Nat /\ consumer.res \in Nat /\ consumer.res \in 0 .. BufferSize
      /\ consumer.res <= put[c] - taken[c]
      /\ Jack => consumer.num \in 0 .. BufferSize
      /\ Jack /\ c = 1 => consumer.res = consumer.num
  BY <1>0, TypeFacts, BufferSizeAssumption DEF BeforeRings, Consuming
<1>2. rings[c] \in Ring
  BY <1>1, UsageFacts
<1>3. /\ read \in 0 .. BufferSize
      /\ Checked(c) => Pos(read) = Pos(rings[c].read + consumer.res)
  <2>1. CASE Jack
    <3>1. read = ReadAfterPop(rings[c], consumer.num)
      BY <2>1 DEF ReadAfter
    <3> QED BY <2>1, <3>1, <1>1, <1>2, ReadAfterFacts DEF Checked
  <2>2. CASE ~Jack
    <3>1. read = ReadAfterPopAsChannel(rings[c], consumer.res)
      BY <2>2 DEF ReadAfter
    <3> QED BY <3>1, <1>1, <1>2, ReadAfterFacts
  <2> QED BY <2>1, <2>2
<1>4. consumer' = NextPop /\ consumer' \in ConsumerType /\ locked' \in {"none", "stream", "play"}
  BY <1>0, NextPopFacts
<1>5. Consuming' /\ CheckedRingInOrder'
  <2>1. /\ consumer'.pc \in {"idle", "pop"} /\ consumer'.dest = <<>>
        /\ consumer'.pc = "pop" => consumer'.num = consumer.num /\ consumer'.chan # 1
    BY <1>4, <1>0, <1>1, NextPopFacts, ChannelsFacts, TypeFacts
  <2> QED BY <2>1, <1>1 DEF Consuming, CheckedRingInOrder, PopsInOrder, Checked, Jack
<1> QED BY <1>1, <1>3, <1>4, <1>5, TakeSamples

-----------------------------------------------------------------------------
LEMMA NextInv == Inv /\ [Next]_vars => Inv'
<1> SUFFICES ASSUME Inv, [Next]_vars PROVE Inv'
  OBVIOUS
<1>1. CASE StreamStep
  BY <1>1, LockPortsInv, MakeRingsInv, ConnectPortsInv, HandoffInv, LoadSpaceInv, WriteSampleInv,
     PublishSamplesInv DEF StreamStep
<1>2. CASE OnXRun
  BY <1>2, OnXRunInv
<1>3. CASE BeginCycle
  BY <1>3, ShrinkAfterXRunInv, BeginPlayInv DEF BeginCycle
<1>4. CASE PlayStep
  BY <1>4, LoadUsageToShrinkInv, DropOldestInv, QueuedPortsInv, CheckUsageInv,
     NoPortBufferInv, LoadUsageInv, CopySampleInv, FreeSpaceInv DEF PlayStep
<1>5. CASE NotifierStep
  BY <1>5, NotifierInv
<1>6. CASE UNCHANGED vars
  BY <1>6 DEF vars, Inv, TypeOK, Counted, SpaceAccounted, Contents, BeforeRings, Producing,
     Consuming, CheckedRingInOrder, PopsInOrder, Checked, Channels, Jack, Unpublished
<1> QED BY <1>1, <1>2, <1>3, <1>4, <1>5, <1>6 DEF Next

\* The parts of the inductive invariant hold in every reachable state.
THEOREM Invariance == Spec => []Inv
  BY InitInv, NextInv, PTL DEF Spec

\* The types, and with them that the unsigned available_size_ neither wraps below 0
\* nor exceeds the size of the buffer.
THEOREM TypeCorrect == Spec => []TypeOK
<1>1. Inv => TypeOK
  BY DEF Inv
<1> QED BY <1>1, Invariance, PTL

\* available_size_ is the capacity less what was put and not taken, with two threads
\* that put, pop and shrink without a lock.
THEOREM Space == Spec => []SpaceAccounted
<1>1. Inv => SpaceAccounted
  BY DEF Inv
<1> QED BY <1>1, Invariance, PTL

\* The ring the cycle looked at, and every ring of PulseSink, plays its samples in
\* order, for rings, buffers and cycles of any size.
THEOREM InOrder == Spec => []CheckedRingInOrder
<1>1. Inv => CheckedRingInOrder
  BY DEF Inv
<1> QED BY <1>1, Invariance, PTL
-----------------------------------------------------------------------------
(* The checked rings are queues.                                            *)

\* The samples t + 1 .. s, in order.
Samples(t, s) == [k \in 1 .. s - t |-> t + k]

\* As many samples as the difference of their numbers.
LEMMA SamplesLength ==
  ASSUME NEW t \in Nat, NEW s \in Nat, t <= s
  PROVE  /\ Samples(t, s) \in Seq(Nat) /\ Len(Samples(t, s)) = s - t
         /\ \A k \in 1 .. s - t : Samples(t, s)[k] = t + k
<1>1. s - t \in Nat /\ \A k \in 1 .. s - t : t + k \in Nat
  OBVIOUS
<1> QED BY <1>1 DEF Samples

\* What is put stands behind what was put before.
LEMMA SamplesAppended ==
  ASSUME NEW t \in Nat, NEW s \in Nat, t <= s, NEW n \in Nat
  PROVE  Samples(t, s) \o Promise!Following(s, n) = Samples(t, s + n)
<1> DEFINE a == Samples(t, s)
           b == Promise!Following(s, n)
           c == Samples(t, s + n)
           m == s - t
<1>1. m \in Nat /\ t <= s + n /\ s + n \in Nat /\ (s + n) - t = m + n /\ t + m = s
  OBVIOUS
<1>2. a \in Seq(Nat) /\ Len(a) = m /\ \A k \in 1 .. m : a[k] = t + k
  BY SamplesLength
<1>3. c \in Seq(Nat) /\ Len(c) = m + n /\ \A k \in 1 .. m + n : c[k] = t + k
  BY ONLY <1>1, t \in Nat, SamplesLength
<1>4. b \in Seq(Nat) /\ Len(b) = n /\ \A k \in 1 .. n : b[k] = s + k
  <2>1. \A k \in 1 .. n : s + k \in Nat
    OBVIOUS
  <2> QED BY <2>1 DEF Promise!Following
<1> HIDE DEF a, b, c, m
<1>5. /\ a \o b \in Seq(Nat) /\ Len(a \o b) = m + n
      /\ \A k \in 1 .. m + n : (a \o b)[k] = IF k <= m THEN a[k] ELSE b[k - m]
  BY ONLY <1>2, <1>4, ConcatProperties
<1>6. ASSUME NEW k \in 1 .. m + n PROVE (a \o b)[k] = c[k]
  <2>1. CASE k <= m
    BY ONLY <2>1, <1>1, <1>2, <1>3, <1>5, k \in 1 .. m + n, n \in Nat
  <2>2. CASE ~(k <= m)
    <3>1. k - m \in 1 .. n /\ s + (k - m) = t + k
      BY <2>2, <1>1
    <3> QED BY ONLY <2>2, <3>1, <1>3, <1>4, <1>5, k \in 1 .. m + n
  <2> QED BY ONLY <2>1, <2>2
<1> QED BY ONLY <1>3, <1>5, <1>6, SeqEqual DEF a, b, c

\* What is left when the n oldest are removed.
LEMMA SamplesRemoved ==
  ASSUME NEW t \in Nat, NEW s \in Nat, NEW n \in Nat, t + n <= s
  PROVE  SubSeq(Samples(t, s), n + 1, s - t) = Samples(t + n, s)
<1> DEFINE a == Samples(t, s)
           m == s - t
           d == SubSeq(a, n + 1, m)
           c == Samples(t + n, s)
<1>1. /\ t <= s /\ m \in Nat /\ t + n \in Nat /\ s - (t + n) = m - n /\ m - n \in Nat
      /\ m - (n + 1) + 1 = m - n /\ n + 1 \in Nat
  OBVIOUS
<1>2. a \in Seq(Nat) /\ Len(a) = m /\ \A k \in 1 .. m : a[k] = t + k
  BY <1>1, SamplesLength
<1>3. c \in Seq(Nat) /\ Len(c) = m - n /\ \A k \in 1 .. m - n : c[k] = (t + n) + k
  BY <1>1, SamplesLength
<1> HIDE DEF a, c, m
<1>4. d \in Seq(Nat) /\ Len(d) = m - n /\ \A k \in 1 .. m - n : d[k] = a[n + k]
  BY <1>1, <1>2
<1>5. ASSUME NEW k \in 1 .. m - n PROVE d[k] = c[k]
  <2>1. n + k \in 1 .. m /\ t + (n + k) = (t + n) + k
    BY <1>1
  <2> QED BY <2>1, <1>2, <1>3, <1>4
<1> HIDE DEF d
<1> QED BY ONLY <1>3, <1>4, <1>5, SeqEqual DEF a, c, d, m
\* The cells in use, from the read head on, are the samples put and not taken.
LEMMA CellsAreSamples ==
  ASSUME NEW r \in Ring, NEW s \in Nat, NEW p \in Nat, NEW t \in Nat,
         Holds(r, s, t), p <= s, t <= p
  PROVE  [k \in 1 .. p - t |-> SampleAt(r, k - 1)] = Samples(t, p)
<1>1. ASSUME NEW k \in 1 .. p - t PROVE SampleAt(r, k - 1) = t + k
  <2>1. k - 1 \in Nat /\ k - 1 < s - t /\ t + (k - 1) + 1 = t + k
    OBVIOUS
  <2> QED BY <2>1, SampleHeld
<1> QED BY <1>1 DEF Samples

\* So the queue of the promise is what was put and not taken.
Queued ==
  \A c \in CheckedRings :
    /\ c \in Channels /\ taken[c] \in Nat /\ put[c] \in Nat /\ taken[c] <= put[c]
    /\ RingQueue(c) = Samples(taken[c], put[c])

LEMMA InvQueued == Inv => Queued
<1> SUFFICES ASSUME Inv, NEW c \in Channels, Checked(c)
             PROVE  /\ taken[c] \in Nat /\ put[c] \in Nat /\ taken[c] <= put[c]
                    /\ RingQueue(c) = Samples(taken[c], put[c])
  BY DEF Queued, CheckedRings
<1>1. CASE rings = <<>>
  <2>1. put[c] = 0 /\ taken[c] = 0
    BY <1>1 DEF Inv, BeforeRings
  <2>2. Samples(0, 0) = <<>>
    BY DEF Samples
  <2> QED BY <1>1, <2>1, <2>2 DEF RingQueue
<1>2. CASE rings # <<>>
  <2>1. /\ rings[c] \in Ring /\ put[c] \in Nat /\ taken[c] \in Nat /\ taken[c] <= put[c]
        /\ get_usage(rings[c]) = put[c] - taken[c]
    BY <1>2, UsageFacts, MaxSamplesAssumption
  <2>2. Unpublished(c) \in Nat
    BY TypeFacts DEF Inv, Unpublished
  <2>3. put[c] + Unpublished(c) \in Nat /\ put[c] <= put[c] + Unpublished(c)
    BY <2>1, <2>2
  <2>4. Holds(rings[c], put[c] + Unpublished(c), taken[c])
    BY <1>2 DEF Inv, Contents
  <2>5. [k \in 1 .. put[c] - taken[c] |-> SampleAt(rings[c], k - 1)] = Samples(taken[c], put[c])
    BY <2>1, <2>3, <2>4, CellsAreSamples
  <2> QED BY <1>2, <2>1, <2>5 DEF RingQueue
<1> QED BY <1>1, <1>2

\* The state of the promise.
Queues == [c \in CheckedRings |-> RingQueue(c)]
Puts == [c \in CheckedRings |-> put[c]]
Outs == [c \in CheckedRings |-> HandedOut(c)]

\* A step that puts nothing, takes nothing and hands out nothing keeps the queues,
\* whatever it does to the cells.
LEMMA QuietStep ==
  ASSUME Queued, Queued', UNCHANGED <<setup, put, taken>>,
         consumer' = consumer \/ (consumer.dest = <<>> /\ consumer'.dest = <<>>)
  PROVE  UNCHANGED <<CheckedRings, Puts, Queues, Outs>>
<1>1. CheckedRings' = CheckedRings
  BY DEF CheckedRings, Channels, Checked, Jack
<1>2. Puts' = Puts
  BY <1>1 DEF Puts
<1>3. \A c \in CheckedRings : RingQueue(c)' = RingQueue(c)
  BY <1>1 DEF Queued
<1>4. Queues' = Queues
  BY <1>1, <1>3 DEF Queues
<1>5. \A c \in CheckedRings : HandedOut(c)' = HandedOut(c)
  BY DEF HandedOut
<1>6. Outs' = Outs
  BY <1>1, <1>5 DEF Outs
<1> QED BY <1>1, <1>2, <1>4, <1>6

\* The fetch_sub of put_samples is a put of the promise.
LEMMA PublishIsPut ==
  ASSUME Inv, Queued, Queued', PublishSamples
  PROVE  \/ \E c \in CheckedRings : \E n \in 1 .. BufferSize : Promise!Put(c, n)
         \/ UNCHANGED <<CheckedRings, Puts, Queues, Outs>>
<1>0. PICK d \in Channels, n \in Nat : d = producer.chan /\ n = producer.res
  BY TypeFacts DEF Inv
<1>1. CheckedRings' = CheckedRings /\ setup' = setup /\ taken' = taken /\ consumer' = consumer
  BY DEF PublishSamples, CheckedRings, Channels, Checked, Jack
<1>2. /\ d \in Channels /\ n \in Nat /\ put[d] + n - taken[d] <= BufferSize
      /\ put' = [put EXCEPT ![d] = @ + n]
  BY <1>0, TypeFacts DEF PublishSamples, Inv, Producing
<1>3. put \in [Channels -> 0 .. MaxSamples]
  BY DEF Inv, TypeOK
<1>4. Outs' = Outs
  BY <1>1 DEF Outs, HandedOut
<1>5. \A c \in CheckedRings : c # d \/ n = 0 => put'[c] = put[c]
  BY <1>2, <1>3, MaxSamplesAssumption DEF Queued, CheckedRings
<1>6. \A c \in CheckedRings : put'[c] = put[c] => RingQueue(c)' = RingQueue(c)
  BY <1>1 DEF Queued
<1>7. CASE d \notin CheckedRings \/ n = 0
  <2>1. \A c \in CheckedRings : put'[c] = put[c]
    BY <1>5, <1>7
  <2> QED BY <2>1, <1>1, <1>4, <1>6 DEF Puts, Queues
<1>8. CASE d \in CheckedRings /\ n # 0
  <2>1. put[d] \in Nat /\ taken[d] \in Nat /\ taken[d] <= put[d] /\ put'[d] = put[d] + n
    BY <1>2, <1>3, <1>8 DEF Queued
  <2>2. RingQueue(d)' = RingQueue(d) \o Promise!Following(put[d], n)
    <3>1. RingQueue(d) = Samples(taken[d], put[d])
      BY <1>8 DEF Queued
    <3>2. RingQueue(d)' = Samples(taken[d], put[d] + n)
      BY <1>1, <1>8, <2>1 DEF Queued
    <3>3. Samples(taken[d], put[d]) \o Promise!Following(put[d], n) = Samples(taken[d], put[d] + n)
      BY <2>1, SamplesAppended
    <3> QED BY ONLY <3>1, <3>2, <3>3
  <2>3. Queues' = [Queues EXCEPT ![d] = @ \o Promise!Following(put[d], n)]
    BY <2>2, <1>1, <1>5, <1>6 DEF Queues
  <2>4. Puts' = [Puts EXCEPT ![d] = @ + n]
    BY <2>1, <1>1, <1>5 DEF Puts
  <2>5. Len(Queues[d]) + n <= BufferSize /\ Puts[d] = put[d]
    <3>1. Queues[d] = Samples(taken[d], put[d])
      BY <1>8 DEF Queued, Queues
    <3>2. Len(Queues[d]) = put[d] - taken[d]
      BY <3>1, <2>1, SamplesLength
    <3>3. (put[d] - taken[d]) + n <= BufferSize
      BY <1>2, <2>1, BufferSizeAssumption
    <3> QED BY <3>2, <3>3, <1>8 DEF Puts
  <2>6. n \in 1 .. BufferSize
    BY <1>2, <1>8, <2>1, BufferSizeAssumption
  <2>7. Promise!Put(d, n)
    BY <1>1, <1>4, <2>3, <2>4, <2>5 DEF Promise!Put, Queues, Puts, Outs
  <2> QED BY <1>8, <2>6, <2>7
<1> QED BY <1>7, <1>8

\* Taking the n oldest samples of ring d.
LEMMA TakenIsWithout ==
  ASSUME Queued, Queued', NEW d \in Channels, NEW n \in Nat, n <= put[d] - taken[d],
         UNCHANGED <<setup, put>>, taken \in [Channels -> 0 .. MaxSamples],
         taken' = [taken EXCEPT ![d] = @ + n]
  PROVE  /\ CheckedRings' = CheckedRings /\ Puts' = Puts
         /\ \A c \in CheckedRings : c # d => RingQueue(c)' = RingQueue(c)
         /\ d \in CheckedRings => RingQueue(d)' = Promise!Without(d, n)
         /\ d \in CheckedRings => Len(RingQueue(d)) = put[d] - taken[d]
<1>1. CheckedRings' = CheckedRings
  BY DEF CheckedRings, Channels, Checked, Jack
<1>2. \A c \in CheckedRings : c # d => RingQueue(c)' = RingQueue(c)
  BY <1>1 DEF Queued
<1>3. ASSUME d \in CheckedRings
      PROVE  /\ RingQueue(d)' = Promise!Without(d, n)
             /\ Len(RingQueue(d)) = put[d] - taken[d]
  <2>1. /\ put[d] \in Nat /\ taken[d] \in Nat /\ taken[d] <= put[d]
        /\ RingQueue(d) = Samples(taken[d], put[d])
    BY <1>3 DEF Queued
  <2>2. taken'[d] = taken[d] + n /\ taken[d] + n <= put[d]
    BY <2>1
  <2>3. RingQueue(d)' = Samples(taken[d] + n, put[d])
    BY <1>1, <1>3, <2>2 DEF Queued
  <2>4. Len(RingQueue(d)) = put[d] - taken[d]
    BY <2>1, SamplesLength
  <2>5. Promise!Without(d, n) = SubSeq(RingQueue(d), n + 1, Len(RingQueue(d)))
    BY <1>3 DEF Promise!Without
  <2>6. SubSeq(Samples(taken[d], put[d]), n + 1, put[d] - taken[d]) = Samples(taken[d] + n, put[d])
    BY <2>1, <2>2, SamplesRemoved
  <2> QED BY <2>1, <2>3, <2>4, <2>5, <2>6
<1> QED BY <1>1, <1>2, <1>3 DEF Puts

\* shrink_to drops.
LEMMA DropIsDrop ==
  ASSUME Inv, Queued, Queued', DropOldest
  PROVE  \/ \E c \in CheckedRings : \E n \in 1 .. Len(RingQueue(c)) : Promise!Drop(c, n)
         \/ UNCHANGED <<CheckedRings, Puts, Queues, Outs>>
<1>0. PICK d \in Channels : d = consumer.chan
  BY TypeFacts DEF Inv
<1> DEFINE n == consumer.res
<1>1. /\ n \in Nat /\ n <= put[d] - taken[d]
      /\ UNCHANGED <<setup, put>> /\ taken \in [Channels -> 0 .. MaxSamples]
      /\ taken' = [taken EXCEPT ![d] = @ + n]
      /\ consumer.dest = <<>> /\ consumer'.dest = <<>>
  BY <1>0, TypeFacts, NextShrinkFacts DEF DropOldest, Inv, Consuming, TypeOK
<1> HIDE DEF n
<1>2. /\ CheckedRings' = CheckedRings /\ Puts' = Puts
      /\ \A c \in CheckedRings : c # d => RingQueue(c)' = RingQueue(c)
      /\ d \in CheckedRings => RingQueue(d)' = Promise!Without(d, n)
      /\ d \in CheckedRings => Len(RingQueue(d)) = put[d] - taken[d]
  BY <1>1, TakenIsWithout
<1>3. \A c : HandedOut(c) = <<>> /\ HandedOut(c)' = <<>>
  BY <1>0, <1>1 DEF HandedOut
<1>4. Outs' = Outs
  BY <1>2, <1>3 DEF Outs
<1>5. CASE n = 0
  <2>1. taken' = taken
    BY <1>1, <1>5, MaxSamplesAssumption
  <2> QED BY <1>1, <2>1, QuietStep
<1>6. CASE d \notin CheckedRings
  BY <1>2, <1>4, <1>6 DEF Queues
<1>7. CASE d \in CheckedRings /\ n # 0
  <2>1. Queues' = [Queues EXCEPT ![d] = Promise!Without(d, n)]
    BY <1>2, <1>7 DEF Queues
  <2>2. Outs[d] = <<>> /\ n \in 1 .. Len(RingQueue(d))
    BY <1>1, <1>2, <1>3, <1>7 DEF Outs
  <2>3. Promise!Drop(d, n)
    BY <1>2, <1>4, <2>1, <2>2 DEF Promise!Drop, Queues, Puts, Outs
  <2> QED BY <1>7, <2>2, <2>3
<1> QED BY <1>5, <1>6, <1>7

\* The fetch_add of a pop removes what the pop handed out.
LEMMA FreeIsRemove ==
  ASSUME Inv, Queued, Queued', FreeSpace
  PROVE  \/ \E c \in CheckedRings : Promise!Remove(c)
         \/ UNCHANGED <<CheckedRings, Puts, Queues, Outs>>
<1>0. PICK d \in Channels : d = consumer.chan
  BY TypeFacts DEF Inv
<1> DEFINE n == consumer.res
<1>1. /\ n \in Nat /\ n <= put[d] - taken[d]
      /\ UNCHANGED <<setup, put>> /\ taken \in [Channels -> 0 .. MaxSamples]
      /\ taken' = [taken EXCEPT ![d] = @ + n]
      /\ consumer'.dest = <<>>
  BY <1>0, TypeFacts, NextPopFacts DEF FreeSpace, Inv, Consuming, TypeOK
<1>2. Checked(d) => Len(consumer.dest) = n
  BY <1>0 DEF FreeSpace, CopyLength, Checked, Inv, Consuming
<1>3. \A c : HandedOut(c)' = <<>> /\ (c # d => HandedOut(c) = <<>>)
  BY <1>0, <1>1 DEF HandedOut
<1>4. HandedOut(d) = consumer.dest
  BY <1>0 DEF HandedOut
<1> HIDE DEF n
<1>5. /\ CheckedRings' = CheckedRings /\ Puts' = Puts
      /\ \A c \in CheckedRings : c # d => RingQueue(c)' = RingQueue(c)
      /\ d \in CheckedRings => RingQueue(d)' = Promise!Without(d, n)
  BY <1>1, TakenIsWithout
<1>6. CASE d \notin CheckedRings
  <2>1. Queues' = Queues
    BY <1>5, <1>6 DEF Queues
  <2>2. Outs' = Outs
    BY <1>3, <1>5, <1>6 DEF Outs
  <2> QED BY <2>1, <2>2, <1>5
<1>7. CASE d \in CheckedRings
  <2>1. Queues' = [Queues EXCEPT ![d] = Promise!Without(d, n)]
    BY <1>5, <1>7 DEF Queues
  <2>2. Outs' = [Outs EXCEPT ![d] = <<>>]
    BY <1>3, <1>5, <1>7 DEF Outs
  <2>3. Len(Outs[d]) = n
    BY <1>2, <1>4, <1>7 DEF Outs, CheckedRings
  <2>4. Promise!Remove(d)
    BY <1>5, <2>1, <2>2, <2>3 DEF Promise!Remove, Queues, Puts, Outs
  <2> QED BY <1>7, <2>4
<1> QED BY <1>6, <1>7

\* A copied sample is handed out.
LEMMA CopyIsHandOut ==
  ASSUME Inv, Queued, Queued', CopySample
  PROVE  \/ \E c \in CheckedRings : Promise!HandOut(c)
         \/ UNCHANGED <<CheckedRings, Puts, Queues, Outs>>
<1>0. PICK d \in Channels : d = consumer.chan
  BY TypeFacts DEF Inv
<1> DEFINE k == Len(consumer.dest)
           sample == SampleAt(rings[d], k)
<1>1. /\ UNCHANGED <<setup, rings, put, taken>> /\ rings # <<>>
      /\ consumer'.chan = d /\ consumer'.dest = Append(consumer.dest, sample)
      /\ k \in Nat /\ consumer.num \in Nat /\ consumer.res \in Nat
  <2>1. TypeOK /\ consumer.pc = "copy" /\ rings # <<>>
    BY DEF CopySample, Inv, BeforeRings
  <2>2. consumer \in ConsumerType
    BY <2>1 DEF TypeOK, ConsumerType
  <2>3. k \in Nat
    BY <2>1, TypeFacts, LenProperties
  <2> QED BY <1>0, <2>1, <2>2, <2>3, TypeFacts DEF CopySample, ConsumerType
<1>2. Checked(d) => k < put[d] - taken[d]
  <2>1. put[d] - taken[d] \in Int /\ consumer.res <= put[d] - taken[d]
    BY <1>0, <1>1, UsageFacts, MaxSamplesAssumption DEF CopySample, Inv, Consuming
  <2>2. Checked(d) => k < consumer.res
    BY <1>0, <1>1 DEF CopySample, CopyLength, Checked, Inv, Consuming
  <2> QED BY <2>1, <2>2, <1>1
<1>3. CheckedRings' = CheckedRings /\ Puts' = Puts /\ Queues' = Queues
  <2>1. CheckedRings' = CheckedRings
    BY <1>1 DEF CheckedRings, Channels, Checked, Jack
  <2> QED BY <2>1, <1>1 DEF Puts, Queues, RingQueue
<1>4. \A c : c # d => HandedOut(c)' = HandedOut(c)
  BY <1>0, <1>1 DEF HandedOut
<1>5. HandedOut(d) = consumer.dest /\ HandedOut(d)' = Append(consumer.dest, sample)
  BY <1>0, <1>1 DEF HandedOut
<1>6. CASE d \notin CheckedRings
  BY <1>3, <1>4, <1>6 DEF Outs
<1>7. CASE d \in CheckedRings
  <2>1. RingQueue(d) = [i \in 1 .. put[d] - taken[d] |-> SampleAt(rings[d], i - 1)]
    BY <1>1, UsageFacts DEF RingQueue
  <2>2. put[d] - taken[d] \in Nat /\ Len(RingQueue(d)) = put[d] - taken[d]
    <3>1. /\ put[d] \in Nat /\ taken[d] \in Nat /\ taken[d] <= put[d]
          /\ RingQueue(d) = Samples(taken[d], put[d])
      BY <1>7 DEF Queued
    <3>2. put[d] - taken[d] \in Nat
      BY <3>1
    <3>3. Len(Samples(taken[d], put[d])) = put[d] - taken[d]
      BY ONLY <3>1, SamplesLength
    <3> QED BY ONLY <3>1, <3>2, <3>3
  <2>3. k < Len(RingQueue(d))
    BY <1>2, <1>7, <2>2 DEF CheckedRings
  <2>4. RingQueue(d)[k + 1] = sample
    <3>1. k + 1 \in 1 .. put[d] - taken[d] /\ (k + 1) - 1 = k
      BY <1>1, <2>2, <2>3
    <3> HIDE DEF k
    <3> QED BY <2>1, <3>1
  <2>5. Outs' = [Outs EXCEPT ![d] = Append(@, sample)]
    BY <1>3, <1>4, <1>5, <1>7 DEF Outs
  <2>6. Outs[d] = consumer.dest /\ Queues[d] = RingQueue(d)
    BY <1>5, <1>7 DEF Outs, Queues
  <2>7. Len(Outs[d]) < Len(Queues[d]) /\ Queues[d][Len(Outs[d]) + 1] = sample
    BY <2>3, <2>4, <2>6
  <2> HIDE DEF k, sample
  <2>8. Promise!HandOut(d)
    BY <1>3, <2>5, <2>7 DEF Promise!HandOut, Queues, Puts, Outs
  <2> QED BY <1>7, <2>8
<1> QED BY <1>6, <1>7

\* Every other step leaves the queues alone, a sample that is stored and not published
\* included.
LEMMA OthersAreQuiet ==
  ASSUME Inv, Queued, Queued', [Next]_vars,
         ~PublishSamples, ~DropOldest, ~FreeSpace, ~CopySample
  PROVE  UNCHANGED <<CheckedRings, Puts, Queues, Outs>>
<1>1. TypeOK /\ (consumer.pc # "copy" => consumer.dest = <<>>)
  BY DEF Inv, Consuming
<1>2. CASE StreamStep \/ OnXRun \/ NotifierStep \/ UNCHANGED vars
  <2>1. setup' = setup /\ put' = put /\ taken' = taken /\ consumer' = consumer
    <3>1. CASE LockPorts \/ MakeRings \/ LoadSpace \/ WriteSample \/ OnXRun
      BY <3>1 DEF LockPorts, MakeRings, LoadSpace, WriteSample, OnXRun
    <3>2. CASE \E size \in NewSizes : Handoff(size)
      BY <3>2 DEF Handoff
    <3>3. CASE SkipConnection \/ LockToAutoConnect \/ AutoConnected
      BY <3>3 DEF SkipConnection, LockToAutoConnect, AutoConnected
    <3>4. CASE NotifierStep
      BY <3>4 DEF NotifierStep, OnPort, PortToConnect, OnPortReturns
    <3>5. CASE UNCHANGED vars
      BY <3>5 DEF vars
    <3> QED BY <3>1, <3>2, <3>3, <3>4, <3>5, <1>2 DEF StreamStep
  <2>2. consumer' = consumer \/ (consumer.dest = <<>> /\ consumer'.dest = <<>>)
    BY <2>1
  <2> QED BY <2>1, <2>2, QuietStep
<1>3. CASE BeginCycle
  <2>1. /\ UNCHANGED <<setup, put, taken>> /\ consumer.dest = <<>>
        /\ consumer'.dest = <<>>
    BY <1>1, <1>3 DEF BeginCycle, ShrinkAfterXRun, BeginPlay, ConsumerIdle
  <2> QED BY <2>1, QuietStep
<1>4. CASE \/ LoadUsageToShrink \/ LockQueuedPorts \/ ConnectQueuedPorts
           \/ CheckUsage \/ NoPortBuffer \/ LoadUsage
  <2>1. UNCHANGED <<setup, put, taken>> /\ consumer.dest = <<>>
    BY <1>1, <1>4 DEF LoadUsageToShrink, LockQueuedPorts, ConnectQueuedPorts, CheckUsage,
                      NoPortBuffer, LoadUsage
  <2>2. consumer \in ConsumerType
    BY <1>1 DEF TypeOK, ConsumerType
  <2>3. consumer'.dest = <<>>
    <3>1. CASE LoadUsageToShrink
      BY <3>1, <1>1, <2>1, <2>2, NextShrinkFacts DEF LoadUsageToShrink, ConsumerType
    <3>2. CASE CheckUsage
      BY <3>2, <2>1, <2>2 DEF CheckUsage, PortsBusy, ConsumerIdle, ConsumerType
    <3>3. CASE LoadUsage
      BY <3>3, <1>1, <2>1, <2>2, NextPopFacts DEF LoadUsage, ConsumerType
    <3>4. CASE LockQueuedPorts \/ ConnectQueuedPorts \/ NoPortBuffer
      BY <3>4, <2>1, <2>2 DEF LockQueuedPorts, ConnectQueuedPorts, NoPortBuffer, ConsumerIdle,
                              ConsumerType
    <3> QED BY <3>1, <3>2, <3>3, <3>4, <1>4
  <2> QED BY <2>1, <2>3, QuietStep
<1> QED BY <1>2, <1>3, <1>4 DEF Next, PlayStep, StreamStep

\* The rings of the sinks implement the queues of audio-ring-buffer.hpp, for rings,
\* buffers and cycles of any size and any number of channels.
THEOREM Refinement == Spec => ImplementsQueue
<1>1. Init => Promise!QueueInit
  <2> SUFFICES ASSUME Init PROVE Promise!QueueInit
    OBVIOUS
  <2>1. \A c \in CheckedRings : put[c] = 0 /\ RingQueue(c) = <<>> /\ HandedOut(c) = <<>>
    BY DEF Init, CheckedRings, RingQueue, HandedOut, ConsumerIdle
  <2> QED BY <2>1 DEF Promise!QueueInit
<1>2. Queued /\ Queued' /\ Inv /\ [Next]_vars => [Promise!QueueNext]_(Promise!queueVars)
  <2> SUFFICES ASSUME Queued, Queued', Inv, [Next]_vars
               PROVE  Promise!QueueNext \/ UNCHANGED <<CheckedRings, Puts, Queues, Outs>>
    BY DEF Promise!queueVars, Puts, Queues, Outs
  <2>1. CASE PublishSamples
    BY <2>1, PublishIsPut DEF Promise!QueueNext
  <2>2. CASE DropOldest
    <3>1. \A c \in CheckedRings : Queues[c] = RingQueue(c)
      BY DEF Queues
    <3> QED BY <3>1, <2>2, DropIsDrop DEF Promise!QueueNext, Queues
  <2>3. CASE FreeSpace
    BY <2>3, FreeIsRemove DEF Promise!QueueNext
  <2>4. CASE CopySample
    BY <2>4, CopyIsHandOut DEF Promise!QueueNext
  <2> QED BY <2>1, <2>2, <2>3, <2>4, OthersAreQuiet
<1>3. Inv => Queued
  BY InvQueued
<1> QED BY <1>1, <1>2, <1>3, Invariance, PTL DEF Spec, ImplementsQueue, Promise!QueueSpec
=============================================================================
