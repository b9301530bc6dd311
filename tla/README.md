# Verification of the market data engine

TLA+ models of the programs under `src/src`, TLC runs that check them on small
instances, and TLAPS proofs of their safety properties for every instance.

## The system and its parts

A *generator* makes market data messages with increasing sequence numbers and
sends them over UDP.  An *engine* receives them, checks the sequence numbers
and counts what it processed, dropped and missed.  There are three engines:

* **v1** has an io thread (edge-triggered epoll, `recvmmsg`), a consumer and a
  reporter.  Frames are copied into the slots of a *frame pool*; slot indices
  travel `free` -> io thread -> `ready` -> consumer -> `free` through two
  lock-free rings.
* **v2** has the same threads, but the io thread reserves a batch of slots,
  receives into them and gives back what it did not use; it also keeps a
  latency histogram that the reporter empties.
* **v3** is one thread that polls a network card with DPDK, parses the
  Ethernet, IPv4 and UDP headers itself and releases the packet buffers.

A TCP server with the same frame pool is the alternative to v1's UDP server.

| Part | Source (`src/src/`) | Module | State |
|---|---|---|---|
| SPSC ring buffer | `containers/ring_buffer.hpp` | `RingBuffer`, `BoundedFifo` | modelled, proved |
| Frame pools | `containers/frame_pool.hpp`, `numa_frame_pool.hpp` | in the engines and `TcpServer` | modelled, proved |
| Sequence tracking, counters | `engine/v1,v2/engine.cpp`, `common/metrics` | `SeqTracker`, `SeqHistory`, `ProcessOne` | modelled, proved; snapshots are not |
| Engine v1, UDP server | `engine/v1`, `common/net/v1/udp_server.hpp` | `EngineV1` | modelled, proved |
| Engine v2 | `engine/v2` | `EngineV2` | modelled, proved |
| Latency report of v2 | `engine/v2` | `LatencyReport` | modelled, proved but for the quantiles |
| UDP receiver v2 | `common/net/v2/udp_receiver.cpp` | in `EngineV2` | by its results |
| Engine v3, DPDK source | `engine/v3` | `EngineV3` | modelled, proved |
| Packet parser | `engine/v3/engine.cpp` | `UdpPayload`, `ProcessOne` | modelled, proved |
| Wire format | `protocol` | `Wire` | modelled, proved |
| Blocking queue | `containers/blocked_bounded_queue.hpp` | `BlockedBoundedQueue` | modelled, proved |
| Generators, UDP client and sender | `generator`, `common/net/v1,v2` | `Generator` | modelled but for pacing, proved |
| The whole feed | | `Feed` | composed of `Generator`, `Wire`, `SeqTracker`, proved |
| TCP server with epoll, TCP client | `common/net/v1` | `TcpServer` | modelled, proved |
| Sanity check of quotes | `normalize` | in `Feed` | partly |
| Blocking TCP server, affinity, logger, `main`, stubs | | | not modelled |

*Proved* means that the safety properties its run checks are theorems; see
[the proofs](#the-proofs).  `PROJECT.json` lists all of them with the reason for what is left out, the
hazards of the code with the properties that cover them, and for every
definition the lines it stands for.

## The modules

**RingBuffer** gives `push` and `pop` one step per access to a shared location
(`head_`, `tail_`, a slot).  The counters are `size_t` and wrap at `Modulus`.
Memory order is sequentially consistent: each acquire/release pair orders the
slot access it protects, and `NoSlotRace` shows that the slots themselves are
never accessed by both sides at once.  `reset` happens while no call is under
way, as its callers do.  **BoundedFifo** is what a ring promises: a queue
whose calls take effect at one instant between call and return.  The
refinement mapping says where that instant is; a push that finds the ring full
takes effect at its *load of `head_`*, since the consumer may have made room
by the time it compares.

**SeqTracker** is the sequence check that the engines share, with the counters
of `Metrics` wrapping at `SeqModulus`; **SeqHistory** feeds it arbitrary
numbers and remembers which were processed.

**EngineV1** extends `SeqTracker`.  `ioPc`, `consPc` and `mainPc` are the
program counters of the three threads that share state; the reporter only
lives and ends.  Each system call of the io thread is a step, so `stop()` can
meet it before its descriptors exist, while it waits, or while it cleans up.
`sockEdge` and `wakeEdge` are the edges epoll has yet to report.  Ring calls
are atomic, which `RingRefinesFifo` justifies as long as each ring has one
producer: `SlotsConserved` implies that `ready.push` never fails, so only the
consumer pushes to `free`.  Two `run()` follow each other; the second one
meets an io thread that was not joined in state `terminated`.  A consumer that
ends before the io thread leaves frames in `ready`; the next `run()` initialises
the pool over them, and `abandoned` counts them.

**EngineV2** keeps `ready` atomic for the same reason.  `free` has two
producers, so its calls are spelled out access by access.  Sequence numbers
are left to `SeqTracker`: a frame is counted, as processed or as dropped.
Every call in `receive()` may fail, and `StopRelease` frees the pool.
**LatencyReport** is the other thing its consumer and reporter share: buckets,
a sample count and a maximum, all relaxed atomics, with one access per step.

**EngineV3** models the source's `open()` with each call of the driver able to
fail, the burst loop and `close()`.  The card takes free buffers from the pool
and queues them.  `main()` opens the source before `run()` opens it again.
**UdpPayload** is what `process_one` does to one packet: a packet is its length
and the values of its header fields, which need not agree, and `readEnd`
records the furthest byte looked at.  **ProcessOne** is `process_one` for packet
after packet: the parser, and `SeqHistory` for the messages that get through.

**Wire** is `encode` and `decode` on sequences of bytes, with the conversion
between signed fields and the unsigned numbers on the wire.  A byte has `B`
values, so that small instances have fields of a few bits.

**Generator** is both generators.  v2 has one step per slot of a burst and per
`sendmmsg`, which takes any part of the rest, reports a transient error or
fails; v1 sends each message as it is made.  The random numbers are those of
the code's generator, in the width that `B` gives.  **Feed** composes the
generator, a network that loses, duplicates and reorders, and the engine's
`decode` and `Track`.

**TcpServer** has the io thread with its array of connections indexed by
descriptor, the kernel's accept queue, descriptor table and edges, and the
clients, which connect, send and close at any point.  A byte is its
connection and its position in the stream.  `accept4` gives out the lowest
descriptor that is free, and fails when there is none.

**BlockedBoundedQueue** has one step per critical section, and the
notifications after the unlock are steps of their own.  The condition
variables may wake a thread for no reason.  The buffer is an array with
`head_`, `tail_` and `size_`; `live` is a history of what should be in it.

Operators marked *Fault* are variants of the definition that follows them, as a
slip in that code would make it.  They show that each property can fail.

## The runs

| Run | Checks | Bounds |
|---|---|---|
| `ring_buffer` | `NeverLapped`, `NoSlotRace`, `RefinesFifo` | capacity 4, counters modulo 8 (so they wrap with the ring in every fill state), two values |
| `process_one` | `ReadsInside`, `WellFormedDecoded`; `EveryFrameCounted`, `GapsBalance`, `GapsAreMissing`, `NoneProcessedTwice`, `ExpectedAdvances` | a first packet with lengths at and around every boundary the parser tests; numbers modulo 8, 10 frames: gaps, repeats, late numbers and the wrap |
| `engine_v1` | `SlotsConserved`, `FramesIntact`, `FramesAccounted`, `NoLostEdge`, `StopReturns` | 2 slots, batches of 2, 3 datagrams (repeated, late, after a gap, malformed) and dropped ones without end, two runs: the pool runs out and a slot is used again |
| `engine_v2` | `PoolOutlivesThreads`, `FramesAccounted`, `AbandonedOnlyAtStop`, `StopReturns` | 2 slots, counters modulo 4, 2 datagrams, two `receive()` |
| `engine_v2_cycle` | `CycleKeepsSlots`, violated | the same, one `receive()` |
| `latency_report` | `SamplesConserved`, `MaxTold`, `QuietReportExact` | two buckets and the one beyond, 4 frames, two runs |
| `engine_v3` | `MbufsConserved`, `SourceCleanedUp`, `ProcessedInOrder`, `StopEndsRun` | 3 buffers, bursts of 2, packets without end, two `run()` |
| `blocking_queue` | `BufferHoldsQueue`, `NoConsumerForgotten`, `NoProducerForgotten`, `CloseReleasesAll` | 2 producers, 2 consumers, capacity 2, 4 calls |
| `feed` | `WireInOrder`, `ProcessedAsMade`, `QuietFeedExact`, `SuccessIsComplete`, `CallsReturn` | both generators, 5 slots in bursts of 3, one retry, 2 calls, 2 faults of the network, bytes of one bit |
| `feed_holes` | `HolesSkipSpan`, violated | the same |
| `tcp_server` | `FramesWhole`, `FramesAccounted`, `SlotsConserved`, `NoConnForgotten`, `StopReturns` | 2 clients at a time with two frames and one, 2 slots, one descriptor past the array, two starts; bytes and clients without end at the last stop |
| `tcp_stop_joins` | `StopJoins`, violated | the same |

The interesting cases need few participants: a full and an empty ring, a slot
or a descriptor that is used a second time, a batch that is cut, a counter
that wraps.  The bounds leave room for these to happen, also one after the
other; every action fires in some passing run.  `Inputs` in the engines lists which datagrams
may come first, second and so on; how sequence numbers are tracked in every
order is `process_one`'s question.  In `feed` the bytes are narrow so that
negative prices, the largest sequence number and the wrap after it are within
reach; that encoding is right for bytes of eight bits is `WireRoundTrip`.

A bound on what arrives would hide that a loop which runs until nothing is left
may run for ever, so that `stop()` would seem to return from it.  Where a stop
has to end such a loop, arrivals therefore never end.  The states stay finite
because the MC module takes off the history what is settled, by a step of its
own that no thread can notice: `Recount` in `MCEngineV1` forgets a dropped
datagram, `Forget` in `MCEngineV3` a processed packet, and `Renumber` in
`MCTcpServer` counts the streams from 0 again and lets a new client come for one
that is gone.  (In `EngineV2` each pass of the receive loop tests `running_`,
and `stop()` closes the receiver; a bounded number of datagrams hides nothing
there.)

Deadlock is checked for the ring alone.  The other models stop where the
program does: the engines are stopped, the datagrams and calls are used up, or
threads wait in a queue that nobody fills.

**Findings.**  (1) In engine v2 both threads push to `free`, which
`ring_buffer.hpp` documents as single-producer.  `engine_v2_cycle` shows a push
delayed at its store of `tail_`: the late store moves `tail_` back and an
index that is in use is handed out again.  (2) `stop_server` of the TCP server
is documented to join its thread, but returns before that when the thread has
failed and cleared `handle.running` itself; `tcp_stop_joins` shows it.  The
UDP server has the same shape, and in `EngineV1` the next `run()` then ends
the program.  (3) The comments of both generators say that a hole skips
`gap_span` sequence numbers; the code skips `gap_span + 1`, as `feed_holes`
shows and as `QuietFeedExact` counts them.

Two things the models make visible are not findings, since nothing in the
repository says otherwise.  A shutdown of engine v1 or v2 can leave received
frames behind, neither processed nor counted: `abandoned` counts them in both
models, so that `FramesAccounted` says what became of every frame, and
`AbandonedOnlyAtStop` shows for v2 that they only occur once `running_` is
false.  And `stop()` of engine v1 or of the TCP server may never return; see
the next paragraph.

**Fairness.**  A thread that can take a step eventually takes one (`WF` on the
steps of each thread): the threads are not prioritised and block only in waits
that the model states.  No fairness is assumed of the network, the card, the
clients, the signals, or of anybody calling `run()`, `receive()` or `stop()`; a
call that has started goes on.  The waits of the io threads have a 500 ms
timeout in the code, which is why an `epoll_wait` can always return.  Weak
fairness of a thread as a whole does not choose between success and failure of
a call: no call has to succeed and none has to fail.  `StopReturns`
names the places where a thread may run for ever all the same.  The loops that
drain a descriptor look for `EAGAIN` and not at `handle.running`: v1's UDP
socket, the TCP server's connections and its accept queue are drained as long
as they are never found empty (`DrainsForEver`).  And at the end of a stream
the TCP server's receive loop does not end when the kernel keeps returning
empty messages (`spin`).  In each of these cases, and in no other, `stop()`
stays in `join()`.  Engine v3 looks at its flags after every burst, and
`StopEndsRun` has no exception.

## The proofs

TLC checks the properties on the instances above; TLAPS proves the theorems for
every value of the constants that the named assumptions of the modules allow.
Every safety property that a passing run checks is also a theorem, but for
`QuietReportExact`.  Each part follows the same plan: an inductive invariant
that implies the properties, one lemma or step per action, and a last temporal
step.  The bounds (`MaxRuns`, `MaxCalls`, `MaxFaults`, `MaxBytes`...) are
arbitrary in the proofs, so the theorems are about any number of runs, calls
and faults.

**Basics** has what several proofs need: the arithmetic of wrapping counters
(increments, distances, and that a capacity dividing the modulus makes the slot
of a counter well defined), quotients, and sequences of slots that are joined,
cut and emptied.

**LockFreeProofs**, the two structures shared without a lock.

* The ring, for every `Capacity` and every `Modulus` it divides (`size_t` and a
  power of two in the code).  `RingInv` is inductive where `NeverLapped` alone
  is not: the step that stores `tail_` relies on a test made earlier against an
  older `head_`.  `RingInv` adds that the `head_` a push holds is never newer
  than the real one (so the test errs only towards full), that the producer's
  `tail_` is its own, and that a slot stays as it is between its write and its
  publication, and between its read and its release.  `RingRefinesFifo` follows
  with lemmas on how the contents change when `tail_` or `head_` advances.
* The latency report, for every number and width of buckets.  Samples are
  counted as the set `Counted` of pairs of a bucket and a number, so that what
  one exchange takes from the histogram is a difference of finite sets
  (`BucketTaken`).  With the types, `SamplesConserved` and `MaxTold` are
  inductive as they stand.

**FeedProofs**, from a message to the whole feed.

* `WireRoundTrip`, for every size of a byte: `decode` gives back every field
  `encode` was given.  It rests on lemmas about the digits of a number and about
  reading at an offset what was appended there.
* The feed, for both generators and any burst, hole and retry parameters.
  `FeedInv` says how messages, holes and slots of a run add up (`SlotsUsed`),
  that the number of a message is its rank plus the lengths of the holes before
  it (`Numbers`), that what the kernel took is a prefix of what was made with
  the burst at its end (`Prefix`), that every datagram is an encoded message the
  kernel took (`Carried`, by `WireRoundTrip`), and, over a network that keeps
  the order, that what is under way is the end of what was sent and the engine's
  counters agree with the rest (`InOrder`).  `SentInOrder`, `ProcessedIsMade`,
  `RunIsComplete` and `QuietFeedIsExact` follow; the last one counts the inner
  holes as those before the last message less those before the first.
  `FieldsAssumption` is what the generators' arguments have to satisfy: what
  `make_message` computes fits its fields, and a run is too short for the
  sequence number, a `uint64_t`, to wrap.

**EngineV1Proofs**, for every pool size, batch size and list of datagrams, and
any number of runs.  The invariant says what each thread holds at each of its
steps, which threads can be alive at each step of `run()` and `stop()`, where
the slots are, and what became of the datagrams taken: those in flight and those
abandoned are one sum, which `run()` leaves as it is when it resets the pool, and
which every other step changes together with `taken` or with a counter.  `SlotsAreConserved`
gives `ReadyHasRoom`, which is what makes each ring single-producer.

**EngineV2Proofs**, engine v2 and the blocking queue.

* The engine, also with the two-producer ring misbehaving: the slots may be
  anywhere, but the order of the joins keeps the pool alive
  (`PoolIsNotUsedAfterRelease`), and no frame is counted twice or not at all
  (`FramesAreAccounted`, `NothingLeftWhileRunning`).
* The blocking queue, for any finite sets of producers and consumers and any
  capacity.  The two no-lost-wake-up properties are one statement, `Awake`,
  about the threads that wait, the threads that notify them and the number of
  things to wait for: elements for the consumers, free places for the
  producers.  Lemmas say which move of one thread keeps `Awake`, by counting
  threads per program counter; each action is such a move on both sides.  With
  the types, `Awake` is inductive as it stands.  `BufferIsQueue` rests on how a
  window of the circular buffer changes when an element is added behind it or
  taken from its front.

**EngineV3Proofs**, engine v3, its parser and the sequence tracking.

* The engine and its source, for any pool and burst size: buffers are counted in
  the queue, the burst and the pool, and packets are followed from delivery to
  processing.
* The parser: `PayloadInv` records which lengths are known at each stage;
  `ParserReadsInside` and `ParserComplete` hold for every packet.
* Sequence tracking, for every width of the counters.  `HistoryInv` adds to the
  properties that nothing is counted before the first frame and that until a
  wrap every processed number lies between the first and the expected one.
  From it: `FramesCounted`, `BalanceHolds` (also across a wrap),
  `GapsCountMissing`, `NoDuplicates` and the action property `NeverBack`.

**TcpServerProofs** and **TcpFramesProofs**, for any set of clients, any set of
descriptor numbers, any frame, buffer and pool size.  The first has the
invariant and its parts about the threads, the connections and the streams; the
second the pool, the frames handed on, and the theorems.  `ServerInv` has one
part for each thing the code relies on: which thread can be where (`Threads`);
that the descriptor table, epoll's set and the `conns` array agree (`Table`);
that a readable connection has an edge, an event in hand, or the io thread
reading it (`EdgeKept`); that the frame being put together and the chunk still
to be looked at continue the stream of the connection that has the descriptor
*now* (`Streams`), which is where a reused descriptor would go wrong; and that
a frame handed on is a complete one, older than what is being put together
(`Handed`).  `FramesAreAccounted` counts the complete frames as a set of pairs,
whose difference at a step of `consume_frames` is the frame completed.

Only model-checked:

* `QuietReportExact`.  The quantiles are sums over the buckets and ranks among
  the samples, and what such a fold computes for every histogram needs an
  induction over data, which is out of the prover's reach.
* Liveness (`StopReturns`, `StopEndsRun`, `CloseReleasesAll`, `CallsReturn`),
  which needs fairness and `ENABLED`.
* The three findings, which are counterexamples.

## What is not modelled

* Weak memory.  The flags (`running_`) are read late at worst, which
  interleaving already allows; the rings use acquire and release.  The relaxed
  atomics of the latency report are in program order, which is what an x86
  build does; the language would allow more.
* The UDP receiver's plain descriptors, which `close()` changes under the io
  thread: what a racing call does depends on which descriptors the process
  opens in between.  `EngineV2` lets such a call fail, or time out.
* `receive_one` and the blocking TCP server, which nothing uses.
* `Metrics::snapshot` and `to_string`, the statistics of sender, receiver and
  generator, logging: they are only printed.
* The generator's pacing: it decides when a message is sent, not which.
* `run()` on an engine v1 that is running, and a `receive()` of v2 without the
  `stop()` that belongs before it; no program does either.
* IP fragments and checksums, thread affinity, argument parsing, empty stubs.
