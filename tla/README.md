# CSE461: specifications, model checking and proofs

The repository holds two programs.  `proj3` (C, pthreads) sends a buffer over
several TCP connections at once and puts it together again at the other end, in
order.  `proj1` and `proj2` (Java) are the client and the server of a four-stage
UDP/TCP exercise.  This directory holds TLA+ modules for both, the TLC
configurations that check them and proofs for TLAPS.  All paths below are
relative to `src/`.

## 1. Inventory

| Component | Source | State it keeps | Operations |
|---|---|---|---|
| multiplexing reader | `proj3/multiplex_reader.c` | hash table tag -> `buffer_info`, a waiting queue per buffer, the locals of each reader thread | `listen_for_block`, `handle_block` (init block, data block), `insert_dummy_buffer`, `handle_finished_buffer_prev`, `handle_finished_buffer_next` |
| wire format | `proj3/multiplex_standards.h` | - | init blocks and data blocks |
| multiplexing writer | `proj3/multiplex_writer.c` | the caller's `next_tag`; per queue a mutex and a condition variable | `multiplex_write_queues`, `write_block_to_queue`, `listen_for_blocks` (sender thread) |
| block queue | `proj3/queue.c` | doubly linked list, semaphore | `enqueue`, `dequeue`, `is_empty`, `free_queue` |
| hash table | `proj3/HashTable.c` | chained buckets, `num_elements`, two semaphores and a reader count | insert, lookup, remove, resize, iterators, free |
| linked list | `proj3/LinkedList.c` | nodes with links both ways, ends, count, iterators | push, pop, append, slice, sort, iterator calls |
| server, client, utils | `proj3/server.c`, `client.c`, `utils.c` | sockets, threads, `queues[]` | UDP handshake, TCP connections, `bounce_buffer`, `save_buffer` |
| proj1 client | `proj1/*.java` | secrets of the stages, sequence number | stages A to D, retransmission in B |
| proj2 server | `proj2/*.java` | stage, expected sequence number | stages A to D, validation |

How they interact.  The client asks for *n* connections in a UDP packet, the
server answers with a TCP port, the client connects *n* times.  On both sides
each connection gets a queue, a sender thread that empties it into the socket,
and a reader thread.  All readers of a program share one hash table.
`multiplex_write_queues` announces a buffer by an init block on the last queue,
cuts it into data blocks and spreads them over the queues.  The readers put the
blocks into the `buffer_info` of their tag; data that comes before its init
block is parked in a dummy's waiting queue.  The thread that counts the last
block of a buffer passes it to the handler if its predecessor has been passed,
otherwise it records itself in the predecessor's `next_tag` and leaves it to the
thread that passes the predecessor.  The server's handler, `bounce_buffer`,
writes the buffer to the server's queues from within the reader thread.

What is hard:

* *Reader*: almost everything is shared without a lock.  Races between lookup
  and insertion, between the drain of a waiting queue and a thread that adds to
  it, between a buffer's completion and its predecessor's, frees of objects
  other threads have looked up, recursion along `next_tag`, an uninitialised
  local (`buffer_kv`).  Correct means: whole buffers, once, in order, none lost.
* *Writer*: no lost wakeup, no reordering within a connection, connections that
  break while blocks are queued, the arithmetic of the cut.
* *Queue, hash table, list*: an operation of one thread must look atomic to the
  others; links, ends and counts must agree after every sequence of calls.
* *Handshake and connections*: UDP packets may be lost or repeated, the port is
  sent before the server listens, readers start while `queues[]` is still being
  filled, a reader closes the descriptor its sender thread goes on using, and a
  client process ends from within a reader thread.
* *proj1/proj2*: lost, repeated and late packets between a client that looks at
  nothing in an answer and a server that throws at a sequence number it does not
  expect; TCP reads that return parts of packets; four waits on each side that
  must end; legal random numbers that are zero.

`PROJECT.json` lists each of these hazards at its line, with the properties that
cover it.

## 2. The modules

| Module | Models |
|---|---|
| `MultiplexStandards` | wire format |
| `MultiplexReader` | every step of the reader threads, with the heap |
| `InOrderDelivery` | what the reader promises: buffers whole, once, in order |
| `MCMultiplexReader` | the streams the writer produces, small instances, refinement of `InOrderDelivery` |
| `MultiplexReaderInvariants`, `MultiplexReaderProofs` | the inductive invariants and the proofs about `MultiplexReader`: its types; the order of delivery; drain loops find their blocks; buffers are finished whole and passed once |
| `BlockSplit`, `MCBlockSplit`, `BlockSplitProofs` | the byte arithmetic of the cut; proofs about it |
| `MultiplexWriter`, `MCMultiplexWriter`, `MultiplexWriterProofs` | threads, queues, condition variables of the sending side; proofs about them |
| `BlockQueue`, `FIFOQueue`, `BlockQueueProofs` | `queue.c` by pointers, the atomic queue it implements, and the proof that it does |
| `HashTable`, `AtomicMap`, `HashTableProofs` | `HashTable.c` with its semaphores, the atomic map it implements, and the proof that it does |
| `Subsequence` | what is left of a sequence when only some elements are looked at, used by the writer; the facts about it are in `MultiplexWriterProofs` |
| `LinkedList`, `ListSequence`, `LinkedListProofs` | `LinkedList.c` by pointers, the sequence with a cursor it implements, and the proof that it does |
| `Session`, `MCSession`, `SessionProofs` | `server.c`, `client.c`, `utils.c`: handshake, connections, descriptors and the round trip of a buffer; proofs about it |
| `StageProtocol`, `StageLadder`, `StageProtocolProofs` | the client of `proj1` against the server of `proj2`, the order of secrets it implements, and proofs about both |

The layers rest on each other.  `LinkedList` implements `ListSequence`, so
`HashTable` may take a chain for a sequence.  `HashTable` implements
`AtomicMap` and `BlockQueue` implements `FIFOQueue`, so `MultiplexReader` and
`MultiplexWriter` may take each call of the table or of a queue as one step.
`BlockSplit` says what one call of `multiplex_write_queues` writes and where;
`MCMultiplexWriter` and `MCMultiplexReader` use its result (number of blocks and
stride) as programs and streams.  `Session` composes the parts of `proj3`: its
queues and connections carry blocks in order (`CarriesInOrder`), its readers
hand on a buffer when all its blocks have come (`InOrderDelivery`), its blocks
go where `BlockSplit` puts them.  `StageProtocol` stands alone.

### MultiplexReader

A step is one access to shared memory or one call of the table or of a queue;
any thread may run between two steps.  `pc[r]` names the next step of thread
`r`, `th[r]` holds the locals of `handle_block` and its callees under their
names in the source.

* *Heap.*  `info[o]` is the o-th `buffer_info` ever allocated, `queue[q]` the
  q-th waiting queue; pointers are indices, 0 is NULL.  `free` sets a flag.  The
  next step of a thread dereferences `InfoUsed(r)` and `QueueUsed(r)`; if one of
  those is dangling or NULL the process has no defined future: `BadAccess` sets
  `fault` and nothing moves any more.  `exit(1)` on a second init block is
  `DuplicateExit`.
* *Uninitialised locals.*  `handle_block` hands `buffer_kv` to
  `handle_finished_buffer_prev` even when its lookup failed and it was never
  set.  `kv` holds what the two stack slots (the outer call, the call nested in
  the drain loop) still contain from earlier calls.  `dequeue` leaves
  `old_block` alone when the queue is empty and the drain loop does not look at
  its result: the block handled next is then the one of the turn before, or, in
  the first turn, what an earlier call left in the slot.  `ub` records that
  such a value, which this call never set, has been used.  The Makefile builds
  without optimisation, where a slot keeps what the last call left there.
* *Recursion.*  `handle_finished_buffer_next` calls itself; `calls` is the stack
  of the callers' `done`.  `handle_block` calls itself from the drain loop, one
  level deep, because only data blocks are parked; `TypeOK` contains that fact.
* *Sizes* are counted in blocks: the reader only compares `n_written` with
  `buffer_size`.
* *Merged steps.*  `InitFill` (lines 150-158) and `Count` are the two regions
  guarded by the mutex of a `buffer_info`.  In `InitFill` the fields are stored
  in the order of the source with `valid` last, which the unoptimised x86 build
  keeps, and other threads look at them only after seeing `valid`.  The test of
  `valid` before it (line 145) takes no lock and is a step of its own
  (`InitValid`): two threads may pass it and both fill, the second with a new
  array.  `is_empty` and `dequeue` of the drain loop (`DrainTest`, `DrainBlock`)
  are two steps as well, each reading `waiting_queue` anew.  The allocation of a
  dummy and its insertion are one step, nobody else can see it before.
* *Inputs.*  `Streams` are the sequences of blocks per connection: those the
  writer produces (`MCStreams`), or every placement (`AnyStreams`) and repeated
  tags (`BounceStreams`; `server.c:161` numbers every bounced buffer from -1).
  `LateQueue` and `TwinInits` are larger placements chosen for two races the
  writer's own streams cannot meet: a queue that is replaced while it is being
  drained, and a buffer announced on two connections.
  `MayFail` lets a connection break between two blocks.  `Overlap = FALSE` makes
  the threads take turns at `handle_block`.

### The other modules

* `BlockSplit`: one step per turn of a loop of `multiplex_write_queues`, in
  bytes.  The code divides floats; the operands are integers below 2^24, for
  which comparison and truncation agree with integer arithmetic.  `Lengths` is
  therefore assumed below 2^24.  A length of 1 to `num_queues` - 1 makes
  `unif_size` 0 and the loop at `multiplex_writer.c:94` never ends; the run
  covers the other lengths.
* `MultiplexWriter`: a mutex and a condition variable per queue, spurious
  wakeups, connections that break, a send that is dropped or raises SIGPIPE.
* `BlockQueue`: one step per assignment to the shared list; cells come from and
  go back to `malloc` in any order; `enqueue` without memory exits.
* `HashTable`: one step per semaphore call, per node that `find` visits and per
  change.  `sem_post` adds one, so a superfluous post shows.  `malloc` may fail
  wherever it is called.  `ResizeHashtable` (line 424) inserts an `item` it has
  not read from the iterator.  The slot keeps its bytes, so the second insertion
  finds the key of the first, returns 2, and the resize gives up: the table
  never grows, contrary to `HashTable.h`, which promises it above a load of 3.
  Only a table whose count is too high because insertions failed for lack of
  memory can get further, with a single element (`ResizeSwap`: the pair nobody
  set becomes the table) or none (`HashTableMakeIterator` with `bucket_num`
  unset).  Both set `fault`, after which nothing is defined.  The new table is
  private to the resize; `growth.inserted` is all of it that matters.
* `LinkedList`: one step per call, since the table's semaphore admits one writer
  and readers do not write.  The client obeys the rules of `LinkedList.h`: no
  other change while an iterator exists, no use of an iterator whose last element
  was deleted.  Sorting is modelled by its sweeps, as many as the list has
  elements: the code stops after one that swaps nothing, and further ones would
  swap nothing either.

### Session

A step is a system call, a datagram or the handling of one block; client
processes, the server's main thread, a `serve_client` per session and a reader
and a sender thread per connection run in any order.

* *Handshake.*  `request[c]` and `answer[c]` are datagrams on their way; they may
  be lost, requests may be duplicated, and the answer may miss the 3 seconds
  (`HandshakeTimesOut`, a fault only while the answer can still come).  `main`
  keeps the order of the server's steps: bind, `SendPort`, `CreateThread`, and in
  the new thread `Listen`; a client that connects before is refused and tries
  again (`Refused`).
* *Descriptors.*  `fds` is the server's descriptor table.  `LowestFree` is the
  number the kernel gives out; `ReaderCloses` gives it back at the end of the
  stream; the sender thread keeps its copy.  `ServerSend` therefore asks what the
  number stands for *now*: nothing, a listening socket, a connection that is
  open, ended or reset, its own or another's.  SIGPIPE ends the server
  (`alive`).
* *Blocks.*  The init block goes to the last queue, the b-th data block to queue
  `b * stride % n`, `stride` being `unif_size` modulo n (`BlockSplit`).  All
  buffers start at tag -1, so a reader cannot tell whose block it got; `from`
  remembers it for the property.  A table is reduced to what has come, and a
  block is handled in one step, as if no other reader were inside
  `handle_block`.  That readers who are may lose a block between them
  (`reader_promise`, section 6) is the fault `ClientRaces` or `ServerRaces`
  (`"raced"`): the block is read and never gets into the table.
* *The end.*  `save_buffer` calls `exit` in a reader thread: everything that is
  queued or unread is cut off at an arbitrary point, connections with unread data
  are reset (`ProcessEnds`).  `Quit` is a client that someone stops, or whose 600
  seconds are over.
* *`queues[]`.*  `Bounce` uses all n entries.  If fewer have been accepted, `wild`
  is set and the process ends.  Connections may reach the server in another
  order than they were made only if the last packet of an earlier handshake is
  late (`"overtaken"`; with one NIC per connection they take different networks).

### StageProtocol

A step is a datagram, a read or write of TCP, or a timeout.  `udp[s]` are the
datagrams of socket s, `up` and `down` the TCP streams in words of four bytes.

* *Faults* (at most `MaxFaults`): `Lose`, `Duplicate`, `Overtake` of any datagram,
  a read that returns less than there is, a timer that runs out although what it
  waits for is about to come, a server that dies.  `seen` keeps their kinds, the
  properties name those they exclude.  A timeout with nothing to wait for is not
  a fault.
* *`PacketUtil.read`* reads at least length - 12 bytes, by calls that all write
  to the start of the buffer; what it returns is checked by the server only.
  `Filled` keeps what is in the buffer word by word, and `Valid` is the server's
  whole check: length returned, header, body.
* *What the client mistakes.*  In stage A any datagram is taken for a2, in stage B
  any for the acknowledgement, after it any for b2.  A misread packet gives a port
  nobody listens on, and the client ends with an exception (`"crashed"`).
* *Random numbers* range over `Nums1`, `Nums2`, `Lens2`, which contain 0 as
  `nextInt(50)` does.  Whether to leave a packet unacknowledged is a choice
  (`Refuse`, `Acknowledge`), with the forced refusal at the last packet.
* `run` catches every exception: the thread is `"failed"` and leaves its sockets
  open until they are collected (`Collect`).

## 3. The runs

All runs take at most about three minutes with two workers.

| Run | Instance | Shows |
|---|---|---|
| `reader_serial` | 3 threads, 2 buffers of 3 blocks, every stride, threads taking turns | `DeliversInOrder`: the reader implements `InOrderDelivery`, safety and liveness; in particular no block is dropped |
| `reader_overlap` | 3 threads interleaved at every step, 2 buffers of 3 blocks, the first spread and the second on one connection | `InOrder`, `WholeBuffers`, `PassedOnce`, `DrainFinds` |
| `reader_any_streams` | 2 threads, 2 buffers of 2 blocks, every placement, repeated tags, a buffer announced twice, a queue replaced while it is drained, connections breaking | `TypeOK`, `OrderInv` (the inductive invariant behind the order), `ThreadsReturn` |
| `split_queues` | 3 queues, blocks of at most 4 bytes, lengths 0 and 3 to 40, two calls | `Tiled`, `Capped`, `EnoughBlocks`, `CallReturns`, `TypeOK` |
| `writer_queues` | 2 queues, 2 writers, an init block and 2 data blocks each, breaks | `CarriesInOrder`, `AllSent`, `WritersReturn`, `TypeOK` |
| `block_queue` | 2 threads, 2 buffers, 3 cells | `ListOK`, `ActsAsQueue`, `OperationsReturn`, `TypeOK` |
| `hash_table` | 2 threads, 2 keys in one of 2 buckets, 2 values, failing `malloc` | `Exclusion`, `ChainsOK`, `ActsAsMap`, `OperationsReturn`, `TypeOK` |
| `linked_list` | 4 cells, 2 payloads | `LinksOK`, `ActsAsSequence`, `TypeOK` |
| `session` | one client on 3 connections, all data on the first, with one fault; one on 2 connections, data spread, with one fault, next to one that asks for too many; two clients with 1 connection each; any client stopped at any time | `QueuesReady`, `EndsHarmless`, `RoundTrip`, `TypeOK` |
| `stages` | 2 server threads, num1 of 0 to 2, num2 0 or 2, len2 0 or 4 words, 2 faults of any kinds | `InStep`, `AcceptedWhole`, `PrintedGenuine`, `ClimbsLadder`, `ThreadsEnd`, `RetriesRecover`, `TypeOK` |
| `reader_promise`, `session_crosstalk` | see section 6 | disagreements between code and documentation |

Why the bounds are enough.  *Reader*: the order is decided between a buffer
and its predecessor, so two buffers show each race on the order and the chain
of recursive calls; three threads let one park or complete while two others
are in the middle of a step each; three blocks leave one for each thread.  The
placements include data before its init block, a buffer complete before its
predecessor has been announced, and buffers on one connection only.  *Split*:
lengths up to 40 with 3 queues and 4 byte blocks run through divisors 1 to 4 and
every remainder; the proofs remove the bound.  *Writer*: two writers compete for
one mutex while its sender waits, holds it, or sends.  *Queue*: a list of three
has an inner node, and cells are reused.  *Hash table*: keys 0 and 2 collide in
bucket 0, `MaxElements = 6` is where two buckets trigger the resize, with two,
one or no pairs stored after failed insertions; the iterator of the resize stays
in that bucket.  *List*: with four nodes a
deletion or an insertion inside has neighbours that are not ends; by the 0-1
principle two payload values are enough for a bubble sort, whose sweeps compare
and swap neighbours only.  *Session*: two clients are what it takes for one to
get the other's descriptor; with three connections the buffer is complete on the
first while the last, with the init block, is not accepted; `MAX_CONN` is 3
instead of the 5 of `server.c:16`.  One fault is enough for each kind.  *Stages*: two threads are
what a duplicated a1 packet starts; two packets in stage B have a first and a
forced last one; two d1 packets can be mixed up by one buffer; two faults let a
loss meet a repetition or a late timer.

### Fairness

* *Reader*: weak fairness of each thread.  The scheduler runs every thread, no
  reader waits for another except for the short mutex regions, and a reader
  whose connection has no more blocks closes.  With `Overlap = FALSE` a thread
  waits for its turn only while another is inside `handle_block`.
* *Writer*: weak fairness of each thread; strong fairness of a writer's lock,
  because the model lets spurious wakeups of the sender recur for ever, which
  takes the mutex away infinitely often.  Nothing is assumed of wakeups, of
  breaks or of SIGPIPE.
* *Queue and hash table*: weak fairness inside an operation, strong fairness of
  `sem_wait`: a thread that finds the semaphore free again and again gets it in
  the end.  POSIX does not promise this for any scheduling policy, the Linux
  implementation wakes a waiter at every post.  No thread has to begin an
  operation.
* *Split*: weak fairness of the calling thread, none of the next call.
* *Session*: weak fairness of every thread and client, restricted to steps that
  are not faults (`NoFault /\ ...`).  No client has to be stopped.  The loop of
  `open_tcp` makes no progress by itself and needs none.
* *Stages*: weak fairness of the client and of every server thread, for steps
  that are not faults; a timer with nothing to wait for runs out.  Strong fairness
  of `Acknowledge`: the server refuses with probability 0.2, so not for ever.

`CHECK_DEADLOCK` is off for `stages` only, where the programs stop: a client
whose a1 or a2 packet is lost waits for ever (`Client.java:105` sets no timeout),
and otherwise client and threads end.  In the other runs, states in which the
program has stopped (all connections closed, the process gone, the last call
returned) have an explicit stuttering step.

## 4. What the properties say

* `InOrder`, `WholeBuffers`, `PassedOnce`, `DrainFinds` hold under every
  interleaving *as long as no thread has used an uninitialised `buffer_kv` or
  `old_block`* (`ub`).  With such a use nothing is promised.  `old_block` is
  never used unset for the streams of the writer: that is `DrainFinds`.
* `DrainFinds` is about line 240: a thread that finds no waiting queue in a
  buffer stores a new one, and if it is slow it stores it over another thread's.
  It says that this never happens between the `is_empty` and the `dequeue` of a
  drain loop.  It needs the streams of the writer.  When buffer 1 is complete
  before buffer 0 is announced (`LateQueue`), its thread leaves a dummy for buffer
  0 that has no queue; two data threads may then each store one, the second
  after the init thread has begun to drain the first, and the last block is
  handled again.
* `PassedOnce` holds for the streams of the writer because all init blocks share
  the last connection, so that one thread announces all buffers.  With init
  blocks on several connections a buffer can be taken both by the thread that
  completes it and by the chain of its predecessor.  `WholeBuffers` needs the
  same, because of the blocks handled twice above.
* `DeliversInOrder` needs the threads to take turns; with overlap, blocks are
  lost and buffers stranded (findings).  It is what the design guarantees, and a
  lock around `handle_block` would make it true of the program.
* `OrderInv` is a conjunction of named parts: tags and pointers in the table
  agree, what a thread at a given step knows of the object it holds, and that a
  thread about to enter the handler has seen the predecessor delivered.  It
  holds for every placement of the blocks.
* `OperationsReturn` of `HashTable`: lookups always return; an insertion or a
  removal returns if the table is without lookups now and then, since overlapping
  lookups can keep `wrt` for ever (readers' preference).  It covers the resize: it
  ends, whatever the resize does with a pair it never read.
* `ChainsOK` also says that the resize destroys the table (`fault`) only after
  failed insertions were counted.  With `MayRunOut = TRUE`, as in the run,
  `num_elements` is checked from one side only (no pair goes uncounted), since
  each failed insertion leaves it one too high; the theorem covers both values.
* `QueuesReady`: that a reader never meets an unset entry of `queues[]` rests on
  two facts far apart, that the init block goes to the *last* queue
  (`multiplex_writer.c:84`) and that connections are accepted in the order in
  which they were made.  The second one fails with several NICs if the last
  packet of a TCP handshake is late, and then the server may crash.
* `EndsHarmless`: the abrupt `exit` in `save_buffer`, with descriptors closed and
  used again, harms nobody: at that moment all blocks have been sent, so no sender
  thread has anything left for the closed descriptor.  It needs `quits = {}`: a
  client that is stopped earlier leaves queued blocks behind, which may raise
  SIGPIPE and end the server, or reach another client (section 6).
* `RoundTrip` holds although the port is sent before the server listens, and if
  the request is duplicated.  A lost datagram or a late answer ends the client
  (it sends its request once), and leaves a session that waits for ever.  It
  *assumes that no two overlapping readers lose a block* (no `"raced"`), neither
  in the client nor in the server.  The code does not guarantee that: it is the
  finding `reader_promise`, and with such a loss the file never comes back.
* `InStep` is why stage B works at all: the server is at most one packet ahead.
  When it is (an acknowledgement was lost), the repeated packet is an error to it
  (`ServerThread.java:131`).
* `AcceptedWhole`: whatever parts of packets the reads return, the server never
  takes a mixture of packets for valid ones and hands out secret D only when
  everything sent has been read.
* `PrintedGenuine`, `ClimbsLadder`: what the client prints was handed out to it by
  its own server thread, in order, unless it misread parts of a packet.
* `RetriesRecover`: with losses of b1 packets only, the client always comes to
  print all four secrets.  `NoEmptyStage` excludes the zeros of section 6.

## 5. What is proved

For every value of the constants, by TLAPS.  Each theorem rests on an inductive
invariant; those that are not themselves a property of a run were checked with
TLC on the instance of the run before they were proved (`BlocksInv`, whose guesses
are many, on that of `reader_overlap` with two threads).

| Module | Theorem | Property |
|---|---|---|
| `MultiplexReaderProofs` | `TypeCorrect`, `OrderPreserved`, `PassedInOrder`, `DrainsFind`, `BuffersWhole`, `BuffersPassedOnce` | `TypeOK`, `OrderInv`, `InOrder`, `DrainFinds`, `WholeBuffers`, `PassedOnce` |
| `BlockSplitProofs` | `SplitTypeCorrect`, `BlocksTile`, `BlocksFit`, `BlocksForAll` | `TypeOK`, `Tiled`, `Capped`, `EnoughBlocks` |
| `MultiplexWriterProofs` | `WriterTypeCorrect`, `QueuesCarryInOrder` | `TypeOK`, `CarriesInOrder` |
| `BlockQueueProofs` | `QueueTypeCorrect`, `ListWhole`, `ImplementsQueue` | `TypeOK`, `ListOK`, `ActsAsQueue` |
| `HashTableProofs` | `TableTypeCorrect`, `ReadersAndWriters`, `ChainsKept`, `ImplementsMap` | `TypeOK`, `Exclusion`, `ChainsOK`, `ActsAsMap` |
| `LinkedListProofs` | `ListTypeCorrect`, `LinksWhole`, `ActsAsASequence` | `TypeOK`, `LinksOK`, `ActsAsSequence` |
| `SessionProofs` | `SessionTypeCorrect`, `SessionQueuesReady`, `SessionEndsHarmless` | `TypeOK`, `QueuesReady`, `EndsHarmless` |
| `StageProtocolProofs` | `TypeCorrect`, `StaysInStep`, `HandsOutInOrder`, `AcceptsWhole`, `PrintsGenuine` | `TypeOK`, `InStep`, `ClimbsLadder`, `AcceptedWhole`, `PrintedGenuine` |

### The arguments

*Reader, types.*  `TypeOK` is inductive by itself: pointers are bounded by the
lengths of `info` and `queue`, which only grow (a well-typed object or set of
locals stays so in a larger heap), and the conjunct on the kind of block at each
step is kept because a step either keeps the block or sets it together with
`pc`.  One lemma per action.

*Reader, order.*  A buffer may be handed on only when its predecessor is `sent`,
and `sent` is set by whoever handed the predecessor on.  What makes that an
induction is `OrderInv`: the table leads from a tag to an object of that tag;
every filled object names the tag before its own; `sent` is set only on objects
whose tag has been delivered (`ObjectsOK`); and a thread past a check still knows
what it checked (`InitOK`, `DataOK`, `FinishOK`, one clause per step of
`handle_block` and its callees).  The proof has one lemma per action for the
thread that moves and frame lemmas for the others, which lose nothing because
tags are never changed and `sent` is never cleared (`Keeps`).  All of it is under
`~ub`: an uninitialised `buffer_kv` may hold any earlier pair, and no step can
then be relied on.

*Reader, drained queues.*  With the init blocks on one connection in the order
of their tags, only that connection's thread announces buffers and drains
queues, and by the time it drains the queue of tag t every earlier tag has been
announced and no later one (`TurnsInv`).  So no thread puts a dummy without a
queue in the table for a tag that is still to come; an object that has been
filled has its queue, or has had it drained; and a data thread on its way to
line 240 holds an object whose queue is not being drained (`QueueInv`).  What
`is_empty` saw is therefore still there at `dequeue`.

*Reader, whole buffers.*  `n_written` equal to the size means that all blocks are
there only if no block is counted twice and none is out of range.  Hence four
invariants (`BlocksInv`, under `~ub`).  `OnceInv`: each block is in one place, on its
connection, in one thread's hands, in one waiting queue, or in `written`.  A
waiting queue counts as a place only if it will be drained into the buffer that
gets filled, and while the init block of a tag has not been looked up nobody knows
which of several dummies that will be; so the invariant holds for every guess `e`
of it, and a step that looks the tag up turns the guess after it into one before.
`HoldInv` says which queue belongs to whom.  `CountInv`: `n_written` is the number of
blocks written, without those of threads between the copy and the count.  `Known`:
all blocks come from the set that was sent, whose numbers are `Within` the announced
size.  That a drained block is a new one is `DrainFinds`, so the theorem needs the
order of the init blocks besides `SentOnce`.  `WholeInv`: a thread that sees the full count therefore sees the full set,
and `completed` is set by such threads only.

*Reader, passed once.*  Two threads may come to pass a buffer: the one that
completes it, and the one that passed its predecessor and read `next_tag`.
`TokenInv` says that for each tag t the right to pass it is held once: by a thread
that finishes the buffer, or by the predecessor's `next_tag` which is still to be
read, or by the thread that has read it, or it has been used.  The last block is
counted once because counts only grow and come one at a time (`SpentInv`).  All of
this speaks of tags, and two filled objects of one tag would break it: `InitsInv`
says that the init blocks come on one connection in the order of their tags.
The hypothesis is needed: if buffer 1 is announced and complete before buffer 0 is
announced, its thread puts a dummy for buffer 0 in the table that already names it
(`multiplex_reader.c:272`); the chain of buffer 0 may follow that `next_tag` before
the thread reads `sent`, and then both pass buffer 1.

*Cut.*  `Tiled` speaks of the time between calls; `CutInv` says that during the
loop the blocks cover exactly the bytes before `i` (before the end, after the
last block), without overlap, and all end at or before `i`.  `BlocksFit` follows
from a lemma on quotients: `len <= b * m` implies `len \div m <= b`.
`BlocksForAll` adds `StrideInv`, that block k starts at byte `k * unif_size` and
goes to queue `k * unif_size % n`, and that a buffer of at least n bytes is cut
into at least n blocks.

*Writer.*  `Line(q)` is everything of queue q: sent, in the sender's hand,
queued.  Restricted to one writer and followed by what that writer still has to
write to q, it is what the writer was given for q (`Carried`); a step moves a
block along this line and changes nothing else.  When a connection breaks, what
was sent stays and is a prefix.  That what a writer has left is a suffix of its
program (`Suffix`) is in the type invariant.

*Queue.*  `Shape(c)`: there is a sequence c of distinct nodes, oldest first, such
that `prev` links go forward and `next` links backward along c, and each step inside
`enqueue` or `dequeue` differs from the quiet list in the one or two fields it has
not set yet (`Adding`, `Removed`, `Unlinked`).  `ListOK` reads the list by a
recursive function; that its walk is c is shown by induction on the number of
links.  For `ImplementsQueue` the abstract queue is the buffers of c: an enqueue
takes effect when the new node is linked to the tail, a dequeue when the tail
moves, and all other steps leave c alone.

*Hash table.*  `TableInv` has five parts: which steps belong to which operation
and what its arguments are there (`Locals`); the semaphores against the threads
inside (`Locking`: `wrt` is free, held by one writer, or held for all `readcount`
lookups, the counted ones being a finite set); the chains and where a walk may
stand (`Chains`, `WalkOK`); the count, which runs one ahead while a pair is being
added or taken out (`CountOK`); and the resize, which never leaves its first
bucket (`GrowthOK`).  For `ImplementsMap` the abstract map maps a
key to the value of its pair in its bucket.  Operations take effect at the
replacement, the push, the removal, or at the end of a walk that finds nothing;
failures of `malloc` map to the abstract failure.

*List.*  `Chain(c)`: the nodes in use are a sequence c without repetition; head and
tail are its ends, each node's links lead to its neighbours in c, `num_elements`
is its length, and the iterator stands in it.  Every call changes c in one of two
ways, by a node put in at a position (`Adds`) or taken out of one (`Drops`); at the
ends and for a single node, where the code branches, the lemmas differ but the
conclusion is the same.  `FromHead` is c and `FromTail` its reverse
by induction on the number of links followed, which is `LinksOK`.  For
`ActsAsSequence` the items are the payloads along c and the cursor is the
position of the iterator's node.  Sorting is the hard case: a swap of
neighbours keeps how often each payload occurs (`SameItems`); within sweep m+1,
the last m payloads stay `Settled` (in order, and none before them is greater)
and the one just compared is the greatest of those passed (`Sweeping`), so a
sweep settles one more and as many sweeps as there are elements sort the list.

*Session.*  Three invariants, each using those before it:

1. `TypeInv`: types; how far a client, its request and its session are together
   (`Handshake`); each session owes its existence to one datagram (`Budget`), so
   that there are never more than `MaxSessions`, nor descriptors than the table
   has places; what a session has accepted is what its client has made (`Served`);
   open descriptors belong to the threads and listeners that say so (`Descriptors`).
2. `ReadyInv`: an init block is only ever on the last connection of a client
   (`LastLinks`), and unless a handshake was overtaken a session's i-th connection
   is its client's i-th (`InTurn`).  Who has read the init block has
   therefore accepted them all, which is `QueuesReady`.
3. `TripInv`: as long as no client was stopped (`Trip`), the blocks of a client are
   somewhere on their way once (in its own hand, on a connection, in a table, in a
   queue of the server, on the way back), in the order of their numbers on
   each connection; tables hold only blocks of their own client; and what is
   queued or sent back was complete in the session's table before.  A client that
   saves its buffer has every block, so nothing is left anywhere: `EndsHarmless`.

*Stages.*  Five invariants, each using those before it:

1. `Stages`: types, which packets may be on their way to each socket (`Mail`),
   how far a thread is (`Granting`) and whose client it has (`Linked`: only the
   client that was given secret A by a thread ever learns its port).
2. `Pace`: acknowledgements on their way plus those received are no more than the
   packets the server accepted; b1 packets on their way are numbered no higher
   than the client's counter.  Both survive any loss and reordering, the first
   one every duplication but that of an acknowledgement.
3. `Heard`: a word with a secret is on its way to, or in the buffer of, a client
   only if its thread has handed out that secret (`Sayable`).
4. `Accounts`: words on their way, read into the buffer and accepted add up to
   what the client sent (`Balanced`); of a client that misread c2 nothing is
   accepted.  As the client sends no more packets than the server expects, a
   server that has accepted them all has left nothing in the stream.
5. `Lessons`: while no read of the client was short and its thread has not failed,
   each of packets c2 and d2 is either unread or whole in the buffer, and neither
   loop of the client ends before (`NoEarlyEnd`).  This needs that the stream is
   not reset, which is `Accounts`: a thread that is done has read everything.

For `ClimbsLadder` each step is shown to be a step of `StageLadder` or to leave
its variables alone.

### What the proofs assume

The named assumptions on the constants, which TLC evaluates in the runs:
`StandardsAssumption`, `ReaderAssumption`, `SplitAssumption`, `WriterAssumption`
(queues and writers are told apart, and a block names its writer),
`QueueAssumption`, `TableAssumption` (with `IsFiniteSet(Threads)`: a process has
finitely many threads, and the count of readers is a number only then),
`ValuesAssumption` (the NULL of a lookup that finds nothing is no value),
`ListAssumption` (payloads are integers other than 0, so that a list can be
sorted and an empty cell told apart), `SessionAssumption` (finitely many clients,
and "-" is none of them) and `StageAssumption` (threads are not sockets).  None bounds the number of threads,
buffers, blocks, queues, keys, nodes, clients, connections or faults; `BlockSplit` has the bound 2^24 of
section 2.

`DrainsFind`, `BuffersWhole` and `BuffersPassedOnce` state what they need of the
peer as their hypothesis, for all `Streams`: `InitsInOrder` (init blocks on one
connection, by ascending tags), and `BuffersWhole` also `SentOnce` (each block is
sent once and lies within the announced size).  That is what `multiplex_write_queues` sends (`multiplex_writer.c:71-115`);
that the streams of the runs satisfy it is `MCStreamsAssumption`, which TLC
evaluates.  Most streams of `reader_any_streams` do not, on purpose.

### Model-checked only

* Liveness (`ThreadsReturn`, `CallReturns`, `AllSent`, `WritersReturn`,
  `OperationsReturn`, `RoundTrip`, `ThreadsEnd`, `RetriesRecover`) and the liveness
  part of `DeliversInOrder`: progress under fairness and `ENABLED` are beyond the
  prover.
* `DeliversInOrder` as a whole: it adds to the proved safety parts that no block
  is dropped when the threads take turns, and that every buffer is passed.
* Facts about recursive operators beyond those named here: the prover has no
  induction over data, so `Subsequence`, the walks of `BlockQueue` and `LinkedList`,
  the bubble sort and `Written` of `Session` are functions, and the induction is
  one over the set of lengths for which a statement holds (lemma `Rising`).

## 6. Findings

| Run | Where | What |
|---|---|---|
| `reader_promise` | `multiplex_reader.c:118` | a block parked in a dummy that is replaced again is never looked at; all blocks are received, the buffer never completes |
| `session_crosstalk` | `multiplex_reader.c:61` | a sender thread keeps a descriptor its reader has closed; when the number is used again, one client gets another client's data and saves it |

`reader_promise` checks `ReceivedIsPassed`, the conjunction of two promises.
TLC stops at the first violation; each part is violated by itself and can be
checked by itself (put its name in `reader_promise.cfg`):

* `PayloadsAdded`: the lost block above (about 30 seconds).
* `WaitersAreSent` (`multiplex_reader.c:278`): a completed buffer and its
  predecessor miss each other, the buffer is never passed.

Met while modelling, without a run of their own:

* `multiplex_reader.c:120`: a dummy that other threads have looked up is freed
  (`BadAccess` in the model).
* `multiplex_writer.c:94`: the cut of a buffer shorter than the number of queues
  never ends.
* `multiplex_writer.c:112`: the queue is chosen by byte offset, not by block
  number.  With the client's own 210000 byte buffer on two connections `unif_size`
  is 15000, even, and every data block goes to the first connection.
  `EnoughBlocks` says exactly which queues are used.
* `HashTable.c:424`: the table never grows.  `HashTable.h` says it does at a load
  of 3.
* `HashTable.c:101`: `FreeHashTable` would loop for ever on a chain of two.  The
  code never gets there: no table the resize frees has more than one pair.
* `server.c:147`: with connections accepted out of order an unset entry of
  `queues[]` is used (states with `wild` in `session`).
* `utils.c:69`: SIGPIPE, raised by one stopped client, ends the server for all.
* `utils.c:116`: `open_tcp` tries for ever when the server is gone.
* `client.c:139`: a lost answer or a duplicated request leaves a session and its
  listening socket for ever.
* `ServerThread.java:93`: with `num1` = 0 the server knows only stage A's port,
  which is closed; its b2 packet is lost and the client ends with an exception
  after 500 ms.
* `ServerThread.java:187`: with `len2` = 0 and `num2` > 0 `PacketUtil.read` reads
  nothing and returns false; the server throws at a correct client.
* `ServerThread.java:131`: when an acknowledgement is lost the server throws at
  the repeated packet; the client repeats it for ever.
* `Client.java:147`: a repeated acknowledgement is taken for the b2 packet.
* `Client.java:79`, `89`: what `read` returns is ignored; after a short read the
  client may print a zero or wrong secret.

## 7. Not modelled

* `send_buffer` and `recieve_tcp`, which nothing calls; the timers of the
  benchmarks; `bind`, `pthread_create` and `accept` failing.  The client's own
  descriptors after its server is gone: it can only be stopped then.
* In `Session`, the races inside the reader step by step (they are
  `MultiplexReader`'s): only their outcome that matters here, a lost block, is a
  fault.  Both clients' buffers have the same number of blocks.
* In `StageProtocol`, `len1` and the bodies of a1 and b1 packets, which the server
  validates and the only client sends correctly; student ids; printing.
* `free_queue` takes no lock and is a step of `MultiplexReader` (`DrainFree`), not
  of `BlockQueue`; `print_queue` only prints.
* `HTIteratorGet`, `HTIteratorDelete` and the FNV hash: nothing calls them.
* Failing `malloc` in the reader and the writer: most of those calls are not
  checked.  `HashTable` and `LinkedList` do model it.
* Payload bytes, file contents, logging.
* Short reads of a TCP block in `proj3`: `recieve_tcp_block` loops until a block is
  whole, so a block arrives as one step.

## 8. Plan

1. *Proofs*: that a reader whose threads take turns drops no block, the safety part
   of `DeliversInOrder`, from `OnceInv` with equality in place of "at most one".
2. *Hash table*: keys in several buckets for the iterator of the resize, which
   multiplies the states of `hash_table` beyond what is practical today.
