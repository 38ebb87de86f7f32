------------------------------ MODULE BlockSplit ------------------------------
(***************************************************************************)
(* multiplex_write_queues, proj3/multiplex_writer.c:71-115: how the bytes  *)
(* of one buffer are cut into data blocks and which queue each block is    *)
(* put on.  One step is one turn of a loop of the function.                *)
(*                                                                         *)
(* The code computes with floats.  Every number it compares or truncates   *)
(* is a quotient of integers below 2^24, where comparing and truncating    *)
(* a single precision quotient agrees with the integers, as long as        *)
(* divisor * num_queues stays small; so the model computes with integers.  *)
(***************************************************************************)
EXTENDS Integers, FiniteSets

CONSTANTS
  NumQueues,    \* one queue, and one sender thread, per connection
  BLOCK_SIZE,   \* the largest payload; the receiver allocates no more
  Lengths,      \* the buffer lengths the function is called with
  MaxTag        \* bound: the caller sends buffers with tags 0 .. MaxTag

ASSUME SplitAssumption ==
  /\ NumQueues \in Nat \ {0}
  /\ BLOCK_SIZE \in Nat \ {0}
  /\ Lengths \subseteq Nat /\ \A len \in Lengths : len < 2^24
  /\ MaxTag \in Nat

VARIABLES
  pc,          \* "idle" between calls
  next_tag,    \* the caller's counter, the tag of the last buffer it sent
  init,        \* the init block of this call, with its queue
  buf_len,     \* length of the current (or last) buffer
  divisor,
  unif_size,   \* payload of every block but the last
  i,           \* the byte the next block starts at
  out          \* the data blocks of this call, with their queues (a set:
               \* writing the same block again does not show)

vars == <<pc, next_tag, init, buf_len, divisor, unif_size, i, out>>

Queues == 0 .. NumQueues - 1

(* Mutant: the cap is off by one. *)
FitsLoosely(len, d) == len <= (BLOCK_SIZE + 1) * (d * NumQueues)

(* ~(buf_len / (divisor * num_queues) > BLOCK_SIZE) *)
Fits(len, d) == len <= BLOCK_SIZE * (d * NumQueues)

(* Mutants: rounds up; divides by the number of queues twice. *)
RoundedUp(len, d) == (len + d * NumQueues - 1) \div (d * NumQueues)

DividedTwice(len, d) == (len \div (d * NumQueues)) \div NumQueues

UnifSize(len, d) == len \div (d * NumQueues)

(* Mutant: the last block is as long as the others. *)
FullSize(n, m) == n

min(n, m) == IF n > m THEN m ELSE n

(* Mutant: the queues are counted from 1. *)
BlockFromOne(k) ==
  [queue |-> 1 + (k % NumQueues), tag |-> next_tag, seq_number |-> k,
   size |-> min(unif_size, buf_len - k)]

(* The block at byte k of the current buffer. *)
Block(k) ==
  [queue |-> k % NumQueues, tag |-> next_tag, seq_number |-> k,
   size |-> min(unif_size, buf_len - k)]

Init ==
  /\ pc = "idle" /\ next_tag = -1
  /\ init = [queue |-> 0, tag |-> -1, prev_tag |-> -1, buffer_size |-> 0]
  /\ buf_len = 0 /\ divisor = 1 /\ unif_size = 0 /\ i = 0
  /\ out = {}

(* The init block goes out before the buffer is cut, on the last queue. *)
Call ==
  /\ pc = "idle" /\ next_tag < MaxTag
  /\ next_tag' = next_tag + 1
  /\ buf_len' \in Lengths
  /\ init' = [queue |-> NumQueues - 1, tag |-> next_tag + 1, prev_tag |-> next_tag,
              buffer_size |-> buf_len']
  /\ divisor' = 1 /\ unif_size' = 0 /\ i' = 0 /\ out' = {}
  /\ pc' = "divide"

Divide ==
  /\ pc = "divide" /\ ~Fits(buf_len, divisor)
  /\ divisor' = divisor + 1
  /\ UNCHANGED <<pc, next_tag, init, buf_len, unif_size, i, out>>

StartLoop ==
  /\ pc = "divide" /\ Fits(buf_len, divisor)
  /\ unif_size' = UnifSize(buf_len, divisor)
  /\ pc' = "loop"
  /\ UNCHANGED <<next_tag, init, buf_len, divisor, i, out>>

WriteBlock ==
  /\ pc = "loop" /\ i < buf_len
  /\ out' = out \cup {Block(i)}
  /\ i' = i + unif_size
  /\ UNCHANGED <<pc, next_tag, init, buf_len, divisor, unif_size>>

Return ==
  /\ pc = "loop" /\ i >= buf_len
  /\ pc' = "idle"
  /\ UNCHANGED <<next_tag, init, buf_len, divisor, unif_size, i, out>>

(* The last call has returned. *)
Finished == pc = "idle" /\ next_tag = MaxTag /\ UNCHANGED vars

Next == Call \/ Divide \/ StartLoop \/ WriteBlock \/ Return \/ Finished

(* The calling thread keeps running; nothing forces another call. *)
Spec == Init /\ [][Next]_vars
FairSpec == Spec /\ WF_vars(Divide \/ StartLoop \/ WriteBlock \/ Return)

-----------------------------------------------------------------------------
TypeOK ==
  /\ pc \in {"idle", "divide", "loop"}
  /\ buf_len \in Nat /\ divisor \in Nat \ {0} /\ unif_size \in Nat /\ i \in Nat
  /\ next_tag \in -1 .. MaxTag
  /\ init \in [queue : Queues, tag : -1 .. MaxTag, prev_tag : -1 .. MaxTag,
               buffer_size : Nat]
  /\ out \subseteq [queue : Queues, tag : 0 .. MaxTag, seq_number : Nat, size : Nat]

(* The bytes a block carries. *)
Bytes(x) == x.seq_number .. x.seq_number + x.size - 1

(* The receiver copies a block to its seq_number and counts sizes until the *)
(* announced buffer_size is reached: so the blocks must carry every byte of *)
(* the buffer, no byte twice, and none beyond its end.                      *)
Tiled ==
  pc = "idle" =>
    /\ UNION {Bytes(x) : x \in out} = 0 .. init.buffer_size - 1
    /\ \A x, y \in out : x # y => Bytes(x) \cap Bytes(y) = {}

(* No block overruns what the receiver allocates for one, BLOCK_SIZE bytes  *)
(* and the header (multiplex_reader.c:48).                                  *)
Capped == \A x \in out : x.size <= BLOCK_SIZE

(* A buffer with a byte for every connection is cut into at least as many   *)
(* blocks as there are connections (what MCMultiplexReader assumes).  They  *)
(* go round the queues in strides of unif_size (multiplex_writer.c:112):    *)
(* all to queue 0 if that is a multiple of num_queues.                      *)
EnoughBlocks ==
  pc = "idle" /\ buf_len >= NumQueues =>
    /\ Cardinality(out) >= NumQueues
    /\ {x.queue : x \in out} = {(k * unif_size) % NumQueues : k \in 0 .. NumQueues - 1}

(* README:40, "Client breaks buffer-to-send into b blocks": cutting a    *)
(* buffer up comes to an end.                                               *)
CallReturns == pc # "idle" ~> pc = "idle"

=============================================================================
