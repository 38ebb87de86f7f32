------------------------- MODULE MultiplexStandards -------------------------
(***************************************************************************)
(* The wire format shared by the multiplexing writer and reader            *)
(* (proj3/multiplex_standards.h).  A buffer is cut into data blocks; an    *)
(* init block announces it.  Sizes and offsets are counted in whole data   *)
(* blocks: the reader only ever compares the amount written with the size  *)
(* announced, so the unit does not matter as long as both use the same.    *)
(* The byte arithmetic of the cut itself is modelled in BlockSplit.        *)
(***************************************************************************)
EXTENDS Integers, Sequences

CONSTANTS
  NumBuffers,    \* how many buffers one sender transmits
  MaxSize        \* bound: the largest number of data blocks in a buffer

ASSUME StandardsAssumption ==
  /\ NumBuffers \in Nat \ {0}
  /\ MaxSize \in Nat

NO_TAG == -1

(* multiplex_write_queues numbers the buffers of a message 0, 1, 2, ... *)
Tags == 0 .. NumBuffers - 1
Keys == Tags \cup {NO_TAG}

InitBlocks ==
  [kind : {"init"}, tag : Tags, prev_tag : Keys,
   buffer_size : 0 .. MaxSize, last_block : BOOLEAN]

DataBlocks == [kind : {"data"}, tag : Tags, seq_number : 0 .. MaxSize - 1]

Blocks == InitBlocks \cup DataBlocks

InitBlock(tag, prev, size, last) ==
  [kind |-> "init", tag |-> tag, prev_tag |-> prev,
   buffer_size |-> size, last_block |-> last]

DataBlock(tag, seq) == [kind |-> "data", tag |-> tag, seq_number |-> seq]

=============================================================================
