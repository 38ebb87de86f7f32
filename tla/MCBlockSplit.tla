----------------------------- MODULE MCBlockSplit -----------------------------
(* Small instances of BlockSplit. *)
EXTENDS BlockSplit

CONSTANT MaxLen    \* bound: the longest buffer

(* Every length the cut ends for: with 1 .. NumQueues - 1 bytes unif_size   *)
(* is 0 and the loop turns for ever.                                       *)
LongEnough == {0} \cup NumQueues .. MaxLen
=============================================================================
