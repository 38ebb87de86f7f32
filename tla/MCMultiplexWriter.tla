-------------------------- MODULE MCMultiplexWriter --------------------------
(***************************************************************************)
(* Small instances of MultiplexWriter.  Each writer writes one buffer, cut *)
(* as multiplex_writer.c:84-114 does: the init block, as number 0, to the  *)
(* last queue, then data block k, which starts at byte k * unif_size, to   *)
(* queue (k * unif_size) % n; the stride is unif_size % n.                 *)
(***************************************************************************)
EXTENDS MultiplexWriter

CONSTANTS NumQueues, NumWriters, NumBlocks

MCQueues == 0 .. NumQueues - 1
MCWriters == NumQueues .. NumQueues + NumWriters - 1

Program(w, stride) ==
  <<[queue |-> NumQueues - 1, block |-> [by |-> w, number |-> 0]]>> \o
  [k \in 1 .. NumBlocks |->
     [queue |-> ((k - 1) * stride) % NumQueues, block |-> [by |-> w, number |-> k]]]

MCPrograms ==
  {[w \in MCWriters |-> Program(w, stride)] : stride \in 0 .. NumQueues - 1}
=============================================================================
