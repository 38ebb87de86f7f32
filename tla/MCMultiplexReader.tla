-------------------------- MODULE MCMultiplexReader --------------------------
(***************************************************************************)
(* Small instances of MultiplexReader.  The streams are those the writer   *)
(* of the peer produces (proj3/multiplex_writer.c:71-115): the init block  *)
(* of a buffer goes to the last connection, and block k of the buffer, at  *)
(* byte k * unif_size, to connection (k * unif_size) % n.                  *)
(***************************************************************************)
EXTENDS MultiplexReader

CONSTANTS NumReaders, Cuts

MCReaders == 0 .. NumReaders - 1

(* What connection r carries of a buffer.  A cut is a number of blocks (at  *)
(* least as many as there are connections) and the stride unif_size % n.    *)
Part(r, tag, cut) ==
  (IF r = NumReaders - 1 THEN <<InitBlock(tag, tag - 1, cut[1], FALSE)>> ELSE <<>>) \o
  SelectSeq([k \in 1 .. cut[1] |-> DataBlock(tag, k - 1)],
            LAMBDA b : (b.seq_number * cut[2]) % NumReaders = r)

(* ... and of the buffers from tag on *)
Stream(r, cut) ==
  LET from[tag \in 0 .. NumBuffers] ==
        IF tag = NumBuffers THEN <<>> ELSE Part(r, tag, cut[tag]) \o from[tag + 1]
  IN from[0]

(* multiplex_write_queues numbers its buffers 0, 1, ... *)
MCStreams ==
  {[r \in MCReaders |-> Stream(r, cut)] : cut \in Cuts}

(* Those streams are as the theorems on WholeBuffers and PassedOnce suppose. *)
ASSUME MCStreamsAssumption == \A s \in MCStreams : SentOnce(s) /\ InitsInOrder(s)

ThreeWayCuts == [Tags -> {3} \X {0, 1, 2}]

(* The first buffer is spread over all connections, the others are not, so  *)
(* that two threads can complete consecutive buffers at the same time.      *)
MixedCuts == {[t \in Tags |-> IF t = 0 THEN <<3, 1>> ELSE <<3, 0>>]}

(* The wire format lets an init block travel on any connection, and         *)
(* README:85-87 prepares for a buffer that arrives before the one before    *)
(* it.  To see what the reader itself guarantees, whatever the writer: every*)
(* way to spread buffers of two blocks over two connections.                *)
AnyStreams ==
  LET buffer(tag) == <<InitBlock(tag, tag - 1, 2, FALSE)>> \o
                     [k \in 1 .. 2 |-> DataBlock(tag, k - 1)]
      part(r, tag, place) ==
        LET on(k) == place[tag, k] = r IN
        SelectSeq([k \in 1 .. 3 |->
                     IF on(k) THEN buffer(tag)[k] ELSE NoBlock],
                  LAMBDA b : b # NoBlock)
      stream(r, place) ==
        LET from[tag \in 0 .. NumBuffers] ==
              IF tag = NumBuffers THEN <<>> ELSE part(r, tag, place) \o from[tag + 1]
        IN from[0]
  IN {[r \in MCReaders |-> stream(r, place)] :
        place \in [Tags \X (1 .. 3) -> MCReaders]}

(* Buffer 1 is complete before buffer 0 is announced and leaves a dummy for *)
(* it that has no queue: two threads may each give it one, the second while *)
(* a drain loop empties the first.                                          *)
LateQueue ==
  [r \in MCReaders |->
     IF r = 0
       THEN <<InitBlock(1, 0, 1, FALSE), DataBlock(1, 0), DataBlock(0, 0)>>
       ELSE <<DataBlock(0, 1), DataBlock(0, 2), InitBlock(0, -1, 3, FALSE)>>]

(* Both connections announce buffer 0: two threads may pass the test for a  *)
(* second announcement before either fills the object.                      *)
TwinInits ==
  [r \in MCReaders |-> <<DataBlock(0, r), InitBlock(0, -1, 2, FALSE)>>]

(* bounce_buffer numbers every buffer from -1 again (proj3/server.c:161):   *)
(* a second bounced buffer comes with the tag of the first.                 *)
BounceStreams ==
  {[r \in MCReaders |-> Part(r, 0, first) \o Part(r, 0, second)] :
     first, second \in {1, 2} \X {0, 1}}

AllStreams == AnyStreams \cup BounceStreams \cup {LateQueue, TwinInits}

-----------------------------------------------------------------------------
(* Refinement of InOrderDelivery: a buffer consists of the data blocks of   *)
(* its tag that are held somewhere, be it a connection, a thread, a waiting *)
(* queue or the buffer itself.  A block that is dropped would change it.    *)
Wire == UNION {{conn[r][i] : i \in 1 .. Len(conn[r])} : r \in Readers}

InHand == {th[r].block : r \in {q \in Readers : pc[q] # "count"}} \ {NoBlock}

Parked ==
  UNION {{queue[q].blocks[i] : i \in 1 .. Len(queue[q].blocks)} :
           q \in {p \in 1 .. Len(queue) : ~queue[p].freed}}

Written(t) == UNION {info[o].written : o \in {p \in 1 .. Len(info) : info[p].tag = t}}

Content ==
  [t \in Tags |->
     Written(t) \cup {b.seq_number : b \in {c \in Wire \cup InHand \cup Parked :
                                              c.kind = "data" /\ c.tag = t}}]

Abstract == INSTANCE InOrderDelivery
              WITH content <- Content, wire <- Wire, passed <- delivered

(* The README's promise, safety and liveness: when the threads take turns   *)
(* at handle_block, the reader delivers every buffer, whole, once, and in   *)
(* order, and drops no block in between.                                    *)
DeliversInOrder == Abstract!AFairSpec
=============================================================================
